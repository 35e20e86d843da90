---------------------------- MODULE HealthChecker ----------------------------
(***************************************************************************)
(* The health checker (health_checker.go): a loop that sends every pooled  *)
(* connection a heartbeat, keeps a verdict per device and reports a verdict *)
(* that differs from the one before.                                       *)
(*                                                                         *)
(* The loop looks at the checker's current context, so that a loop whose   *)
(* monitoring was stopped and started again while it was checking goes on  *)
(* next to the new one.  A check may take half a minute and holds no lock; *)
(* only the exchange of the verdicts does.  What makes a heartbeat that    *)
(* was answered good enough (signal, latency, errors, activity) is chosen. *)
(***************************************************************************)
EXTENDS Integers, FiniteSets

CONSTANTS
    Checked,  \* device identifiers
    Loops     \* bound: loops at one time

HealthAssumption == IsFiniteSet(Loops)

VARIABLES
    alive,       \* the pooled connections: device to whether it is active
    monitoring,  \* isMonitoring
    ctxDone,     \* monitoringCtx has ended
    verdicts,    \* deviceStatuses: "none", "healthy" or "ill"
    loop,        \* each loop: where it is, the devices left, the device and its verdict
    owed         \* history, per device and verdict: changes to it less reports of it

vars == <<alive, monitoring, ctxDone, verdicts, loop, owed>>

Verdicts == {"healthy", "ill"}
Places == {"none", "waiting", "beating", "verdict", "reporting"}
Waiting == [at |-> "waiting", left |-> {}, device |-> "none", verdict |-> "none"]
NoLoop == [Waiting EXCEPT !.at = "none"]

TypeOK ==
    /\ DOMAIN alive \subseteq Checked /\ alive \in [DOMAIN alive -> BOOLEAN]
    /\ monitoring \in BOOLEAN /\ ctxDone \in BOOLEAN
    /\ verdicts \in [Checked -> Verdicts \cup {"none"}]
    /\ loop \in [Loops -> [at : Places, left : SUBSET Checked,
                           device : Checked \cup {"none"}, verdict : Verdicts \cup {"none"}]]
    /\ owed \in [Checked -> [Verdicts -> Int]]

Init ==
    /\ alive = <<>>
    /\ monitoring = FALSE /\ ctxDone = FALSE
    /\ verdicts = [d \in Checked |-> "none"]
    /\ loop = [l \in Loops |-> NoLoop]
    /\ owed = [d \in Checked |-> [v \in Verdicts |-> 0]]

-----------------------------------------------------------------------------
StartMonitoring(l) ==
    /\ ~monitoring /\ loop[l] = NoLoop
    /\ monitoring' = TRUE /\ ctxDone' = FALSE
    /\ loop' = [loop EXCEPT ![l] = Waiting]
    /\ UNCHANGED <<alive, verdicts, owed>>

StopMonitoring ==
    /\ monitoring
    /\ monitoring' = FALSE /\ ctxDone' = TRUE
    /\ UNCHANGED <<alive, verdicts, loop, owed>>

\* The caller's context ends: the loop ends with it, but the checker still
\* takes itself to be monitoring.
ContextEnds ==
    /\ monitoring /\ ~ctxDone
    /\ ctxDone' = TRUE
    /\ UNCHANGED <<alive, monitoring, verdicts, loop, owed>>

LoopEnds(l) ==
    /\ loop[l] = Waiting /\ ctxDone
    /\ loop' = [loop EXCEPT ![l] = NoLoop]
    /\ UNCHANGED <<alive, monitoring, ctxDone, verdicts, owed>>

\* The list of connections is read once per round, if a tick is taken before
\* the end of the context.
RoundBegins(l) ==
    /\ loop[l] = Waiting /\ DOMAIN alive # {}
    /\ loop' = [loop EXCEPT ![l].left = DOMAIN alive, ![l].at = "verdict"]
    /\ UNCHANGED <<alive, monitoring, ctxDone, verdicts, owed>>

\* performHealthCheck: a device that has left the pool, or whose connection is
\* not active or refuses the heartbeat, is ill at once.
CheckBegins(l, d, beats) ==
    /\ loop[l].at = "verdict" /\ loop[l].verdict = "none" /\ d \in loop[l].left
    /\ beats => d \in DOMAIN alive /\ alive[d]
    /\ loop' = [loop EXCEPT
           ![l].left = @ \ {d}, ![l].device = d,
           ![l].at = IF beats THEN "beating" ELSE "verdict",
           ![l].verdict = IF beats THEN "none" ELSE "ill"]
    /\ UNCHANGED <<alive, monitoring, ctxDone, verdicts, owed>>

\* Anything received is an answer, a message for the application and the end
\* of the channel included; without one the heartbeat times out.
HeartbeatEnds(l, verdict) ==
    /\ loop[l].at = "beating"
    /\ loop' = [loop EXCEPT ![l].at = "verdict", ![l].verdict = verdict]
    /\ UNCHANGED <<alive, monitoring, ctxDone, verdicts, owed>>

NextDevice(l) ==
    IF loop[l].left = {} THEN Waiting
    ELSE [loop[l] EXCEPT !.at = "verdict", !.device = "none", !.verdict = "none"]

\* History: a change is a verdict that the device did not have before.
VerdictChanges(d, v) ==
    owed' = IF verdicts[d] = v THEN owed ELSE [owed EXCEPT ![d][v] = @ + 1]

\* Mutation: the first verdict of a device is no change.
VerdictIsSetFirstSilently(l) ==
    /\ loop[l].at = "verdict" /\ loop[l].verdict # "none"
    /\ LET d == loop[l].device IN
       /\ verdicts' = [verdicts EXCEPT ![d] = loop[l].verdict]
       /\ loop' = [loop EXCEPT ![l] =
              IF verdicts[d] \in {"none", loop[l].verdict} THEN NextDevice(l)
              ELSE [@ EXCEPT !.at = "reporting"]]
       /\ VerdictChanges(d, loop[l].verdict)
    /\ UNCHANGED <<alive, monitoring, ctxDone>>

\* Under hc.mu the old verdict is exchanged for the new one.
VerdictIsSet(l) ==
    /\ loop[l].at = "verdict" /\ loop[l].verdict # "none"
    /\ LET d == loop[l].device IN
       /\ verdicts' = [verdicts EXCEPT ![d] = loop[l].verdict]
       /\ loop' = [loop EXCEPT ![l] =
              IF verdicts[d] = loop[l].verdict THEN NextDevice(l)
              ELSE [@ EXCEPT !.at = "reporting"]]
       /\ VerdictChanges(d, loop[l].verdict)
    /\ UNCHANGED <<alive, monitoring, ctxDone>>

\* After hc.mu: the reports of two loops may come in either order.
NotifyHealthStatus(l) ==
    /\ loop[l].at = "reporting"
    /\ owed' = [owed EXCEPT ![loop[l].device][loop[l].verdict] = @ - 1]
    /\ loop' = [loop EXCEPT ![l] = NextDevice(l)]
    /\ UNCHANGED <<alive, monitoring, ctxDone, verdicts>>

\* The pool gains, loses or keeps a connection that is active or not.
PoolChanges(d) ==
    /\ \/ \E b \in BOOLEAN :
            alive' = [e \in DOMAIN alive \cup {d} |-> IF e = d THEN b ELSE alive[e]]
       \/ alive' = [e \in DOMAIN alive \ {d} |-> alive[e]]
    /\ UNCHANGED <<monitoring, ctxDone, verdicts, loop, owed>>

Next ==
    \/ StopMonitoring \/ ContextEnds
    \/ \E d \in Checked : PoolChanges(d)
    \/ \E l \in Loops :
         \/ StartMonitoring(l) \/ LoopEnds(l) \/ RoundBegins(l)
         \/ VerdictIsSet(l) \/ NotifyHealthStatus(l)
         \/ \E d \in Checked, beats \in BOOLEAN : CheckBegins(l, d, beats)
         \/ \E verdict \in Verdicts : HeartbeatEnds(l, verdict)

Spec == Init /\ [][Next]_vars

-----------------------------------------------------------------------------
ReportsOf(d, verdict) ==
    Cardinality({l \in Loops :
        loop[l].at = "reporting" /\ loop[l].device = d /\ loop[l].verdict = verdict})

\* Every change of a device's verdict, the first verdict included, has been reported
\* once or will be, by the loop that made it, and nothing else is reported, also when
\* two loops check a device at once (health_checker.go:141).  In which order the
\* reports come is left open: they are made after hc.mu (health_checker.go:148).
FlipsAreReportedOnce ==
    \A d \in Checked, v \in Verdicts : owed[d][v] = ReportsOf(d, v)
=============================================================================
