------------------------- MODULE BluetoothComponent -------------------------
(***************************************************************************)
(* The component an application starts (component.go): it starts its parts *)
(* one after another and stops them in the reverse order, around one mock  *)
(* adapter that it, its server and its client all initialise and shut down.*)
(*                                                                         *)
(* A step of Start or Stop is one part; the calls the part makes to the    *)
(* adapter are in it.  c.mu keeps Start and Stop apart, but nothing keeps  *)
(* the application from calling the server and the client it got from the  *)
(* component.  Their connections and goroutines are in ServerLifecycle and *)
(* ClientReconnect; here they end when the context is cancelled.           *)
(***************************************************************************)
EXTENDS Naturals, Sequences, SequencesExt

CONSTANTS
    CallsParts,  \* whether the application calls the server and the client itself
    CtxEnds      \* whether the context of a call may end

VARIABLES
    status,      \* c.status
    at,          \* the step of Start or Stop that is next
    states,      \* c.componentStates
    adapter,     \* the mock adapter's flags
    monitoring,  \* the health checker's loop
    handling,    \* the message handler runs
    peers,       \* status of server and client, and whether their channels are closed
    routing,     \* eventHandler and messageRouter run
    closed,      \* receiveChan and eventChan are closed
    disturbed,   \* the step that follows saw a direct call or the end of its context
    panicked

vars == <<status, at, states, adapter, monitoring, handling, peers, routing, closed,
          disturbed, panicked>>

startupOrder ==
    <<"adapter", "security", "device", "pool", "health", "message", "server", "client">>
shutdownOrder == Reverse(startupOrder)

Peers == {"server", "client"}
Statuses == {"stopped", "starting", "running", "stopping", "error"}
Idle == [op |-> "none", step |-> 1]

TypeOK ==
    /\ status \in Statuses
    /\ at \in [op : {"none", "start", "stop"}, step : 1 .. Len(startupOrder) + 1]
    /\ states \in [ToSet(startupOrder) -> Statuses]
    /\ adapter \in [initialized : BOOLEAN, enabled : BOOLEAN]
    /\ monitoring \in BOOLEAN /\ handling \in BOOLEAN
    /\ peers \in [Peers -> [status : Statuses, closed : BOOLEAN]]
    /\ routing \in BOOLEAN /\ closed \in BOOLEAN
    /\ disturbed \in BOOLEAN /\ panicked \in BOOLEAN

Off == [initialized |-> FALSE, enabled |-> FALSE]

Init ==
    /\ status = "stopped" /\ at = Idle
    /\ states = [n \in ToSet(startupOrder) |-> "stopped"]
    /\ adapter = Off
    /\ monitoring = FALSE /\ handling = FALSE
    /\ peers = [p \in Peers |-> [status |-> "stopped", closed |-> FALSE]]
    /\ routing = FALSE /\ closed = FALSE /\ disturbed = FALSE /\ panicked = FALSE

-----------------------------------------------------------------------------
\* Initialize refuses an adapter that is initialised, and an ended context.
Initialize(ok, ctx) ==
    /\ ok = (~adapter.initialized /\ ctx)
    /\ adapter' = [adapter EXCEPT !.initialized = @ \/ ok]

Shutdown(ctx) == adapter' = IF ctx THEN Off ELSE adapter

\* Enable of an adapter that was just initialised: it is not enabled yet.
Enabled(a) == [a EXCEPT !.enabled = a.initialized]

\* Start of the server or the client: Initialize, then Enable.
PeerStarts(p, ok, ctx) ==
    IF peers[p].status = "running"
    THEN ok = FALSE /\ UNCHANGED <<adapter, peers>>
    ELSE /\ ok = (~adapter.initialized /\ ctx)
         /\ adapter' = IF ok THEN Enabled([adapter EXCEPT !.initialized = TRUE]) ELSE adapter
         /\ peers' = [peers EXCEPT ![p].status = IF ok THEN "running" ELSE "error"]

\* Stop of the server or the client.  The server returns at once if it is
\* stopped; the client leaves only the function that looked (client.go:93).
\* Both shut the adapter down and close their channels, which panics the
\* second time.
PeerStops(p, ctx) ==
    IF p = "server" /\ peers[p].status = "stopped"
    THEN UNCHANGED <<adapter, peers, panicked>>
    ELSE /\ Shutdown(ctx)
         /\ panicked' = peers[p].closed
         /\ peers' = [peers EXCEPT ![p] = [status |-> "stopped", closed |-> TRUE]]

Ctx == IF CtxEnds THEN BOOLEAN ELSE {TRUE}

-----------------------------------------------------------------------------
StartBegins ==
    /\ at = Idle /\ status # "running"
    /\ status' = "starting"
    /\ panicked' = closed
    /\ at' = [op |-> "start", step |-> 1]
    /\ disturbed' = FALSE
    /\ UNCHANGED <<states, adapter, monitoring, handling, peers, routing, closed>>

\* startComponent(name), without an error or with one.
StartComponent(name, ok, ctx) ==
    CASE name = "adapter" -> Initialize(ok, ctx) /\ UNCHANGED <<monitoring, handling, peers>>
      [] name = "health" ->
            ok /\ monitoring' = TRUE /\ UNCHANGED <<adapter, handling, peers>>
      [] name = "message" ->
            ok = ~handling /\ handling' = TRUE /\ UNCHANGED <<adapter, monitoring, peers>>
      [] name \in Peers -> PeerStarts(name, ok, ctx) /\ UNCHANGED <<monitoring, handling>>
      [] OTHER -> ok /\ UNCHANGED <<adapter, monitoring, handling, peers>>

StartStep(ok, ctx) ==
    /\ at.op = "start" /\ at.step <= Len(startupOrder)
    /\ LET name == startupOrder[at.step] IN
       /\ StartComponent(name, ok, ctx)
       /\ states' = IF ok THEN [states EXCEPT ![name] = "running"] ELSE states
    /\ at' = IF ok THEN [at EXCEPT !.step = @ + 1] ELSE Idle
    /\ status' = IF ok THEN status ELSE "error"
    /\ disturbed' = (disturbed \/ ~ctx)
    /\ UNCHANGED <<routing, closed, panicked>>

\* The component's own goroutines end at once if an earlier Stop cancelled c.ctx;
\* then its event channel is closed and Start has not come this far.
StartEnds ==
    /\ at.op = "start" /\ at.step = Len(startupOrder) + 1
    /\ status' = "running" /\ at' = Idle
    /\ routing' = TRUE
    /\ UNCHANGED <<states, adapter, monitoring, handling, peers, closed, disturbed, panicked>>

\* Mutation: a component that is not running is only marked as stopped.
StopIfRunning ==
    /\ at = Idle /\ status # "stopped"
    /\ status' = IF status = "running" THEN "stopping" ELSE "stopped"
    /\ at' = IF status = "running" THEN [op |-> "stop", step |-> 1] ELSE Idle
    /\ routing' = FALSE
    /\ disturbed' = FALSE
    /\ UNCHANGED <<states, adapter, monitoring, handling, peers, closed, panicked>>

StopBegins ==
    /\ at = Idle /\ status # "stopped"
    /\ status' = "stopping"
    /\ at' = [op |-> "stop", step |-> 1]
    /\ routing' = FALSE
    /\ disturbed' = FALSE
    /\ UNCHANGED <<states, adapter, monitoring, handling, peers, closed, panicked>>

\* stopComponent(name): its error is logged.
StopComponent(name, ctx) ==
    CASE name = "adapter" -> Shutdown(ctx) /\ UNCHANGED <<monitoring, handling, peers, panicked>>
      [] name = "health" ->
            monitoring' = FALSE /\ UNCHANGED <<adapter, handling, peers, panicked>>
      [] name = "message" ->
            handling' = FALSE /\ UNCHANGED <<adapter, monitoring, peers, panicked>>
      [] name \in Peers -> PeerStops(name, ctx) /\ UNCHANGED <<monitoring, handling>>
      [] OTHER -> UNCHANGED <<adapter, monitoring, handling, peers, panicked>>

StopStep(ctx) ==
    /\ at.op = "stop" /\ at.step <= Len(shutdownOrder)
    /\ LET name == shutdownOrder[at.step] IN
       /\ StopComponent(name, ctx)
       /\ states' = [states EXCEPT ![name] = "stopped"]
    /\ at' = [at EXCEPT !.step = @ + 1]
    /\ disturbed' = (disturbed \/ ~ctx)
    /\ UNCHANGED <<status, routing, closed>>

StopEnds ==
    /\ at.op = "stop" /\ at.step = Len(shutdownOrder) + 1
    /\ status' = "stopped" /\ at' = Idle
    /\ panicked' = closed /\ closed' = TRUE
    /\ UNCHANGED <<states, adapter, monitoring, handling, peers, routing, disturbed>>

-----------------------------------------------------------------------------
\* The application calls the server or the client it got from the component.
DirectStart(p, ok, ctx) ==
    /\ CallsParts
    /\ PeerStarts(p, ok, ctx)
    /\ disturbed' = TRUE
    /\ UNCHANGED <<status, at, states, monitoring, handling, routing, closed, panicked>>

DirectStop(p, ctx) ==
    /\ CallsParts
    /\ PeerStops(p, ctx)
    /\ disturbed' = TRUE
    /\ UNCHANGED <<status, at, states, monitoring, handling, routing, closed>>

\* A panic ends the program.
Next ==
    /\ ~panicked
    /\ \/ StartBegins \/ StartEnds \/ StopBegins \/ StopEnds
       \/ \E ctx \in Ctx :
            \/ StopStep(ctx)
            \/ \E ok \in BOOLEAN : StartStep(ok, ctx)
            \/ \E p \in Peers : DirectStop(p, ctx)
            \/ \E p \in Peers, ok \in BOOLEAN : DirectStart(p, ok, ctx)

Spec == Init /\ [][Next]_vars

-----------------------------------------------------------------------------
\* Integration tests start a new component and fail if Start returns an error
\* (integration_test.go:190): nothing else touches its parts.
StartSucceeds == status # "error"

\* Once a Stop that nothing disturbed has returned, every part is off, however
\* far the Start before it came and whatever failed on the way (component.go:259).
StopStopsEverything ==
    status = "stopped" /\ at = Idle /\ ~disturbed /\ ~panicked =>
        /\ ~monitoring /\ ~handling /\ ~routing
        /\ ~adapter.initialized
        /\ \A p \in Peers : peers[p].status = "stopped"
=============================================================================
