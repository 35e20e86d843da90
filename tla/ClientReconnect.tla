--------------------------- MODULE ClientReconnect ---------------------------
(***************************************************************************)
(* The Bluetooth client (pkg/bluetooth/client.go) together with its        *)
(* automatic reconnection (pkg/bluetooth/reconnect_manager.go), over the   *)
(* only kind of connection the client ever creates, the MockConnection.    *)
(*                                                                         *)
(* Processes: the application's calls (Connect, Disconnect, Send), the     *)
(* owner's calls (Start, Stop), one monitor goroutine per connection, the  *)
(* reconnect worker, the message processor and the connection manager, and *)
(* the peer, which may close a connection or let the link drop.            *)
(*                                                                         *)
(* A critical section of c.mu is one step.  The sections of rm.mu nested   *)
(* in one commute with every other step that takes only rm.mu, so they     *)
(* belong to the same step.                                                *)
(***************************************************************************)
EXTENDS Naturals, FiniteSets

CONSTANTS
    Devices,        \* remote device identifiers
    Slots,          \* bound: connection objects alive per device
    RetryAttempts,  \* ClientConfig.RetryAttempts, 0 stands for "no limit"
    AttemptCap,     \* bound: the attempt counter saturates here
    InboxCap,       \* capacity of the client's receive channel
    AutoReconnect,  \* ClientConfig.AutoReconnect
    MayRefuse,      \* is a connection handler set, whose OnConnected may fail?
    ReuseAfterStop  \* may the owner stop a stopped client or start it again?

ASSUME ClientAssumption ==
    /\ Slots \in Nat \ {0}
    /\ RetryAttempts \in Nat
    /\ AttemptCap \in Nat
    /\ RetryAttempts < AttemptCap
    /\ InboxCap \in Nat \ {0}
    /\ AutoReconnect \in BOOLEAN
    /\ MayRefuse \in BOOLEAN
    /\ ReuseAfterStop \in BOOLEAN

VARIABLES
    status,       \* ComponentStatus of the client, "crashed" after a panic
    stopper,      \* how far the running call of Stop has come
    cancelled,    \* c.ctx is done
    recvClosed,   \* c.receiveChan has been closed
    inbox,        \* number of messages in c.receiveChan
    loops,        \* which of the two background loops run
    connections,  \* the connection map: a slot of the device, 0 for no entry
    conn,         \* the connection objects and their monitor goroutines
    task,         \* the reconnect tasks
    rmCancelled,  \* the reconnect manager's own context is done
    worker,       \* is the reconnect worker running?
    work,         \* the worker's snapshot of due tasks and their outcome
    wanted        \* history: devices the application has asked for

vars == <<status, stopper, cancelled, recvClosed, inbox, loops, connections,
          conn, task, rmCancelled, worker, work, wanted>>

lifecycle == <<status, stopper, cancelled, recvClosed, loops>>
manager   == <<rmCancelled, worker>>

Slot     == 1 .. Slots
Loop     == {"processor", "manager"}
Status   == {"stopped", "running", "stopping", "error", "crashed"}
StopStep == {"none", "begun", "joinWorker", "shutdown", "join"}
Monitor  == {"none", "watching", "removed"}
Outcome  == {"none", "queued", "failed", "connected"}

Connection == [active : BOOLEAN, open : BOOLEAN, monitor : Monitor]
Task       == [enabled : BOOLEAN, attempts : 0 .. AttemptCap]

TypeOK ==
    /\ status \in Status
    /\ stopper \in StopStep
    /\ cancelled \in BOOLEAN
    /\ recvClosed \in BOOLEAN
    /\ inbox \in 0 .. InboxCap
    /\ loops \in SUBSET Loop
    /\ connections \in [Devices -> 0 .. Slots]
    /\ conn \in [Devices -> [Slot -> Connection]]
    /\ task \in [Devices -> Task]
    /\ rmCancelled \in BOOLEAN
    /\ worker \in BOOLEAN
    /\ work \in [Devices -> Outcome]
    /\ wanted \in SUBSET Devices

-----------------------------------------------------------------------------
(* Connections and reconnect tasks                                         *)

Unused == [active |-> FALSE, open |-> FALSE, monitor |-> "none"]
Fresh  == [active |-> TRUE, open |-> TRUE, monitor |-> "watching"]

\* MockConnection.Close: closes the receive channel of an active connection only.
Closed(c) == IF c.active THEN [c EXCEPT !.active = FALSE, !.open = FALSE] ELSE c

Listed(d)       == connections[d] # 0
ActiveListed(d) == Listed(d) /\ conn[d][connections[d]].active

\* A slot can hold a new connection object once nothing refers to the old one.
FreeSlots(d) == {i \in Slot : /\ connections[d] # i
                              /\ ~conn[d][i].active
                              /\ conn[d][i].monitor = "none"}

FirstFree(d, i) == i \in FreeSlots(d) /\ \A j \in FreeSlots(d) : i <= j

Bump(n) == IF n < AttemptCap THEN n + 1 ELSE n

\* Mutation: one attempt too many before the task is disabled.
ScheduledOnceMore(t) ==
    LET n == Bump(IF t.enabled THEN t.attempts ELSE 0)
    IN  [enabled |-> RetryAttempts = 0 \/ n <= RetryAttempts + 1, attempts |-> n]

\* ScheduleReconnect on one task.  A device without a task is a disabled task
\* with no attempts: only ResetReconnectTask, which the client never calls,
\* tells them apart.
Scheduled(t) ==
    LET n == Bump(IF t.enabled THEN t.attempts ELSE 0)
    IN  [enabled |-> RetryAttempts = 0 \/ n <= RetryAttempts, attempts |-> n]

\* The tasks after the client has scheduled a reconnect for the devices in D.
Rescheduled(D) ==
    [d \in Devices |-> IF AutoReconnect /\ d \in D THEN Scheduled(task[d])
                                                   ELSE task[d]]

\* StopReconnect on one task.
Halted(t) == [t EXCEPT !.enabled = FALSE]

\* The task has been disabled because it ran out of attempts.
GivenUp(d) == ~task[d].enabled /\ RetryAttempts # 0 /\ task[d].attempts > RetryAttempts

-----------------------------------------------------------------------------
(* Connect: the body runs under c.mu, connection establishment included.   *)
(* The caller, the application or the worker, adds what it does with the   *)
(* result.                                                                 *)

ConnectExisting(d) ==
    /\ status = "running"
    /\ ActiveListed(d)
    /\ UNCHANGED <<connections, conn, task>>

\* Mutation: the live connection in the map is not looked for.
ConnectAnyway(d) ==
    /\ status = "running"
    /\ \E i \in Slot :
          /\ FirstFree(d, i)
          /\ connections' = [connections EXCEPT ![d] = i]
          /\ conn' = [conn EXCEPT ![d][i] = Fresh]
    /\ UNCHANGED task

ConnectSucceeds(d) ==
    /\ status = "running"
    /\ ~ActiveListed(d)
    /\ \E i \in Slot :
          /\ FirstFree(d, i)
          /\ connections' = [connections EXCEPT ![d] = i]
          /\ conn' = [conn EXCEPT ![d][i] = Fresh]
    /\ UNCHANGED task

\* The adapter reports an error; the inactive entry is gone, a retry is due.
ConnectFails(d) ==
    /\ status = "running"
    /\ ~ActiveListed(d)
    /\ connections' = [connections EXCEPT ![d] = 0]
    /\ task' = Rescheduled({d})
    /\ UNCHANGED conn

\* OnConnected refuses the new connection, which is closed and removed again.
ConnectRejected(d) ==
    /\ MayRefuse
    /\ status = "running"
    /\ ~ActiveListed(d)
    /\ connections' = [connections EXCEPT ![d] = 0]
    /\ UNCHANGED <<conn, task>>

ConnectRefused ==
    /\ status # "running"
    /\ UNCHANGED <<connections, conn, task>>

-----------------------------------------------------------------------------
(* The application                                                         *)

Connect(d) ==
    /\ \/ /\ ConnectExisting(d) \/ ConnectSucceeds(d) \/ ConnectFails(d)
          /\ wanted' = wanted \cup {d}
       \/ /\ ConnectRejected(d)
          /\ UNCHANGED wanted
    /\ UNCHANGED <<lifecycle, inbox, manager, work>>

Disconnect(d) ==
    /\ status # "crashed"
    /\ Listed(d)
    /\ task' = IF AutoReconnect THEN [task EXCEPT ![d] = Halted(@)] ELSE task
    /\ conn' = [conn EXCEPT ![d][connections[d]] = Closed(@)]
    /\ connections' = [connections EXCEPT ![d] = 0]
    /\ wanted' = wanted \ {d}
    /\ UNCHANGED <<lifecycle, inbox, manager, work>>

\* Send changes the client's state only when the connection is found dead.
Send(d) ==
    /\ status = "running"
    /\ Listed(d)
    /\ ~ActiveListed(d)
    /\ task' = Rescheduled({d})
    /\ UNCHANGED <<lifecycle, inbox, connections, conn, manager, work, wanted>>

-----------------------------------------------------------------------------
(* The peer                                                                *)

\* The connection object is closed from the other end.
PeerCloses(d, i) ==
    /\ status # "crashed"
    /\ conn[d][i].active
    /\ conn' = [conn EXCEPT ![d][i] = Closed(@)]
    /\ UNCHANGED <<lifecycle, inbox, connections, task, manager, work, wanted>>

\* The link is lost: the connection turns inactive, its channel stays open.
LinkDrops(d, i) ==
    /\ status # "crashed"
    /\ conn[d][i].active
    /\ conn' = [conn EXCEPT ![d][i].active = FALSE]
    /\ UNCHANGED <<lifecycle, inbox, connections, task, manager, work, wanted>>

-----------------------------------------------------------------------------
(* monitorConnection, one goroutine per connection                         *)

\* Data arrives, or arrived before the connection was lost.  The put never
\* blocks: a full channel drops the message, a closed one panics.
MonitorReceives(d, i) ==
    /\ status # "crashed"
    /\ conn[d][i].monitor = "watching"
    /\ IF recvClosed
       THEN /\ status' = "crashed"
            /\ UNCHANGED inbox
       ELSE /\ inbox' = IF inbox < InboxCap THEN inbox + 1 ELSE inbox
            /\ UNCHANGED status
    /\ UNCHANGED <<stopper, cancelled, recvClosed, loops, connections, conn,
                   task, manager, work, wanted>>

\* Mutation: the entry of the closed connection is not removed.
MonitorForgets(d, i) ==
    /\ status # "crashed"
    /\ conn[d][i].monitor = "watching"
    /\ ~conn[d][i].open
    /\ conn' = [conn EXCEPT ![d][i].monitor = "removed"]
    /\ UNCHANGED <<lifecycle, inbox, connections, task, manager, work, wanted>>

\* The receive channel is closed: handleConnectionClosed removes the entry of
\* the DEVICE, whichever connection it holds by now.
MonitorRemoves(d, i) ==
    /\ status # "crashed"
    /\ conn[d][i].monitor = "watching"
    /\ ~conn[d][i].open
    /\ connections' = [connections EXCEPT ![d] = 0]
    /\ conn' = [conn EXCEPT ![d][i].monitor = "removed"]
    /\ UNCHANGED <<lifecycle, inbox, task, manager, work, wanted>>

\* ... and, outside the lock, schedules the reconnect and ends.
MonitorSchedules(d, i) ==
    /\ status # "crashed"
    /\ conn[d][i].monitor = "removed"
    /\ task' = Rescheduled({d})
    /\ conn' = [conn EXCEPT ![d][i].monitor = "none"]
    /\ UNCHANGED <<lifecycle, inbox, connections, manager, work, wanted>>

MonitorCancelled(d, i) ==
    /\ status # "crashed"
    /\ cancelled
    /\ conn[d][i].monitor = "watching"
    /\ conn' = [conn EXCEPT ![d][i].monitor = "none"]
    /\ UNCHANGED <<lifecycle, inbox, connections, task, manager, work, wanted>>

-----------------------------------------------------------------------------
(* The reconnect worker: it works through a snapshot of the due tasks, one *)
(* at a time.  Time is abstracted: an enabled task may be due or not.  A   *)
(* tick may still win the select against the cancelled context.            *)

WorkerTick(D) ==
    /\ status # "crashed"
    /\ worker
    /\ \A d \in Devices : work[d] = "none"
    /\ D # {}
    /\ \A d \in D : task[d].enabled
    /\ work' = [d \in Devices |-> IF d \in D THEN "queued" ELSE "none"]
    /\ UNCHANGED <<lifecycle, inbox, connections, conn, task, manager, wanted>>

\* attemptReconnect, first half: the call of client.Connect.
WorkerAttempts(d) ==
    /\ status # "crashed"
    /\ work[d] = "queued"
    /\ \A e \in Devices : work[e] \in {"none", "queued"}
    /\ \/ /\ ConnectExisting(d) \/ ConnectSucceeds(d)
          /\ work' = [work EXCEPT ![d] = "connected"]
       \/ /\ ConnectFails(d) \/ ConnectRejected(d) \/ ConnectRefused
          /\ work' = [work EXCEPT ![d] = "failed"]
    /\ UNCHANGED <<lifecycle, inbox, manager, wanted>>

\* attemptReconnect, second half.  A failure is scheduled again, although a
\* failing Connect has already done so; a success clears the task.
WorkerSettles(d) ==
    /\ status # "crashed"
    /\ work[d] \in {"failed", "connected"}
    /\ work' = [work EXCEPT ![d] = "none"]
    /\ task' = [task EXCEPT ![d] =
                  IF work[d] = "failed" THEN Scheduled(@)
                  ELSE [enabled |-> FALSE, attempts |-> 0]]
    /\ UNCHANGED <<lifecycle, inbox, connections, conn, manager, wanted>>

WorkerExits ==
    /\ status # "crashed"
    /\ worker
    /\ rmCancelled
    /\ \A d \in Devices : work[d] = "none"
    /\ worker' = FALSE
    /\ UNCHANGED <<lifecycle, inbox, connections, conn, task, rmCancelled, work, wanted>>

-----------------------------------------------------------------------------
(* The background loops                                                    *)

\* messageProcessor takes a message; on a closed channel it reads zero values.
ProcessMessage ==
    /\ status # "crashed"
    /\ "processor" \in loops
    /\ inbox > 0
    /\ inbox' = inbox - 1
    /\ UNCHANGED <<lifecycle, connections, conn, task, manager, work, wanted>>

\* Mutation: the inactive connections are left in the map.
CleanupForgets ==
    LET dead == {d \in Devices : Listed(d) /\ ~ActiveListed(d)}
    IN  /\ status # "crashed"
        /\ "manager" \in loops
        /\ dead # {}
        /\ task' = Rescheduled(dead)
        /\ UNCHANGED <<lifecycle, inbox, connections, conn, manager, work, wanted>>

\* cleanupInactiveConnections.  Closing an inactive connection has no effect:
\* after a link drop the receive channel stays open.
CleanupInactive ==
    LET dead == {d \in Devices : Listed(d) /\ ~ActiveListed(d)}
    IN  /\ status # "crashed"
        /\ "manager" \in loops
        /\ dead # {}
        /\ connections' = [d \in Devices |-> IF d \in dead THEN 0 ELSE connections[d]]
        /\ task' = Rescheduled(dead)
        /\ UNCHANGED <<lifecycle, inbox, conn, manager, work, wanted>>

LoopExits(g) ==
    /\ status # "crashed"
    /\ cancelled
    /\ g \in loops
    /\ loops' = loops \ {g}
    /\ UNCHANGED <<status, stopper, cancelled, recvClosed, inbox, connections,
                   conn, task, manager, work, wanted>>

-----------------------------------------------------------------------------
(* Start and Stop, called by one owner, one after the other.  Unless       *)
(* ReuseAfterStop, the owner stops only what it started and starts nothing *)
(* that was stopped.                                                       *)

MayStart == ReuseAfterStop \/ ~cancelled
MayStop  == ReuseAfterStop \/ status \in {"running", "error"}

Start ==
    /\ status \notin {"running", "crashed"}
    /\ stopper = "none"
    /\ MayStart
    /\ status' = "running"
    /\ loops' = Loop
    /\ IF AutoReconnect
       THEN worker' = TRUE /\ rmCancelled' = cancelled
       ELSE UNCHANGED manager
    /\ UNCHANGED <<stopper, cancelled, recvClosed, inbox, connections, conn,
                   task, work, wanted>>

\* The adapter cannot be initialized or enabled.
StartFails ==
    /\ status \notin {"running", "crashed"}
    /\ stopper = "none"
    /\ MayStart
    /\ status' = "error"
    /\ UNCHANGED <<stopper, cancelled, recvClosed, inbox, loops, connections,
                   conn, task, manager, work, wanted>>

\* The early return for a stopped client leaves only the inner function.
StopBegins ==
    /\ status # "crashed"
    /\ stopper = "none"
    /\ MayStop
    /\ status' = IF status = "stopped" THEN status ELSE "stopping"
    /\ stopper' = "begun"
    /\ UNCHANGED <<cancelled, recvClosed, inbox, loops, connections, conn,
                   task, manager, work, wanted>>

StopReconnectManager ==
    /\ status # "crashed"
    /\ stopper = "begun"
    /\ stopper' = "joinWorker"
    /\ rmCancelled' = (rmCancelled \/ worker)
    /\ UNCHANGED <<status, cancelled, recvClosed, inbox, loops, connections,
                   conn, task, worker, work, wanted>>

\* Mutation: the end of the reconnect worker is not waited for.
StopConnectionsEarly ==
    /\ status # "crashed"
    /\ stopper = "joinWorker"
    /\ stopper' = "shutdown"
    /\ conn' = [d \in Devices |-> [i \in Slot |->
                  IF connections[d] = i THEN Closed(conn[d][i]) ELSE conn[d][i]]]
    /\ connections' = [d \in Devices |-> 0]
    /\ UNCHANGED <<status, cancelled, recvClosed, inbox, loops, task, manager,
                   work, wanted>>

\* After rm.wg.Wait, under c.mu: every listed connection is closed.
StopConnections ==
    /\ status # "crashed"
    /\ stopper = "joinWorker"
    /\ ~worker
    /\ stopper' = "shutdown"
    /\ conn' = [d \in Devices |-> [i \in Slot |->
                  IF connections[d] = i THEN Closed(conn[d][i]) ELSE conn[d][i]]]
    /\ connections' = [d \in Devices |-> 0]
    /\ UNCHANGED <<status, cancelled, recvClosed, inbox, loops, task, manager,
                   work, wanted>>

\* Mutation: the context is not cancelled.
StopForgetsCancel ==
    /\ status # "crashed"
    /\ stopper = "shutdown"
    /\ stopper' = "join"
    /\ UNCHANGED <<status, cancelled, recvClosed, inbox, loops, connections,
                   conn, task, manager, work, wanted>>

\* The adapter is shut down and c.ctx cancelled, c.wg.Wait begins.
StopCancels ==
    /\ status # "crashed"
    /\ stopper = "shutdown"
    /\ stopper' = "join"
    /\ cancelled' = TRUE
    /\ UNCHANGED <<status, recvClosed, inbox, loops, connections, conn, task,
                   manager, work, wanted>>

\* Mutation: the goroutines of the client are not waited for.
StopFinishesEarly ==
    /\ status # "crashed"
    /\ stopper = "join"
    /\ stopper' = "none"
    /\ status' = IF recvClosed THEN "crashed" ELSE "stopped"
    /\ recvClosed' = TRUE
    /\ UNCHANGED <<cancelled, inbox, loops, connections, conn, task, manager,
                   work, wanted>>

\* After c.wg.Wait.  Closing the receive channel twice panics.
StopFinishes ==
    /\ status # "crashed"
    /\ stopper = "join"
    /\ loops = {}
    /\ \A d \in Devices, i \in Slot : conn[d][i].monitor = "none"
    /\ stopper' = "none"
    /\ status' = IF recvClosed THEN "crashed" ELSE "stopped"
    /\ recvClosed' = TRUE
    /\ UNCHANGED <<cancelled, inbox, loops, connections, conn, task, manager,
                   work, wanted>>

\* A client that is stopped, or a process that crashed, may stay so.
Rest ==
    /\ status \in {"stopped", "crashed"}
    /\ stopper = "none"
    /\ UNCHANGED vars

-----------------------------------------------------------------------------
Init ==
    /\ status = "stopped"
    /\ stopper = "none"
    /\ cancelled = FALSE
    /\ recvClosed = FALSE
    /\ inbox = 0
    /\ loops = {}
    /\ connections = [d \in Devices |-> 0]
    /\ conn = [d \in Devices |-> [i \in Slot |-> Unused]]
    /\ task = [d \in Devices |-> [enabled |-> FALSE, attempts |-> 0]]
    /\ rmCancelled = FALSE
    /\ worker = FALSE
    /\ work = [d \in Devices |-> "none"]
    /\ wanted = {}

Stop ==
    \/ StopBegins
    \/ StopReconnectManager
    \/ StopConnections
    \/ StopCancels
    \/ StopFinishes

MonitorStep(d, i) ==
    \/ MonitorReceives(d, i)
    \/ MonitorRemoves(d, i)
    \/ MonitorSchedules(d, i)
    \/ MonitorCancelled(d, i)

Next ==
    \/ \E d \in Devices : Connect(d) \/ Disconnect(d) \/ Send(d)
    \/ \E d \in Devices, i \in Slot : PeerCloses(d, i) \/ LinkDrops(d, i)
    \/ \E d \in Devices, i \in Slot : MonitorStep(d, i)
    \/ \E D \in SUBSET Devices : WorkerTick(D)
    \/ \E d \in Devices : WorkerAttempts(d) \/ WorkerSettles(d)
    \/ WorkerExits
    \/ ProcessMessage
    \/ CleanupInactive
    \/ \E g \in Loop : LoopExits(g)
    \/ Start
    \/ StartFails
    \/ Stop
    \/ Rest

Spec == Init /\ [][Next]_vars

(***************************************************************************)
(* Goroutines that can run do run, and a call of Stop is carried through.  *)
(* Nothing is assumed of the application, the owner or the peer.  The      *)
(* select of a monitor has its closed channel or the cancelled context     *)
(* ready for ever, so one of the two is taken in the end; the worker finds *)
(* its context cancelled each time round its loop, and a select that is    *)
(* offered it again and again does not pass it over for ever.              *)
(***************************************************************************)
Fairness ==
    /\ \A d \in Devices, i \in Slot :
          /\ WF_vars(MonitorRemoves(d, i) \/ MonitorCancelled(d, i))
          /\ WF_vars(MonitorSchedules(d, i))
    /\ \A d \in Devices : WF_vars(WorkerAttempts(d) \/ WorkerSettles(d))
    /\ SF_vars(WorkerExits)
    /\ WF_vars(CleanupInactive)
    /\ \A g \in Loop : WF_vars(LoopExits(g))
    /\ WF_vars(StopReconnectManager)
    /\ WF_vars(StopConnections)
    /\ WF_vars(StopCancels)
    /\ WF_vars(StopFinishes)

FairSpec == Spec /\ Fairness

-----------------------------------------------------------------------------
(* What the client promises                                                *)

\* Every entry of the connection map has a monitor that watches it, so that
\* the loss of the connection cannot go unnoticed (Connect, monitorConnection).
ListedIsWatched ==
    \A d \in Devices : Listed(d) => conn[d][connections[d]].monitor = "watching"

\* A client whose Stop has returned is at rest: no goroutine of it runs, no
\* connection is listed, and its reconnect worker is gone (Stop, client.go:86).
StoppedIsQuiescent ==
    status = "stopped" /\ cancelled =>
        /\ loops = {}
        /\ ~worker
        /\ \A d \in Devices : ~Listed(d)
        /\ \A d \in Devices, i \in Slot : conn[d][i].monitor = "none"

\* No goroutine sends on the closed receive channel and Stop closes it once.
NeverPanics == status # "crashed"

\* A task that is still enabled has attempts left (ScheduleReconnect).
AttemptsWithinLimit ==
    \A d \in Devices :
        task[d].enabled /\ RetryAttempts # 0 => task[d].attempts <= RetryAttempts

\* A live connection is never swapped for another one in the map: Connect
\* hands out the live one it finds.
NoSwapOfLiveConnection ==
    [][\A d \in Devices : ActiveListed(d) => connections'[d] \in {connections[d], 0}]_vars

\* Stop comes back: its two waits for goroutines that need the client's lock
\* cannot block it for ever.
StopReturns == stopper # "none" ~> stopper = "none"

\* A dead connection does not stay in the map of a client that keeps running.
DeadIsUnlisted ==
    \A d \in Devices : (Listed(d) /\ ~ActiveListed(d)) ~> (~Listed(d) \/ ActiveListed(d))

-----------------------------------------------------------------------------
(* What comments, documents and tests claim and the code does not keep     *)

\* Disconnect stops the automatic reconnection of the device (client.go:304):
\* the device is connected only after the application asked for it.
ConnectedOnlyIfWanted == \A d \in Devices : Listed(d) => d \in wanted

\* Out of attempts, the reconnection is disabled (reconnect_manager.go:90): the
\* failed attempt that used up the last one does not start over.
GivingUpIsFinal ==
    [][\A d \in Devices : WorkerSettles(d) /\ GivenUp(d) => ~task'[d].enabled]_vars
=============================================================================
