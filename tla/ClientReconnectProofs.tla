------------------------ MODULE ClientReconnectProofs ------------------------
(* Proofs about ClientReconnect.  The owner of the client is assumed to    *)
(* neither stop a client twice nor start it again after Stop wherever a    *)
(* theorem says so.                                                        *)
EXTENDS ClientReconnect, TLAPS

-----------------------------------------------------------------------------
(* Lemmas about the operators on connections and tasks                     *)

\* ScheduleReconnect keeps a task well formed.
LEMMA ScheduledType ==
    ASSUME NEW t \in Task
    PROVE  Scheduled(t) \in Task
<1>1. (IF t.enabled THEN t.attempts ELSE 0) \in 0 .. AttemptCap
    BY ClientAssumption DEF Task
<1>2. \A n \in 0 .. AttemptCap : Bump(n) \in 0 .. AttemptCap
    BY ClientAssumption DEF Bump
<1>3. QED
    BY <1>1, <1>2 DEF Scheduled, Task

\* ScheduleReconnect leaves a task enabled only while attempts are left.
LEMMA ScheduledLimit ==
    ASSUME NEW t \in Task
    PROVE  Scheduled(t).enabled /\ RetryAttempts # 0 =>
               Scheduled(t).attempts <= RetryAttempts
BY ScheduledType DEF Scheduled

\* Scheduling a set of devices keeps every task well formed.
LEMMA RescheduledType ==
    ASSUME TypeOK, NEW D
    PROVE  Rescheduled(D) \in [Devices -> Task]
BY ScheduledType DEF Rescheduled, TypeOK

\* Closing a connection keeps its monitor and leaves no active connection.
LEMMA ClosedType ==
    ASSUME NEW c \in Connection
    PROVE  /\ Closed(c) \in Connection
           /\ Closed(c).monitor = c.monitor
BY DEF Closed, Connection

\* A monitor that moves on keeps the connection objects well formed.
LEMMA MonitorType ==
    ASSUME NEW d \in Devices, NEW i \in Slot, NEW m \in Monitor,
           conn \in [Devices -> [Slot -> Connection]]
    PROVE  [conn EXCEPT ![d][i].monitor = m] \in [Devices -> [Slot -> Connection]]
<1>1. [conn[d][i] EXCEPT !.monitor = m] \in Connection
    BY DEF Connection
<1>2. QED
    BY <1>1

-----------------------------------------------------------------------------
(* Type correctness                                                        *)

\* The five ends of a Connect leave the tables of connections well-formed.
LEMMA ConnectType ==
    ASSUME TypeOK, NEW d \in Devices,
           \/ ConnectExisting(d) \/ ConnectSucceeds(d) \/ ConnectFails(d)
           \/ ConnectRejected(d) \/ ConnectRefused
    PROVE  /\ connections' \in [Devices -> 0 .. Slots]
           /\ conn' \in [Devices -> [Slot -> Connection]]
           /\ task' \in [Devices -> Task]
<1>1. CASE ConnectExisting(d) \/ ConnectRefused
    BY <1>1 DEF ConnectExisting, ConnectRefused, TypeOK
<1>2. CASE ConnectSucceeds(d)
    <2>1. Fresh \in Connection
        BY DEF Fresh, Connection, Monitor
    <2>2. QED
        BY <1>2, <2>1, ClientAssumption DEF ConnectSucceeds, FirstFree, TypeOK, Slot
<1>3. CASE ConnectFails(d)
    BY <1>3, RescheduledType, ClientAssumption DEF ConnectFails, TypeOK
<1>4. CASE ConnectRejected(d)
    BY <1>4, ClientAssumption DEF ConnectRejected, TypeOK
<1>5. QED
    BY <1>1, <1>2, <1>3, <1>4

\* Every variable keeps its type (TypeOK), whatever the owner does.
THEOREM TypeCorrect == Spec => []TypeOK
<1>1. Init => TypeOK
    <2>1. /\ Unused \in Connection
          /\ [enabled |-> FALSE, attempts |-> 0] \in Task
        BY ClientAssumption DEF Unused, Connection, Monitor, Task
    <2>2. 0 \in 0 .. InboxCap /\ 0 \in 0 .. Slots
        BY ClientAssumption
    <2>3. Init => /\ conn \in [Devices -> [Slot -> Connection]]
                  /\ task \in [Devices -> Task]
        BY <2>1 DEF Init
    <2>4. QED
        BY <2>2, <2>3 DEF Init, TypeOK, Status, StopStep, Outcome
<1>2. TypeOK /\ [Next]_vars => TypeOK'
    <2> SUFFICES ASSUME TypeOK, [Next]_vars PROVE TypeOK'
        OBVIOUS
    <2> USE DEF lifecycle, manager
    <2>1. ASSUME NEW d \in Devices, Connect(d) PROVE TypeOK'
        BY <2>1, ConnectType DEF Connect, TypeOK
    <2>2. ASSUME NEW d \in Devices, Disconnect(d) PROVE TypeOK'
        <3>1. \A t \in Task : Halted(t) \in Task
            BY DEF Halted, Task
        <3>2. task' \in [Devices -> Task]
            BY <2>2, <3>1 DEF Disconnect, TypeOK
        <3>3. connections[d] \in Slot
            BY <2>2, ClientAssumption DEF Disconnect, Listed, TypeOK, Slot
        <3>4. conn' \in [Devices -> [Slot -> Connection]]
            BY <2>2, <3>3, ClosedType DEF Disconnect, TypeOK
        <3>5. QED
            BY <2>2, <3>2, <3>4, ClientAssumption DEF Disconnect, TypeOK
    <2>3. ASSUME NEW d \in Devices, Send(d) PROVE TypeOK'
        BY <2>3, RescheduledType DEF Send, TypeOK
    <2>4. ASSUME NEW d \in Devices, NEW i \in Slot, PeerCloses(d, i) PROVE TypeOK'
        BY <2>4, ClosedType DEF PeerCloses, TypeOK
    <2>5. ASSUME NEW d \in Devices, NEW i \in Slot, LinkDrops(d, i) PROVE TypeOK'
        <3>1. \A c \in Connection : [c EXCEPT !.active = FALSE] \in Connection
            BY DEF Connection
        <3>2. conn' \in [Devices -> [Slot -> Connection]]
            BY <2>5, <3>1 DEF LinkDrops, TypeOK
        <3>3. QED
            BY <2>5, <3>2 DEF LinkDrops, TypeOK
    <2>6. ASSUME NEW d \in Devices, NEW i \in Slot, MonitorReceives(d, i) PROVE TypeOK'
        BY <2>6, ClientAssumption DEF MonitorReceives, TypeOK, Status
    <2>7. ASSUME NEW d \in Devices, NEW i \in Slot, MonitorRemoves(d, i) PROVE TypeOK'
        <3>1. conn' \in [Devices -> [Slot -> Connection]]
            BY <2>7, MonitorType DEF MonitorRemoves, TypeOK, Monitor
        <3>2. QED
            BY <2>7, <3>1, ClientAssumption DEF MonitorRemoves, TypeOK
    <2>8. ASSUME NEW d \in Devices, NEW i \in Slot, MonitorSchedules(d, i) PROVE TypeOK'
        <3>1. conn' \in [Devices -> [Slot -> Connection]]
            BY <2>8, MonitorType DEF MonitorSchedules, TypeOK, Monitor
        <3>2. QED
            BY <2>8, <3>1, RescheduledType DEF MonitorSchedules, TypeOK
    <2>9. ASSUME NEW d \in Devices, NEW i \in Slot, MonitorCancelled(d, i) PROVE TypeOK'
        <3>1. conn' \in [Devices -> [Slot -> Connection]]
            BY <2>9, MonitorType DEF MonitorCancelled, TypeOK, Monitor
        <3>2. QED
            BY <2>9, <3>1 DEF MonitorCancelled, TypeOK
    <2>10. ASSUME NEW D \in SUBSET Devices, WorkerTick(D) PROVE TypeOK'
        BY <2>10 DEF WorkerTick, TypeOK, Outcome
    <2>11. ASSUME NEW d \in Devices, WorkerAttempts(d) PROVE TypeOK'
        BY <2>11, ConnectType DEF WorkerAttempts, TypeOK, Outcome
    <2>12. ASSUME NEW d \in Devices, WorkerSettles(d) PROVE TypeOK'
        <3>1. [enabled |-> FALSE, attempts |-> 0] \in Task
            BY ClientAssumption DEF Task
        <3>2. QED
            BY <2>12, <3>1, ScheduledType DEF WorkerSettles, TypeOK, Outcome
    <2>13. CASE WorkerExits
        BY <2>13 DEF WorkerExits, TypeOK
    <2>14. CASE ProcessMessage
        BY <2>14, ClientAssumption DEF ProcessMessage, TypeOK
    <2>15. CASE CleanupInactive
        BY <2>15, RescheduledType, ClientAssumption DEF CleanupInactive, TypeOK
    <2>16. ASSUME NEW g \in Loop, LoopExits(g) PROVE TypeOK'
        BY <2>16 DEF LoopExits, TypeOK
    <2>17. CASE Start
        BY <2>17 DEF Start, TypeOK, Status, Loop
    <2>18. CASE StartFails
        BY <2>18 DEF StartFails, TypeOK, Status
    <2>19. CASE StopBegins
        BY <2>19 DEF StopBegins, TypeOK, Status, StopStep
    <2>20. CASE StopReconnectManager
        BY <2>20 DEF StopReconnectManager, TypeOK, StopStep
    <2>21. CASE StopConnections
        BY <2>21, ClosedType, ClientAssumption DEF StopConnections, TypeOK, StopStep
    <2>22. CASE StopCancels
        BY <2>22 DEF StopCancels, TypeOK, StopStep
    <2>23. CASE StopFinishes
        BY <2>23 DEF StopFinishes, TypeOK, StopStep, Status
    <2>24. CASE Rest \/ UNCHANGED vars
        BY <2>24 DEF Rest, vars, TypeOK
    <2>25. QED
        BY <2>1, <2>2, <2>3, <2>4, <2>5, <2>6, <2>7, <2>8, <2>9, <2>10, <2>11,
           <2>12, <2>13, <2>14, <2>15, <2>16, <2>17, <2>18, <2>19, <2>20, <2>21,
           <2>22, <2>23, <2>24
        DEF Next, MonitorStep, Stop
<1>3. QED
    BY <1>1, <1>2, PTL DEF Spec

-----------------------------------------------------------------------------
(* Stop leaves nothing running                                             *)

\* How far Stop has come decides what may still run.  StoppedIsQuiescent alone
\* is not inductive: it does not say that the worker is gone and the map empty
\* before the context is cancelled, nor that nothing fills the map afterwards.
ShutdownOrder ==
    /\ status # "crashed"
    /\ stopper # "none" <=> status = "stopping"
    /\ stopper \in {"shutdown", "join"} \/ cancelled =>
          ~worker /\ \A d \in Devices : ~Listed(d)
    /\ cancelled => stopper = "join" \/ recvClosed
    /\ stopper = "join" => cancelled
    /\ recvClosed =>
          /\ status = "stopped"
          /\ cancelled
          /\ loops = {}
          /\ \A d \in Devices, i \in Slot : conn[d][i].monitor = "none"
    /\ status = "stopped" /\ cancelled => recvClosed

ClientInv == TypeOK /\ ShutdownOrder /\ ListedIsWatched

\* Connect fills the map of a running client only, with a watched connection.
LEMMA ConnectInv ==
    ASSUME ClientInv, NEW d \in Devices,
           \/ ConnectExisting(d) \/ ConnectSucceeds(d) \/ ConnectFails(d)
           \/ ConnectRejected(d) \/ ConnectRefused,
           UNCHANGED <<lifecycle, manager>>
    PROVE  ShutdownOrder' /\ ListedIsWatched'
<1> USE DEF lifecycle, manager
<1>1. CASE ConnectExisting(d) \/ ConnectRefused
    BY <1>1 DEF ConnectExisting, ConnectRefused, ClientInv, ShutdownOrder,
       ListedIsWatched, Listed
<1>2. CASE ConnectSucceeds(d)
    <2>1. PICK i \in Slot : /\ connections' = [connections EXCEPT ![d] = i]
                            /\ conn' = [conn EXCEPT ![d][i] = Fresh]
        BY <1>2 DEF ConnectSucceeds
    <2>2. ListedIsWatched'
        BY <2>1 DEF ListedIsWatched, Listed, ClientInv, TypeOK, Fresh
    <2>3. status = "running" /\ ~cancelled /\ ~recvClosed /\ stopper = "none"
        BY <1>2 DEF ConnectSucceeds, ClientInv, ShutdownOrder
    <2>4. QED
        BY <2>2, <2>3 DEF ShutdownOrder, ClientInv
<1>3. CASE ConnectFails(d) \/ ConnectRejected(d)
    BY <1>3 DEF ConnectFails, ConnectRejected, ClientInv, ShutdownOrder,
       ListedIsWatched, Listed, TypeOK
<1>4. QED
    BY <1>1, <1>2, <1>3

\* Every step keeps the order of a shutdown and a watcher for what is listed.
LEMMA ShutdownStep ==
    ASSUME ~ReuseAfterStop, ClientInv, [Next]_vars
    PROVE  ShutdownOrder' /\ ListedIsWatched'
<1> USE DEF lifecycle, manager
<1>1. ASSUME NEW d \in Devices, Connect(d) PROVE ShutdownOrder' /\ ListedIsWatched'
    BY <1>1, ConnectInv DEF Connect
<1>2. ASSUME NEW d \in Devices, Disconnect(d) PROVE ShutdownOrder' /\ ListedIsWatched'
    <2>1. connections' = [connections EXCEPT ![d] = 0]
        BY <1>2 DEF Disconnect
    <2>2. \A e \in Devices : Listed(e)' => e # d /\ Listed(e) /\ conn'[e] = conn[e]
        BY <1>2 DEF Disconnect, Listed, ClientInv, TypeOK
    <2>3. connections[d] \in Slot
        BY <1>2, ClientAssumption DEF Disconnect, Listed, ClientInv, TypeOK, Slot
    <2>4. \A e \in Devices, i \in Slot : conn'[e][i].monitor = conn[e][i].monitor
        BY <1>2, <2>3, ClosedType DEF Disconnect, ClientInv, TypeOK
    <2>5. ListedIsWatched'
        BY <2>1, <2>2 DEF ListedIsWatched, ClientInv, TypeOK
    <2>6. QED
        BY <1>2, <2>2, <2>4, <2>5 DEF Disconnect, ClientInv, ShutdownOrder
<1>3. ASSUME NEW d \in Devices, Send(d) PROVE ShutdownOrder' /\ ListedIsWatched'
    BY <1>3 DEF Send, ClientInv, ShutdownOrder, ListedIsWatched, Listed
<1>4. ASSUME NEW d \in Devices, NEW i \in Slot, PeerCloses(d, i) \/ LinkDrops(d, i)
      PROVE  ShutdownOrder' /\ ListedIsWatched'
    <2>1. \A e \in Devices, j \in Slot : conn'[e][j].monitor = conn[e][j].monitor
        <3>1. conn[d][i] \in Connection /\ conn \in [Devices -> [Slot -> Connection]]
            BY DEF ClientInv, TypeOK
        <3>2. CASE PeerCloses(d, i)
            BY <3>1, <3>2, ClosedType DEF PeerCloses
        <3>3. CASE LinkDrops(d, i)
            BY <3>1, <3>3 DEF LinkDrops, Connection
        <3>4. QED
            BY <1>4, <3>2, <3>3
    <2>2. \A e \in Devices : Listed(e) => connections[e] \in Slot
        BY ClientAssumption DEF Listed, ClientInv, TypeOK, Slot
    <2>3. UNCHANGED <<status, stopper, cancelled, recvClosed, loops, worker, connections>>
        BY <1>4 DEF PeerCloses, LinkDrops
    <2>4. ListedIsWatched'
        BY <2>1, <2>2, <2>3 DEF ClientInv, ListedIsWatched, Listed
    <2>5. QED
        BY <2>1, <2>3, <2>4 DEF ClientInv, ShutdownOrder, Listed
<1>5. ASSUME NEW d \in Devices, NEW i \in Slot, MonitorReceives(d, i)
      PROVE  ShutdownOrder' /\ ListedIsWatched'
    <2>1. ~recvClosed
        BY <1>5 DEF MonitorReceives, ClientInv, ShutdownOrder
    <2>2. QED
        BY <1>5, <2>1 DEF MonitorReceives, ClientInv, ShutdownOrder,
           ListedIsWatched, Listed
<1>6. ASSUME NEW d \in Devices, NEW i \in Slot, MonitorRemoves(d, i)
      PROVE  ShutdownOrder' /\ ListedIsWatched'
    <2>1. ~recvClosed
        BY <1>6 DEF MonitorRemoves, ClientInv, ShutdownOrder
    <2>2. \A e \in Devices : Listed(e)' => e # d /\ Listed(e) /\ conn'[e] = conn[e]
        BY <1>6 DEF MonitorRemoves, Listed, ClientInv, TypeOK
    <2>3. QED
        BY <1>6, <2>1, <2>2 DEF MonitorRemoves, ClientInv, ShutdownOrder,
           ListedIsWatched, TypeOK
<1>7. ASSUME NEW d \in Devices, NEW i \in Slot, MonitorSchedules(d, i)
      PROVE  ShutdownOrder' /\ ListedIsWatched'
    <2>1. ~recvClosed
        BY <1>7 DEF MonitorSchedules, ClientInv, ShutdownOrder
    <2>2. Listed(d) => connections[d] # i
        BY <1>7 DEF MonitorSchedules, ClientInv, ListedIsWatched
    <2>3. \A e \in Devices, j \in Slot :
             e # d \/ j # i => conn'[e][j].monitor = conn[e][j].monitor
        BY <1>7 DEF MonitorSchedules, ClientInv, TypeOK
    <2>4. \A e \in Devices : Listed(e) => connections[e] \in Slot
        BY ClientAssumption DEF Listed, ClientInv, TypeOK, Slot
    <2>5. QED
        BY <1>7, <2>1, <2>2, <2>3, <2>4 DEF MonitorSchedules, ClientInv,
           ShutdownOrder, ListedIsWatched, Listed
<1>8. ASSUME NEW d \in Devices, NEW i \in Slot, MonitorCancelled(d, i)
      PROVE  ShutdownOrder' /\ ListedIsWatched'
    <2>1. \A e \in Devices : ~Listed(e)
        BY <1>8 DEF MonitorCancelled, ClientInv, ShutdownOrder
    <2>2. ~recvClosed
        BY <1>8 DEF MonitorCancelled, ClientInv, ShutdownOrder
    <2>3. QED
        BY <1>8, <2>1, <2>2 DEF MonitorCancelled, ClientInv, ShutdownOrder,
           ListedIsWatched, Listed
<1>9. ASSUME NEW D \in SUBSET Devices, WorkerTick(D)
      PROVE  ShutdownOrder' /\ ListedIsWatched'
    BY <1>9 DEF WorkerTick, ClientInv, ShutdownOrder, ListedIsWatched, Listed
<1>10. ASSUME NEW d \in Devices, WorkerAttempts(d)
       PROVE  ShutdownOrder' /\ ListedIsWatched'
    BY <1>10, ConnectInv DEF WorkerAttempts
<1>11. ASSUME NEW d \in Devices, WorkerSettles(d)
       PROVE  ShutdownOrder' /\ ListedIsWatched'
    BY <1>11 DEF WorkerSettles, ClientInv, ShutdownOrder, ListedIsWatched, Listed
<1>12. CASE WorkerExits
    BY <1>12 DEF WorkerExits, ClientInv, ShutdownOrder, ListedIsWatched, Listed
<1>13. CASE ProcessMessage
    BY <1>13 DEF ProcessMessage, ClientInv, ShutdownOrder, ListedIsWatched, Listed
<1>14. CASE CleanupInactive
    <2>1. \A e \in Devices : Listed(e)' => Listed(e) /\ connections'[e] = connections[e]
        BY <1>14 DEF CleanupInactive, Listed
    <2>2. QED
        BY <1>14, <2>1 DEF CleanupInactive, ClientInv, ShutdownOrder, ListedIsWatched
<1>15. ASSUME NEW g \in Loop, LoopExits(g) PROVE ShutdownOrder' /\ ListedIsWatched'
    BY <1>15 DEF LoopExits, ClientInv, ShutdownOrder, ListedIsWatched, Listed
<1>16. CASE Start
    <2>1. ~cancelled /\ ~recvClosed
        BY <1>16 DEF Start, MayStart, ClientInv, ShutdownOrder
    <2>2. QED
        BY <1>16, <2>1 DEF Start, ClientInv, ShutdownOrder, ListedIsWatched, Listed
<1>17. CASE StartFails
    <2>1. ~cancelled /\ ~recvClosed
        BY <1>17 DEF StartFails, MayStart, ClientInv, ShutdownOrder
    <2>2. QED
        BY <1>17, <2>1 DEF StartFails, ClientInv, ShutdownOrder, ListedIsWatched, Listed
<1>18. CASE StopBegins
    <2>1. ~cancelled /\ ~recvClosed
        BY <1>18 DEF StopBegins, MayStop, ClientInv, ShutdownOrder
    <2>2. QED
        BY <1>18, <2>1 DEF StopBegins, MayStop, ClientInv, ShutdownOrder,
           ListedIsWatched, Listed
<1>19. CASE StopReconnectManager
    BY <1>19 DEF StopReconnectManager, ClientInv, ShutdownOrder, ListedIsWatched, Listed
<1>20. CASE StopConnections
    BY <1>20 DEF StopConnections, ClientInv, ShutdownOrder, ListedIsWatched, Listed
<1>21. CASE StopCancels
    BY <1>21 DEF StopCancels, ClientInv, ShutdownOrder, ListedIsWatched, Listed
<1>22. CASE StopFinishes
    BY <1>22 DEF StopFinishes, ClientInv, ShutdownOrder, ListedIsWatched, Listed
<1>23. CASE Rest \/ UNCHANGED vars
    BY <1>23 DEF Rest, vars, ClientInv, ShutdownOrder, ListedIsWatched, Listed
<1>24. QED
    BY <1>1, <1>2, <1>3, <1>4, <1>5, <1>6, <1>7, <1>8, <1>9, <1>10, <1>11, <1>12,
       <1>13, <1>14, <1>15, <1>16, <1>17, <1>18, <1>19, <1>20, <1>21, <1>22, <1>23
    DEF Next, MonitorStep, Stop

\* The inductive invariant of a client that is not used again after Stop.
LEMMA ClientInvariant ==
    ASSUME ~ReuseAfterStop
    PROVE  Spec => []ClientInv
<1>1. Init => ShutdownOrder /\ ListedIsWatched
    BY DEF Init, ShutdownOrder, ListedIsWatched, Listed, Unused
<1>2. ClientInv /\ [Next]_vars => ShutdownOrder' /\ ListedIsWatched'
    BY ShutdownStep
<1>3. QED
    BY <1>1, <1>2, TypeCorrect, PTL DEF Spec, ClientInv

\* When Stop has returned no goroutine of the client runs, no connection is listed and
\* the reconnect worker is gone (StoppedIsQuiescent).  A connection that a stale monitor
\* had taken off the list before (client.go:419) is not closed by Stop.
THEOREM StoppedClientIsQuiet ==
    ASSUME ~ReuseAfterStop
    PROVE  Spec => []StoppedIsQuiescent
<1>1. ClientInv => StoppedIsQuiescent
    BY DEF ClientInv, ShutdownOrder, StoppedIsQuiescent
<1>2. QED
    BY <1>1, ClientInvariant, PTL

\* Every entry of the connection map has its monitor (ListedIsWatched).
THEOREM EntriesAreWatched ==
    ASSUME ~ReuseAfterStop
    PROVE  Spec => []ListedIsWatched
<1>1. ClientInv => ListedIsWatched
    BY DEF ClientInv
<1>2. QED
    BY <1>1, ClientInvariant, PTL

\* The receive channel is closed once and nobody sends on it afterwards
\* (NeverPanics).
THEOREM NoPanic ==
    ASSUME ~ReuseAfterStop
    PROVE  Spec => []NeverPanics
<1>1. ClientInv => NeverPanics
    BY DEF ClientInv, ShutdownOrder, NeverPanics
<1>2. QED
    BY <1>1, ClientInvariant, PTL

-----------------------------------------------------------------------------
(* The retry limit and the connection map                                  *)

\* The tasks a step leaves behind are the old ones, halted, scheduled, or
\* cleared after a successful attempt.
LEMMA TaskStep ==
    ASSUME TypeOK, [Next]_vars, NEW d \in Devices
    PROVE  task'[d] \in {task[d], Halted(task[d]), Scheduled(task[d]),
                         [enabled |-> FALSE, attempts |-> 0]}
<1> DEFINE Legal == {task[d], Halted(task[d]), Scheduled(task[d]),
                     [enabled |-> FALSE, attempts |-> 0]}
<1> SUFFICES task'[d] \in Legal
    OBVIOUS
<1>1. \A D : Rescheduled(D)[d] \in Legal
    BY DEF Rescheduled
<1>2. ASSUME NEW e \in Devices, Connect(e) \/ WorkerAttempts(e) PROVE task'[d] \in Legal
    <2>1. task' = task \/ task' = Rescheduled({e})
        BY <1>2 DEF Connect, WorkerAttempts, ConnectExisting, ConnectSucceeds,
           ConnectFails, ConnectRejected, ConnectRefused
    <2>2. QED
        BY <1>1, <2>1
<1>3. ASSUME NEW e \in Devices, Disconnect(e) PROVE task'[d] \in Legal
    BY <1>3 DEF Disconnect, TypeOK
<1>4. ASSUME NEW e \in Devices, Send(e) PROVE task'[d] \in Legal
    BY <1>1, <1>4 DEF Send
<1>5. ASSUME NEW e \in Devices, NEW i \in Slot, MonitorSchedules(e, i)
      PROVE  task'[d] \in Legal
    BY <1>1, <1>5 DEF MonitorSchedules
<1>6. ASSUME NEW e \in Devices, WorkerSettles(e) PROVE task'[d] \in Legal
    BY <1>6 DEF WorkerSettles, TypeOK
<1>7. CASE CleanupInactive
    BY <1>1, <1>7 DEF CleanupInactive
<1>8. CASE UNCHANGED task
    BY <1>8
<1>9. QED
    BY <1>2, <1>3, <1>4, <1>5, <1>6, <1>7, <1>8
    DEF Next, MonitorStep, Stop, PeerCloses, LinkDrops, MonitorReceives,
        MonitorRemoves, MonitorCancelled, WorkerTick, WorkerExits, ProcessMessage,
        LoopExits, Start, StartFails, StopBegins, StopReconnectManager,
        StopConnections, StopCancels, StopFinishes, Rest, vars

\* An enabled task has attempts left (AttemptsWithinLimit), whatever
\* interleaving of calls, monitors and worker scheduled it.
THEOREM LimitRespected == Spec => []AttemptsWithinLimit
<1>1. Init => AttemptsWithinLimit
    BY DEF Init, AttemptsWithinLimit
<1>2. TypeOK /\ AttemptsWithinLimit /\ [Next]_vars => AttemptsWithinLimit'
    <2> SUFFICES ASSUME TypeOK, AttemptsWithinLimit, [Next]_vars, NEW d \in Devices,
                        task'[d].enabled, RetryAttempts # 0
                 PROVE  task'[d].attempts <= RetryAttempts
        BY DEF AttemptsWithinLimit
    <2>1. task[d] \in Task
        BY DEF TypeOK
    <2>2. ~Halted(task[d]).enabled
        BY <2>1 DEF Halted, Task
    <2>3. QED
        BY <2>1, <2>2, TaskStep, ScheduledLimit DEF AttemptsWithinLimit
<1>3. QED
    BY <1>1, <1>2, TypeCorrect, PTL DEF Spec

\* No step replaces a live connection of the map by another one
\* (NoSwapOfLiveConnection).
THEOREM LiveConnectionStays == Spec => NoSwapOfLiveConnection
<1>1. ASSUME TypeOK, [Next]_vars, NEW d \in Devices, ActiveListed(d)
      PROVE  connections'[d] \in {connections[d], 0}
    <2>1. ASSUME NEW e \in Devices, Connect(e) \/ WorkerAttempts(e)
          PROVE  connections'[d] \in {connections[d], 0}
        BY <1>1, <2>1 DEF Connect, WorkerAttempts, ConnectExisting, ConnectSucceeds,
           ConnectFails, ConnectRejected, ConnectRefused, TypeOK
    <2>2. ASSUME NEW e \in Devices, Disconnect(e)
          PROVE  connections'[d] \in {connections[d], 0}
        BY <1>1, <2>2 DEF Disconnect, TypeOK
    <2>3. ASSUME NEW e \in Devices, NEW i \in Slot, MonitorRemoves(e, i)
          PROVE  connections'[d] \in {connections[d], 0}
        BY <1>1, <2>3 DEF MonitorRemoves, TypeOK
    <2>4. CASE CleanupInactive
        BY <1>1, <2>4 DEF CleanupInactive
    <2>5. CASE StopConnections
        BY <2>5 DEF StopConnections
    <2>6. CASE UNCHANGED connections
        BY <2>6
    <2>7. QED
        BY <1>1, <2>1, <2>2, <2>3, <2>4, <2>5, <2>6
        DEF Next, MonitorStep, Stop, Send, PeerCloses, LinkDrops, MonitorReceives,
            MonitorSchedules, MonitorCancelled, WorkerTick, WorkerSettles, WorkerExits,
            ProcessMessage, LoopExits, Start, StartFails, StopBegins,
            StopReconnectManager, StopCancels, StopFinishes, Rest, vars
<1>2. TypeOK /\ [Next]_vars =>
        [\A d \in Devices : ActiveListed(d) => connections'[d] \in {connections[d], 0}]_vars
    BY <1>1
<1>3. QED
    BY <1>2, TypeCorrect, PTL DEF Spec, NoSwapOfLiveConnection
=============================================================================
