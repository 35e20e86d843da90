--------------------------- MODULE ServerLifecycle ---------------------------
(***************************************************************************)
(* The Bluetooth server (pkg/bluetooth/server.go): its connection map, the *)
(* goroutines that serve it and the shutdown.                              *)
(*                                                                         *)
(* Processes: the owner (Start, Listen, Stop), the application             *)
(* (DisconnectDevice), the connection acceptor, one monitor per accepted   *)
(* connection, the message processor, the connection manager with its      *)
(* ticker, and the remote devices, which connect, close a connection or    *)
(* let the link drop.                                                      *)
(*                                                                         *)
(* s.mu: Stop holds it from its first step to its last, across the wait    *)
(* for the goroutines; every other critical section is one step, possible  *)
(* only while no Stop is running.  What a goroutine has learnt before it   *)
(* asks for the lock is in its state: the accepted connection, the tick,   *)
(* the closed channel.                                                     *)
(***************************************************************************)
EXTENDS Naturals, FiniteSets

CONSTANTS
    Devices,         \* remote device identifiers
    Slots,           \* bound: connection objects alive per device
    MaxConnections,  \* ServerConfig.MaxConnections
    InboxCap,        \* capacity of the server's receive channel
    ReuseAfterStop   \* may the owner stop a stopped server or start it again?

ASSUME ServerAssumption ==
    /\ IsFiniteSet(Devices)
    /\ Slots \in Nat \ {0}
    /\ MaxConnections \in Nat
    /\ InboxCap \in Nat \ {0}
    /\ ReuseAfterStop \in BOOLEAN

VARIABLES
    status,       \* ComponentStatus of the server, "crashed" after a panic
    stopper,      \* how far the running call of Stop has come; it holds s.mu
    cancelled,    \* s.ctx is done
    chansClosed,  \* the receive and the connection channel have been closed
    listening,    \* does the adapter listen?
    loops,        \* which of the three background loops run
    pending,      \* the connection the acceptor has been given, by its device
    ticked,       \* the connection manager has taken a tick
    inbox,        \* number of messages in s.receiveChan
    connections,  \* the connection map: a slot of the device, 0 for no entry
    conn,         \* the accepted connection objects and their monitors
    overtaken     \* history: devices that came back before the monitor of
                  \* their previous connection had ended

vars == <<status, stopper, cancelled, chansClosed, listening, loops, pending,
          ticked, inbox, connections, conn, overtaken>>

lifecycle == <<status, stopper, cancelled, chansClosed, listening>>

Slot     == 1 .. Slots
Loop     == {"processor", "manager", "acceptor"}
Status   == {"stopped", "running", "stopping", "error", "crashed"}
StopStep == {"none", "closed", "join"}
Monitor  == {"none", "watching", "closing"}

\* heard: the connection handler has been told that the connection ended.
Connection == [active : BOOLEAN, open : BOOLEAN, monitor : Monitor, heard : BOOLEAN]

TypeOK ==
    /\ status \in Status
    /\ stopper \in StopStep
    /\ cancelled \in BOOLEAN
    /\ chansClosed \in BOOLEAN
    /\ listening \in BOOLEAN
    /\ loops \in SUBSET Loop
    /\ pending \in SUBSET Devices
    /\ ticked \in BOOLEAN
    /\ inbox \in 0 .. InboxCap
    /\ connections \in [Devices -> 0 .. Slots]
    /\ conn \in [Devices -> [Slot -> Connection]]
    /\ overtaken \in SUBSET Devices

-----------------------------------------------------------------------------
Unused == [active |-> FALSE, open |-> FALSE, monitor |-> "none", heard |-> TRUE]
Fresh  == [active |-> TRUE, open |-> TRUE, monitor |-> "watching", heard |-> FALSE]

\* Connection.Close: closes the receive channel of an active connection only.
Closed(c) == IF c.active THEN [c EXCEPT !.active = FALSE, !.open = FALSE] ELSE c

\* The end of a connection as the server itself brings it about: the handler's
\* OnDisconnected, then Close.
Ended(c) == [Closed(c) EXCEPT !.heard = TRUE]

Listed(d)        == connections[d] # 0
ConnectedDevices == {d \in Devices : Listed(d)}
ActiveListed(d)  == Listed(d) /\ conn[d][connections[d]].active
Watched(d)       == \E i \in Slot : conn[d][i].monitor # "none"

\* A slot can hold a new connection object once nothing refers to the old one.
FreeSlots(d) == {i \in Slot : /\ connections[d] # i
                              /\ ~conn[d][i].active
                              /\ conn[d][i].monitor = "none"}

FirstFree(d, i) == i \in FreeSlots(d) /\ \A j \in FreeSlots(d) : i <= j

Up       == status # "crashed"
LockFree == Up /\ stopper = "none"

\* Mutation: the limit is noticed one connection too late.
FullLate == Cardinality(ConnectedDevices) > MaxConnections

Full == Cardinality(ConnectedDevices) >= MaxConnections

-----------------------------------------------------------------------------
(* The remote devices                                                      *)

PeerCloses(d, i) ==
    /\ Up
    /\ conn[d][i].active
    /\ conn' = [conn EXCEPT ![d][i] = Closed(@)]
    /\ UNCHANGED <<lifecycle, loops, pending, ticked, inbox, connections, overtaken>>

\* The link is lost: the connection turns inactive, its channel stays open.
LinkDrops(d, i) ==
    /\ Up
    /\ conn[d][i].active
    /\ conn' = [conn EXCEPT ![d][i].active = FALSE]
    /\ UNCHANGED <<lifecycle, loops, pending, ticked, inbox, connections, overtaken>>

-----------------------------------------------------------------------------
(* connectionAcceptor                                                      *)

\* The adapter hands out a connection of a device (bound: the device must have a
\* slot left, so that the handler is never in want of one).
AcceptorAccepts(d) ==
    /\ Up
    /\ "acceptor" \in loops
    /\ pending = {}
    /\ listening
    /\ FreeSlots(d) # {}
    /\ pending' = {d}
    /\ UNCHANGED <<lifecycle, loops, ticked, inbox, connections, conn, overtaken>>

\* handleNewConnection: the limit is reached, or the device is connected; the
\* new connection is closed.
AcceptorRefuses(d) ==
    /\ LockFree
    /\ d \in pending
    /\ Full \/ ActiveListed(d)
    /\ pending' = {}
    /\ UNCHANGED <<lifecycle, loops, ticked, inbox, connections, conn, overtaken>>

\* Mutation: a device that is connected already is not refused.
AcceptorAdmitsAnyway(d) ==
    /\ LockFree
    /\ d \in pending
    /\ ~Full
    /\ pending' = {}
    /\ \E i \in Slot :
          /\ FirstFree(d, i)
          /\ connections' = [connections EXCEPT ![d] = i]
          /\ conn' = [conn EXCEPT ![d][i] = Fresh]
    /\ overtaken' = IF Watched(d) THEN overtaken \cup {d} ELSE overtaken
    /\ UNCHANGED <<lifecycle, loops, ticked, inbox>>

\* handleNewConnection: the entry of an inactive connection is overwritten, the
\* handler agrees, a monitor is started.  The put to the connection channel
\* never blocks and nothing else depends on it.
AcceptorAdmits(d) ==
    /\ LockFree
    /\ d \in pending
    /\ ~Full
    /\ ~ActiveListed(d)
    /\ pending' = {}
    /\ \E i \in Slot :
          /\ FirstFree(d, i)
          /\ connections' = [connections EXCEPT ![d] = i]
          /\ conn' = [conn EXCEPT ![d][i] = Fresh]
    /\ overtaken' = IF Watched(d) THEN overtaken \cup {d} ELSE overtaken
    /\ UNCHANGED <<lifecycle, loops, ticked, inbox>>

\* handleNewConnection: OnConnected fails, the new connection is closed and
\* taken out again, after the inactive one before it.
AcceptorRejected(d) ==
    /\ LockFree
    /\ d \in pending
    /\ ~Full
    /\ ~ActiveListed(d)
    /\ pending' = {}
    /\ connections' = [connections EXCEPT ![d] = 0]
    /\ overtaken' = IF Watched(d) THEN overtaken \cup {d} ELSE overtaken
    /\ UNCHANGED <<lifecycle, loops, ticked, inbox, conn>>

HandleNewConnection(d) ==
    AcceptorRefuses(d) \/ AcceptorAdmits(d) \/ AcceptorRejected(d)

-----------------------------------------------------------------------------
(* monitorConnection, one goroutine per accepted connection                *)

\* handleReceivedData: a full channel drops the message, a closed one panics.
MonitorReceives(d, i) ==
    /\ Up
    /\ conn[d][i].monitor = "watching"
    /\ IF chansClosed
       THEN /\ status' = "crashed"
            /\ UNCHANGED inbox
       ELSE /\ inbox' = IF inbox < InboxCap THEN inbox + 1 ELSE inbox
            /\ UNCHANGED status
    /\ UNCHANGED <<stopper, cancelled, chansClosed, listening, loops, pending,
                   ticked, connections, conn, overtaken>>

\* The select has taken the closed channel.
MonitorSeesClose(d, i) ==
    /\ Up
    /\ conn[d][i].monitor = "watching"
    /\ ~conn[d][i].open
    /\ conn' = [conn EXCEPT ![d][i].monitor = "closing"]
    /\ UNCHANGED <<lifecycle, loops, pending, ticked, inbox, connections, overtaken>>

\* Mutation: the entry of the closed connection is not removed.
MonitorForgets(d, i) ==
    /\ LockFree
    /\ conn[d][i].monitor = "closing"
    /\ conn' = [conn EXCEPT ![d][i].monitor = "none", ![d][i].heard = TRUE]
    /\ UNCHANGED <<lifecycle, loops, pending, ticked, inbox, connections, overtaken>>

\* handleConnectionClosed removes the entry of the DEVICE, whichever connection
\* it holds by now, and tells the handler about its own connection.
MonitorRemoves(d, i) ==
    /\ LockFree
    /\ conn[d][i].monitor = "closing"
    /\ connections' = [connections EXCEPT ![d] = 0]
    /\ conn' = [conn EXCEPT ![d][i].monitor = "none", ![d][i].heard = TRUE]
    /\ UNCHANGED <<lifecycle, loops, pending, ticked, inbox, overtaken>>

MonitorCancelled(d, i) ==
    /\ Up
    /\ cancelled
    /\ conn[d][i].monitor = "watching"
    /\ conn' = [conn EXCEPT ![d][i].monitor = "none"]
    /\ UNCHANGED <<lifecycle, loops, pending, ticked, inbox, connections, overtaken>>

-----------------------------------------------------------------------------
(* The other loops                                                         *)

ProcessMessage ==
    /\ Up
    /\ "processor" \in loops
    /\ inbox > 0
    /\ inbox' = inbox - 1
    /\ UNCHANGED <<lifecycle, loops, pending, ticked, connections, conn, overtaken>>

ManagerTicks ==
    /\ Up
    /\ "manager" \in loops
    /\ ~ticked
    /\ ticked' = TRUE
    /\ UNCHANGED <<lifecycle, loops, pending, inbox, connections, conn, overtaken>>

Inactive == {d \in Devices : Listed(d) /\ ~ActiveListed(d)}

\* Every listed connection of a device in D is reported to the handler and closed.
EndedAll(D) ==
    [d \in Devices |-> [i \in Slot |->
        IF d \in D /\ connections[d] = i THEN Ended(conn[d][i]) ELSE conn[d][i]]]

\* Mutation: the inactive connections are left in the map.
CleanupForgets ==
    /\ LockFree
    /\ ticked
    /\ ticked' = FALSE
    /\ conn' = EndedAll(Inactive)
    /\ UNCHANGED <<lifecycle, loops, pending, inbox, connections, overtaken>>

\* cleanupInactiveConnections.  Closing an inactive connection has no effect:
\* after a link drop the receive channel stays open and the monitor stays.
CleanupInactive ==
    /\ LockFree
    /\ ticked
    /\ ticked' = FALSE
    /\ conn' = EndedAll(Inactive)
    /\ connections' = [d \in Devices |-> IF d \in Inactive THEN 0 ELSE connections[d]]
    /\ UNCHANGED <<lifecycle, loops, pending, inbox, overtaken>>

LoopExits(g) ==
    /\ Up
    /\ cancelled
    /\ g \in loops
    /\ g = "manager" => ~ticked
    /\ g = "acceptor" => pending = {}
    /\ loops' = loops \ {g}
    /\ UNCHANGED <<lifecycle, pending, ticked, inbox, connections, conn, overtaken>>

-----------------------------------------------------------------------------
(* The application                                                         *)

\* Mutation: the connection is taken out of the map and not closed.
DisconnectLeavesOpen(d) ==
    /\ LockFree
    /\ Listed(d)
    /\ conn' = [conn EXCEPT ![d][connections[d]].heard = TRUE]
    /\ connections' = [connections EXCEPT ![d] = 0]
    /\ UNCHANGED <<lifecycle, loops, pending, ticked, inbox, overtaken>>

DisconnectDevice(d) ==
    /\ LockFree
    /\ Listed(d)
    /\ conn' = [conn EXCEPT ![d][connections[d]] = Ended(@)]
    /\ connections' = [connections EXCEPT ![d] = 0]
    /\ UNCHANGED <<lifecycle, loops, pending, ticked, inbox, overtaken>>

-----------------------------------------------------------------------------
(* The owner.  Unless ReuseAfterStop, it stops only what it started and    *)
(* starts nothing that was stopped.                                        *)

MayStart == ReuseAfterStop \/ ~cancelled
MayStop  == ReuseAfterStop \/ ~cancelled

Start ==
    /\ LockFree
    /\ status # "running"
    /\ MayStart
    /\ status' = "running"
    /\ loops' = loops \cup {"processor", "manager"}
    /\ UNCHANGED <<stopper, cancelled, chansClosed, listening, pending, ticked,
                   inbox, connections, conn, overtaken>>

\* The adapter cannot be initialized, enabled or made discoverable.
StartFails ==
    /\ LockFree
    /\ status # "running"
    /\ MayStart
    /\ status' = "error"
    /\ UNCHANGED <<stopper, cancelled, chansClosed, listening, loops, pending,
                   ticked, inbox, connections, conn, overtaken>>

\* An adapter that listens already refuses.
Listen ==
    /\ LockFree
    /\ status = "running"
    /\ ~listening
    /\ listening' = TRUE
    /\ loops' = loops \cup {"acceptor"}
    /\ UNCHANGED <<status, stopper, cancelled, chansClosed, pending, ticked,
                   inbox, connections, conn, overtaken>>

\* Mutation: the handler is not told about the connections Stop closes.
StopSilently ==
    /\ LockFree
    /\ status # "stopped"
    /\ MayStop
    /\ status' = "stopping"
    /\ stopper' = "closed"
    /\ listening' = FALSE
    /\ conn' = [d \in Devices |-> [i \in Slot |->
                  IF connections[d] = i THEN Closed(conn[d][i]) ELSE conn[d][i]]]
    /\ connections' = [d \in Devices |-> 0]
    /\ UNCHANGED <<cancelled, chansClosed, loops, pending, ticked, inbox, overtaken>>

\* Stop takes s.mu, stops the listening and ends every listed connection.
StopBegins ==
    /\ LockFree
    /\ status # "stopped"
    /\ MayStop
    /\ status' = "stopping"
    /\ stopper' = "closed"
    /\ listening' = FALSE
    /\ conn' = EndedAll(Devices)
    /\ connections' = [d \in Devices |-> 0]
    /\ UNCHANGED <<cancelled, chansClosed, loops, pending, ticked, inbox, overtaken>>

\* The adapter is shut down and s.ctx cancelled, s.wg.Wait begins.
StopCancels ==
    /\ Up
    /\ stopper = "closed"
    /\ stopper' = "join"
    /\ cancelled' = TRUE
    /\ UNCHANGED <<status, chansClosed, listening, loops, pending, ticked, inbox,
                   connections, conn, overtaken>>

\* Mutation: the goroutines of the server are not waited for.
StopFinishesEarly ==
    /\ Up
    /\ stopper = "join"
    /\ stopper' = "none"
    /\ status' = IF chansClosed THEN "crashed" ELSE "stopped"
    /\ chansClosed' = TRUE
    /\ UNCHANGED <<cancelled, listening, loops, pending, ticked, inbox,
                   connections, conn, overtaken>>

\* After s.wg.Wait.  Closing the channels twice panics.  The lock is released.
StopFinishes ==
    /\ Up
    /\ stopper = "join"
    /\ loops = {}
    /\ \A d \in Devices : ~Watched(d)
    /\ stopper' = "none"
    /\ status' = IF chansClosed THEN "crashed" ELSE "stopped"
    /\ chansClosed' = TRUE
    /\ UNCHANGED <<cancelled, listening, loops, pending, ticked, inbox,
                   connections, conn, overtaken>>

-----------------------------------------------------------------------------
Init ==
    /\ status = "stopped"
    /\ stopper = "none"
    /\ cancelled = FALSE
    /\ chansClosed = FALSE
    /\ listening = FALSE
    /\ loops = {}
    /\ pending = {}
    /\ ticked = FALSE
    /\ inbox = 0
    /\ connections = [d \in Devices |-> 0]
    /\ conn = [d \in Devices |-> [i \in Slot |-> Unused]]
    /\ overtaken = {}

MonitorStep(d, i) ==
    \/ MonitorReceives(d, i)
    \/ MonitorSeesClose(d, i)
    \/ MonitorRemoves(d, i)
    \/ MonitorCancelled(d, i)

Stop == StopBegins \/ StopCancels \/ StopFinishes

Next ==
    \/ \E d \in Devices, i \in Slot : PeerCloses(d, i) \/ LinkDrops(d, i)
    \/ \E d \in Devices : AcceptorAccepts(d) \/ HandleNewConnection(d)
    \/ \E d \in Devices, i \in Slot : MonitorStep(d, i)
    \/ ProcessMessage
    \/ ManagerTicks
    \/ CleanupInactive
    \/ \E g \in Loop : LoopExits(g)
    \/ \E d \in Devices : DisconnectDevice(d)
    \/ Start
    \/ StartFails
    \/ Listen
    \/ Stop

Spec == Init /\ [][Next]_vars

(***************************************************************************)
(* Goroutines that can run do run, the ticker keeps ticking, and a call of *)
(* Stop goes on as soon as it can.  Nothing is assumed of the owner, the   *)
(* application or the remote devices.  A loop that is offered its          *)
(* cancelled context again and again does not pass it over for ever.       *)
(***************************************************************************)
Fairness ==
    /\ \A d \in Devices, i \in Slot :
          /\ WF_vars(MonitorSeesClose(d, i) \/ MonitorCancelled(d, i))
          /\ WF_vars(MonitorRemoves(d, i))
    /\ \A d \in Devices : WF_vars(HandleNewConnection(d))
    /\ WF_vars(ManagerTicks)
    /\ WF_vars(CleanupInactive)
    /\ \A g \in Loop : SF_vars(LoopExits(g))
    /\ WF_vars(StopCancels)
    /\ WF_vars(StopFinishes)

FairSpec == Spec /\ Fairness

-----------------------------------------------------------------------------
(* What the server promises                                                *)

\* The map never holds more connections than configured (server_test.go:243).
Capacity == Cardinality(ConnectedDevices) <= MaxConnections

\* Every entry of the connection map has a monitor that has not ended: the loss
\* of a connection in the map cannot go unnoticed (handleNewConnection).
ListedIsWatched ==
    \A d \in Devices : Listed(d) => conn[d][connections[d]].monitor # "none"

\* No goroutine sends on a channel Stop has closed, and Stop closes it once.
NeverPanics == status # "crashed"

\* An accepted connection that is alive is in the map, where Send finds it and
\* Stop closes it, unless its device came back before the monitor of an earlier
\* connection had ended.
LiveIsListed ==
    \A d \in Devices \ overtaken, i \in Slot : conn[d][i].active => connections[d] = i

\* The handler that accepted a connection is told about its end before the
\* connection's monitor ends, with the same exception.
EndIsReported ==
    \A d \in Devices \ overtaken, i \in Slot :
        conn[d][i].monitor = "none" => conn[d][i].heard

\* A live connection in the map is never replaced by another one.
NoSwapOfLiveConnection ==
    [][\A d \in Devices : ActiveListed(d) => connections'[d] \in {connections[d], 0}]_vars

\* A dead connection does not stay in the map.
DeadIsUnlisted ==
    \A d \in Devices : (Listed(d) /\ ~ActiveListed(d)) ~> (~Listed(d) \/ ActiveListed(d))

-----------------------------------------------------------------------------
(* What comments, documents and tests claim and the code does not keep     *)

\* Stop waits for the goroutines to end and returns (server.go:141).
StopReturns == stopper # "none" ~> stopper = "none"

\* MaxConnections bounds the clients served at the same time
\* (docs/guides/configuration.md:169).
LiveWithinLimit ==
    Cardinality({p \in Devices \X Slot : conn[p[1]][p[2]].active}) <= MaxConnections
=============================================================================
