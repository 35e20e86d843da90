------------------------ MODULE ServerLifecycleProofs ------------------------
(* Proofs about ServerLifecycle, for an owner that neither stops a server  *)
(* twice nor starts it again after Stop (~ReuseAfterStop) wherever a       *)
(* theorem says so.                                                        *)
EXTENDS ServerLifecycle, FiniteSetTheorems, TLAPS

-----------------------------------------------------------------------------
(* Connections                                                             *)

\* Closing, ending and losing a connection keep it well formed; none of them
\* touches its monitor, none of them revives it or takes back a report.
LEMMA ConnectionType ==
    /\ Unused \in Connection /\ Fresh \in Connection
    /\ \A c \in Connection :
          /\ Closed(c) \in Connection /\ Ended(c) \in Connection
          /\ [c EXCEPT !.active = FALSE] \in Connection
          /\ Closed(c).monitor = c.monitor /\ Ended(c).monitor = c.monitor
          /\ ~Closed(c).active /\ ~Ended(c).active
          /\ Closed(c).heard = c.heard /\ Ended(c).heard
    /\ \A c \in Connection, m \in Monitor :
          /\ [c EXCEPT !.monitor = m] \in Connection
          /\ [c EXCEPT !.monitor = m, !.heard = TRUE] \in Connection
BY DEF Connection, Monitor, Unused, Fresh, Closed, Ended

\* Updating one connection object keeps the table well formed.
LEMMA SlotUpdate ==
    ASSUME TypeOK, NEW d \in Devices, NEW i \in Slot, NEW c \in Connection
    PROVE  [conn EXCEPT ![d][i] = c] \in [Devices -> [Slot -> Connection]]
BY DEF TypeOK

\* The entries of the connection map: none, or a slot.
LEMMA EntryType ==
    ASSUME TypeOK
    PROVE  /\ 0 \in 0 .. Slots /\ Slot \subseteq 0 .. Slots /\ 0 \notin Slot
           /\ \A d \in Devices : Listed(d) => connections[d] \in Slot
BY ServerAssumption DEF TypeOK, Slot, Listed

\* Ending the listed connections of some devices keeps every object well formed.
LEMMA EndedAllType ==
    ASSUME TypeOK, NEW D
    PROVE  EndedAll(D) \in [Devices -> [Slot -> Connection]]
BY ConnectionType DEF EndedAll, TypeOK

\* What the remote device can do to a connection.
LEMMA PeerEffect ==
    ASSUME TypeOK, NEW d \in Devices, NEW i \in Slot, PeerCloses(d, i) \/ LinkDrops(d, i)
    PROVE  \A e \in Devices, j \in Slot :
              /\ conn'[e][j].monitor = conn[e][j].monitor
              /\ conn'[e][j].heard = conn[e][j].heard
              /\ conn'[e][j].active => conn'[e][j] = conn[e][j]
              /\ conn'[e][j].open => conn[e][j].open
<1>1. /\ \A e \in Devices, j \in Slot : (e # d \/ j # i) => conn'[e][j] = conn[e][j]
      /\ \/ conn'[d][i] = Closed(conn[d][i])
         \/ conn'[d][i] = [conn[d][i] EXCEPT !.active = FALSE]
    <2>1. PICK c : /\ c = Closed(conn[d][i]) \/ c = [conn[d][i] EXCEPT !.active = FALSE]
                   /\ conn' = [conn EXCEPT ![d] = [conn[d] EXCEPT ![i] = c]]
        <3>1. CASE PeerCloses(d, i)
            BY <3>1 DEF PeerCloses, TypeOK
        <3>2. CASE LinkDrops(d, i)
            BY <3>2 DEF LinkDrops, TypeOK
        <3>3. QED
            BY <3>1, <3>2
    <2>2. /\ \A e \in Devices, j \in Slot : (e # d \/ j # i) => conn'[e][j] = conn[e][j]
          /\ conn'[d][i] = c
        BY <2>1 DEF TypeOK
    <2>3. QED
        BY <2>1, <2>2
<1>2. conn[d][i] \in Connection
    BY DEF TypeOK
<1>3. /\ conn'[d][i].monitor = conn[d][i].monitor
      /\ conn'[d][i].heard = conn[d][i].heard
      /\ ~conn'[d][i].active
      /\ conn'[d][i].open => conn[d][i].open
    <2>1. CASE conn'[d][i] = Closed(conn[d][i])
        BY <1>2, <2>1 DEF Closed, Connection
    <2>2. CASE conn'[d][i] = [conn[d][i] EXCEPT !.active = FALSE]
        BY <1>2, <2>2 DEF Connection
    <2>3. QED
        BY <1>1, <2>1, <2>2
<1>4. QED
    BY <1>1, <1>3

\* What ending the listed connections of some devices does to each connection.
LEMMA EndedAllEffect ==
    ASSUME TypeOK, NEW D, NEW d \in Devices, NEW i \in Slot
    PROVE  LET c == EndedAll(D)[d][i]
           IN  /\ c.monitor = conn[d][i].monitor
               /\ conn[d][i].heard => c.heard
               /\ c.active => c = conn[d][i]
               /\ c.open => conn[d][i].open
               /\ d \in D /\ connections[d] = i => ~c.active /\ c.heard
<1>1. EndedAll(D)[d][i] = IF d \in D /\ connections[d] = i THEN Ended(conn[d][i]) ELSE conn[d][i]
    BY DEF EndedAll
<1>2. conn[d][i] \in Connection
    BY DEF TypeOK
<1>3. /\ Ended(conn[d][i]).monitor = conn[d][i].monitor
      /\ Ended(conn[d][i]).heard
      /\ ~Ended(conn[d][i]).active
      /\ Ended(conn[d][i]).open => conn[d][i].open
    BY <1>2 DEF Ended, Closed, Connection
<1>4. QED
    BY <1>1, <1>3

\* Every variable keeps its type, whatever the owner does (TypeOK).
LEMMA TypeStep == TypeOK /\ [Next]_vars => TypeOK'
<1> SUFFICES ASSUME TypeOK, [Next]_vars PROVE TypeOK'
    OBVIOUS
<1> USE DEF lifecycle
<1>1. ASSUME NEW d \in Devices, NEW i \in Slot, PeerCloses(d, i) PROVE TypeOK'
    BY <1>1, ConnectionType DEF PeerCloses, TypeOK
<1>2. ASSUME NEW d \in Devices, NEW i \in Slot, LinkDrops(d, i) PROVE TypeOK'
    <2>1. conn' \in [Devices -> [Slot -> Connection]]
        BY <1>2, ConnectionType DEF LinkDrops, TypeOK
    <2>2. QED
        BY <1>2, <2>1 DEF LinkDrops, TypeOK
<1>3. ASSUME NEW d \in Devices, AcceptorAccepts(d) PROVE TypeOK'
    BY <1>3 DEF AcceptorAccepts, TypeOK
<1>4. ASSUME NEW d \in Devices, HandleNewConnection(d) PROVE TypeOK'
    <2>2. CASE AcceptorRefuses(d)
        BY <2>2 DEF AcceptorRefuses, TypeOK
    <2>3. CASE AcceptorAdmits(d)
        <3>1. PICK i \in Slot : /\ connections' = [connections EXCEPT ![d] = i]
                                /\ conn' = [conn EXCEPT ![d][i] = Fresh]
            BY <2>3 DEF AcceptorAdmits
        <3>2. conn' \in [Devices -> [Slot -> Connection]]
            BY <3>1, SlotUpdate, ConnectionType
        <3>3. connections' \in [Devices -> 0 .. Slots]
            BY <3>1, EntryType DEF TypeOK
        <3>4. QED
            BY <2>3, <3>2, <3>3 DEF AcceptorAdmits, TypeOK
    <2>4. CASE AcceptorRejected(d)
        BY <2>4, EntryType DEF AcceptorRejected, TypeOK
    <2>5. QED
        BY <1>4, <2>2, <2>3, <2>4 DEF HandleNewConnection
<1>5. ASSUME NEW d \in Devices, NEW i \in Slot, MonitorStep(d, i) PROVE TypeOK'
    <2>1. {"none", "closing"} \subseteq Monitor
        BY DEF Monitor
    <2>2. CASE MonitorReceives(d, i)
        BY <2>2, ServerAssumption DEF MonitorReceives, TypeOK, Status
    <2>3. CASE MonitorSeesClose(d, i)
        BY <2>1, <2>3, ConnectionType DEF MonitorSeesClose, TypeOK
    <2>4. CASE MonitorRemoves(d, i)
        <3>1. conn' = [conn EXCEPT ![d] = [conn[d] EXCEPT
                          ![i] = [conn[d][i] EXCEPT !.monitor = "none", !.heard = TRUE]]]
            BY <2>4 DEF MonitorRemoves, TypeOK
        <3>2. conn' \in [Devices -> [Slot -> Connection]]
            BY <2>1, <3>1, ConnectionType DEF TypeOK
        <3>3. QED
            BY <2>4, <3>2, ServerAssumption DEF MonitorRemoves, TypeOK
    <2>5. CASE MonitorCancelled(d, i)
        BY <2>1, <2>5, ConnectionType DEF MonitorCancelled, TypeOK
    <2>6. QED
        BY <1>5, <2>2, <2>3, <2>4, <2>5 DEF MonitorStep
<1>6. CASE ProcessMessage
    BY <1>6, ServerAssumption DEF ProcessMessage, TypeOK
<1>7. CASE ManagerTicks
    BY <1>7 DEF ManagerTicks, TypeOK
<1>8. CASE CleanupInactive
    <2>1. connections' \in [Devices -> 0 .. Slots]
        BY <1>8, EntryType DEF CleanupInactive, TypeOK
    <2>2. conn' \in [Devices -> [Slot -> Connection]]
        BY <1>8, EndedAllType DEF CleanupInactive
    <2>3. QED
        BY <1>8, <2>1, <2>2 DEF CleanupInactive, TypeOK
<1>9. ASSUME NEW g \in Loop, LoopExits(g) PROVE TypeOK'
    BY <1>9 DEF LoopExits, TypeOK
<1>10. ASSUME NEW d \in Devices, DisconnectDevice(d) PROVE TypeOK'
    <2>1. connections[d] \in Slot
        BY <1>10, EntryType DEF DisconnectDevice
    <2>2. conn' \in [Devices -> [Slot -> Connection]]
        BY <1>10, <2>1, ConnectionType DEF DisconnectDevice, TypeOK
    <2>3. QED
        BY <1>10, <2>2, EntryType DEF DisconnectDevice, TypeOK
<1>11. CASE Start \/ StartFails \/ Listen
    BY <1>11 DEF Start, StartFails, Listen, TypeOK, Status, Loop
<1>12. CASE Stop
    <2>1. CASE StopBegins
        <3>1. conn' \in [Devices -> [Slot -> Connection]]
            BY <2>1, EndedAllType DEF StopBegins
        <3>2. connections' \in [Devices -> 0 .. Slots]
            BY <2>1, EntryType DEF StopBegins
        <3>3. QED
            BY <2>1, <3>1, <3>2 DEF StopBegins, TypeOK, Status, StopStep
    <2>2. CASE StopCancels \/ StopFinishes
        BY <2>2 DEF StopCancels, StopFinishes, TypeOK, Status, StopStep
    <2>3. QED
        BY <1>12, <2>1, <2>2 DEF Stop
<1>13. CASE UNCHANGED vars
    BY <1>13 DEF vars, TypeOK
<1>14. QED
    BY <1>1, <1>2, <1>3, <1>4, <1>5, <1>6, <1>7, <1>8, <1>9, <1>10, <1>11,
       <1>12, <1>13 DEF Next

\* ServerLifecycle keeps its tables, connections and counters well-formed.
THEOREM TypeCorrect == Spec => []TypeOK
<1>1. Init => TypeOK
    <2>1. 0 \in 0 .. InboxCap /\ 0 \in 0 .. Slots
        BY ServerAssumption
    <2>2. Init => conn \in [Devices -> [Slot -> Connection]]
        <3>1. Unused \in Connection
            BY ConnectionType
        <3>2. QED
            BY <3>1 DEF Init
    <2>3. Init => connections \in [Devices -> 0 .. Slots]
        BY <2>1 DEF Init
    <2>4. QED
        BY <2>1, <2>2, <2>3 DEF Init, TypeOK, Status, StopStep
<1>2. QED
    BY <1>1, TypeStep, PTL DEF Spec

-----------------------------------------------------------------------------
(* Shutdown                                                                *)

\* The order of the shutdown: what each step of Stop has left behind, and that
\* whoever waits for the lock is a goroutine Stop waits for.
ShutdownOrder ==
    /\ Up
    /\ pending # {} => "acceptor" \in loops
    /\ ticked => "manager" \in loops
    /\ stopper = "closed" => ~cancelled
    /\ stopper = "join" => cancelled
    /\ stopper # "none" => status = "stopping"
    /\ stopper # "none" \/ cancelled => \A d \in Devices : ~Listed(d)
    /\ cancelled => stopper = "join" \/ chansClosed
    /\ chansClosed =>
          /\ cancelled
          /\ stopper = "none"
          /\ status = "stopped"
          /\ loops = {}
          /\ \A d \in Devices : ~Watched(d)

\* A step that leaves the shutdown, the loops and the map alone, and adds no
\* monitor, keeps the order.
LEMMA OrderKept ==
    ASSUME ShutdownOrder,
           UNCHANGED <<status, stopper, cancelled, chansClosed, loops>>,
           pending' \subseteq pending \/ "acceptor" \in loops,
           ticked' => ticked \/ "manager" \in loops,
           \A d \in Devices : Listed(d)' => Listed(d),
           \A d \in Devices : Watched(d)' => Watched(d)
    PROVE  ShutdownOrder'
BY DEF ShutdownOrder, Up

\* A monitor or a connection object that moves on does not become watched.
LEMMA WatchedKept ==
    ASSUME NEW d \in Devices, NEW i \in Slot, Watched(d),
           \A e \in Devices, j \in Slot :
               (e # d \/ j # i) => conn'[e][j].monitor = conn[e][j].monitor
    PROVE  \A e \in Devices : Watched(e)' => Watched(e)
BY DEF Watched

\* Every step keeps the order of a shutdown.
LEMMA ShutdownStep ==
    ASSUME TypeOK, ShutdownOrder, [Next]_vars, ~ReuseAfterStop
    PROVE  ShutdownOrder'
<1> USE DEF lifecycle
<1>1. ASSUME NEW d \in Devices, NEW i \in Slot, PeerCloses(d, i) \/ LinkDrops(d, i)
      PROVE  ShutdownOrder'
    <2>1. \A e \in Devices, j \in Slot : conn'[e][j].monitor = conn[e][j].monitor
        BY <1>1, PeerEffect
    <2>2. \A e \in Devices : Watched(e)' => Watched(e)
        BY <2>1 DEF Watched
    <2>3. QED
        BY <1>1, <2>2, OrderKept DEF PeerCloses, LinkDrops, Listed
<1>2. ASSUME NEW d \in Devices, AcceptorAccepts(d) PROVE ShutdownOrder'
    BY <1>2, OrderKept DEF AcceptorAccepts, Listed, Watched
<1>3. ASSUME NEW d \in Devices, HandleNewConnection(d) PROVE ShutdownOrder'
    <2>1. stopper = "none" /\ d \in pending /\ "acceptor" \in loops
        BY <1>3 DEF HandleNewConnection, AcceptorRefuses, AcceptorAdmits,
                    AcceptorRejected, LockFree, ShutdownOrder
    <2>2. ~cancelled /\ ~chansClosed
        BY <2>1 DEF ShutdownOrder
    <2>3. /\ UNCHANGED <<status, stopper, cancelled, chansClosed, loops, ticked>>
          /\ pending' = {}
        BY <1>3 DEF HandleNewConnection, AcceptorRefuses, AcceptorAdmits, AcceptorRejected
    <2>4. QED
        BY <2>1, <2>2, <2>3 DEF ShutdownOrder, Up
<1>4. ASSUME NEW d \in Devices, NEW i \in Slot, MonitorStep(d, i) PROVE ShutdownOrder'
    <2>1. conn[d][i].monitor # "none"
        BY <1>4 DEF MonitorStep, MonitorReceives, MonitorSeesClose, MonitorRemoves,
                    MonitorCancelled
    <2>2. Watched(d) /\ ~chansClosed
        BY <2>1 DEF ShutdownOrder, Watched
    <2>3. \A e \in Devices, j \in Slot :
             (e # d \/ j # i) => conn'[e][j].monitor = conn[e][j].monitor
        BY <1>4 DEF MonitorStep, MonitorReceives, MonitorSeesClose, MonitorRemoves,
                    MonitorCancelled, TypeOK
    <2>4. \A e \in Devices : Watched(e)' => Watched(e)
        BY <2>2, <2>3, WatchedKept
    <2>5. \A e \in Devices : Listed(e)' => Listed(e)
        BY <1>4 DEF MonitorStep, MonitorReceives, MonitorSeesClose, MonitorRemoves,
                    MonitorCancelled, TypeOK, Listed
    <2>6. UNCHANGED <<status, stopper, cancelled, chansClosed, loops, pending, ticked>>
        BY <1>4, <2>2 DEF MonitorStep, MonitorReceives, MonitorSeesClose,
                          MonitorRemoves, MonitorCancelled
    <2>7. QED
        BY <2>4, <2>5, <2>6, OrderKept
<1>5. CASE ProcessMessage \/ ManagerTicks
    BY <1>5, OrderKept DEF ProcessMessage, ManagerTicks, Listed, Watched
<1>6. \A D : conn' = EndedAll(D) =>
         \A e \in Devices, j \in Slot : conn'[e][j].monitor = conn[e][j].monitor
    BY EndedAllEffect
<1>7. CASE CleanupInactive
    <2>1. \A e \in Devices : Watched(e)' => Watched(e)
        BY <1>6, <1>7 DEF CleanupInactive, Watched
    <2>2. QED
        BY <1>7, <2>1, OrderKept DEF CleanupInactive, Listed
<1>8. ASSUME NEW g \in Loop, LoopExits(g) PROVE ShutdownOrder'
    BY <1>8 DEF LoopExits, ShutdownOrder, Up, Listed, Watched, Loop
<1>9. ASSUME NEW d \in Devices, DisconnectDevice(d) PROVE ShutdownOrder'
    <2>1. connections[d] \in Slot
        BY <1>9, EntryType DEF DisconnectDevice
    <2>2. \A e \in Devices, j \in Slot : conn'[e][j].monitor = conn[e][j].monitor
        BY <1>9, <2>1, ConnectionType DEF DisconnectDevice, TypeOK
    <2>3. \A e \in Devices : Watched(e)' => Watched(e)
        BY <2>2 DEF Watched
    <2>4. QED
        BY <1>9, <2>3, OrderKept DEF DisconnectDevice, Listed, TypeOK
<1>10. CASE Start \/ StartFails \/ Listen
    <2>1. stopper = "none" /\ ~cancelled
        BY <1>10 DEF Start, StartFails, Listen, LockFree, MayStart, ShutdownOrder
    <2>2. ~chansClosed
        BY <2>1 DEF ShutdownOrder
    <2>3. QED
        BY <1>10, <2>1, <2>2 DEF Start, StartFails, Listen, ShutdownOrder, Up
<1>11. CASE StopBegins
    <2>1. stopper = "none" /\ ~cancelled /\ ~chansClosed
        BY <1>11 DEF StopBegins, LockFree, MayStop, ShutdownOrder
    <2>2. \A d \in Devices : ~Listed(d)'
        BY <1>11 DEF StopBegins, Listed
    <2>3. QED
        BY <1>11, <2>1, <2>2 DEF StopBegins, ShutdownOrder, Up
<1>12. CASE StopCancels
    BY <1>12 DEF StopCancels, ShutdownOrder, Up, Listed, Watched
<1>13. CASE StopFinishes
    BY <1>13 DEF StopFinishes, ShutdownOrder, Up, Listed, Watched
<1>14. CASE UNCHANGED vars
    BY <1>14 DEF vars, ShutdownOrder, Up, Listed, Watched
<1>15. QED
    BY <1>1, <1>2, <1>3, <1>4, <1>5, <1>7, <1>8, <1>9, <1>10, <1>11, <1>12,
       <1>13, <1>14 DEF Next, Stop

-----------------------------------------------------------------------------
(* The connection map                                                      *)

\* A connection of a device that did not overtake itself is in the map, or its
\* end has been reported; monitors and channels agree with the connection.
MapCoherent ==
    /\ ListedIsWatched
    /\ LiveIsListed
    /\ \A d \in Devices, i \in Slot :
          /\ conn[d][i].active => conn[d][i].open
          /\ conn[d][i].monitor = "closing" => ~conn[d][i].open
    /\ \A d \in Devices \ overtaken, i \in Slot :
          /\ connections[d] # i => conn[d][i].heard
          /\ conn[d][i].monitor # "none" =>
                \A j \in Slot : conn[d][j].monitor # "none" => j = i

\* Steps that leave the map alone and end no monitor.
LEMMA MapKept ==
    ASSUME TypeOK, MapCoherent, UNCHANGED <<connections, overtaken>>,
           \A d \in Devices, i \in Slot :
              /\ conn'[d][i].monitor = "none" <=> conn[d][i].monitor = "none"
              /\ conn'[d][i].heard = conn[d][i].heard
              /\ conn'[d][i].active => conn[d][i].active /\ conn'[d][i].open
              /\ conn'[d][i].monitor = "closing" => ~conn'[d][i].open
    PROVE  MapCoherent'
<1>1. ListedIsWatched'
    BY EntryType DEF MapCoherent, ListedIsWatched, Listed
<1>2. LiveIsListed'
    BY DEF MapCoherent, LiveIsListed
<1>3. QED
    BY <1>1, <1>2 DEF MapCoherent

\* Steps that end the listed connections of the devices in D and unlist them.
LEMMA MapEnded ==
    ASSUME TypeOK, MapCoherent, NEW D,
           conn' = EndedAll(D), UNCHANGED overtaken,
           connections' = [d \in Devices |-> IF d \in D THEN 0 ELSE connections[d]]
    PROVE  MapCoherent'
<1>1. \A d \in Devices, i \in Slot :
         /\ conn'[d][i].monitor = conn[d][i].monitor
         /\ conn[d][i].heard => conn'[d][i].heard
         /\ conn'[d][i].active => conn[d][i].active
         /\ d \in D /\ connections[d] = i => ~conn'[d][i].active /\ conn'[d][i].heard
         /\ conn'[d][i].active => conn'[d][i].open
         /\ conn'[d][i].monitor = "closing" => ~conn'[d][i].open
    <2>1. ASSUME NEW d \in Devices, NEW i \in Slot
          PROVE  /\ conn'[d][i].monitor = conn[d][i].monitor
                 /\ conn[d][i].heard => conn'[d][i].heard
                 /\ conn'[d][i].active => conn'[d][i] = conn[d][i]
                 /\ conn'[d][i].open => conn[d][i].open
                 /\ d \in D /\ connections[d] = i => ~conn'[d][i].active /\ conn'[d][i].heard
        BY EndedAllEffect
    <2>2. QED
        BY <2>1 DEF MapCoherent
<1>2. ListedIsWatched'
    BY <1>1, EntryType DEF MapCoherent, ListedIsWatched, Listed
<1>3. LiveIsListed'
    BY <1>1 DEF MapCoherent, LiveIsListed
<1>4. \A d \in Devices \ overtaken', i \in Slot : connections'[d] # i => conn'[d][i].heard
    BY <1>1 DEF MapCoherent
<1>5. QED
    BY <1>1, <1>2, <1>3, <1>4 DEF MapCoherent

\* Every step keeps the map and the connections in agreement.
LEMMA MapStep ==
    ASSUME TypeOK, ShutdownOrder, MapCoherent, [Next]_vars
    PROVE  MapCoherent'
<1> USE DEF lifecycle
<1>1. ASSUME NEW d \in Devices, NEW i \in Slot, PeerCloses(d, i) \/ LinkDrops(d, i)
      PROVE  MapCoherent'
    <2>1. \A e \in Devices, j \in Slot :
             /\ conn'[e][j].monitor = conn[e][j].monitor
             /\ conn'[e][j].heard = conn[e][j].heard
             /\ conn'[e][j].active => conn'[e][j] = conn[e][j]
             /\ conn'[e][j].open => conn[e][j].open
        BY <1>1, PeerEffect
    <2>2. UNCHANGED <<connections, overtaken>>
        BY <1>1 DEF PeerCloses, LinkDrops
    <2>3. QED
        BY <2>1, <2>2, MapKept DEF MapCoherent
<1>2. ASSUME NEW d \in Devices, AcceptorAccepts(d) \/ AcceptorRefuses(d) PROVE MapCoherent'
    BY <1>2, MapKept DEF AcceptorAccepts, AcceptorRefuses, MapCoherent
<1>3. ASSUME NEW d \in Devices, AcceptorAdmits(d) PROVE MapCoherent'
    <2>1. PICK i \in Slot : /\ FirstFree(d, i)
                            /\ connections' = [connections EXCEPT ![d] = i]
                            /\ conn' = [conn EXCEPT ![d][i] = Fresh]
        BY <1>3 DEF AcceptorAdmits
    <2>2. /\ connections'[d] = i /\ conn'[d][i] = Fresh
          /\ \A e \in Devices : e # d => connections'[e] = connections[e]
          /\ \A e \in Devices, j \in Slot : (e # d \/ j # i) => conn'[e][j] = conn[e][j]
        BY <2>1 DEF TypeOK
    <2>3. /\ Fresh.active /\ Fresh.open /\ Fresh.monitor = "watching"
        BY DEF Fresh
    <2>4. d \notin overtaken' =>
             /\ d \notin overtaken
             /\ \A j \in Slot : conn[d][j].monitor = "none" /\ ~conn[d][j].active /\ conn[d][j].heard
        <3>1. HAVE d \notin overtaken'
        <3>2. d \notin overtaken /\ ~Watched(d)
            BY <1>3, <3>1 DEF AcceptorAdmits
        <3>3. \A j \in Slot : conn[d][j].monitor = "none"
            BY <3>2 DEF Watched
        <3>4. ~Listed(d)
            BY <3>3, EntryType DEF MapCoherent, ListedIsWatched
        <3>5. \A j \in Slot : connections[d] # j
            BY <3>4, EntryType DEF Listed
        <3>6. QED
            BY <3>2, <3>3, <3>5 DEF MapCoherent, LiveIsListed
    <2>5. overtaken \subseteq overtaken'
        BY <1>3 DEF AcceptorAdmits
    <2>6. ListedIsWatched'
        BY <2>2, <2>3, EntryType DEF MapCoherent, ListedIsWatched, Listed
    <2>7. LiveIsListed'
        BY <2>2, <2>4, <2>5 DEF MapCoherent, LiveIsListed
    <2>8. \A e \in Devices, j \in Slot :
             /\ conn'[e][j].active => conn'[e][j].open
             /\ conn'[e][j].monitor = "closing" => ~conn'[e][j].open
        BY <2>2, <2>3 DEF MapCoherent
    <2>9. \A e \in Devices \ overtaken', j \in Slot :
             /\ connections'[e] # j => conn'[e][j].heard
             /\ conn'[e][j].monitor # "none" =>
                   \A k \in Slot : conn'[e][k].monitor # "none" => k = j
        BY <2>2, <2>4, <2>5 DEF MapCoherent
    <2>10. QED
        BY <2>6, <2>7, <2>8, <2>9 DEF MapCoherent
<1>4. ASSUME NEW d \in Devices, AcceptorRejected(d) PROVE MapCoherent'
    <2>1. /\ conn' = conn /\ overtaken \subseteq overtaken'
          /\ connections' = [connections EXCEPT ![d] = 0]
          /\ d \notin overtaken' => ~Watched(d)
        BY <1>4 DEF AcceptorRejected
    <2>2. \A e \in Devices : connections'[e] = IF e = d THEN 0 ELSE connections[e]
        BY <2>1 DEF TypeOK
    <2>3. d \notin overtaken' => ~Listed(d)
        BY <2>1, EntryType DEF MapCoherent, ListedIsWatched, Watched
    <2>4. \A e \in Devices \ overtaken' : connections'[e] = connections[e] /\ e \notin overtaken
        BY <2>1, <2>2, <2>3 DEF Listed
    <2>5. ListedIsWatched'
        BY <2>1, <2>2 DEF MapCoherent, ListedIsWatched, Listed
    <2>6. LiveIsListed'
        BY <2>1, <2>4 DEF MapCoherent, LiveIsListed
    <2>7. QED
        BY <2>1, <2>4, <2>5, <2>6 DEF MapCoherent
<1>5. ASSUME NEW d \in Devices, NEW i \in Slot, MonitorReceives(d, i) PROVE MapCoherent'
    BY <1>5, MapKept DEF MonitorReceives, MapCoherent
<1>6. ASSUME NEW d \in Devices, NEW i \in Slot, MonitorSeesClose(d, i) PROVE MapCoherent'
    <2>1. \A e \in Devices, j \in Slot :
             /\ conn'[e][j].monitor = "none" <=> conn[e][j].monitor = "none"
             /\ conn'[e][j].heard = conn[e][j].heard
             /\ conn'[e][j].active = conn[e][j].active
             /\ conn'[e][j].open = conn[e][j].open
             /\ conn'[e][j].monitor = "closing" =>
                   conn[e][j].monitor = "closing" \/ ~conn[e][j].open
        BY <1>6 DEF MonitorSeesClose, TypeOK, Connection
    <2>2. QED
        BY <1>6, <2>1, MapKept DEF MonitorSeesClose, MapCoherent
<1>7. ASSUME NEW d \in Devices, NEW i \in Slot, MonitorRemoves(d, i) PROVE MapCoherent'
    <2>1. \A e \in Devices : connections'[e] = IF e = d THEN 0 ELSE connections[e]
        BY <1>7 DEF MonitorRemoves, TypeOK
    <2>2. conn' = [conn EXCEPT ![d] = [conn[d] EXCEPT
                      ![i] = [conn[d][i] EXCEPT !.monitor = "none", !.heard = TRUE]]]
        BY <1>7 DEF MonitorRemoves, TypeOK
    <2>3. /\ \A e \in Devices, j \in Slot : (e # d \/ j # i) => conn'[e][j] = conn[e][j]
          /\ conn'[d][i] = [conn[d][i] EXCEPT !.monitor = "none", !.heard = TRUE]
        BY <2>2 DEF TypeOK
    <2>4. /\ conn'[d][i].monitor = "none" /\ conn'[d][i].heard
          /\ conn'[d][i].active <=> conn[d][i].active
          /\ conn'[d][i].open <=> conn[d][i].open
        <3>1. conn[d][i] \in Connection
            BY DEF TypeOK
        <3>2. QED
            BY <2>3, <3>1 DEF Connection
    <2>5. overtaken' = overtaken /\ conn[d][i].monitor = "closing"
        BY <1>7 DEF MonitorRemoves
    <2>6. d \notin overtaken => \A j \in Slot : connections[d] = j => j = i
        BY <2>5, EntryType DEF MapCoherent, ListedIsWatched, Listed
    <2>7. d \notin overtaken => \A j \in Slot : ~conn[d][j].active
        BY <2>5, <2>6 DEF MapCoherent, LiveIsListed
    <2>8. ListedIsWatched'
        BY <2>1, <2>3, EntryType DEF MapCoherent, ListedIsWatched, Listed
    <2>13. \A e \in Devices, j \in Slot :
             /\ conn'[e][j].active <=> conn[e][j].active
             /\ conn'[e][j].open <=> conn[e][j].open
             /\ conn[e][j].heard => conn'[e][j].heard
             /\ conn'[e][j].monitor # "none" => conn'[e][j].monitor = conn[e][j].monitor
        <3>1. TAKE e \in Devices, j \in Slot
        <3>2. CASE e = d /\ j = i
            BY <2>4, <3>2
        <3>3. CASE e # d \/ j # i
            <4>1. conn'[e][j] = conn[e][j]
                BY <2>3, <3>3
            <4>2. QED
                BY <4>1
        <3>4. QED
            BY <3>2, <3>3
    <2>9. LiveIsListed'
        <3>1. SUFFICES ASSUME NEW e \in Devices \ overtaken', NEW j \in Slot, conn'[e][j].active
                       PROVE  connections'[e] = j
            BY DEF LiveIsListed
        <3>2. conn[e][j].active /\ e \notin overtaken
            BY <2>13, <2>5, <3>1
        <3>3. e # d
            BY <2>7, <3>2
        <3>4. QED
            BY <2>1, <3>2, <3>3 DEF MapCoherent, LiveIsListed
    <2>10. \A e \in Devices, j \in Slot :
             /\ conn'[e][j].active => conn'[e][j].open
             /\ conn'[e][j].monitor = "closing" => ~conn'[e][j].open
        <3>1. ASSUME NEW e \in Devices, NEW j \in Slot
              PROVE  /\ conn[e][j].active => conn[e][j].open
                     /\ conn[e][j].monitor = "closing" => ~conn[e][j].open
            BY DEF MapCoherent
        <3>2. QED
            BY <2>13, <3>1
    <2>11. \A e \in Devices \ overtaken', j \in Slot :
             /\ connections'[e] # j => conn'[e][j].heard
             /\ conn'[e][j].monitor # "none" =>
                   \A k \in Slot : conn'[e][k].monitor # "none" => k = j
        <3>1. TAKE e \in Devices \ overtaken', j \in Slot
        <3>2. e \in Devices \ overtaken
            BY <2>5
        <3>3. /\ connections[e] # j => conn[e][j].heard
              /\ conn[e][j].monitor # "none" =>
                    \A k \in Slot : conn[e][k].monitor # "none" => k = j
            BY <3>2 DEF MapCoherent
        <3>4. connections'[e] # j => conn'[e][j].heard
            <4>1. CASE e = d /\ j = i
                BY <2>4, <4>1
            <4>2. CASE e # d \/ j # i
                <5>1. connections[e] # j \/ connections'[e] = j
                    BY <2>1, <2>6, <3>2, <4>2
                <5>2. QED
                    BY <2>13, <3>3, <5>1
            <4>3. QED
                BY <4>1, <4>2
        <3>5. conn'[e][j].monitor # "none" =>
                 \A k \in Slot : conn'[e][k].monitor # "none" => k = j
            BY <2>13, <3>3
        <3>6. QED
            BY <3>4, <3>5
    <2>12. QED
        BY <2>8, <2>9, <2>10, <2>11 DEF MapCoherent
<1>8. ASSUME NEW d \in Devices, NEW i \in Slot, MonitorCancelled(d, i) PROVE MapCoherent'
    <2>1. /\ \A e \in Devices, j \in Slot : (e # d \/ j # i) => conn'[e][j] = conn[e][j]
          /\ conn'[d][i].monitor = "none"
          /\ conn'[d][i].heard = conn[d][i].heard
          /\ conn'[d][i].active = conn[d][i].active
          /\ conn'[d][i].open = conn[d][i].open
        BY <1>8 DEF MonitorCancelled, TypeOK, Connection
    <2>2. \A e \in Devices : ~Listed(e) /\ ~Listed(e)'
        BY <1>8 DEF MonitorCancelled, ShutdownOrder, Listed
    <2>3. UNCHANGED <<connections, overtaken>>
        BY <1>8 DEF MonitorCancelled
    <2>4. LiveIsListed'
        BY <2>1, <2>3 DEF MapCoherent, LiveIsListed
    <2>5. QED
        BY <2>1, <2>2, <2>3, <2>4 DEF MapCoherent, ListedIsWatched
<1>9. CASE ProcessMessage \/ ManagerTicks \/ Start \/ StartFails \/ Listen
          \/ StopCancels \/ StopFinishes \/ \E g \in Loop : LoopExits(g)
    <2>1. UNCHANGED <<connections, conn, overtaken>>
        BY <1>9 DEF ProcessMessage, ManagerTicks, Start, StartFails, Listen,
                    StopCancels, StopFinishes, LoopExits
    <2>2. QED
        BY <2>1, MapKept DEF MapCoherent
<1>10. CASE CleanupInactive
    BY <1>10, MapEnded DEF CleanupInactive
<1>11. ASSUME NEW d \in Devices, DisconnectDevice(d) PROVE MapCoherent'
    <2>1. connections[d] \in Slot
        BY <1>11, EntryType DEF DisconnectDevice
    <2>2. conn' = EndedAll({d})
        BY <1>11, <2>1 DEF DisconnectDevice, EndedAll, TypeOK
    <2>3. connections' = [e \in Devices |-> IF e \in {d} THEN 0 ELSE connections[e]]
        BY <1>11 DEF DisconnectDevice, TypeOK
    <2>4. QED
        BY <1>11, <2>2, <2>3, MapEnded DEF DisconnectDevice
<1>12. CASE StopBegins
    <2>1. connections' = [d \in Devices |-> IF d \in Devices THEN 0 ELSE connections[d]]
        BY <1>12 DEF StopBegins
    <2>2. QED
        BY <1>12, <2>1, MapEnded DEF StopBegins
<1>13. CASE UNCHANGED vars
    BY <1>13, MapKept DEF vars, MapCoherent
<1>14. QED
    BY <1>1, <1>2, <1>3, <1>4, <1>5, <1>6, <1>7, <1>8, <1>9, <1>10, <1>11, <1>12,
       <1>13 DEF Next, Stop, MonitorStep, HandleNewConnection

-----------------------------------------------------------------------------
(* The limit                                                               *)

\* Every step but the admission of a connection only takes entries out.
LEMMA MapShrinks ==
    ASSUME TypeOK, [Next]_vars, \A d \in Devices : ~AcceptorAdmits(d)
    PROVE  \A d \in Devices : connections'[d] \in {connections[d], 0}
<1> USE DEF TypeOK
<1>1. ASSUME NEW d \in Devices, AcceptorRejected(d) \/ DisconnectDevice(d)
      PROVE  \A e \in Devices : connections'[e] \in {connections[e], 0}
    BY <1>1 DEF AcceptorRejected, DisconnectDevice
<1>2. ASSUME NEW d \in Devices, NEW i \in Slot, MonitorRemoves(d, i)
      PROVE  \A e \in Devices : connections'[e] \in {connections[e], 0}
    BY <1>2 DEF MonitorRemoves
<1>3. CASE CleanupInactive
    BY <1>3 DEF CleanupInactive
<1>4. CASE StopBegins
    BY <1>4 DEF StopBegins
<1>5. CASE UNCHANGED connections
    BY <1>5
<1>6. QED
    BY <1>1, <1>2, <1>3, <1>4, <1>5
    DEF Next, Stop, MonitorStep, HandleNewConnection, PeerCloses, LinkDrops,
        AcceptorAccepts, AcceptorRefuses, MonitorReceives, MonitorSeesClose,
        MonitorCancelled, ProcessMessage, ManagerTicks, LoopExits, Start,
        StartFails, Listen, StopCancels, StopFinishes, vars

\* Every step keeps the number of connected devices within the limit.
LEMMA CapacityStep ==
    ASSUME TypeOK, Capacity, [Next]_vars
    PROVE  Capacity'
<1>1. IsFiniteSet(ConnectedDevices) /\ Cardinality(ConnectedDevices) \in Nat
    <2>1. ConnectedDevices \subseteq Devices
        BY DEF ConnectedDevices
    <2>2. QED
        BY <2>1, ServerAssumption, FS_Subset, FS_CardinalityType
<1>2. ASSUME NEW d \in Devices, AcceptorAdmits(d) PROVE Capacity'
    <2>1. ConnectedDevices' \subseteq ConnectedDevices \cup {d}
        BY <1>2 DEF AcceptorAdmits, ConnectedDevices, Listed, TypeOK
    <2>2. /\ IsFiniteSet(ConnectedDevices \cup {d})
          /\ Cardinality(ConnectedDevices \cup {d}) <= Cardinality(ConnectedDevices) + 1
        <3>1. /\ IsFiniteSet(ConnectedDevices \cup {d})
              /\ Cardinality(ConnectedDevices \cup {d}) =
                    IF d \in ConnectedDevices THEN Cardinality(ConnectedDevices)
                                              ELSE Cardinality(ConnectedDevices) + 1
            BY <1>1, FS_AddElement, Zenon
        <3>2. QED
            BY <1>1, <3>1
    <2>3. /\ Cardinality(ConnectedDevices') <= Cardinality(ConnectedDevices \cup {d})
          /\ Cardinality(ConnectedDevices') \in Nat
          /\ Cardinality(ConnectedDevices \cup {d}) \in Nat
        BY <2>1, <2>2, FS_Subset, FS_CardinalityType
    <2>4. Cardinality(ConnectedDevices) < MaxConnections
        BY <1>1, <1>2, ServerAssumption DEF AcceptorAdmits, Full
    <2>5. QED
        BY <1>1, <2>2, <2>3, <2>4, ServerAssumption DEF Capacity
<1>3. CASE \A d \in Devices : ~AcceptorAdmits(d)
    <2>1. ConnectedDevices' \subseteq ConnectedDevices
        BY <1>3, MapShrinks DEF ConnectedDevices, Listed
    <2>2. /\ Cardinality(ConnectedDevices') <= Cardinality(ConnectedDevices)
          /\ Cardinality(ConnectedDevices') \in Nat
        BY <1>1, <2>1, FS_Subset, FS_CardinalityType
    <2>3. QED
        BY <1>1, <2>2, ServerAssumption DEF Capacity
<1>4. QED
    BY <1>2, <1>3

-----------------------------------------------------------------------------
(* The theorems                                                            *)

\* The connection map stays within MaxConnections, whoever connects, disconnects
\* or stops the server, and however often it is started and stopped (Capacity).
THEOREM WithinLimit == Spec => []Capacity
<1>1. Init => Capacity
    <2>1. Init => ConnectedDevices = {}
        BY DEF Init, ConnectedDevices, Listed
    <2>2. QED
        BY <2>1, FS_EmptySet, ServerAssumption DEF Capacity
<1>2. QED
    BY <1>1, CapacityStep, TypeCorrect, PTL DEF Spec

\* What the server relies on, as long as it is started and stopped once.
ServerInv == ShutdownOrder /\ MapCoherent

\* The inductive invariant of a server that is not used again after Stop.
THEOREM ServerInvariant ==
    ASSUME ~ReuseAfterStop
    PROVE  Spec => []ServerInv
<1>1. Init => ServerInv
    BY DEF Init, ServerInv, ShutdownOrder, MapCoherent, ListedIsWatched,
           LiveIsListed, Listed, Up, Unused
<1>2. TypeOK /\ ServerInv /\ [Next]_vars => ServerInv'
    BY ShutdownStep, MapStep DEF ServerInv
<1>3. QED
    BY <1>1, <1>2, TypeCorrect, PTL DEF Spec

\* Every entry of the map has a monitor (ListedIsWatched).
THEOREM EntriesAreWatched ==
    ASSUME ~ReuseAfterStop
    PROVE  Spec => []ListedIsWatched
<1>1. ServerInv => ListedIsWatched
    BY DEF ServerInv, MapCoherent
<1>2. QED
    BY <1>1, ServerInvariant, PTL

\* No goroutine of the server sends on a closed channel (NeverPanics).
THEOREM NoPanic ==
    ASSUME ~ReuseAfterStop
    PROVE  Spec => []NeverPanics
<1>1. ServerInv => NeverPanics
    BY DEF ServerInv, ShutdownOrder, Up, NeverPanics
<1>2. QED
    BY <1>1, ServerInvariant, PTL

\* A live connection is in the map unless its device overtook the monitor of an
\* earlier connection (LiveIsListed).
THEOREM LiveConnectionsAreListed ==
    ASSUME ~ReuseAfterStop
    PROVE  Spec => []LiveIsListed
<1>1. ServerInv => LiveIsListed
    BY DEF ServerInv, MapCoherent
<1>2. QED
    BY <1>1, ServerInvariant, PTL

\* No monitor ends before the handler has heard of its connection's end
\* (EndIsReported), with the same exception: the entry of the map is watched, so
\* a connection without a monitor is no longer in the map, and has been reported.
THEOREM EndsAreReported ==
    ASSUME ~ReuseAfterStop
    PROVE  Spec => []EndIsReported
<1>1. TypeOK /\ ServerInv => EndIsReported
    <2> SUFFICES ASSUME TypeOK, ServerInv, NEW d \in Devices \ overtaken, NEW i \in Slot,
                        conn[d][i].monitor = "none"
                 PROVE  conn[d][i].heard
        BY DEF EndIsReported
    <2>1. connections[d] # i
        BY EntryType DEF ServerInv, MapCoherent, ListedIsWatched, Listed
    <2>2. QED
        BY <2>1 DEF ServerInv, MapCoherent
<1>2. QED
    BY <1>1, ServerInvariant, TypeCorrect, PTL

\* No step replaces a live connection of the map by another one
\* (NoSwapOfLiveConnection).
THEOREM LiveConnectionStays == Spec => NoSwapOfLiveConnection
<1>1. ASSUME TypeOK, [Next]_vars, NEW d \in Devices, ActiveListed(d)
      PROVE  connections'[d] \in {connections[d], 0}
    <2>1. ASSUME NEW e \in Devices, AcceptorAdmits(e)
          PROVE  connections'[d] \in {connections[d], 0}
        BY <1>1, <2>1 DEF AcceptorAdmits, TypeOK
    <2>2. QED
        BY <1>1, <2>1, MapShrinks
<1>2. TypeOK /\ [Next]_vars =>
        [\A d \in Devices : ActiveListed(d) => connections'[d] \in {connections[d], 0}]_vars
    BY <1>1
<1>3. QED
    BY <1>2, TypeCorrect, PTL DEF Spec, NoSwapOfLiveConnection
=============================================================================
