--------------------------- MODULE DefaultAdapter ---------------------------
(***************************************************************************)
(* The default adapter (internal/adapter/adapter.go) and its connections   *)
(* (internal/adapter/connection.go): scanning, listening, discoverability, *)
(* connecting, and the goroutines behind them, which Shutdown waits for.   *)
(*                                                                         *)
(* da.mu is `lock'.  An operation that waits for something else while it   *)
(* holds da.mu keeps it from step to step: for dc.mu of a connection that  *)
(* is being closed, for the goroutines of a connection, for those of the   *)
(* adapter.  Every other critical section is one step.                     *)
(***************************************************************************)
EXTENDS Integers, FiniteSets, Sequences

CONSTANTS
    Devices,        \* device identifiers
    Incoming,       \* the sequence of those a listener invents, three in the code
    Conns,          \* bound: connection objects in use at a time
    Scans,          \* bound: scan goroutines that live at a time
    Listeners,      \* bound: the same for listeners
    Timers,         \* bound: the same for timers of SetDiscoverable
    ChanSize,       \* capacity of connChan, 10 in the code
    None

ASSUME AdapterAssumption ==
    /\ \A i \in DOMAIN Incoming : Incoming[i] \in Devices
    /\ ChanSize \in Nat \ {0}
    /\ None \notin Devices \cup Conns

VARIABLES
    enabled, discoverable,
    cancelled,      \* the adapter's context, which is made once
    scanning, listening,
    scanOpen,       \* the current scanChan is open
    connOpen,       \* the current connChan is open, ...
    waiting,        \* ... and has that many connections in it
    connections,    \* device to connection
    conn,           \* the connections
    lock,           \* the operation that holds da.mu
    scan, listener, timer, \* the adapter's goroutines
    crashed         \* how the process has died, "no" if it has not

flags == <<enabled, discoverable, cancelled>>
chans == <<scanning, listening, scanOpen, connOpen, waiting>>
table == <<connections, conn>>
tasks == <<scan, listener, timer>>
vars  == <<flags, chans, table, lock, tasks, crashed>>

NoConn == [state |-> "free", receiver |-> "none"]
Free   == [by |-> "nobody", todo |-> {}, now |-> None]
Idle   == [at |-> "none", accepted |-> 0, conn |-> None]

TypeOK ==
    /\ \A b \in {enabled, discoverable, cancelled, scanning, listening, scanOpen, connOpen} :
          b \in BOOLEAN
    /\ waiting \in 0 .. ChanSize
    /\ connections \in [Devices -> Conns \cup {None}]
    /\ conn \in [Conns -> [state : {"free", "open", "closing", "closed"},
                           receiver : {"none", "running", "updating", "ended"}]]
    /\ lock.by \in {"nobody", "connect", "disconnect", "disable", "shutdown", "waiting"}
    /\ lock.todo \subseteq Devices /\ lock.now \in Devices \cup {None}
    /\ scan \in [Scans -> {"none", "scanning", "found", "sending", "over"}]
    /\ \A l \in Listeners :
          /\ listener[l].at \in {"none", "listening", "inserting", "offering"}
          /\ listener[l].accepted \in 0 .. Cardinality(DOMAIN Incoming)
          /\ listener[l].conn \in Conns \cup {None}
    /\ timer \in [Timers -> {"none", "armed", "expired"}]
    /\ crashed \in {"no", "closed twice", "sent on closed", "fatal"}

\* scanChan and connChan are made, and open, before anyone scans or listens.
Init ==
    /\ enabled = FALSE /\ discoverable = FALSE /\ cancelled = FALSE
    /\ scanning = FALSE /\ listening = FALSE
    /\ scanOpen = TRUE /\ connOpen = TRUE /\ waiting = 0
    /\ connections = [d \in Devices |-> None]
    /\ conn = [c \in Conns |-> NoConn]
    /\ lock = Free
    /\ scan = [s \in Scans |-> "none"]
    /\ listener = [l \in Listeners |-> Idle]
    /\ timer = [t \in Timers |-> "none"]
    /\ crashed = "no"

-----------------------------------------------------------------------------
\* A panic in any goroutine ends the process.
Up       == crashed = "no"
Unlocked == Up /\ lock.by = "nobody"
Listed   == {d \in Devices : connections[d] # None}
Held     == {connections[d] : d \in Listed} \cup {listener[l].conn : l \in Listeners}

\* A connection object nobody refers to; the application keeps the open ones.
Unused(c) ==
    /\ c \notin Held
    /\ \/ conn[c].state = "free"
       \/ conn[c].state = "closed" /\ conn[c].receiver = "ended"

\* NewDefaultConnection: active, its goroutines running.
Opened(c) == [conn EXCEPT ![c] = [state |-> "open", receiver |-> "running"]]

-----------------------------------------------------------------------------
(* DefaultConnection.                                                       *)

\* Close holds dc.mu until the goroutines have ended; the sender always does.
CloseBegins(c) ==
    /\ conn[c].state = "open"
    /\ conn' = [conn EXCEPT ![c].state = "closing"]

CloseEnds(c) ==
    /\ conn[c].state = "closing" /\ conn[c].receiver = "ended"
    /\ conn' = [conn EXCEPT ![c].state = "closed"]

\* A message is put into the receive channel, or found that it is full; either
\* way the receiver goes on to the metrics, which dc.mu guards.
ReceiverTicks(c) ==
    /\ conn[c].receiver = "running" /\ conn[c].state = "open"
    /\ conn' = [conn EXCEPT ![c].receiver = "updating"]

ReceiverUpdates(c) ==
    /\ conn[c].receiver = "updating" /\ conn[c].state = "open"
    /\ conn' = [conn EXCEPT ![c].receiver = "running"]

ReceiverEnds(c) ==
    /\ conn[c].receiver = "running" /\ conn[c].state \in {"closing", "closed"}
    /\ conn' = [conn EXCEPT ![c].receiver = "ended"]

\* The tick comes first, and the channel is closed: a select that may send on it
\* panics, whether its context is done or not.
ReceiverPanics(c) ==
    /\ Up
    /\ conn[c].receiver = "running" /\ conn[c].state = "closing"
    /\ crashed' = "sent on closed"
    /\ UNCHANGED <<flags, chans, table, lock, tasks>>

ReceiverRuns(c) ==
    /\ Up
    /\ ReceiverTicks(c) \/ ReceiverUpdates(c)
    /\ UNCHANGED <<flags, chans, connections, lock, tasks, crashed>>

ReceiverEnded(c) ==
    /\ Up
    /\ ReceiverEnds(c)
    /\ UNCHANGED <<flags, chans, connections, lock, tasks, crashed>>

\* The application closes a connection it was given, or its Close returns.
ApplicationCloses(c) ==
    /\ Up
    /\ CloseBegins(c)
    /\ UNCHANGED <<flags, chans, connections, lock, tasks, crashed>>

CloseReturns(c) ==
    /\ Up
    /\ CloseEnds(c)
    /\ UNCHANGED <<flags, chans, connections, lock, tasks, crashed>>

-----------------------------------------------------------------------------
(* The adapter's operations.                                                *)

Enable ==
    /\ Unlocked
    /\ enabled' = TRUE
    /\ UNCHANGED <<discoverable, cancelled, chans, table, lock, tasks, crashed>>

Scan(s) ==
    /\ Unlocked /\ enabled /\ ~scanning
    /\ scan[s] = "none"
    /\ scanning' = TRUE /\ scanOpen' = TRUE
    /\ scan' = [scan EXCEPT ![s] = "scanning"]
    /\ UNCHANGED <<flags, listening, connOpen, waiting, table, lock, listener, timer, crashed>>

Listen(l) ==
    /\ Unlocked /\ enabled /\ ~listening
    /\ listener[l].at = "none"
    /\ listening' = TRUE /\ connOpen' = TRUE /\ waiting' = 0
    /\ listener' = [listener EXCEPT ![l].at = "listening"]
    /\ UNCHANGED <<flags, scanning, scanOpen, table, lock, scan, timer, crashed>>

\* stopScanInternal and stopListenInternal, for what is to be stopped.
Stops(scans, listens) ==
    /\ scanning' = (scanning /\ ~scans) /\ scanOpen' = (scanOpen /\ ~scans)
    /\ listening' = (listening /\ ~listens) /\ connOpen' = (connOpen /\ ~listens)
    /\ crashed' = IF (scans /\ ~scanOpen) \/ (listens /\ ~connOpen)
                  THEN "closed twice" ELSE crashed

StopScan ==
    /\ Unlocked /\ scanning
    /\ Stops(TRUE, FALSE)
    /\ UNCHANGED <<flags, waiting, table, lock, tasks>>

StopListen ==
    /\ Unlocked /\ listening
    /\ Stops(FALSE, TRUE)
    /\ UNCHANGED <<flags, waiting, table, lock, tasks>>

\* AcceptConnection reads the flag without the lock.
AcceptConnection ==
    /\ Up
    /\ listening /\ waiting > 0
    /\ waiting' = waiting - 1
    /\ UNCHANGED <<flags, scanning, listening, scanOpen, connOpen, table, lock, tasks, crashed>>

\* Without a timeout, or with one: then a goroutine will take it back, whatever
\* has been set since.
SetDiscoverable(b) ==
    /\ Unlocked /\ enabled
    /\ discoverable' = b
    /\ \/ UNCHANGED timer
       \/ b /\ \E t \in Timers : timer[t] = "none" /\ timer' = [timer EXCEPT ![t] = "armed"]
    /\ UNCHANGED <<enabled, cancelled, chans, table, lock, scan, listener, crashed>>

\* Connect asks for dc.mu of the device's connection, and waits while it is closed.
ConnectWaits(d) ==
    /\ Unlocked /\ enabled
    /\ d \in Listed /\ conn[connections[d]].state = "closing"
    /\ lock' = [by |-> "connect", todo |-> {}, now |-> d]
    /\ UNCHANGED <<flags, chans, table, tasks, crashed>>

\* Connect of a device without a live connection: one is made, or the context
\* ends and the dead one is forgotten all the same.
Connect(d) ==
    /\ \/ Unlocked /\ enabled
       \/ Up /\ lock.by = "connect" /\ lock.now = d
    /\ d \in Listed => conn[connections[d]].state = "closed"
    /\ \/ \E c \in Conns :
             /\ Unused(c)
             /\ conn' = Opened(c)
             /\ connections' = [connections EXCEPT ![d] = c]
       \/ connections' = [connections EXCEPT ![d] = None] /\ UNCHANGED conn
    /\ lock' = Free
    /\ UNCHANGED <<flags, chans, tasks, crashed>>

\* Disconnect, Disable and Shutdown take the lock and go through connections.
Disconnect(d) ==
    /\ Unlocked /\ d \in Listed
    /\ lock' = [by |-> "disconnect", todo |-> {d}, now |-> None]
    /\ UNCHANGED <<flags, chans, table, tasks, crashed>>

Disable ==
    /\ Unlocked /\ enabled
    /\ Stops(scanning, listening)
    /\ lock' = [by |-> "disable", todo |-> Listed, now |-> None]
    /\ UNCHANGED <<flags, waiting, table, tasks>>

Shutdown ==
    /\ Unlocked
    /\ Stops(scanning, listening)
    /\ lock' = [by |-> "shutdown", todo |-> Listed, now |-> None]
    /\ UNCHANGED <<flags, waiting, table, tasks>>

\* disconnectInternal: Close, which does nothing to a connection that is closed, ...
OperationCloses(d) ==
    /\ Up
    /\ lock.now = None /\ d \in lock.todo
    /\ lock' = [lock EXCEPT !.now = d]
    /\ \/ CloseBegins(connections[d])
       \/ conn[connections[d]].state # "open" /\ UNCHANGED conn
    /\ UNCHANGED <<flags, chans, connections, tasks, crashed>>

\* ... and the entry is deleted when it has returned.
OperationForgets(d) ==
    /\ Up
    /\ lock.by # "connect" /\ lock.now = d
    /\ conn[connections[d]].state = "closed"
    /\ connections' = [connections EXCEPT ![d] = None]
    /\ lock' = [lock EXCEPT !.now = None, !.todo = @ \ {d}]
    /\ UNCHANGED <<flags, chans, conn, tasks, crashed>>

OperationEnds ==
    /\ Up
    /\ lock.by \in {"disconnect", "disable"} /\ lock.todo = {}
    /\ enabled' = (enabled /\ lock.by # "disable")
    /\ lock' = Free
    /\ UNCHANGED <<discoverable, cancelled, chans, table, tasks, crashed>>

ShutdownCancels ==
    /\ Up
    /\ lock.by = "shutdown" /\ lock.todo = {}
    /\ cancelled' = TRUE
    /\ lock' = [lock EXCEPT !.by = "waiting"]
    /\ UNCHANGED <<enabled, discoverable, chans, table, tasks, crashed>>

ShutdownReturns ==
    /\ Up
    /\ lock.by = "waiting"
    /\ \A s \in Scans : scan[s] = "none"
    /\ \A l \in Listeners : listener[l].at = "none"
    /\ \A t \in Timers : timer[t] = "none"
    /\ enabled' = FALSE
    /\ lock' = Free
    /\ UNCHANGED <<discoverable, cancelled, chans, table, tasks, crashed>>

-----------------------------------------------------------------------------
(* scanDevices.  The Bluetooth stack's Scan is external: it calls back for   *)
(* every device, and returns or not.                                        *)

ScanGoes(s, from, to) ==
    /\ Up
    /\ scan[s] = from
    /\ scan' = [scan EXCEPT ![s] = to]
    /\ UNCHANGED <<flags, table, lock, listener, timer>>

\* The callback, which goes on unless a context is done, ...
DeviceFound(s) == ~cancelled /\ ScanGoes(s, "scanning", "found") /\ UNCHANGED <<chans, crashed>>

\* ... takes da.mu to update the cache, ...
CacheUpdated(s) == Unlocked /\ ScanGoes(s, "found", "sending") /\ UNCHANGED <<chans, crashed>>

\* ... and puts the device into what is da.scanChan by then.
DeviceSent(s) ==
    /\ ScanGoes(s, "sending", "scanning")
    /\ crashed' = IF scanOpen THEN crashed ELSE "sent on closed"
    /\ UNCHANGED chans

\* There is no adapter, or its Scan fails: log.Fatalln.
ScanFails(s) == ScanGoes(s, "scanning", "none") /\ crashed' = "fatal" /\ UNCHANGED chans

\* Scan has returned, the timeout has passed, and the adapter's scan is stopped.
ScanReturns(s) == ScanGoes(s, "scanning", "over") /\ UNCHANGED <<chans, crashed>>

\* Mutation: the deferred function does not look at the flag.
ScanEndsUnasked(s) ==
    /\ Unlocked
    /\ ScanGoes(s, "over", "none")
    /\ Stops(TRUE, FALSE)
    /\ UNCHANGED waiting

\* The deferred function ends whatever scan is under way.
ScanEnds(s) ==
    /\ Unlocked
    /\ ScanGoes(s, "over", "none")
    /\ Stops(scanning, FALSE)
    /\ UNCHANGED waiting

-----------------------------------------------------------------------------
(* What the callback puts together: what is known of a device, name and      *)
(* services, and what its advertisement says.  It decides nothing above.     *)

Generated == {"Unknown Device", "Acme Device", "Device_01"}

isGeneratedName(name) == name \in Generated

isBetterName(new, old) ==
    IF old \in {"", "Unknown Device"} THEN new \notin {"", "Unknown Device"}
    ELSE ~isGeneratedName(new) /\ isGeneratedName(old)

mergeServiceUUIDs(existing, new) == existing \cup new

\* An advertisement without services stands for the default one.
convertScanResult(r) == IF r.uuids = {} THEN [r EXCEPT !.uuids = {"default"}] ELSE r

updateDeviceCache(cached, device) ==
    [name  |-> IF isBetterName(device.name, cached.name) THEN device.name ELSE cached.name,
     uuids |-> mergeServiceUUIDs(cached.uuids, device.uuids)]

\* What is known after a sequence of advertisements of a device.
Known(ads) ==
    LET After[n \in 1 .. Len(ads)] ==
          LET device == convertScanResult(ads[n])
          IN  IF n = 1 THEN device ELSE updateDeviceCache(After[n - 1], device)
    IN  After[Len(ads)]

\* A name that is the device's own is kept, the first one if there are several; a
\* service once announced is never forgotten.
KeepsOwnName(ads) ==
    LET own == {n \in DOMAIN ads : ads[n].name \notin Generated \cup {""}}
    IN  own # {} =>
            \E n \in own : (\A m \in own : n <= m) /\ Known(ads).name = ads[n].name
KeepsServices(ads) == \A n \in DOMAIN ads : ads[n].uuids \subseteq Known(ads).uuids

-----------------------------------------------------------------------------
(* listenForConnections.                                                    *)

\* A tick, as long as fewer connections than there are in Incoming were accepted.
ListenerTicks(l, c) ==
    /\ Up
    /\ listener[l].at = "listening" /\ listener[l].accepted < Cardinality(DOMAIN Incoming)
    /\ Unused(c)
    /\ conn' = Opened(c)
    /\ listener' = [listener EXCEPT ![l].at = "inserting", ![l].conn = c]
    /\ UNCHANGED <<flags, chans, connections, lock, scan, timer, crashed>>

\* The entry of the device is overwritten, whatever it was.
ListenerInserts(l) ==
    /\ Unlocked /\ listener[l].at = "inserting"
    /\ connections' = [connections EXCEPT ![Incoming[listener[l].accepted + 1]] = listener[l].conn]
    /\ listener' = [listener EXCEPT ![l].at = "offering", ![l].conn = None]
    /\ UNCHANGED <<flags, chans, conn, lock, scan, timer, crashed>>

\* A full connChan does not count, a closed one panics.
ListenerOffers(l) ==
    /\ Up
    /\ listener[l].at = "offering"
    /\ LET fits == connOpen /\ waiting < ChanSize IN
       /\ waiting' = IF fits THEN waiting + 1 ELSE waiting
       /\ listener' = [listener EXCEPT ![l].at = "listening",
                                       ![l].accepted = IF fits THEN @ + 1 ELSE @]
    /\ crashed' = IF connOpen THEN crashed ELSE "sent on closed"
    /\ UNCHANGED <<flags, scanning, listening, scanOpen, connOpen, table, lock, scan, timer>>

\* Mutation: a listener ends when it has accepted all it is going to.
ListenerEndsWhenDone(l) ==
    /\ Up
    /\ listener[l].at = "listening" /\ listener[l].accepted = Cardinality(DOMAIN Incoming)
    /\ listener' = [listener EXCEPT ![l] = Idle]
    /\ UNCHANGED <<flags, chans, table, lock, scan, timer, crashed>>

\* Only the context ends a listener, StopListen does not.
ListenerEnds(l) ==
    /\ Up
    /\ cancelled /\ listener[l].at = "listening"
    /\ listener' = [listener EXCEPT ![l] = Idle]
    /\ UNCHANGED <<flags, chans, table, lock, scan, timer, crashed>>

-----------------------------------------------------------------------------
(* The timers of SetDiscoverable.                                           *)

TimerExpires(t) ==
    /\ Up
    /\ timer[t] = "armed"
    /\ timer' = [timer EXCEPT ![t] = "expired"]
    /\ UNCHANGED <<flags, chans, table, lock, scan, listener, crashed>>

TimerFires(t) ==
    /\ Unlocked /\ timer[t] = "expired"
    /\ discoverable' = FALSE
    /\ timer' = [timer EXCEPT ![t] = "none"]
    /\ UNCHANGED <<enabled, cancelled, chans, table, lock, scan, listener, crashed>>

TimerEnds(t) ==
    /\ Up
    /\ cancelled /\ timer[t] = "armed"
    /\ timer' = [timer EXCEPT ![t] = "none"]
    /\ UNCHANGED <<flags, chans, table, lock, scan, listener, crashed>>

-----------------------------------------------------------------------------
Operation ==
    \/ \E d \in Devices : OperationCloses(d) \/ OperationForgets(d)
    \/ OperationEnds \/ ShutdownCancels \/ ShutdownReturns

Calls ==
    \/ Enable \/ Disable \/ Shutdown
    \/ \E s \in Scans : Scan(s)
    \/ \E l \in Listeners : Listen(l)
    \/ StopScan \/ StopListen \/ AcceptConnection
    \/ \E b \in BOOLEAN : SetDiscoverable(b)
    \/ \E d \in Devices : Connect(d) \/ ConnectWaits(d) \/ Disconnect(d)

Goroutines ==
    \/ \E c \in Conns :
          \/ ReceiverRuns(c) \/ ReceiverEnded(c) \/ ReceiverPanics(c)
          \/ ApplicationCloses(c) \/ CloseReturns(c)
    \/ \E s \in Scans :
          \/ DeviceFound(s) \/ CacheUpdated(s) \/ DeviceSent(s)
          \/ ScanFails(s) \/ ScanReturns(s) \/ ScanEnds(s)
    \/ \E l \in Listeners :
          \/ \E c \in Conns : ListenerTicks(l, c)
          \/ ListenerInserts(l) \/ ListenerOffers(l) \/ ListenerEnds(l)
    \/ \E t \in Timers : TimerExpires(t) \/ TimerFires(t) \/ TimerEnds(t)

Next == Calls \/ Operation \/ Goroutines

Spec == Init /\ [][Next]_vars

\* An operation under way goes on when it can, and so do the goroutines whose
\* context is done; nothing makes the Bluetooth stack's Scan return.
Fairness ==
    /\ WF_vars(Operation)
    /\ \A c \in Conns : WF_vars(CloseReturns(c)) /\ WF_vars(ReceiverEnded(c))
    /\ \A l \in Listeners : WF_vars(ListenerOffers(l) \/ ListenerEnds(l))
    /\ \A t \in Timers : WF_vars(TimerEnds(t))

FairSpec == Spec /\ Fairness

-----------------------------------------------------------------------------
\* Neither scanChan nor connChan is closed twice, although StopScan, StopListen,
\* Disable, Shutdown and the deferred function of every scan goroutine close
\* them, and an old goroutine may end a newer scan (adapter.go:519, 531, 575).
NeverClosesTwice == crashed # "closed twice"

\* A goroutine Shutdown waits for wants a lock that Shutdown, or the Close it
\* waits for, holds.
Blocked ==
    \/ \E s \in Scans : scan[s] # "none"
    \/ \E l \in Listeners : listener[l].at = "inserting"
    \/ \E t \in Timers : timer[t] = "expired"
    \/ \E d \in Listed : LET c == conn[connections[d]] IN
          c.state = "closing" /\ c.receiver = "updating"

\* Shutdown waits for every goroutine of the adapter and of its connections with
\* da.mu held (adapter.go:247).  It returns, unless one of them wants that very
\* lock, or its connection's, at the moment: a scan always does.
ShutdownEnds ==
    (lock.by \in {"shutdown", "waiting"})
        ~> (lock.by \notin {"shutdown", "waiting"} \/ Blocked \/ ~Up)
=============================================================================
