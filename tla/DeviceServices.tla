--------------------------- MODULE DeviceServices ---------------------------
(***************************************************************************)
(* The services of the device manager: pairing (internal/device/           *)
(* pairing.go) and discovery (discovery.go), with the manager's Start and  *)
(* Stop (manager.go), which start and stop them.                           *)
(*                                                                         *)
(* A service keeps its sessions under a lock of its own; every session has *)
(* a goroutine, and a scan has a second one, DiscoverDevices.  A critical  *)
(* section is one step, but for those that ask for a second lock: Start    *)
(* and Stop hold m.mu when they call a service, StartPairing holds the     *)
(* service's lock when it asks the manager, DiscoverDevices reads the      *)
(* cache under m.mu and may ask for m.mu again.                            *)
(* The manager's cache is DeviceCache; here it only answers, for a device, *)
(* whether it knows the device and whether the device is paired.           *)
(***************************************************************************)
EXTENDS Integers, FiniteSets

CONSTANTS
    Devices,    \* device identifiers
    Sessions,   \* bound: sessions whose goroutine lives at a time
    Ids,        \* bound: session IDs; one stands for one second
    Methods,    \* pairing methods: "pin", "passkey", "confirmation", "oob"
    AutoAccept, \* PairingConfig.AutoAccept
    MaxActive,  \* MaxConcurrentPairs and MaxConcurrentScans
    None

ASSUME ServiceAssumption ==
    /\ Methods \subseteq {"pin", "passkey", "confirmation", "oob"}
    /\ AutoAccept \in BOOLEAN
    /\ \A kind \in {"pairing", "scan"} : MaxActive[kind] \in Nat
    /\ None \notin Devices \cup Sessions \cup Ids

VARIABLES
    known,        \* devices GetDevice finds: cached and not expired
    paired,       \* pairedDevices
    running,      \* Manager.running
    managerLock,  \* "free", or the call that holds m.mu between two steps
    service,      \* the services that run
    asking,       \* the device of a StartPairing that holds the service's lock
    session,      \* the sessions
    listed,       \* activePairings and activeScans: ID to session
    latest,       \* the ID of the current second
    discovery,    \* where the DiscoverDevices of a scan session is
    writerWaits   \* does a writer wait for the readers of m.mu?

cache   == <<known, paired>>
manager == <<running, managerLock>>
readers == <<discovery, writerWaits>>
vars    == <<cache, manager, service, asking, session, listed, latest, readers>>

Kinds     == {"pairing", "scan"}
NoSession == [kind |-> "scan", pc |-> "gone", id |-> None, over |-> FALSE,
              device |-> None, method |-> None, answer |-> None]

TypeOK ==
    /\ known \subseteq Devices /\ paired \subseteq Devices
    /\ running \in BOOLEAN /\ managerLock \in {"free", "start", "stop"}
    /\ service \subseteq Kinds
    /\ asking \in Devices \cup {None}
    /\ session \in [Sessions ->
          [kind : Kinds, pc : {"gone", "starts", "reads", "waits", "completes", "ends"},
           id : Ids \cup {None}, over : BOOLEAN, device : Devices \cup {None},
           method : Methods \cup {None}, answer : BOOLEAN \cup {None}]]
    /\ listed \in [Kinds -> [Ids -> Sessions \cup {None}]]
    /\ latest \in Ids
    /\ discovery \in [Sessions -> {"none", "counts", "asks", "delivers", "filters", "scans"}]
    /\ writerWaits \in BOOLEAN

Init ==
    /\ known = {} /\ paired = {}
    /\ running = FALSE /\ managerLock = "free"
    /\ service = {} /\ asking = None
    /\ session = [s \in Sessions |-> NoSession]
    /\ listed = [kind \in Kinds |-> [id \in Ids |-> None]]
    /\ latest \in Ids
    /\ discovery = [s \in Sessions |-> "none"] /\ writerWaits = FALSE

-----------------------------------------------------------------------------
\* m.mu: a writer needs it for itself, a reader only no writer, waiting ones included.
IsReading(s) == discovery[s] \in {"delivers", "filters"}
CanWrite     == managerLock = "free" /\ \A s \in Sessions : ~IsReading(s)
CanRead      == managerLock = "free" /\ ~writerWaits

ServiceIsFree(kind) == kind = "pairing" => asking = None

Goes(s, pc) == session' = [session EXCEPT ![s].pc = pc]

\* A session's ID is the time to the second: that of the current one, which
\* other sessions may have, or of a later one.
IsNow(id) ==
    \/ id = latest
    \/ /\ \A s \in Sessions : session[s].id # id
       /\ \A kind \in Kinds : listed[kind][id] = None

MayStart(kind) ==
    /\ kind \in service
    /\ Cardinality({id \in Ids : listed[kind][id] # None}) < MaxActive[kind]

\* No goroutine of s runs.
Unused(s) == session[s].pc = "gone" /\ discovery[s] = "none"

NewSession(kind, d, m) ==
    \E s \in Sessions, id \in Ids :
        /\ Unused(s) /\ IsNow(id)
        /\ session' = [session EXCEPT ![s] =
              [NoSession EXCEPT !.kind = kind, !.pc = "starts", !.id = id,
                                !.device = d, !.method = m]]
        /\ listed' = [listed EXCEPT ![kind][id] = s]
        /\ latest' = id

\* Bound: there is an object for one more session than the one asked for.
Room == Cardinality({s \in Sessions : Unused(s)}) > (IF asking = None THEN 0 ELSE 1)

\* The contexts of the sessions in S end, cancelled or their time over.  A scan's may
\* end at any time (ScanGivesUp, ScanIsOver): only a pairing's needs to be remembered.
ContextsEnd(S) ==
    session' = [s \in Sessions |->
        IF s \in S /\ session[s].kind = "pairing" THEN [session[s] EXCEPT !.over = TRUE]
                                                  ELSE session[s]]

-----------------------------------------------------------------------------
(* Pairing, the calls.                                                     *)

\* StartPairing takes the service's lock ...
StartPairing(d) ==
    /\ asking = None /\ "pairing" \in service /\ Room
    /\ asking' = d
    /\ UNCHANGED <<cache, manager, service, session, listed, latest, readers>>

\* What GetDevice and IsDevicePaired say of a device that may be paired.
Pairable(d) == d \in known \ paired

\* ... and asks the manager for the device.
StartPairingEnds(m) ==
    /\ asking # None /\ CanRead
    /\ IF Pairable(asking) /\ MayStart("pairing")
       THEN NewSession("pairing", asking, m)
       ELSE UNCHANGED <<session, listed, latest>>
    /\ asking' = None
    /\ UNCHANGED <<cache, manager, service, readers>>

\* CancelPairing and StopScan: the session found under the ID is cancelled.
Cancel(kind, id) ==
    /\ ServiceIsFree(kind)
    /\ listed[kind][id] # None
    /\ ContextsEnd({listed[kind][id]})
    /\ listed' = [listed EXCEPT ![kind][id] = None]
    /\ UNCHANGED <<cache, manager, service, asking, latest, readers>>

\* An answer that comes when the goroutine has left its select is never read, and left
\* out.  ConfirmPairing sends the answer to a channel that has room for one, if there
\* is room for it within a second.  It has let go of the lock after the look-up, but
\* until the session's goroutine reads the channel nobody sees when it sends.
ConfirmPairing(id, yes) ==
    /\ asking = None
    /\ LET s == listed["pairing"][id]
       IN  /\ s # None /\ session[s].pc = "waits"
           /\ session[s].method # "pin" /\ session[s].answer = None
           /\ session' = [session EXCEPT ![s].answer = yes]
    /\ UNCHANGED <<cache, manager, service, asking, listed, latest, readers>>

\* The answer of a PIN session: is the PIN one that validatePIN accepts?
ProvidePIN(id, valid) ==
    /\ asking = None
    /\ LET s == listed["pairing"][id]
       IN  /\ s # None /\ session[s].pc \in {"starts", "waits"}
           /\ session[s].method = "pin"
           /\ session' = [session EXCEPT ![s].answer = valid]
    /\ UNCHANGED <<cache, manager, service, asking, listed, latest, readers>>

-----------------------------------------------------------------------------
(* Pairing, the goroutine (performPairing and the methods' functions).     *)

PairingStarts(s) ==
    /\ session[s].kind = "pairing" /\ session[s].pc = "starts"
    /\ Goes(s, CASE session[s].method = "oob" -> "ends"
                 [] session[s].method = "confirmation" /\ AutoAccept -> "completes"
                 [] OTHER -> "waits")
    /\ UNCHANGED <<cache, manager, service, asking, listed, latest, readers>>

\* The goroutine leaves its select, with the answer or without.
Leaves(s, pc) == session' = [session EXCEPT ![s].pc = pc, ![s].answer = None]

\* A PIN that nobody provides is generated, and valid.
Accepted(s) == session[s].answer = TRUE \/ (session[s].method = "pin" /\ session[s].answer = None)

PairingIsAnswered(s) ==
    /\ session[s].kind = "pairing" /\ session[s].pc = "waits"
    /\ session[s].answer # None \/ session[s].method = "pin"
    /\ Leaves(s, IF Accepted(s) THEN "completes" ELSE "ends")
    /\ UNCHANGED <<cache, manager, service, asking, listed, latest, readers>>

\* Mutation: only a PIN's validation is left when the context ends.
PinHearsContext(s) == session[s].method = "pin"

HearsContext(s) == session[s].pc = "waits"

\* With an answer there as well, the select may take either.
PairingIsOver(s) ==
    /\ session[s].kind = "pairing" /\ session[s].pc = "waits"
    /\ session[s].over /\ HearsContext(s)
    /\ Leaves(s, "ends")
    /\ UNCHANGED <<cache, manager, service, asking, listed, latest, readers>>

\* completePairing: PairDevice refuses a device that has left the cache or that
\* was paired meanwhile.
PairingCompletes(s) ==
    /\ session[s].kind = "pairing" /\ session[s].pc = "completes"
    /\ CanWrite
    /\ \E here \in BOOLEAN :   \* an expired device may still be in the cache
          paired' = IF session[s].device \in known \/ here
                    THEN paired \cup {session[s].device} ELSE paired
    /\ Goes(s, "ends")
    /\ UNCHANGED <<known, manager, service, asking, listed, latest, readers>>

-----------------------------------------------------------------------------
(* Discovery.                                                              *)

StartScan ==
    /\ MayStart("scan") /\ Room
    /\ NewSession("scan", None, None)
    /\ UNCHANGED <<cache, manager, service, asking, readers>>

\* The cached devices come first: the goroutine calls DiscoverDevices ...
ScanReadsCache(s) ==
    /\ session[s].kind = "scan" /\ session[s].pc = "starts"
    /\ Goes(s, "reads")
    /\ discovery' = [discovery EXCEPT ![s] = "counts"]
    /\ UNCHANGED <<cache, manager, service, asking, listed, latest, writerWaits>>

\* ... and takes what it delivers until its channel is closed ...
ScanHasRead(s) ==
    /\ session[s].pc = "reads" /\ discovery[s] = "none"
    /\ Goes(s, "waits")
    /\ UNCHANGED <<cache, manager, service, asking, listed, latest, readers>>

\* ... or until its context is over while it has a device in hand.
ScanGivesUp(s) ==
    /\ session[s].pc = "reads" /\ discovery[s] # "none"
    /\ Goes(s, "ends")
    /\ UNCHANGED <<cache, manager, service, asking, listed, latest, readers>>

\* The adapter's scan fails or is over, or the context is.
ScanIsOver(s) ==
    /\ session[s].kind = "scan" /\ session[s].pc = "waits"
    /\ Goes(s, "ends")
    /\ UNCHANGED <<cache, manager, service, asking, listed, latest, readers>>

-----------------------------------------------------------------------------
(* DiscoverDevices, the goroutine: it counts the scan and marks the end of *)
(* its scanning in critical sections of m.mu, and delivers the cached      *)
(* devices under the read lock.                                            *)

Moves(s, from, to) ==
    /\ discovery[s] = from
    /\ discovery' = [discovery EXCEPT ![s] = to]
    /\ UNCHANGED <<cache, manager, service, asking, session, listed, latest>>

DiscoveryCounts(s) == CanWrite /\ Moves(s, "counts", "asks") /\ UNCHANGED writerWaits

DiscoveryLocks(s) == CanRead /\ Moves(s, "asks", "delivers") /\ UNCHANGED writerWaits

\* A filter with RequireAuth asks IsDevicePaired, which takes the read lock again.
Filter(s) == known # {} /\ Moves(s, "delivers", "filters") /\ UNCHANGED writerWaits

FilterAnswers(s) == CanRead /\ Moves(s, "filters", "delivers") /\ UNCHANGED writerWaits

\* The last reader lets a writer in that waits.
DiscoveryUnlocks(s) ==
    /\ Moves(s, "delivers", "scans")
    /\ writerWaits' = (writerWaits /\ \E r \in Sessions \ {s} : IsReading(r))

DiscoveryEnds(s) == CanWrite /\ Moves(s, "scans", "none") /\ UNCHANGED writerWaits

\* Any operation that changes the cache, Start or Stop: it keeps later readers out.
WriterAsks ==
    /\ ~writerWaits /\ \E s \in Sessions : IsReading(s)
    /\ writerWaits' = TRUE
    /\ UNCHANGED <<cache, manager, service, asking, session, listed, latest, discovery>>

-----------------------------------------------------------------------------
(* The end of a session's goroutine.                                       *)

\* Mutation: a session that was cancelled is taken for one already unlisted.
UnlistedUnlessOver(s) ==
    IF session[s].over THEN listed ELSE [listed EXCEPT ![session[s].kind][session[s].id] = None]

\* The goroutine's last step removes its ID, whichever session is under it.
Unlisted(s) == [listed EXCEPT ![session[s].kind][session[s].id] = None]

SessionEnds(s) ==
    /\ session[s].pc = "ends"
    /\ ServiceIsFree(session[s].kind)
    /\ listed' = Unlisted(s)
    /\ session' = [session EXCEPT ![s] = NoSession]
    /\ UNCHANGED <<cache, manager, service, asking, latest, readers>>

\* A scan's deadline may come whenever its goroutine waits: ScanIsOver.
SessionTimesOut(s) ==
    /\ session[s].kind = "pairing" /\ session[s].pc # "gone" /\ ~session[s].over
    /\ ContextsEnd({s})
    /\ UNCHANGED <<cache, manager, service, asking, listed, latest, readers>>

-----------------------------------------------------------------------------
(* Start and Stop of the services and of the manager.                      *)

\* Stopping a service cancels the sessions it lists and unlists none.
ServicesStop(K) ==
    /\ service' = service \ K
    /\ ContextsEnd({s \in Sessions : \E kind \in K \cap service, id \in Ids : listed[kind][id] = s})

StartService(kind) ==
    /\ ServiceIsFree(kind) /\ kind \notin service
    /\ service' = service \cup {kind}
    /\ UNCHANGED <<cache, manager, asking, session, listed, latest, readers>>

StopService(kind) ==
    /\ ServiceIsFree(kind) /\ kind \in service
    /\ ServicesStop({kind})
    /\ UNCHANGED <<cache, manager, asking, listed, latest, readers>>

\* Start and Stop take m.mu and hold it when they ask for the services' locks.
ManagerCalled(call) ==
    /\ CanWrite
    /\ running = (call = "stop")
    /\ managerLock' = call
    /\ UNCHANGED <<cache, running, service, asking, session, listed, latest, readers>>

ManagerStarts ==
    /\ managerLock = "start" /\ asking = None
    /\ running' = TRUE /\ managerLock' = "free"
    /\ service' = Kinds
    /\ UNCHANGED <<cache, asking, session, listed, latest, readers>>

ManagerStops ==
    /\ managerLock = "stop" /\ asking = None
    /\ running' = FALSE /\ managerLock' = "free"
    /\ ServicesStop(Kinds)
    /\ known' = {}
    /\ UNCHANGED <<paired, asking, listed, latest, readers>>

\* Devices come into the cache, leave it, expire or are unpaired (DeviceCache).
CacheChanges(d) ==
    /\ \/ CanWrite /\ known' = known \cup {d} /\ UNCHANGED paired
       \/ known' = known \ {d} /\ UNCHANGED paired
       \/ CanWrite /\ paired' = paired \ {d} /\ UNCHANGED known
    /\ UNCHANGED <<manager, service, asking, session, listed, latest, readers>>

-----------------------------------------------------------------------------
\* The steps of a session's goroutine; at any time one kind of them is possible.
GoroutineStep(s) ==
    \/ PairingStarts(s) \/ PairingIsAnswered(s) \/ PairingIsOver(s) \/ PairingCompletes(s)
    \/ ScanReadsCache(s) \/ ScanHasRead(s) \/ ScanIsOver(s)
    \/ SessionEnds(s)

\* What DiscoverDevices does in any case, for as many devices as there are.
DiscoveryStep(s) ==
    DiscoveryCounts(s) \/ DiscoveryLocks(s) \/ DiscoveryUnlocks(s) \/ DiscoveryEnds(s)

Next ==
    \/ \E d \in Devices : StartPairing(d) \/ CacheChanges(d)
    \/ \E m \in Methods : StartPairingEnds(m)
    \/ \E id \in Ids, kind \in Kinds : Cancel(kind, id)
    \/ \E id \in Ids, b \in BOOLEAN : ConfirmPairing(id, b) \/ ProvidePIN(id, b)
    \/ StartScan
    \/ \E s \in Sessions :
          \/ GoroutineStep(s) \/ ScanGivesUp(s) \/ SessionTimesOut(s)
          \/ DiscoveryStep(s) \/ Filter(s) \/ FilterAnswers(s)
    \/ WriterAsks
    \/ \E kind \in Kinds : StartService(kind) \/ StopService(kind)
    \/ \E call \in {"start", "stop"} : ManagerCalled(call)
    \/ ManagerStarts \/ ManagerStops

Spec == Init /\ [][Next]_vars

\* A mutex is starvation-free; a deadline passes; a goroutine goes on.
Fairness ==
    /\ SF_vars(\E m \in Methods : StartPairingEnds(m))
    /\ WF_vars(ManagerStarts \/ ManagerStops)
    /\ \A s \in Sessions :
          /\ WF_vars(SessionTimesOut(s)) /\ WF_vars(FilterAnswers(s))
          /\ SF_vars(GoroutineStep(s) \/ DiscoveryStep(s))

FairSpec == Spec /\ Fairness

-----------------------------------------------------------------------------
\* An ID listed by a service is that of a session whose goroutine will unlist it:
\* no slot of the limit is lost, although a session may be unlisted by another
\* one with the same ID, or cancelled (pairing.go:349, 496; discovery.go:212).
ListedIsLive ==
    \A kind \in Kinds, id \in Ids :
        listed[kind][id] # None =>
            /\ session[listed[kind][id]].pc # "gone"
            /\ session[listed[kind][id]].id = id
            /\ session[listed[kind][id]].kind = kind

\* StartPairing and the manager's Start or Stop, each with the lock the other needs; or
\* a filter under the read lock, behind a writer that waits for the readers.
Deadlocked ==
    \/ managerLock # "free" /\ asking # None
    \/ writerWaits /\ \E s \in Sessions : discovery[s] = "filters"

\* Every session's goroutine ends, whatever its user does, unless a StartPairing
\* and a call of the manager's Start or Stop wait for each other's lock
\* (pairing.go:228, manager.go:339, 369), or a discovery asks for the read lock a
\* second time when a writer has come in between (manager.go:121, 452, 658).
SessionsEnd == \A s \in Sessions : (session[s].pc # "gone") ~> (session[s].pc = "gone" \/ Deadlocked)

\* The manager's Start and Stop return.  They do not: Stop holds m.mu and asks for
\* the pairing service's lock, StartPairing holds it and asks for m.mu.
ManagerReturns == (managerLock # "free") ~> (managerLock = "free")

\* A pairing that was cancelled pairs no device.  It may: the answer is there as
\* well as the end of the context, or the method has gone past its select.
CancelledNeverPairs ==
    [][\A s \in Sessions : session[s].over /\ session'[s].pc = "ends" => paired' = paired]_vars
=============================================================================
