----------------------------- MODULE DeviceCache -----------------------------
(***************************************************************************)
(* The device manager's cache (internal/device/manager.go): the devices,   *)
(* the connected and the paired ones, under the read-write lock m.mu.      *)
(* Every operation is one critical section and so one step, but for        *)
(* DiscoverDevices, which delivers to a channel with the read lock held    *)
(* and may ask for it a second time.                                       *)
(*                                                                         *)
(* The time since a device was last seen is counted in cache timeouts.     *)
(* The services that the manager starts and stops are DeviceServices.      *)
(***************************************************************************)
EXTENDS Integers, FiniteSets

CONSTANTS
    Devices,     \* device identifiers
    MaxDevices,  \* ManagerConfig.MaxDevices
    PairedAge    \* timeouts after which a paired device expires, 3 in the code

\* What the constants must be.
CacheAssumption ==
    /\ IsFiniteSet(Devices)
    /\ MaxDevices \in Nat \ {0}
    /\ PairedAge \in Nat \ {0}

VARIABLES
    devices,      \* the cache
    connected,    \* connectedDevices
    paired,       \* pairedDevices
    age,          \* cache timeouts since a device was last seen, up to PairedAge
    running,      \* Manager.running
    cleaning,     \* the cleanup goroutine: "no", "runs", or "lastTick", at m.mu after Stop
    stoppedOnce,  \* the manager's context is cancelled
    reader,       \* DiscoverDevices: "none", "delivers" or "filters" under the read lock
    pending       \* does a writer wait for that reader?

cache == <<devices, connected, paired, age>>
life  == <<running, cleaning, stoppedOnce>>
lock  == <<reader, pending>>
vars  == <<cache, life, lock>>

TypeOK ==
    /\ devices \subseteq Devices /\ connected \subseteq Devices /\ paired \subseteq Devices
    /\ age \in [Devices -> 0 .. PairedAge]
    /\ running \in BOOLEAN /\ stoppedOnce \in BOOLEAN
    /\ cleaning \in {"no", "runs", "lastTick"}
    /\ reader \in {"none", "delivers", "filters"} /\ pending \in BOOLEAN

Init ==
    /\ devices = {} /\ connected = {} /\ paired = {}
    /\ age = [d \in Devices |-> 0]
    /\ running = FALSE /\ cleaning = "no" /\ stoppedOnce = FALSE
    /\ reader = "none" /\ pending = FALSE

-----------------------------------------------------------------------------
Protected == connected \cup paired

\* The oldest of the devices in D, all of them if several are.
Oldest(D) == {d \in D : \A e \in D : age[e] <= age[d]}

\* Mutation: only the paired devices are skipped.
EvictableUnlessPaired == Oldest(devices \ paired)

\* Devices removeOldestDevice may take.
Evictable == Oldest(devices \ Protected)

Seen(d) == age' = [age EXCEPT ![d] = 0]

\* Mutation: one device too many is let in before the oldest has to leave.
FullBeyondLimit == Cardinality(devices) > MaxDevices

Full == Cardinality(devices) >= MaxDevices

\* A cached device is updated.  A new one makes the oldest leave if the cache
\* is full, and comes in whether one has left or not.
AddDevice(d) ==
    /\ Seen(d)
    /\ \/ d \in devices /\ UNCHANGED devices
       \/ /\ d \notin devices
          /\ Full /\ Evictable # {}
          /\ \E e \in Evictable : devices' = (devices \ {e}) \cup {d}
       \/ /\ d \notin devices
          /\ ~Full \/ Evictable = {}
          /\ devices' = devices \cup {d}
    /\ UNCHANGED <<connected, paired>>

RemoveDevice(d) ==
    /\ d \in devices
    /\ devices' = devices \ {d} /\ connected' = connected \ {d}
    /\ UNCHANGED <<paired, age>>

MarkDeviceConnected(d) ==
    /\ d \in devices
    /\ connected' = connected \cup {d}
    /\ UNCHANGED <<devices, paired, age>>

MarkDeviceDisconnected(d) ==
    /\ d \in connected
    /\ connected' = connected \ {d}
    /\ UNCHANGED <<devices, paired, age>>

PairDevice(d) ==
    /\ d \in devices \ paired
    /\ paired' = paired \cup {d}
    /\ UNCHANGED <<devices, connected, age>>

UnpairDevice(d) ==
    /\ d \in paired
    /\ connected' = connected \ {d} /\ paired' = paired \ {d}
    /\ UNCHANGED <<devices, age>>

UpdateDeviceRSSI(d) ==
    /\ d \in devices
    /\ Seen(d)
    /\ UNCHANGED <<devices, connected, paired>>

ClearDeviceCache ==
    /\ devices' = devices \cap Protected
    /\ UNCHANGED <<connected, paired, age>>

\* A connected device never expires, a paired one later than the others.
Expired(d) ==
    /\ d \in devices \ connected
    /\ age[d] >= IF d \in paired THEN PairedAge ELSE 1

CleanupExpiredDevices ==
    /\ reader = "none" /\ cleaning # "no"
    /\ devices' = {d \in devices : ~Expired(d)}
    /\ cleaning' = IF cleaning = "runs" THEN "runs" ELSE "no"
    /\ UNCHANGED <<connected, paired, age, running, stoppedOnce, lock>>

\* A write operation runs when no reader holds the lock.
Write ==
    /\ reader = "none"
    /\ \/ \E d \in Devices :
             \/ AddDevice(d)
             \/ RemoveDevice(d)
             \/ MarkDeviceConnected(d)
             \/ MarkDeviceDisconnected(d)
             \/ PairDevice(d)
             \/ UnpairDevice(d)
             \/ UpdateDeviceRSSI(d)
       \/ ClearDeviceCache
    /\ UNCHANGED <<life, lock>>

-----------------------------------------------------------------------------
(* Start and Stop.  The manager's context is made once: the cleanup of a    *)
(* manager that is started again ends at once.                              *)

Start ==
    /\ reader = "none" /\ ~running
    /\ running' = TRUE
    /\ cleaning' = IF stoppedOnce THEN cleaning ELSE "runs"
    /\ UNCHANGED <<cache, stoppedOnce, lock>>

\* Mutation: Stop empties the cache only.
CacheEmptied == devices' = {} /\ UNCHANGED connected

Emptied == devices' = {} /\ connected' = {}

\* A cleanup whose tick has come, and that waits for m.mu, is still done afterwards.
Stop ==
    /\ reader = "none" /\ running
    /\ running' = FALSE /\ stoppedOnce' = TRUE
    /\ cleaning' \in IF cleaning = "no" THEN {"no"} ELSE {"no", "lastTick"}
    /\ Emptied
    /\ UNCHANGED <<paired, age, lock>>

-----------------------------------------------------------------------------
(* DiscoverDevices: its goroutine sends the cached devices with the read   *)
(* lock held; a filter with RequireAuth asks IsDevicePaired for each of    *)
(* them, which takes the read lock again.                                  *)

DiscoverDevices ==
    /\ reader = "none"
    /\ reader' = "delivers"
    /\ UNCHANGED <<cache, life, pending>>

\* A writer that asks keeps every later reader waiting.
WriterAsks ==
    /\ reader # "none" /\ ~pending
    /\ pending' = TRUE
    /\ UNCHANGED <<cache, life, reader>>

Filter ==
    /\ reader = "delivers" /\ devices # {}
    /\ reader' = "filters"
    /\ UNCHANGED <<cache, life, pending>>

FilterAnswers ==
    /\ reader = "filters" /\ ~pending
    /\ reader' = "delivers"
    /\ UNCHANGED <<cache, life, pending>>

DiscoveryEnds ==
    /\ reader = "delivers"
    /\ reader' = "none" /\ pending' = FALSE
    /\ UNCHANGED <<cache, life>>

TimePasses ==
    /\ \E d \in devices : age[d] < PairedAge
    /\ age' = [d \in Devices |-> IF d \in devices /\ age[d] < PairedAge
                                 THEN age[d] + 1 ELSE age[d]]
    /\ UNCHANGED <<devices, connected, paired, life, lock>>

Next ==
    \/ Write
    \/ CleanupExpiredDevices
    \/ Start \/ Stop
    \/ DiscoverDevices \/ WriterAsks \/ Filter \/ FilterAnswers \/ DiscoveryEnds
    \/ TimePasses

Spec == Init /\ [][Next]_vars

-----------------------------------------------------------------------------
\* A device marked as connected is in the cache: whatever makes a device leave
\* the cache (eviction, expiry, removal, clearing, Stop) spares the connected
\* ones or forgets the connection with it (manager.go:248, 278, 382, 468, 755).
ConnectedIsCached == connected \subseteq devices

\* The cache grows beyond its limit only if every device in it is connected or
\* paired: otherwise an addition makes one leave (manager.go:231).
GrowsOnlyIfProtected ==
    [][Cardinality(devices') > Cardinality(devices) /\ Cardinality(devices') > MaxDevices
          => devices \subseteq Protected]_vars

\* A discovery always lets go of the read lock.  It does not when its filter
\* takes the lock again behind a writer that waits for it (manager.go:433, 658).
DiscoveryReturns == (reader # "none") ~> (reader = "none")

FairSpec == Spec /\ WF_vars(FilterAnswers) /\ SF_vars(DiscoveryEnds)
=============================================================================
