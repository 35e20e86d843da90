---------------------------- MODULE DeviceProofs ----------------------------
(* Proofs about the device manager's services and its cache, for any        *)
(* devices, sessions, IDs and limits.                                       *)
EXTENDS DeviceParts, FiniteSetTheorems, WellFoundedInduction, TLAPS

-----------------------------------------------------------------------------
(* DeviceServices.                                                          *)

\* What the table of IDs and the sessions look like, as far as they are needed.
TableTypes ==
    /\ listed \in [Kinds -> [Ids -> Sessions \cup {None}]]
    /\ session \in [Sessions ->
          [kind : Kinds, pc : {"gone", "starts", "reads", "waits", "completes", "ends"},
           id : Ids \cup {None}, over : BOOLEAN, device : Devices \cup {None},
           method : Methods \cup {None}, answer : BOOLEAN \cup {None}]]
    /\ asking \in Devices \cup {None}

ListedInv == TableTypes /\ ListedIsLive

\* A new session takes an object nobody uses: none that is listed.
LEMMA NewSessionStep ==
    ASSUME ListedInv, NEW kind \in Kinds, NEW d \in Devices \cup {None},
           NEW m \in Methods \cup {None}, NewSession(kind, d, m),
           asking' \in Devices \cup {None}
    PROVE  ListedInv'
<1>1. PICK s \in Sessions, id \in Ids :
        /\ session[s].pc = "gone"
        /\ session' = [session EXCEPT ![s] =
              [NoSession EXCEPT !.kind = kind, !.pc = "starts", !.id = id,
                                !.device = d, !.method = m]]
        /\ listed' = [listed EXCEPT ![kind][id] = s]
    BY DEF NewSession, Unused
<1>2. TableTypes'
    BY <1>1 DEF ListedInv, TableTypes, NoSession, Kinds
<1>3. ASSUME NEW k \in Kinds, NEW i \in Ids, listed'[k][i] # None
      PROVE  /\ session'[listed'[k][i]].pc # "gone"
             /\ session'[listed'[k][i]].id = i
             /\ session'[listed'[k][i]].kind = k
    <2>1. CASE k = kind /\ i = id
        BY <1>1, <2>1 DEF ListedInv, TableTypes, NoSession, Kinds
    <2>2. CASE ~(k = kind /\ i = id)
        <3>1. listed'[k][i] = listed[k][i] /\ listed[k][i] \in Sessions
            BY <1>1, <1>3, <2>2 DEF ListedInv, TableTypes
        <3>2. listed[k][i] # s
            BY <1>1, <1>3, <3>1 DEF ListedInv, ListedIsLive
        <3>3. QED
            BY <1>1, <1>3, <3>1, <3>2 DEF ListedInv, ListedIsLive, TableTypes
    <2>3. QED
        BY <2>1, <2>2
<1>4. QED
    BY <1>2, <1>3 DEF ListedInv, ListedIsLive

\* Sessions that go on and IDs that are taken out leave the rest as it is.
LEMMA GoesOnStep ==
    ASSUME ListedInv, TableTypes',
           \A s \in Sessions : session[s].pc # "gone" =>
               /\ session'[s].pc # "gone"
               /\ session'[s].id = session[s].id /\ session'[s].kind = session[s].kind,
           \A kind \in Kinds, id \in Ids : listed'[kind][id] \in {listed[kind][id], None}
    PROVE  ListedInv'
BY ServiceAssumption DEF ListedInv, ListedIsLive, TableTypes

\* Every step keeps the tables and the sessions in agreement.
LEMMA ListedStep ==
    ASSUME ListedInv, [Next]_vars
    PROVE  ListedInv'
<1> USE DEF ListedInv, TableTypes
<1>1. ASSUME NEW d \in Devices, StartPairing(d)
      PROVE  ListedInv'
    BY <1>1 DEF StartPairing, ListedIsLive
<1>2. ASSUME NEW m \in Methods, StartPairingEnds(m)
      PROVE  ListedInv'
    <2>1. CASE NewSession("pairing", asking, m)
        BY <1>2, <2>1, NewSessionStep DEF StartPairingEnds, Kinds
    <2>2. CASE UNCHANGED <<session, listed>>
        BY <1>2, <2>2 DEF StartPairingEnds, ListedIsLive
    <2>3. QED
        BY <1>2, <2>1, <2>2 DEF StartPairingEnds
<1>3. CASE StartScan
    BY <1>3, NewSessionStep DEF StartScan, Kinds
<1>4. ASSUME NEW id \in Ids, NEW kind \in Kinds, Cancel(kind, id)
      PROVE  ListedInv'
    BY <1>4, GoesOnStep DEF Cancel, ContextsEnd
<1>5. ASSUME NEW id \in Ids, NEW b \in BOOLEAN, ConfirmPairing(id, b) \/ ProvidePIN(id, b)
      PROVE  ListedInv'
    BY <1>5, GoesOnStep DEF ConfirmPairing, ProvidePIN, Kinds
<1>6. ASSUME NEW s \in Sessions, GoroutineStep(s) \/ ScanGivesUp(s), ~SessionEnds(s)
      PROVE  ListedInv'
    <2>1. PICK pc \in {"reads", "waits", "completes", "ends"} : Goes(s, pc) \/ Leaves(s, pc)
        BY <1>6
        DEF GoroutineStep, PairingStarts, PairingIsAnswered, PairingIsOver,
            PairingCompletes, ScanReadsCache, ScanHasRead, ScanGivesUp, ScanIsOver
    <2>2. UNCHANGED <<listed, asking>>
        BY <1>6
        DEF GoroutineStep, PairingStarts, PairingIsAnswered, PairingIsOver,
            PairingCompletes, ScanReadsCache, ScanHasRead, ScanGivesUp, ScanIsOver
    <2>3. CASE Goes(s, pc)
        BY <2>2, <2>3, GoesOnStep DEF Goes
    <2>4. CASE Leaves(s, pc)
        <3>1. session' = [session EXCEPT ![s] = [session[s] EXCEPT !.pc = pc, !.answer = None]]
            BY <2>4 DEF Leaves
        <3>2. [session[s] EXCEPT !.pc = pc, !.answer = None] \in
                [kind : Kinds, pc : {"gone", "starts", "reads", "waits", "completes", "ends"},
                 id : Ids \cup {None}, over : BOOLEAN, device : Devices \cup {None},
                 method : Methods \cup {None}, answer : BOOLEAN \cup {None}]
            OBVIOUS
        <3>3. TableTypes'
            BY <2>2, <3>1, <3>2
        <3>4. QED
            BY <2>2, <3>1, <3>3, GoesOnStep
    <2>5. QED
        BY <2>1, <2>3, <2>4
<1>7. ASSUME NEW s \in Sessions, SessionEnds(s)
      PROVE  ListedInv'
    <2>1. TableTypes'
        BY <1>7 DEF SessionEnds, Unlisted, NoSession, Kinds
    <2>2. ASSUME NEW k \in Kinds, NEW i \in Ids, listed'[k][i] # None
          PROVE  listed'[k][i] = listed[k][i] /\ listed[k][i] # s
        BY <1>7, <2>2 DEF SessionEnds, Unlisted, ListedIsLive
    <2>3. \A r \in Sessions \ {s} : session'[r] = session[r]
        BY <1>7 DEF SessionEnds
    <2>4. QED
        BY <2>1, <2>2, <2>3 DEF ListedIsLive
<1>8. ASSUME NEW S, ContextsEnd(S), UNCHANGED <<listed, asking>>
      PROVE  ListedInv'
    BY <1>8, GoesOnStep DEF ContextsEnd
<1>9. CASE UNCHANGED <<session, listed, asking>>
    BY <1>9 DEF ListedIsLive
<1>10. QED
    BY <1>1, <1>2, <1>3, <1>4, <1>5, <1>6, <1>7, <1>8, <1>9
    DEF Next, vars, CacheChanges, SessionTimesOut, StartService, StopService, ServicesStop,
        ManagerCalled, ManagerStarts, ManagerStops, Kinds, DiscoveryStep, Moves,
        DiscoveryCounts, DiscoveryLocks, DiscoveryUnlocks, DiscoveryEnds, Filter,
        FilterAnswers, WriterAsks

\* An ID a service lists is that of a session whose goroutine will unlist it, also
\* when sessions share an ID or are cancelled (pairing.go:349, 496; discovery.go:212).
THEOREM ListedSessionsLive == Spec => []ListedIsLive
<1>1. Init => ListedInv
    BY ServiceAssumption
    DEF Init, ListedInv, TableTypes, ListedIsLive, NoSession, Kinds
<1>2. ListedInv /\ [Next]_vars => ListedInv'
    BY ListedStep
<1>3. ListedInv => ListedIsLive
    BY DEF ListedInv
<1>4. QED
    BY <1>1, <1>2, <1>3, PTL DEF Spec

-----------------------------------------------------------------------------
(* DeviceCache.                                                             *)

\* The cache counts its devices like the theorems about finite sets do.
LEMMA SameFinite == ASSUME NEW S PROVE Cache!IsFiniteSet(S) <=> IsFiniteSet(S)
BY DEF Cache!IsFiniteSet, IsFiniteSet

\* The cache counts with the same Cardinality.
LEMMA SameCardinality == ASSUME NEW S PROVE Cache!Cardinality(S) = Cardinality(S)
BY DEF Cache!Cardinality, Cardinality

\* A device that may be evicted is cached and neither connected nor paired.
LEMMA EvictableIsUnprotected == Cache!Evictable \subseteq devices \ Cache!Protected
BY DEF Cache!Evictable, Cache!Oldest

\* Every step keeps the cache well-formed.
LEMMA TypeStep ==
    ASSUME Cache!TypeOK, [Cache!Next]_(Cache!vars)
    PROVE  Cache!TypeOK'
<1> USE CacheAssumed DEF Cache!CacheAssumption, Cache!TypeOK, Cache!cache, Cache!life,
                         Cache!lock
<1>1. CASE Cache!Write
    <2>1. ASSUME NEW d \in CacheDevices, Cache!AddDevice(d),
                 UNCHANGED <<Cache!life, Cache!lock>>
          PROVE  Cache!TypeOK'
        BY <2>1, EvictableIsUnprotected DEF Cache!AddDevice, Cache!Seen
    <2>2. ASSUME NEW d \in CacheDevices, Cache!UpdateDeviceRSSI(d),
                 UNCHANGED <<Cache!life, Cache!lock>>
          PROVE  Cache!TypeOK'
        BY <2>2 DEF Cache!UpdateDeviceRSSI, Cache!Seen
    <2>3. ASSUME NEW d \in CacheDevices, UNCHANGED <<Cache!life, Cache!lock>>,
                 \/ Cache!RemoveDevice(d) \/ Cache!MarkDeviceConnected(d)
                 \/ Cache!MarkDeviceDisconnected(d) \/ Cache!PairDevice(d)
                 \/ Cache!UnpairDevice(d)
          PROVE  Cache!TypeOK'
        BY <2>3 DEF Cache!RemoveDevice, Cache!MarkDeviceConnected,
                    Cache!MarkDeviceDisconnected, Cache!PairDevice, Cache!UnpairDevice
    <2>4. ASSUME Cache!ClearDeviceCache, UNCHANGED <<Cache!life, Cache!lock>>
          PROVE  Cache!TypeOK'
        BY <2>4 DEF Cache!ClearDeviceCache
    <2>5. QED
        BY <1>1, <2>1, <2>2, <2>3, <2>4 DEF Cache!Write
<1>2. CASE Cache!Start \/ Cache!Stop \/ Cache!CleanupExpiredDevices
    BY <1>2 DEF Cache!Start, Cache!Stop, Cache!Emptied, Cache!CleanupExpiredDevices
<1>3. CASE \/ Cache!DiscoverDevices \/ Cache!WriterAsks \/ Cache!Filter
           \/ Cache!FilterAnswers \/ Cache!DiscoveryEnds
    BY <1>3 DEF Cache!DiscoverDevices, Cache!WriterAsks, Cache!Filter,
                Cache!FilterAnswers, Cache!DiscoveryEnds
<1>4. CASE Cache!TimePasses
    BY <1>4 DEF Cache!TimePasses
<1>5. CASE UNCHANGED Cache!vars
    BY <1>5 DEF Cache!vars
<1>6. QED
    BY <1>1, <1>2, <1>3, <1>4, <1>5 DEF Cache!Next

\* The manager's maps stay well-formed.
THEOREM TypeCorrect == Cache!Spec => []Cache!TypeOK
<1>1. Cache!Init => Cache!TypeOK
    <2>1. 0 \in 0 .. PairedAge
        BY CacheAssumed DEF Cache!CacheAssumption
    <2>2. QED
        BY <2>1 DEF Cache!Init, Cache!TypeOK
<1>2. Cache!TypeOK /\ [Cache!Next]_(Cache!vars) => Cache!TypeOK'
    BY TypeStep
<1>3. QED
    BY <1>1, <1>2, PTL DEF Cache!Spec

-----------------------------------------------------------------------------
\* Whatever leaves the cache is not connected, or loses the mark with its place.
LEMMA CachedStep ==
    ASSUME Cache!ConnectedIsCached, [Cache!Next]_(Cache!vars)
    PROVE  Cache!ConnectedIsCached'
<1> USE DEF Cache!ConnectedIsCached, Cache!cache, Cache!life, Cache!lock, Cache!Protected
<1>1. CASE Cache!Write
    <2>1. ASSUME NEW d \in CacheDevices, Cache!AddDevice(d)
          PROVE  Cache!ConnectedIsCached'
        BY <2>1, EvictableIsUnprotected DEF Cache!AddDevice
    <2>2. ASSUME NEW d \in CacheDevices,
                 \/ Cache!RemoveDevice(d) \/ Cache!MarkDeviceConnected(d)
                 \/ Cache!MarkDeviceDisconnected(d) \/ Cache!PairDevice(d)
                 \/ Cache!UnpairDevice(d) \/ Cache!UpdateDeviceRSSI(d)
          PROVE  Cache!ConnectedIsCached'
        BY <2>2 DEF Cache!RemoveDevice, Cache!MarkDeviceConnected,
                    Cache!MarkDeviceDisconnected, Cache!PairDevice, Cache!UnpairDevice,
                    Cache!UpdateDeviceRSSI
    <2>3. CASE Cache!ClearDeviceCache
        BY <2>3 DEF Cache!ClearDeviceCache
    <2>4. QED
        BY <1>1, <2>1, <2>2, <2>3 DEF Cache!Write
<1>2. CASE Cache!CleanupExpiredDevices
    BY <1>2 DEF Cache!CleanupExpiredDevices, Cache!Expired
<1>3. CASE Cache!Stop
    BY <1>3 DEF Cache!Stop, Cache!Emptied
<1>4. CASE UNCHANGED <<devices, connected>>
    BY <1>4
<1>5. QED
    BY <1>1, <1>2, <1>3, <1>4
    DEF Cache!Next, Cache!vars, Cache!Start, Cache!DiscoverDevices, Cache!WriterAsks,
        Cache!Filter, Cache!FilterAnswers, Cache!DiscoveryEnds, Cache!TimePasses

\* A device marked as connected is in the cache: eviction, expiry, removal,
\* clearing and Stop spare it or forget the mark (manager.go:248, 278, 382, 468, 755).
THEOREM ConnectedStaysCached == Cache!Spec => []ConnectedIsCached
<1>1. Cache!Init => Cache!ConnectedIsCached
    BY DEF Cache!Init, Cache!ConnectedIsCached
<1>2. Cache!ConnectedIsCached /\ [Cache!Next]_(Cache!vars) => Cache!ConnectedIsCached'
    BY CachedStep
<1>3. QED
    BY <1>1, <1>2, PTL DEF Cache!Spec, ConnectedIsCached

-----------------------------------------------------------------------------
\* The cache grows only where a device is added, and beyond the limit only if
\* there was nothing to evict.
LEMMA GrowthStep ==
    ASSUME Cache!TypeOK, [Cache!Next]_(Cache!vars),
           Cache!Cardinality(devices') > Cache!Cardinality(devices),
           Cache!Cardinality(devices') > MaxDevices
    PROVE  devices \subseteq Cache!Protected
<1>0. Cardinality(devices') > Cardinality(devices) /\ Cardinality(devices') > MaxDevices
    BY SameCardinality
<1>1. IsFiniteSet(devices)
    BY CacheAssumed, FS_Subset, SameFinite DEF Cache!CacheAssumption, Cache!TypeOK
<1>2. ~ (devices' \subseteq devices)
    <2> SUFFICES ASSUME devices' \subseteq devices PROVE FALSE
        OBVIOUS
    <2>1. IsFiniteSet(devices') /\ Cardinality(devices') <= Cardinality(devices)
        BY <1>1, FS_Subset
    <2>2. Cardinality(devices) \in Nat /\ Cardinality(devices') \in Nat
        BY <1>1, <2>1, FS_CardinalityType
    <2>3. QED
        BY <1>0, <2>1, <2>2
<1>3. PICK d \in CacheDevices : Cache!AddDevice(d)
    BY <1>2
    DEF Cache!Next, Cache!Write, Cache!RemoveDevice, Cache!MarkDeviceConnected,
        Cache!MarkDeviceDisconnected, Cache!PairDevice, Cache!UnpairDevice,
        Cache!UpdateDeviceRSSI, Cache!ClearDeviceCache, Cache!CleanupExpiredDevices,
        Cache!Start, Cache!Stop, Cache!Emptied, Cache!DiscoverDevices, Cache!WriterAsks,
        Cache!Filter, Cache!FilterAnswers, Cache!DiscoveryEnds, Cache!TimePasses,
        Cache!cache, Cache!life, Cache!lock, Cache!vars
<1>4. d \notin devices
    BY <1>2, <1>3 DEF Cache!AddDevice
<1>5. Cardinality(devices) \in Nat /\ Cardinality(devices \cup {d}) = Cardinality(devices) + 1
    BY <1>1, <1>4, FS_AddElement, FS_CardinalityType
<1>6. ASSUME NEW e \in devices, devices' = (devices \ {e}) \cup {d}
      PROVE  FALSE
    <2>1. IsFiniteSet(devices \ {e}) /\ Cardinality(devices \ {e}) = Cardinality(devices) - 1
        BY <1>1, <1>6, FS_RemoveElement
    <2>2. Cardinality(devices') = Cardinality(devices \ {e}) + 1
        BY <1>4, <1>6, <2>1, FS_AddElement
    <2>3. QED
        BY <1>0, <1>5, <2>1, <2>2
<1>7. devices' = devices \cup {d} /\ (~Cache!Full \/ Cache!Evictable = {})
    BY <1>3, <1>4, <1>6, EvictableIsUnprotected DEF Cache!AddDevice
<1>8. Cache!Full
    BY <1>0, <1>5, <1>7, CacheAssumed, SameCardinality DEF Cache!Full, Cache!CacheAssumption
<1>9. Cache!Evictable = {}
    BY <1>7, <1>8
<1>10. ASSUME devices \ Cache!Protected # {}
       PROVE  Cache!Evictable # {}
    <2> DEFINE D == devices \ Cache!Protected
               Rest == {PairedAge - age[e] : e \in D}
    <2>1. \A e \in D : age[e] \in 0 .. PairedAge
        BY DEF Cache!TypeOK
    <2>2. Rest \in SUBSET Nat /\ Rest # {}
        BY <1>10, <2>1, CacheAssumed DEF Cache!CacheAssumption
    <2>3. PICK least \in Rest : \A n \in Rest : least <= n
        <3> DEFINE R == OpToRel(<, Nat)
        <3>1. PICK n \in Rest : \A m \in Rest : ~ (<<m, n>> \in R)
            BY <2>2, NatLessThanWellFounded, WFMin
        <3>2. \A m \in Rest : ~ (m < n)
            BY <2>2, <3>1 DEF OpToRel
        <3>3. n \in Nat /\ Rest \subseteq Nat
            BY <2>2
        <3> HIDE DEF R, Rest
        <3>4. \A m \in Rest : n <= m
            BY <3>2, <3>3
        <3>5. QED
            BY <3>4
    <2>4. PICK oldest \in D : least = PairedAge - age[oldest]
        BY <2>3
    <2>5. ASSUME NEW e \in D
          PROVE  age[e] <= age[oldest]
        <3>1. PairedAge - age[oldest] <= PairedAge - age[e]
            BY <2>3, <2>4
        <3>2. age[e] \in Int /\ age[oldest] \in Int /\ PairedAge \in Int
            BY <2>1, CacheAssumed DEF Cache!CacheAssumption
        <3> HIDE DEF D
        <3>3. QED
            BY <3>1, <3>2
    <2>6. QED
        BY <2>5 DEF Cache!Evictable, Cache!Oldest
<1>11. QED
    BY <1>9, <1>10

\* The cache grows beyond its limit only if every device in it is connected or
\* paired (manager.go:231).
THEOREM GrowthIsProtected == Cache!Spec => GrowsOnlyIfProtected
<1>1. Cache!TypeOK /\ [Cache!Next]_(Cache!vars) =>
          [Cache!Cardinality(devices') > Cache!Cardinality(devices)
                  /\ Cache!Cardinality(devices') > MaxDevices
              => devices \subseteq Cache!Protected]_(Cache!vars)
    BY GrowthStep
<1>2. Cache!Spec => []Cache!TypeOK
    BY TypeCorrect
<1>3. QED
    BY <1>1, <1>2, PTL
    DEF Cache!Spec, GrowsOnlyIfProtected, Cache!GrowsOnlyIfProtected
=============================================================================
