------------------------ MODULE ConnectionPoolProofs ------------------------
(* Proofs about ConnectionPool and about what works on its connections.     *)
(* The pool's promises rest on one inductive invariant, PoolInv; only       *)
(* Capacity needs counting.  The sums of LoadBalancer and of                *)
(* PerformanceCollector have a section of their own.                        *)
EXTENDS ConnectionPool, PoolParts, FiniteSetTheorems, WellFoundedInduction, TLAPS

PoolInv == TypeOK /\ Capacity /\ NoLeak /\ PriorityCoherent

-----------------------------------------------------------------------------
(* Lemmas about the operators                                              *)

\* Taking the devices of E out leaves a well-formed pool.
LEMMA WithoutType ==
    ASSUME TypeOK, NEW E
    PROVE  /\ PoolWithout(E) \in [Devices -> 0 .. Objects]
           /\ EntryWithout(E) \in [Devices -> Entry]
           /\ ActiveWithout(E) \in [Devices -> [Object -> BOOLEAN]]
<1>1. NoEntry \in Entry
    BY PoolAssumption DEF NoEntry, Entry
<1>2. QED
    BY <1>1, PoolAssumption
    DEF TypeOK, PoolWithout, EntryWithout, ActiveWithout, Object

\* What the sort puts in front is in the pool, and as many as asked for.
LEMMA FirstInOrderChoice ==
    ASSUME NEW n, NEW E \in FirstInOrder(n)
    PROVE  E \subseteq Pooled /\ Cardinality(E) = n
BY DEF FirstInOrder

\* The pooled devices are finitely many.
LEMMA PooledFinite ==
    /\ IsFiniteSet(Pooled)
    /\ Cardinality(Pooled) \in Nat
    /\ \A E \in SUBSET Pooled :
          /\ IsFiniteSet(E)
          /\ Cardinality(E) \in Nat
          /\ Cardinality(Pooled \ E) = Cardinality(Pooled) - Cardinality(E)
<1>1. Pooled \subseteq Devices
    BY DEF Pooled
<1>2. IsFiniteSet(Pooled)
    BY <1>1, PoolAssumption, FS_Subset
<1>3. ASSUME NEW E \in SUBSET Pooled
      PROVE  /\ IsFiniteSet(E)
             /\ Cardinality(E) \in Nat
             /\ Cardinality(Pooled \ E) = Cardinality(Pooled) - Cardinality(E)
    <2>1. IsFiniteSet(E)
        BY <1>2, FS_Subset
    <2>2. Pooled \cap E = E
        OBVIOUS
    <2>3. Cardinality(Pooled \ E) = Cardinality(Pooled) - Cardinality(Pooled \cap E)
        BY <1>2, <2>1, FS_Difference
    <2>4. QED
        BY <2>1, <2>2, <2>3, FS_CardinalityType
<1>4. QED
    BY <1>2, <1>3, FS_CardinalityType

\* The pool counts the devices in E out when it gives them up.
LEMMA PooledWithout ==
    ASSUME NEW E, pool' = PoolWithout(E)
    PROVE  Pooled' = Pooled \ E
BY DEF Pooled, PoolWithout

\* Evictions make room: with one more connection the pool is within its limit.
LEMMA EvictionsMakeRoom ==
    ASSUME TypeOK, Capacity, NEW E \in Evictions, NEW d \in Devices \ Pooled
    PROVE  /\ E \subseteq Pooled
           /\ Cardinality((Pooled \ E) \cup {d}) <= maxConnections
<1>1. maxConnections \in Int
    BY PoolAssumption DEF TypeOK
<1>2. CASE Cardinality(Pooled) < maxConnections
    <2>1. E = {}
        BY <1>2 DEF Evictions
    <2>2. Cardinality(Pooled \cup {d}) = Cardinality(Pooled) + 1
        BY PooledFinite, FS_AddElement
    <2>3. (Pooled \ E) \cup {d} = Pooled \cup {d}
        BY <2>1
    <2>4. QED
        BY <1>1, <1>2, <2>1, <2>2, <2>3, PooledFinite
<1>3. CASE ~(Cardinality(Pooled) < maxConnections)
    <2>1. E \in FirstInOrder(1)
        BY <1>3 DEF Evictions
    <2>2. E \subseteq Pooled /\ Cardinality(E) = 1
        BY <2>1, FirstInOrderChoice
    <2>3. Pooled # {}
        BY <2>2, FS_EmptySet
    <2>4. Cardinality(Pooled) <= maxConnections
        BY <2>3 DEF Capacity
    <2>5. /\ IsFiniteSet(Pooled \ E)
          /\ Cardinality(Pooled \ E) = Cardinality(Pooled) - 1
        BY <2>2, PooledFinite, FS_Subset
    <2>6. Cardinality((Pooled \ E) \cup {d}) = Cardinality(Pooled \ E) + 1
        BY <2>5, FS_AddElement
    <2>7. QED
        BY <1>1, <2>2, <2>4, <2>5, <2>6, PooledFinite
<1>4. QED
    BY <1>2, <1>3

\* What is true once the devices in E have been closed and taken out, however
\* else the step goes on: nothing leaks, every kept entry is as it was.
LEMMA WithoutKeeps ==
    ASSUME TypeOK, NoLeak, NEW E
    PROVE  /\ \A c \in Devices, o \in Object :
                 ActiveWithout(E)[c][o] => PoolWithout(E)[c] = o
           /\ \A c \in Devices :
                 PoolWithout(E)[c] # 0 => EntryWithout(E)[c] = entry[c] /\ pool[c] # 0
BY DEF TypeOK, NoLeak, PoolWithout, ActiveWithout, EntryWithout

-----------------------------------------------------------------------------
(* Invariants                                                              *)

\* Every variable keeps its type (TypeOK): an evicted or removed connection
\* leaves nothing behind, an added one comes in with a known priority.
LEMMA TypeStep == TypeOK /\ [Next]_vars => TypeOK'
<1> SUFFICES ASSUME TypeOK, [Next]_vars PROVE TypeOK'
    OBVIOUS
<1>1. ASSUME NEW d \in Devices, NEW o \in Object, AddConnection(d, o) PROVE TypeOK'
    <2>1. PICK E \in Evictions :
             /\ pool' = [PoolWithout(E) EXCEPT ![d] = o]
             /\ active' = [ActiveWithout(E) EXCEPT ![d][o] = TRUE]
             /\ entry' = [EntryWithout(E) EXCEPT
                             ![d] = [NoEntry EXCEPT !.priority = PriorityOf(d)]]
        BY <1>1 DEF AddConnection
    <2>2. PriorityOf(d) \in Priorities
        BY PoolAssumption DEF PriorityOf, TypeOK
    <2>3. [NoEntry EXCEPT !.priority = PriorityOf(d)] \in Entry
        BY <2>2, PoolAssumption DEF NoEntry, Entry
    <2>4. pool' \in [Devices -> 0 .. Objects]
        BY <2>1, WithoutType, PoolAssumption DEF Object
    <2>5. active' \in [Devices -> [Object -> BOOLEAN]]
        BY <2>1, WithoutType
    <2>6. entry' \in [Devices -> Entry]
        BY <2>1, <2>3, WithoutType
    <2>7. QED
        BY <1>1, <2>4, <2>5, <2>6 DEF AddConnection, TypeOK
<1>2. ASSUME NEW d \in Devices, RemoveConnection(d) PROVE TypeOK'
    BY <1>2, WithoutType DEF RemoveConnection, TypeOK
<1>3. \A e \in Entry : Used(e) \in Entry
    <2>1. \A n \in 0 .. UseCap : (IF n < UseCap THEN n + 1 ELSE n) \in 0 .. UseCap
        BY PoolAssumption
    <2>2. \A X \in SUBSET Expiry : X \ {"idle"} \in SUBSET Expiry
        OBVIOUS
    <2>3. QED
        BY <2>1, <2>2 DEF Entry, Used
<1>4. ASSUME NEW d \in Devices, GetConnection(d) PROVE TypeOK'
    BY <1>3, <1>4 DEF GetConnection, TypeOK
<1>5. CASE SelectConnectionByStrategy
    BY <1>3, <1>5 DEF SelectConnectionByStrategy, Pooled, TypeOK
<1>6. ASSUME NEW max \in Sizes, SetMaxConnections(max) PROVE TypeOK'
    <2>1. /\ pool' \in [Devices -> 0 .. Objects]
          /\ entry' \in [Devices -> Entry]
          /\ active' \in [Devices -> [Object -> BOOLEAN]]
        BY <1>6, WithoutType DEF SetMaxConnections, TypeOK
    <2>2. QED
        BY <1>6, <2>1 DEF SetMaxConnections, TypeOK
<1>7. ASSUME NEW d \in Devices, NEW p \in Priorities, SetConnectionPriority(d, p)
      PROVE  TypeOK'
    <2>1. DOMAIN priorities' \subseteq Devices /\ priorities' \in [DOMAIN priorities' -> Priorities]
        BY <1>7 DEF SetConnectionPriority, Prioritised, TypeOK
    <2>2. \A e \in Entry : [e EXCEPT !.priority = p] \in Entry
        BY DEF Entry
    <2>3. entry' \in [Devices -> Entry]
        BY <1>7, <2>2 DEF SetConnectionPriority, TypeOK
    <2>4. QED
        BY <1>7, <2>1, <2>3 DEF SetConnectionPriority, TypeOK
<1>8. CASE Close
    BY <1>8, WithoutType DEF Close, TypeOK
<1>9. CASE PerformMaintenance
    BY <1>9, WithoutType DEF PerformMaintenance, TypeOK
<1>10. ASSUME NEW d \in Devices, ConnectionDies(d) PROVE TypeOK'
    BY <1>10 DEF ConnectionDies, TypeOK
<1>11. ASSUME NEW d \in Devices, NEW x \in Expiry, TimePasses(d, x) PROVE TypeOK'
    <2>1. \A e \in Entry : [e EXCEPT !.expired = @ \cup {x}] \in Entry
        BY DEF Entry
    <2>2. QED
        BY <1>11, <2>1 DEF TimePasses, TypeOK
<1>12. CASE UNCHANGED vars
    BY <1>12 DEF vars, TypeOK
<1>13. QED
    BY <1>1, <1>2, <1>4, <1>5, <1>6, <1>7, <1>8, <1>9, <1>10, <1>11, <1>12 DEF Next

\* ConnectionPool keeps its tables and priorities well-formed.
THEOREM TypeCorrect == Spec => []TypeOK
<1>1. Init => TypeOK
    BY PoolAssumption DEF Init, TypeOK, NoEntry, Entry
<1>2. QED
    BY <1>1, TypeStep, PTL DEF Spec

-----------------------------------------------------------------------------
\* A step that takes the devices in E out and changes nothing else about the
\* connections keeps the whole invariant if the limit stays, or fits.
LEMMA WithoutStep ==
    ASSUME PoolInv, TypeOK', NEW E \in SUBSET Pooled,
           pool' = PoolWithout(E), active' = ActiveWithout(E),
           entry' = EntryWithout(E), priorities' = priorities,
           \/ maxConnections' = maxConnections
           \/ Cardinality(Pooled \ E) <= maxConnections'
           \/ E = Pooled
    PROVE  PoolInv'
<1> USE DEF PoolInv
<1>1. NoLeak'
    BY WithoutKeeps DEF NoLeak
<1>2. PriorityCoherent'
    BY WithoutKeeps DEF PriorityCoherent, Pooled
<1>3. Capacity'
    <2>1. Pooled' = Pooled \ E
        BY PooledWithout
    <2>2. Cardinality(Pooled \ E) <= Cardinality(Pooled)
        BY PooledFinite, FS_Subset
    <2>3. CASE maxConnections' = maxConnections
        <3>1. Cardinality(Pooled) \in Nat /\ Cardinality(Pooled \ E) \in Nat
            BY PooledFinite, Pooled \ E \in SUBSET Pooled
        <3>2. maxConnections \in Int
            BY PoolAssumption DEF TypeOK
        <3>3. Pooled' # {} => Cardinality(Pooled) <= maxConnections
            BY <2>1 DEF Capacity
        <3>4. QED
            BY <2>1, <2>2, <2>3, <3>1, <3>2, <3>3 DEF Capacity
    <2>4. CASE Cardinality(Pooled \ E) <= maxConnections' \/ E = Pooled
        BY <2>1, <2>4 DEF Capacity
    <2>5. QED
        BY <2>3, <2>4
<1>4. QED
    BY <1>1, <1>2, <1>3

\* A step that touches neither the pool nor the limit, opens no connection and
\* keeps every entry's priority keeps the invariant.
LEMMA QuietStep ==
    ASSUME PoolInv, TypeOK',
           pool' = pool, maxConnections' = maxConnections, priorities' = priorities,
           \A d \in Devices, o \in Object : active'[d][o] => active[d][o],
           \A d \in Devices : entry'[d].priority = entry[d].priority
    PROVE  PoolInv'
<1>1. Pooled' = Pooled
    BY DEF Pooled
<1>2. Capacity'
    BY <1>1 DEF PoolInv, Capacity
<1>3. NoLeak' /\ PriorityCoherent'
    BY <1>1 DEF PoolInv, NoLeak, PriorityCoherent, Pooled
<1>4. QED
    BY <1>2, <1>3 DEF PoolInv

\* The pool's invariant holds whatever its callers, the maintenance goroutine
\* and the connections do.
THEOREM PoolInvariant == Spec => []PoolInv
<1>1. Init => PoolInv
    BY PoolAssumption
    DEF Init, PoolInv, TypeOK, Capacity, NoLeak, PriorityCoherent, Pooled, NoEntry, Entry
<1>2. PoolInv /\ [Next]_vars => PoolInv'
    <2> SUFFICES ASSUME PoolInv, [Next]_vars PROVE PoolInv'
        OBVIOUS
    <2> TypeOK /\ TypeOK'
        BY TypeStep DEF PoolInv
    <2>1. ASSUME NEW d \in Devices, NEW o \in Object, AddConnection(d, o) PROVE PoolInv'
        <3>1. PICK E \in Evictions :
                 /\ pool' = [PoolWithout(E) EXCEPT ![d] = o]
                 /\ active' = [ActiveWithout(E) EXCEPT ![d][o] = TRUE]
                 /\ entry' = [EntryWithout(E) EXCEPT
                                 ![d] = [NoEntry EXCEPT !.priority = PriorityOf(d)]]
            BY <2>1 DEF AddConnection
        <3>2. d \in Devices \ Pooled
            BY <2>1 DEF AddConnection, Pooled
        <3>3. Pooled' = (Pooled \ E) \cup {d}
            BY <3>1, <3>2, PoolAssumption DEF Pooled, PoolWithout, Object
        <3>4. Capacity'
            BY <2>1, <3>2, <3>3, EvictionsMakeRoom DEF Capacity, PoolInv, AddConnection
        <3>5. NoLeak'
            <4>1. \A c \in Devices, q \in Object : active'[c][q] =>
                     (c = d /\ q = o) \/ ActiveWithout(E)[c][q]
                BY <3>1, WithoutType
            <4>2. \A q \in Object : ~ActiveWithout(E)[d][q]
                <5>1. pool[d] = 0 /\ 0 \notin Object
                    BY <3>2, PoolAssumption DEF Pooled, Object
                <5>2. \A q \in Object : ~active[d][q]
                    BY <5>1 DEF PoolInv, NoLeak
                <5>3. QED
                    BY <5>2 DEF ActiveWithout
            <4>3. QED
                BY <3>1, <4>1, <4>2, WithoutKeeps, WithoutType DEF PoolInv, NoLeak
        <3>6. PriorityCoherent'
            <4>1. priorities' = priorities
                BY <2>1 DEF AddConnection
            <4>2. \A c \in Pooled' : c # d => entry'[c] = entry[c] /\ c \in Pooled
                BY <3>1, <3>3, WithoutType DEF EntryWithout, PoolWithout, Pooled
            <4>3. entry'[d].priority = PriorityOf(d)
                BY <3>1, WithoutType DEF NoEntry
            <4>4. QED
                BY <4>1, <4>2, <4>3 DEF PoolInv, PriorityCoherent, PriorityOf, Pooled
        <3>7. QED
            BY <3>4, <3>5, <3>6 DEF PoolInv
    <2>2. ASSUME NEW d \in Devices, RemoveConnection(d) PROVE PoolInv'
        BY <2>2, WithoutStep DEF RemoveConnection
    <2>3. \A e \in Entry : Used(e).priority = e.priority
        BY DEF Used, Entry
    <2>4. ASSUME NEW d \in Devices, GetConnection(d) PROVE PoolInv'
        BY <2>3, <2>4, QuietStep DEF GetConnection, TypeOK
    <2>5. CASE SelectConnectionByStrategy
        BY <2>3, <2>5, QuietStep DEF SelectConnectionByStrategy, TypeOK
    <2>6. ASSUME NEW max \in Sizes, SetMaxConnections(max) PROVE PoolInv'
        <3>1. max \in Int /\ maxConnections \in Int
            BY PoolAssumption DEF TypeOK
        <3>2. CASE Cardinality(Pooled) - max > 0
            <4> DEFINE n == IF max < 0 THEN Cardinality(Pooled) ELSE Cardinality(Pooled) - max
            <4>1. PICK E \in FirstInOrder(n) :
                     /\ pool' = PoolWithout(E)
                     /\ active' = ActiveWithout(E)
                     /\ entry' = EntryWithout(E)
                BY <2>6, <3>2 DEF SetMaxConnections
            <4>2. E \in SUBSET Pooled /\ Cardinality(E) = n
                BY <4>1, FirstInOrderChoice
            <4>3. Cardinality(Pooled \ E) <= max \/ E = Pooled
                <5>1. Cardinality(Pooled \ E) = Cardinality(Pooled) - n
                    BY <4>2, PooledFinite
                <5>2. CASE max < 0
                    BY <4>2, <5>2, PooledFinite, FS_Subset
                <5>3. CASE ~(max < 0)
                    BY <3>1, <5>1, <5>3, PooledFinite
                <5>4. QED
                    BY <5>2, <5>3
            <4>4. QED
                BY <2>6, <4>1, <4>2, <4>3, WithoutStep DEF SetMaxConnections
        <3>3. CASE ~(Cardinality(Pooled) - max > 0)
            <4>1. UNCHANGED <<pool, active, entry, priorities>> /\ maxConnections' = max
                BY <2>6, <3>3 DEF SetMaxConnections
            <4>2. Cardinality(Pooled') <= maxConnections'
                BY <3>1, <3>3, <4>1, PooledFinite DEF Pooled
            <4>3. QED
                BY <4>1, <4>2 DEF PoolInv, Capacity, NoLeak, PriorityCoherent, Pooled
        <3>4. QED
            BY <3>2, <3>3
    <2>7. ASSUME NEW d \in Devices, NEW p \in Priorities, SetConnectionPriority(d, p)
          PROVE  PoolInv'
        <3>1. UNCHANGED <<pool, active, maxConnections>> /\ Pooled' = Pooled
            BY <2>7 DEF SetConnectionPriority, Pooled
        <3>2. Capacity' /\ NoLeak'
            BY <3>1 DEF PoolInv, Capacity, NoLeak
        <3>3. \A c \in Pooled : entry'[c].priority = IF c = d THEN p ELSE entry[c].priority
            BY <2>7 DEF SetConnectionPriority, TypeOK, Entry, Pooled
        <3>4. PriorityCoherent'
            BY <2>7, <3>1, <3>3
            DEF SetConnectionPriority, Prioritised, PoolInv, PriorityCoherent, TypeOK
        <3>5. QED
            BY <3>2, <3>4 DEF PoolInv
    <2>8. CASE Close
        BY <2>8, WithoutStep DEF Close
    <2>9. CASE PerformMaintenance
        <3>1. ToRemove \in SUBSET Pooled
            BY DEF ToRemove
        <3>2. QED
            BY <2>9, <3>1, WithoutStep DEF PerformMaintenance
    <2>10. ASSUME NEW d \in Devices, ConnectionDies(d) PROVE PoolInv'
        BY <2>10, QuietStep DEF ConnectionDies, TypeOK
    <2>11. ASSUME NEW d \in Devices, NEW x \in Expiry, TimePasses(d, x) PROVE PoolInv'
        <3>1. \A c \in Devices : entry'[c].priority = entry[c].priority
            BY <2>11 DEF TimePasses, TypeOK, Entry
        <3>2. QED
            BY <2>11, <3>1, QuietStep DEF TimePasses
    <2>12. CASE UNCHANGED vars
        BY <2>12, QuietStep DEF vars
    <2>13. QED
        BY <2>1, <2>2, <2>4, <2>5, <2>6, <2>7, <2>8, <2>9, <2>10, <2>11, <2>12 DEF Next
<1>3. QED
    BY <1>1, <1>2, PTL DEF Spec

\* The pool never exceeds its limit (Capacity), for any sequence of additions,
\* evictions and changes of the limit.
THEOREM WithinLimit == Spec => []Capacity
<1>1. PoolInv => Capacity
    BY DEF PoolInv
<1>2. QED
    BY <1>1, PoolInvariant, PTL

\* No connection stays open once it has left the pool (NoLeak).
THEOREM NothingLeaks == Spec => []NoLeak
<1>1. PoolInv => NoLeak
    BY DEF PoolInv
<1>2. QED
    BY <1>1, PoolInvariant, PTL

\* Evictions are decided by the priority the application set (PriorityCoherent).
THEOREM PrioritiesAgree == Spec => []PriorityCoherent
<1>1. PoolInv => PriorityCoherent
    BY DEF PoolInv
<1>2. QED
    BY <1>1, PoolInvariant, PTL

\* Making room and shrinking give up the least important connections first
\* (KeepsTheImportant).
THEOREM EvictsTheLeastImportant == Spec => KeepsTheImportant
<1> DEFINE Ordered == \A d \in Pooled \ Pooled',
    e \in Pooled \cap Pooled' : ~LessImportant(e, d)
<1>1. ASSUME TypeOK, NEW d \in Devices, NEW o \in Object, AddConnection(d, o)
      PROVE  Ordered
    <2>1. PICK E \in Evictions : pool' = [PoolWithout(E) EXCEPT ![d] = o]
        BY <1>1 DEF AddConnection
    <2>2. Pooled \ Pooled' \subseteq E
        BY <2>1, WithoutType, PoolAssumption DEF Pooled, PoolWithout, Object
    <2>3. Pooled \cap Pooled' \subseteq Pooled \ E
        <3>1. d \notin Pooled
            BY <1>1 DEF AddConnection, Pooled
        <3>2. QED
            BY <2>1, <3>1, WithoutType DEF Pooled, PoolWithout
    <2>4. E = {} \/ \A a \in E, e \in Pooled \ E : ~LessImportant(e, a)
        BY DEF Evictions, FirstInOrder
    <2>5. QED
        BY <2>2, <2>3, <2>4
<1>2. ASSUME TypeOK, NEW max \in Sizes, SetMaxConnections(max)
      PROVE  Ordered
    <2>1. CASE pool' = pool
        BY <2>1 DEF Pooled
    <2>2. CASE \E n : \E E \in FirstInOrder(n) : pool' = PoolWithout(E)
        <3>1. PICK n : \E E \in FirstInOrder(n) : pool' = PoolWithout(E)
            BY <2>2
        <3>2. PICK E \in FirstInOrder(n) : pool' = PoolWithout(E)
            BY <3>1
        <3>3. Pooled' = Pooled \ E
            BY <3>2, PooledWithout
        <3>4. QED
            BY <3>2, <3>3 DEF FirstInOrder
    <2>3. QED
        BY <1>2, <2>1, <2>2 DEF SetMaxConnections
<1>3. TypeOK /\ [Next]_vars =>
         [(\E d \in Devices, o \in Object : AddConnection(d, o))
          \/ (\E max \in Sizes : SetMaxConnections(max)) => Ordered]_vars
    BY <1>1, <1>2
<1>4. QED
    BY <1>3, TypeCorrect, PTL DEF Spec, KeepsTheImportant

-----------------------------------------------------------------------------
(* Sums over finite sets.                                                   *)

\* Induction over the subsets of a finite set: Good holds those a fact is true of.
LEMMA SubsetInduction ==
    ASSUME NEW S, IsFiniteSet(S), NEW Good \in SUBSET (SUBSET S), {} \in Good,
           \A s \in SUBSET S : s # {} /\ (\A x \in s : s \ {x} \in Good) => s \in Good
    PROVE  \A s \in SUBSET S : s \in Good
<1> DEFINE Bad == (SUBSET S) \ Good
<1>1. SUFFICES ASSUME Bad # {} PROVE FALSE
    OBVIOUS
<1>2. IsWellFoundedOn(StrictSubsetOrdering(S), SUBSET S)
    BY FS_StrictSubsetOrderingWellFounded, FS_FiniteSubsetsOfFinite
<1>3. PICK s \in Bad : \A t \in Bad : <<t, s>> \notin StrictSubsetOrdering(S)
    <2>1. Bad \subseteq SUBSET S
        OBVIOUS
    <2> HIDE DEF Bad
    <2>2. QED
        BY <1>1, <1>2, <2>1, WFMin
<1>4. ASSUME NEW x \in s
      PROVE  s \ {x} \in Good
    <2>1. s \ {x} \in SUBSET S /\ s \in SUBSET S
        BY <1>3
    <2>2. <<s \ {x}, s>> \in (SUBSET S) \X (SUBSET S) /\ s \ {x} \subseteq s /\ s \ {x} # s
        BY <2>1
    <2>3. <<s \ {x}, s>> \in StrictSubsetOrdering(S)
        BY <2>2 DEF StrictSubsetOrdering
    <2>4. s \ {x} \notin Bad
        BY <1>3, <2>3
    <2>5. QED
        BY <2>1, <2>4
<1>5. QED
    BY <1>3, <1>4

\* A set of natural numbers has a least one.
LEMMA LeastNumber ==
    ASSUME NEW T \in SUBSET Nat, T # {}
    PROVE  \E n \in T : \A m \in T : n <= m
<1> DEFINE R == OpToRel(<, Nat)
<1>1. PICK n \in T : \A m \in T : <<m, n>> \notin R
    BY NatLessThanWellFounded, WFMin
<1>2. \A m \in T : ~ (m < n)
    BY <1>1 DEF OpToRel
<1>3. QED
    BY <1>2

\* The element a sum over s takes first.
Any(s) == CHOOSE x \in s : TRUE

\* The sums of w over the subsets of S, as the community modules define them.
AreSums(f, w, S) ==
    f = [s \in SUBSET S |-> IF s = {} THEN 0 ELSE w[Any(s)] + f[s \ {Any(s)}]]

Sums(w, S) == CHOOSE f : AreSums(f, w, S)

Sum(w, S) == Sums(w, S)[S]

\* There are such sums: those of sets of at most n elements make those of sets of
\* one more.
LEMMA SumsExist ==
    ASSUME NEW S, IsFiniteSet(S), NEW w
    PROVE  \E f : AreSums(f, w, S)
<1> DEFINE Small(n) == {s \in SUBSET S : Cardinality(s) <= n}
           From(f, s) == IF s = {} THEN 0 ELSE w[Any(s)] + f[s \ {Any(s)}]
           Goes(n) == \E f : f = [s \in Small(n) |-> From(f, s)]
           Stuck == {n \in Nat : ~Goes(n)}
<1>1. \A s \in SUBSET S : IsFiniteSet(s) /\ Cardinality(s) \in Nat
    BY FS_Subset, FS_CardinalityType
<1>2. \A s \in SUBSET S : s # {} =>
          /\ s \ {Any(s)} \in SUBSET S
          /\ Cardinality(s \ {Any(s)}) = Cardinality(s) - 1
    <2>1. \A s : s # {} => Any(s) \in s
        BY DEF Any
    <2>2. QED
        BY <1>1, <2>1, FS_RemoveElement
<1>3. Goes(0)
    <2> DEFINE f == [s \in Small(0) |-> 0]
    <2>1. \A s \in Small(0) : s = {}
        BY <1>1, FS_EmptySet
    <2>2. f = [s \in Small(0) |-> From(f, s)]
        BY <2>1
    <2>3. QED
        BY <2>2
<1>4. ASSUME NEW n \in Nat, Goes(n)
      PROVE  Goes(n + 1)
    <2>1. PICK f : f = [s \in Small(n) |-> From(f, s)]
        BY <1>4
    <2> DEFINE g == [s \in Small(n + 1) |-> From(f, s)]
    <2>2. \A s \in Small(n) : s \in Small(n + 1) /\ g[s] = f[s]
        <3>1. \A s \in Small(n) : s \in Small(n + 1)
            BY <1>1
        <3>2. \A s \in Small(n) : f[s] = From(f, s)
            BY <2>1
        <3>3. \A s \in Small(n + 1) : g[s] = From(f, s)
            OBVIOUS
        <3>4. QED
            BY <3>1, <3>2, <3>3
    <2>3. \A s \in Small(n + 1) : s # {} => s \ {Any(s)} \in Small(n)
        BY <1>1, <1>2
    <2>4. \A s \in Small(n + 1) : From(g, s) = From(f, s)
        BY <2>2, <2>3
    <2>5. g = [s \in Small(n + 1) |-> From(g, s)]
        BY <2>4
    <2>6. QED
        BY <2>5
<1>5. \A n \in Nat : Goes(n)
    <2>1. SUFFICES ASSUME Stuck # {} PROVE FALSE
        OBVIOUS
    <2>2. Stuck \subseteq Nat
        OBVIOUS
    <2>3. PICK n \in Stuck : \A m \in Stuck : n <= m
        <3> HIDE DEF Stuck
        <3>1. QED
            BY <2>1, <2>2, LeastNumber
    <2>4. n \in Nat /\ ~Goes(n)
        BY <2>3
    <2> HIDE DEF Goes
    <2>5. n # 0
        BY <1>3, <2>4
    <2>6. n - 1 \in Nat /\ ~ (n <= n - 1) /\ (n - 1) + 1 = n
        BY <2>4, <2>5
    <2>7. n - 1 \notin Stuck
        BY <2>3, <2>6
    <2>8. QED
        BY <1>4, <2>4, <2>6, <2>7
<1>6. Small(Cardinality(S)) = SUBSET S
    BY <1>1, FS_Subset
<1>7. PICK f : f = [s \in Small(Cardinality(S)) |-> From(f, s)]
    <2>1. S \in SUBSET S
        OBVIOUS
    <2>2. QED
        BY <1>1, <1>5, <2>1
<1>8. f = [s \in SUBSET S |-> From(f, s)]
    <2> HIDE DEF Small, Next
    <2>1. QED
        BY <1>6, <1>7
<1>9. QED
    BY <1>8 DEF AreSums

\* What the sums are, one element at a time.
LEMMA SumsAre ==
    ASSUME NEW S, IsFiniteSet(S), NEW w
    PROVE  /\ Sums(w, S)[{}] = 0
           /\ \A s \in SUBSET S : s # {} =>
                 Any(s) \in s /\ Sums(w, S)[s] = w[Any(s)] + Sums(w, S)[s \ {Any(s)}]
<1>1. AreSums(Sums(w, S), w, S)
    BY SumsExist DEF Sums
<1>2. \A s : s # {} => Any(s) \in s
    BY DEF Any
<1>3. QED
    BY <1>1, <1>2 DEF AreSums

\* Integers add up to integers.
LEMMA SumsType ==
    ASSUME NEW S, IsFiniteSet(S), NEW w, \A x \in S : w[x] \in Int
    PROVE  \A s \in SUBSET S : Sums(w, S)[s] \in Int
<1> DEFINE F == Sums(w, S)
           Good == {s \in SUBSET S : F[s] \in Int}
<1>1. /\ F[{}] = 0
      /\ \A s \in SUBSET S : s # {} => Any(s) \in s /\ F[s] = w[Any(s)] + F[s \ {Any(s)}]
    BY SumsAre
<1> HIDE DEF F
<1>2. {} \in Good
    BY <1>1
<1>3. ASSUME NEW s \in SUBSET S, s # {}, \A x \in s : s \ {x} \in Good
      PROVE  s \in Good
    <2>1. PICK x \in s : F[s] = w[x] + F[s \ {x}]
        BY <1>1, <1>3
    <2>2. w[x] \in Int /\ F[s \ {x}] \in Int
        BY <1>3
    <2>3. QED
        BY <2>1, <2>2
<1>4. \A s \in SUBSET S : s \in Good
    <2> HIDE DEF Good
    <2>1. Good \in SUBSET (SUBSET S)
        BY DEF Good
    <2>2. QED
        BY <1>2, <1>3, <2>1, SubsetInduction
<1>5. QED
    BY <1>4 DEF F

\* Any element may be taken first.
LEMMA SumsTake ==
    ASSUME NEW S, IsFiniteSet(S), NEW w, \A x \in S : w[x] \in Int
    PROVE  \A s \in SUBSET S : \A x \in s : Sums(w, S)[s] = w[x] + Sums(w, S)[s \ {x}]
<1> DEFINE F == Sums(w, S)
           Good == {s \in SUBSET S : \A x \in s : F[s] = w[x] + F[s \ {x}]}
<1>1. /\ \A s \in SUBSET S : s # {} => Any(s) \in s /\ F[s] = w[Any(s)] + F[s \ {Any(s)}]
      /\ \A s \in SUBSET S : F[s] \in Int
    BY SumsAre, SumsType
<1> HIDE DEF F
<1>2. {} \in Good
    OBVIOUS
<1>3. ASSUME NEW s \in SUBSET S, s # {}, \A x \in s : s \ {x} \in Good
      PROVE  s \in Good
    <2>1. SUFFICES ASSUME NEW x \in s, x # Any(s) PROVE F[s] = w[x] + F[s \ {x}]
        BY <1>1, <1>3
    <2>2. PICK y \in s : y # x /\ F[s] = w[y] + F[s \ {y}]
        BY <1>1, <2>1
    <2>3. /\ F[s \ {y}] = w[x] + F[(s \ {y}) \ {x}]
          /\ F[s \ {x}] = w[y] + F[(s \ {x}) \ {y}]
        BY <1>3, <2>2
    <2>4. (s \ {y}) \ {x} = (s \ {x}) \ {y}
        OBVIOUS
    <2>5. PICK n \in Int : F[(s \ {x}) \ {y}] = n /\ F[(s \ {y}) \ {x}] = n
        BY <1>1, <2>4
    <2>6. w[x] \in Int /\ w[y] \in Int
        BY <2>2
    <2>7. F[s] = w[y] + (w[x] + n) /\ F[s \ {x}] = w[y] + n
        BY <2>2, <2>3, <2>5
    <2>8. QED
        BY <2>6, <2>7
<1>4. \A s \in SUBSET S : s \in Good
    <2> HIDE DEF Good
    <2>1. Good \in SUBSET (SUBSET S)
        BY DEF Good
    <2>2. QED
        BY <1>2, <1>3, <2>1, SubsetInduction
<1>5. QED
    BY <1>4 DEF F

\* A sum depends on the numbers that are added, and on nothing else.
LEMMA SumsAgree ==
    ASSUME NEW S, IsFiniteSet(S), NEW w, NEW T, IsFiniteSet(T), NEW v,
           \A x \in S \cap T : w[x] = v[x]
    PROVE  \A s \in SUBSET (S \cap T) : Sums(w, S)[s] = Sums(v, T)[s]
<1> DEFINE U == S \cap T
           F == Sums(w, S)
           G == Sums(v, T)
           Good == {s \in SUBSET U : F[s] = G[s]}
<1>1. /\ F[{}] = 0 /\ G[{}] = 0
      /\ \A s \in SUBSET U : s # {} =>
            /\ Any(s) \in s
            /\ F[s] = w[Any(s)] + F[s \ {Any(s)}]
            /\ G[s] = v[Any(s)] + G[s \ {Any(s)}]
    BY SumsAre
<1>2. IsFiniteSet(U)
    BY FS_Subset
<1> HIDE DEF F, G
<1>3. {} \in Good
    BY <1>1
<1>4. \A s \in SUBSET U : s # {} /\ (\A x \in s : s \ {x} \in Good) => s \in Good
    BY <1>1
<1>5. \A s \in SUBSET U : s \in Good
    <2> HIDE DEF Good
    <2>1. Good \in SUBSET (SUBSET U)
        BY DEF Good
    <2> HIDE DEF U
    <2>2. QED
        BY <1>2, <1>3, <1>4, <2>1, SubsetInduction
<1>6. QED
    BY <1>5 DEF F, G

\* The sum over a set: it is an integer.
LEMMA SumType ==
    ASSUME NEW S, IsFiniteSet(S), NEW w, \A x \in S : w[x] \in Int
    PROVE  Sum(w, S) \in Int
BY SumsType DEF Sum

\* Nothing adds up to 0.
LEMMA SumEmpty ==
    ASSUME NEW w
    PROVE  Sum(w, {}) = 0
BY SumsAre, FS_EmptySet DEF Sum

\* The same numbers add up to the same sum.
LEMMA SumSame ==
    ASSUME NEW S, IsFiniteSet(S), NEW w, NEW v, \A x \in S : w[x] = v[x]
    PROVE  Sum(w, S) = Sum(v, S)
BY SumsAgree DEF Sum

\* One element more adds its number.
LEMMA SumAdd ==
    ASSUME NEW S, IsFiniteSet(S), NEW x, x \notin S, NEW w, \A y \in S \cup {x} : w[y] \in Int
    PROVE  Sum(w, S \cup {x}) = w[x] + Sum(w, S)
<1> DEFINE T == S \cup {x}
<1>1. IsFiniteSet(T)
    BY FS_AddElement
<1>2. Sums(w, T)[T] = w[x] + Sums(w, T)[T \ {x}]
    BY <1>1, SumsTake
<1>3. T \ {x} = S /\ T \cap S = S
    OBVIOUS
<1>4. Sums(w, T)[S] = Sums(w, S)[S]
    BY <1>1, <1>3, SumsAgree
<1>5. QED
    BY <1>2, <1>3, <1>4 DEF Sum

\* One number of a sum becomes another.
LEMMA SumChange ==
    ASSUME NEW S, IsFiniteSet(S), NEW w, \A y \in S : w[y] \in Int,
           NEW x \in S, NEW v, v[x] \in Int, \A y \in S \ {x} : v[y] = w[y]
    PROVE  Sum(v, S) - v[x] = Sum(w, S) - w[x]
<1> DEFINE R == S \ {x}
<1>1. IsFiniteSet(R) /\ x \notin R /\ S = R \cup {x}
    BY FS_RemoveElement
<1>2. Sum(w, R \cup {x}) = w[x] + Sum(w, R)
    BY <1>1, SumAdd
<1>3. Sum(v, R \cup {x}) = v[x] + Sum(v, R)
    BY <1>1, SumAdd
<1>4. Sum(v, R) = Sum(w, R)
    <2>1. \A y \in R : v[y] = w[y]
        OBVIOUS
    <2> HIDE DEF R
    <2>2. QED
        BY <1>1, <2>1, SumSame
<1>5. Sum(w, R) \in Int /\ w[x] \in Int
    <2>1. \A y \in R : w[y] \in Int
        OBVIOUS
    <2> HIDE DEF R
    <2>2. QED
        BY <1>1, <2>1, SumType
<1>6. Sum(w, S) = w[x] + Sum(w, R) /\ Sum(v, S) = v[x] + Sum(w, R)
    BY <1>1, <1>2, <1>3, <1>4
<1> HIDE DEF R
<1>7. QED
    BY <1>5, <1>6

\* Natural numbers add up to one.
LEMMA SumNat ==
    ASSUME NEW S, IsFiniteSet(S), NEW w, \A x \in S : w[x] \in Nat
    PROVE  Sum(w, S) \in Nat
<1> DEFINE F == Sums(w, S)
           Good == {s \in SUBSET S : F[s] \in Nat}
<1>1. /\ F[{}] = 0
      /\ \A s \in SUBSET S : s # {} => Any(s) \in s /\ F[s] = w[Any(s)] + F[s \ {Any(s)}]
    BY SumsAre
<1> HIDE DEF F
<1>2. {} \in Good
    BY <1>1
<1>3. ASSUME NEW s \in SUBSET S, s # {}, \A x \in s : s \ {x} \in Good
      PROVE  s \in Good
    <2>1. PICK x \in s : F[s] = w[x] + F[s \ {x}]
        BY <1>1, <1>3
    <2>2. w[x] \in Nat /\ F[s \ {x}] \in Nat
        BY <1>3
    <2>3. QED
        BY <2>1, <2>2
<1>4. \A s \in SUBSET S : s \in Good
    <2> HIDE DEF Good
    <2>1. Good \in SUBSET (SUBSET S)
        BY DEF Good
    <2>2. QED
        BY <1>2, <1>3, <2>1, SubsetInduction
<1>5. QED
    BY <1>4 DEF F, Sum

\* Numbers of at most B add up to at most B for each.
LEMMA SumBounds ==
    ASSUME NEW S, IsFiniteSet(S), NEW w, NEW B \in Nat, \A x \in S : w[x] \in 0 .. B
    PROVE  Sum(w, S) \in Nat /\ Sum(w, S) <= Cardinality(S) * B
<1> DEFINE F == Sums(w, S)
           Good == {s \in SUBSET S : F[s] \in Nat /\ F[s] <= Cardinality(s) * B}
<1>1. /\ F[{}] = 0
      /\ \A s \in SUBSET S : s # {} => Any(s) \in s /\ F[s] = w[Any(s)] + F[s \ {Any(s)}]
    BY SumsAre
<1>2. \A s \in SUBSET S : IsFiniteSet(s) /\ Cardinality(s) \in Nat
    BY FS_Subset, FS_CardinalityType
<1> HIDE DEF F
<1>3. {} \in Good
    BY <1>1, FS_EmptySet
<1>4. ASSUME NEW s \in SUBSET S, s # {}, \A x \in s : s \ {x} \in Good
      PROVE  s \in Good
    <2>1. PICK x \in s : F[s] = w[x] + F[s \ {x}]
        BY <1>1, <1>4
    <2>2. PICK n \in Nat : Cardinality(s \ {x}) = n /\ Cardinality(s) = n + 1
        BY <1>2, <2>1, FS_RemoveElement
    <2>3. F[s \ {x}] \in Nat /\ F[s \ {x}] <= n * B /\ w[x] \in 0 .. B
        BY <1>4, <2>2
    <2>4. n * B \in Nat /\ (n + 1) * B = n * B + B
        BY <2>2
    <2>5. F[s] \in Nat /\ F[s] <= (n + 1) * B
        BY <2>1, <2>3, <2>4
    <2>6. QED
        BY <2>2, <2>5
<1>5. \A s \in SUBSET S : s \in Good
    <2> HIDE DEF Good
    <2>1. Good \in SUBSET (SUBSET S)
        BY DEF Good
    <2>2. QED
        BY <1>3, <1>4, <2>1, SubsetInduction
<1>6. QED
    BY <1>5 DEF F, Sum

-----------------------------------------------------------------------------
(* LoadBalancer.                                                            *)

\* Weights and scores that were set are of use, and the last answer is good.
BalancerInv ==
    /\ strategy \in Balancer!Strategies
    /\ DOMAIN weights \subseteq BalancedDevices
    /\ \A d \in DOMAIN weights : weights[d] \in Nat \ {0}
    /\ DOMAIN health \subseteq BalancedDevices
    /\ \A d \in DOMAIN health : health[d] \in 0 .. Balancer!Full
    /\ Balancer!SomebodyIsChosen

\* The model's total weight is the sum the lemmas above are about.
LEMMA TotalWeightIsSum ==
    ASSUME NEW A
    PROVE  Balancer!totalWeight(A) = Sum([d \in A |-> Balancer!getConnectionWeight(d)], A)
BY DEF Balancer!totalWeight, Balancer!MapThenSumSet, Balancer!MapThenFoldSet, Sum, Sums,
       AreSums, Any

\* The number drawn is drawn from a range that is not empty.
LEMMA WeightedChooses ==
    ASSUME BalancerInv, NEW A \in SUBSET BalancedDevices, A # {}
    PROVE  Balancer!Weighted(A) \subseteq A
<1> DEFINE w == [d \in A |-> Balancer!getConnectionWeight(d)]
<1>1. \A d \in A : w[d] \in Nat
    BY DEF BalancerInv, Balancer!getConnectionWeight
<1>2. IsFiniteSet(BalancedDevices)
    BY BalancerAssumed DEF Balancer!BalancerAssumption, Balancer!IsFiniteSet, IsFiniteSet
<1>3. IsFiniteSet(A)
    BY <1>2, FS_Subset
<1>4. Sum(w, A) \in Nat
    <2> HIDE DEF w
    <2>1. QED
        BY <1>1, <1>3, SumNat
<1>5. Balancer!totalWeight(A) \in Nat
    BY <1>4, TotalWeightIsSum
<1>6. QED
    BY <1>5 DEF Balancer!Weighted

\* There is a best score, and it is above the one the search begins with.
LEMMA HealthBasedChooses ==
    ASSUME BalancerInv, NEW A \in SUBSET BalancedDevices, A # {}
    PROVE  Balancer!HealthBased(A) \subseteq A
<1> DEFINE Scored == {Balancer!Full - Balancer!healthScore(d) : d \in A}
<1>1. \A d \in A : Balancer!healthScore(d) \in 0 .. Balancer!Full
    BY DEF BalancerInv, Balancer!healthScore, Balancer!Full
<1>2. Scored \subseteq Nat /\ Scored # {}
    BY <1>1 DEF Balancer!Full
<1>3. PICK n \in Scored : \A m \in Scored : n <= m
    <2> HIDE DEF Scored
    <2>1. QED
        BY <1>2, LeastNumber
<1>4. PICK d \in A : n = Balancer!Full - Balancer!healthScore(d)
    BY <1>3
<1>5. \A e \in A : Balancer!healthScore(d) >= Balancer!healthScore(e)
    <2>1. SUFFICES ASSUME NEW e \in A
                   PROVE  Balancer!healthScore(d) >= Balancer!healthScore(e)
        OBVIOUS
    <2>2. Balancer!Full - Balancer!healthScore(e) \in Scored
        OBVIOUS
    <2>3. Balancer!Full - Balancer!healthScore(d) <= Balancer!Full - Balancer!healthScore(e)
        BY <1>3, <1>4, <2>2
    <2>4. QED
        BY <1>1, <2>3 DEF Balancer!Full
<1>6. Balancer!healthScore(d) > -Balancer!Full
    <2>1. \A m \in 0 .. 10 : m > -10
        OBVIOUS
    <2>2. QED
        BY <1>1, <1>4, <2>1 DEF Balancer!Full
<1>7. QED
    BY <1>5, <1>6 DEF Balancer!HealthBased

\* Every step keeps the weights and scores of use and the answer good.
LEMMA BalancerStep ==
    ASSUME BalancerInv, [Balancer!Next]_(Balancer!vars)
    PROVE  BalancerInv'
<1>1. ASSUME NEW A \in SUBSET BalancedDevices, Balancer!Select(A)
      PROVE  BalancerInv'
    <2>1. A # {} /\ UNCHANGED <<weights, health>>
        BY <1>1 DEF Balancer!Select
    <2>2. PICK i \in Balancer!Strategies : strategy' = i
        BY <1>1 DEF Balancer!Select, Balancer!evaluateStrategies, Balancer!Tried,
                    Balancer!Strategies, BalancerInv
    <2>3. \E c \in Balancer!Candidates(i, A) : answer' = [among |-> A, choice |-> c]
        BY <1>1, <2>2 DEF Balancer!Select
    <2>4. Balancer!Candidates(i, A) \subseteq A
        BY <2>1, <2>2, WeightedChooses, HealthBasedChooses
        DEF Balancer!Candidates, Balancer!Strategies, Balancer!RoundRobin,
            Balancer!LeastUsed
    <2>5. answer'.choice \in answer'.among
        BY <2>3, <2>4
    <2>6. QED
        BY <2>1, <2>2, <2>5 DEF BalancerInv, Balancer!SomebodyIsChosen
<1>2. ASSUME NEW d \in BalancedDevices, NEW w \in Weights, Balancer!UpdateWeight(d, w)
      PROVE  BalancerInv'
    <2>1. w \in Int /\ UNCHANGED <<strategy, health, answer>>
        BY <1>2, BalancerAssumed DEF Balancer!UpdateWeight, Balancer!BalancerAssumption
    <2>2. CASE w <= 0
        <3>1. weights' = [e \in DOMAIN weights \ {d} |-> weights[e]]
            BY <1>2, <2>2 DEF Balancer!UpdateWeight
        <3>2. QED
            BY <2>1, <3>1 DEF BalancerInv, Balancer!SomebodyIsChosen
    <2>3. CASE w > 0
        <3>1. weights' = [e \in DOMAIN weights \cup {d} |-> IF e = d THEN w ELSE weights[e]]
            BY <1>2, <2>1, <2>3 DEF Balancer!UpdateWeight, Balancer!With
        <3>2. w \in Nat \ {0}
            BY <2>1, <2>3
        <3>3. QED
            BY <2>1, <3>1, <3>2 DEF BalancerInv, Balancer!SomebodyIsChosen
    <2>4. QED
        BY <2>1, <2>2, <2>3
<1>3. ASSUME NEW d \in BalancedDevices, NEW s \in Scores, Balancer!UpdateHealthScore(d, s)
      PROVE  BalancerInv'
    <2> DEFINE v == IF s < 0 THEN 0 ELSE IF s > Balancer!Full THEN Balancer!Full ELSE s
    <2>1. s \in Int /\ UNCHANGED <<strategy, weights, answer>>
        BY <1>3, BalancerAssumed DEF Balancer!UpdateHealthScore, Balancer!BalancerAssumption
    <2>2. v \in 0 .. Balancer!Full
        BY <2>1 DEF Balancer!Full
    <2>3. health' = [e \in DOMAIN health \cup {d} |-> IF e = d THEN v ELSE health[e]]
        BY <1>3 DEF Balancer!UpdateHealthScore, Balancer!With
    <2> HIDE DEF v
    <2>4. QED
        BY <2>1, <2>2, <2>3 DEF BalancerInv, Balancer!SomebodyIsChosen
<1>4. ASSUME UNCHANGED <<strategy, weights, health, answer>>
      PROVE  BalancerInv'
    BY <1>4 DEF BalancerInv, Balancer!SomebodyIsChosen
<1>5. QED
    BY <1>1, <1>2, <1>3, <1>4
    DEF Balancer!Next, Balancer!Replace, Balancer!RecordMetrics, Balancer!vars

\* LoadBalancer: as long as there is a connection to choose, one is chosen, whatever
\* weights and scores were set and whichever strategy is asked
\* (connection_pool.go:271).
THEOREM AlwaysChooses == Balancer!Spec => []SomebodyIsChosen
<1>1. Balancer!Init => BalancerInv
    BY DEF Balancer!Init, BalancerInv, Balancer!SomebodyIsChosen, Balancer!Strategies
<1>2. BalancerInv /\ [Balancer!Next]_(Balancer!vars) => BalancerInv'
    BY BalancerStep
<1>3. QED
    BY <1>1, <1>2, PTL DEF Balancer!Spec, BalancerInv, SomebodyIsChosen

-----------------------------------------------------------------------------
(* PerformanceCollector.                                                    *)

\* What the connections in the pool have transferred.
Transferred == Sum(bytes, live)

Recording(l) == loop[l].at = "recording"

Reading == [total : 0 .. Modulus - 1, moved : Nat, steady : BOOLEAN]

LoopStates ==
    [at : {"none", "waiting", "recording", "ended"}, ctx : Nat, read : Reading]

CollectorTypes ==
    /\ live \subseteq WatchedDevices
    /\ bytes \in [WatchedDevices -> 0 .. MaxBytes]
    /\ \A d \in WatchedDevices \ live : bytes[d] = 0
    /\ started \in Nat
    /\ loop \in [Loops -> LoopStates]
    /\ \A l \in Loops : l > started => loop[l].at = "none"
    /\ total \in 0 .. Modulus - 1
    /\ moved \in Nat
    /\ steady \in BOOLEAN
    /\ misled \in BOOLEAN

\* Nobody else records what a steady reading is of, and it is the last total and
\* what was transferred since.
SteadyReadings ==
    \A l \in Loops : Recording(l) /\ loop[l].read.steady =>
        /\ Collector!Alone(l)
        /\ loop[l].read.total = total + loop[l].read.moved

\* What has been transferred since the last reading comes on top of it.
SteadyTotals ==
    steady =>
        /\ (\A l \in Loops : ~Recording(l)) => Transferred = total + moved
        /\ \A l \in Loops : Recording(l) /\ Collector!Alone(l) =>
               Transferred = loop[l].read.total + moved

CollectorInv == CollectorTypes /\ SteadyReadings /\ SteadyTotals /\ ~misled

\* One loop moves, the others stay where they are.
LEMMA LoopMoves ==
    ASSUME NEW f \in [Loops -> LoopStates], NEW l \in Loops, NEW v \in LoopStates,
           NEW g, g = [f EXCEPT ![l] = v]
    PROVE  /\ g \in [Loops -> LoopStates] /\ g[l] = v
           /\ \A k \in Loops \ {l} : g[k] = f[k]
OBVIOUS

\* What is assumed of the constants, in terms of this module.
LEMMA WatchedAreFinite ==
    /\ IsFiniteSet(WatchedDevices) /\ MaxBytes \in Nat /\ Modulus \in Nat
    /\ Cardinality(WatchedDevices) * MaxBytes < Modulus
    /\ Loops \subseteq Nat \ {0}
<1>1. \A S : Collector!Cardinality(S) = Cardinality(S)
    BY DEF Collector!Cardinality, Cardinality
<1>2. \A S : Collector!IsFiniteSet(S) <=> IsFiniteSet(S)
    BY DEF Collector!IsFiniteSet, IsFiniteSet
<1>3. Cardinality(Loops) \in Nat
    BY <1>2, CollectorAssumed, FS_CardinalityType DEF Collector!CollectorAssumption
<1>4. QED
    BY <1>1, <1>2, <1>3, CollectorAssumed DEF Collector!CollectorAssumption

\* The counters of the connections do not come round in their sum.
LEMMA TotalIsTransferred ==
    ASSUME CollectorTypes
    PROVE  Transferred \in 0 .. Modulus - 1 /\ Collector!totalBytes = Transferred
<1>1. Collector!totalBytes = Transferred % Modulus
    BY DEF Collector!totalBytes, Collector!MapThenSumSet, Collector!MapThenFoldSet,
           Transferred, Sum, Sums, AreSums, Any
<1>2. /\ IsFiniteSet(live) /\ Cardinality(live) \in Nat
      /\ Cardinality(WatchedDevices) \in Nat
      /\ Cardinality(live) <= Cardinality(WatchedDevices)
    BY WatchedAreFinite, FS_Subset, FS_CardinalityType DEF CollectorTypes
<1>3. \A d \in live : bytes[d] \in 0 .. MaxBytes
    BY DEF CollectorTypes
<1>4. Transferred \in Nat /\ Transferred <= Cardinality(live) * MaxBytes
    BY <1>2, <1>3, WatchedAreFinite, SumBounds DEF Transferred
<1>5. Cardinality(live) * MaxBytes <= Cardinality(WatchedDevices) * MaxBytes
    <2>1. \A m, n, b \in Nat : m <= n => m * b <= n * b
        OBVIOUS
    <2>2. QED
        BY <1>2, <2>1, WatchedAreFinite
<1>6. Transferred < Modulus
    <2>1. PICK a \in Nat, b \in Nat : /\ a = Cardinality(live) * MaxBytes
                                     /\ b = Cardinality(WatchedDevices) * MaxBytes
        BY <1>2, WatchedAreFinite
    <2>2. QED
        BY <1>4, <1>5, <2>1, WatchedAreFinite
<1>7. QED
    BY <1>1, <1>4, <1>6, WatchedAreFinite

\* Before the first connection nothing was transferred.
LEMMA CollectorInit == Collector!Init => CollectorInv
<1>1. SUFFICES ASSUME Collector!Init PROVE CollectorInv
    OBVIOUS
<1>2. CollectorTypes
    <2>1. 0 \in 0 .. MaxBytes /\ 0 \in 0 .. Modulus - 1
        <3>1. Cardinality(WatchedDevices) \in Nat
            BY WatchedAreFinite, FS_CardinalityType
        <3>2. Cardinality(WatchedDevices) * MaxBytes \in Nat
            BY <3>1, WatchedAreFinite
        <3>3. QED
            BY <3>2, WatchedAreFinite
    <2>2. Collector!Nothing \in Reading
        BY <2>1 DEF Collector!Nothing, Reading
    <2>3. QED
        <3>1. [at |-> "none", ctx |-> 0, read |-> Collector!Nothing] \in LoopStates
            BY <2>2 DEF LoopStates
        <3>2. loop \in [Loops -> LoopStates]
            BY <1>1, <3>1 DEF Collector!Init
        <3>3. \A l \in Loops : loop[l].at = "none"
            BY <1>1 DEF Collector!Init
        <3>4. QED
            BY <1>1, <2>1, <3>2, <3>3 DEF Collector!Init, CollectorTypes
<1>3. Transferred = 0
    BY <1>1, SumEmpty DEF Transferred, Collector!Init
<1>4. QED
    BY <1>1, <1>2, <1>3
    DEF Collector!Init, CollectorInv, SteadyReadings, SteadyTotals, Recording

\* A device has no counter before it connects.
LEMMA ConnectsKeeps ==
    ASSUME CollectorInv, NEW d \in WatchedDevices, Collector!Connects(d)
    PROVE  CollectorInv'
<1>1. CollectorTypes'
    BY DEF Collector!Connects, Collector!figures, CollectorInv, CollectorTypes
<1>2. Transferred' = Transferred
    <2>1. IsFiniteSet(live) /\ bytes[d] = 0 /\ d \notin live /\ live' = live \cup {d}
        BY WatchedAreFinite, FS_Subset DEF CollectorInv, CollectorTypes, Collector!Connects
    <2>2. \A y \in live \cup {d} : bytes[y] \in Int
        BY WatchedAreFinite DEF CollectorInv, CollectorTypes
    <2>3. Sum(bytes, live \cup {d}) = bytes[d] + Sum(bytes, live)
        BY <2>1, <2>2, SumAdd
    <2>4. Sum(bytes, live) \in Int
        BY <2>1, <2>2, SumType
    <2>5. QED
        BY <2>1, <2>3, <2>4 DEF Transferred, Collector!Connects
<1>3. QED
    BY <1>1, <1>2
    DEF Collector!Connects, Collector!figures, Collector!Alone, Recording,
        CollectorInv, SteadyReadings, SteadyTotals

\* What is transferred since the last reading is in the sum and in moved.
LEMMA TransfersKeeps ==
    ASSUME CollectorInv, NEW d \in WatchedDevices, Collector!Transfers(d)
    PROVE  CollectorInv'
<1>1. /\ d \in live /\ bytes' = [bytes EXCEPT ![d] = bytes[d] + 1]
      /\ bytes[d] < MaxBytes /\ moved' = moved + 1
      /\ UNCHANGED <<live, started, loop, total, steady, misled>>
    BY DEF Collector!Transfers, Collector!figures
<1>2. CollectorTypes'
    BY <1>1, WatchedAreFinite DEF CollectorInv, CollectorTypes
<1>3. Transferred' = Transferred + 1
    <2>1. IsFiniteSet(live) /\ \A y \in live : bytes[y] \in Int
        BY WatchedAreFinite, FS_Subset DEF CollectorInv, CollectorTypes
    <2>2. PICK after : after = bytes'
        OBVIOUS
    <2>3. after[d] = bytes[d] + 1 /\ \A y \in live \ {d} : after[y] = bytes[y]
        BY <1>1, <2>2 DEF CollectorInv, CollectorTypes
    <2>4. after[d] \in Int
        BY <1>1, <2>1, <2>3
    <2>5. Sum(after, live) - after[d] = Sum(bytes, live) - bytes[d]
        BY <1>1, <2>1, <2>3, <2>4, SumChange
    <2>6. Sum(bytes, live) \in Int /\ Sum(after, live) \in Int
        <3>1. \A y \in live : after[y] \in Int
            BY <2>1, <2>3, <2>4
        <3>2. QED
            BY <2>1, <3>1, SumType
    <2>7. Sum(after, live) = Sum(bytes, live) + 1
        BY <1>1, <2>1, <2>3, <2>5, <2>6
    <2>8. QED
        BY <1>1, <2>2, <2>7 DEF Transferred
<1>4. QED
    <2>1. /\ \A n \in Int : Transferred = n + moved => Transferred' = n + moved'
          /\ total \in Int /\ \A l \in Loops : loop[l].read.total \in Int
        BY <1>1, <1>3, TotalIsTransferred
        DEF CollectorInv, CollectorTypes, LoopStates, Reading
    <2>2. SteadyReadings'
        BY <1>1 DEF Collector!Alone, Recording, CollectorInv, SteadyReadings
    <2>3. SteadyTotals'
        BY <1>1, <2>1 DEF Collector!Alone, Recording, CollectorInv, SteadyTotals
    <2>4. QED
        BY <1>1, <1>2, <2>2, <2>3 DEF CollectorInv

\* One that was counted leaves: the readings are steady no longer.
LEMMA LeavesKeeps ==
    ASSUME CollectorInv, NEW d \in WatchedDevices, Collector!Leaves(d)
    PROVE  CollectorInv'
<1>1. /\ d \in live /\ live' = live \ {d} /\ bytes' = [bytes EXCEPT ![d] = 0]
      /\ steady' = (steady /\ bytes[d] = 0)
      /\ UNCHANGED <<started, loop, total, moved, misled>>
    BY DEF Collector!Leaves, Collector!figures
<1>2. CollectorTypes'
    BY <1>1, WatchedAreFinite DEF CollectorInv, CollectorTypes
<1>3. ASSUME steady'
      PROVE  Transferred' = Transferred /\ steady
    <2> DEFINE rest == live \ {d}
    <2>1. steady /\ bytes[d] = 0 /\ bytes' = bytes
        BY <1>1, <1>3 DEF CollectorInv, CollectorTypes
    <2>2. IsFiniteSet(live) /\ \A y \in live : bytes[y] \in Int
        BY WatchedAreFinite, FS_Subset DEF CollectorInv, CollectorTypes
    <2>3. IsFiniteSet(rest) /\ d \notin rest /\ live = rest \cup {d}
        BY <1>1, <2>2, FS_Subset
    <2>4. /\ Sum(bytes, rest \cup {d}) = bytes[d] + Sum(bytes, rest)
          /\ Sum(bytes, rest) \in Int
        <3> HIDE DEF rest
        <3>1. QED
            BY <2>2, <2>3, SumAdd, SumType
    <2>5. Sum(bytes, live) = Sum(bytes, rest)
        BY <2>1, <2>3, <2>4
    <2>6. QED
        BY <1>1, <2>1, <2>5 DEF Transferred
<1>4. SteadyReadings'
    BY <1>1 DEF Collector!Alone, Recording, CollectorInv, SteadyReadings
<1>5. SteadyTotals'
    BY <1>1, <1>3 DEF Collector!Alone, Recording, CollectorInv, SteadyTotals
<1>6. QED
    BY <1>1, <1>2, <1>4, <1>5 DEF CollectorInv

\* The loop that starts was not there before.
LEMMA StartsKeeps ==
    ASSUME CollectorInv, NEW l \in Loops, Collector!StartCollection(l)
    PROVE  CollectorInv'
<1>1. /\ l = started + 1 /\ started' = l
      /\ loop' = [loop EXCEPT ![l] = [loop[l] EXCEPT !.at = "waiting", !.ctx = l]]
      /\ UNCHANGED <<live, bytes, total, moved, steady, misled>>
    BY DEF Collector!StartCollection, Collector!pool, Collector!figures
<1>2. /\ l \in Nat /\ loop[l] \in LoopStates /\ loop[l].at = "none"
      /\ loop \in [Loops -> LoopStates]
    BY <1>1, WatchedAreFinite DEF CollectorInv, CollectorTypes
<1>3. /\ loop' \in [Loops -> LoopStates]
      /\ loop'[l].at = "waiting"
      /\ \A k \in Loops \ {l} : loop'[k] = loop[k]
    <2>1. [loop[l] EXCEPT !.at = "waiting", !.ctx = l] \in LoopStates
        BY <1>2 DEF LoopStates
    <2>2. [loop[l] EXCEPT !.at = "waiting", !.ctx = l].at = "waiting"
        BY <1>2 DEF LoopStates
    <2>3. QED
        BY <1>1, <1>2, <2>1, <2>2, LoopMoves
<1>4. CollectorTypes'
    BY <1>1, <1>2, <1>3, WatchedAreFinite DEF CollectorInv, CollectorTypes
<1>5. /\ \A k \in Loops : (loop'[k].at = "recording") <=> (loop[k].at = "recording")
      /\ \A k \in Loops : loop[k].at = "recording" => loop'[k] = loop[k]
    BY <1>2, <1>3
<1>6. Transferred' = Transferred
    BY <1>1 DEF Transferred
<1>7. QED
    BY <1>1, <1>4, <1>5, <1>6
    DEF Collector!Alone, Recording, CollectorInv, SteadyReadings, SteadyTotals

\* A loop that ends was not recording.
LEMMA EndsKeeps ==
    ASSUME CollectorInv, NEW l \in Loops, Collector!LoopEnds(l)
    PROVE  CollectorInv'
<1>1. /\ loop[l].at = "waiting" /\ loop' = [loop EXCEPT ![l] = [loop[l] EXCEPT !.at = "ended"]]
      /\ UNCHANGED <<live, bytes, started, total, moved, steady, misled>>
    BY DEF Collector!LoopEnds, Collector!pool, Collector!figures
<1>2. /\ loop' \in [Loops -> LoopStates]
      /\ loop'[l].at = "ended"
      /\ \A k \in Loops \ {l} : loop'[k] = loop[k]
    <2>1. loop[l] \in LoopStates /\ loop \in [Loops -> LoopStates]
        BY DEF CollectorInv, CollectorTypes
    <2>2. [loop[l] EXCEPT !.at = "ended"] \in LoopStates
        BY <2>1 DEF LoopStates
    <2>3. [loop[l] EXCEPT !.at = "ended"].at = "ended"
        BY <2>1 DEF LoopStates
    <2>4. QED
        BY <1>1, <2>1, <2>2, <2>3, LoopMoves
<1>3. CollectorTypes'
    BY <1>1, <1>2 DEF CollectorInv, CollectorTypes
<1>4. /\ \A k \in Loops : (loop'[k].at = "recording") <=> (loop[k].at = "recording")
      /\ \A k \in Loops : loop[k].at = "recording" => loop'[k] = loop[k]
    BY <1>1, <1>2
<1>5. Transferred' = Transferred
    BY <1>1 DEF Transferred
<1>6. QED
    BY <1>1, <1>3, <1>4, <1>5
    DEF Collector!Alone, Recording, CollectorInv, SteadyReadings, SteadyTotals

\* What a reading that is alone finds is the last total and what came since.
LEMMA ReadingKeeps ==
    ASSUME CollectorInv, NEW l \in Loops, Collector!collectCurrentMetrics(l)
    PROVE  CollectorInv'
<1> DEFINE read == [total |-> Transferred, moved |-> moved,
                    steady |-> steady /\ Collector!Alone(l)]
<1>1. Transferred \in 0 .. Modulus - 1 /\ Collector!totalBytes = Transferred
    BY TotalIsTransferred DEF CollectorInv
<1>2. /\ loop[l].at = "waiting" /\ moved' = 0 /\ steady' = TRUE
      /\ loop' = [k \in Loops |->
            IF k # l THEN [loop[k] EXCEPT !.read.steady = FALSE]
            ELSE [loop[l] EXCEPT !.at = "recording", !.read = read]]
      /\ UNCHANGED <<live, bytes, started, total, misled>>
    BY <1>1 DEF Collector!collectCurrentMetrics, Collector!pool, Collector!figures
<1>3. read \in Reading
    <2>1. (steady /\ Collector!Alone(l)) \in BOOLEAN
        OBVIOUS
    <2>2. moved \in Nat
        BY DEF CollectorInv, CollectorTypes
    <2> HIDE DEF Transferred
    <2>3. QED
        BY <1>1, <2>1, <2>2 DEF Reading
<1> HIDE DEF read
<1>4. \A k \in Loops : loop[k] \in LoopStates
    BY DEF CollectorInv, CollectorTypes
<1>5. loop'[l].at = "recording" /\ loop'[l].read = read
    <2>1. loop'[l] = [loop[l] EXCEPT !.at = "recording", !.read = read]
        BY <1>2
    <2>2. loop[l] \in LoopStates
        BY <1>4
    <2>3. QED
        BY <2>1, <2>2 DEF LoopStates
<1>6. ASSUME NEW k \in Loops, k # l
      PROVE  loop'[k].at = loop[k].at /\ loop'[k].read.steady = FALSE
    <2>1. loop'[k] = [loop[k] EXCEPT !.read.steady = FALSE]
        BY <1>2, <1>6
    <2>2. loop[k].read \in Reading
        BY <1>4 DEF LoopStates
    <2>3. QED
        BY <1>4, <2>1, <2>2 DEF Reading, LoopStates
<1>7. loop' \in [Loops -> LoopStates]
    <2>1. ASSUME NEW k \in Loops
          PROVE  [loop[k] EXCEPT !.read.steady = FALSE] \in LoopStates
        <3>1. loop[k].read \in Reading
            BY <1>4 DEF LoopStates
        <3>2. [loop[k].read EXCEPT !.steady = FALSE] \in Reading
            BY <3>1 DEF Reading
        <3>3. QED
            BY <1>4, <3>2 DEF LoopStates
    <2>2. [loop[l] EXCEPT !.at = "recording", !.read = read]
              \in LoopStates
        BY <1>3, <1>4 DEF LoopStates
    <2>3. ASSUME NEW k \in Loops
          PROVE  (IF k # l THEN [loop[k] EXCEPT !.read.steady = FALSE]
                  ELSE [loop[l] EXCEPT !.at = "recording", !.read = read]) \in LoopStates
        BY <2>1, <2>2
    <2>4. QED
        BY <1>2, <2>3
<1>8. CollectorTypes'
    <2>1. \A k \in Loops : k > started' => loop'[k].at = "none"
        BY <1>2, <1>6 DEF CollectorInv, CollectorTypes
    <2>2. QED
        BY <1>2, <1>7, <2>1 DEF CollectorInv, CollectorTypes
<1>9. Transferred' = Transferred
    BY <1>2 DEF Transferred
<1>10. ASSUME read.steady
       PROVE  Collector!Alone(l)' /\ read.total = total + read.moved
    <2>1. steady /\ Collector!Alone(l) /\ read.total = Transferred /\ read.moved = moved
        BY <1>10 DEF read
    <2>2. \A k \in Loops : loop[k].at # "recording"
        BY <1>2, <2>1 DEF Collector!Alone
    <2>3. Transferred = total + moved
        BY <2>1, <2>2 DEF CollectorInv, SteadyTotals, Recording
    <2>4. QED
        BY <1>6, <2>1, <2>2, <2>3 DEF Collector!Alone
<1>11. SteadyReadings'
    BY <1>2, <1>5, <1>6, <1>10 DEF SteadyReadings, Recording
<1>12. SteadyTotals'
    <2>1. ASSUME NEW k \in Loops, Recording(k)', Collector!Alone(k)'
          PROVE  k = l
        BY <1>5, <2>1 DEF Collector!Alone
    <2>2. read.total = Transferred /\ Transferred + 0 = Transferred
        BY <1>1 DEF read
    <2>3. QED
        BY <1>2, <1>5, <1>9, <2>1, <2>2 DEF SteadyTotals, Recording
<1>13. QED
    BY <1>2, <1>8, <1>11, <1>12 DEF CollectorInv

\* A steady reading is not below the total it is recorded over.
LEMMA RecordKeeps ==
    ASSUME CollectorInv, NEW l \in Loops, Collector!Record(l)
    PROVE  CollectorInv'
<1> DEFINE read == loop[l].read
<1>1. /\ loop[l].at = "recording" /\ total' = read.total
      /\ misled' = (misled \/ (read.steady /\ (read.total - total) % Modulus # read.moved))
      /\ loop' = [loop EXCEPT ![l] = [at |-> "waiting", ctx |-> started,
                                      read |-> Collector!Nothing]]
      /\ steady' = (steady /\ Collector!Alone(l))
      /\ UNCHANGED <<live, bytes, started, moved>>
    BY DEF Collector!Record, Collector!pool, Collector!bytesDelta, Collector!TotalBytes
<1>2. loop[l] \in LoopStates /\ read \in Reading
    BY DEF CollectorInv, CollectorTypes, LoopStates
<1>3. 0 \in 0 .. Modulus - 1 /\ Collector!Nothing \in Reading
    BY WatchedAreFinite DEF CollectorInv, CollectorTypes, Collector!Nothing, Reading
<1>4. /\ loop' \in [Loops -> LoopStates]
      /\ loop'[l].at = "waiting"
      /\ \A k \in Loops \ {l} : loop'[k] = loop[k]
    <2>1. [at |-> "waiting", ctx |-> started, read |-> Collector!Nothing] \in LoopStates
        BY <1>3 DEF CollectorInv, CollectorTypes, LoopStates
    <2>2. loop \in [Loops -> LoopStates]
        BY DEF CollectorInv, CollectorTypes
    <2>3. QED
        BY <1>1, <2>1, <2>2, LoopMoves
<1>5. ~misled'
    <2>1. read.total \in 0 .. Modulus - 1 /\ read.moved \in Nat /\ total \in 0 .. Modulus - 1
        BY <1>2 DEF Reading, CollectorInv, CollectorTypes
    <2>2. ASSUME read.steady
          PROVE  (read.total - total) % Modulus = read.moved
        <3>1. read.total = total + read.moved
            BY <1>1, <2>2 DEF CollectorInv, SteadyReadings, Recording
        <3>2. PICK n \in Nat, m \in Nat : n = read.total - total /\ n = read.moved /\ m = Modulus
            BY <2>1, <3>1, WatchedAreFinite
        <3>3. n < m
            BY <2>1, <3>2
        <3>4. n % m = n
            BY <3>2, <3>3
        <3>5. QED
            BY <3>2, <3>4
    <2>3. QED
        BY <1>1, <2>2 DEF CollectorInv
<1>6. CollectorTypes'
    <2>1. started' \in Nat /\ total' \in 0 .. Modulus - 1 /\ steady' \in BOOLEAN
        BY <1>1, <1>2 DEF Reading, CollectorInv, CollectorTypes
    <2>2. l \in Nat /\ ~ (l > started)
        BY <1>1, WatchedAreFinite DEF CollectorInv, CollectorTypes
    <2>3. \A k \in Loops : k > started' => loop'[k].at = "none"
        BY <1>1, <1>4, <2>2 DEF CollectorInv, CollectorTypes
    <2>4. misled' \in BOOLEAN
        BY <1>1 DEF CollectorInv, CollectorTypes
    <2>5. QED
        BY <1>1, <1>4, <2>1, <2>3, <2>4 DEF CollectorInv, CollectorTypes
<1>7. Transferred' = Transferred
    BY <1>1 DEF Transferred
<1>8. SteadyReadings'
    <2>1. ASSUME NEW k \in Loops, loop'[k].at = "recording", loop'[k].read.steady
          PROVE  FALSE
        <3>1. k # l /\ loop[k].at = "recording" /\ loop[k].read.steady
            BY <1>4, <2>1
        <3>2. Collector!Alone(k)
            BY <3>1 DEF CollectorInv, SteadyReadings, Recording
        <3>3. QED
            BY <1>1, <3>1, <3>2 DEF Collector!Alone
    <2>2. QED
        BY <2>1 DEF SteadyReadings, Recording
<1>9. SteadyTotals'
    <2>1. ASSUME steady'
          PROVE  /\ Transferred = total' + moved
                 /\ \A k \in Loops : loop'[k].at # "recording"
        <3>1. steady /\ Collector!Alone(l)
            BY <1>1, <2>1
        <3>2. Transferred = read.total + moved
            BY <1>1, <3>1 DEF CollectorInv, SteadyTotals, Recording
        <3>3. QED
            BY <1>1, <1>4, <3>1, <3>2 DEF Collector!Alone
    <2>2. QED
        BY <1>1, <1>7, <2>1 DEF SteadyTotals, Recording
<1>10. QED
    BY <1>5, <1>6, <1>8, <1>9 DEF CollectorInv

\* PerformanceCollector: the increment is what the connections have transferred since
\* the reading before, however readings, starts and stops interleave, unless one
\* that was counted has left or two loops overlapped (performance_collector.go:365).
THEOREM IncrementsAreTraffic == Collector!Spec => []IncrementIsTraffic
<1>1. Collector!Init => CollectorInv
    BY CollectorInit
<1>2. CollectorInv /\ [Collector!Next]_(Collector!vars) => CollectorInv'
    <2>1. SUFFICES ASSUME CollectorInv, [Collector!Next]_(Collector!vars)
                   PROVE  CollectorInv'
        OBVIOUS
    <2>2. ASSUME UNCHANGED <<live, bytes, started, loop, total, moved, steady, misled>>
          PROVE  CollectorInv'
        BY <2>1, <2>2 DEF CollectorInv, CollectorTypes, SteadyReadings, SteadyTotals,
                          Transferred, Recording, Collector!Alone
    <2>3. CASE \/ Collector!StopCollection \/ Collector!ContextEnds
               \/ UNCHANGED Collector!vars
        BY <2>2, <2>3 DEF Collector!StopCollection, Collector!ContextEnds, Collector!vars,
                          Collector!pool, Collector!figures
    <2>4. QED
        BY <2>1, <2>3, ConnectsKeeps, TransfersKeeps, LeavesKeeps, StartsKeeps, EndsKeeps,
           ReadingKeeps, RecordKeeps DEF Collector!Next
<1>3. CollectorInv => Collector!IncrementIsTraffic
    BY DEF CollectorInv, Collector!IncrementIsTraffic
<1>4. QED
    BY <1>1, <1>2, <1>3, PTL DEF Collector!Spec, IncrementIsTraffic
=============================================================================
