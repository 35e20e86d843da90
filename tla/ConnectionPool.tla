--------------------------- MODULE ConnectionPool ---------------------------
(***************************************************************************)
(* The connection pool (pkg/bluetooth/connection_pool.go): at most         *)
(* maxConnections pooled connections, one per device.  A full pool makes   *)
(* room by evicting its least important connection; a background monitor   *)
(* removes connections that are dead, idle too long or too old.            *)
(*                                                                         *)
(* Every operation holds p.mu from the first read to the last write and is *)
(* one step.  GetConnection lets go of it before it counts the use; what   *)
(* it then writes, the wrapper of a connection that may have left the pool *)
(* meanwhile, is read by nobody, so it is one step too.                    *)
(***************************************************************************)
EXTENDS Integers, FiniteSets

CONSTANTS
    Devices,          \* device identifiers
    Objects,          \* bound: connection objects alive per device
    Priorities,       \* the Priority values in use
    DefaultPriority,  \* PriorityNormal
    Sizes,            \* sizes the pool is created with or set to
    UseCap            \* bound: the use counter saturates here

ASSUME PoolAssumption ==
    /\ IsFiniteSet(Devices)
    /\ Objects \in Nat \ {0}
    /\ Priorities \subseteq Int
    /\ DefaultPriority \in Priorities
    /\ Sizes \subseteq Int
    /\ UseCap \in Nat

VARIABLES
    pool,            \* the connection map: an object of the device, 0 for none
    active,          \* which connection objects are active
    entry,           \* the pool's own data on each pooled connection
    priorities,      \* the priority set for a device, where one has been set
    maxConnections,  \* the current limit
    monitoring       \* does the maintenance goroutine run?

vars == <<pool, active, entry, priorities, maxConnections, monitoring>>

Object == 1 .. Objects
Expiry == {"idle", "lifetime"}
Entry  == [priority : Priorities, uses : 0 .. UseCap, expired : SUBSET Expiry]

NoEntry == [priority |-> DefaultPriority, uses |-> 0, expired |-> {}]

TypeOK ==
    /\ pool \in [Devices -> 0 .. Objects]
    /\ active \in [Devices -> [Object -> BOOLEAN]]
    /\ entry \in [Devices -> Entry]
    /\ DOMAIN priorities \subseteq Devices
    /\ priorities \in [DOMAIN priorities -> Priorities]
    /\ maxConnections \in Sizes
    /\ monitoring \in BOOLEAN

-----------------------------------------------------------------------------
Pooled == {d \in Devices : pool[d] # 0}

Dead(d) == ~active[d][pool[d]]

\* The order of makeRoomForNewConnection.  Every health score is 1.0: nothing
\* in the program assigns another, so priority and use count decide.
LessImportant(d, e) ==
    \/ entry[d].priority < entry[e].priority
    \/ entry[d].priority = entry[e].priority /\ entry[d].uses < entry[e].uses

\* Mutation: the sort puts the most important connections in front.
LastInOrder(n) ==
    {E \in SUBSET Pooled :
        /\ Cardinality(E) = n
        /\ \A d \in E, e \in Pooled \ E : ~LessImportant(d, e)}

\* Sets of n pooled devices the sort may put in front.
FirstInOrder(n) ==
    {E \in SUBSET Pooled :
        /\ Cardinality(E) = n
        /\ \A d \in E, e \in Pooled \ E : ~LessImportant(e, d)}

\* Mutation: the connections taken out are not closed.
ActiveAsBefore(E) == active

\* What stays in the pool and of the connection objects once those of the
\* devices in E are closed and taken out.
PoolWithout(E)   == [d \in Devices |-> IF d \in E THEN 0 ELSE pool[d]]
EntryWithout(E)  == [d \in Devices |-> IF d \in E THEN NoEntry ELSE entry[d]]
ActiveWithout(E) == [d \in Devices |-> [o \in Object |->
                        active[d][o] /\ ~(d \in E /\ pool[d] = o)]]

-----------------------------------------------------------------------------
\* Mutation: room is made only once the limit has been passed.
EvictionsTooLate ==
    IF Cardinality(Pooled) <= maxConnections THEN {{}} ELSE FirstInOrder(1)

\* The connections AddConnection evicts: none while there is room, otherwise
\* the first one in the order.  An empty pool of size 0 has none to give.
Evictions == IF Cardinality(Pooled) < maxConnections THEN {{}} ELSE FirstInOrder(1)

PriorityOf(d) == IF d \in DOMAIN priorities THEN priorities[d] ELSE DefaultPriority

AddConnection(d, o) ==
    /\ pool[d] = 0
    /\ ~active[d][o]
    /\ \E E \in Evictions :
          /\ pool' = [PoolWithout(E) EXCEPT ![d] = o]
          /\ active' = [ActiveWithout(E) EXCEPT ![d][o] = TRUE]
          /\ entry' = [EntryWithout(E) EXCEPT
                          ![d] = [NoEntry EXCEPT !.priority = PriorityOf(d)]]
    /\ UNCHANGED <<priorities, maxConnections, monitoring>>

RemoveConnection(d) ==
    /\ d \in Pooled
    /\ pool' = PoolWithout({d})
    /\ active' = ActiveWithout({d})
    /\ entry' = EntryWithout({d})
    /\ UNCHANGED <<priorities, maxConnections, monitoring>>

\* A use is counted and the idle time starts again.
Used(e) == [e EXCEPT !.uses = IF @ < UseCap THEN @ + 1 ELSE @,
                     !.expired = @ \ {"idle"}]

GetConnection(d) ==
    /\ d \in Pooled
    /\ entry' = [entry EXCEPT ![d] = Used(@)]
    /\ UNCHANGED <<pool, active, priorities, maxConnections, monitoring>>

\* Some active connection: the balancer walks a list in random map order.
SelectConnectionByStrategy ==
    /\ \E d \in Pooled :
          /\ ~Dead(d)
          /\ entry' = [entry EXCEPT ![d] = Used(@)]
    /\ UNCHANGED <<pool, active, priorities, maxConnections, monitoring>>

SetMaxConnections(max) ==
    /\ maxConnections' = max
    /\ LET excess == Cardinality(Pooled) - max
       IN  IF excess > 0
           THEN \E E \in FirstInOrder(IF max < 0 THEN Cardinality(Pooled) ELSE excess) :
                   /\ pool' = PoolWithout(E)
                   /\ active' = ActiveWithout(E)
                   /\ entry' = EntryWithout(E)
           ELSE UNCHANGED <<pool, active, entry>>
    /\ UNCHANGED <<priorities, monitoring>>

Prioritised(d, p) ==
    [e \in DOMAIN priorities \cup {d} |-> IF e = d THEN p ELSE priorities[e]]

SetConnectionPriority(d, p) ==
    /\ priorities' = Prioritised(d, p)
    /\ entry' = IF d \in Pooled THEN [entry EXCEPT ![d].priority = p] ELSE entry
    /\ UNCHANGED <<pool, active, maxConnections, monitoring>>

Close ==
    /\ pool' = PoolWithout(Pooled)
    /\ active' = ActiveWithout(Pooled)
    /\ entry' = EntryWithout(Pooled)
    /\ monitoring' = FALSE
    /\ UNCHANGED <<priorities, maxConnections>>

\* Mutation: only the two time limits are looked at.
ExpiredOnly == {d \in Pooled : entry[d].expired # {}}

ToRemove == {d \in Pooled : entry[d].expired # {} \/ Dead(d)}

PerformMaintenance ==
    /\ monitoring
    /\ ToRemove # {}
    /\ pool' = PoolWithout(ToRemove)
    /\ active' = ActiveWithout(ToRemove)
    /\ entry' = EntryWithout(ToRemove)
    /\ UNCHANGED <<priorities, maxConnections, monitoring>>

-----------------------------------------------------------------------------
(* The environment: a pooled connection dies, time passes.                 *)

ConnectionDies(d) ==
    /\ d \in Pooled
    /\ ~Dead(d)
    /\ active' = [active EXCEPT ![d][pool[d]] = FALSE]
    /\ UNCHANGED <<pool, entry, priorities, maxConnections, monitoring>>

TimePasses(d, x) ==
    /\ d \in Pooled
    /\ x \notin entry[d].expired
    /\ entry' = [entry EXCEPT ![d].expired = @ \cup {x}]
    /\ UNCHANGED <<pool, active, priorities, maxConnections, monitoring>>

-----------------------------------------------------------------------------
Init ==
    /\ pool = [d \in Devices |-> 0]
    /\ active = [d \in Devices |-> [o \in Object |-> FALSE]]
    /\ entry = [d \in Devices |-> NoEntry]
    /\ priorities = [d \in {} |-> DefaultPriority]
    /\ maxConnections \in Sizes
    /\ monitoring = TRUE

Next ==
    \/ \E d \in Devices, o \in Object : AddConnection(d, o)
    \/ \E d \in Devices : RemoveConnection(d) \/ GetConnection(d)
    \/ SelectConnectionByStrategy
    \/ \E max \in Sizes : SetMaxConnections(max)
    \/ \E d \in Devices, p \in Priorities : SetConnectionPriority(d, p)
    \/ Close
    \/ PerformMaintenance
    \/ \E d \in Devices : ConnectionDies(d)
    \/ \E d \in Devices, x \in Expiry : TimePasses(d, x)

Spec == Init /\ [][Next]_vars

\* The ticker of the maintenance goroutine keeps firing until Close.
FairSpec == Spec /\ WF_vars(PerformMaintenance)

-----------------------------------------------------------------------------
\* The pool never holds more connections than its limit, also after the limit
\* has been lowered (AddConnection, SetMaxConnections).
Capacity == Pooled # {} => Cardinality(Pooled) <= maxConnections

\* A connection the pool has taken over is closed when it leaves the pool: none
\* stays open that nobody can reach through the pool any more.
NoLeak == \A d \in Devices, o \in Object : active[d][o] => pool[d] = o

\* The priority a pooled connection is evicted by is the one set for its device,
\* whether it was set before or after the connection came in, and the default
\* while none has been set.
PriorityCoherent ==
    \A d \in Pooled :
        IF d \in DOMAIN priorities
        THEN entry[d].priority = priorities[d]
        ELSE entry[d].priority = DefaultPriority

\* To make room or to shrink, the pool gives up no connection that is more
\* important than one it keeps.
KeepsTheImportant ==
    [][(\E d \in Devices, o \in Object : AddConnection(d, o))
       \/ (\E max \in Sizes : SetMaxConnections(max))
       => \A d \in Pooled \ Pooled', e \in Pooled \cap Pooled' : ~LessImportant(e, d)]_vars

\* A dead connection leaves a pool that is not closed.
DeadLeavesPool ==
    \A d \in Devices :
        (d \in Pooled /\ Dead(d)) ~> (d \notin Pooled \/ ~Dead(d) \/ ~monitoring)

=============================================================================
