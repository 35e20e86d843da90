---------------------------- MODULE LoadBalancer ----------------------------
(***************************************************************************)
(* The strategies that choose among the pool's active connections          *)
(* (pkg/bluetooth/load_balancer.go), and the adaptive one that asks the    *)
(* strategy with the best record.                                          *)
(*                                                                         *)
(* The list to choose from comes out of a map, in another order at every   *)
(* call: a position in it, or the first of several that are equally good,  *)
(* may be any.  Scores count in tenths.  Latencies are left out but for    *)
(* the tenth by which they can favour a strategy.                          *)
(***************************************************************************)
EXTENDS Integers, FiniteSets, FiniteSetsExt

CONSTANTS
    Devices,
    Weights,     \* arguments of UpdateWeight
    Scores,      \* arguments of UpdateHealthScore, in tenths
    MaxRecords,  \* bound: requests recorded
    MaxUses,     \* bound: the use counters saturate here
    Nobody       \* no connection

BalancerAssumption ==
    /\ IsFiniteSet(Devices)
    /\ Weights \subseteq Int /\ Scores \subseteq Int
    /\ MaxRecords \in Nat /\ MaxUses \in Nat
    /\ Nobody \notin Devices

VARIABLES
    uses,      \* useCount of the device's pooled connection
    position,  \* RoundRobinBalancer.current
    weights,   \* WeightedBalancer.weights
    health,    \* HealthBasedBalancer.healthScores
    strategy,  \* AdaptiveBalancer.currentStrategy
    metrics,   \* its performanceMetrics
    answer     \* the last call: the connections it could choose from, its choice

vars == <<uses, position, weights, health, strategy, metrics, answer>>

Strategies == 0 .. 3  \* round robin, weighted, least used, health based
Full == 10
Panic == "panic"

TypeOK ==
    /\ uses \in [Devices -> 0 .. MaxUses]
    /\ position \in 0 .. Cardinality(Devices)
    /\ DOMAIN weights \subseteq Devices /\ weights \in [DOMAIN weights -> Nat]
    /\ DOMAIN health \subseteq Devices /\ health \in [DOMAIN health -> 0 .. Full]
    /\ strategy \in Strategies
    /\ metrics \in [Strategies -> [total : 0 .. MaxRecords, success : 0 .. MaxRecords]]
    /\ answer.among \subseteq Devices /\ answer.choice \in Devices \cup {Nobody, Panic}

Init ==
    /\ uses = [d \in Devices |-> 0]
    /\ position = 0
    /\ weights = <<>> /\ health = <<>>
    /\ strategy = 0
    /\ metrics = [i \in Strategies |-> [total |-> 0, success |-> 0]]
    /\ answer = [among |-> {}, choice |-> Nobody]

With(f, d, v) == [e \in DOMAIN f \cup {d} |-> IF e = d THEN v ELSE f[e]]

-----------------------------------------------------------------------------
(* What each strategy may choose from the non-empty set A.                 *)

RoundRobin(A) == A

\* A pooled connection's own weight is 1.
getConnectionWeight(d) == IF d \in DOMAIN weights THEN weights[d] ELSE 1

totalWeight(A) == MapThenSumSet(getConnectionWeight, A)

\* The number drawn is below the sum, which must not be negative; a connection
\* without weight is never reached.
Weighted(A) ==
    IF totalWeight(A) = 0 THEN A
    ELSE IF totalWeight(A) < 0 THEN {Panic}
    ELSE {d \in A : getConnectionWeight(d) > 0}

LeastUsed(A) == {d \in A : \A e \in A : uses[d] <= uses[e]}

healthScore(d) == IF d \in DOMAIN health THEN health[d] ELSE Full

\* The best score, if it is above the -1 the search begins with.
HealthBased(A) ==
    LET best == {d \in A : healthScore(d) > -Full /\ \A e \in A : healthScore(d) >= healthScore(e)}
    IN  IF best = {} THEN {Nobody} ELSE best

Candidates(i, A) ==
    CASE i = 0 -> RoundRobin(A)
      [] i = 1 -> Weighted(A)
      [] i = 2 -> LeastUsed(A)
      [] i = 3 -> HealthBased(A)

-----------------------------------------------------------------------------
Tried == {i \in Strategies : metrics[i].total > 0}

\* May the score of i be above that of j?  It is twice the share of success,
\* less one, and up to a tenth for short latencies.
MayBeat(i, j) ==
    20 * metrics[i].success * metrics[j].total + metrics[i].total * metrics[j].total
        > 20 * metrics[j].success * metrics[i].total

\* The score of a strategy that was never tried is 0/0, which is above nothing;
\* any other is above the -1 the search begins with.
evaluateStrategies ==
    LET best == {i \in Tried : \A j \in Tried : MayBeat(i, j)}
    IN  IF best = {} THEN {0} ELSE best

\* The pool asks for one of its active connections A and counts the use, and
\* the time since the last evaluation may be long enough for another.
Select(A) ==
    /\ A # {}
    /\ strategy' \in {strategy} \cup evaluateStrategies
    /\ position' = IF strategy' # 0 THEN position
                   ELSE 1 + (IF position >= Cardinality(A) THEN 0 ELSE position)
    /\ \E c \in Candidates(strategy', A) :
          /\ answer' = [among |-> A, choice |-> c]
          /\ uses' = IF c \in A /\ uses[c] < MaxUses THEN [uses EXCEPT ![c] = @ + 1] ELSE uses
    /\ UNCHANGED <<weights, health, metrics>>

\* The pool replaces the device's connection.
Replace(d) ==
    /\ uses' = [uses EXCEPT ![d] = 0]
    /\ UNCHANGED <<position, weights, health, strategy, metrics, answer>>

\* Mutation: a weight of no use is kept like any other.
KeepsAnyWeight(d, w) ==
    /\ weights' = With(weights, d, w)
    /\ UNCHANGED <<uses, position, health, strategy, metrics, answer>>

UpdateWeight(d, w) ==
    /\ weights' = IF w <= 0 THEN [e \in DOMAIN weights \ {d} |-> weights[e]]
                  ELSE With(weights, d, w)
    /\ UNCHANGED <<uses, position, health, strategy, metrics, answer>>

UpdateHealthScore(d, s) ==
    /\ health' = With(health, d, IF s < 0 THEN 0 ELSE IF s > Full THEN Full ELSE s)
    /\ UNCHANGED <<uses, position, weights, strategy, metrics, answer>>

RecordMetrics(i, success) ==
    /\ MapThenSumSet(LAMBDA j : metrics[j].total, Strategies) < MaxRecords
    /\ metrics' = [metrics EXCEPT ![i].total = @ + 1, ![i].success = IF success THEN @ + 1 ELSE @]
    /\ UNCHANGED <<uses, position, weights, health, strategy, answer>>

Next ==
    \/ \E A \in SUBSET Devices : Select(A)
    \/ \E d \in Devices :
         \/ Replace(d)
         \/ \E w \in Weights : UpdateWeight(d, w)
         \/ \E s \in Scores : UpdateHealthScore(d, s)
    \/ \E i \in Strategies, success \in BOOLEAN : RecordMetrics(i, success)

Spec == Init /\ [][Next]_vars

-----------------------------------------------------------------------------
\* As long as there is a connection to choose, one is chosen: whatever weights
\* and scores were set and whichever strategy has come to be asked, the answer
\* is one of the connections offered, and no draw panics (load_balancer.go:54,
\* 97, 197, 290; connection_pool.go:271).
SomebodyIsChosen == answer.among # {} => answer.choice \in answer.among
=============================================================================
