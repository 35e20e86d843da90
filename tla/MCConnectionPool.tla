--------------------------- MODULE MCConnectionPool ---------------------------
(* The instance of ConnectionPool for TLC, and those of LoadBalancer and of *)
(* PerformanceCollector.  A behaviour is one of a single module, which is   *)
(* chosen in the initial state.                                             *)
EXTENDS ConnectionPool, PoolParts, TLC, SequencesExt

CONSTANTS d1, d2, d3

VARIABLE part  \* the module that moves

\* Two priorities are enough to order connections of equal and unequal rank.
MCPriorities == {1, 2}
MCSizes      == {0, 1, 2}

\* Weights and scores of every kind the two setters tell apart.
MCWeights == {-1, 2}
MCScores  == {-5, 15}
MCLoops   == 1 .. 2

\* The figures worked out from samples, for every sequence of up to five.
ASSUME \A s \in BoundedSeq(1 .. 3, 5) :
    Collector!WindowIsLatest(s) /\ (s # <<>> => Collector!PercentilesInOrder(s))
ASSUME \A s \in BoundedSeq({-100, -90, -70, -50}, 5) : 
    Collector!TrendFollows(s) /\ (s # <<>> => Collector!SignalInOrder(s))

MCInit ==
    /\ part \in {"pool", "balancer", "collector"}
    /\ Init /\ Balancer!Init /\ Collector!Init
    \* What the pool may begin with does not matter to the others.
    /\ part # "pool" => maxConnections = 0

MCNext ==
    \/ part = "pool" /\ Next /\ UNCHANGED <<part, balancerVars, collectorVars>>
    \/ part = "balancer" /\ Balancer!Next /\ UNCHANGED <<part, vars, collectorVars>>
    \/ part = "collector" /\ Collector!Next /\ UNCHANGED <<part, vars, balancerVars>>

MCSpec ==
    /\ MCInit /\ [][MCNext]_<<part, vars, balancerVars, collectorVars>>
    /\ WF_vars(PerformMaintenance)
=============================================================================
