------------------------------ MODULE PoolParts ------------------------------
(* What works on the pool's connections: LoadBalancer, which chooses among  *)
(* them, and PerformanceCollector, which watches them.  They share no       *)
(* variable.                                                                *)
CONSTANTS
    BalancedDevices, Weights, Scores, MaxRecords, MaxUses, Nobody,  \* LoadBalancer
    WatchedDevices, MaxBytes, Modulus, MaxSamples, Loops      \* PerformanceCollector

VARIABLES
    uses, position, weights, health, strategy, metrics, answer,
    live, bytes, collecting, started, cancelled, loop, total, moved, steady, misled

balancerVars  == <<uses, position, weights, health, strategy, metrics, answer>>
collectorVars ==
    <<live, bytes, collecting, started, cancelled, loop, total, moved, steady, misled>>

Balancer == INSTANCE LoadBalancer WITH Devices <- BalancedDevices

Collector == INSTANCE PerformanceCollector WITH Devices <- WatchedDevices

ASSUME BalancerAssumed == Balancer!BalancerAssumption
ASSUME CollectorAssumed == Collector!CollectorAssumption

\* LoadBalancer: as long as there is a connection to choose, one is chosen
\* (connection_pool.go:271).
SomebodyIsChosen == Balancer!SomebodyIsChosen

\* PerformanceCollector: the increment is what was transferred since the reading
\* before (performance_collector.go:365).
IncrementIsTraffic == Collector!IncrementIsTraffic
=============================================================================
