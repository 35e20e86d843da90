\* Three devices compete for at most two places; two are balanced and watched.
CONSTANTS
    d1 = d1
    d2 = d2
    d3 = d3
    Devices = {d1, d2, d3}
    Objects = 2
    Priorities <- MCPriorities
    DefaultPriority = 1
    Sizes <- MCSizes
    UseCap = 1
    BalancedDevices = {d1, d2}
    Weights <- MCWeights
    Scores <- MCScores
    MaxRecords = 2
    MaxUses = 1
    Nobody = Nobody
    WatchedDevices = {d1, d2}
    MaxBytes = 1
    Modulus = 4
    MaxSamples = 3
    Loops <- MCLoops
SPECIFICATION MCSpec
INVARIANTS
    Capacity
    NoLeak
    SomebodyIsChosen
    IncrementIsTraffic
PROPERTIES
    KeepsTheImportant
    DeadLeavesPool
