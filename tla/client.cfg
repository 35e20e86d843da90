\* One device, three connection objects, the default retry limit.
CONSTANTS
    d1 = d1
    d2 = d2
    Devices = {d1}
    Slots = 3
    RetryAttempts = 3
    AttemptCap = 4
    InboxCap = 1
    MayRefuse = TRUE
    AutoReconnect = TRUE
    ReuseAfterStop = FALSE
SPECIFICATION FairSpec
INVARIANTS
    ListedIsWatched
    StoppedIsQuiescent
    NeverPanics
PROPERTIES
    NoSwapOfLiveConnection
    StopReturns
    DeadIsUnlisted
