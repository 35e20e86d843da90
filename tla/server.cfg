\* Two devices compete for one place, and each may come back before its old monitor
\* ends; of everything the parts beside the server serve there are one or two.
CONSTANTS
    d1 = d1
    d2 = d2
    c1 = c1
    c2 = c2
    k1 = k1
    k2 = k2
    l1 = l1
    l2 = l2
    s1 = s1
    s2 = s2
    i1 = i1
    i2 = i2
    Devices = {d1, d2}
    Slots = 2
    MaxConnections = 1
    InboxCap = 1
    ReuseAfterStop = FALSE
    CallsParts = TRUE
    CtxEnds = TRUE
    Components = {c1, c2}
    DependsOn <- MCDependsOn
    Instances <- MCInstances
    Starters = {s1, s2}
    Nobody = Nobody
    Checked = {c1}
    Loops = {l1, l2}
    KeyedDevices = {d1}
    Callers = {s1, s2}
    Keys <- MCKeys
    MaxUsage = 2
    StoreDevices = {c1, c2}
    StoreKeys = {k1, k2}
    Missing = Missing
    Unknown = Unknown
    Subscribers = {s1, s2}
    SubscriberIds = {i1, i2}
    Pairs <- MCPairs
    MaxVersion = 1
    Buffer = 1
SPECIFICATION MCSpec
INVARIANTS
    ListedIsWatched
    NeverPanics
    StopStopsEverything
    StatusAgrees
    FlipsAreReportedOnce
    KeysAgree
    AckedIsDurable
    NotifierNeverPanics
\* A hung Stop blocks everything else: run server_stop.
CHECK_DEADLOCK FALSE
