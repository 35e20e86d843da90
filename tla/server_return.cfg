\* One device, three connection objects, and room to come back while its dead
\* connection is still in the map; sessions of one device.
CONSTANTS
    d1 = d1
    s1 = s1
    s2 = s2
    Devices = {d1}
    Slots = 3
    MaxConnections = 2
    InboxCap = 1
    ReuseAfterStop = FALSE
    Sessions = {s1, s2}
    DeviceOf <- MCDeviceOf
    MaxSessions = 1
    MaxServed = 1
    RequireAuth = TRUE
    None = None
SPECIFICATION MCSpec
INVARIANTS
    LiveIsListed
    EndIsReported
    ListedIsServed
PROPERTIES
    NoSwapOfLiveConnection
    DeadIsUnlisted
    UnservableLeaves
\* A hung Stop blocks everything else: run server_stop.
CHECK_DEADLOCK FALSE
