\* Two devices for a cache that has room for one; one device, two sessions of
\* either service started within one second.
CONSTANTS
    d1 = d1
    d2 = d2
    CacheDevices = {d1, d2}
    MaxDevices = 1
    PairedAge = 2
    s1 = s1
    s2 = s2
    i1 = i1
    None = None
    Devices = {d1}
    Sessions = {s1, s2}
    Ids = {i1}
    Methods = {"pin", "passkey"}
    AutoAccept = FALSE
    MaxActive <- MCMaxActive
SPECIFICATION MCSpec
INVARIANTS
    ListedIsLive
    ConnectedIsCached
PROPERTIES
    SessionsEnd
    GrowsOnlyIfProtected
CHECK_DEADLOCK FALSE
