\* One device, one connection.
CONSTANTS
    d1 = d1
    Devices = {d1}
    Slots = 1
    MaxConnections = 1
    InboxCap = 1
    ReuseAfterStop = FALSE
SPECIFICATION FairSpec
PROPERTIES
    StopReturns
\* A hung Stop blocks everything else: run server_stop.
CHECK_DEADLOCK FALSE
