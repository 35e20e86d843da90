\* One device that comes back early.
CONSTANTS
    d1 = d1
    Devices = {d1}
    Slots = 2
    MaxConnections = 1
    InboxCap = 1
    ReuseAfterStop = FALSE
SPECIFICATION FairSpec
INVARIANTS
    LiveWithinLimit
\* A hung Stop blocks everything else: run server_stop.
CHECK_DEADLOCK FALSE
