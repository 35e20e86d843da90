\* One device, which connects and is connected to.
CONSTANTS
    d1 = d1
    c1 = c1
    s1 = s1
    s2 = s2
    l1 = l1
    l2 = l2
    t1 = t1
    None = None
    Devices = {d1}
    Incoming <- MCIncoming
    Conns = {c1}
    Scans = {s1, s2}
    Listeners = {l1, l2}
    Timers = {t1}
    ChanSize = 1
SPECIFICATION FairSpec
INVARIANTS
    NeverClosesTwice
PROPERTIES
    ShutdownEnds
CHECK_DEADLOCK FALSE
