\* One peer, and the smallest queue that can be full and empty; two critical
\* messages that keep coming, a low one, and the code's weights; frames of
\* one message, and two files of one name.
CONSTANTS
    d1 = d1
    m1 = m1
    c1 = c1
    w1 = w1
    None = None
    Msgs = {m1}
    Incoming = {w1}
    Devices = {d1}
    Conns = {c1}
    ReceiverOf <- MCReceiverOf
    MaxRetries = 3
    QueueSize = 2
    MaxDeliveries = 2
    k1 = k1
    k2 = k2
    low = low
    t1 = t1
    t2 = t2
    f1 = f1
    Queued = {k1, k2, low}
    PriorityOf <- MCPriorityOf
    Weight <- MCWeight
    Workers = {w1}
    HandlerSize = 4
    Empty = Empty
    Framed = {m1}
    Garbled = Garbled
    LengthOf <- MCLengthOf
    MTUs = {23, 60}
    InTransit = 2
    Transfers = {t1, t2}
    Name <- MCName
    Size <- MCSize
    ChunkSizes = {1, 2}
    Nothing = Nothing
    Torn = Torn
SPECIFICATION MCSpec
INVARIANTS
    TransmissionsBounded
    AtMostOneLateSend
    QueuedOnce
    DecodedWasEncoded
PROPERTIES
    PendingResolves
    NoPriorityStarves
    StopReturns
    SavesWholeFiles
CHECK_DEADLOCK FALSE
