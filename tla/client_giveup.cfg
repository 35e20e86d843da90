\* The default retry limit of three.
CONSTANTS
    d1 = d1
    d2 = d2
    Devices = {d1}
    Slots = 2
    RetryAttempts = 3
    AttemptCap = 4
    InboxCap = 1
    MayRefuse = TRUE
    AutoReconnect = TRUE
    ReuseAfterStop = FALSE
SPECIFICATION Spec
PROPERTY GivingUpIsFinal
