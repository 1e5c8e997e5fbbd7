SPECIFICATION Spec
CONSTANTS
    Conns = {c1}
    Watchdog = TRUE
    MaxMsgs = 0
    MaxEvents = 0
    MaxQueue = 1
INVARIANTS NoNullDereference
CHECK_DEADLOCK FALSE
