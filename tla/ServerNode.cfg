SPECIFICATION FairSpec
CONSTANTS
    Conns = {c1}
    Watchdog = TRUE
    MaxMsgs = 2
    MaxEvents = 1
    MaxQueue = 2
INVARIANTS TypeOK NullOnlyOnDrop TableFollowsNetwork
PROPERTIES KeepsSessions SilentIsDropped CompletesSessions
\* Once every client has left nothing happens, and nothing does after a crash.
CHECK_DEADLOCK FALSE
