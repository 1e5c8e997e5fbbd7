SPECIFICATION FairSpec
CONSTANTS
    Server = server
    Main = main
    Producers = {server, main}
    Processing = proc
    MaxPush = 2
INVARIANTS TypeOK NoLostWakeup StopsSoon
PROPERTIES ImplementsStreams ShutdownEnds
\* After shutdown() has returned everything may stop.
CHECK_DEADLOCK FALSE
