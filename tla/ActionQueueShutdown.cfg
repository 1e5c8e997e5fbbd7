SPECIFICATION FairSpec
CONSTANTS
    Server = server
    Main = main
    Producers = {server, main}
    Processing = proc
    MaxPush = 1
PROPERTIES ShutdownReturns
CHECK_DEADLOCK FALSE
