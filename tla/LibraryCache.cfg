SPECIFICATION FairSpec
CONSTANTS
    Threads = {executor, processing}
    Types = {t1, t2, t3}
    Broken = {t3}
    MaxCalls = 2
    NoLibrary = NoLibrary
INVARIANTS TypeOK GivesTheLibrary LoadsBounded
PROPERTIES CallsEnd
\* Each thread asks MaxCalls times.
CHECK_DEADLOCK FALSE
