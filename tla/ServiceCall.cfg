SPECIFICATION FairSpec
CONSTANTS
    c1 = c1
    c2 = c2
    s1 = s1
    s2 = s2
    k1 = k1
    k2 = k2
    k3 = k3
    t1 = t1
    t2 = t2
    NoClient = NoClient
    Handlers = {c1, c2}
    Services = {s1, s2}
    Calls = {k1, k2, k3}
    HandlerOf <- MCHandlerOf
    ServiceOf <- MCServiceOf
    Types = {t1, t2}
    TypeOf <- MCTypeOf
    ServiceType <- MCServiceType
    Servers <- MCServers
    MaxOutages = 1
INVARIANTS TypeOK FirstResponseCounts AnsweredOnce NothingLeaks NoMeansNotSent NoneForgotten
PROPERTIES SentIsAnswered TellsTheSender NeverStuck KeepsContract
\* After the last call nothing happens.
CHECK_DEADLOCK FALSE
