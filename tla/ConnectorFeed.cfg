SPECIFICATION FairSpec
CONSTANTS
    h1 = h1
    h2 = h2
    h3 = h3
    a1 = a1
    a2 = a2
    a3 = a3
    q1 = q1
    q2 = q2
    Subscribers = {h1, h2, h3}
    Advertisers = {a1, a2, a3}
    Params = {q1, q2}
    ParamsOf <- MCParamsOf
    Throttled = {}
    Rate = 0
    Overlap = FALSE
    Latched = FALSE
    MaxSent = 2
    MaxTime = 0
INVARIANTS SharedByParams
PROPERTIES FeedsEverySubscriber
\* The bounds stop every thread in the end.
CHECK_DEADLOCK FALSE
