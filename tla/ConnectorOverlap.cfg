SPECIFICATION Spec
CONSTANTS
    h1 = h1
    h2 = h2
    h3 = h3
    a1 = a1
    a2 = a2
    a3 = a3
    q1 = q1
    q2 = q2
    Subscribers = {h1, h2, h3}
    Advertisers = {}
    Params = {q1, q2}
    ParamsOf <- MCParamsOf
    Throttled = {q2}
    Rate = 1
    Overlap = TRUE
    Latched = TRUE
    MaxSent = 2
    MaxTime = 3
INVARIANTS TypeOK SharedByParams NoneTwice
\* The bounds stop every thread in the end.
CHECK_DEADLOCK FALSE
