SPECIFICATION FairSpec
CONSTANTS
    n1 = n1
    n2 = n2
    n3 = n3
    e1 = e1
    e2 = e2
    e3 = e3
    e4 = e4
    e5 = e5
    t1 = t1
    t2 = t2
    x1 = x1
    x2 = x2
    Malformed = Malformed
    Unknown = Unknown
    Unreadable = Unreadable
    Missing = Missing
    None = None
    Nodes = {n1, n2, n3}
    Endpoints = {e1, e2, e3, e4, e5}
    Names = {t1, t2}
    Types = {x1, x2}
    Unsupported = {x2}
    KindOf <- MCKindOf
    NodeOf <- MCNodeOf
    NameOf <- MCNameOf
    TypeOf <- MCTypeOf
    Joined <- MCJoined
    MaxChanges = 2
INVARIANTS TypeOK ListsWhatWas ListsWhatStays
PROPERTIES AlwaysAnswers
\* A request without its argument can end the program.
CHECK_DEADLOCK FALSE
