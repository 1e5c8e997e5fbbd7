SPECIFICATION Spec
CONSTANTS
    Clients = {c1, c2}
    Topics = {t1, t2}
    Types = {string, unknown}
    Unusable = {unknown}
    Options = {o1, o2}
    None = None
    Empty = Empty
    MaxHandles = 3
INVARIANTS TypeOK PublishersAreAdvertised
PROPERTIES AnswersTruthfully
\* In the end every handler is gone.
CHECK_DEADLOCK FALSE
