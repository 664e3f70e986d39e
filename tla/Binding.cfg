CONSTANTS
    Callers = {c1}
    Pollers = {p1, p2}
    Sessions = 2
    Ids = 2
    MaxResults = 2
    NoOne = NoOne
SPECIFICATION Spec
INVARIANTS
    Delivered QuietAfterRelease DeletedAlone
PROPERTIES
    ReleaseReturns LastTold
CHECK_DEADLOCK FALSE
