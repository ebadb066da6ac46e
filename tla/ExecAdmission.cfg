SPECIFICATION FairAdmissionSpec
CONSTANTS
    a = a
    b = b
    Callers = {a, b}
    i1 = i1
    i2 = i2
    NoId = NoId
    Ids = {i1, i2}
    Intervals = {1, 2}
    LongAgo = 2
    Configs <- MCConfigs
    MaxRows = 2
INVARIANTS
    AcceptedOnce
    QueuedRowsAreOwned
PROPERTIES
    CallsAreSpaced
    GrantsAreFresh
    CallsAreAnswered
