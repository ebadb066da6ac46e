SPECIFICATION FairSpec
CONSTANTS
    a = a
    b = b
    k1 = k1
    Commands = {a, b}
    Cancellers = {k1}
    IdleIds = {1, 2, 3}
    IdleEnabled = TRUE
    MaxDrops = 1
INVARIANTS
    NoLeakedConnection
PROPERTIES
    RunsReturn
    IdleConnectionCloses
