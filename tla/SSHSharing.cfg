SPECIFICATION Spec
CONSTANTS
    a = a
    b = b
    d = d
    k1 = k1
    Commands = {a, b, d}
    Cancellers = {k1}
    IdleIds = {1, 2, 3}
    IdleEnabled = TRUE
    MaxDrops = 1
INVARIANTS
    CountIsNearlyRight
    FewOrphanIdlers
PROPERTIES
    IdleCloseSparesCommands
