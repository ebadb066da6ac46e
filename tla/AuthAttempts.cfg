SPECIFICATION AttemptsSpec
CONSTANTS
    a = a
    b = b
    Callers = {a, b}
    Window = 3
    Limit = 4
    Threshold = 2
PROPERTIES
    RefusedAtTheLimit
    SuspiciousAtTheThreshold
