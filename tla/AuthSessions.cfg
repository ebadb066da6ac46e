SPECIFICATION Spec
CONSTANTS
    MaxSessions = 5
    MaxPasswords = 3
INVARIANTS
    OneInForcePerLogin
    OldPasswordLocksOut
PROPERTIES
    ChangeLeavesOneToken
CHECK_DEADLOCK FALSE
