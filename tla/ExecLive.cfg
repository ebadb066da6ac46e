SPECIFICATION LiveSpec
CONSTANTS
    r1 = r1
    c1 = c1
    c2 = c2
    Requests = {r1}
    Cancellers = {c1, c2}
    ChannelErrors = TRUE
    ConfigMayVanish = FALSE
    MaxCrashes = 0
INVARIANTS
    EndIsRecorded
PROPERTIES
    JobsEnd
    CancelsAnswered
    AcknowledgedTaskEnds
