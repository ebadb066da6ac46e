SPECIFICATION Spec
SYMMETRY Symmetric
CONSTANTS
    r1 = r1
    r2 = r2
    c1 = c1
    c2 = c2
    c3 = c3
    Requests = {r1, r2}
    Cancellers = {c1, c2, c3}
    ChannelErrors = FALSE
    ConfigMayVanish = TRUE
    MaxCrashes = 1
INVARIANTS
    RegistrySound
    ClosedStreamHasEnd
    PromiseKept
    StartedNeverRunAgain
    RowWasPublished
PROPERTIES
    ImplementsContract
