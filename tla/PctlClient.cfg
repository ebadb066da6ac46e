SPECIFICATION FairPctlSpec
CONSTANTS
    pctl = pctl
    Readers = {pctl}
    Pctl = pctl
    HistoryLimit = 2
    HistoryLines = {1, 2}
    MaxLines = 2
    MaxCancels = 1
INVARIANTS
    NoGapNoRepeat
    FinishedReaderHasAll
    ExitStatusIsTrue
PROPERTIES
    ReadersSeeTheEnd
    ClosedStreamReleases
    ClientReturns
