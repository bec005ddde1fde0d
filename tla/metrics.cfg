SPECIFICATION Spec
CONSTANTS
    Workers = {w1}
    BufferSize = 1
    QueueSize = 1
    MaxEvents = 2
    MaxRounds = 2
INVARIANTS
    ScrapeBalanced
    CauseBeforeEffect
    GaugesOfOneRefresh
    NothingUncounted
CHECK_DEADLOCK FALSE
