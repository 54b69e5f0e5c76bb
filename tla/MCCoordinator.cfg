SPECIFICATION FairSpec
CONSTANTS
    w1 = w1
    Workers = {w1}
    Concurrency = 2
    NTasks = 2
    RetryLimit = 1
    MaxFaults = 1
    Nil = Nil
INVARIANT TypeOK
INVARIANT PositionCountsCompletions
INVARIANT AttemptsOverlapOnlyByFault
PROPERTY TerminalStatesAbsorb
PROPERTY CancelledJobQuiescesWithinReach
CHECK_DEADLOCK FALSE
