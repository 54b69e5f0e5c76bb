SPECIFICATION Spec
CONSTANTS
    t1 = t1
    t2 = t2
    w1 = w1
    w2 = w2
    Nil = Nil
    Workers = {w1}
    Tasks = {t1, t2}
    Concurrency = 2
    Shape <- MCShape
    DirectDispatch = TRUE
    StrayStates = {}
    MaxRetries = 1
    MaxCancels = 1
    MaxRedeliveries = 0
INVARIANT TypeOK
INVARIANT RegistryHoldsLiveRuns
INVARIANT CompletedMetEveryDeadline
PROPERTY CompletedRanEveryStep
PROPERTY ImplementsContract
CHECK_DEADLOCK FALSE
