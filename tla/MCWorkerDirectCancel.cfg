SPECIFICATION FairSpec
CONSTANTS
    t1 = t1
    t2 = t2
    w1 = w1
    w2 = w2
    Nil = Nil
    Workers = {w1}
    Tasks = {t1, t2}
    Concurrency = 1
    Shape <- MCBare
    DirectDispatch = TRUE
    StrayStates = {}
    MaxRetries = 0
    MaxCancels = 1
    MaxRedeliveries = 0
PROPERTY CancelReachesRun
CHECK_DEADLOCK FALSE
