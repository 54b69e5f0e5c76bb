SPECIFICATION FairSpec
CONSTANTS
    w1 = w1
    w2 = w2
    Workers = {w1, w2}
    NTasks = 1
    Concurrency = 1
    RetryLimit = 1
    MaxFaults = 0
    Nil = Nil
PROPERTY CancelledJobQuiesces
CHECK_DEADLOCK FALSE
