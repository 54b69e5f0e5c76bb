SPECIFICATION FairSpec
CONSTANTS
    r1 = r1
    r2 = r2
    r3 = r3
    Requests = {r1, r2, r3}
INVARIANT TypeOK
INVARIANT NoTaskLost
INVARIANT AcceptedTaskWasPublished
PROPERTY AcceptedTaskIsScheduled
CHECK_DEADLOCK FALSE
