SPECIFICATION Spec
CONSTANTS
    r1 = r1
    r2 = r2
    r3 = r3
    Requests = {r1, r2, r3}
CHECK_DEADLOCK FALSE
INVARIANT SavedTaskIsQueued
