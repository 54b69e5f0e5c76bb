SPECIFICATION Spec
CONSTANTS
    Jobs <- MCJobs
    Users <- MCUsers
    Roles <- MCRoles
    Durations <- MCDurations
    ValidExprs <- MCValidExprs
    PatternChars <- MCPatternChars
    DatastoreMayFail = FALSE
INVARIANT TypeOK
INVARIANT AcceptedIsWellFormed
INVARIANT RejectionNamesOffendingField
CHECK_DEADLOCK FALSE
