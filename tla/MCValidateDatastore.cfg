SPECIFICATION Spec
CONSTANTS
    Jobs <- MCJobs
    Users <- MCUsers
    Roles <- MCRoles
    Durations <- MCDurations
    ValidExprs <- MCValidExprs
    PatternChars <- MCPatternChars
    DatastoreMayFail = TRUE
INVARIANT RejectionNamesOffendingField
CHECK_DEADLOCK FALSE
