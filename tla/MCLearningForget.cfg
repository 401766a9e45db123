CONSTANTS
    Object <- MCObject
    MaxItems = 2
    MaxFields = 2
    MaxDisturbances = 2
    MaxEvents = 6
SPECIFICATION MCSpec
CHECK_DEADLOCK FALSE
INVARIANT ForgetIsFinal
