CONSTANTS
    Object <- MCObject
    MaxItems = 2
    MaxFields = 2
    MaxDisturbances = 2
    MaxEvents = 4
SPECIFICATION MCSpec
CHECK_DEADLOCK FALSE
INVARIANTS TypeOK NoTraceWithoutOptIn FileIsWhole
PROPERTIES LearnedOnlyWhenInvited LessonsReachTheFile ImplementsStore
