CONSTANTS
    KeyClasses <- MCKeyClasses
    Initials <- MCInitials
    MaxContext = 4
    ContextWords = 3
    MaxCluster = 2
    MaxPrediction = 2
    MaxSessions = 2
SPECIFICATION MCSpec
INVARIANTS TypeOK NothingCrossesFields SecretsStayPut NoOfferWithoutContext
