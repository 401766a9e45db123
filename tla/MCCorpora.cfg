SPECIFICATION Spec
CONSTANTS
    s1 = s1
    s2 = s2
    s3 = s3
    new = new
    l1 = l1
    l2 = l2
    DataBytes = 24
    Offsets <- MCOffsets
    Plans <- MCPlans
    PerBlock = 5
    Stride = 3
    Count = 2
    Users = 2
    PerUser = 2
    Stream <- MCStream
    Clean <- MCClean
    HeldOutEvery = 2
    TrainLines = 3
    Comments <- MCComments
    Classes <- MCClasses
    ClassesOf <- MCClassesOf
    MaxSteps = 5
INVARIANTS
    EvalWasNeverTrained
    ListedSlicesAreThere
    TypedWasNeverHeard
    DropsAreExplained
CHECK_DEADLOCK FALSE
