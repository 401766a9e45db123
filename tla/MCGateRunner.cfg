SPECIFICATION Spec
CONSTANTS
    net3 = net3
    lex2 = lex2
    store1 = store1
    denom1 = denom1
    Signed = signed
    Unsigned = unsigned
    Stray = stray
    Release = release
    Files <- MCFiles
    cache = cache
    d1 = d1
    d2 = d2
    Order <- MCOrder
    Meta <- MCMeta
    Silent <- MCSilent
    Reads <- MCReads
    MayBeAbsent <- MCMayBeAbsent
    Detectors <- MCDetectors
    MaxBuilds = 1
INVARIANTS
    GreenWasSeenRed
    StrictMeansMeasured
PROPERTIES
    RunEnds
    ImplementsVerdict
CHECK_DEADLOCK FALSE
