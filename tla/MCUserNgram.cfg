CONSTANTS
    oov = oov
    w1 = w1
    Word <- MCWord
    MinimumSessions = 2
    Capacity = 2
    MaxCount = 2
    MaxSightings = 5
SPECIFICATION MCSpec
INVARIANTS OfferedPairsCameBack OfferedWordsCameBack TableBounded
PROPERTY EvictionKeepsWhatCameBack
