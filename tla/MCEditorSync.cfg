CONSTANTS
    Fields <- MCFields
    KeyClasses <- MCKeyClasses
    MaxContext = 2
    MaxPrediction = 2
    MaxText = 3
    MaxKeys = 2
    MaxUpdates = 2
SPECIFICATION MCSpec
CHECK_DEADLOCK FALSE
INVARIANTS InStep
