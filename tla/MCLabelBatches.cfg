SPECIFICATION Spec
CONSTANTS
    Batches = {1, 2}
    Firing <- MCFiring
    Clean <- MCClean
    Injected <- MCInjected
    Shapes <- MCShapes
    Sample <- MCSample
    Arrange <- MCArrange
    Replies <- MCReplies
    MaxCuts = 3
    MaxSittings = 2
INVARIANTS
    FreshOnce
    ShipIsEarned
    DatasetAgrees
CHECK_DEADLOCK FALSE
