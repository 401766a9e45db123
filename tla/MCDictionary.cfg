SPECIFICATION MCSpec
CONSTANTS
    w1 = w1
    w2 = w2
    Word <- MCWord
    Inode = {1, 2, 3}
    MaxEdits = 2
    MaxFields = 2
    MaxVisits = 2
    MaxDeaths = 1
    MaxEvents = 4
SYMMETRY Perms
INVARIANTS
    SavedWordsSurvive
    ScreenTellsTheTruth
    KeyboardFollows
PROPERTIES
    ActsAsStore
CHECK_DEADLOCK FALSE
