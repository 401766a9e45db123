SPECIFICATION SourceSpec
CONSTANTS
    okhttp = okhttp
    collections = collections
    Coordinates <- MCCoordinates
    Blocklist = {okhttp}
    MaxWork = 5
INVARIANTS
    StrippingIsLexing
    CallsAreGuarded
    SuspensionsAreSeen
    NothingForbiddenSlips
CHECK_DEADLOCK FALSE
