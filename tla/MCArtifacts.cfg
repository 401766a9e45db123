SPECIFICATION MCSpec
CONSTANTS
    r1 = r1
    r2 = r2
    url = url
    Pinned = pinned
    Moved = moved
    Absent = absent
    Torn = torn
    Listed = listed
    Recipes <- MCRecipes
    InBand <- MCInBand
    Background = {url}
    Aapt2 = TRUE
    Planted = okhttp
    Flaws <- MCFlaws
    Limits <- MCLimits
    Redirects <- MCRedirects
    MaxCrashes = 1
    MaxEdits = 1
    MaxPackages = 1
INVARIANTS
    GreenShipsThePinnedLexicon
    UndisturbedBuildsAgree
    ControlsGoRed
CHECK_DEADLOCK FALSE
