SPECIFICATION MCSpec
CONSTANTS
    lat = lat
    layout = layout
    g1 = g1
    g2 = g2
    f1 = f1
    w1 = w1
    c1 = c1
    r1 = r1
    ghost = ghost
    Checks <- MCChecks
    PlantedCheck = layout
    UnrunCheck = lat
    GateIds <- MCGateIds
    Sources <- MCSources
    Waivers = {w1}
    Criteria <- MCCriteria
    TierOf <- MCTierOf
    Nowhere = ghost
    Citations <- MCCitations
    MaxEdits = 3
INVARIANTS
    GreenVerdictsAreEarned
    GreenDocumentsAgree
PROPERTIES
    FixesHideNothing
