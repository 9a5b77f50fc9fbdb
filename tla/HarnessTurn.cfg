CONSTANTS
    MaxPosts = 2
    Bodies <- MCBodies
    Catalogues <- MCCatalogues
    Escalate = "sharedos.escalate"
    portableToolName <- MCPortable
    Vendor = "pi"
    None = None
SPECIFICATION Spec
INVARIANTS
    EveryRequestIsAnswered
    AskIsHonoured
PROPERTIES
    NothingReachesAnEndedTurn
    RunEnds
CHECK_DEADLOCK FALSE
