CONSTANTS
    MaxPosts = 1
    Bodies <- MCBodies
    Catalogues <- MCCatalogues
    Escalate = "sharedos.escalate"
    portableToolName <- MCPortable
    Vendor = "pi"
    None = None
SPECIFICATION Spec
INVARIANT NothingOutlivesTheTurn
CHECK_DEADLOCK FALSE
