SPECIFICATION Spec
CONSTANTS
    None = None
    Unavailable = Unavailable
    run1 = run1
    run2 = run2
    host1 = host1
    host2 = host2
    host3 = host3
    inRun = inRun
    inHost = inHost
    Turns <- MCTurns
    Operations <- MCOperations
    Keys = {"execution", "trace"}
    Named = {"execution"}
    KeyOf <- MCKeyOf
    Versions = {1, 2}
CONSTRAINT OneIdentityAtATime
INVARIANTS
    TurnsDecideOnOneAuthority
PROPERTIES
    AuthorityIsHeld
    NothingStaysHeld
CHECK_DEADLOCK FALSE
