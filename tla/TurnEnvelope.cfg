CONSTANTS
    Calls = {c1, c2, c3}
    Steps <- MCSteps
    MaxSteps = 1
    MaxToolCalls = 2
    Graces <- BothGraces
    None = None
SPECIFICATION Spec
INVARIANTS
    RetryRepeatsNothing
PROPERTIES
    OutageIsNotSwallowed
    DrainWaitsForCalls
    EveryTurnEnds
CHECK_DEADLOCK FALSE
