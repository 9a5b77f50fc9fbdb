SPECIFICATION Spec
CONSTANTS
    None = None
    Calls <- MCCalls
    KindsOf <- MCKindsOf
    OuterOf <- MCOuterOf
    Signals = {"turn"}
    SignalOf <- MCSignalOf
    MaxUses = 1
    Hosts <- MCHosts
INVARIANTS
    ActsOnRecordedAllow
    NoneMeansNothingRan
    TrailIsComplete
    TrailMatchesAnswers
PROPERTIES
    AnswersAreReleased
CHECK_DEADLOCK FALSE
