CONSTANTS
    MaxSteps = 2
    Candidates <- MCCandidates
    Breaths <- MCBreaths
    Utterances <- MCUtterances
    DeclaredSteps <- MCDeclaredSteps
    MaxSaid = 2
    MaxMalformedCalls = 1
    RetryableAttempts = 2
    MaxIgnoredFrames = 2
    MaxUnread = 3
    None = None
SPECIFICATION Spec
INVARIANTS
    ClosedWithItsEnding
    CallsReachTheHostInOrder
    WireIsAnswered
    HarnessOutlivesNoTurn
    CompletesOnItsWord
PROPERTIES
    EverySessionIsClosed
    RunEnds
CHECK_DEADLOCK FALSE
