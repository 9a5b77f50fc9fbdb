SPECIFICATION Spec

CONSTANTS
    first = first
    second = second
    sameId = sameId
    None = None
    Once = "once"
    Namespaces = {"files", "repo", "messages"}
    Enabled = {"files", "messages"}
    Calls = {first, second}
    Paths <- MCPaths
    Links <- MCLinks
    Seed <- MCSeed
    Requests <- MCRequests
    Refused = Refused
    ToolProviders <- MCProviders
    Offers <- MCOffers

SYMMETRY MCSymmetry

INVARIANTS
    AppendedOnce
    ClientIsToldWhatHappened
    AuthorizedIsDone
    PatchesHold

\* A call that is over stays over, and the server may stop once all are.
CHECK_DEADLOCK FALSE
