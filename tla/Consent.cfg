SPECIFICATION Spec
CONSTANTS
    None = None
    Garbled = Garbled
    AnyAction = AnyAction
    Matchers = {m1}
    Readers = {r1}
    Addresses = {"ann", "bob", "bot", "aid"}
    Namespaces = {"team", "files", "sharedos"}
    Segments = {"docs", "note", "directory", "bot", "aid", "identity", "namespaces"}
    Actions = {"read", "write", "look"}
    Purposes = {"work", "play"}
    GrantIds = {m1, "g1", "g2", "g3", "g4", "g5"}
    MaxResolvedGrants = 2
    HostGrants <- MCHostGrants
    Uses <- MCUses
    Contexts <- MCContexts
    Payloads <- MCPayloads
    Requirements <- MCRequirements
    Answers <- MCAnswers
    Widths <- MCWidths
    Instants = {1, 2, 3}
    MaxAsks = 2
    MaxLoaded = 2
    ReadContexts <- MCReadContexts
    Subjects = {"bot", "aid"}
    Directory = "sharedos"
    DirectoryRoot = "directory"
    DirectoryRead = "look"
    Offered = {"files"}
INVARIANTS
    AllowRestsOnEveryAnswer
    NarrowedUnlessSameQuestion
    ReachIsTrue
CHECK_DEADLOCK FALSE
