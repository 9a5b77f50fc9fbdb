SPECIFICATION ChainSpec
CONSTANTS
    None = None
    Garbled = Garbled
    AnyAction = AnyAction
    GrantIds <- MCGrantIds
    Addresses <- MCAddresses
    Namespaces = {"world", "files"}
    Segments = {"docs", "page", "mail"}
    Actions = {"read", "write"}
    Purposes <- MCPurposes
    Stores <- MCStores
    DeriveRequests <- MCDeriveRequests
    Uses <- MCUses
    Contexts <- MCContexts
    ChainLimits = {1, 2}
    LastInstant = 2
INVARIANTS
    NoAmplification
    DepthBudgetSpent
    RemovalReachesDescendants
    ValidChainWasWhole
    DerivedLinksHold
CHECK_DEADLOCK FALSE
