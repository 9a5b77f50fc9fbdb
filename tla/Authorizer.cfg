SPECIFICATION Spec
CONSTANTS
    None = None
    Garbled = Garbled
    AnyAction = AnyAction
    Calls = {c1, c2, c3}
    GrantIds <- MCGrantIds
    Addresses = {"owner", "agent", "stranger"}
    Namespaces = {"world", "files"}
    Segments = {"docs"}
    Actions = {"read"}
    Purposes = {"work"}
    GrantBook <- MCGrantBook
    Requests <- MCRequests
SYMMETRY MCSymmetry
INVARIANTS
    DenialNamesTheWorst
PROPERTIES
    BudgetKept
CHECK_DEADLOCK FALSE
