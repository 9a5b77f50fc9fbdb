SPECIFICATION CatalogueSpec
CONSTANTS
    Undefined = Undefined
    list = list
    call1 = call1
    call2 = call2
    Leases = {lease1, lease2}
    Readers = {list, call1, call2}
    Listings = {list}
SYMMETRY MCSymmetry
INVARIANTS
    NoWorkForNobody
    TurnReadsOneCatalogue
PROPERTIES
    CancelledOnceAllHaveGone
CHECK_DEADLOCK FALSE
