SPECIFICATION Spec
CONSTANTS
    None = None
    Sessions = {s1}
    Flats = {f1, f2, f3}
    Listings = {l1, l2, l3}
    Inputs = {i1, i2}
    Requests = {r1, r2}
    MaxListings = 1
SYMMETRY Permuted
INVARIANTS
    TypeOK
    ListingsBounded
    ManualDraftsAreAccountedFor
PROPERTIES
    ListingsKeepTheirDrafts
    ImplementsShortlist
CHECK_DEADLOCK FALSE
