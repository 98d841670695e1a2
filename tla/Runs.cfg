SPECIFICATION Spec
CONSTANTS
    None = None
    Listings = {l1, l2}
    MaxExecutions = 2
    MaxJobs = 2
    MaxSaves = 1
    MaxClashes = 0
    Profiles = {{"score"}, {"journey"}}
SYMMETRY Permuted
INVARIANTS
    TypeOK
    SuccessIsFresh
    CompletedMeansSettled
    OneRunPerType
    ProvidersHoldNoTransaction
CHECK_DEADLOCK FALSE
