SPECIFICATION Spec
CONSTANTS
    None = None
    Listings = {l1}
    MaxExecutions = 2
    MaxJobs = 1
    MaxSaves = 0
    MaxClashes = 1
    Profiles = {{"journey"}}
INVARIANTS
    SuccessIsBacked
CHECK_DEADLOCK FALSE
