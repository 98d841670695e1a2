SPECIFICATION Spec
CONSTANTS
    None = None
    Listings = {l1}
    MaxExecutions = 2
    MaxJobs = 2
    MaxSaves = 1
    MaxClashes = 0
    Profiles = {{}, {"score", "journey"}}
INVARIANTS
    NoRunStaysQueued
CHECK_DEADLOCK FALSE
