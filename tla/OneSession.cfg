SPECIFICATION Spec
CONSTANTS
    None = None
    Sessions = {s1}
    Workers = {w1, w2}
    MaxAttempts = 2
    Deadline = 1
    StaleAfter = 2
    Jobs = {j1, j2}
    Apis = {a1, a2}
    MaxDeliveries = 1
    MaxDuplicates = 0
    MaxStages = 0
SYMMETRY Permuted
INVARIANTS
    OneActiveJob
    SessionsExecuteOneJob
PROPERTIES
    ImplementsLifecycle
