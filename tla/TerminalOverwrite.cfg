SPECIFICATION Spec
CONSTANTS
    None = None
    Sessions = {s1}
    Workers = {w1, w2}
    MaxAttempts = 2
    Deadline = 1
    StaleAfter = 2
    Jobs = {j1}
    Apis = {a1}
    MaxDeliveries = 2
    MaxDuplicates = 1
    MaxStages = 1
PROPERTIES
    TerminalIsFinal
