INIT ProfileInit
NEXT ProfileNext
INVARIANT DrivingLimitsGetAVerdict
CONSTANTS
    Savers = {s1}
    MaxProfileSaves = 3
    Plain = Plain
    Unnamed = Unnamed
