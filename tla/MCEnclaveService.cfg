CONSTANTS
    NoRequest = NoRequest
    Requests = {r1, r2}
    TaskIds = {t1, t2}
    MaxAtOnce = 2
    MaxEvents = 2
    MaxResults = 2
    MaxCrashes = 1

SYMMETRY Symmetry

SPECIFICATION Spec

INVARIANTS
    FramesInOrder
    DoneIsRecorded
    CostsFollowSteps

PROPERTIES
    ImplementsTaskRecords
