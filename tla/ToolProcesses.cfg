CONSTANTS
    ShellLimits = {1, 4}
    GitLimit = 1
    RouterLimit = 2
    MaxToolRetries = 2

SPECIFICATION Spec

INVARIANTS
    SuccessIsLast
    OverlapOnlyAfterTimer
    TimeBounded

PROPERTIES
    CallEnds

CHECK_DEADLOCK FALSE
