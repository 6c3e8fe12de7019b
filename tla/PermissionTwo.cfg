CONSTANTS
    MaxCalls = 2
    MaxAsking = 2
    MaxSteps = 1

SPECIFICATION Spec

INVARIANTS
    DeniedNeverRuns
