CONSTANTS
    MaxSteps = 2
    MaxCost = 2
    Costs <- MCCosts
    Sizes <- MCSizes
    SystemTokens = 1
    ContextWindow = 12
    Threshold = 70
    MinRecent = 6
    MaxTurns = 3
    MaxRestarts = 1

SPECIFICATION Spec

INVARIANTS
    NewestKept
    CallBounded
    CallsThenResults

PROPERTIES
    OpeningKept
