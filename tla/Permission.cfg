CONSTANTS
    MaxCalls = 2
    MaxAsking = 2
    MaxSteps = 3

SPECIFICATION FairSpec

INVARIANTS
    SlotIsWaiting
    AnswersReachTheirCall

PROPERTIES
    AskingEnds
