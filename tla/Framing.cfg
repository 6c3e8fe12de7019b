CONSTANTS
    MaxEvents = 2
    Stalls = TRUE
    BigReplies = TRUE

SPECIFICATION FramingSpec

INVARIANTS
    AnswerIsMine

PROPERTIES
    CallEnds
    ConnectionEnds
