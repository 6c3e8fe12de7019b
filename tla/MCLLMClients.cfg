CONSTANTS
    OpenRouterRetries = 1
    GroqRetries = 2
    Cap = 3
    RetryAfters = {5}
    Raws <- MCRaws
    Word = "user"
    Summary = "summary"
    Null = Null
    MinRecent = 2
    MaxSteps = 2
    MaxTurns = 2

SPECIFICATION ClientSpec

INVARIANTS
    NothingLost
    CallsAnswered
    AnswersAreAnswers

CHECK_DEADLOCK FALSE
