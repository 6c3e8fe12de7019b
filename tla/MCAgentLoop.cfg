CONSTANTS
    NoTool = NoTool
    Tools = {edit, ghost}
    Registered = {edit}
    StepLimits <- MCStepLimits
    Budgets <- MCBudgets
    Costs <- MCCosts
    DefaultSteps = 2
    DefaultBudget = 3
    MaxToolRetries = 2
    MaxCalls = 2
    MaxChunks = 1

SPECIFICATION FairSpec

INVARIANTS
    OneTerminalEvent
    LimitsKept
    CostIsSumOfSteps
    AccountsAgree
    HistoryPaired
    NoStrayCalls

PROPERTIES
    ResultFinal
    ImplementsLifecycle
    Termination
