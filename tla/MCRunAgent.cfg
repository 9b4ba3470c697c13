SPECIFICATION FairSpec
CONSTANTS
    plain = plain
    tooled = tooled
    Callers = {plain, tooled}
    Tooled = {tooled}
    MaxAttempts = 2
    MaxRateLimitRetries = 1
    LimiterSize = 1
    TurnLimit = 3
    MaxTurns = 2
    Outputs = {1}
CHECK_DEADLOCK FALSE
INVARIANTS
    UsageConserved
    AttemptsBounded
    LimiterAccounted
PROPERTIES
    CallSettles
