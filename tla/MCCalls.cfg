SPECIFICATION FairSpec
CONSTANTS
    a = a
    b = b
    c = c
    d = d
    r1 = r1
    r2 = r2
    f1 = f1
    f2 = f2
    p1 = p1
    p2 = p2
    NoKey = NoKey
    NoResult = NoResult
    NoFingerprint = NoFingerprint
    NoPhase = NoPhase
    Tasks = {a, b, c, d}
    Script <- CallsScript
    Results = {r1}
    Fingerprints = {f1}
    Phases = {p1, p2}
    Declared <- TwoPhases
    MaxCalls = 3
    MaxRuns = 2
    Concurrency = 1
    Unit = "calls"
    Limited = TRUE
    Total = 2
    Usages <- NoUsage
    MaxOutput = 0
    DiskFaults = FALSE
CHECK_DEADLOCK FALSE
INVARIANTS
    BudgetRespected
    ChargesMatchJournal
PROPERTIES
    EverySettles
    CompletedIsWhole
