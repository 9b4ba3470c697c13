SPECIFICATION Spec
CONSTANTS
    a = a
    b = b
    c = c
    d = d
    r1 = r1
    r2 = r2
    f1 = f1
    f2 = f2
    p1 = p1
    p2 = p2
    NoKey = NoKey
    NoResult = NoResult
    NoFingerprint = NoFingerprint
    NoPhase = NoPhase
    Tasks = {a, b, c, d}
    Script <- TokenScript
    Results = {r1}
    Fingerprints = {f1}
    Phases = {p1, p2}
    Declared <- NoMeta
    MaxCalls = 4
    MaxRuns = 1
    Concurrency = 2
    Unit = "tokens"
    Limited = TRUE
    Total = 3
    Usages <- TokenUsages
    MaxOutput = 2
    DiskFaults = FALSE
CHECK_DEADLOCK FALSE
INVARIANTS
    BudgetRespected
PROPERTIES
    UnknownBlocks
