SPECIFICATION Spec
CONSTANTS
    a = a
    b = b
    c = c
    d = d
    r1 = r1
    r2 = r2
    f1 = f1
    f2 = f2
    p1 = p1
    p2 = p2
    NoKey = NoKey
    NoResult = NoResult
    NoFingerprint = NoFingerprint
    NoPhase = NoPhase
    Tasks = {a, b}
    Script <- FaultScript
    Results = {r1, r2}
    Fingerprints = {f1, f2}
    Phases = {p1, p2}
    Declared <- NoMeta
    MaxCalls = 2
    MaxRuns = 3
    Concurrency = 2
    Unit = "calls"
    Limited = FALSE
    Total = 1
    Usages <- NoUsage
    MaxOutput = 0
    DiskFaults = TRUE
CHECK_DEADLOCK FALSE
INVARIANTS
    IntentDurable
    SnapshotCoherent
PROPERTIES
    HonoursContract
