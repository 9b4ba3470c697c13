SPECIFICATION Spec
CONSTANTS
  Hosts = {h1, h2}
  Steps = {s1, s2}
  Nobody = Nobody
  MaxLeft = 2
INVARIANTS MemoryCurrent ReceiptsFirst
PROPERTY Implements
CHECK_DEADLOCK FALSE
