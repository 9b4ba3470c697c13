SPECIFICATION FairSpec
CONSTANTS
    NoNode = NoNode
    root = root
    left = left
    right = right
    inner = inner
    Root = root
    Nodes = {root, left, right, inner}
    Parent <- Deep
    Above <- DeepAbove
    Handles = {root}
    MaxCancels = 2
CHECK_DEADLOCK FALSE
INVARIANTS
    NothingOutlives
    ChildArgs
    ContextRestored
    FailureReported
PROPERTIES
    CancellationSettles
