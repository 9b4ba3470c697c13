SPECIFICATION Spec
CONSTANTS
    NoNode = NoNode
    root = root
    left = left
    right = right
    inner = inner
    Root = root
    Nodes = {root, left, right}
    Parent <- Pair
    Above <- PairAbove
    Handles = {}
    MaxCancels = 2
CHECK_DEADLOCK FALSE
INVARIANTS
    ArgsVerbatim
