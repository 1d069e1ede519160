SPECIFICATION Spec
CONSTANTS
    Engine = {e1, e2}
    Root = e1
    Lease = 2
    Depth = 1
    MaxFrame = 5
    MaxView = 2
    Hasty = FALSE
    Slow = FALSE
INVARIANT NeverAborts
CHECK_DEADLOCK FALSE
