SPECIFICATION Spec
CONSTANTS
    Engine = {e1}
    Root = e1
    Lease = 2
    Depth = 2
    MaxFrame = 4
    MaxView = 2
    Hasty = TRUE
    Slow = FALSE
INVARIANT LatchIsServed
CHECK_DEADLOCK FALSE
