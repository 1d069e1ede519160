SPECIFICATION Spec
CONSTANTS
    Call = {c1, c2}
    Buf = {b1, b2}
    Key = {k1, k2}
    Zeros = Zeros
    None = None
    Timeout = 1
    MaxTime = 2
    Faults = {"plugin", "loss"}
    Api = {"extend", "clear"}
INVARIANT SessionAlive
PROPERTY OnlyAPromptUnlocks
CHECK_DEADLOCK FALSE
