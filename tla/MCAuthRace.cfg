SPECIFICATION Spec
CONSTANTS
    Call = {c1, c2}
    Buf = {b1, b2}
    Key = {k1, k2, k3}
    Zeros = Zeros
    None = None
    Timeout = 1
    MaxTime = 1
    Faults = {"loss"}
    Api = {}
PROPERTY KekNeverReplaced
CHECK_DEADLOCK FALSE
