SPECIFICATION Spec
CONSTANTS
    Call = {c1}
    Buf = {b1, b2, b3}
    Key = {k1, k2, k3}
    Zeros = Zeros
    None = None
    Timeout = 2
    MaxTime = 3
    Faults = {"plugin"}
    Api = {"extend", "clear"}
INVARIANT SessionKeyIsStored
PROPERTY KekNeverReplaced
CHECK_DEADLOCK FALSE
