SPECIFICATION Spec
CONSTANTS
    Id = {i1, i2}
    Buf = {b1, b2}
    Key = {k1}
    Zeros = Zeros
    None = None
    Timeout = 1
    MaxTime = 0
    FileFaults = {}
    Events = {"pause"}
SYMMETRY Symmetry
INVARIANT NoDataLoss
CHECK_DEADLOCK FALSE
