SPECIFICATION Spec
CONSTANTS
    Doc = {d1, d2}
    Id = {i1, i2}
    Buf = {b1}
    Key = {k1}
    Zeros = Zeros
    Faults = {"io", "crash"}
    Calls = {"list", "delete"}
SYMMETRY Symmetry
INVARIANT NoDataLoss
PROPERTY KeepsPromise
CHECK_DEADLOCK FALSE
