SPECIFICATION Spec
CONSTANTS
    Doc = {d1}
    Id = {i1}
    Buf = {b1}
    Key = {k1}
    Zeros = Zeros
    Faults = {"io", "deleteIgnored"}
    Calls = {}
SYMMETRY Symmetry
INVARIANT NoDataLoss
CHECK_DEADLOCK FALSE
