SPECIFICATION Spec
CONSTANTS
    Id = {i1}
    Buf = {b1, b2}
    Key = {k1}
    Zeros = Zeros
    None = None
    Timeout = 1
    MaxTime = 0
    FileFaults = {}
    Events = {"delete"}
SYMMETRY Symmetry
INVARIANT DeletedNotShown
CHECK_DEADLOCK FALSE
