SPECIFICATION Spec
CONSTANTS
    Id = {i1, i2}
    Buf = {b1, b2}
    Key = {k1, k2}
    Zeros = Zeros
    None = None
    Timeout = 1
    MaxTime = 1
    FileFaults = {}
    Events = {"export", "delete"}
SYMMETRY Symmetry
INVARIANT SealedUnderStoredKey
INVARIANT ExportOpens
PROPERTY KekNeverReplaced
PROPERTY KeepsPromise
CHECK_DEADLOCK FALSE
