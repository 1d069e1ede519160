SPECIFICATION FairSpec
CONSTANTS
    Id = {i1}
    Buf = {b1, b2}
    Key = {k1}
    Zeros = Zeros
    None = None
    Timeout = 1
    MaxTime = 0
    FileFaults = {"io"}
    Events = {"pause", "refresh", "delete"}
PROPERTY BusyEnds
CHECK_DEADLOCK FALSE
