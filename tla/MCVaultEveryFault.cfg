SPECIFICATION Spec
CONSTANTS
    Doc = {d1}
    Id = {i1}
    Buf = {b1}
    Key = {k1}
    Zeros = Zeros
    Faults = {"io", "crash", "lock", "deleteIgnored"}
    Calls = {"list", "delete", "wipe", "export"}
INVARIANT FilesInv
INVARIANT DeletedIsGone
INVARIANT ExportAvailable
INVARIANT LostOnlyByUndo
PROPERTY SealedBeforeDestroyed
CHECK_DEADLOCK FALSE
