SPECIFICATION MCSpec
CONSTANTS
    Job = {}
    Image = {}
    None = None
    MaxCalls = 3
    Faults = {}
INVARIANT ProtectionIsApplied
CHECK_DEADLOCK FALSE
