SPECIFICATION MCSpec
CONSTANTS
    Job = {j1, j2}
    Image = {i1, i2, i3}
    None = None
    MaxCalls = 3
    Faults = {"throw", "kill"}
SYMMETRY Symmetry
INVARIANT SettingsAgree
INVARIANT BackgroundAgrees
CHECK_DEADLOCK FALSE
