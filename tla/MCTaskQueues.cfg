SPECIFICATION FairSpec
CONSTANTS
    platform = platform
    raster = raster
    other = other
    Queue = {platform, raster, other}
    kUnmerged = kUnmerged
    Mergeable <- Merges
    Pausable = {platform}
    MaxTask = 2
    MaxTime = 1
    MaxChange = 3
INVARIANT NoLostWakeup
INVARIANT MergesAgree
INVARIANT InPostedOrder
PROPERTY TasksRun
CHECK_DEADLOCK FALSE
