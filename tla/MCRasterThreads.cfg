SPECIFICATION FairSpec
CONSTANTS
    Engine = {e1}
    Root = e1
    Lease = 2
    Depth = 2
    MaxFrame = 6
    MaxView = 2
    Hasty = FALSE
    Slow = FALSE
INVARIANT LeasesMatchQueues NeverAborts LatchIsServed FramesAnnounced
PROPERTY ConfigurationIsFixed FramesServed
CHECK_DEADLOCK FALSE
