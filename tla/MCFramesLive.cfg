SPECIFICATION FairSpec
CONSTANTS
    Depth = 2
    MaxFrame = 3
    Secondary = {}
PROPERTY FrameComes
PROPERTY CommittedIsDrawn
PROPERTY DartTasksRun
