SPECIFICATION Spec
CONSTANTS
    Depth = 2
    MaxFrame = 2
    Secondary = {}
INVARIANT FramesInOrder
