CONSTANTS
    Entities = {"e1"}
    Names = {"walk"}
    Animations <- FromLater
    Steps = {1}
    MaxStarts = 1
SPECIFICATION Spec
INVARIANT FramesInRange
CHECK_DEADLOCK FALSE
