CONSTANTS
    Entities = {"e1"}
    Names = {"walk"}
    Animations <- FromZero
    Steps = {1}
    MaxStarts = 1
SPECIFICATION Spec
INVARIANT LoopSurvives
CHECK_DEADLOCK FALSE
