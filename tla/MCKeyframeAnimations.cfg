CONSTANTS
    Entities = {"e1", "e2"}
    Names = {"walk", "wave"}
    Animations <- FromZero
    Steps = {1, 3}
    MaxStarts = 3
SPECIFICATION Spec
INVARIANTS
      FramesFollowTime
PROPERTIES
    FinishedArePlayed
    AnimationsEnd
CHECK_DEADLOCK FALSE
