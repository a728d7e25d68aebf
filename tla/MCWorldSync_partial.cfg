\* The middle server lacks the component of "y"; server 3 does not hear of "x".
SPECIFICATION Spec
CONSTANTS
    Server = {1, 2, 3}
    Attr = {"x", "y"}
    Value = {"v0", "v1"}
    Writable = {"v0", "v1"}
    Default = "v0"
    MaxTime = 2
    NoStamp = NoStamp
    Entity <- MCOneEntity
    Distance <- MCDistance
    Links <- MCLine
    Registered <- MCMiddleLacksY
    EntityDoI <- MCAllEntities
    AttrDoI <- MCNoXAtThree
    ClockPrecise = TRUE
    ClockSynced = TRUE
INVARIANTS
    LastWriteWins
CHECK_DEADLOCK FALSE
