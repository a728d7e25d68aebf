\* Two servers; the default value is written as well.
SPECIFICATION Spec
CONSTANTS
    Server = {1, 2}
    Attr = {"x"}
    Value = {"v0", "v1", "v2"}
    Writable = {"v0", "v1"}
    Default = "v0"
    MaxTime = 2
    NoStamp = NoStamp
    Entity <- MCOneEntity
    Distance <- MCDistance
    Links <- MCPair
    Registered <- MCAllAttrs
    EntityDoI <- MCAllEntities
    AttrDoI <- MCAllAttrs
    ClockPrecise = TRUE
    ClockSynced = TRUE
PROPERTIES EveryChangeIsStamped
CHECK_DEADLOCK FALSE
