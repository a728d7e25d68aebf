\* Two servers whose clocks may show one tick twice.
SPECIFICATION Spec
CONSTANTS
    Server = {1, 2}
    Attr = {"x"}
    Value = {"v0", "v1", "v2"}
    Writable = {"v1", "v2"}
    Default = "v0"
    MaxTime = 2
    NoStamp = NoStamp
    Entity <- MCOneEntity
    Distance <- MCDistance
    Links <- MCPair
    Registered <- MCAllAttrs
    EntityDoI <- MCAllEntities
    AttrDoI <- MCAllAttrs
    ClockPrecise = FALSE
    ClockSynced = TRUE
INVARIANTS ValuesAgree
CHECK_DEADLOCK FALSE
