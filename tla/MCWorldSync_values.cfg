\* Three servers in a line; nobody writes the default value.
SPECIFICATION Spec
CONSTANTS
    Server = {1, 2, 3}
    Attr = {"x"}
    Value = {"v0", "v1", "v2"}
    Writable = {"v1", "v2"}
    Default = "v0"
    MaxTime = 2
    NoStamp = NoStamp
    Entity <- MCOneEntity
    Distance <- MCDistance
    Links <- MCLine
    Registered <- MCAllAttrs
    EntityDoI <- MCAllEntities
    AttrDoI <- MCAllAttrs
    ClockPrecise = TRUE
    ClockSynced = TRUE
INVARIANTS
    ValuesAgree
    ServersConverge
PROPERTIES
    EveryChangeIsStamped
CHECK_DEADLOCK FALSE
