\* Three servers in a line, the one in the middle without the component of the attribute;
\* the default value is written as well; clocks as the code expects them, reliable
\* connections.
SPECIFICATION FairSpec
CONSTANTS
    Server = {1, 2, 3}
    Attr = {"y"}
    Value = {"v0", "v1"}
    Writable = {"v0", "v1"}
    Default = "v0"
    MaxTime = 2
    NoStamp = NoStamp
    Entity <- MCOneEntity
    Distance <- MCDistance
    Links <- MCLine
    Registered <- MCMiddleLacksY
    EntityDoI <- MCAllEntities
    AttrDoI <- MCAllAttrs
    ClockPrecise = TRUE
    ClockSynced = TRUE
INVARIANTS
    EntitiesAgree
    LastWriteWins
PROPERTIES
    Registers
    WritesSpread
    RemovalSpreads
CHECK_DEADLOCK FALSE
