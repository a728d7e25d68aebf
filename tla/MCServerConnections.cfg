CONSTANTS
    A = A
    B = B
    C = C
    c1 = c1
    c2 = c2
    Unknown = Unknown
    Servers = {A, B}
    Links <- PairLinks
    Linked = {}
    Components = {c1, c2}
    Defined <- PairDefined
    Present <- PairDefined
    Domains = {"DoI"}
    MaxChanges <- NoChanges
    Registering <- PairRegistering
    Breaking <- PairLinks
SPECIFICATION Spec
INVARIANTS
    AnnouncedOnce
    DefinitionsUnderWay
PROPERTIES
    DefinitionsArrive
CHECK_DEADLOCK FALSE
