CONSTANTS
    A = A
    B = B
    C = C
    c1 = c1
    c2 = c2
    Unknown = Unknown
    Servers = {A, B}
    Links <- PairLinks
    Linked = {}
    Components = {c1}
    Defined <- PairDefined
    Present <- PairDefined
    Domains = {"DoI"}
    MaxChanges <- OneChange
    Registering <- NoRegistering
    Breaking <- PairLinks
SPECIFICATION Spec
INVARIANT DomainsAgree
CHECK_DEADLOCK FALSE
