CONSTANTS
    A = A
    B = B
    C = C
    c1 = c1
    c2 = c2
    Unknown = Unknown
    Servers = {A, B}
    Links <- PairLinks
    Linked <- PairLinks
    Components = {c1}
    Defined <- NoRegistering
    Present <- NoRegistering
    Domains = {"DoI"}
    MaxChanges <- TwoChanges
    Registering <- NoRegistering
    Breaking = {}
SPECIFICATION Spec
INVARIANT DomainsAgree
CHECK_DEADLOCK FALSE
