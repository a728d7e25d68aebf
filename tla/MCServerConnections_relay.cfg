CONSTANTS
    A = A
    B = B
    C = C
    c1 = c1
    c2 = c2
    Unknown = Unknown
    Servers = {A, B, C}
    Links <- LineLinks
    Linked <- LineLinked
    Components = {c1}
    Defined <- LineDefined
    Present <- LineDefined
    Domains = {"DoI"}
    MaxChanges <- LineChanges
    Registering <- LineRegistering
    Breaking = {}
SPECIFICATION Spec
INVARIANT DefinitionsAgree
CHECK_DEADLOCK FALSE
