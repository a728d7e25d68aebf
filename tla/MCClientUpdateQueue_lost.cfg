\* One thread changes attributes, one client: a change between the flush and the clearing.
SPECIFICATION Spec
CONSTANTS
    Client = {c1}
    Entity = {e}
    Writer = {t1}
    Failing = {}
    MaxChanges = 2
    Nothing = Nothing
INVARIANTS NoUpdateLost
CHECK_DEADLOCK FALSE
