CONSTANTS
    Entities = {"e1", "e2"}
    Initial = {"e1"}
    MaxChanges = 1
SPECIFICATION Spec
INVARIANT NoUpdateLost
CHECK_DEADLOCK FALSE
