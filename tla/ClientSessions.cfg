CONSTANTS
    Entities = {"e1", "e2"}
    Initial = {"e1"}
    MaxChanges = 1
SPECIFICATION Spec
INVARIANTS
      ClientFollows
    NeverRefused
PROPERTIES
    SignInCompletes
CHECK_DEADLOCK FALSE
