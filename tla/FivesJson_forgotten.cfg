SPECIFICATION Spec
CONSTANTS
  NumCalls = 1
  OneWay = {}
  Throwing = {}
  Funcs = {}
  OneWayFuncs = {}
  MaxReconnectAttempts = 3
INVARIANT
  NoCallForgotten
CHECK_DEADLOCK FALSE
