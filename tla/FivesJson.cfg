SPECIFICATION Spec
CONSTANTS
  NumCalls = 3
  OneWay = {2}
  Throwing = {3}
  Funcs = {"removeObject"}
  OneWayFuncs = {}
  MaxReconnectAttempts = 3
INVARIANTS
  SentOnceInOrder
  NoneForgottenIfClosedCleanly
PROPERTIES
  AnswersBelong
  RepliesGoBack
  KeepsPromise
  CacheDrains
CHECK_DEADLOCK FALSE
