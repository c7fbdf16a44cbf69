CONSTANTS
  NumOnus = 1
  NumIos = 2
  Conns = {0}
  Configured = {0}
  QSize = 3
  Threshold = 1
  ChkPoint = 2
  TimedOut = 3
  WaitTime = 3
  ConIdle = 3
  MaxReports = 4
SPECIFICATION Spec
INVARIANTS
  HeldLongEnough
PROPERTIES
  DiscardsOldest
