CONSTANTS
  NumOnus = 1
  NumIos = 2
  Conns = {0,1}
  Configured = {0,1}
  QSize = 3
  Threshold = 1
  ChkPoint = 2
  TimedOut = 3
  WaitTime = 3
  ConIdle = 3
  MaxReports = 2
SPECIFICATION FairSpec
INVARIANTS
  SocketTimed
  ServerKnows
PROPERTIES
  EventuallyReported
  EventuallyQuiet
