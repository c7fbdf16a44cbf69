CONSTANTS
  c2 = c2
  c1 = c1
  Clients = {c1, c2}
  DeadlockLimit = 2
  SemTries = 2
  CheckEvery = 1
  CallIds = 1
  Slack = 0
  MaxKills = 1
  MaxLate = 1
SPECIFICATION QuietSpec
INVARIANTS
  SafeUntilFault
PROPERTIES
  SemaphoreRecovers
  CallReturns
