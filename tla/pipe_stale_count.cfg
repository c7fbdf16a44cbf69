CONSTANTS
  c2 = c2
  c1 = c1
  Clients = {c1, c2}
  DeadlockLimit = 2
  SemTries = 2
  CheckEvery = 2
  CallIds = 2
  Slack = 1
  MaxKills = 1
  MaxLate = 0
SPECIFICATION Spec
PROPERTIES
  BreakOnlyOnDeadlock
