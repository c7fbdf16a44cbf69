CONSTANTS
  c3 = c3
  c2 = c2
  c1 = c1
  Clients = {c1, c2, c3}
  SemTries = 2
  CheckEvery = 2
  DeadlockLimit = 2
  CallIds = 2
  Slack = 1
  MaxKills = 0
  MaxLate = 0
SPECIFICATION Spec
PROPERTIES
  BreakOnlyOnDeadlock
  ServiceSpec
SYMMETRY Symmetry
