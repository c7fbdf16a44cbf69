CONSTANTS
  c1 = c1
  Clients = {c1}
  DeadlockLimit = 2
  SemTries = 1
  CheckEvery = 1
  CallIds = 3
  Slack = 0
  MaxKills = 1
  MaxLate = 0
SPECIFICATION QuietSpec
PROPERTIES
  AnswersRealign
