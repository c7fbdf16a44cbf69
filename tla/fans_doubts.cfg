CONSTANTS
  Fans = {1, 2}
  Temps <- Degrees
  Configs <- AllConfigs
  Default <- Manual
  FailDelay = 2
  Settle = 1
  MaxWarms = 0
  MaxSets = 1
  MaxRestarts = 0
  MaxLost = 0
  MaxRefused = 1
  MaxResets = 0
  MaxBreaks = 1
  MaxDbFaults = 1
SPECIFICATION Spec
INVARIANTS
  FailureIsAlarmed
  Obeys
