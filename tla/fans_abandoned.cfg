CONSTANTS
  Fans = {1, 2}
  Temps <- Degrees
  Configs <- AllConfigs
  Default <- Manual
  FailDelay = 2
  Settle = 1
  MaxWarms = 0
  MaxSets = 0
  MaxRestarts = 0
  MaxLost = 0
  MaxRefused = 0
  MaxResets = 1
  MaxBreaks = 1
  MaxDbFaults = 0
SPECIFICATION FairSpec
PROPERTIES
  TurnsWhenMended
