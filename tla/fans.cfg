CONSTANTS
  Fans = {1, 2}
  Temps = {1, 3}
  Configs <- TwoConfigs
  Default <- Auto
  FailDelay = 2
  Settle = 1
  MaxWarms = 1
  MaxSets = 1
  MaxRestarts = 1
  MaxLost = 1
  MaxRefused = 0
  MaxResets = 1
  MaxBreaks = 1
  MaxDbFaults = 0
SPECIFICATION FairSpec
INVARIANTS
  ShownIsSeen
  ObeysUnlessRefused
  NoFalseFailure
PROPERTIES
  FansFollow
