CHECK_DEADLOCK FALSE
CONSTANTS
  Scripts <- MCScripts
  MaxEvents = 2
  MaxCounts = 1
SPECIFICATION FairSpec
INVARIANTS
  OwnAnswer
  SettingsKept
  TablesTrue
  NothingCountedTwice
PROPERTIES
  RequestEnds
