CONSTANTS
  IdOf <- OwnIds
  Sessions = {1,2}
  Views = {"tree"}
  Ids = {11,12}
  Idle = 1
  Gap = 1
  MaxChanges = 2
  MaxLost = 1
  MaxSuspends = 1
SPECIFICATION RefreshFairSpec
INVARIANTS
  ChangeIsFlagged
PROPERTIES
  OnlyIdleRemoved
  StaleIsRefreshed
