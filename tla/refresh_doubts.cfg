CONSTANTS
  IdOf <- SameId
  Sessions = {1,2}
  Views = {"tree"}
  Ids = {11,12}
  Idle = 1
  Gap = 1
  MaxChanges = 1
  MaxLost = 0
  MaxSuspends = 0
SPECIFICATION RefreshSpec
PROPERTIES
  NewClientIsCurrent
  OwnFlagsOnly
