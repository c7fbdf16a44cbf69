CONSTANTS
  NumSlots = 3
  Ctrl = 2
  GW = 4
  Types = {"FE8","FSA","GE8"}
  MaxPlugs = 1
  MaxFaults = 0
  MaxBusy = 0
  MaxClicks = 0
SPECIFICATION FairSpec
PROPERTIES
  EventuallyListed
  EventuallyRemoved
  PageCatchesUp
  AlarmsArrive
