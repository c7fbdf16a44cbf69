CONSTANTS
  NumSlots = 2
  Ctrl = 2
  GW = 3
  Types = {"FE8","EPN","GE8"}
  MaxPlugs = 2
  MaxFaults = 1
  MaxBusy = 1
  MaxClicks = 1
SPECIFICATION Spec
INVARIANTS
  AlarmsMatchTable
  TypesTrue
  RightCard
  PageFresh
PROPERTIES
  OfflineMeansGone
