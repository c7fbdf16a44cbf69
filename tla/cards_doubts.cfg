CONSTANTS
  NumSlots = 3
  Ctrl = 2
  GW = 4
  Types = {"FSA"}
  MaxPlugs = 2
  MaxFaults = 1
  MaxBusy = 0
  MaxClicks = 1
SPECIFICATION Spec
INVARIANTS
  AnsweredMeansListed
  ResponseIsOwn
