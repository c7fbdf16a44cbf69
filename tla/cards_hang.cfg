CONSTANTS
  NumSlots = 2
  Ctrl = 2
  GW = 3
  Types = {"EPN"}
  MaxPlugs = 1
  MaxFaults = 0
  MaxBusy = 0
  MaxClicks = 0
SPECIFICATION FairSpec
PROPERTIES
  AgentYields
