CHECK_DEADLOCK FALSE
CONSTANTS
  PortNos <- TwoPorts
  Values <- TwoValues
  Fresh <- MCFresh
  NoRow = noRow
  MaxRequests = 3
  MaxPulls = 1
  MaxFaults = 1
SPECIFICATION Spec
INVARIANTS
  DownKept
  PortsComeBack
