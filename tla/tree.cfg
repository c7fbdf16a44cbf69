CONSTANTS
  Onus = {1, 2}
  Layouts <- MCLayouts
  Start <- MCStart
  Sns = {1, 2}
  Names = {n1}
  Blank = blank
  NoRow = noRow
  MaxQueue = 2
  MaxTake = 1
  MaxError = 1
  MaxEvents = 1
SPECIFICATION FairSpec
INVARIANTS
  TreeFollows
  CalmIsTrue
PROPERTIES
  TreeCatchesUp
