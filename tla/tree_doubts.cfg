CONSTANTS
  Onus = {1}
  Layouts <- OneLayouts
  Start <- MCStart
  Sns = {1, 2}
  Names = {n1}
  Blank = blank
  NoRow = noRow
  MaxQueue = 2
  MaxTake = 2
  MaxError = 1
  MaxEvents = 4
SPECIFICATION Spec
INVARIANTS
  NumberTrue
  RestartIsHarmless
  NamedIsKnown
