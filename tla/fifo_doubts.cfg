CHECK_DEADLOCK FALSE
CONSTANTS
  Scripts <- MCScripts
  MaxEvents = 1
  MaxCounts = 1
SPECIFICATION Spec
INVARIANTS
  NothingSpoilt
  LateIsHarmless
