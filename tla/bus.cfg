CHECK_DEADLOCK FALSE
CONSTANTS
  Scripts <- MCScripts
  Onus = {"prompt", "off", "flaky"}
SPECIFICATION FairSpec
INVARIANTS
  CalmIsRight
  IdleMeansOwn
PROPERTIES
  FoundAgain
