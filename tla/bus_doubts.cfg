CHECK_DEADLOCK FALSE
CONSTANTS
  Scripts <- Doubts
  Onus = {"prompt", "off", "flaky"}
SPECIFICATION Spec
INVARIANTS
  AlwaysOwn
PROPERTIES
  PresentIsListed
