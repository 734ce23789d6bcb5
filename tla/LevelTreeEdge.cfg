SPECIFICATION Spec
CONSTANTS
  Prices = {1, 2, 3, 4, 5}
  NoLevel = NoLevel
INVARIANT EdgeIsBest
CHECK_DEADLOCK FALSE
