SPECIFICATION Spec
CONSTANTS
  Prices = {1, 2, 3, 4, 5, 6, 7}
  NoLevel = NoLevel
INVARIANTS TypeOK DepthIsLevels EdgeIsBestUntilInnerRemoval
PROPERTY EdgeRightWhileBalanced
CHECK_DEADLOCK FALSE
