SPECIFICATION MCSpec
CONSTANTS
  Prices = {1, 2}
  Quantities = {1, 2}
  MaxOrders = 4
  MaxCalls = 4
  NoOrder = NoOrder
INVARIANTS BookInv ListsMatchOrderMap RestsAtItsLimit SharesAccounted
PROPERTIES OnlyModifyCrosses PlacesKept
\* The model stops where a level is freed that a price map still names.
CHECK_DEADLOCK FALSE
