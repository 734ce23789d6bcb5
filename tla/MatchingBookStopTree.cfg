SPECIFICATION Spec
CONSTANTS
  Prices = {1, 2}
  Quantities = {1}
  MaxOrders = 3
  MaxCalls = 3
  NoOrder = NoOrder
INVARIANT StopsInTheirTree
CHECK_DEADLOCK FALSE
