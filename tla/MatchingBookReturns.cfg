SPECIFICATION Spec
CONSTANTS
  Prices = {1, 2}
  Quantities = {1, 2}
  MaxOrders = 3
  MaxCalls = 3
  NoOrder = NoOrder
PROPERTIES CallsReturn LedgerKept
\* The model stops where a level is freed that a price map still names.
CHECK_DEADLOCK FALSE
