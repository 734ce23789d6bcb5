SPECIFICATION Spec
CONSTANTS
  Users = {u1}
  Threads = {r1, r2}
  Generator = gen
  Prices = {1}
  Quantities = {2}
  QuoteSizes = {1}
  Deposit = 3
  MaxReported = 1
  MaxRequests = 2
  MaxQuotes = 1
  MaxRestarts = 0
  NoOrder = NoOrder
  NoUser = NoUser
INVARIANT EscrowAccounted
PROPERTY RequestsAnswered
CHECK_DEADLOCK FALSE
