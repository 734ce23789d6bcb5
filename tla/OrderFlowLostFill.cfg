SPECIFICATION MCSpec
CONSTANTS
  Users = {u1}
  Threads = {r1}
  Generator = gen
  Prices = {1, 2}
  Quantities = {2}
  QuoteSizes = {1, 2}
  Deposit = 5
  MaxReported = 2
  MaxRequests = 1
  MaxQuotes = 2
  MaxRestarts = 0
  NoOrder = NoOrder
  NoUser = NoUser
INVARIANT FillsReachPortfolio
CHECK_DEADLOCK FALSE
