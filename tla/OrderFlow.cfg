SPECIFICATION MCSpec
SYMMETRY Symmetry
CONSTANTS
  Users = {u1, u2}
  Threads = {r1, r2}
  Generator = gen
  Prices = {1, 2}
  Quantities = {2}
  QuoteSizes = {1, 2}
  Deposit = 5
  MaxReported = 2
  MaxRequests = 2
  MaxQuotes = 2
  MaxRestarts = 1
  NoOrder = NoOrder
  NoUser = NoUser
INVARIANTS TypeOK CashAddsUp EscrowAccounted NeverCreditedTwice TrackerKnowsCredits
CHECK_DEADLOCK FALSE
