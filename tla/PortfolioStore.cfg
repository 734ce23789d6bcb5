SPECIFICATION MCSpec
CONSTANTS
  Users = {alice}
  Requests = {1, 2}
  Calls = {"buy", "sell", "release"}
  QueueCap = 1
  MaxCalls = 3
  MaxFailures = 1
  MaxRestarts = 1
  NotLoaded = NotLoaded
CHECK_DEADLOCK FALSE
INVARIANTS TypeOK NoUpdateLost CashAndPositionsAgree
PROPERTIES FlushedInTheEnd
