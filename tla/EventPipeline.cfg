SPECIFICATION Spec
CONSTANTS
  Seconds = {1, 2, 3}
  MaxTrades = 4
  MaxOrders = 3
  ReadCount = 2
  BatchSize = 2
  MaxFailures = 3
  NoCandle = NoCandle
  Deployments <- OneWayAtATime
CHECK_DEADLOCK FALSE
INVARIANTS TypeOK AckedIsWritten CountedOnce CompleteRows
PROPERTIES WrittenInTheEnd
