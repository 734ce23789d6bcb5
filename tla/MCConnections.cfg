SPECIFICATION MCSpec
CONSTANTS
 Clients = {c1, c2}
 Users = {u1, u2}
 Guest = Guest
 Capacity = 2
 Updaters = {a, b}
 SendCapacity = 2
 MaxChanges = 2
 MaxFills = 2
 MaxOthers = 1
 NoDepth = NoDepth
INVARIANTS TypeOK UserClientsAreClients NoSendOnClosed
PROPERTIES LostConnectionsEnd StopEndsWriters DepthCatchesUp PortfolioCatchesUp
\* The pumps of a connection that is gone have ended.
CHECK_DEADLOCK FALSE
