SPECIFICATION MCSpec
CONSTANTS
 Bots = {b1,b2}
 Stops = {s1,s2}
 NoBot = NoBot
 Sims = {m1,m2}
 SimIds = {i1}
 SimStops = {t1}
 NoSim = NoSim
 Room = 1
INVARIANTS TypeOK RunningHasLoop RunningIsListed
PROPERTIES StoppedLoopEnds CancelledBotsEnd
CHECK_DEADLOCK FALSE
