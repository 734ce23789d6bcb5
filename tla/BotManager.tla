------------------------------ MODULE BotManager ------------------------------
(***************************************************************************)
(* The trading bots of users: CreateBot, which creates and starts a bot in *)
(* one request, StopBot, and the event loop of a bot.  The lock of the     *)
(* manager is given up while Start connects, and before Stop closes the    *)
(* client and cleans up.  A bot's id is new, so that it is started once.   *)
(* What the loop does with a message changes nothing here.                 *)
(***************************************************************************)
EXTENDS Integers

CONSTANTS Bots,
          Stops, \* requests to stop a bot
          NoBot

ASSUME BotConstants == NoBot \notin Bots

VARIABLES
  bots,      \* BotManager.bots
  start,     \* bot -> where the request that creates it is
  running,   \* BotInstance.running
  stopCh,    \* bot -> stopCh: "nil", "open" or "closed"
  conn,      \* bot -> the connection of its client: "nil", "open", "lost" or "closed"
  container, \* bot -> what its strategy has in Docker: "none", "up" or "removed"
  loop,      \* bot -> where its event loop is
  stop       \* request to stop -> where it is, and the bot it names

botVars == <<bots, start, running, stopCh, conn, container, loop, stop>>

BotInit == /\ bots = {}
           /\ start = [b \in Bots |-> "none"]
           /\ running = [b \in Bots |-> FALSE]
           /\ stopCh = [b \in Bots |-> "nil"]
           /\ conn = [b \in Bots |-> "nil"]
           /\ container = [b \in Bots |-> "none"]
           /\ loop = [b \in Bots |-> "off"]
           /\ stop = [s \in Stops |-> [at |-> "none", bot |-> NoBot]]

At(f, x, from, to) == f[x] = from /\ f' = [f EXCEPT ![x] = to]

-----------------------------------------------------------------------------
(* CreateBot *)

(* The strategy's container is started with the lock held. *)
Create(b) ==
  /\ At(start, b, "none", "created")
  /\ bots' = bots \cup {b}
  /\ container' = [container EXCEPT ![b] = "up"]
  /\ UNCHANGED <<running, stopCh, conn, loop, stop>>

Start(b) ==
  /\ At(start, b, "created", "connecting")
  /\ stopCh' = [stopCh EXCEPT ![b] = "open"]
  /\ running' = [running EXCEPT ![b] = TRUE]
  /\ UNCHANGED <<bots, conn, container, loop, stop>>

Connect(b) ==
  /\ At(start, b, "connecting", "started")
  /\ conn' = [conn EXCEPT ![b] = "open"]
  /\ loop' = [loop EXCEPT ![b] = "poll"]
  /\ UNCHANGED <<bots, running, stopCh, container, stop>>

\* Mutant of ConnectFails: the bot is left as it is.
ConnectFailsQuietly(b) ==
  /\ At(start, b, "connecting", "failed")
  /\ UNCHANGED <<bots, running, stopCh, conn, container, loop, stop>>

ConnectFails(b) ==
  /\ At(start, b, "connecting", "failed")
  /\ running' = [running EXCEPT ![b] = FALSE]
  /\ stopCh' = [stopCh EXCEPT ![b] = "closed"]
  /\ UNCHANGED <<bots, conn, container, loop, stop>>

Remove(b) ==
  /\ At(start, b, "failed", "removed")
  /\ bots' = bots \ {b}
  /\ UNCHANGED <<running, stopCh, conn, container, loop, stop>>

-----------------------------------------------------------------------------
(* StopBot *)

Goes(s, from, to) == /\ stop[s].at = from
                     /\ stop' = [stop EXCEPT ![s].at = to]

Get(s, b) ==
  /\ stop[s].at = "none" /\ b \in bots
  /\ stop' = [stop EXCEPT ![s] = [at |-> "found", bot |-> b]]
  /\ UNCHANGED <<bots, start, running, stopCh, conn, container, loop>>

(* Stop, up to the end of its critical section *)
Stop(s) ==
  LET b == stop[s].bot
  IN  \/ /\ b \in bots /\ running[b]
         /\ Goes(s, "found", "closing")
         /\ running' = [running EXCEPT ![b] = FALSE]
         /\ stopCh' = [stopCh EXCEPT ![b] = "closed"]
         /\ UNCHANGED <<bots, start, conn, container, loop>>
      \/ /\ ~(b \in bots /\ running[b])
         /\ Goes(s, "found", IF b \in bots THEN "stopped" ELSE "not found")
         /\ UNCHANGED <<bots, start, running, stopCh, conn, container, loop>>

\* Mutant of Close: the client is left to the event loop.
CloseNothing(s) ==
  /\ Goes(s, "closing", "cleaning")
  /\ UNCHANGED <<bots, start, running, stopCh, conn, container, loop>>

\* Mutant of Close: it does not look whether there is a connection.
CloseAlways(s) ==
  /\ Goes(s, "closing", "cleaning")
  /\ conn' = [conn EXCEPT ![stop[s].bot] = "closed"]
  /\ UNCHANGED <<bots, start, running, stopCh, container, loop>>

(* A client that has not connected yet has nothing to close. *)
Close(s) ==
  LET b == stop[s].bot
  IN  /\ Goes(s, "closing", "cleaning")
      /\ conn' = [conn EXCEPT ![b] = IF @ = "nil" THEN @ ELSE "closed"]
      /\ UNCHANGED <<bots, start, running, stopCh, container, loop>>

StopStrategy(s) ==
  /\ Goes(s, "cleaning", "stopped")
  /\ container' = [container EXCEPT ![stop[s].bot] = "removed"]
  /\ UNCHANGED <<bots, start, running, stopCh, conn, loop>>

-----------------------------------------------------------------------------
(* runLoop *)

Poll(b) ==
  /\ At(loop, b, "poll", IF stopCh[b] = "closed" THEN "exit" ELSE "recv")
  /\ UNCHANGED <<bots, start, running, stopCh, conn, container, stop>>

(* A message comes and is handled. *)
Recv(b) ==
  /\ conn[b] = "open"
  /\ At(loop, b, "recv", "poll")
  /\ UNCHANGED <<bots, start, running, stopCh, conn, container, stop>>

RecvFails(b) ==
  /\ conn[b] # "open"
  /\ At(loop, b, "recv", "exit")
  /\ UNCHANGED <<bots, start, running, stopCh, conn, container, stop>>

Exit(b) ==
  /\ At(loop, b, "exit", "done")
  /\ running' = [running EXCEPT ![b] = FALSE]
  /\ UNCHANGED <<bots, start, stopCh, conn, container, stop>>

(* The server drops the connection. *)
Drops(b) ==
  /\ At(conn, b, "open", "lost")
  /\ UNCHANGED <<bots, start, running, stopCh, container, loop, stop>>

StartSteps(b) == Start(b) \/ Connect(b) \/ ConnectFails(b) \/ Remove(b)
StopSteps(s)  == Stop(s) \/ Close(s) \/ StopStrategy(s)
LoopSteps(b)  == Poll(b) \/ RecvFails(b) \/ Exit(b)

BotNext == \/ \E b \in Bots : Create(b) \/ StartSteps(b) \/ LoopSteps(b) \/ Recv(b) \/ Drops(b)
           \/ \E s \in Stops : StopSteps(s) \/ \E b \in Bots : Get(s, b)

(* Goroutines run on; that a message comes or a connection ends is up to    *)
(* the server.                                                              *)
BotFairness == /\ \A b \in Bots : WF_botVars(StartSteps(b)) /\ WF_botVars(LoopSteps(b))
               /\ \A s \in Stops : WF_botVars(StopSteps(s))

BotSpec == BotInit /\ [][BotNext]_botVars /\ BotFairness

-----------------------------------------------------------------------------
BotTypeOK ==
  /\ bots \subseteq Bots
  /\ start \in [Bots -> {"none", "created", "connecting", "started", "failed", "removed"}]
  /\ running \in [Bots -> BOOLEAN]
  /\ stopCh \in [Bots -> {"nil", "open", "closed"}]
  /\ conn \in [Bots -> {"nil", "open", "lost", "closed"}]
  /\ container \in [Bots -> {"none", "up", "removed"}]
  /\ loop \in [Bots -> {"off", "poll", "recv", "exit", "done"}]
  /\ stop \in [Stops -> [at: {"none", "found", "closing", "cleaning", "stopped", "not found"},
                         bot: Bots \cup {NoBot}]]
  /\ \A b \in Bots : conn[b] = "nil" <=> loop[b] = "off"

(* A bot that is listed as running is being connected or has a loop, in     *)
(* whatever order the connection, its failure, stops and the loop's own end *)
(* come; and the other way round a loop that has not been told to stop is   *)
(* listed as running.                                                       *)
RunningHasLoop ==
  \A b \in Bots :
    /\ running[b] => start[b] = "connecting" \/ loop[b] \in {"poll", "recv", "exit"}
    /\ loop[b] \in {"poll", "recv"} /\ ~running[b] => stopCh[b] = "closed"

(* A stopped bot's loop ends, also when the stop came while the bot was     *)
(* connecting and closed nothing.                                           *)
StoppedLoopEnds ==
  \A b \in Bots : stopCh[b] = "closed" /\ loop[b] # "off" ~> loop[b] = "done"

=============================================================================
