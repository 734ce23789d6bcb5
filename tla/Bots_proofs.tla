----------------------------- MODULE Bots_proofs -----------------------------
(* What holds of the trading bots and of the simulation bots for any number *)
(* of bots, requests and connections.                                       *)
EXTENDS MCBots, TLAPS

-----------------------------------------------------------------------------
(* Trading bots *)

(* A bot has a loop from the moment its start has connected; a stop that     *)
(* comes while it connects has closed its stopCh.                            *)
StartedHaveLoops ==
  \A b \in Bots : /\ start[b] = "started" <=> loop[b] # "off"
                  /\ start[b] = "connecting" /\ ~running[b] => stopCh[b] = "closed"

BotInv == BotTypeOK /\ RunningHasLoop /\ StartedHaveLoops

StartPlace == {"none", "created", "connecting", "started", "failed", "removed"}
LoopPlace  == {"off", "poll", "recv", "exit", "done"}
StopPlace  == {"none", "found", "closing", "cleaning", "stopped", "not found"}
StopState  == [at: StopPlace, bot: Bots \cup {NoBot}]

LEMMA AtMoves ==
  ASSUME NEW f, NEW S, f \in [Bots -> S], NEW g, NEW b \in Bots, NEW from, NEW to \in S,
         f[b] = from, g = [f EXCEPT ![b] = to]
  PROVE  /\ g \in [Bots -> S] /\ g[b] = to
         /\ \A d \in Bots : d # b => g[d] = f[d]
  OBVIOUS

LEMMA GoesTypes ==
  ASSUME stop \in [Stops -> StopState], NEW s \in Stops, NEW from, NEW to \in StopPlace,
         Goes(s, from, to)
  PROVE  stop' \in [Stops -> StopState]
  <1>1. [stop[s] EXCEPT !.at = to] \in StopState
    BY DEF StopState
  <1>2. stop' = [stop EXCEPT ![s] = [stop[s] EXCEPT !.at = to]]
    BY DEF Goes
  <1> QED
    BY <1>1, <1>2

LEMMA StepBotType ==
  ASSUME BotTypeOK, StartedHaveLoops, [BotNext]_botVars
  PROVE  BotTypeOK'
  <1> USE DEF BotTypeOK, At
  <1>1. ASSUME NEW b \in Bots, Create(b)
        PROVE  BotTypeOK'
    BY <1>1 DEF Create
  <1>2. ASSUME NEW b \in Bots, Start(b)
        PROVE  BotTypeOK'
    BY <1>2 DEF Start
  <1>3. ASSUME NEW b \in Bots, Connect(b)
        PROVE  BotTypeOK'
    BY <1>3 DEF Connect
  <1>4. ASSUME NEW b \in Bots, ConnectFails(b)
        PROVE  BotTypeOK'
    BY <1>4 DEF ConnectFails
  <1>5. ASSUME NEW b \in Bots, Remove(b)
        PROVE  BotTypeOK'
    BY <1>5 DEF Remove
  <1>6. ASSUME NEW s \in Stops, NEW b \in Bots, Get(s, b)
        PROVE  BotTypeOK'
    BY <1>6 DEF Get
  <1>7. ASSUME NEW s \in Stops, Stop(s)
        PROVE  BotTypeOK'
    <2>1. stop' \in [Stops -> StopState]
      BY <1>7, GoesTypes DEF Stop, StopState, StopPlace
    <2>2. running' \in [Bots -> BOOLEAN] /\ stopCh' \in [Bots -> {"nil", "open", "closed"}]
      BY <1>7 DEF Stop
    <2>3. UNCHANGED <<bots, start, conn, container, loop>>
      BY <1>7 DEF Stop
    <2> QED
      BY <2>1, <2>2, <2>3 DEF StopState, StopPlace
  <1>8. ASSUME NEW s \in Stops, Close(s)
        PROVE  BotTypeOK'
    <2>1. stop' \in [Stops -> StopState]
      BY <1>8, GoesTypes DEF Close, StopState, StopPlace
    <2>2. /\ conn' \in [Bots -> {"nil", "open", "lost", "closed"}]
          /\ \A b \in Bots : conn'[b] = "nil" <=> conn[b] = "nil"
      BY <1>8 DEF Close
    <2>3. UNCHANGED <<bots, start, running, stopCh, container, loop>>
      BY <1>8 DEF Close
    <2> QED
      BY <2>1, <2>2, <2>3 DEF StopState, StopPlace
  <1>9. ASSUME NEW s \in Stops, StopStrategy(s)
        PROVE  BotTypeOK'
    <2>1. stop' \in [Stops -> StopState]
      BY <1>9, GoesTypes DEF StopStrategy, StopState, StopPlace
    <2>2. container' \in [Bots -> {"none", "up", "removed"}]
      BY <1>9 DEF StopStrategy
    <2>3. UNCHANGED <<bots, start, running, stopCh, conn, loop>>
      BY <1>9 DEF StopStrategy
    <2> QED
      BY <2>1, <2>2, <2>3 DEF StopState, StopPlace
  <1>10. ASSUME NEW b \in Bots, Poll(b)
         PROVE  BotTypeOK'
    BY <1>10 DEF Poll
  <1>11. ASSUME NEW b \in Bots, Recv(b) \/ RecvFails(b)
         PROVE  BotTypeOK'
    BY <1>11 DEF Recv, RecvFails
  <1>12. ASSUME NEW b \in Bots, Exit(b)
         PROVE  BotTypeOK'
    BY <1>12 DEF Exit
  <1>13. ASSUME NEW b \in Bots, Drops(b)
         PROVE  BotTypeOK'
    BY <1>13 DEF Drops
  <1>14. CASE UNCHANGED botVars
    BY <1>14 DEF botVars
  <1> QED
    BY <1>1, <1>2, <1>3, <1>4, <1>5, <1>6, <1>7, <1>8, <1>9, <1>10, <1>11, <1>12, <1>13, <1>14
    DEF BotNext, StartSteps, StopSteps, LoopSteps

(* A step changes what matters of one bot at most. *)
LEMMA StepLoops ==
  ASSUME BotInv, [BotNext]_botVars
  PROVE  RunningHasLoop' /\ StartedHaveLoops'
  <1> DEFINE Fine(st, ru, ch, lo) ==
        /\ ru => st = "connecting" \/ lo \in {"poll", "recv", "exit"}
        /\ lo \in {"poll", "recv"} /\ ~ru => ch = "closed"
        /\ st = "started" <=> lo # "off"
        /\ st = "connecting" /\ ~ru => ch = "closed"
  <1>1. BotTypeOK /\ \A d \in Bots : Fine(start[d], running[d], stopCh[d], loop[d])
    BY DEF BotInv, RunningHasLoop, StartedHaveLoops
  <1> SUFFICES ASSUME NEW d \in Bots
               PROVE  Fine(start'[d], running'[d], stopCh'[d], loop'[d])
    BY DEF RunningHasLoop, StartedHaveLoops
  <1> USE DEF BotTypeOK, At
  <1>2. ASSUME NEW b \in Bots, Create(b)
        PROVE  Fine(start'[d], running'[d], stopCh'[d], loop'[d])
    BY <1>1, <1>2 DEF Create
  <1>3. ASSUME NEW b \in Bots, Start(b)
        PROVE  Fine(start'[d], running'[d], stopCh'[d], loop'[d])
    BY <1>1, <1>3 DEF Start
  <1>4. ASSUME NEW b \in Bots, Connect(b)
        PROVE  Fine(start'[d], running'[d], stopCh'[d], loop'[d])
    BY <1>1, <1>4 DEF Connect
  <1>5. ASSUME NEW b \in Bots, ConnectFails(b)
        PROVE  Fine(start'[d], running'[d], stopCh'[d], loop'[d])
    BY <1>1, <1>5 DEF ConnectFails
  <1>6. ASSUME NEW b \in Bots, Remove(b)
        PROVE  Fine(start'[d], running'[d], stopCh'[d], loop'[d])
    BY <1>1, <1>6 DEF Remove
  <1>7. ASSUME NEW s \in Stops, Stop(s)
        PROVE  Fine(start'[d], running'[d], stopCh'[d], loop'[d])
    <2>1. CASE UNCHANGED <<start, running, stopCh, loop>>
      BY <1>1, <2>1
    <2>2. ASSUME NEW b \in Bots, running' = [running EXCEPT ![b] = FALSE],
                 stopCh' = [stopCh EXCEPT ![b] = "closed"], start' = start, loop' = loop
          PROVE  Fine(start'[d], running'[d], stopCh'[d], loop'[d])
      BY <1>1, <2>2
    <2> QED
      BY <1>1, <1>7, <2>1, <2>2 DEF Stop
  <1>8. ASSUME NEW b \in Bots, Poll(b)
        PROVE  Fine(start'[d], running'[d], stopCh'[d], loop'[d])
    BY <1>1, <1>8 DEF Poll
  <1>9. ASSUME NEW b \in Bots, Recv(b) \/ RecvFails(b)
        PROVE  Fine(start'[d], running'[d], stopCh'[d], loop'[d])
    <2>1. CASE Recv(b)
      BY <1>1, <2>1 DEF Recv
    <2>2. CASE RecvFails(b)
      BY <1>1, <2>2 DEF RecvFails
    <2> QED
      BY <1>9, <2>1, <2>2
  <1>10. ASSUME NEW b \in Bots, Exit(b)
         PROVE  Fine(start'[d], running'[d], stopCh'[d], loop'[d])
    BY <1>1, <1>10 DEF Exit
  <1>11. CASE UNCHANGED <<start, running, stopCh, loop>>
    BY <1>1, <1>11
  <1> QED
    BY <1>2, <1>3, <1>4, <1>5, <1>6, <1>7, <1>8, <1>9, <1>10, <1>11
    DEF BotNext, StartSteps, StopSteps, LoopSteps, Get, Close, StopStrategy, Drops, botVars

LEMMA StepBot ==
  ASSUME BotInv, [BotNext]_botVars
  PROVE  BotInv'
  BY StepBotType, StepLoops DEF BotInv

LEMMA InitBot ==
  ASSUME BotInit
  PROVE  BotInv
  <1>1. stop \in [Stops -> StopState]
    BY DEF BotInit, StopState, StopPlace
  <1>2. BotTypeOK
    BY <1>1 DEF BotInit, BotTypeOK, StopState, StopPlace
  <1> QED
    BY <1>2 DEF BotInit, BotInv, RunningHasLoop, StartedHaveLoops

(* A bot that is listed as running is being connected or has a loop, and a   *)
(* loop that nobody told to stop is listed as running: whenever stops,       *)
(* failures and lost connections come.                                       *)
THEOREM RunningBotsHaveLoops == BotSpec => []RunningHasLoop
  <1>1. BotInit => BotInv
    BY InitBot
  <1>2. BotInv /\ [BotNext]_botVars => BotInv'
    BY StepBot
  <1>3. BotInv => RunningHasLoop
    BY DEF BotInv
  <1> QED
    BY <1>1, <1>2, <1>3, PTL DEF BotSpec

-----------------------------------------------------------------------------
(* Simulation bots *)

(* A bot that is being started is on the map under its id, unless another    *)
(* start of the id has met it; so two of one id are never started unnoticed. *)
StartingIsListed ==
  closing = "no" =>
    \A b \in Sims : Starting(b) /\ sim[b].id \notin overlapped => simBots[sim[b].id] = b

(* A loop is that of a bot whose start is done, and it can be cancelled.     *)
GoesOn(w) == /\ w.cancelFunc # "nil" => w.start \in {"ready", "done"}
             /\ w.loop # "off" => w.cancelFunc # "nil" /\ w.start = "done"
             /\ w.loop = "select" => w.status = "running"
             /\ w.start = "ready" => w.cancelFunc # "nil"
             /\ w.start # "none" => w.id \in SimIds

SimInv == /\ SimTypeOK
          /\ \A b \in Sims : GoesOn(sim[b])
          /\ RunningIsListed
          /\ StartingIsListed

StartingPlaces == {"connecting", "connected", "ready", "failed"}

(* A step that changes one bot, launches it only when it was being started,  *)
(* and leaves the map alone. *)
LEMMA LocalStep ==
  ASSUME SimInv, NEW b \in Sims, NEW w \in Sim, sim' = [sim EXCEPT ![b] = w], Instance,
         GoesOn(w), w.id = sim[b].id,
         w.start \in StartingPlaces => Starting(b),
         w.loop = "select" => sim[b].loop = "select" \/ Starting(b)
  PROVE  SimInv'
  <1>1. /\ sim' \in [Sims -> Sim] /\ sim'[b] = w
        /\ \A d \in Sims : d # b => sim'[d] = sim[d]
    BY DEF SimInv, SimTypeOK
  <1>2. \A d \in Sims : GoesOn(sim'[d])
    BY <1>1 DEF SimInv
  <1>3. SimTypeOK'
    BY <1>1, <1>2 DEF SimInv, SimTypeOK, Instance, GoesOn
  <1>4. RunningIsListed'
    BY <1>1 DEF SimInv, RunningIsListed, StartingIsListed, Instance
  <1>5. StartingIsListed'
    BY <1>1 DEF SimInv, StartingIsListed, Instance, Starting, StartingPlaces
  <1> QED
    BY <1>2, <1>3, <1>4, <1>5 DEF SimInv, GoesOn

LEMMA DialKeeps ==
  ASSUME SimInv, NEW b \in Sims, Dial(b)
  PROVE  SimInv'
  <1>1. sim[b] \in Sim /\ GoesOn(sim[b])
    BY DEF SimInv, SimTypeOK
  <1>2. PICK to \in {"connected", "failed"}, dialled \in BOOLEAN :
          sim' = [sim EXCEPT ![b].start = to, ![b].open = dialled,
                             ![b].status = IF to = "failed" THEN "error" ELSE @]
    BY DEF Dial
  <1> DEFINE w == [sim[b] EXCEPT !.start = to, !.open = dialled,
                                 !.status = IF to = "failed" THEN "error" ELSE @]
  <1>3. w \in Sim /\ w.id = sim[b].id /\ w.start = to /\ w.loop = "off" /\ w.cancelFunc = "nil"
    BY <1>1 DEF Dial, Sim, GoesOn
  <1>4. sim' = [sim EXCEPT ![b] = w] /\ Instance /\ sim[b].start = "connecting"
    BY <1>2 DEF Dial
  <1>5. GoesOn(w) /\ Starting(b)
    BY <1>1, <1>3, <1>4 DEF GoesOn, Starting
  <1> HIDE DEF w
  <1> QED
    BY <1>3, <1>4, <1>5, LocalStep

LEMMA SetCancelFuncKeeps ==
  ASSUME SimInv, NEW b \in Sims, SetCancelFunc(b)
  PROVE  SimInv'
  <1> DEFINE w == [sim[b] EXCEPT !.start = "ready", !.cancelFunc = "set"]
  <1>1. sim[b] \in Sim /\ GoesOn(sim[b])
    BY DEF SimInv, SimTypeOK
  <1>2. w \in Sim /\ w.id = sim[b].id /\ w.start = "ready" /\ w.cancelFunc = "set"
        /\ w.loop = sim[b].loop /\ w.status = sim[b].status
    BY <1>1 DEF SetCancelFunc, Sim, GoesOn
  <1>3. sim' = [sim EXCEPT ![b] = w] /\ Instance
    BY DEF SetCancelFunc
  <1>4. GoesOn(w) /\ (w.start \in StartingPlaces => Starting(b))
    BY <1>1, <1>2 DEF SetCancelFunc, GoesOn, Starting, StartingPlaces
  <1> HIDE DEF w
  <1> QED
    BY <1>1, <1>2, <1>3, <1>4, LocalStep

LEMMA LaunchKeeps ==
  ASSUME SimInv, NEW b \in Sims, Launch(b)
  PROVE  SimInv'
  <1> DEFINE w == [sim[b] EXCEPT !.start = "done", !.status = "running",
                                 !.loop = "select", !.reader = "recv"]
  <1>1. sim[b] \in Sim /\ GoesOn(sim[b])
    BY DEF SimInv, SimTypeOK
  <1>2. w \in Sim /\ w.id = sim[b].id /\ w.start = "done" /\ w.cancelFunc = sim[b].cancelFunc
        /\ w.loop = "select" /\ w.status = "running" /\ Starting(b)
    BY <1>1 DEF Launch, Sim, GoesOn, Starting
  <1>3. sim' = [sim EXCEPT ![b] = w] /\ Instance
    BY DEF Launch
  <1>4. GoesOn(w) /\ (w.start \in StartingPlaces => Starting(b))
    BY <1>1, <1>2 DEF Launch, GoesOn, Starting, StartingPlaces
  <1> HIDE DEF w
  <1> QED
    BY <1>1, <1>2, <1>3, <1>4, LocalStep

LEMMA LoopCancelledKeeps ==
  ASSUME SimInv, NEW b \in Sims, LoopCancelled(b)
  PROVE  SimInv'
  <1> DEFINE w == [sim[b] EXCEPT !.loop = "exit"]
  <1>1. sim[b] \in Sim /\ GoesOn(sim[b])
    BY DEF SimInv, SimTypeOK
  <1>2. w \in Sim /\ w.id = sim[b].id /\ w.start = sim[b].start /\ w.cancelFunc = sim[b].cancelFunc
        /\ w.loop = "exit" /\ w.status = sim[b].status
    BY <1>1 DEF LoopCancelled, Sim, GoesOn
  <1>3. sim' = [sim EXCEPT ![b] = w] /\ Instance
    BY DEF LoopCancelled
  <1>4. GoesOn(w) /\ (w.start \in StartingPlaces => Starting(b))
    BY <1>1, <1>2 DEF LoopCancelled, GoesOn, Starting, StartingPlaces
  <1> HIDE DEF w
  <1> QED
    BY <1>1, <1>2, <1>3, <1>4, LocalStep

LEMMA LoopFailsKeeps ==
  ASSUME SimInv, NEW b \in Sims, LoopFails(b)
  PROVE  SimInv'
  <1> DEFINE w == [sim[b] EXCEPT !.loop = "exit", !.errCh = FALSE, !.status = "error"]
  <1>1. sim[b] \in Sim /\ GoesOn(sim[b])
    BY DEF SimInv, SimTypeOK
  <1>2. w \in Sim /\ w.id = sim[b].id /\ w.start = sim[b].start /\ w.cancelFunc = sim[b].cancelFunc
        /\ w.loop = "exit"
    BY <1>1 DEF LoopFails, Sim, GoesOn
  <1>3. sim' = [sim EXCEPT ![b] = w] /\ Instance
    BY DEF LoopFails
  <1>4. GoesOn(w) /\ (w.start \in StartingPlaces => Starting(b))
    BY <1>1, <1>2 DEF LoopFails, GoesOn, Starting, StartingPlaces
  <1> HIDE DEF w
  <1> QED
    BY <1>1, <1>2, <1>3, <1>4, LocalStep

LEMMA CloseClientKeeps ==
  ASSUME SimInv, NEW b \in Sims, CloseClient(b)
  PROVE  SimInv'
  <1> DEFINE w == [sim[b] EXCEPT !.loop = "closed", !.open = FALSE]
  <1>1. sim[b] \in Sim /\ GoesOn(sim[b])
    BY DEF SimInv, SimTypeOK
  <1>2. w \in Sim /\ w.id = sim[b].id /\ w.start = sim[b].start /\ w.cancelFunc = sim[b].cancelFunc
        /\ w.loop = "closed" /\ w.status = sim[b].status
    BY <1>1 DEF CloseClient, Sim, GoesOn
  <1>3. sim' = [sim EXCEPT ![b] = w] /\ Instance
    BY DEF CloseClient
  <1>4. GoesOn(w) /\ (w.start \in StartingPlaces => Starting(b))
    BY <1>1, <1>2 DEF CloseClient, GoesOn, Starting, StartingPlaces
  <1> HIDE DEF w
  <1> QED
    BY <1>1, <1>2, <1>3, <1>4, LocalStep

LEMMA SetStoppedKeeps ==
  ASSUME SimInv, NEW b \in Sims, SetStopped(b)
  PROVE  SimInv'
  <1> DEFINE w == [sim[b] EXCEPT !.loop = "done", !.status = "stopped"]
  <1>1. sim[b] \in Sim /\ GoesOn(sim[b])
    BY DEF SimInv, SimTypeOK
  <1>2. w \in Sim /\ w.id = sim[b].id /\ w.start = sim[b].start /\ w.cancelFunc = sim[b].cancelFunc
        /\ w.loop = "done"
    BY <1>1 DEF SetStopped, Sim, GoesOn
  <1>3. sim' = [sim EXCEPT ![b] = w] /\ Instance
    BY DEF SetStopped
  <1>4. GoesOn(w) /\ (w.start \in StartingPlaces => Starting(b))
    BY <1>1, <1>2 DEF SetStopped, GoesOn, Starting, StartingPlaces
  <1> HIDE DEF w
  <1> QED
    BY <1>1, <1>2, <1>3, <1>4, LocalStep

LEMMA TakeMessageKeeps ==
  ASSUME SimInv, NEW b \in Sims, TakeMessage(b)
  PROVE  SimInv'
  <1> DEFINE w == [sim[b] EXCEPT !.msgCh = @ - 1]
  <1>1. sim[b] \in Sim /\ GoesOn(sim[b])
    BY DEF SimInv, SimTypeOK
  <1>2. sim[b].msgCh - 1 \in 0..Room
    BY <1>1, SimConstants DEF TakeMessage, Sim
  <1>3. w \in Sim /\ w.id = sim[b].id /\ w.start = sim[b].start /\ w.cancelFunc = sim[b].cancelFunc
        /\ w.loop = sim[b].loop /\ w.status = sim[b].status
    BY <1>1, <1>2 DEF Sim
  <1>4. sim' = [sim EXCEPT ![b] = w] /\ Instance
    BY DEF TakeMessage
  <1>5. GoesOn(w) /\ (w.start \in StartingPlaces => Starting(b))
    BY <1>1, <1>3 DEF TakeMessage, GoesOn, Starting, StartingPlaces
  <1> HIDE DEF w
  <1> QED
    BY <1>1, <1>3, <1>4, <1>5, LocalStep

LEMMA ReceiveKeeps ==
  ASSUME SimInv, NEW b \in Sims, Receive(b)
  PROVE  SimInv'
  <1> DEFINE w == [sim[b] EXCEPT !.reader = "put"]
  <1>1. sim[b] \in Sim /\ GoesOn(sim[b])
    BY DEF SimInv, SimTypeOK
  <1>2. w \in Sim /\ w.id = sim[b].id /\ w.start = sim[b].start /\ w.cancelFunc = sim[b].cancelFunc
        /\ w.loop = sim[b].loop /\ w.status = sim[b].status
    BY <1>1 DEF Receive, Sim, GoesOn
  <1>3. sim' = [sim EXCEPT ![b] = w] /\ Instance
    BY DEF Receive
  <1>4. GoesOn(w) /\ (w.start \in StartingPlaces => Starting(b))
    BY <1>1, <1>2 DEF Receive, GoesOn, Starting, StartingPlaces
  <1> HIDE DEF w
  <1> QED
    BY <1>1, <1>2, <1>3, <1>4, LocalStep

LEMMA ReceiveFailsKeeps ==
  ASSUME SimInv, NEW b \in Sims, ReceiveFails(b)
  PROVE  SimInv'
  <1> DEFINE w == [sim[b] EXCEPT !.reader = "done", !.errCh = TRUE]
  <1>1. sim[b] \in Sim /\ GoesOn(sim[b])
    BY DEF SimInv, SimTypeOK
  <1>2. w \in Sim /\ w.id = sim[b].id /\ w.start = sim[b].start /\ w.cancelFunc = sim[b].cancelFunc
        /\ w.loop = sim[b].loop /\ w.status = sim[b].status
    BY <1>1 DEF ReceiveFails, Sim, GoesOn
  <1>3. sim' = [sim EXCEPT ![b] = w] /\ Instance
    BY DEF ReceiveFails
  <1>4. GoesOn(w) /\ (w.start \in StartingPlaces => Starting(b))
    BY <1>1, <1>2 DEF ReceiveFails, GoesOn, Starting, StartingPlaces
  <1> HIDE DEF w
  <1> QED
    BY <1>1, <1>2, <1>3, <1>4, LocalStep

LEMMA PutKeeps ==
  ASSUME SimInv, NEW b \in Sims, Put(b)
  PROVE  SimInv'
  <1> DEFINE w == [sim[b] EXCEPT !.reader = "recv", !.msgCh = @ + 1]
  <1>1. sim[b] \in Sim /\ GoesOn(sim[b])
    BY DEF SimInv, SimTypeOK
  <1>2. sim[b].msgCh + 1 \in 0..Room
    BY <1>1, SimConstants DEF Put, Sim
  <1>3. w \in Sim /\ w.id = sim[b].id /\ w.start = sim[b].start /\ w.cancelFunc = sim[b].cancelFunc
        /\ w.loop = sim[b].loop /\ w.status = sim[b].status
    BY <1>1, <1>2 DEF Sim
  <1>4. sim' = [sim EXCEPT ![b] = w] /\ Instance
    BY DEF Put
  <1>5. GoesOn(w) /\ (w.start \in StartingPlaces => Starting(b))
    BY <1>1, <1>3 DEF Put, GoesOn, Starting, StartingPlaces
  <1> HIDE DEF w
  <1> QED
    BY <1>1, <1>3, <1>4, <1>5, LocalStep

LEMMA PutCancelledKeeps ==
  ASSUME SimInv, NEW b \in Sims, PutCancelled(b)
  PROVE  SimInv'
  <1> DEFINE w == [sim[b] EXCEPT !.reader = "done"]
  <1>1. sim[b] \in Sim /\ GoesOn(sim[b])
    BY DEF SimInv, SimTypeOK
  <1>2. w \in Sim /\ w.id = sim[b].id /\ w.start = sim[b].start /\ w.cancelFunc = sim[b].cancelFunc
        /\ w.loop = sim[b].loop /\ w.status = sim[b].status
    BY <1>1 DEF PutCancelled, Sim, GoesOn
  <1>3. sim' = [sim EXCEPT ![b] = w] /\ Instance
    BY DEF PutCancelled
  <1>4. GoesOn(w) /\ (w.start \in StartingPlaces => Starting(b))
    BY <1>1, <1>2 DEF PutCancelled, GoesOn, Starting, StartingPlaces
  <1> HIDE DEF w
  <1> QED
    BY <1>1, <1>2, <1>3, <1>4, LocalStep

LEMMA SimDropsKeeps ==
  ASSUME SimInv, NEW b \in Sims, SimDrops(b)
  PROVE  SimInv'
  <1> DEFINE w == [sim[b] EXCEPT !.open = FALSE]
  <1>1. sim[b] \in Sim /\ GoesOn(sim[b])
    BY DEF SimInv, SimTypeOK
  <1>2. w \in Sim /\ w.id = sim[b].id /\ w.start = sim[b].start /\ w.cancelFunc = sim[b].cancelFunc
        /\ w.loop = sim[b].loop /\ w.status = sim[b].status
    BY <1>1 DEF SimDrops, Sim, GoesOn
  <1>3. sim' = [sim EXCEPT ![b] = w] /\ Instance
    BY DEF SimDrops
  <1>4. GoesOn(w) /\ (w.start \in StartingPlaces => Starting(b))
    BY <1>1, <1>2 DEF SimDrops, GoesOn, Starting, StartingPlaces
  <1> HIDE DEF w
  <1> QED
    BY <1>1, <1>2, <1>3, <1>4, LocalStep

LEMMA StartSimKeeps ==
  ASSUME SimInv, NEW b \in Sims, NEW i \in SimIds, StartSim(b, i)
  PROVE  SimInv'
  <1> DEFINE w == [sim[b] EXCEPT !.start = "connecting", !.id = i, !.status = "idle"]
  <1>1. sim[b] \in Sim /\ GoesOn(sim[b]) /\ sim[b].start = "none"
    BY DEF SimInv, SimTypeOK, StartSim, Enter
  <1>2. /\ w \in Sim /\ w.id = i /\ w.start = "connecting" /\ w.loop = "off"
        /\ w.cancelFunc = "nil"
    BY <1>1 DEF Sim, GoesOn
  <1>3. /\ sim' = [sim EXCEPT ![b] = w] /\ simBots' = [simBots EXCEPT ![i] = b]
        /\ simStop' = simStop /\ closing' = closing
        /\ simBots[i] # NoSim => sim[simBots[i]].status # "running"
        /\ overlapped' = IF \E c \in Sims : sim[c].id = i /\ Starting(c)
                         THEN overlapped \cup {i} ELSE overlapped
    BY DEF StartSim, Enter
  <1> HIDE DEF w
  <1>4. /\ sim' \in [Sims -> Sim] /\ sim'[b] = w
        /\ \A d \in Sims : d # b => sim'[d] = sim[d]
    BY <1>2, <1>3 DEF SimInv, SimTypeOK
  <1>5. GoesOn(w)
    BY <1>2 DEF GoesOn
  <1>6. \A d \in Sims : GoesOn(sim'[d])
    BY <1>4, <1>5 DEF SimInv
  <1>7. /\ simBots' \in [SimIds -> Sims \cup {NoSim}] /\ simBots'[i] = b
        /\ \A j \in SimIds : j # i => simBots'[j] = simBots[j]
        /\ overlapped' \subseteq SimIds /\ overlapped \subseteq overlapped'
    BY <1>3 DEF SimInv, SimTypeOK
  <1>8. SimTypeOK'
    BY <1>3, <1>4, <1>6, <1>7 DEF SimInv, SimTypeOK, GoesOn
  <1>9. ASSUME closing = "no", NEW d \in Sims, sim'[d].loop = "select", sim'[d].id \notin overlapped'
        PROVE  simBots'[sim'[d].id] = d
    <2>1. d # b /\ sim'[d] = sim[d] /\ sim[d].id \in SimIds /\ sim[d].status = "running"
      BY <1>2, <1>4, <1>6, <1>9 DEF GoesOn
    <2>2. simBots[sim[d].id] = d
      BY <1>7, <1>9, <2>1 DEF SimInv, RunningIsListed
    <2>3. sim[d].id # i
      BY <1>3, <2>1, <2>2, SimConstants
    <2> QED
      BY <1>7, <2>1, <2>2, <2>3
  <1>10. ASSUME closing = "no", NEW d \in Sims, sim'[d].start \in StartingPlaces,
                sim'[d].id \notin overlapped'
         PROVE  simBots'[sim'[d].id] = d
    <2>1. CASE d = b
      BY <1>2, <1>4, <1>7, <2>1
    <2>2. CASE d # b
      <3>1. sim'[d] = sim[d] /\ sim[d].id \in SimIds /\ Starting(d)
        BY <1>4, <1>6, <1>10, <2>2 DEF GoesOn, Starting, StartingPlaces
      <3>2. simBots[sim[d].id] = d
        BY <1>7, <1>10, <3>1 DEF SimInv, StartingIsListed
      <3>3. sim[d].id # i
        BY <1>3, <1>10, <3>1
      <3> QED
        BY <1>7, <3>1, <3>2, <3>3
    <2> QED
      BY <2>1, <2>2
  <1> QED
    BY <1>3, <1>6, <1>8, <1>9, <1>10
    DEF SimInv, GoesOn, RunningIsListed, StartingIsListed, Starting, StartingPlaces

LEMMA DeleteFailedKeeps ==
  ASSUME SimInv, NEW b \in Sims, DeleteFailed(b)
  PROVE  SimInv'
  <1> DEFINE w == [sim[b] EXCEPT !.start = "done"]
             i == sim[b].id
  <1>1. sim[b] \in Sim /\ GoesOn(sim[b]) /\ sim[b].start = "failed"
    BY DEF SimInv, SimTypeOK, DeleteFailed
  <1>2. /\ w \in Sim /\ w.id = i /\ w.start = "done" /\ w.loop = "off"
        /\ w.cancelFunc = "nil" /\ i \in SimIds /\ Starting(b)
    BY <1>1 DEF Sim, GoesOn, Starting
  <1>3. /\ sim' = [sim EXCEPT ![b] = w] /\ simBots' = [simBots EXCEPT ![i] = NoSim]
        /\ simStop' = simStop /\ closing' = closing /\ overlapped' = overlapped
    BY DEF DeleteFailed
  <1> HIDE DEF w, i
  <1>4. /\ sim' \in [Sims -> Sim] /\ sim'[b] = w
        /\ \A d \in Sims : d # b => sim'[d] = sim[d]
    BY <1>2, <1>3 DEF SimInv, SimTypeOK
  <1>5. GoesOn(w)
    BY <1>2 DEF GoesOn
  <1>6. \A d \in Sims : GoesOn(sim'[d])
    BY <1>4, <1>5 DEF SimInv
  <1>7. /\ simBots' \in [SimIds -> Sims \cup {NoSim}]
        /\ \A j \in SimIds : j # i => simBots'[j] = simBots[j]
    BY <1>3 DEF SimInv, SimTypeOK
  <1>8. SimTypeOK'
    BY <1>3, <1>4, <1>6, <1>7 DEF SimInv, SimTypeOK, GoesOn
  <1>9. ASSUME closing = "no", NEW d \in Sims, d # b, sim[d].id \notin overlapped,
               sim[d].id \in SimIds, simBots[sim[d].id] = d
        PROVE  simBots'[sim[d].id] = d
    <2>1. sim[d].id # i
      BY <1>2, <1>9 DEF SimInv, StartingIsListed, i
    <2> QED
      BY <1>7, <1>9, <2>1
  <1>10. ASSUME closing = "no", NEW d \in Sims, sim'[d].id \notin overlapped,
                sim'[d].loop = "select" \/ sim'[d].start \in StartingPlaces
         PROVE  simBots'[sim'[d].id] = d
    <2>1. d # b /\ sim'[d] = sim[d]
      BY <1>2, <1>4, <1>10 DEF StartingPlaces
    <2>2. sim[d].id \in SimIds
      BY <1>6, <1>10, <2>1 DEF GoesOn, StartingPlaces
    <2>3. simBots[sim[d].id] = d
      BY <1>10, <2>1 DEF SimInv, RunningIsListed, StartingIsListed, Starting, StartingPlaces
    <2> QED
      BY <1>9, <1>10, <2>1, <2>2, <2>3
  <1> QED
    BY <1>3, <1>6, <1>8, <1>10
    DEF SimInv, GoesOn, RunningIsListed, StartingIsListed, Starting, StartingPlaces

(* Cancelling bots changes their cancelFunc only. *)
LEMMA CancelDoes ==
  ASSUME SimInv, NEW bs, Cancel(bs)
  PROVE  /\ sim' \in [Sims -> Sim]
         /\ \A d \in Sims : /\ GoesOn(sim'[d]) /\ sim'[d].id = sim[d].id
                            /\ sim'[d].start = sim[d].start /\ sim'[d].loop = sim[d].loop
  <1>1. ASSUME NEW d \in Sims
        PROVE  /\ sim'[d] \in Sim
               /\ GoesOn(sim'[d]) /\ sim'[d].id = sim[d].id
               /\ sim'[d].start = sim[d].start /\ sim'[d].loop = sim[d].loop
    <2>1. sim[d] \in Sim /\ GoesOn(sim[d])
      BY DEF SimInv, SimTypeOK
    <2>2. CASE sim'[d] = sim[d]
      BY <2>1, <2>2
    <2>3. CASE sim[d].cancelFunc # "nil" /\ sim'[d] = [sim[d] EXCEPT !.cancelFunc = "called"]
      <3>1. /\ sim'[d] \in Sim /\ sim'[d].id = sim[d].id /\ sim'[d].cancelFunc = "called"
            /\ sim'[d].start = sim[d].start /\ sim'[d].loop = sim[d].loop
            /\ sim'[d].status = sim[d].status
        BY <2>1, <2>3 DEF Sim
      <3> QED
        BY <2>1, <2>3, <3>1 DEF GoesOn
    <2> QED
      BY <2>2, <2>3 DEF Cancel
  <1>2. sim' \in [Sims -> Sim]
    BY <1>1 DEF Cancel
  <1> QED
    BY <1>1, <1>2

LEMMA StopSimKeeps ==
  ASSUME SimInv, NEW s \in SimStops, StopSim(s)
  PROVE  SimInv'
  <1>1. /\ sim' \in [Sims -> Sim]
        /\ \A d \in Sims : /\ GoesOn(sim'[d]) /\ sim'[d].id = sim[d].id
                           /\ sim'[d].start = sim[d].start /\ sim'[d].loop = sim[d].loop
    BY CancelDoes DEF StopSim
  <1>2. simBots' = simBots /\ closing' = closing /\ overlapped' = overlapped
    BY DEF StopSim
  <1>3. simStop' \in [SimStops -> [at: {"none", "found", "stopped"}, bot: Sims \cup {NoSim}]]
    BY DEF StopSim, SimInv, SimTypeOK
  <1>4. SimTypeOK'
    BY <1>1, <1>2, <1>3 DEF SimInv, SimTypeOK, GoesOn
  <1>5. RunningIsListed' /\ StartingIsListed'
    BY <1>1, <1>2 DEF SimInv, RunningIsListed, StartingIsListed, Starting
  <1> QED
    BY <1>1, <1>4, <1>5 DEF SimInv, GoesOn

LEMMA FindSimKeeps ==
  ASSUME SimInv, NEW s \in SimStops, NEW i \in SimIds, FindSim(s, i)
  PROVE  SimInv'
  <1>1. simStop' \in [SimStops -> [at: {"none", "found", "stopped"}, bot: Sims \cup {NoSim}]]
    BY DEF FindSim, SimInv, SimTypeOK
  <1>2. UNCHANGED <<simBots, sim, closing, overlapped>>
    BY DEF FindSim
  <1> QED
    BY <1>1, <1>2
    DEF SimInv, SimTypeOK, GoesOn, RunningIsListed, StartingIsListed, Starting

LEMMA ClosingKeeps ==
  ASSUME SimInv, CancelAll \/ CloseAll
  PROVE  SimInv'
  <1>1. closing' \in {"cancelled", "done"} /\ simStop' = simStop /\ overlapped' = overlapped
    BY DEF CancelAll, CloseAll
  <1>2. RunningIsListed' /\ StartingIsListed'
    BY <1>1 DEF RunningIsListed, StartingIsListed
  <1>3. sim' \in [Sims -> Sim] /\ \A d \in Sims : GoesOn(sim'[d])
    <2>1. CASE CancelAll
      BY <2>1 DEF CancelAll, SimInv, SimTypeOK
    <2>2. CASE CloseAll
      BY <2>2, CancelDoes DEF CloseAll
    <2> QED
      BY <2>1, <2>2
  <1>4. simBots' \in [SimIds -> Sims \cup {NoSim}]
    BY DEF CancelAll, CloseAll, SimInv, SimTypeOK
  <1>5. SimTypeOK'
    BY <1>1, <1>3, <1>4 DEF SimInv, SimTypeOK, GoesOn
  <1> QED
    BY <1>2, <1>3, <1>5 DEF SimInv, GoesOn

LEMMA StepSim ==
  ASSUME SimInv, [SimNext]_simVars
  PROVE  SimInv'
  <1>1. CASE UNCHANGED simVars
    BY <1>1
    DEF simVars, SimInv, SimTypeOK, GoesOn, RunningIsListed, StartingIsListed, Starting
  <1> QED
    BY <1>1, StartSimKeeps, DialKeeps, DeleteFailedKeeps, SetCancelFuncKeeps, LaunchKeeps,
       LoopCancelledKeeps, LoopFailsKeeps, TakeMessageKeeps, CloseClientKeeps, SetStoppedKeeps,
       ReceiveKeeps, ReceiveFailsKeeps, PutKeeps, PutCancelledKeeps, SimDropsKeeps,
       StopSimKeeps, FindSimKeeps, ClosingKeeps
    DEF SimNext, SimStartSteps, SimLoopSteps, ReaderSteps

LEMMA InitSim ==
  ASSUME SimInit
  PROVE  SimInv
  <1> DEFINE w == [id |-> NoSim, start |-> "none", status |-> "none",
                   cancelFunc |-> "nil", open |-> FALSE, loop |-> "off",
                   reader |-> "off", msgCh |-> 0, errCh |-> FALSE]
  <1>1. w \in Sim /\ GoesOn(w) /\ w.start = "none" /\ w.loop = "off"
    BY SimConstants DEF Sim, GoesOn
  <1>2. sim = [b \in Sims |-> w]
    BY DEF SimInit
  <1> HIDE DEF w
  <1>3. \A b \in Sims : sim[b] = w
    BY <1>2
  <1>4. simStop \in [SimStops -> [at: {"none", "found", "stopped"}, bot: Sims \cup {NoSim}]]
    BY DEF SimInit
  <1>5. SimTypeOK
    BY <1>1, <1>2, <1>3, <1>4 DEF SimInit, SimTypeOK, GoesOn
  <1> QED
    BY <1>1, <1>3, <1>5 DEF SimInv, RunningIsListed, StartingIsListed, Starting, GoesOn

(* A simulation bot whose loop runs can be found and stopped under its id,   *)
(* unless two starts of that id have met: a start that is refused, a start   *)
(* that fails and a restart after a stop leave a running bot on the map.     *)
THEOREM RunningSimsAreListed == SimSpec => []RunningIsListed
  <1>1. SimInit => SimInv
    BY InitSim
  <1>2. SimInv /\ [SimNext]_simVars => SimInv'
    BY StepSim
  <1>3. SimInv => RunningIsListed
    BY DEF SimInv
  <1> QED
    BY <1>1, <1>2, <1>3, PTL DEF SimSpec

-----------------------------------------------------------------------------
(* Both *)

(* Both managers keep their types when they run side by side. *)
THEOREM BotsTypeCorrect == MCSpec => []TypeOK
  <1>1. MCInit => BotInv /\ SimInv
    BY InitBot, InitSim DEF MCInit
  <1>2. ASSUME BotInv, SimInv, [MCNext]_<<botVars, simVars>>
        PROVE  BotInv' /\ SimInv'
    <2>1. [BotNext]_botVars /\ [SimNext]_simVars
      BY <1>2 DEF MCNext
    <2> QED
      BY <1>2, <2>1, StepBot, StepSim
  <1>3. BotInv /\ SimInv => TypeOK
    BY DEF BotInv, SimInv, TypeOK
  <1> QED
    BY <1>1, <1>2, <1>3, PTL DEF MCSpec

=============================================================================
