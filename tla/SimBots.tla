-------------------------------- MODULE SimBots --------------------------------
(***************************************************************************)
(* The simulation bots: the manager's map of bots, the requests to start   *)
(* and to stop one, Close at the end of the server, and of every bot its   *)
(* loop and the goroutine that reads its connection.                       *)
(*                                                                         *)
(* The id of a bot is the client's choice, or made of the strategy, the    *)
(* symbol and the second of the request.  A bot is the request that starts *)
(* it, as every request makes its own instance.  The lock of the manager   *)
(* is given up while a bot connects.  A message has no content.            *)
(***************************************************************************)
EXTENDS Integers

CONSTANTS Sims,     \* requests to start a bot, and the bots they make
          SimIds,
          SimStops, \* requests to stop a bot
          NoSim,
          Room      \* in msgCh (64 in the code)

ASSUME SimConstants == /\ NoSim \notin Sims
                       /\ Room \in Nat \ {0}

VARIABLES
  simBots,   \* BotManager.bots: id -> bot or NoSim
  sim,       \* bot -> where its goroutines are, and its instance
  simStop,   \* request to stop -> where it is, and its bot
  closing,   \* Close: "no", "cancelled" (the context of all bots) or "done"
  overlapped \* history: ids of which one start has met another

simVars == <<simBots, sim, simStop, closing, overlapped>>

(* start, loop and reader are where StartBot, runLoop and the goroutine     *)
(* that reads are.                                                          *)
Sim == [id: SimIds \cup {NoSim},
        start: {"none", "connecting", "connected", "ready", "failed", "done"},
        status: {"none", "idle", "running", "error", "stopped"},
        cancelFunc: {"nil", "set", "called"},
        open: BOOLEAN, \* its connection
        loop: {"off", "select", "exit", "closed", "done"},
        reader: {"off", "recv", "put", "done"},
        msgCh: 0..Room,
        errCh: BOOLEAN]

SimInit ==
  /\ simBots = [i \in SimIds |-> NoSim]
  /\ sim = [b \in Sims |-> [id |-> NoSim, start |-> "none", status |-> "none",
                            cancelFunc |-> "nil", open |-> FALSE, loop |-> "off",
                            reader |-> "off", msgCh |-> 0, errCh |-> FALSE]]
  /\ simStop = [s \in SimStops |-> [at |-> "none", bot |-> NoSim]]
  /\ closing = "no"
  /\ overlapped = {}

(* childCtx is done. *)
Cancelled(b) == sim[b].cancelFunc = "called" \/ closing # "no"

Starting(b) == sim[b].start \in {"connecting", "connected", "ready", "failed"}

(* A step of b alone *)
Instance == UNCHANGED <<simBots, simStop, closing, overlapped>>

-----------------------------------------------------------------------------
(* StartBot *)

Enter(b, i) ==
  /\ sim[b].start = "none"
  /\ sim' = [sim EXCEPT ![b].start = "connecting", ![b].id = i, ![b].status = "idle"]
  /\ simBots' = [simBots EXCEPT ![i] = b]
  /\ overlapped' = IF \E c \in Sims : sim[c].id = i /\ Starting(c)
                   THEN overlapped \cup {i} ELSE overlapped
  /\ UNCHANGED <<simStop, closing>>

\* Mutant of StartSim: a bot that runs is replaced.
StartSimAgain(b, i) == Enter(b, i)

StartSim(b, i) ==
  /\ simBots[i] # NoSim => sim[simBots[i]].status # "running"
  /\ Enter(b, i)

(* Connect and SubscribeTicker; when it is the second that fails the        *)
(* connection stays open.                                                   *)
Dial(b) ==
  /\ sim[b].start = "connecting"
  /\ \E to \in {"connected", "failed"}, dialled \in BOOLEAN :
       /\ to = "connected" => dialled
       /\ sim' = [sim EXCEPT ![b].start = to, ![b].open = dialled,
                             ![b].status = IF to = "failed" THEN "error" ELSE @]
  /\ Instance

(* The entry of the id is deleted, whichever bot it is for. *)
DeleteFailed(b) ==
  /\ sim[b].start = "failed"
  /\ sim' = [sim EXCEPT ![b].start = "done"]
  /\ simBots' = [simBots EXCEPT ![sim[b].id] = NoSim]
  /\ UNCHANGED <<simStop, closing, overlapped>>

SetCancelFunc(b) ==
  /\ sim[b].start = "connected"
  /\ sim' = [sim EXCEPT ![b].start = "ready", ![b].cancelFunc = "set"]
  /\ Instance

Launch(b) ==
  /\ sim[b].start = "ready"
  /\ sim' = [sim EXCEPT ![b].start = "done", ![b].status = "running",
                        ![b].loop = "select", ![b].reader = "recv"]
  /\ Instance

-----------------------------------------------------------------------------
(* StopBot and Close *)

(* A bot without a cancelFunc is not stopped. *)
Cancel(bs) == sim' = [b \in Sims |-> IF b \in bs /\ sim[b].cancelFunc # "nil"
                                     THEN [sim[b] EXCEPT !.cancelFunc = "called"]
                                     ELSE sim[b]]

FindSim(s, i) ==
  /\ simStop[s].at = "none" /\ simBots[i] # NoSim
  /\ simStop' = [simStop EXCEPT ![s] = [at |-> "found", bot |-> simBots[i]]]
  /\ UNCHANGED <<simBots, sim, closing, overlapped>>

\* Mutant of StopSim: it does not look whether there is a cancelFunc.
StopSimAlways(s) ==
  /\ simStop[s].at = "found"
  /\ simStop' = [simStop EXCEPT ![s].at = "stopped"]
  /\ sim' = [sim EXCEPT ![simStop[s].bot].cancelFunc = "called"]
  /\ UNCHANGED <<simBots, closing, overlapped>>

StopSim(s) ==
  /\ simStop[s].at = "found"
  /\ simStop' = [simStop EXCEPT ![s].at = "stopped"]
  /\ Cancel({simStop[s].bot})
  /\ UNCHANGED <<simBots, closing, overlapped>>

CancelAll ==
  /\ closing = "no"
  /\ closing' = "cancelled"
  /\ UNCHANGED <<simBots, sim, simStop, overlapped>>

CloseAll ==
  /\ closing = "cancelled"
  /\ closing' = "done"
  /\ Cancel({simBots[i] : i \in SimIds})
  /\ simBots' = [i \in SimIds |-> NoSim]
  /\ UNCHANGED <<simStop, overlapped>>

-----------------------------------------------------------------------------
(* runLoop: it chooses among what is ready *)

\* Mutant of LoopCancelled: the context is not made from the manager's.
LoopCancelledAlone(b) ==
  /\ sim[b].loop = "select" /\ sim[b].cancelFunc = "called"
  /\ sim' = [sim EXCEPT ![b].loop = "exit"]
  /\ Instance

LoopCancelled(b) ==
  /\ sim[b].loop = "select" /\ Cancelled(b)
  /\ sim' = [sim EXCEPT ![b].loop = "exit"]
  /\ Instance

LoopFails(b) ==
  /\ sim[b].loop = "select" /\ sim[b].errCh
  /\ sim' = [sim EXCEPT ![b].loop = "exit", ![b].errCh = FALSE, ![b].status = "error"]
  /\ Instance

(* A message is taken and handled. *)
TakeMessage(b) ==
  /\ sim[b].loop = "select" /\ sim[b].msgCh > 0
  /\ sim' = [sim EXCEPT ![b].msgCh = @ - 1]
  /\ Instance

CloseClient(b) ==
  /\ sim[b].loop = "exit"
  /\ sim' = [sim EXCEPT ![b].loop = "closed", ![b].open = FALSE]
  /\ Instance

SetStopped(b) ==
  /\ sim[b].loop = "closed"
  /\ sim' = [sim EXCEPT ![b].loop = "done", ![b].status = "stopped"]
  /\ Instance

-----------------------------------------------------------------------------
(* The goroutine that reads *)

Receive(b) ==
  /\ sim[b].reader = "recv" /\ sim[b].open
  /\ sim' = [sim EXCEPT ![b].reader = "put"]
  /\ Instance

ReceiveFails(b) ==
  /\ sim[b].reader = "recv" /\ ~sim[b].open
  /\ sim' = [sim EXCEPT ![b].reader = "done", ![b].errCh = TRUE]
  /\ Instance

Put(b) ==
  /\ sim[b].reader = "put" /\ sim[b].msgCh < Room
  /\ sim' = [sim EXCEPT ![b].reader = "recv", ![b].msgCh = @ + 1]
  /\ Instance

PutCancelled(b) ==
  /\ sim[b].reader = "put" /\ Cancelled(b)
  /\ sim' = [sim EXCEPT ![b].reader = "done"]
  /\ Instance

(* The server drops the connection. *)
SimDrops(b) ==
  /\ sim[b].open
  /\ sim' = [sim EXCEPT ![b].open = FALSE]
  /\ Instance

SimStartSteps(b) == Dial(b) \/ DeleteFailed(b) \/ SetCancelFunc(b) \/ Launch(b)
SimLoopSteps(b)  == LoopFails(b) \/ TakeMessage(b) \/ CloseClient(b) \/ SetStopped(b)
ReaderSteps(b)   == ReceiveFails(b) \/ Put(b) \/ PutCancelled(b)

SimNext ==
  \/ \E b \in Sims : \/ \E i \in SimIds : StartSim(b, i)
                     \/ SimStartSteps(b)
                     \/ LoopCancelled(b) \/ SimLoopSteps(b)
                     \/ Receive(b) \/ ReaderSteps(b)
                     \/ SimDrops(b)
  \/ \E s \in SimStops : StopSim(s) \/ \E i \in SimIds : FindSim(s, i)
  \/ CancelAll \/ CloseAll

(* Goroutines run on.  The select of the loop chooses at random: it does not *)
(* pass over the end of its context for ever.                                *)
SimFairness ==
  \A b \in Sims : /\ WF_simVars(SimStartSteps(b)) /\ WF_simVars(ReaderSteps(b))
                  /\ WF_simVars(SimLoopSteps(b)) /\ WF_simVars(LoopCancelled(b))

SimSpec == SimInit /\ [][SimNext]_simVars /\ SimFairness

-----------------------------------------------------------------------------
SimTypeOK ==
  /\ simBots \in [SimIds -> Sims \cup {NoSim}]
  /\ sim \in [Sims -> Sim]
  /\ \A b \in Sims : /\ sim[b].cancelFunc # "nil" => sim[b].start \in {"ready", "done"}
                     /\ sim[b].loop # "off" => sim[b].cancelFunc # "nil"
  /\ simStop \in [SimStops -> [at: {"none", "found", "stopped"}, bot: Sims \cup {NoSim}]]
  /\ closing \in {"no", "cancelled", "done"}
  /\ overlapped \subseteq SimIds

(* A bot whose loop runs can be found and stopped under its id, unless two  *)
(* starts of that id have met or the manager is closed: neither a restart   *)
(* of a stopped bot nor a start that fails takes a running bot off the map. *)
RunningIsListed ==
  closing = "no" =>
    \A b \in Sims : sim[b].loop = "select" /\ sim[b].id \notin overlapped
                      => simBots[sim[b].id] = b

(* A bot that is cancelled, by its own cancelFunc or by Close, even one     *)
(* that is no longer on the map or is launched after Close, ends: loop,     *)
(* reader and connection.                                                   *)
CancelledBotsEnd ==
  \A b \in Sims : Cancelled(b) /\ sim[b].loop # "off"
                    ~> sim[b].loop = "done" /\ sim[b].reader = "done" /\ ~sim[b].open
=============================================================================
