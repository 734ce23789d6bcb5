-------------------------------- MODULE WsHub --------------------------------
(***************************************************************************)
(* The websocket connections of the Go server: the goroutine of Hub.Run,   *)
(* and for every connection the HTTP handler that upgrades it, which hands *)
(* over to readPump, and writePump.                                        *)
(*                                                                         *)
(* The handler and readPump of a connection never run at the same time and *)
(* share `stage`.  `register` and `unregister` are unbuffered: the sender  *)
(* waits in its stage until Run receives.  `send` is a buffered channel of *)
(* which only the fill matters here (module LiveFeed is about what is in   *)
(* it), and sending on it or closing it once it is closed is a Go panic.   *)
(* Which symbols a client has subscribed to is its own choice: a broadcast *)
(* reaches any set of registered clients.                                  *)
(***************************************************************************)
EXTENDS Integers, FiniteSets

CONSTANTS Clients,  \* connections
          Users,
          Guest,    \* the user id "" of a connection that has not logged in
          Capacity  \* of a client's send channel (1024 in the code)

ASSUME HubConstants == /\ Guest \notin Users
                       /\ Capacity \in Nat \ {0}

VARIABLES
  up,          \* Run has not returned
  stopping,    \* stopCh is closed
  stage,       \* client -> where its handler or its readPump is
  writer,      \* client -> its writePump
  open,        \* client -> its connection is open
  userID,      \* Client.userID
  clients,     \* Hub.clients
  userClients, \* Hub.userClients
  queued,      \* client -> messages in send
  closed,      \* client -> send is closed
  panics       \* places at which a closed channel was sent on or closed

hubVars == <<up, stopping, stage, writer, open, userID, clients, userClients,
             queued, closed, panics>>

Stage == {"none", "registering", "welcome", "reading", "reply", "unregistering", "done"}

HubInit == /\ up = TRUE
           /\ stopping = FALSE
           /\ stage = [c \in Clients |-> "none"]
           /\ writer = [c \in Clients |-> "off"]
           /\ open = [c \in Clients |-> FALSE]
           /\ userID = [c \in Clients |-> Guest]
           /\ clients = {}
           /\ userClients = [u \in Users |-> {}]
           /\ queued = [c \in Clients |-> 0]
           /\ closed = [c \in Clients |-> FALSE]
           /\ panics = {}

\* Mutant of Deliver: nobody misses it.
DeliverAlways(cs, p) ==
  /\ queued' = [c \in Clients |-> IF c \in cs /\ ~closed[c] THEN queued[c] + 1 ELSE queued[c]]
  /\ panics' = IF \E c \in cs : closed[c] THEN panics \cup {p} ELSE panics

(* A message for every client of cs from the place p: those with a full     *)
(* channel miss it, which no sender but the welcome waits for.              *)
Deliver(cs, p) ==
  /\ queued' = [c \in Clients |-> IF c \in cs /\ ~closed[c] /\ queued[c] < Capacity
                                  THEN queued[c] + 1 ELSE queued[c]]
  /\ panics' = IF \E c \in cs : closed[c] THEN panics \cup {p} ELSE panics

Mapped(uc, c, u) == IF u \in Users THEN [uc EXCEPT ![u] = @ \cup {c}] ELSE uc
Unmapped(uc, c)  == [u \in Users |-> IF u = userID[c] THEN uc[u] \ {c} ELSE uc[u]]

-----------------------------------------------------------------------------
(* The handler of a new connection *)

Upgrade(c, u) ==
  /\ stage[c] = "none"
  /\ stage' = [stage EXCEPT ![c] = "registering"]
  /\ open' = [open EXCEPT ![c] = TRUE]
  /\ userID' = [userID EXCEPT ![c] = u]
  /\ UNCHANGED <<up, stopping, writer, clients, userClients, queued, closed, panics>>

(* The welcome waits for room; then the pumps are started. *)
Welcome(c) ==
  /\ stage[c] = "welcome"
  /\ queued[c] < Capacity \/ closed[c]
  /\ Deliver({c}, "welcome")
  /\ stage' = [stage EXCEPT ![c] = "reading"]
  /\ writer' = [writer EXCEPT ![c] = "on"]
  /\ UNCHANGED <<up, stopping, open, userID, clients, userClients, closed>>

-----------------------------------------------------------------------------
(* readPump *)

\* Mutant of UpdateClientID: the client stays with its old user.
AddClientID(c, u) ==
  /\ stage[c] = "reading" /\ open[c]
  /\ stage' = [stage EXCEPT ![c] = "reply"]
  /\ userClients' = Mapped(userClients, c, u)
  /\ userID' = [userID EXCEPT ![c] = u]
  /\ UNCHANGED <<up, stopping, writer, open, clients, queued, closed, panics>>

(* An auth message with a valid token. *)
UpdateClientID(c, u) ==
  /\ stage[c] = "reading" /\ open[c]
  /\ stage' = [stage EXCEPT ![c] = "reply"]
  /\ userClients' = Mapped(Unmapped(userClients, c), c, u)
  /\ userID' = [userID EXCEPT ![c] = u]
  /\ UNCHANGED <<up, stopping, writer, open, clients, queued, closed, panics>>

(* Any other message: it changes subscriptions at most. *)
HandleMessage(c) ==
  /\ stage[c] = "reading" /\ open[c]
  /\ stage' = [stage EXCEPT ![c] = "reply"]
  /\ UNCHANGED <<up, stopping, writer, open, userID, clients, userClients,
                 queued, closed, panics>>

Reply(c) ==
  /\ stage[c] = "reply"
  /\ Deliver({c}, "reply")
  /\ stage' = [stage EXCEPT ![c] = "reading"]
  /\ UNCHANGED <<up, stopping, writer, open, userID, clients, userClients, closed>>

\* Mutant of ReadFails: readPump returns at once.
ReadFailsQuietly(c) ==
  /\ stage[c] = "reading" /\ ~open[c]
  /\ stage' = [stage EXCEPT ![c] = "done"]
  /\ UNCHANGED <<up, stopping, writer, open, userID, clients, userClients,
                 queued, closed, panics>>

ReadFails(c) ==
  /\ stage[c] = "reading" /\ ~open[c]
  /\ stage' = [stage EXCEPT ![c] = "unregistering"]
  /\ UNCHANGED <<up, stopping, writer, open, userID, clients, userClients,
                 queued, closed, panics>>

-----------------------------------------------------------------------------
(* writePump *)

(* A write or a ping on a connection that is gone, or the end of the        *)
(* channel: the pump returns and closes the connection.                     *)
WriteFails(c) ==
  /\ writer[c] = "on" /\ (~open[c] \/ (closed[c] /\ queued[c] = 0))
  /\ writer' = [writer EXCEPT ![c] = "done"]
  /\ open' = [open EXCEPT ![c] = FALSE]
  /\ UNCHANGED <<up, stopping, stage, userID, clients, userClients, queued, closed, panics>>

(* A frame takes all that is queued. *)
Write(c) ==
  /\ writer[c] = "on" /\ open[c] /\ queued[c] > 0
  /\ queued' = [queued EXCEPT ![c] = 0]
  /\ UNCHANGED <<up, stopping, stage, writer, open, userID, clients, userClients,
                 closed, panics>>

(* A write that misses its deadline ends the pump too. *)
WriteTimesOut(c) ==
  /\ writer[c] = "on" /\ open[c] /\ queued[c] > 0
  /\ queued' = [queued EXCEPT ![c] = @ - 1]
  /\ writer' = [writer EXCEPT ![c] = "done"]
  /\ open' = [open EXCEPT ![c] = FALSE]
  /\ UNCHANGED <<up, stopping, stage, userID, clients, userClients, closed, panics>>

(* The peer goes away, or its pong does not come in time. *)
Disconnects(c) ==
  /\ open[c]
  /\ open' = [open EXCEPT ![c] = FALSE]
  /\ UNCHANGED <<up, stopping, stage, writer, userID, clients, userClients,
                 queued, closed, panics>>

-----------------------------------------------------------------------------
(* Run *)

Register(c) ==
  /\ up /\ stage[c] = "registering"
  /\ clients' = clients \cup {c}
  /\ userClients' = Mapped(userClients, c, userID[c])
  /\ stage' = [stage EXCEPT ![c] = "welcome"]
  /\ UNCHANGED <<up, stopping, writer, open, userID, queued, closed, panics>>

\* Mutant of Unregister: the client stays with its user.
UnregisterConnection(c) ==
  /\ up /\ stage[c] = "unregistering"
  /\ clients' = clients \ {c}
  /\ closed' = [closed EXCEPT ![c] = TRUE]
  /\ stage' = [stage EXCEPT ![c] = "done"]
  /\ open' = [open EXCEPT ![c] = FALSE]
  /\ UNCHANGED <<up, stopping, writer, userID, userClients, queued, panics>>

(* readPump then closes the connection and returns. *)
Unregister(c) ==
  /\ up /\ stage[c] = "unregistering"
  /\ clients' = clients \ {c}
  /\ userClients' = IF c \in clients THEN Unmapped(userClients, c) ELSE userClients
  /\ closed' = [closed EXCEPT ![c] = @ \/ c \in clients]
  /\ stage' = [stage EXCEPT ![c] = "done"]
  /\ open' = [open EXCEPT ![c] = FALSE]
  /\ UNCHANGED <<up, stopping, writer, userID, queued, panics>>

(* An event from the broadcast channel or a flush of the coalesced ones. *)
BroadcastToSubscribers(cs) ==
  /\ up /\ cs \subseteq clients
  /\ Deliver(cs, "subscribers")
  /\ UNCHANGED <<up, stopping, stage, writer, open, userID, clients, userClients, closed>>

\* Mutant of RunStops: it closes nothing.
RunStopsQuietly ==
  /\ up /\ stopping
  /\ up' = FALSE
  /\ clients' = {}
  /\ userClients' = [u \in Users |-> {}]
  /\ UNCHANGED <<stopping, stage, writer, open, userID, queued, closed, panics>>

RunStops ==
  /\ up /\ stopping
  /\ up' = FALSE
  /\ closed' = [c \in Clients |-> closed[c] \/ c \in clients]
  /\ open' = [c \in Clients |-> open[c] /\ c \notin clients]
  /\ clients' = {}
  /\ userClients' = [u \in Users |-> {}]
  /\ UNCHANGED <<stopping, stage, writer, userID, queued, panics>>

-----------------------------------------------------------------------------
(* Other goroutines *)

BroadcastToUser(u) ==
  /\ Deliver(userClients[u], "user")
  /\ UNCHANGED <<up, stopping, stage, writer, open, userID, clients, userClients, closed>>

Stop == /\ stopping' = TRUE
        /\ UNCHANGED <<up, stage, writer, open, userID, clients, userClients,
                       queued, closed, panics>>

ReadPump(c)  == Reply(c) \/ ReadFails(c)
WritePump(c) == WriteFails(c) \/ Write(c)
Run          == RunStops \/ \E c \in Clients : Register(c) \/ Unregister(c)

(* A panic ends the process, or the HTTP request it happens in: the model *)
(* stops at either.                                                       *)
HubNext ==
  /\ panics = {}
  /\ \/ \E c \in Clients :
          \/ \E u \in Users : Upgrade(c, u) \/ UpdateClientID(c, u)
          \/ Upgrade(c, Guest)
          \/ Welcome(c)
          \/ HandleMessage(c)
          \/ ReadPump(c)
          \/ WritePump(c)
          \/ WriteTimesOut(c)
          \/ Disconnects(c)
     \/ \E cs \in SUBSET Clients : BroadcastToSubscribers(cs)
     \/ \E u \in Users : BroadcastToUser(u)
     \/ Run
     \/ Stop

(* The pumps run when they can, and the select of Run, which chooses at     *)
(* random among what is ready, passes over nothing for ever.                *)
HubFairness ==
  /\ WF_hubVars(panics = {} /\ RunStops)
  /\ \A c \in Clients : /\ WF_hubVars(panics = {} /\ Unregister(c))
                        /\ WF_hubVars(panics = {} /\ ReadPump(c))
                        /\ WF_hubVars(panics = {} /\ WritePump(c))

HubSpec == HubInit /\ [][HubNext]_hubVars /\ HubFairness

-----------------------------------------------------------------------------
HubTypeOK ==
  /\ up \in BOOLEAN /\ stopping \in BOOLEAN
  /\ stage \in [Clients -> Stage]
  /\ writer \in [Clients -> {"off", "on", "done"}]
  /\ open \in [Clients -> BOOLEAN]
  /\ userID \in [Clients -> Users \cup {Guest}]
  /\ clients \subseteq Clients
  /\ userClients \in [Users -> SUBSET Clients]
  /\ queued \in [Clients -> 0..Capacity]
  /\ closed \in [Clients -> BOOLEAN]
  /\ panics \subseteq {"welcome", "reply", "subscribers", "user"}

(* While the hub runs, a user's connections are the registered ones that    *)
(* have logged in as that user, whatever logins, failures and               *)
(* unregistrations have happened in between.                                *)
UserClientsAreClients ==
  up => \A u \in Users : userClients[u] = {c \in clients : userID[c] = u}

(* While the hub runs nobody sends on a closed channel, although five       *)
(* goroutines send on a client's channel and another one closes it.         *)
NoSendOnClosed == panics # {} => ~up

(* A connection that is lost is unregistered and both its pumps end, as     *)
(* long as the hub is not stopped.                                          *)
LostConnectionsEnd ==
  \A c \in Clients :
    stage[c] \in {"reading", "reply"} /\ ~open[c]
      ~> \/ c \notin clients /\ stage[c] = "done" /\ writer[c] = "done"
         \/ stopping

(* Stopping the hub ends every writePump. *)
StopEndsWriters ==
  \A c \in Clients : stopping /\ writer[c] = "on" ~> writer[c] = "done" \/ panics # {}

=============================================================================
