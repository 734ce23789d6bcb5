-------------------------- MODULE Connections_proofs --------------------------
(* What holds of the websocket hub and of what its clients are shown for any *)
(* number of connections, users, messages and changes.                      *)
EXTENDS MCConnections, FiniteSetTheorems, WellFoundedInduction, TLAPS

-----------------------------------------------------------------------------
(* The hub *)

(* The stages of a connection that Run has registered. *)
Registered == {"welcome", "reading", "reply", "unregistering"}

(* While the hub runs, a connection is registered from its registration to   *)
(* its unregistration, and its channel is closed only after that.            *)
RegisteredAreOpen ==
  up => \A c \in Clients : /\ c \in clients <=> stage[c] \in Registered
                           /\ closed[c] => stage[c] = "done"

HubInv == HubTypeOK /\ UserClientsAreClients /\ NoSendOnClosed /\ RegisteredAreOpen

LEMMA DeliverDoes ==
  ASSUME HubTypeOK, NEW cs \in SUBSET Clients,
         NEW p \in {"welcome", "reply", "subscribers", "user"}, Deliver(cs, p)
  PROVE  /\ queued' \in [Clients -> 0..Capacity]
         /\ panics' \subseteq {"welcome", "reply", "subscribers", "user"}
         /\ (\A c \in cs : ~closed[c]) => panics' = panics
  <1>1. queued' \in [Clients -> 0..Capacity]
    <2>1. \A c \in Clients : queued[c] \in 0..Capacity
      BY DEF HubTypeOK
    <2>2. ASSUME NEW c \in Clients, queued[c] < Capacity
          PROVE  queued[c] + 1 \in 0..Capacity
      BY <2>1, <2>2, HubConstants
    <2> QED
      BY <2>1, <2>2 DEF Deliver
  <1>2. panics' \subseteq {"welcome", "reply", "subscribers", "user"}
    BY DEF Deliver, HubTypeOK
  <1>3. (\A c \in cs : ~closed[c]) => panics' = panics
    BY DEF Deliver
  <1> QED
    BY <1>1, <1>2, <1>3

LEMMA MappedTypes ==
  ASSUME HubTypeOK, NEW c \in Clients, NEW u \in Users \cup {Guest},
         NEW uc \in [Users -> SUBSET Clients]
  PROVE  /\ Mapped(uc, c, u) \in [Users -> SUBSET Clients]
         /\ \A v \in Users, d \in Clients :
              d \in Mapped(uc, c, u)[v] <=> d \in uc[v] \/ (v = u /\ d = c)
  <1>1. CASE u \in Users
    <2>1. Mapped(uc, c, u) = [uc EXCEPT ![u] = uc[u] \cup {c}]
      BY <1>1 DEF Mapped
    <2> QED
      BY <1>1, <2>1
  <1>2. CASE u = Guest
    <2>1. Mapped(uc, c, u) = uc /\ u \notin Users
      BY <1>2, HubConstants DEF Mapped
    <2> QED
      BY <2>1
  <1> QED
    BY <1>1, <1>2

LEMMA UnmappedTypes ==
  ASSUME HubTypeOK, NEW c \in Clients, NEW uc \in [Users -> SUBSET Clients]
  PROVE  /\ Unmapped(uc, c) \in [Users -> SUBSET Clients]
         /\ \A v \in Users, d \in Clients :
              d \in Unmapped(uc, c)[v] <=> d \in uc[v] /\ ~(v = userID[c] /\ d = c)
  BY DEF Unmapped

LEMMA BroadcastTypes ==
  ASSUME HubTypeOK, NEW u \in Users
  PROVE  userClients[u] \in SUBSET Clients
  BY DEF HubTypeOK

LEMMA StepHubType ==
  ASSUME HubTypeOK, [HubNext]_hubVars
  PROVE  HubTypeOK'
  <1> USE DEF HubTypeOK, Stage
  <1>1. ASSUME NEW c \in Clients, NEW u \in Users \cup {Guest}, Upgrade(c, u)
        PROVE  HubTypeOK'
    BY <1>1 DEF Upgrade
  <1>2. ASSUME NEW c \in Clients, NEW u \in Users, UpdateClientID(c, u)
        PROVE  HubTypeOK'
    <2>1. Unmapped(userClients, c) \in [Users -> SUBSET Clients]
      BY UnmappedTypes
    <2>2. Mapped(Unmapped(userClients, c), c, u) \in [Users -> SUBSET Clients]
      BY <2>1, MappedTypes
    <2> QED
      BY <1>2, <2>2 DEF UpdateClientID
  <1>3. ASSUME NEW c \in Clients, Welcome(c)
        PROVE  HubTypeOK'
    BY <1>3, DeliverDoes DEF Welcome
  <1>4. ASSUME NEW c \in Clients, Reply(c)
        PROVE  HubTypeOK'
    BY <1>4, DeliverDoes DEF Reply
  <1>5. ASSUME NEW c \in Clients, HandleMessage(c) \/ ReadFails(c)
        PROVE  HubTypeOK'
    BY <1>5 DEF HandleMessage, ReadFails
  <1>6. ASSUME NEW c \in Clients, WriteFails(c) \/ Disconnects(c)
        PROVE  HubTypeOK'
    BY <1>6 DEF WriteFails, Disconnects
  <1>7. ASSUME NEW c \in Clients, Write(c) \/ WriteTimesOut(c)
        PROVE  HubTypeOK'
    <2>1. queued[c] > 0 => queued[c] - 1 \in 0..Capacity
      BY HubConstants
    <2>2. 0 \in 0..Capacity
      BY HubConstants
    <2>3. queued' \in [Clients -> 0..Capacity]
      BY <1>7, <2>1, <2>2 DEF Write, WriteTimesOut
    <2> QED
      BY <1>7, <2>3 DEF Write, WriteTimesOut
  <1>8. ASSUME NEW c \in Clients, Register(c)
        PROVE  HubTypeOK'
    BY <1>8, MappedTypes DEF Register
  <1>9. ASSUME NEW c \in Clients, Unregister(c)
        PROVE  HubTypeOK'
    <2>1. (closed[c] \/ c \in clients) \in BOOLEAN
      OBVIOUS
    <2> QED
      BY <1>9, <2>1, UnmappedTypes DEF Unregister
  <1>10. ASSUME NEW cs \in SUBSET Clients, BroadcastToSubscribers(cs)
         PROVE  HubTypeOK'
    BY <1>10, DeliverDoes DEF BroadcastToSubscribers
  <1>11. ASSUME NEW u \in Users, BroadcastToUser(u)
         PROVE  HubTypeOK'
    BY <1>11, DeliverDoes, BroadcastTypes DEF BroadcastToUser
  <1>12. CASE RunStops
    <2>1. closed' \in [Clients -> BOOLEAN] /\ open' \in [Clients -> BOOLEAN]
      BY <1>12 DEF RunStops
    <2>2. userClients' \in [Users -> SUBSET Clients] /\ clients' = {} /\ up' = FALSE
      BY <1>12 DEF RunStops
    <2> QED
      BY <1>12, <2>1, <2>2 DEF RunStops
  <1>13. CASE Stop
    BY <1>13 DEF Stop
  <1>14. CASE UNCHANGED hubVars
    BY <1>14 DEF hubVars
  <1> QED
    BY <1>1, <1>2, <1>3, <1>4, <1>5, <1>6, <1>7, <1>8, <1>9, <1>10, <1>11, <1>12, <1>13, <1>14
    DEF HubNext, ReadPump, WritePump, Run

(* Once Run has returned it never runs again. *)
LEMMA RunEndsOnce ==
  ASSUME [HubNext]_hubVars, up'
  PROVE  up /\ ~RunStops
  BY DEF HubNext, Upgrade, Welcome, UpdateClientID, HandleMessage, ReadPump, Reply, ReadFails,
         WritePump, WriteFails, Write, WriteTimesOut, Disconnects, Register, Unregister,
         BroadcastToSubscribers, RunStops, BroadcastToUser, Stop, Run, hubVars

LEMMA StepRegistered ==
  ASSUME HubTypeOK, HubTypeOK', RegisteredAreOpen, [HubNext]_hubVars
  PROVE  RegisteredAreOpen'
  <1> SUFFICES ASSUME up'
               PROVE  \A c \in Clients : /\ c \in clients' <=> stage'[c] \in Registered
                                         /\ closed'[c] => stage'[c] = "done"
    BY DEF RegisteredAreOpen
  <1> USE DEF HubTypeOK, Registered
  <1>1. /\ up /\ ~RunStops
        /\ \A c \in Clients : /\ c \in clients <=> stage[c] \in Registered
                              /\ closed[c] => stage[c] = "done"
    BY RunEndsOnce DEF RegisteredAreOpen
  <1>2. ASSUME NEW c \in Clients,
               \/ \E u \in Users \cup {Guest} : Upgrade(c, u)
               \/ \E u \in Users : UpdateClientID(c, u)
               \/ Welcome(c) \/ HandleMessage(c) \/ Reply(c) \/ ReadFails(c)
        PROVE  /\ clients' = clients /\ closed' = closed /\ stage[c] # "done"
               /\ stage'[c] \in Registered <=> stage[c] \in Registered
               /\ \A d \in Clients : d # c => stage'[d] = stage[d]
    BY <1>2 DEF Upgrade, UpdateClientID, Welcome, HandleMessage, Reply, ReadFails
  <1>3. ASSUME NEW c \in Clients, Register(c)
        PROVE  \A d \in Clients : /\ d \in clients' <=> stage'[d] \in Registered
                                  /\ closed'[d] => stage'[d] = "done"
    BY <1>1, <1>3 DEF Register
  <1>4. ASSUME NEW c \in Clients, Unregister(c)
        PROVE  \A d \in Clients : /\ d \in clients' <=> stage'[d] \in Registered
                                  /\ closed'[d] => stage'[d] = "done"
    BY <1>1, <1>4 DEF Unregister
  <1>5. CASE clients' = clients /\ closed' = closed /\ stage' = stage
    BY <1>1, <1>5
  <1>6. ASSUME NEW c \in Clients, WriteFails(c) \/ Write(c) \/ WriteTimesOut(c) \/ Disconnects(c)
        PROVE  clients' = clients /\ closed' = closed /\ stage' = stage
    BY <1>6 DEF WriteFails, Write, WriteTimesOut, Disconnects
  <1>7. CASE \/ Stop \/ UNCHANGED hubVars
             \/ \E cs \in SUBSET Clients : BroadcastToSubscribers(cs)
             \/ \E u \in Users : BroadcastToUser(u)
    BY <1>5, <1>7 DEF Stop, hubVars, BroadcastToSubscribers, BroadcastToUser
  <1>8. ASSUME NEW c \in Clients,
               clients' = clients, closed' = closed, stage[c] # "done",
               stage'[c] \in Registered <=> stage[c] \in Registered,
               \A d \in Clients : d # c => stage'[d] = stage[d]
        PROVE  \A d \in Clients : /\ d \in clients' <=> stage'[d] \in Registered
                                  /\ closed'[d] => stage'[d] = "done"
    BY <1>1, <1>8
  <1> QED
    BY <1>1, <1>2, <1>3, <1>4, <1>5, <1>6, <1>7, <1>8 DEF HubNext, ReadPump, WritePump, Run

LEMMA StepUserClients ==
  ASSUME HubTypeOK, UserClientsAreClients, RegisteredAreOpen, [HubNext]_hubVars
  PROVE  UserClientsAreClients'
  <1> SUFFICES ASSUME up'
               PROVE  \A u \in Users : userClients'[u] = {c \in clients' : userID'[c] = u}
    BY DEF UserClientsAreClients
  <1>1. /\ up /\ ~RunStops /\ clients \subseteq Clients
        /\ userClients \in [Users -> SUBSET Clients]
        /\ userID \in [Clients -> Users \cup {Guest}]
        /\ \A u \in Users : userClients[u] = {c \in clients : userID[c] = u}
        /\ \A c \in Clients : c \in clients <=> stage[c] \in Registered
    BY RunEndsOnce DEF UserClientsAreClients, RegisteredAreOpen, HubTypeOK
  <1>2. ASSUME NEW c \in Clients, NEW u \in Users \cup {Guest}, Upgrade(c, u)
        PROVE  \A v \in Users : userClients'[v] = {d \in clients' : userID'[d] = v}
    <2>1. c \notin clients
      BY <1>1, <1>2 DEF Upgrade, Registered
    <2> QED
      BY <1>1, <1>2, <2>1 DEF Upgrade
  <1>3. ASSUME NEW c \in Clients, NEW u \in Users, UpdateClientID(c, u)
        PROVE  \A v \in Users : userClients'[v] = {d \in clients' : userID'[d] = v}
    <2>1. c \in clients
      BY <1>1, <1>3 DEF UpdateClientID, Registered
    <2>2. /\ Unmapped(userClients, c) \in [Users -> SUBSET Clients]
          /\ \A v \in Users, d \in Clients :
               d \in Unmapped(userClients, c)[v]
                 <=> d \in userClients[v] /\ ~(v = userID[c] /\ d = c)
      BY <1>1, UnmappedTypes
    <2>3. userClients' = Mapped(Unmapped(userClients, c), c, u) /\ u \in Users \cup {Guest}
      BY <1>3 DEF UpdateClientID
    <2>4. /\ userClients' \in [Users -> SUBSET Clients]
          /\ \A v \in Users, d \in Clients :
               d \in userClients'[v] <=> d \in Unmapped(userClients, c)[v] \/ (v = u /\ d = c)
      BY <2>2, <2>3, MappedTypes
    <2>5. /\ clients' = clients /\ userID'[c] = u
          /\ \A d \in Clients : d # c => userID'[d] = userID[d]
      BY <1>1, <1>3 DEF UpdateClientID
    <2> SUFFICES ASSUME NEW v \in Users
                 PROVE  userClients'[v] = {d \in clients' : userID'[d] = v}
      OBVIOUS
    <2>6. \A d \in Clients : d \in userClients[v] <=> d \in clients /\ userID[d] = v
      BY <1>1
    <2>7. \A d \in Clients : d \in userClients'[v] <=> d \in clients' /\ userID'[d] = v
      BY <2>1, <2>2, <2>4, <2>5, <2>6
    <2> QED
      BY <1>1, <2>4, <2>5, <2>7
  <1>4. ASSUME NEW c \in Clients, Register(c)
        PROVE  \A v \in Users : userClients'[v] = {d \in clients' : userID'[d] = v}
    <2>1. c \notin clients /\ clients' = clients \cup {c} /\ userID' = userID
      BY <1>1, <1>4 DEF Register, Registered
    <2>2. userClients' = Mapped(userClients, c, userID[c]) /\ userID[c] \in Users \cup {Guest}
      BY <1>1, <1>4 DEF Register
    <2>3. /\ userClients' \in [Users -> SUBSET Clients]
          /\ \A v \in Users, d \in Clients :
               d \in userClients'[v] <=> d \in userClients[v] \/ (v = userID[c] /\ d = c)
      BY <1>1, <2>2, MappedTypes
    <2> SUFFICES ASSUME NEW v \in Users
                 PROVE  userClients'[v] = {d \in clients' : userID'[d] = v}
      OBVIOUS
    <2>4. \A d \in Clients : d \in userClients[v] <=> d \in clients /\ userID[d] = v
      BY <1>1
    <2>5. \A d \in Clients : d \in userClients'[v] <=> d \in clients' /\ userID'[d] = v
      BY <2>1, <2>3, <2>4
    <2> QED
      BY <1>1, <2>1, <2>3, <2>5
  <1>5. ASSUME NEW c \in Clients, Unregister(c)
        PROVE  \A v \in Users : userClients'[v] = {d \in clients' : userID'[d] = v}
    <2>1. c \in clients /\ clients' = clients \ {c} /\ userID' = userID
      BY <1>1, <1>5 DEF Unregister, Registered
    <2>2. userClients' = Unmapped(userClients, c)
      BY <1>5, <2>1 DEF Unregister
    <2>3. /\ userClients' \in [Users -> SUBSET Clients]
          /\ \A v \in Users, d \in Clients :
               d \in userClients'[v] <=> d \in userClients[v] /\ ~(v = userID[c] /\ d = c)
      BY <1>1, <2>2, UnmappedTypes
    <2> SUFFICES ASSUME NEW v \in Users
                 PROVE  userClients'[v] = {d \in clients' : userID'[d] = v}
      OBVIOUS
    <2>4. \A d \in Clients : d \in userClients[v] <=> d \in clients /\ userID[d] = v
      BY <1>1
    <2>5. \A d \in Clients : d \in userClients'[v] <=> d \in clients' /\ userID'[d] = v
      BY <2>1, <2>3, <2>4
    <2> QED
      BY <1>1, <2>1, <2>3, <2>5
  <1>6. CASE clients' = clients /\ userID' = userID /\ userClients' = userClients
    BY <1>1, <1>6
  <1>7. ASSUME NEW c \in Clients,
               \/ Welcome(c) \/ HandleMessage(c) \/ Reply(c) \/ ReadFails(c)
               \/ WriteFails(c) \/ Write(c) \/ WriteTimesOut(c) \/ Disconnects(c)
        PROVE  clients' = clients /\ userID' = userID /\ userClients' = userClients
    BY <1>7 DEF Welcome, HandleMessage, Reply, ReadFails, WriteFails, Write, WriteTimesOut,
                Disconnects
  <1>8. CASE \/ Stop \/ UNCHANGED hubVars
             \/ \E cs \in SUBSET Clients : BroadcastToSubscribers(cs)
             \/ \E u \in Users : BroadcastToUser(u)
    BY <1>6, <1>8 DEF Stop, hubVars, BroadcastToSubscribers, BroadcastToUser
  <1> QED
    BY <1>1, <1>2, <1>3, <1>4, <1>5, <1>6, <1>7, <1>8 DEF HubNext, ReadPump, WritePump, Run

LEMMA StepNoSendOnClosed ==
  ASSUME HubInv, [HubNext]_hubVars
  PROVE  NoSendOnClosed'
  <1> SUFFICES ASSUME up'
               PROVE  panics' = {}
    BY DEF NoSendOnClosed
  <1>1. /\ up /\ ~RunStops /\ panics = {}
        /\ \A c \in Clients : /\ c \in clients <=> stage[c] \in Registered
                              /\ closed[c] => stage[c] = "done"
    BY RunEndsOnce DEF HubInv, NoSendOnClosed, RegisteredAreOpen
  <1>2. \A c \in clients : ~closed[c]
    BY <1>1 DEF HubInv, HubTypeOK, Registered
  <1>3. ASSUME NEW c \in Clients, Welcome(c) \/ Reply(c)
        PROVE  panics' = {}
    BY <1>1, <1>3, DeliverDoes DEF Welcome, Reply, HubInv
  <1>4. ASSUME NEW cs \in SUBSET Clients, BroadcastToSubscribers(cs)
        PROVE  panics' = {}
    BY <1>1, <1>2, <1>4, DeliverDoes DEF BroadcastToSubscribers, HubInv
  <1>5. ASSUME NEW u \in Users, BroadcastToUser(u)
        PROVE  panics' = {}
    <2>1. userClients[u] \subseteq clients
      BY <1>1 DEF HubInv, UserClientsAreClients
    <2> QED
      BY <1>1, <1>2, <1>5, <2>1, DeliverDoes, BroadcastTypes DEF BroadcastToUser, HubInv
  <1>6. CASE panics' = panics
    BY <1>1, <1>6
  <1> QED
    BY <1>1, <1>3, <1>4, <1>5, <1>6
    DEF HubNext, Upgrade, UpdateClientID, HandleMessage, ReadPump, ReadFails, WritePump,
        WriteFails, Write, WriteTimesOut, Disconnects, Register, Unregister, Stop, Run, hubVars

LEMMA StepHub ==
  ASSUME HubInv, [HubNext]_hubVars
  PROVE  HubInv'
  BY StepHubType, StepRegistered, StepUserClients, StepNoSendOnClosed DEF HubInv

LEMMA InitHub ==
  ASSUME HubInit
  PROVE  HubInv
  <1>1. HubTypeOK
    <2>1. 0 \in 0..Capacity
      BY HubConstants
    <2>2. stage \in [Clients -> Stage] /\ writer \in [Clients -> {"off", "on", "done"}]
      BY DEF HubInit, Stage
    <2>3. queued \in [Clients -> 0..Capacity] /\ userID \in [Clients -> Users \cup {Guest}]
      BY <2>1 DEF HubInit
    <2>4. open \in [Clients -> BOOLEAN] /\ closed \in [Clients -> BOOLEAN]
      BY DEF HubInit
    <2> QED
      BY <2>2, <2>3, <2>4 DEF HubInit, HubTypeOK
  <1> QED
    BY <1>1 DEF HubInit, HubInv, UserClientsAreClients, NoSendOnClosed, RegisteredAreOpen, Registered

LEMMA HubInvAlways == HubSpec => []HubInv
  <1>1. HubInit => HubInv
    BY InitHub
  <1>2. HubInv /\ [HubNext]_hubVars => HubInv'
    BY StepHub
  <1> QED
    BY <1>1, <1>2, PTL DEF HubSpec

(* While the hub runs, the connections it keeps for a user are the           *)
(* registered ones that have logged in as that user: logins as another user, *)
(* lost connections and full channels leave no stale entry and miss none.    *)
THEOREM UsersHaveTheirClients == HubSpec => []UserClientsAreClients
  BY HubInvAlways, PTL DEF HubInv

(* While the hub runs nobody sends on a closed channel: the channel is       *)
(* closed when the connection has left both maps and its readPump is done.   *)
THEOREM NobodySendsOnClosed == HubSpec => []NoSendOnClosed
  BY HubInvAlways, PTL DEF HubInv

-----------------------------------------------------------------------------
(* What the clients are shown *)

(* A message in the channel shows a depth or a portfolio that has been. *)
SentWas == \A i \in DOMAIN send :
             /\ send[i].kind = "depth" => send[i].version \in 0..book
             /\ send[i].kind = "portfolio" => send[i].version \in 0..portfolio

FeedInv == FeedTypeOK /\ SentWas

(* The greatest of a set of numbers *)
LEMMA GreatestPlace ==
  ASSUME NEW n \in Nat, NEW S \in SUBSET (1..n), S # {}
  PROVE  Max(S) \in S
  <1> DEFINE T == {k \in Nat : n - k \in S}
             R == OpToRel(<, Nat)
  <1>1. \A x, y \in Nat : <<x, y>> \in R <=> x < y
    BY DEF OpToRel
  <1>2. IsWellFoundedOn(R, Nat)
    BY NatLessThanWellFounded
  <1>3. T \subseteq Nat /\ T # {}
    <2>1. PICK m \in S : TRUE
      OBVIOUS
    <2>2. n - m \in Nat /\ n - (n - m) = m
      OBVIOUS
    <2> QED
      BY <2>1, <2>2
  <1> HIDE DEF R, T
  <1>4. PICK k \in T : \A l \in T : ~ (<<l, k>> \in R)
    BY <1>2, <1>3, WFMin
  <1>5. k \in Nat /\ n - k \in S
    BY <1>4 DEF T
  <1>6. ASSUME NEW m \in S
        PROVE  n - k >= m
    <2>1. n - m \in Nat /\ n - (n - m) = m
      OBVIOUS
    <2>2. n - m \in T
      BY <2>1 DEF T
    <2>3. ~(n - m < k)
      BY <1>1, <1>4, <1>5, <2>1, <2>2
    <2> QED
      BY <1>5, <2>1, <2>3
  <1>7. \E x \in S : \A y \in S : x >= y
    BY <1>5, <1>6
  <1> QED
    BY <1>7 DEF Max

(* What a frame shows of a kind has been, if what was shown before has. *)
LEMMA LastOfWas ==
  ASSUME send \in Seq(Message), NEW kind, NEW n \in Nat, NEW before \in 0..n,
         \A i \in DOMAIN send : send[i].kind = kind => send[i].version \in 0..n
  PROVE  LastOf(kind, before) \in 0..n
  <1> DEFINE places == {i \in 1..Len(send) : send[i].kind = kind}
  <1>1. SelectLastInSeq(send, LAMBDA m : m.kind = kind) = IF places # {} THEN Max(places) ELSE 0
    BY DEF SelectLastInSeq
  <1>2. DOMAIN send = 1..Len(send) /\ Len(send) \in Nat
    OBVIOUS
  <1>3. CASE places # {}
    <2>1. Max(places) \in places
      BY <1>2, <1>3, GreatestPlace
    <2>2. Max(places) \in DOMAIN send /\ send[Max(places)].kind = kind /\ Max(places) # 0
      BY <1>2, <2>1
    <2>3. LastOf(kind, before) = send[Max(places)].version
      BY <1>1, <1>3, <2>2 DEF LastOf
    <2> QED
      BY <2>2, <2>3
  <1>4. CASE places = {}
    BY <1>1, <1>4 DEF LastOf
  <1> QED
    BY <1>3, <1>4

LEMMA EnqueueDoes ==
  ASSUME FeedInv, NEW m \in Message, Enqueue(m),
         m.kind = "depth" => m.version \in 0..book,
         m.kind = "portfolio" => m.version \in 0..portfolio
  PROVE  /\ send' \in Seq(Message) /\ Len(send') <= SendCapacity
         /\ \A i \in DOMAIN send' :
              /\ send'[i].kind = "depth" => send'[i].version \in 0..book
              /\ send'[i].kind = "portfolio" => send'[i].version \in 0..portfolio
  <1>1. send \in Seq(Message) /\ Len(send) <= SendCapacity
    BY DEF FeedInv, FeedTypeOK
  <1>2. CASE HasRoom
    <2>1. send' = Append(send, m)
      BY <1>2 DEF Enqueue
    <2>2. send' \in Seq(Message) /\ Len(send') = Len(send) + 1 /\ Len(send) \in Nat
      BY <1>1, <2>1
    <2>3. \A i \in DOMAIN send' : send'[i] = m \/ (i \in DOMAIN send /\ send'[i] = send[i])
      BY <1>1, <2>1
    <2> QED
      BY <1>1, <1>2, <2>2, <2>3, FeedConstants DEF HasRoom, FeedInv, SentWas
  <1>3. CASE ~HasRoom
    BY <1>1, <1>3 DEF Enqueue, FeedInv, SentWas
  <1> QED
    BY <1>2, <1>3

LEMMA MessagesAre ==
  /\ \A v \in Nat : /\ [kind |-> "depth", version |-> v] \in Message
                     /\ [kind |-> "portfolio", version |-> v] \in Message
  /\ [kind |-> "other"] \in Message
  BY DEF Message

Update(n) == [stage: {"none", "changed", "read"}, version: 0..n]

(* A change makes what has been more. *)
LEMMA MoreHasBeen ==
  ASSUME NEW n \in Nat
  PROVE  /\ n + 1 \in 0..(n + 1) /\ \A k \in 0..n : k \in 0..(n + 1)
         /\ \A w \in Update(n) : w \in Update(n + 1)
  <1>1. \A k \in 0..n : k \in 0..(n + 1)
    OBVIOUS
  <1> QED
    BY <1>1 DEF Update

LEMMA FeedTypes ==
  ASSUME FeedInv
  PROVE  /\ book \in Nat /\ portfolio \in Nat /\ update \in [Updaters -> Update(portfolio)]
         /\ book <= MaxChanges /\ portfolio <= MaxFills
         /\ latestDepth # NoDepth => latestDepth \in 0..book
  BY FeedConstants DEF FeedInv, FeedTypeOK, Update

LEMMA BookStep ==
  ASSUME FeedInv, BookChanges, latestDepth' \in {latestDepth, book'}, tick' = tick,
         UNCHANGED <<snapshot, send, depthSeen, portfolio, update, portfolioSeen, others, overtaken>>
  PROVE  FeedInv'
  <1>1. book \in Nat /\ book' = book + 1 /\ book' \in 0..MaxChanges
    BY FeedTypes, FeedConstants DEF BookChanges
  <1>2. /\ snapshot' \in 0..book' /\ depthSeen' \in 0..book'
        /\ latestDepth' \in 0..book' \cup {NoDepth}
    BY <1>1, MoreHasBeen DEF FeedInv, FeedTypeOK
  <1>3. SentWas'
    <2>1. ASSUME NEW i \in DOMAIN send, send[i].kind = "depth"
          PROVE  send[i].version \in 0..book'
      BY <1>1, <2>1, MoreHasBeen DEF FeedInv, SentWas
    <2> QED
      BY <2>1 DEF FeedInv, SentWas
  <1> QED
    BY <1>1, <1>2, <1>3 DEF FeedInv, FeedTypeOK

LEMMA TickStep ==
  ASSUME FeedInv, StartGenerator \/ TickReads \/ TickBroadcasts \/ TickEnds
  PROVE  FeedInv'
  <1>1. book \in 0..book
    BY FeedTypes
  <1>2. /\ tick' \in {"off", "idle", "read", "quoting"} /\ snapshot' \in 0..book
        /\ latestDepth' \in 0..book \cup {NoDepth}
        /\ UNCHANGED <<book, send, depthSeen, portfolio, update, portfolioSeen, others, overtaken>>
    BY <1>1 DEF StartGenerator, TickReads, TickBroadcasts, TickEnds, FeedInv, FeedTypeOK
  <1> QED
    BY <1>2 DEF FeedInv, FeedTypeOK, SentWas

LEMMA FlushStep ==
  ASSUME FeedInv, Flush
  PROVE  FeedInv'
  <1> DEFINE m == [kind |-> "depth", version |-> latestDepth]
  <1>1. latestDepth \in 0..book /\ latestDepth \in Nat
    BY FeedTypes DEF Flush
  <1>2. m \in Message /\ m.kind = "depth" /\ m.version = latestDepth
    BY <1>1, MessagesAre
  <1>3. Enqueue(m)
    BY DEF Flush
  <1> HIDE DEF m
  <1>4. /\ send' \in Seq(Message) /\ Len(send') <= SendCapacity
        /\ \A i \in DOMAIN send' :
              /\ send'[i].kind = "depth" => send'[i].version \in 0..book
              /\ send'[i].kind = "portfolio" => send'[i].version \in 0..portfolio
    BY <1>1, <1>2, <1>3, EnqueueDoes
  <1>5. /\ latestDepth' = NoDepth
        /\ UNCHANGED <<book, tick, snapshot, depthSeen, portfolio, update, portfolioSeen,
                       others, overtaken>>
    BY DEF Flush
  <1> QED
    BY <1>4, <1>5 DEF FeedInv, FeedTypeOK, SentWas

LEMMA OtherStep ==
  ASSUME FeedInv, OtherMessage
  PROVE  FeedInv'
  <1> DEFINE m == [kind |-> "other"]
  <1>1. m \in Message /\ m.kind = "other" /\ Enqueue(m)
    BY MessagesAre DEF OtherMessage
  <1> HIDE DEF m
  <1>2. /\ send' \in Seq(Message) /\ Len(send') <= SendCapacity
        /\ \A i \in DOMAIN send' :
              /\ send'[i].kind = "depth" => send'[i].version \in 0..book
              /\ send'[i].kind = "portfolio" => send'[i].version \in 0..portfolio
    BY <1>1, EnqueueDoes
  <1>3. /\ others' \in 0..MaxOthers
        /\ UNCHANGED <<book, tick, snapshot, latestDepth, depthSeen, portfolio, update,
                       portfolioSeen, overtaken>>
    BY FeedConstants DEF OtherMessage, FeedInv, FeedTypeOK
  <1> QED
    BY <1>2, <1>3 DEF FeedInv, FeedTypeOK, SentWas

LEMMA FrameStep ==
  ASSUME FeedInv, WriteFrame
  PROVE  FeedInv'
  <1>1. depthSeen' \in 0..book
    BY FeedTypes, LastOfWas DEF WriteFrame, FeedInv, FeedTypeOK, SentWas
  <1>2. portfolioSeen' \in 0..portfolio
    BY FeedTypes, LastOfWas DEF WriteFrame, FeedInv, FeedTypeOK, SentWas
  <1>3. /\ send' = <<>> /\ send' \in Seq(Message) /\ Len(send') = 0 /\ DOMAIN send' = {}
        /\ UNCHANGED <<book, tick, snapshot, latestDepth, portfolio, update, others, overtaken>>
    BY DEF WriteFrame
  <1> QED
    BY <1>1, <1>2, <1>3, FeedConstants DEF FeedInv, FeedTypeOK, SentWas

LEMMA FillStep ==
  ASSUME FeedInv, NEW u \in Updaters, ApplyFill(u)
  PROVE  FeedInv'
  <1>1. /\ portfolio \in Nat /\ portfolio' = portfolio + 1 /\ portfolio' \in 0..MaxFills
        /\ update \in [Updaters -> Update(portfolio)]
    BY FeedTypes, FeedConstants DEF ApplyFill
  <1>2. update' \in [Updaters -> Update(portfolio')]
    <2>1. [update[u] EXCEPT !.stage = "changed"] \in Update(portfolio)
      BY <1>1 DEF Update
    <2>2. update' \in [Updaters -> Update(portfolio)]
      BY <1>1, <2>1 DEF ApplyFill
    <2> QED
      BY <1>1, <2>2, MoreHasBeen
  <1>3. portfolioSeen' \in 0..portfolio'
    BY <1>1, MoreHasBeen DEF ApplyFill, FeedInv, FeedTypeOK
  <1>4. overtaken' \in BOOLEAN
    BY DEF ApplyFill
  <1>5. SentWas'
    <2>1. ASSUME NEW i \in DOMAIN send, send[i].kind = "portfolio"
          PROVE  send[i].version \in 0..portfolio'
      BY <1>1, <2>1, MoreHasBeen DEF FeedInv, SentWas
    <2>2. send' = send /\ book' = book
      BY DEF ApplyFill
    <2> QED
      BY <2>1, <2>2 DEF FeedInv, SentWas
  <1>6. UNCHANGED <<book, tick, snapshot, latestDepth, send, depthSeen, others>>
    BY DEF ApplyFill
  <1> QED
    BY <1>1, <1>2, <1>3, <1>4, <1>5, <1>6 DEF FeedInv, FeedTypeOK, Update

LEMMA UpdateStep ==
  ASSUME FeedInv, NEW u \in Updaters, Updates(u)
  PROVE  FeedInv'
  <1>1. /\ portfolio \in Nat /\ update \in [Updaters -> Update(portfolio)]
        /\ portfolio \in 0..portfolio /\ 0 \in 0..portfolio
    BY FeedTypes
  <1>2. CASE ReadPortfolio(u)
    <2>1. [stage |-> "read", version |-> portfolio] \in Update(portfolio)
      BY <1>1 DEF Update
    <2>2. update' \in [Updaters -> Update(portfolio)]
      BY <1>1, <1>2, <2>1 DEF ReadPortfolio
    <2>3. UNCHANGED <<book, tick, snapshot, latestDepth, send, depthSeen, portfolio,
                      portfolioSeen, others, overtaken>>
      BY <1>2 DEF ReadPortfolio
    <2> QED
      BY <2>2, <2>3 DEF FeedInv, FeedTypeOK, SentWas, Update
  <1>3. CASE BroadcastUpdate(u)
    <2> DEFINE m == [kind |-> "portfolio", version |-> update[u].version]
    <2>1. update[u].version \in 0..portfolio /\ update[u].version \in Nat
      BY <1>1 DEF Update
    <2>2. m \in Message /\ m.kind = "portfolio" /\ m.version = update[u].version
      BY <2>1, MessagesAre
    <2>3. Enqueue(m)
      BY <1>3 DEF BroadcastUpdate
    <2> HIDE DEF m
    <2>4. /\ send' \in Seq(Message) /\ Len(send') <= SendCapacity
          /\ \A i \in DOMAIN send' :
                /\ send'[i].kind = "depth" => send'[i].version \in 0..book
                /\ send'[i].kind = "portfolio" => send'[i].version \in 0..portfolio
      BY <2>1, <2>2, <2>3, EnqueueDoes
    <2>5. NoUpdate \in Update(portfolio)
      BY <1>1 DEF NoUpdate, Update
    <2>6. update' \in [Updaters -> Update(portfolio)]
      BY <1>1, <1>3, <2>5 DEF BroadcastUpdate
    <2>7. overtaken' \in BOOLEAN
      BY <1>3 DEF BroadcastUpdate
    <2>8. UNCHANGED <<book, tick, snapshot, latestDepth, depthSeen, portfolio, portfolioSeen, others>>
      BY <1>3 DEF BroadcastUpdate
    <2> QED
      BY <2>4, <2>6, <2>7, <2>8 DEF FeedInv, FeedTypeOK, SentWas, Update
  <1> QED
    BY <1>2, <1>3 DEF Updates

LEMMA StepFeed ==
  ASSUME FeedInv, [FeedNext]_feedVars
  PROVE  FeedInv'
  <1>1. CASE UserOrder \/ StopEntry \/ \E trades \in BOOLEAN : Quote(trades)
    <2>1. /\ BookChanges /\ latestDepth' \in {latestDepth, book'} /\ tick' = tick
          /\ UNCHANGED <<snapshot, send, depthSeen, portfolio, update, portfolioSeen, others, overtaken>>
      BY <1>1 DEF UserOrder, StopEntry, Quote
    <2> QED
      BY <2>1, BookStep
  <1>2. CASE UNCHANGED feedVars
    BY <1>2 DEF feedVars, FeedInv, FeedTypeOK, SentWas
  <1> QED
    BY <1>1, <1>2, TickStep, FlushStep, OtherStep, FrameStep, FillStep, UpdateStep
    DEF FeedNext, Ticks

LEMMA InitFeed ==
  ASSUME FeedInit
  PROVE  FeedInv
  <1>1. /\ book \in 0..MaxChanges /\ snapshot \in 0..book /\ depthSeen \in 0..book
        /\ portfolio \in 0..MaxFills /\ portfolioSeen \in 0..portfolio /\ others \in 0..MaxOthers
    BY FeedConstants DEF FeedInit
  <1>2. send \in Seq(Message) /\ Len(send) = 0 /\ DOMAIN send = {}
    BY DEF FeedInit
  <1>3. update \in [Updaters -> Update(portfolio)]
    BY DEF FeedInit, NoUpdate, Update
  <1>4. tick = "off" /\ latestDepth = NoDepth
    BY DEF FeedInit
  <1>5. overtaken \in BOOLEAN
    BY DEF FeedInit
  <1>6. Len(send) <= SendCapacity
    BY <1>2, FeedConstants
  <1> QED
    BY <1>1, <1>2, <1>3, <1>4, <1>5, <1>6 DEF FeedInv, FeedTypeOK, SentWas, Update

(* A client is shown depths and portfolios that have been, never more than   *)
(* was changed, and its channel never holds more than it has room for.       *)
THEOREM FeedTypeCorrect == FeedSpec => []FeedTypeOK
  <1>1. FeedInit => FeedInv
    BY InitFeed
  <1>2. FeedInv /\ [FeedNext]_feedVars => FeedInv'
    BY StepFeed
  <1>3. FeedInv => FeedTypeOK
    BY DEF FeedInv
  <1> QED
    BY <1>1, <1>2, <1>3, PTL DEF FeedSpec

-----------------------------------------------------------------------------
(* Both *)

(* The hub and the feed keep their types when they run side by side. *)
THEOREM ConnectionsTypeCorrect == MCSpec => []TypeOK
  <1>1. MCInit => HubInv /\ FeedInv
    BY InitHub, InitFeed DEF MCInit
  <1>2. ASSUME HubInv, FeedInv, [MCNext]_<<hubVars, feedVars>>
        PROVE  HubInv' /\ FeedInv'
    <2>1. [HubNext]_hubVars /\ [FeedNext]_feedVars
      BY <1>2 DEF MCNext
    <2> QED
      BY <1>2, <2>1, StepHub, StepFeed
  <1>3. HubInv /\ FeedInv => TypeOK
    BY DEF HubInv, FeedInv, TypeOK
  <1> QED
    BY <1>1, <1>2, <1>3, PTL DEF MCSpec

=============================================================================
