---------------------------- MODULE MatchingBook ----------------------------
(***************************************************************************)
(* The order book of one symbol (class Book of the C++ matching engine)    *)
(* behind the C API that the Go server calls with the book's mutex held.   *)
(*                                                                         *)
(* A level is named by where its Limit object lives: in limitBuyMap, in    *)
(* limitSellMap or in stopMap, which holds the stop levels of both sides.  *)
(* Its FIFO list of orders is a sequence of ids, and a level with an empty *)
(* list does not exist, since the code deletes it when its size reaches 0. *)
(* The edge pointers are abstracted to the best price that has a level;    *)
(* module LevelTree is about when the code's pointers are that.            *)
(*                                                                         *)
(* A call that loops (a sweep of the opposite side, the stop orders it     *)
(* triggers) is a sequence of steps, one per iteration, during which no    *)
(* other call runs: `call` holds the locals of the running call.           *)
(***************************************************************************)
EXTENDS Integers, SequencesExt

CONSTANTS Prices,    \* prices an order may name
          Quantities,\* share counts an order may ask for
          MaxOrders, \* bound on the number of orders ever placed
          MaxCalls,  \* bound on the number of calls
          NoOrder    \* what orderMap finds for an id that is not in it

ASSUME BookConstants == /\ Prices \subseteq Nat \ {0}
                        /\ Quantities \subseteq Nat \ {0}
                        /\ MaxOrders \in Nat
                        /\ MaxCalls \in Nat

VARIABLES
  orders,   \* orderMap: id -> Order or NoOrder
  queue,    \* level -> ids from headOrder to tailOrder
  stopSide, \* side of the tree a stop level was put in, "none" for no level
  call,     \* the running call
  nextId,   \* the server's order id counter
  calls,    \* number of calls so far
  freed,    \* a Limit has been deleted that a price map still names
  asked,    \* history: shares an id asked for when placed or last modified
  done      \* history: shares it has traded since, as maker or as taker

vars == <<orders, queue, stopSide, call, nextId, calls, freed, asked, done>>

Ids        == 1..MaxOrders
Side       == {"buy", "sell"}
LimitLevel == Side \X Prices
StopLevel  == {"stop"} \X Prices
Level      == LimitLevel \cup StopLevel
Order      == [side: Side, shares: Nat \ {0}, limit: Prices \cup {0}, parent: Level]
Kind       == {"none", "market", "limit", "stopMarket", "stopLimit"}
Call       == [stage: {"idle", "sweep", "stops"}, kind: Kind, id: Ids \cup {0},
               side: Side, rest: Nat, limit: Prices \cup {0}]

ASSUME NoOrderIsNoOrder == NoOrder \notin Order

NoCall == [stage |-> "idle", kind |-> "none", id |-> 0,
           side |-> "buy", rest |-> 0, limit |-> 0]
Sweep(kind, id, s, q, p) == [stage |-> "sweep", kind |-> kind, id |-> id,
                             side |-> s, rest |-> q, limit |-> p]
Stops(s) == [NoCall EXCEPT !.stage = "stops", !.side = s]

Opposite(s) == IF s = "buy" THEN "sell" ELSE "buy"

(* Is p at least as good as q for an order of side s to trade against? *)
AsGood(s, p, q) == IF s = "buy" THEN p <= q ELSE p >= q

Occupied(s)   == {p \in Prices : queue[<<s, p>>] # <<>>}
StopPrices(s) == {p \in Prices : stopSide[p] = s}

(* highestBuy for s = "sell", lowestSell for s = "buy": the edge that an    *)
(* order of side s meets first.                                             *)
IsEdge(s, p) == /\ p \in Occupied(Opposite(s))
                /\ \A q \in Occupied(Opposite(s)) : AsGood(s, p, q)

(* lowestStopBuy and highestStopSell *)
IsStopEdge(s, p) == /\ p \in StopPrices(s)
                    /\ \A q \in StopPrices(s) : AsGood(s, p, q)

(* Has the market reached a stop of side s at p?  With nothing on the other *)
(* side there is no market price to reach it.                               *)
StopReached(s, p) == \E e \in Prices : IsEdge(s, e) /\ AsGood(s, p, e)

-----------------------------------------------------------------------------
(* The lists of orders *)

Place(q, id) == CHOOSE i \in 1..Len(q) : q[i] = id

(* Order::cancel takes the order out of its list wherever it stands. *)
Unlink(q, id) == [i \in 1..(Len(q) - 1) |-> IF i < Place(q, id) THEN q[i] ELSE q[i + 1]]

Unlinked(id) == [queue EXCEPT ![orders[id].parent] = Unlink(@, id)]

\* Mutant of Linked: the order is put before the head.
LinkedInFront(q, l, id) == [q EXCEPT ![l] = <<id>> \o @]

Linked(q, l, id) == [q EXCEPT ![l] = Append(@, id)]

\* Mutant of StopTrees: an emptied level stays in its tree.
StopTreesKept(q1, q2, s) ==
  [p \in Prices |-> IF q1[<<"stop", p>>] = <<>> /\ q2[<<"stop", p>>] # <<>> THEN s
                    ELSE stopSide[p]]

(* The trees of the stop levels when the lists go from queue through q1     *)
(* (something left) to q2 (something was appended by an order of side s):   *)
(* a level is put in the tree of the order that opens it.                   *)
StopTrees(q1, q2, s) ==
  [p \in Prices |-> IF q2[<<"stop", p>>] = <<>> THEN "none"
                    ELSE IF q1[<<"stop", p>>] = <<>> THEN s
                    ELSE stopSide[p]]

-----------------------------------------------------------------------------
Init == /\ orders = [id \in Ids |-> NoOrder]
        /\ queue = [l \in Level |-> <<>>]
        /\ stopSide = [p \in Prices |-> "none"]
        /\ call = NoCall
        /\ nextId = 1
        /\ calls = 0
        /\ freed = FALSE
        /\ asked = [id \in Ids |-> 0]
        /\ done = [id \in Ids |-> 0]

(* The mutex is free and the next call is made. *)
NextCall == /\ call.stage = "idle"
            /\ ~freed
            /\ calls < MaxCalls
            /\ calls' = calls + 1

(* A new order of q shares takes the next id (nextOrderID.Add). *)
TakeId(id, q) == /\ NextCall
                 /\ id = nextId
                 /\ nextId' = nextId + 1
                 /\ asked' = [asked EXCEPT ![id] = q]
                 /\ UNCHANGED <<freed, done>>

Begin(c) == /\ call' = c
            /\ UNCHANGED <<orders, queue, stopSide>>

MarketOrder(id, s, q) == /\ TakeId(id, q)
                         /\ Begin(Sweep("market", id, s, q, 0))

AddLimitOrder(id, s, q, p) == /\ TakeId(id, q)
                              /\ Begin(Sweep("limit", id, s, q, p))

(* A stop order that is already reached goes straight to the market. *)
AddStopOrder(id, s, q, sp) ==
  /\ TakeId(id, q)
  /\ \/ /\ StopReached(s, sp)
        /\ Begin(Sweep("market", id, s, q, 0))
     \/ /\ ~StopReached(s, sp)
        /\ orders' = [orders EXCEPT ![id] = [side |-> s, shares |-> q, limit |-> 0,
                                             parent |-> <<"stop", sp>>]]
        /\ queue' = Linked(queue, <<"stop", sp>>, id)
        /\ stopSide' = StopTrees(queue, queue', s)
        /\ UNCHANGED call

AddStopLimitOrder(id, s, q, p, sp) ==
  /\ TakeId(id, q)
  /\ \/ /\ StopReached(s, sp)
        /\ Begin(Sweep("limit", id, s, q, p))
     \/ /\ ~StopReached(s, sp)
        /\ orders' = [orders EXCEPT ![id] = [side |-> s, shares |-> q, limit |-> p,
                                             parent |-> <<"stop", sp>>]]
        /\ queue' = Linked(queue, <<"stop", sp>>, id)
        /\ stopSide' = StopTrees(queue, queue', s)
        /\ UNCHANGED call

-----------------------------------------------------------------------------
(* Cancelling and modifying.  The id is looked up in orderMap only, so the  *)
(* limit calls accept an order of the stop book and the stop calls accept   *)
(* one of the limit book.                                                   *)

Lookup(id) == NextCall /\ orders[id] # NoOrder

(* When the list becomes empty its level is deleted as one of the book the  *)
(* call is meant for; a level of the other book stays in its own price map. *)
FreesLevel(id, levels) == /\ Unlinked(id)[orders[id].parent] = <<>>
                          /\ orders[id].parent \notin levels

CancelOrder(id, levels) ==
  /\ Lookup(id)
  /\ queue' = Unlinked(id)
  /\ orders' = [orders EXCEPT ![id] = NoOrder]
  /\ stopSide' = StopTrees(queue', queue', "none")
  /\ freed' = FreesLevel(id, levels)
  /\ UNCHANGED <<call, nextId, asked, done>>

CancelLimitOrder(id) == CancelOrder(id, LimitLevel)

(* cancelStopOrder and cancelStopLimitOrder have the same body. *)
CancelStopOrder(id) == CancelOrder(id, StopLevel)

(* The order is taken out of its list and appended to the list of level l   *)
(* without a look at the other side of the book.                            *)
Move(id, q, p, l, levels) ==
  /\ Lookup(id)
  /\ orders' = [orders EXCEPT ![id].shares = q, ![id].limit = p, ![id].parent = l]
  /\ queue' = Linked(Unlinked(id), l, id)
  /\ stopSide' = StopTrees(Unlinked(id), queue', orders[id].side)
  /\ freed' = FreesLevel(id, levels)
  /\ asked' = [asked EXCEPT ![id] = q]
  /\ done' = [done EXCEPT ![id] = 0]
  /\ UNCHANGED <<call, nextId>>

ModifyLimitOrder(id, q, p) ==
  orders[id] # NoOrder /\ Move(id, q, p, <<orders[id].side, p>>, LimitLevel)

ModifyStopOrder(id, q, sp) == Move(id, q, 0, <<"stop", sp>>, StopLevel)

ModifyStopLimitOrder(id, q, p, sp) == Move(id, q, p, <<"stop", sp>>, StopLevel)

-----------------------------------------------------------------------------
(* The steps of a running call *)

\* Mutant of NextPrice: a limit order does not trade at its own price.
NextPriceInside(p) == /\ call.stage = "sweep"
                      /\ call.rest > 0
                      /\ IsEdge(call.side, p)
                      /\ call.limit # 0 => AsGood(call.side, p, call.limit) /\ p # call.limit

(* The price the sweep meets next: the edge, within the limit if there is one. *)
NextPrice(p) == /\ call.stage = "sweep"
                /\ call.rest > 0
                /\ IsEdge(call.side, p)
                /\ call.limit # 0 => AsGood(call.side, p, call.limit)

Trade(maker, q) == /\ done' = [done EXCEPT ![maker] = @ + q, ![call.id] = @ + q]
                   /\ call' = [call EXCEPT !.rest = @ - q]

\* Mutant of FillHead: the order stays in orderMap.
FillHeadKeepingOrder(p) ==
  LET l == <<Opposite(call.side), p>>
      h == Head(queue[l])
  IN  /\ NextPrice(p)
      /\ orders[h].shares <= call.rest
      /\ Trade(h, orders[h].shares)
      /\ queue' = [queue EXCEPT ![l] = Tail(@)]
      /\ UNCHANGED <<orders, stopSide, nextId, calls, freed, asked>>

(* The order at the head of the edge level is filled and deleted. *)
FillHead(p) ==
  LET l == <<Opposite(call.side), p>>
      h == Head(queue[l])
  IN  /\ NextPrice(p)
      /\ orders[h].shares <= call.rest
      /\ Trade(h, orders[h].shares)
      /\ orders' = [orders EXCEPT ![h] = NoOrder]
      /\ queue' = [queue EXCEPT ![l] = Tail(@)]
      /\ UNCHANGED <<stopSide, nextId, calls, freed, asked>>

\* Mutants of FillHeadPartly: taken for a head order of exactly the shares left, too;
\* the head order keeps its shares.
FillHeadOfSameSize(p) ==
  LET h == Head(queue[<<Opposite(call.side), p>>])
  IN  /\ NextPrice(p)
      /\ orders[h].shares >= call.rest
      /\ Trade(h, call.rest)
      /\ orders' = [orders EXCEPT ![h].shares = @ - call.rest]
      /\ UNCHANGED <<queue, stopSide, nextId, calls, freed, asked>>

FillHeadForNothing(p) ==
  LET h == Head(queue[<<Opposite(call.side), p>>])
  IN  /\ NextPrice(p)
      /\ orders[h].shares > call.rest
      /\ Trade(h, call.rest)
      /\ UNCHANGED <<orders, queue, stopSide, nextId, calls, freed, asked>>

(* The head order has more shares than are left to fill. *)
FillHeadPartly(p) ==
  LET h == Head(queue[<<Opposite(call.side), p>>])
  IN  /\ NextPrice(p)
      /\ orders[h].shares > call.rest
      /\ Trade(h, call.rest)
      /\ orders' = [orders EXCEPT ![h].shares = @ - call.rest]
      /\ UNCHANGED <<queue, stopSide, nextId, calls, freed, asked>>

SweepEnds == /\ call.stage = "sweep"
             /\ ~\E p \in Prices : NextPrice(p)
             /\ UNCHANGED <<nextId, calls, freed, asked, done>>

(* What a market order could not fill is dropped. *)
MarketSweepEnds ==
  /\ SweepEnds
  /\ call.kind \in {"market", "stopMarket"} \/ (call.kind = "limit" /\ call.rest = 0)
  /\ call' = Stops(call.side)
  /\ UNCHANGED <<orders, queue, stopSide>>

(* What a limit order could not fill rests, and no stop order is looked at. *)
LimitOrderRests ==
  LET l == <<call.side, call.limit>>
  IN  /\ SweepEnds
      /\ call.kind = "limit"
      /\ call.rest > 0
      /\ orders' = [orders EXCEPT ![call.id] =
                      [side |-> call.side, shares |-> call.rest,
                       limit |-> call.limit, parent |-> l]]
      /\ queue' = Linked(queue, l, call.id)
      /\ call' = NoCall
      /\ UNCHANGED stopSide

(* A triggered stop-limit order keeps its Order object until it is filled. *)
StopLimitFilled ==
  /\ SweepEnds
  /\ call.kind = "stopLimit"
  /\ call.rest = 0
  /\ orders' = [orders EXCEPT ![call.id] = NoOrder]
  /\ call' = Stops(call.side)
  /\ UNCHANGED <<queue, stopSide>>

\* Mutants of StopLimitRests: the order rests at its stop price; it goes back to
\* its stop level.
StopLimitRestsAtStop ==
  LET l == <<call.side, orders[call.id].parent[2]>>
  IN  /\ SweepEnds
      /\ call.kind = "stopLimit"
      /\ call.rest > 0
      /\ orders' = [orders EXCEPT ![call.id].shares = call.rest, ![call.id].parent = l]
      /\ queue' = Linked(queue, l, call.id)
      /\ call' = Stops(call.side)
      /\ UNCHANGED stopSide

StopLimitGoesBack ==
  /\ SweepEnds
  /\ call.kind = "stopLimit"
  /\ call.rest > 0
  /\ orders' = [orders EXCEPT ![call.id].shares = call.rest]
  /\ queue' = Linked(queue, orders[call.id].parent, call.id)
  /\ stopSide' = StopTrees(queue, queue', call.side)
  /\ call' = Stops(call.side)

StopLimitRests ==
  LET l == <<call.side, call.limit>>
  IN  /\ SweepEnds
      /\ call.kind = "stopLimit"
      /\ call.rest > 0
      /\ orders' = [orders EXCEPT ![call.id].shares = call.rest, ![call.id].parent = l]
      /\ queue' = Linked(queue, l, call.id)
      /\ call' = Stops(call.side)
      /\ UNCHANGED stopSide

(* The stop level the loop of executeStopOrders runs next.  Here an empty   *)
(* other side does trigger: the order is then executed against nothing.     *)
StopDue(p) == /\ call.stage = "stops"
              /\ IsStopEdge(call.side, p)
              /\ \A e \in Occupied(Opposite(call.side)) : AsGood(call.side, p, e)

(* The head of the stop level leaves it and is executed on the side of the  *)
(* running call, as a market order or within its limit.                     *)
TriggerStop(p) ==
  LET l  == <<"stop", p>>
      h  == Head(queue[l])
      o  == orders[h]
  IN  /\ StopDue(p)
      /\ queue' = [queue EXCEPT ![l] = Tail(@)]
      /\ stopSide' = StopTrees(queue', queue', "none")
      /\ \/ /\ o.limit = 0
            /\ orders' = [orders EXCEPT ![h] = NoOrder]
            /\ call' = Sweep("stopMarket", h, call.side, o.shares, 0)
         \/ /\ o.limit # 0
            /\ call' = Sweep("stopLimit", h, call.side, o.shares, o.limit)
            /\ UNCHANGED orders
      /\ UNCHANGED <<nextId, calls, freed, asked, done>>

CallReturns ==
  /\ call.stage = "stops"
  /\ ~\E p \in Prices : StopDue(p)
  /\ call' = NoCall
  /\ UNCHANGED <<orders, queue, stopSide, nextId, calls, freed, asked, done>>

-----------------------------------------------------------------------------
SubmitOn(sides) ==
          \E id \in Ids, s \in sides, q \in Quantities :
            \/ MarketOrder(id, s, q)
            \/ \E p \in Prices : \/ AddLimitOrder(id, s, q, p)
                                 \/ AddStopOrder(id, s, q, p)
                                 \/ \E sp \in Prices : AddStopLimitOrder(id, s, q, p, sp)

Cancel == \E id \in Ids : CancelLimitOrder(id) \/ CancelStopOrder(id)

Modify == \E id \in Ids, q \in Quantities, p \in Prices :
            \/ ModifyLimitOrder(id, q, p)
            \/ ModifyStopOrder(id, q, p)
            \/ \E sp \in Prices : ModifyStopLimitOrder(id, q, p, sp)

EngineStep == \/ \E p \in Prices : FillHead(p) \/ FillHeadPartly(p) \/ TriggerStop(p)
              \/ MarketSweepEnds
              \/ LimitOrderRests
              \/ StopLimitFilled
              \/ StopLimitRests
              \/ CallReturns

Next == SubmitOn(Side) \/ Cancel \/ Modify \/ EngineStep

(* A call that has the mutex runs on: nothing in it waits. *)
Spec == Init /\ [][Next]_vars /\ WF_vars(EngineStep)

-----------------------------------------------------------------------------
(* Properties *)

(* Every variable has its type; in particular no order of the book has zero *)
(* or negative shares, which the head comparison of the sweep relies on.    *)
TypeOK == /\ orders \in [Ids -> Order \cup {NoOrder}]
          /\ queue \in [Level -> Seq(Ids)]
          /\ stopSide \in [Prices -> Side \cup {"none"}]
          /\ call \in Call
          /\ nextId \in 1..(MaxOrders + 1)
          /\ calls \in Nat
          /\ freed \in BOOLEAN
          /\ asked \in [Ids -> Nat]
          /\ done \in [Ids -> Nat]

(* The triggered stop-limit order of the running call is in orderMap and in *)
(* no list.                                                                 *)
Held(id) == call.stage = "sweep" /\ call.kind = "stopLimit" /\ call.id = id

(* orderMap, the parentLimit pointers and the lists say the same: an order  *)
(* in a list is in orderMap, points back at that level and stands there     *)
(* once, and every order of orderMap stands in the list it points at.       *)
ListsMatchOrderMap ==
  /\ \A l \in Level : /\ IsInjective(queue[l])
                      /\ \A id \in ToSet(queue[l]) : /\ orders[id] # NoOrder
                                                     /\ orders[id].parent = l
                                                     /\ ~Held(id)
  /\ \A id \in Ids : orders[id] # NoOrder /\ ~Held(id) =>
       id \in ToSet(queue[orders[id].parent])

(* The locals of a running call: who sweeps, and that a sweeping order is   *)
(* out of orderMap unless it is a triggered stop-limit order.               *)
CallLocals ==
  call.stage = "sweep" =>
    /\ call.id \in Ids
    /\ call.id < nextId
    /\ call.kind # "none"
    /\ call.kind = "limit" => call.limit \in Prices
    /\ call.kind = "stopLimit" => /\ orders[call.id] # NoOrder
                                  /\ call.limit \in Prices
                                  /\ orders[call.id].limit = call.limit
    /\ call.kind # "stopLimit" => orders[call.id] = NoOrder

(* Ids the counter has not given out name no order and have traded nothing. *)
FreshIds == \A id \in Ids : id >= nextId => orders[id] = NoOrder /\ done[id] = 0

(* A stop level is in one of the two trees exactly when it has an order. *)
StopLevelsInTrees == \A p \in Prices : stopSide[p] = "none" <=> queue[<<"stop", p>>] = <<>>

(* The inductive invariant, over the loop iterations of every call: no       *)
(* order of the book has zero shares, lists and orderMap agree, the running  *)
(* call's locals are consistent, ids not given out name nothing and an empty *)
(* stop level is in no tree.                                                 *)
BookInv == TypeOK /\ ListsMatchOrderMap /\ CallLocals /\ FreshIds /\ StopLevelsInTrees

(* An order rests at the price of its limit, through modifications and the  *)
(* conversion of stop-limit orders.                                         *)
RestsAtItsLimit ==
  \A id \in Ids : orders[id] # NoOrder /\ orders[id].parent \in LimitLevel /\ ~Held(id) =>
    orders[id].limit = orders[id].parent[2]

(* No share is lost or traded twice: what an order still has open, resting  *)
(* or in the running sweep, is what it asked for less what it has traded,   *)
(* over partial fills, stop triggers and conversions.                       *)
SharesAccounted ==
  /\ \A id \in Ids : orders[id] # NoOrder /\ ~Held(id) =>
       asked[id] = done[id] + orders[id].shares
  /\ call.stage = "sweep" => asked[call.id] = done[call.id] + call.rest

(* Between calls the best bid is below the best ask, as long as no modify   *)
(* has moved an order across the spread: no other call crosses the book.    *)
Crossed == \E b \in Occupied("buy"), a \in Occupied("sell") : b >= a
OnlyModifyCrosses ==
  [][Crossed' => Crossed \/ \E id \in Ids, q \in Quantities, p \in Prices :
                                ModifyLimitOrder(id, q, p)]_vars

(* Time priority: two orders of one level change places only by one of them *)
(* being modified, which sends that one to the back.                        *)
PlacesKept ==
  [][\A l \in Level : \A i, j \in 1..Len(queue[l]) :
       i < j => \A m, n \in 1..Len(queue'[l]) :
         queue'[l][m] = queue[l][j] /\ queue'[l][n] = queue[l][i] /\ m < n =>
           \E q \in Quantities, p \in Prices :
             \/ ModifyLimitOrder(queue[l][i], q, p)
             \/ ModifyStopOrder(queue[l][i], q, p)
             \/ \E sp \in Prices : ModifyStopLimitOrder(queue[l][i], q, p, sp)]_vars

(* Every call releases the mutex: the sweep and the chain of stop orders    *)
(* that trigger one another come to an end.                                 *)
CallsReturn == call.stage # "idle" ~> call.stage = "idle"

(* The book implements the ledger of OrderLedger: an order is open for what *)
(* it has left in the book, or for what the running call has left to fill   *)
(* of it.                                                                   *)
Open(id)   == IF call.stage = "sweep" /\ call.id = id THEN call.rest
              ELSE IF orders[id] # NoOrder THEN orders[id].shares
              ELSE 0
OpenShares == [id \in Ids |-> Open(id)]
Ledger == INSTANCE OrderLedger WITH submitted <- {id \in Ids : id < nextId},
                                    open <- OpenShares,
                                    traded <- done
LedgerKept == Ledger!Spec

(* readme-matching-engine.md: stopSellTree holds the sell stop levels and   *)
(* stopBuyTree the buy stop levels.                                         *)
StopsInTheirTree ==
  \A p \in Prices : \A id \in ToSet(queue[<<"stop", p>>]) : orders[id].side = stopSide[p]
=============================================================================
