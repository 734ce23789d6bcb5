-------------------------- MODULE OrderLedger_proofs --------------------------
(* The order book implements the ledger, for every number of orders, prices *)
(* and calls.                                                               *)
EXTENDS MatchingBook_proofs

-----------------------------------------------------------------------------
(* The ledger of a step that changes one order, two or none *)

LEMMA NoneChanges ==
  ASSUME \A x \in Ids : Open(x)' = Open(x), done' = done, nextId' = nextId
  PROVE  UNCHANGED Ledger!vars
  <1>1. OpenShares' = OpenShares
    BY DEF OpenShares
  <1> QED
    BY <1>1 DEF Ledger!vars

LEMMA OneChanges ==
  ASSUME NEW id \in Ids, NEW q, Open(id)' = q,
         \A x \in Ids : x # id => Open(x)' = Open(x)
  PROVE  OpenShares' = [OpenShares EXCEPT ![id] = q]
  BY DEF OpenShares

LEMMA TwoChange ==
  ASSUME NEW a \in Ids, NEW b \in Ids, NEW q, a # b,
         Open(a)' = OpenShares[a] - q, Open(b)' = OpenShares[b] - q,
         \A x \in Ids : x # a /\ x # b => Open(x)' = Open(x)
  PROVE  OpenShares' = [OpenShares EXCEPT ![a] = @ - q, ![b] = @ - q]
  BY DEF OpenShares

-----------------------------------------------------------------------------
(* The calls *)

LEMMA SubmitIsSubmit ==
  ASSUME BookInv, SubmitOn(Side)
  PROVE  Ledger!Next
  <1>1. PICK id \in Ids, s \in Side, q \in Quantities :
           \/ MarketOrder(id, s, q)
           \/ \E p \in Prices : \/ AddLimitOrder(id, s, q, p)
                                \/ AddStopOrder(id, s, q, p)
                                \/ \E sp \in Prices : AddStopLimitOrder(id, s, q, p, sp)
    BY DEF SubmitOn
  <1>2. TakeId(id, q)
    BY <1>1 DEF MarketOrder, AddLimitOrder, AddStopOrder, AddStopLimitOrder
  <1>3. call.stage = "idle" /\ id = nextId /\ done' = done /\ nextId' = nextId + 1
    BY <1>2 DEF TakeId, NextCall
  <1>4. \A x \in Ids : Open(x) = IF orders[x] # NoOrder THEN orders[x].shares ELSE 0
    BY <1>3 DEF Open
  <1>5. /\ id \notin {x \in Ids : x < nextId}
        /\ {x \in Ids : x < nextId}' = {x \in Ids : x < nextId} \cup {id}
    BY <1>3 DEF Ids
  <1>6. ASSUME NEW kind \in {"market", "limit"}, NEW p, Begin(Sweep(kind, id, s, q, p))
        PROVE  Open(id)' = q /\ \A x \in Ids : x # id => Open(x)' = Open(x)
    <2>1. /\ orders' = orders /\ call'.stage = "sweep" /\ call'.id = id /\ call'.rest = q
      BY <1>6 DEF Begin, Sweep
    <2> QED
      BY <1>4, <2>1 DEF Open
  <1>7. ASSUME NEW o \in Order, o.shares = q, orders' = [orders EXCEPT ![id] = o], UNCHANGED call
        PROVE  Open(id)' = q /\ \A x \in Ids : x # id => Open(x)' = Open(x)
    <2>1. orders'[id] = o /\ \A x \in Ids : x # id => orders'[x] = orders[x]
      BY <1>7 DEF BookInv, TypeOK
    <2>2. o # NoOrder
      BY NoOrderIsNoOrder
    <2> QED
      BY <1>3, <1>4, <1>7, <2>1, <2>2 DEF Open
  <1>8. Open(id)' = q /\ \A x \in Ids : x # id => Open(x)' = Open(x)
    <2>1. CASE MarketOrder(id, s, q)
      BY <1>6, <2>1 DEF MarketOrder
    <2>2. ASSUME NEW p \in Prices, AddLimitOrder(id, s, q, p)
          PROVE  Open(id)' = q /\ \A x \in Ids : x # id => Open(x)' = Open(x)
      BY <1>6, <2>2 DEF AddLimitOrder
    <2>3. ASSUME NEW p \in Prices \cup {0}, NEW sp \in Prices
          PROVE  [side |-> s, shares |-> q, limit |-> p, parent |-> <<"stop", sp>>] \in Order
      BY BookConstants DEF Order, Level, StopLevel
    <2>4. ASSUME NEW sp \in Prices, AddStopOrder(id, s, q, sp)
          PROVE  Open(id)' = q /\ \A x \in Ids : x # id => Open(x)' = Open(x)
      <3> DEFINE o == [side |-> s, shares |-> q, limit |-> 0, parent |-> <<"stop", sp>>]
      <3>1. o \in Order /\ o.shares = q
        BY <2>3
      <3>2. \/ Begin(Sweep("market", id, s, q, 0))
            \/ orders' = [orders EXCEPT ![id] = o] /\ UNCHANGED call
        BY <2>4 DEF AddStopOrder
      <3> HIDE DEF o
      <3> QED
        BY <1>6, <1>7, <3>1, <3>2
    <2>5. ASSUME NEW p \in Prices, NEW sp \in Prices, AddStopLimitOrder(id, s, q, p, sp)
          PROVE  Open(id)' = q /\ \A x \in Ids : x # id => Open(x)' = Open(x)
      <3> DEFINE o == [side |-> s, shares |-> q, limit |-> p, parent |-> <<"stop", sp>>]
      <3>1. o \in Order /\ o.shares = q
        BY <2>3
      <3>2. \/ Begin(Sweep("limit", id, s, q, p))
            \/ orders' = [orders EXCEPT ![id] = o] /\ UNCHANGED call
        BY <2>5 DEF AddStopLimitOrder
      <3> HIDE DEF o
      <3> QED
        BY <1>6, <1>7, <3>1, <3>2
    <2> QED
      BY <1>1, <2>1, <2>2, <2>4, <2>5
  <1>9. OpenShares' = [OpenShares EXCEPT ![id] = q]
    BY <1>8, OneChanges
  <1>10. Ledger!Submit(id, q)
    BY <1>3, <1>5, <1>9 DEF Ledger!Submit
  <1> QED
    BY <1>10 DEF Ledger!Next

LEMMA CancelIsWithdraw ==
  ASSUME BookInv, NEW id \in Ids, NEW levels, CancelOrder(id, levels)
  PROVE  Ledger!Next
  <1>1. /\ call.stage = "idle" /\ call' = call /\ done' = done /\ nextId' = nextId
        /\ orders' = [orders EXCEPT ![id] = NoOrder]
        /\ orders[id] \in Order /\ orders[id] # NoOrder
    BY DEF CancelOrder, Lookup, NextCall, BookInv, TypeOK
  <1>2. \A x \in Ids : orders'[x] = IF x = id THEN NoOrder ELSE orders[x]
    BY <1>1 DEF BookInv, TypeOK
  <1>3. /\ OpenShares[id] > 0
        /\ Open(id)' = 0 /\ \A x \in Ids : x # id => Open(x)' = Open(x)
    BY <1>1, <1>2 DEF OpenShares, Open, Order
  <1>4. OpenShares' = [OpenShares EXCEPT ![id] = 0]
    BY <1>3, OneChanges
  <1>5. Ledger!Withdraw(id)
    BY <1>1, <1>3, <1>4 DEF Ledger!Withdraw
  <1> QED
    BY <1>5 DEF Ledger!Next

LEMMA MoveIsAmend ==
  ASSUME BookInv, NEW id \in Ids, NEW q \in Quantities, NEW p \in Prices \cup {0},
         NEW l \in Level, NEW levels, Move(id, q, p, l, levels)
  PROVE  Ledger!Next
  <1>1. /\ call.stage = "idle" /\ call' = call /\ nextId' = nextId
        /\ done' = [done EXCEPT ![id] = 0]
        /\ orders' = [orders EXCEPT ![id].shares = q, ![id].limit = p, ![id].parent = l]
        /\ orders[id] \in Order /\ orders[id] # NoOrder
    BY DEF Move, Lookup, NextCall, BookInv, TypeOK
  <1>2. orders'[id].shares = q /\ \A x \in Ids : x # id => orders'[x] = orders[x]
    BY <1>1 DEF BookInv, TypeOK, Order
  <1>3. orders'[id] # NoOrder
    <2>1. orders'[id] = [orders[id] EXCEPT !.shares = q, !.limit = p, !.parent = l]
      BY <1>1 DEF BookInv, TypeOK
    <2>2. q \in Nat \ {0}
      BY BookConstants
    <2>3. orders[id] = [side |-> orders[id].side, shares |-> orders[id].shares,
                        limit |-> orders[id].limit, parent |-> orders[id].parent]
      BY <1>1 DEF Order
    <2>4. orders'[id] = [side |-> orders[id].side, shares |-> q, limit |-> p, parent |-> l]
      BY <2>1, <2>3
    <2>5. orders'[id] \in Order
      BY <1>1, <2>2, <2>4 DEF Order
    <2> QED
      BY <2>5, NoOrderIsNoOrder
  <1>4. /\ OpenShares[id] > 0
        /\ Open(id)' = q /\ \A x \in Ids : x # id => Open(x)' = Open(x)
    <2>1. orders[id].shares > 0
      BY <1>1 DEF Order
    <2>2. OpenShares[id] > 0
      BY <1>1, <2>1 DEF OpenShares, Open
    <2>3. Open(id)' = q
      BY <1>1, <1>2, <1>3 DEF Open
    <2>4. call' = call /\ \A x \in Ids : x # id => orders'[x] = orders[x]
      BY <1>1, <1>2
    <2>5. \A x \in Ids : x # id => Open(x)' = Open(x)
      BY ONLY <2>4 DEF Open
    <2> QED
      BY <2>2, <2>3, <2>5
  <1>5. OpenShares' = [OpenShares EXCEPT ![id] = q]
    BY <1>4, OneChanges
  <1>6. Ledger!Amend(id, q)
    BY <1>1, <1>4, <1>5 DEF Ledger!Amend
  <1> QED
    BY <1>6 DEF Ledger!Next

-----------------------------------------------------------------------------
(* The steps of a running call *)

LEMMA FillIsTrade ==
  ASSUME BookInv, NEW p \in Prices, FillHead(p) \/ FillHeadPartly(p)
  PROVE  Ledger!Next
  <1>1. /\ NextPrice(p) /\ call.stage = "sweep" /\ call.rest \in Nat \ {0} /\ call.id \in Ids
        /\ nextId' = nextId
    BY DEF FillHead, FillHeadPartly, NextPrice, BookInv, CallLocals, TypeOK, Call
  <1>2. PICK t \in Ids : t = call.id
    BY <1>1
  <1>3. PICK h \in Ids : /\ h = Head(queue[<<Opposite(call.side), p>>])
                         /\ orders[h] \in Order /\ h # t
    BY <1>1, <1>2, HeadIsLive
  <1>4. orders[h].shares \in Nat \ {0} /\ orders[h] # NoOrder
    BY <1>3, NoOrderIsNoOrder DEF Order
  <1>5. PICK q \in Nat \ {0} :
          /\ q <= call.rest /\ q <= orders[h].shares /\ Trade(h, q)
          /\ \/ q = orders[h].shares /\ orders' = [orders EXCEPT ![h] = NoOrder]
             \/ q < orders[h].shares /\ orders' = [orders EXCEPT ![h].shares = @ - q]
    <2>1. CASE FillHead(p)
      <3>1. /\ orders[h].shares <= call.rest /\ Trade(h, orders[h].shares)
            /\ orders' = [orders EXCEPT ![h] = NoOrder]
        BY <1>3, <2>1 DEF FillHead
      <3>2. PICK q : q = orders[h].shares
        OBVIOUS
      <3>3. /\ q \in Nat \ {0} /\ q <= call.rest /\ q <= orders[h].shares /\ Trade(h, q)
            /\ q = orders[h].shares /\ orders' = [orders EXCEPT ![h] = NoOrder]
        BY <1>4, <3>1, <3>2
      <3> QED
        BY <3>3
    <2>2. CASE FillHeadPartly(p)
      <3>1. /\ orders[h].shares > call.rest /\ Trade(h, call.rest)
            /\ orders' = [orders EXCEPT ![h].shares = @ - call.rest]
        BY <1>3, <2>2 DEF FillHeadPartly
      <3>2. PICK q : q = call.rest
        OBVIOUS
      <3>3. /\ q \in Nat \ {0} /\ q <= call.rest /\ q <= orders[h].shares /\ Trade(h, q)
            /\ q < orders[h].shares /\ orders' = [orders EXCEPT ![h].shares = @ - q]
        BY <1>1, <1>4, <3>1, <3>2
      <3> QED
        BY <3>3
    <2> QED
      BY <2>1, <2>2
  <1>6. /\ call'.stage = "sweep" /\ call'.id = t /\ call'.rest = call.rest - q
        /\ done' = [done EXCEPT ![h] = @ + q, ![t] = @ + q]
    BY <1>1, <1>2, <1>5 DEF Trade, BookInv, TypeOK, Call
  <1>7. \A x \in Ids : x # h => orders'[x] = orders[x]
    BY <1>5 DEF BookInv, TypeOK
  <1>8. OpenShares[t] = call.rest /\ OpenShares[h] = orders[h].shares
    BY <1>1, <1>2, <1>3, <1>4 DEF OpenShares, Open
  <1>9. Open(t)' = OpenShares[t] - q
    BY <1>6, <1>8 DEF Open
  <1>10. Open(h)' = OpenShares[h] - q
    <2>1. Open(h)' = IF orders'[h] # NoOrder THEN orders'[h].shares ELSE 0
      BY <1>3, <1>6 DEF Open
    <2>2. CASE q = orders[h].shares /\ orders' = [orders EXCEPT ![h] = NoOrder]
      <3>1. orders'[h] = NoOrder
        BY <2>2 DEF BookInv, TypeOK
      <3> QED
        BY <1>4, <1>8, <2>1, <2>2, <3>1
    <2>3. CASE q < orders[h].shares /\ orders' = [orders EXCEPT ![h].shares = @ - q]
      <3>1. orders[h].shares - q \in Nat \ {0}
        BY <1>4, <2>3
      <3>2. orders'[h] = [orders[h] EXCEPT !.shares = orders[h].shares - q]
        BY <2>3 DEF BookInv, TypeOK
      <3>3. orders'[h] \in Order /\ orders'[h].shares = orders[h].shares - q
        BY <1>3, <3>1, <3>2 DEF Order
      <3> QED
        BY <1>8, <2>1, <3>3, NoOrderIsNoOrder
    <2> QED
      BY <1>5, <2>2, <2>3
  <1>11. \A x \in Ids : x # t /\ x # h => Open(x)' = Open(x)
    BY <1>1, <1>2, <1>6, <1>7 DEF Open
  <1>12. OpenShares' = [OpenShares EXCEPT ![t] = @ - q, ![h] = @ - q]
    BY <1>3, <1>9, <1>10, <1>11, TwoChange
  <1>13. done' = [done EXCEPT ![t] = @ + q, ![h] = @ + q]
    BY <1>3, <1>6 DEF BookInv, TypeOK
  <1>14. Ledger!Trade(t, h, q)
    BY <1>1, <1>3, <1>5, <1>8, <1>12, <1>13 DEF Ledger!Trade
  <1>15. q \in 1..OpenShares[t]
    BY <1>1, <1>5, <1>8
  <1> QED
    BY <1>14, <1>15 DEF Ledger!Next

LEMMA SweepEndWithdraws ==
  ASSUME BookInv, MarketSweepEnds \/ LimitOrderRests \/ StopLimitFilled \/ StopLimitRests
  PROVE  Ledger!Next \/ UNCHANGED Ledger!vars
  <1>1. /\ call.stage = "sweep" /\ call.id \in Ids /\ call.rest \in Nat
        /\ done' = done /\ nextId' = nextId
    BY DEF MarketSweepEnds, LimitOrderRests, StopLimitFilled, StopLimitRests, SweepEnds,
           BookInv, CallLocals, TypeOK, Call
  <1>2. PICK t \in Ids : t = call.id
    BY <1>1
  <1>3. /\ call'.stage # "sweep"
        /\ \A x \in Ids : x # t => orders'[x] = orders[x]
    <2>1. call' = Stops(call.side) \/ call' = NoCall
      BY DEF MarketSweepEnds, LimitOrderRests, StopLimitFilled, StopLimitRests
    <2>2. call'.stage # "sweep"
      <3>1. Stops(call.side).stage = "stops" /\ NoCall.stage = "idle"
        BY DEF Stops, NoCall
      <3> QED
        BY <2>1, <3>1
    <2>3. CASE MarketSweepEnds
      BY <2>2, <2>3 DEF MarketSweepEnds
    <2>4. CASE LimitOrderRests
      BY <1>2, <2>2, <2>4 DEF LimitOrderRests, BookInv, TypeOK
    <2>5. CASE StopLimitFilled
      BY <1>2, <2>2, <2>5 DEF StopLimitFilled, BookInv, TypeOK
    <2>6. CASE StopLimitRests
      BY <1>2, <2>2, <2>6 DEF StopLimitRests, BookInv, TypeOK
    <2> QED
      BY <2>3, <2>4, <2>5, <2>6
  <1>4. /\ Open(t)' = IF orders'[t] # NoOrder THEN orders'[t].shares ELSE 0
        /\ OpenShares[t] = call.rest /\ Open(t) = call.rest
        /\ \A x \in Ids : x # t => Open(x)' = Open(x)
    BY <1>1, <1>2, <1>3 DEF OpenShares, Open
  <1>5. CASE Open(t)' = call.rest
    BY <1>1, <1>4, <1>5, NoneChanges
  <1>6. CASE Open(t)' = 0 /\ call.rest > 0
    <2>1. OpenShares' = [OpenShares EXCEPT ![t] = 0]
      BY <1>4, <1>6, OneChanges
    <2>2. Ledger!Withdraw(t)
      BY <1>1, <1>4, <1>6, <2>1 DEF Ledger!Withdraw
    <2> QED
      BY <2>2 DEF Ledger!Next
  <1>7. CASE MarketSweepEnds
    <2>1. orders'[t] = NoOrder
      BY <1>1, <1>2, <1>7 DEF MarketSweepEnds, BookInv, CallLocals
    <2> QED
      BY <1>1, <1>4, <1>5, <1>6, <2>1
  <1>8. CASE LimitOrderRests
    <2> DEFINE o == [side |-> call.side, shares |-> call.rest, limit |-> call.limit,
                     parent |-> <<call.side, call.limit>>]
    <2>1. orders'[t] = o /\ o.shares = call.rest
      BY <1>2, <1>8 DEF LimitOrderRests, BookInv, TypeOK
    <2>2. o \in Order
      BY <1>1, <1>8 DEF LimitOrderRests, Order, Level, LimitLevel, BookInv, CallLocals,
                        TypeOK, Call
    <2> HIDE DEF o
    <2> QED
      BY <1>4, <1>5, <2>1, <2>2, NoOrderIsNoOrder
  <1>9. CASE StopLimitFilled
    <2>1. orders'[t] = NoOrder /\ call.rest = 0
      BY <1>2, <1>9 DEF StopLimitFilled, BookInv, TypeOK
    <2> QED
      BY <1>4, <1>5, <2>1
  <1>10. CASE StopLimitRests
    <2> DEFINE l == <<call.side, call.limit>>
    <2>1. /\ orders[t] \in Order /\ call.rest \in Nat \ {0} /\ l \in Level
      BY <1>1, <1>2, <1>10 DEF StopLimitRests, BookInv, CallLocals, TypeOK, Call, Level,
                               LimitLevel
    <2>2. orders'[t] = [orders[t] EXCEPT !.shares = call.rest, !.parent = l]
      BY <1>2, <1>10 DEF StopLimitRests, BookInv, TypeOK
    <2>3. orders'[t] \in Order /\ orders'[t].shares = call.rest
      BY <2>1, <2>2 DEF Order
    <2> QED
      BY <1>4, <1>5, <2>3, NoOrderIsNoOrder
  <1> QED
    BY <1>7, <1>8, <1>9, <1>10

LEMMA TriggerChangesNothing ==
  ASSUME BookInv, NEW p \in Prices, TriggerStop(p)
  PROVE  UNCHANGED Ledger!vars
  <1> DEFINE l == <<"stop", p>>
  <1>1. /\ call.stage = "stops" /\ done' = done /\ nextId' = nextId
        /\ stopSide[p] = call.side
    BY DEF TriggerStop, StopDue, IsStopEdge, StopPrices
  <1>2. l \in Level /\ queue[l] # <<>>
    <2>1. stopSide[p] # "none"
      BY <1>1 DEF BookInv, TypeOK, Call, Side
    <2> QED
      BY <2>1 DEF BookInv, StopLevelsInTrees, Level, StopLevel
  <1>3. queue[l] \in Seq(Ids) /\ IsInjective(queue[l])
    BY <1>2 DEF BookInv, TypeOK, ListsMatchOrderMap
  <1>4. Head(queue[l]) \in Ids /\ Head(queue[l]) \in ToSet(queue[l])
    BY <1>2, <1>3, TailOfList
  <1>5. PICK h \in Ids : h = Head(queue[l]) /\ h \in ToSet(queue[l])
    BY <1>4
  <1>6. orders[h] # NoOrder
    BY <1>2, <1>5 DEF BookInv, ListsMatchOrderMap
  <1>7. /\ call'.stage = "sweep" /\ call'.id = h /\ call'.rest = orders[h].shares
        /\ orders' = [orders EXCEPT ![h] = NoOrder] \/ orders' = orders
    <2>1. \/ /\ orders' = [orders EXCEPT ![h] = NoOrder]
             /\ call' = Sweep("stopMarket", h, call.side, orders[h].shares, 0)
          \/ /\ orders' = orders
             /\ call' = Sweep("stopLimit", h, call.side, orders[h].shares, orders[h].limit)
      BY <1>5 DEF TriggerStop
    <2> QED
      BY <2>1 DEF Sweep
  <1>8. \A x \in Ids : x # h => orders'[x] = orders[x]
    BY <1>7 DEF BookInv, TypeOK
  <1>9. \A x \in Ids : Open(x)' = Open(x)
    BY <1>1, <1>6, <1>7, <1>8 DEF Open
  <1> QED
    BY <1>1, <1>9, NoneChanges

LEMMA NextImplementsLedger == BookInv /\ [Next]_vars => [Ledger!Next]_(Ledger!vars)
  <1> SUFFICES ASSUME BookInv, [Next]_vars
               PROVE  Ledger!Next \/ UNCHANGED Ledger!vars
    OBVIOUS
  <1>1. CASE SubmitOn(Side)
    BY <1>1, SubmitIsSubmit
  <1>2. CASE Cancel
    BY <1>2, CancelIsWithdraw DEF Cancel, CancelLimitOrder, CancelStopOrder
  <1>3. CASE Modify
    <2>1. PICK id \in Ids, q \in Quantities, p \in Prices :
             \/ ModifyLimitOrder(id, q, p)
             \/ ModifyStopOrder(id, q, p)
             \/ \E sp \in Prices : ModifyStopLimitOrder(id, q, p, sp)
      BY <1>3 DEF Modify
    <2>2. CASE ModifyLimitOrder(id, q, p)
      <3>1. <<orders[id].side, p>> \in Level
        BY <2>2 DEF ModifyLimitOrder, BookInv, TypeOK, Order, Level, LimitLevel
      <3> QED
        BY <2>2, <3>1, MoveIsAmend DEF ModifyLimitOrder
    <2>3. \A sp \in Prices : <<"stop", sp>> \in Level
      BY DEF Level, StopLevel
    <2>4. CASE ModifyStopOrder(id, q, p)
      BY <2>3, <2>4, MoveIsAmend DEF ModifyStopOrder
    <2>5. ASSUME NEW sp \in Prices, ModifyStopLimitOrder(id, q, p, sp)
          PROVE  Ledger!Next
      BY <2>3, <2>5, MoveIsAmend DEF ModifyStopLimitOrder
    <2> QED
      BY <2>1, <2>2, <2>4, <2>5
  <1>4. CASE EngineStep
    <2>1. CASE CallReturns
      <3>1. /\ call.stage = "stops" /\ call'.stage = "idle"
            /\ UNCHANGED <<orders, nextId, done>>
        BY <2>1 DEF CallReturns, NoCall
      <3>2. \A x \in Ids : Open(x)' = Open(x)
        BY <3>1 DEF Open
      <3> QED
        BY <3>1, <3>2, NoneChanges
    <2> QED
      BY <1>4, <2>1, FillIsTrade, SweepEndWithdraws, TriggerChangesNothing DEF EngineStep
  <1>5. CASE UNCHANGED vars
    <2>1. \A x \in Ids : Open(x)' = Open(x)
      BY <1>5 DEF Open, vars
    <2> QED
      BY <1>5, <2>1, NoneChanges DEF vars
  <1> QED
    BY <1>1, <1>2, <1>3, <1>4, <1>5 DEF Next

(* The book keeps the ledger of its orders: ids are used once, a trade takes *)
(* the same number of shares off two open orders, and an order that is       *)
(* filled, cancelled or dropped is never open again.                         *)
THEOREM BookImplementsLedger == Spec => LedgerKept
  <1>1. Init => Ledger!Init
    <2> SUFFICES ASSUME Init
                 PROVE  Ledger!Init
      OBVIOUS
    <2>1. {id \in Ids : id < nextId} = {}
      BY DEF Init, Ids
    <2>2. OpenShares = [id \in Ids |-> 0]
      BY DEF Init, NoCall, OpenShares, Open
    <2> QED
      BY <2>1, <2>2 DEF Init, Ledger!Init
  <1> QED
    BY <1>1, NextImplementsLedger, BookInvariant, PTL DEF Spec, LedgerKept, Ledger!Spec
=============================================================================
