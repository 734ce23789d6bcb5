------------------------------ MODULE OrderFlow ------------------------------
(***************************************************************************)
(* What happens to the money when the orders of one symbol are placed,     *)
(* matched, cancelled and modified: the HTTP handlers of the Go server     *)
(* (one goroutine per request), the market generator, the tracker of the   *)
(* users' limit orders and the portfolio manager.                          *)
(*                                                                         *)
(* Three mutexes cut this code into steps: the book's (held for one engine *)
(* call by a handler and for a whole tick by the generator), the tracker's *)
(* and the portfolio manager's (both held for one call).  An action is one *)
(* critical section.  The book is that of module MatchingBook, and an      *)
(* engine call is one step; what it does with the id of an order of the    *)
(* other book is left to that module.  Where the tracker goes through the  *)
(* trades of a call it takes a step for each, and keeps its mutex.         *)
(***************************************************************************)
EXTENDS Integers, SequencesExt

CONSTANTS Users,
          Threads,     \* goroutines that can be in a handler at a time
          Generator,   \* the goroutine of the market generator
          Prices,
          Quantities,  \* share counts of a user's order
          QuoteSizes,  \* share counts of the generator's orders
          Deposit,     \* what a user starts with
          MaxReported, \* trades that the result of an engine call has room for
          MaxRequests, \* bound on the number of requests
          MaxQuotes,   \* bound on the number of the generator's orders
          MaxRestarts, \* bound on the number of restarts
          NoOrder,     \* what the tracker has for an id it does not track
          NoUser       \* nobody

ASSUME OrderFlowConstants ==
  /\ Prices \subseteq Nat \ {0}
  /\ Quantities \subseteq Nat \ {0} /\ QuoteSizes \subseteq Nat \ {0}
  /\ Deposit \in Nat /\ MaxReported \in Nat
  /\ MaxRequests \in Nat /\ MaxQuotes \in Nat /\ MaxRestarts \in Nat
  /\ Generator \notin Threads /\ IsFiniteSet(Threads)
  /\ NoUser \notin Users

VARIABLES
  book,      \* side -> the resting orders in the order in which they are met
  stops,     \* the waiting stop orders, the longest waiting first
  nextId,    \* ManagedBook.nextOrderID
  nextQuote, \* Generator.nextOrderID, which counts in another range
  tracked,   \* LimitOrderTracker.orders
  cash,      \* user -> TotalCash, AvailableCash, BlockedCash
  shares,    \* user -> quantity of the position
  loaded,    \* the users whose portfolio is in Manager.store
  req,       \* thread -> the request it handles
  gen,       \* the generator's tick
  todo,      \* thread -> calls to the portfolio manager it has still to make
  requests, restarts, \* numbers of them so far
  traded,    \* history: shares of an order that the engine has traded
  credited,  \* history: shares of an order that its user's portfolio has seen
  missed,    \* history: those it has not seen as it could not be loaded
  owner,     \* history: who placed a limit or market order
  odd,       \* history: what was unusual about an order
  before     \* history: the cash when the server was started last

engine == <<book, stops, nextId, nextQuote, traded>>
run == <<restarts, before>>
vars == <<engine, tracked, cash, shares, loaded, req, gen, todo, requests, credited,
          missed, owner, odd, run>>

Ids    == 1..MaxRequests
Quotes == (MaxRequests + 1)..(MaxRequests + MaxQuotes)
Side   == {"buy", "sell"}
Actors == Threads \cup {Generator}

Cash      == [total: Int, available: Int, blocked: Nat]
Resting   == [id: Ids \cup Quotes, side: Side, price: Prices, open: Nat \ {0}]
Waiting   == [id: Ids, side: Side, stop: Prices, limit: Prices \cup {0}, open: Nat \ {0},
              tree: Side]
Tracked   == [user: Users, side: Side, qty: Nat \ {0}, filled: Nat, reserve: Nat]
Fill      == [maker: Ids \cup Quotes, taker: Ids \cup Quotes, price: Prices, qty: Nat \ {0}]

(* It was modified, to a higher cost than is reserved for it, or cancelled   *)
(* while its placement was still being handled, or its placement triggered   *)
(* stop orders.                                                              *)
Oddity    == {"modified", "raised", "cancelled", "fired"}
Request   == [stage: {"idle", "check", "market", "limit", "track", "record",
                      "recording", "remove", "update"},
              user: Users \cup {NoUser}, side: Side, qty: Nat, price: Nat, seen: Int,
              id: Ids \cup Quotes \cup {0}, trades: Seq(Fill)]
Tick      == [stage: {"idle", "quote", "reconcile", "reconciling"}, side: Side, bid: Nat, trades: Seq(Fill)]
Call      == [op: {"limitFill", "marketFill"}, user: Users, id: Ids, side: Side,
              price: Prices, qty: Nat \ {0}]
             \cup [op: {"release"}, user: Users, amount: Nat]

(* The tracker's map has no such entry. *)
ASSUME NoOrderIsNone == NoOrder \notin Tracked

Opposite(s) == IF s = "buy" THEN "sell" ELSE "buy"

(* Is p at least as good as q for an order of side s to trade against?       *)
AsGood(s, p, q) == IF s = "buy" THEN p <= q ELSE p >= q

(* The sum of a function to the natural numbers: the units it counts *)
Units(f) == UNION {{x} \X (1..f[x]) : x \in DOMAIN f}
Total(f) == Cardinality(Units(f))
Cost(q)  == Total([k \in DOMAIN q |-> q[k].price * q[k].qty])

-----------------------------------------------------------------------------
(* The engine: its two books, the trades of the running call and the order   *)
(* that the call is executing, with its limit (0 for a market order) and the *)
(* shares left of it.  Every order that a call executes is on the side of    *)
(* its first one.  At stage "stops" executeStopOrders is running, which does *)
(* not happen when the order of the call itself has come to rest.            *)
Engine    == [book: [Side -> Seq(Resting)], stops: Seq(Waiting), trades: Seq(Fill),
              stage: {"order", "stops", "over"},
              id: Ids \cup Quotes, side: Side, limit: Prices \cup {0}, left: Nat]
Opposing(e) == e.book[Opposite(e.side)]

Crosses(e) ==
  /\ e.left > 0 /\ Opposing(e) # <<>>
  /\ e.limit = 0 \/ AsGood(e.side, Head(Opposing(e)).price, e.limit)

(* The order trades with the first one of the other side.                    *)
Meet(e) ==
  LET o == Head(Opposing(e))
      n == Min({e.left, o.open})
  IN  [e EXCEPT !.left = @ - n,
                !.trades = Append(@, [maker |-> o.id, taker |-> e.id, price |-> o.price, qty |-> n]),
                !.book[Opposite(e.side)] = IF n = o.open THEN Tail(@)
                                           ELSE [@ EXCEPT ![1] = [o EXCEPT !.open = @ - n]]]

(* An order goes behind those of the same and of better prices.              *)
Inserted(q, o) ==
  LET ahead == {k \in DOMAIN q : AsGood(Opposite(o.side), q[k].price, o.price)}
  IN  InsertAt(q, Cardinality(ahead) + 1, o)

(* What a limit order could not trade rests; a market order drops it.        *)
Rest(e) ==
  [e EXCEPT !.book[e.side] = Inserted(@, [id |-> e.id, side |-> e.side, price |-> e.limit,
                                          open |-> e.left]),
            !.left = 0,
            !.stage = IF @ = "order" THEN "over" ELSE @]

(* executeStopOrders: as long as the first of the best stop level of the     *)
(* tree of the side is reached, or the other side is empty, it leaves the    *)
(* stop book and is executed, on that side.                                  *)
Due(e) == {k \in DOMAIN e.stops :
             /\ e.stops[k].tree = e.side
             /\ \A w \in ToSet(e.stops) : w.tree = e.side => AsGood(e.side, e.stops[k].stop, w.stop)
             /\ \A o \in ToSet(Opposing(e)) : AsGood(e.side, e.stops[k].stop, o.price)}
FireStop(e) ==
  LET k == Min(Due(e))
      w == e.stops[k]
  IN  [e EXCEPT !.stops = RemoveAt(@, k), !.stage = "stops",
                !.id = w.id, !.limit = w.limit, !.left = w.open]

Round[e \in Engine] ==
  IF Crosses(e) THEN Meet(e)
  ELSE IF e.left > 0 /\ e.limit # 0 THEN Rest(e)
  ELSE IF e.stage # "over" /\ Due(e) # {} THEN FireStop(e)
  ELSE e

(* So many rounds are enough: one takes an order out of the other side or a  *)
(* stop order out of the stop book, or is the last of an order.              *)
Executed(e) ==
  LET after[k \in 0..(Len(Opposing(e)) + 2 * Len(e.stops) + 1)] ==
        IF k = 0 THEN e ELSE Round[after[k - 1]]
  IN  after[Len(Opposing(e)) + 2 * Len(e.stops) + 1]

(* An order of side s with limit p (0: a market order) and q shares is taken. *)
Called(waiting, id, s, p, q) ==
  [book |-> book, stops |-> waiting, trades |-> <<>>, stage |-> "order",
   id |-> id, side |-> s, limit |-> p, left |-> q]
Taken(id, s, p, q) == Executed(Called(stops, id, s, p, q))

(* The shares that the trades of a call are about of order i *)
Volume(ts, i) == Total([k \in DOMAIN ts |-> IF i \in {ts[k].maker, ts[k].taker} THEN ts[k].qty ELSE 0])

Submit(e) ==
  /\ book' = e.book
  /\ stops' = e.stops
  /\ traded' = [i \in DOMAIN traded |-> traded[i] + Volume(e.trades, i)]

(* capture_trades: the result of a call has room for so many trades.         *)
Reported(e) == SubSeq(e.trades, 1, Min({MaxReported, Len(e.trades)}))

Oddly(id, what) == [odd EXCEPT ![id] = @ \cup what]
Fired(e, id) == IF \E t \in ToSet(e.trades) : t.taker # id THEN {"fired"} ELSE {}

Orders == ToSet(book["buy"]) \cup ToSet(book["sell"])
InBook(id) == \E o \in Orders : o.id = id
Without(id) ==
  [s \in Side |-> LET at == {k \in DOMAIN book[s] : book[s][k].id = id}
                  IN  IF at = {} THEN book[s] ELSE RemoveAt(book[s], Min(at))]

-----------------------------------------------------------------------------
(* The portfolio manager: one call is one step. *)

(* ApplyFill, for a buy.  A limit order's money comes out of the escrow, as  *)
(* far as it goes; a market order's must be available.                       *)
LimitBuy(c, cost)  == [total |-> c.total - cost, available |-> c.available,
                       blocked |-> c.blocked - Min({cost, c.blocked})]
MarketBuy(c, cost) == [c EXCEPT !.total = @ - cost, !.available = @ - cost]

\* Mutant of Sell: the proceeds cannot be spent.
SellToTotal(c, cost) == [c EXCEPT !.total = @ + cost]

Sell(c, cost)      == [c EXCEPT !.total = @ + cost, !.available = @ + cost]

\* Mutant of Release: it does not look at what is blocked.
ReleaseUnclamped(c, amount) == [c EXCEPT !.blocked = @ - amount, !.available = @ + amount]

Release(c, amount) == LET r == Min({amount, c.blocked})
                      IN  [c EXCEPT !.blocked = @ - r, !.available = @ + r]

Reserve(c, amount) == [c EXCEPT !.available = @ - amount, !.blocked = @ + amount]

(* Goroutine a holds the tracker's mutex between two steps. *)
Records(a) == IF a = Generator THEN gen.stage = "reconciling" ELSE req[a].stage = "recording"
TrackerFree == \A a \in Actors : ~Records(a)

(* The next call of actor a returns.  A fill needs the portfolio: if it is   *)
(* not in the store it is read from the database, and when that fails (an    *)
(* error, or the request is over) the fill is only logged, as is a market    *)
(* buy that finds too little available.  A release looks only in the store.  *)
CallPortfolio(a) ==
  LET c    == Head(todo[a])
      cost == c.price * c.qty
      Load == loaded' = loaded \cup {c.user} /\ UNCHANGED missed
      Pay(new) == /\ Load
                  /\ cash' = [cash EXCEPT ![c.user] = new]
                  /\ credited' = [credited EXCEPT ![c.id] = @ + c.qty]
                  /\ shares' = [shares EXCEPT ![c.user] =
                                  IF c.side = "buy" THEN @ + c.qty ELSE @ - c.qty]
  IN  /\ todo[a] # <<>> /\ ~Records(a)
      /\ todo' = [todo EXCEPT ![a] = Tail(@)]
      /\ \/ /\ c.op = "release"
            /\ cash' = IF c.user \in loaded
                       THEN [cash EXCEPT ![c.user] = Release(@, c.amount)] ELSE cash
            /\ UNCHANGED <<shares, loaded, credited, missed>>
         \/ /\ c.op # "release" /\ c.user \notin loaded
            /\ missed' = [missed EXCEPT ![c.id] = @ + c.qty]
            /\ UNCHANGED <<cash, shares, loaded, credited>>
         \/ /\ c.op # "release" /\ c.side = "sell"
            /\ Pay(Sell(cash[c.user], cost))
         \/ /\ c.op = "limitFill" /\ c.side = "buy"
            /\ Pay(LimitBuy(cash[c.user], cost))
         \/ /\ c.op = "marketFill" /\ c.side = "buy"
            /\ \/ /\ cash[c.user].available >= cost
                  /\ Pay(MarketBuy(cash[c.user], cost))
               \/ /\ cash[c.user].available < cost
                  /\ Load
                  /\ UNCHANGED <<cash, shares, credited>>
      /\ UNCHANGED <<engine, tracked, req, gen, requests, owner, odd>>

ReleaseCall(u, amount) ==
  IF amount > 0 THEN <<[op |-> "release", user |-> u, amount |-> amount]>> ELSE <<>>

FillCalls(op, r, id, ts) ==
  [k \in DOMAIN ts |-> [op |-> op, user |-> req[r].user, id |-> id,
                        side |-> req[r].side, price |-> ts[k].price, qty |-> ts[k].qty]]

-----------------------------------------------------------------------------
(* The tracker *)

(* applyTradeToOrder: the order after a trade, and whether that completes it *)
Applied(o, t) == Min({t.qty, o.qty - o.filled})
AfterTrade(o, t) ==
  IF o.filled >= o.qty THEN o
  ELSE [o EXCEPT !.filled = @ + Applied(o, t),
                 !.reserve = IF o.side = "buy" THEN Max({0, @ - Applied(o, t) * t.price})
                             ELSE @]
Completed(o, new) == new # o /\ new.filled >= new.qty

-----------------------------------------------------------------------------
NoRequest == [stage |-> "idle", user |-> NoUser, side |-> "buy", qty |-> 0,
              price |-> 0, seen |-> 0, id |-> 0, trades |-> <<>>]
NoTick == [stage |-> "idle", side |-> "buy", bid |-> 0, trades |-> <<>>]

Init == /\ book = [s \in Side |-> <<>>]
        /\ stops = <<>>
        /\ nextId = 1
        /\ nextQuote = MaxRequests + 1
        /\ tracked = [id \in Ids |-> NoOrder]
        /\ cash = [u \in Users |-> [total |-> Deposit, available |-> Deposit, blocked |-> 0]]
        /\ shares = [u \in Users |-> 0]
        /\ loaded = {}
        /\ req = [r \in Threads |-> NoRequest]
        /\ gen = NoTick
        /\ todo = [a \in Actors |-> <<>>]
        /\ requests = 0 /\ restarts = 0
        /\ traded = [id \in Ids \cup Quotes |-> 0]
        /\ credited = [id \in Ids |-> 0]
        /\ missed = [id \in Ids |-> 0]
        /\ owner = [id \in Ids |-> NoUser]
        /\ odd = [id \in Ids \cup Quotes |-> {}]
        /\ before = cash

Idle(r)  == req[r].stage = "idle" /\ todo[r] = <<>>
BookFree == gen.stage = "idle"

(* The goroutine has taken a request (NewRequest). *)
Arrives(r, rq) == /\ requests' = requests + 1
                  /\ req' = [req EXCEPT ![r] = rq]

(* The goroutine goes on from stage s, its last call to the portfolio made.  *)
GoesOn(r, s, rq) == /\ req[r].stage = s
                    /\ todo[r] = <<>>
                    /\ req' = [req EXCEPT ![r] = rq]
                    /\ UNCHANGED requests

(* A user looks at the portfolio, which is loaded for that (a buy that is     *)
(* refused for want of money, below, loads it too and changes nothing else). *)
GetPortfolio(r, u) ==
  /\ u \notin loaded
  /\ Arrives(r, NoRequest)
  /\ loaded' = loaded \cup {u}
  /\ UNCHANGED <<engine, tracked, cash, shares, gen, todo, credited, missed, owner, odd>>

(* PlaceLimitOrder reserves the money of a buy; without it the request is    *)
(* refused.                                                                  *)
PlaceLimitOrder(r, u, s, q, p) ==
  /\ Arrives(r, [NoRequest EXCEPT !.stage = "limit", !.user = u, !.side = s,
                                  !.qty = q, !.price = p])
  /\ \/ s = "sell" /\ UNCHANGED <<cash, loaded>>
     \/ /\ s = "buy"
        /\ cash[u].available >= p * q
        /\ cash' = [cash EXCEPT ![u] = Reserve(@, p * q)]
        /\ loaded' = loaded \cup {u}
  /\ UNCHANGED <<engine, tracked, shares, gen, todo, credited, missed, owner, odd>>

(* ... then the order goes to the engine ... *)
AddLimitAutoID(r) ==
  LET q == req[r]
      e == Taken(nextId, q.side, q.price, q.qty)
  IN  /\ BookFree
      /\ GoesOn(r, "limit", [q EXCEPT !.stage = "track", !.id = nextId, !.trades = Reported(e)])
      /\ nextId' = nextId + 1
      /\ Submit(e)
      /\ owner' = [owner EXCEPT ![nextId] = q.user]
      /\ odd' = Oddly(nextId, Fired(e, nextId))
      /\ UNCHANGED <<nextQuote, tracked, cash, shares, loaded, gen, todo, credited, missed>>

\* Mutant of EngineRefuses: the escrow is not refunded.
EngineRefusesAndKeeps(r) ==
  /\ BookFree
  /\ GoesOn(r, "limit", NoRequest)
  /\ nextId' = nextId + 1
  /\ UNCHANGED <<book, stops, nextQuote, traded, tracked, cash, shares, loaded, gen, todo,
                 credited, missed, owner, odd>>

(* ... which may refuse it (a quantity or price that is not positive in the  *)
(* 32 bits it is converted to): the handler refunds the escrow ...           *)
EngineRefuses(r) ==
  /\ BookFree
  /\ GoesOn(r, "limit", NoRequest)
  /\ nextId' = nextId + 1
  /\ todo' = [todo EXCEPT ![r] = IF req[r].side = "sell" THEN <<>>
                                 ELSE ReleaseCall(req[r].user, req[r].price * req[r].qty)]
  /\ UNCHANGED <<book, stops, nextQuote, traded, tracked, cash, shares, loaded, gen, credited,
                 missed, owner, odd>>

(* ... or accepts it: the tracker gets to know the order, and the trades of  *)
(* the call go to the portfolio one by one ...                               *)
Track(r) ==
  LET q == req[r]
  IN  /\ TrackerFree
      /\ GoesOn(r, "track", IF q.trades = <<>> THEN NoRequest ELSE [q EXCEPT !.stage = "record"])
      /\ tracked' = [tracked EXCEPT ![q.id] =
                        [user |-> q.user, side |-> q.side, qty |-> q.qty, filled |-> 0,
                         reserve |-> IF q.side = "buy" THEN q.price * q.qty ELSE 0]]
      /\ todo' = [todo EXCEPT ![r] = FillCalls("limitFill", r, q.id, q.trades)]
      /\ UNCHANGED <<engine, cash, shares, loaded, gen, credited, missed, owner, odd>>

(* The next of the trades of a placement is one for the tracker to record,   *)
(* and what the order is after it.                                           *)
Recording(r) == /\ \/ req[r].stage = "record" /\ TrackerFree
                   \/ req[r].stage = "recording"
                /\ todo[r] = <<>>
RestOf(q) == IF Len(q.trades) = 1 THEN NoRequest
             ELSE [q EXCEPT !.stage = "recording", !.trades = Tail(@)]
Recorded(r) == LET q == req[r]
                   t == Head(q.trades)
               IN  IF q.id \in {t.maker, t.taker} THEN AfterTrade(tracked[q.id], t)
                   ELSE tracked[q.id]

\* Mutants of RecordPlacementTrades: the fills are reconciled, as those of a quote
\* are; they are not recorded; the handler waits for the tracker to know the order.
ReconcilePlacementTrades(r) ==
  LET q == req[r]
      o == tracked[q.id]
  IN  /\ Recording(r)
      /\ req' = [req EXCEPT ![r] = RestOf(q)]
      /\ tracked' = [tracked EXCEPT ![q.id] = IF o = NoOrder THEN o ELSE Recorded(r)]
      /\ todo' = [todo EXCEPT ![r] = FillCalls("limitFill", r, q.id, <<Head(q.trades)>>)]
      /\ UNCHANGED <<engine, cash, shares, loaded, gen, requests, credited, missed, owner, odd>>

RecordNothing(r) ==
  /\ Recording(r)
  /\ req' = [req EXCEPT ![r] = NoRequest]
  /\ UNCHANGED <<engine, tracked, cash, shares, loaded, gen, todo, requests, credited, missed,
                 owner, odd>>

RecordWhenTracked(r) ==
  LET q   == req[r]
      new == Recorded(r)
      out == Completed(tracked[q.id], new)
  IN  /\ Recording(r)
      /\ tracked[q.id] # NoOrder
      /\ req' = [req EXCEPT ![r] = IF out THEN NoRequest ELSE RestOf(q)]
      /\ tracked' = [tracked EXCEPT ![q.id] = IF out THEN NoOrder ELSE new]
      /\ todo' = [todo EXCEPT ![r] = IF out THEN ReleaseCall(q.user, new.reserve) ELSE <<>>]
      /\ UNCHANGED <<engine, cash, shares, loaded, gen, requests, credited, missed, owner, odd>>

(* ... and those of the order to the tracker, trade by trade.  The last of   *)
(* them may say what to release; an order that the tracker does not know any *)
(* more is left alone.                                                       *)
RecordPlacementTrades(r) ==
  LET q   == req[r]
      new == Recorded(r)
  IN  /\ Recording(r)
      /\ \/ /\ tracked[q.id] = NoOrder
            /\ req' = [req EXCEPT ![r] = NoRequest]
            /\ UNCHANGED <<tracked, todo>>
         \/ /\ tracked[q.id] # NoOrder /\ ~Completed(tracked[q.id], new)
            /\ req' = [req EXCEPT ![r] = RestOf(q)]
            /\ tracked' = [tracked EXCEPT ![q.id] = new]
            /\ UNCHANGED todo
         \/ /\ tracked[q.id] # NoOrder /\ Completed(tracked[q.id], new)
            /\ req' = [req EXCEPT ![r] = NoRequest]
            /\ tracked' = [tracked EXCEPT ![q.id] = NoOrder]
            /\ todo' = [todo EXCEPT ![r] = ReleaseCall(q.user, new.reserve)]
      /\ UNCHANGED <<engine, cash, shares, loaded, gen, requests, credited, missed, owner, odd>>

-----------------------------------------------------------------------------
(* PlaceMarketOrder looks at the portfolio, ... *)
PlaceMarketOrder(r, u, s, q) ==
  /\ Arrives(r, [NoRequest EXCEPT !.stage = "check", !.user = u, !.side = s, !.qty = q,
                   !.seen = IF s = "buy" THEN cash[u].available ELSE shares[u]])
  /\ loaded' = loaded \cup {u}
  /\ UNCHANGED <<engine, tracked, cash, shares, gen, todo, credited, missed, owner, odd>>

(* ... estimates from the depth of the book what a buy costs, and refuses    *)
(* what cannot be paid.  The depth is read without the book's mutex: while a *)
(* call may be changing the book the estimate may be anything.               *)
BookInUse == ~BookFree \/ \E r \in Threads : req[r].stage \in {"limit", "market"}
Affordable(q) ==
  LET asks == Executed(Called(<<>>, nextId, "buy", 0, q.qty)).trades
  IN  IF q.side = "buy" THEN asks # <<>> /\ q.seen >= Cost(asks) ELSE q.seen >= q.qty

CheckPasses(r) ==
  /\ Affordable(req[r]) \/ (req[r].side = "buy" /\ BookInUse)
  /\ GoesOn(r, "check", [req[r] EXCEPT !.stage = "market", !.seen = 0])
  /\ UNCHANGED <<engine, tracked, cash, shares, loaded, gen, todo, credited, missed, owner, odd>>

CheckFails(r) ==
  /\ ~Affordable(req[r]) \/ (req[r].side = "buy" /\ BookInUse)
  /\ GoesOn(r, "check", NoRequest)
  /\ UNCHANGED <<engine, tracked, cash, shares, loaded, gen, todo, credited, missed, owner, odd>>

(* PlaceInternalMarketOrder, for the bots, has no such check. *)
PlaceInternalMarketOrder(r, u, s, q) ==
  /\ Arrives(r, [NoRequest EXCEPT !.stage = "market", !.user = u, !.side = s, !.qty = q])
  /\ UNCHANGED <<engine, tracked, cash, shares, loaded, gen, todo, credited, missed, owner, odd>>

(* The order goes to the engine and what it traded to the portfolio. *)
MarketAutoID(r) ==
  LET q == req[r]
      e == Taken(nextId, q.side, 0, q.qty)
  IN  /\ BookFree
      /\ GoesOn(r, "market", NoRequest)
      /\ nextId' = nextId + 1
      /\ Submit(e)
      /\ todo' = [todo EXCEPT ![r] = FillCalls("marketFill", r, nextId, Reported(e))]
      /\ owner' = [owner EXCEPT ![nextId] = q.user]
      /\ odd' = Oddly(nextId, Fired(e, nextId))
      /\ UNCHANGED <<nextQuote, tracked, cash, shares, loaded, gen, credited, missed>>

-----------------------------------------------------------------------------
(* Cancelling and modifying.  Whoever knows an id may use it, before the     *)
(* placement has been answered too.                                          *)

InPlacement(id) == \E r \in Threads : /\ req[r].stage \in {"track", "record", "recording"}
                                     /\ req[r].id = id

CancelLimit(r, id) ==
  /\ BookFree
  /\ InBook(id)
  /\ Arrives(r, [NoRequest EXCEPT !.stage = "remove", !.id = id])
  /\ book' = Without(id)
  /\ odd' = Oddly(id, IF InPlacement(id) THEN {"cancelled"} ELSE {})
  /\ UNCHANGED <<stops, nextId, nextQuote, traded, tracked, cash, shares, loaded, gen, todo,
                 credited, missed, owner>>

(* The reserve goes back to the user the order was tracked for.              *)
RemoveFromTracker(r) ==
  LET id == req[r].id
      o  == IF id \in Ids THEN tracked[id] ELSE NoOrder
  IN  /\ TrackerFree
      /\ GoesOn(r, "remove", NoRequest)
      /\ tracked' = IF o = NoOrder THEN tracked ELSE [tracked EXCEPT ![id] = NoOrder]
      /\ todo' = [todo EXCEPT ![r] = IF o = NoOrder THEN <<>> ELSE ReleaseCall(o.user, o.reserve)]
      /\ UNCHANGED <<engine, cash, shares, loaded, gen, credited, missed, owner, odd>>

(* The order costs more now than is reserved for it. *)
Raises(id, side, cost) == /\ side = "buy"
                          /\ id \in Ids /\ tracked[id] # NoOrder => cost > tracked[id].reserve

ModifyLimit(r, id, q, p) ==
  LET side == (CHOOSE o \in Orders : o.id = id).side
  IN  /\ BookFree
      /\ InBook(id)
      /\ Arrives(r, [NoRequest EXCEPT !.stage = "update", !.id = id, !.qty = q])
      /\ book' = [Without(id) EXCEPT ![side] =
                    Inserted(@, [id |-> id, side |-> side, price |-> p, open |-> q])]
      /\ odd' = Oddly(id, {"modified"} \cup
                            IF Raises(id, side, q * p) \/ InPlacement(id) THEN {"raised"} ELSE {})
      /\ UNCHANGED <<stops, nextId, nextQuote, traded, tracked, cash, shares, loaded, gen,
                     todo, credited, missed, owner>>

(* The reserve stays as it is. *)
UpdateLimit(r) ==
  LET id == req[r].id
  IN  /\ TrackerFree
      /\ GoesOn(r, "update", NoRequest)
      /\ tracked' = IF id \in Ids /\ tracked[id] # NoOrder
                    THEN [tracked EXCEPT ![id].qty = req[r].qty] ELSE tracked
      /\ UNCHANGED <<engine, cash, shares, loaded, gen, todo, credited, missed, owner, odd>>

-----------------------------------------------------------------------------
(* Stop orders: the handler makes one engine call, reserves nothing, tracks  *)
(* nothing and looks at no trade of the result.                              *)

StopCall(r) == /\ BookFree
               /\ Arrives(r, NoRequest)
               /\ UNCHANGED <<nextQuote, tracked, cash, shares, loaded, gen, todo, credited,
                              missed, owner, odd>>

(* The tree of the stop level, that of the order that opened it *)
Tree(q, s, stop) ==
  LET Level == {w \in ToSet(q) : w.stop = stop}
  IN  IF Level = {} THEN s ELSE (CHOOSE w \in Level : TRUE).tree

(* A stop order that is reached is a market or limit order (limit 0: AddStop, *)
(* else AddStopLimit), any other waits, in the tree its level is in.          *)
AddStop(r, s, q, limit, stop) ==
  LET other   == book[Opposite(s)]
      reached == other # <<>> /\ AsGood(s, stop, Head(other).price)
      new     == [id |-> nextId, side |-> s, stop |-> stop, limit |-> limit, open |-> q,
                  tree |-> Tree(stops, s, stop)]
  IN  /\ StopCall(r)
      /\ nextId' = nextId + 1
      /\ \/ reached /\ Submit(Taken(nextId, s, limit, q))
         \/ /\ ~reached
            /\ stops' = Append(stops, new)
            /\ UNCHANGED <<book, traded>>

CancelStop(r, k) ==
  /\ StopCall(r)
  /\ stops' = RemoveAt(stops, k)
  /\ UNCHANGED <<book, nextId, traded>>

ModifyStop(r, k, q, limit, stop) ==
  LET others == RemoveAt(stops, k)
      w      == stops[k]
  IN  /\ StopCall(r)
      /\ stops' = Append(others, [w EXCEPT !.open = q, !.limit = limit, !.stop = stop,
                                           !.tree = Tree(others, w.side, stop)])
      /\ UNCHANGED <<book, nextId, traded>>

-----------------------------------------------------------------------------
(* The market generator: a tick locks the book, quotes bids below and then   *)
(* asks above the base price of the tick, and reconciles the trades of each  *)
(* quote before the next one, the book still locked.                         *)

NewTick ==
  /\ gen.stage = "idle"
  /\ gen' = [NoTick EXCEPT !.stage = "quote"]
  /\ UNCHANGED <<engine, tracked, cash, shares, loaded, req, todo, requests, credited, missed,
                 owner, odd>>

Quoting == gen.stage = "quote" /\ todo[Generator] = <<>>

(* gen.bid is the highest bid of the tick: the asks are above it.            *)
Quote(s, p, q) ==
  LET e  == Taken(nextQuote, s, p, q)
      ts == Reported(e)
  IN  /\ Quoting
      /\ nextQuote \in Quotes
      /\ IF s = "buy" THEN gen.side = "buy" ELSE p > gen.bid
      /\ nextQuote' = nextQuote + 1
      /\ Submit(e)
      /\ gen' = [stage |-> IF ts = <<>> THEN "quote" ELSE "reconcile", side |-> s,
                 bid |-> IF s = "buy" THEN Max({p, gen.bid}) ELSE gen.bid, trades |-> ts]
      /\ UNCHANGED <<nextId, tracked, cash, shares, loaded, req, todo, requests, credited,
                     missed, owner, odd>>

(* collectFillActions: trade by trade, the maker may be a tracked order (the *)
(* takers, quotes and stop orders, never are).  The calls to the portfolio   *)
(* follow when the tracker is unlocked.                                      *)
ReconcileTrade(t, o, new) ==
  LET hit  == o # NoOrder /\ new # o
      fill == [op |-> "limitFill", user |-> o.user, id |-> t.maker, side |-> o.side,
               price |-> t.price, qty |-> Applied(o, t)]
  IN  \/ /\ ~hit
         /\ UNCHANGED <<tracked, todo>>
      \/ /\ hit /\ ~Completed(o, new)
         /\ tracked' = [tracked EXCEPT ![t.maker] = new]
         /\ todo' = [todo EXCEPT ![Generator] = Append(@, fill)]
      \/ /\ hit /\ Completed(o, new)
         /\ tracked' = [tracked EXCEPT ![t.maker] = NoOrder]
         /\ todo' = [todo EXCEPT ![Generator] =
                       Append(@, fill) \o ReleaseCall(o.user, new.reserve)]

Reconcile ==
  LET t == Head(gen.trades)
      o == IF t.maker \in Ids THEN tracked[t.maker] ELSE NoOrder
  IN  /\ \/ gen.stage = "reconcile" /\ TrackerFree
         \/ gen.stage = "reconciling"
      /\ gen' = [gen EXCEPT !.stage = IF Len(gen.trades) = 1 THEN "quote" ELSE "reconciling",
                            !.trades = Tail(@)]
      /\ ReconcileTrade(t, o, AfterTrade(o, t))
      /\ UNCHANGED <<engine, cash, shares, loaded, req, requests, credited, missed, owner, odd>>

EndTick ==
  /\ Quoting
  /\ gen' = NoTick
  /\ UNCHANGED <<engine, tracked, cash, shares, loaded, req, todo, requests, credited, missed,
                 owner, odd>>

-----------------------------------------------------------------------------
(* The server ends at any moment and is started again: the books, the stop   *)
(* orders, the tracker and the requests are gone, and ids are counted from   *)
(* their first again.  The portfolios come back as they were (what of them   *)
(* the store may lose is module PortfolioStore's), with what is blocked.     *)
(* That a request precedes a restart and another one follows is a bound too.  *)
Restart ==
  /\ restarts < MaxRestarts
  /\ requests \in 1..(MaxRequests - 1)
  /\ restarts' = restarts + 1
  /\ book' = [s \in Side |-> <<>>]
  /\ stops' = <<>>
  /\ nextId' = 1
  /\ nextQuote' = MaxRequests + 1
  /\ tracked' = [id \in Ids |-> NoOrder]
  /\ req' = [r \in Threads |-> NoRequest]
  /\ gen' = NoTick
  /\ todo' = [a \in Actors |-> <<>>]
  /\ traded' = [id \in Ids \cup Quotes |-> 0]
  /\ credited' = [id \in Ids |-> 0]
  /\ missed' = [id \in Ids |-> 0]
  /\ owner' = [id \in Ids |-> NoUser]
  /\ odd' = [id \in Ids \cup Quotes |-> {}]
  /\ before' = cash
  /\ loaded' = {}
  /\ UNCHANGED <<cash, shares, requests>>

-----------------------------------------------------------------------------
(* A request arrives and a free goroutine takes it. *)
NewRequest(r) ==
  /\ Idle(r) /\ requests < MaxRequests
  /\ \/ \E u \in Users, s \in Side, q \in Quantities :
          \/ \E p \in Prices : PlaceLimitOrder(r, u, s, q, p)
          \/ PlaceMarketOrder(r, u, s, q)
          \/ PlaceInternalMarketOrder(r, u, s, q)
     \/ \E u \in Users : GetPortfolio(r, u)
     \/ \E q \in Quantities, limit \in Prices \cup {0}, stop \in Prices :
          \/ \E s \in Side : AddStop(r, s, q, limit, stop)
          \/ \E k \in DOMAIN stops : ModifyStop(r, k, q, limit, stop)
     \/ \E k \in DOMAIN stops : CancelStop(r, k)
     \/ \E id \in Ids \cup Quotes :
          \/ CancelLimit(r, id)
          \/ \E q \in Quantities, p \in Prices : ModifyLimit(r, id, q, p)

(* The steps of a handler that wait for the book's mutex, and the others *)
Waits(r)  == AddLimitAutoID(r) \/ EngineRefuses(r) \/ MarketAutoID(r)
Handles(r) == \/ Track(r) \/ RecordPlacementTrades(r) \/ CheckPasses(r) \/ CheckFails(r)
              \/ RemoveFromTracker(r) \/ UpdateLimit(r) \/ CallPortfolio(r)

Generates == \/ \E s \in Side, p \in Prices, q \in QuoteSizes : Quote(s, p, q)
             \/ Reconcile \/ EndTick \/ CallPortfolio(Generator)

Serves == \/ \E r \in Threads : NewRequest(r) \/ Waits(r) \/ Handles(r)
          \/ NewTick
          \/ Generates

Next == (Serves /\ UNCHANGED run) \/ Restart

(* A goroutine that can run does in the end; a handler that waits for the    *)
(* book's mutex gets it in the end although the generator comes back for it  *)
(* in every tick, since a Go mutex is handed to a waiter that starves.       *)
Serving(A) == A /\ UNCHANGED run
Fairness == /\ \A r \in Threads : SF_vars(Serving(Waits(r))) /\ WF_vars(Serving(Handles(r)))
            /\ WF_vars(Serving(Generates))

Spec == Init /\ [][Next]_vars /\ Fairness

-----------------------------------------------------------------------------
(* Every variable has the shape the code gives it; escrow and reserves are   *)
(* never negative.                                                           *)
TypeOK == /\ book \in [Side -> Seq(Resting)]
          /\ stops \in Seq(Waiting)
          /\ nextId \in 1..(MaxRequests + 1)
          /\ nextQuote \in Quotes \cup {MaxRequests + MaxQuotes + 1}
          /\ tracked \in [Ids -> Tracked \cup {NoOrder}]
          /\ cash \in [Users -> Cash]
          /\ shares \in [Users -> Int]
          /\ loaded \subseteq Users
          /\ req \in [Threads -> Request]
          /\ gen \in Tick
          /\ todo \in [Actors -> Seq(Call)]
          /\ requests \in 0..MaxRequests /\ restarts \in 0..MaxRestarts
          /\ before \in [Users -> Cash]
          /\ traded \in [Ids \cup Quotes -> Nat]
          /\ credited \in [Ids -> Nat]
          /\ missed \in [Ids -> Nat]
          /\ owner \in [Ids -> Users \cup {NoUser}]
          /\ odd \in [Ids \cup Quotes -> SUBSET Oddity]

Calm(u, oddities) == \A id \in Ids : owner[id] = u => odd[id] \cap oddities = {}

(* What is available is what no open order locks, at every moment between    *)
(* two critical sections (portfolio/types.go: total_cash is the user's cash, *)
(* available_cash and blocked_cash are its two parts), unless an order of    *)
(* the user was modified to a higher cost, cancelled during its placement or *)
(* given the trades of stop orders: then a fill may take more than is        *)
(* blocked, and the parts no longer add up, neither now nor after a restart. *)
Missing(c) == c.available + c.blocked - c.total
CashAddsUp == \A u \in Users : Calm(u, Oddity \ {"modified"}) =>
                Missing(cash[u]) = Missing(before[u])

(* The escrow of a user is exactly the reserves of the orders tracked for    *)
(* them, plus that of orders on their way into the tracker, minus the fills  *)
(* of a placement the portfolio knows and the tracker does not yet, plus the *)
(* fills and releases the tracker knows and the portfolio does not yet: no   *)
(* interleaving of placements, cancels and reconciliations loses or makes    *)
(* blocked money.  Only what was blocked when the server was started is      *)
(* nobody's: the tracker is empty then, and no later call gives it back.     *)
Of(u, i)      == tracked[i] # NoOrder /\ tracked[i].user = u
Holds(u, r)   == req[r].user = u /\ req[r].side = "buy"
Pending(u, c) == IF c.user # u THEN 0
                 ELSE CASE c.op = "release" -> c.amount
                        [] c.op = "limitFill" /\ c.side = "buy" -> c.price * c.qty
                        [] OTHER -> 0
Escrow(u) ==
  Total([i \in Ids |-> IF Of(u, i) THEN tracked[i].reserve ELSE 0])
  + Total([r \in Threads |-> IF Holds(u, r) /\ req[r].stage \in {"limit", "track"}
                             THEN req[r].price * req[r].qty ELSE 0])
  - Total([r \in Threads |-> IF Holds(u, r) /\ req[r].stage \in {"record", "recording"}
                             THEN Cost(req[r].trades) ELSE 0])
  + Total([a \in Actors |-> Total([k \in DOMAIN todo[a] |-> Pending(u, todo[a][k])])])

EscrowAccounted == \A u \in Users : Calm(u, Oddity \ {"modified"}) => cash[u].blocked = before[u].blocked + Escrow(u)

(* No share is credited to a user twice: neither both by the handler that    *)
(* placed the order and by the reconciliation of a generator's quote, nor    *)
(* again after a modification.  Only an order whose placement triggered stop *)
(* orders is credited what it has not traded.                                *)
NeverCreditedTwice ==
  \A id \in Ids : "fired" \notin odd[id] => credited[id] + missed[id] <= traded[id]

(* When nothing is under way, the tracker knows of an order the fills that   *)
(* its user's portfolio has seen and no other, but for those whose portfolio *)
(* could not be loaded, which it counts as well; and it tracks every limit   *)
(* order of a user that rests in the book.  Excepted are orders that were    *)
(* modified, cancelled while they were being placed or triggered stop orders. *)
Quiet == BookFree /\ \A r \in Threads : Idle(r)
TrackerKnowsCredits ==
  Quiet => \A id \in Ids :
             odd[id] = {} /\ owner[id] # NoUser =>
               /\ tracked[id] # NoOrder => tracked[id].filled = credited[id] + missed[id]
               /\ InBook(id) => tracked[id] # NoOrder

(* Every request is answered: no order of critical sections starves a        *)
(* handler or makes it wait for good.                                        *)
RequestsAnswered == \A r \in Threads : ~Idle(r) ~> Idle(r)

-----------------------------------------------------------------------------
(* What the code promises and does not keep *)

(* When nothing is under way, every trade of a limit order that the tracker   *)
(* keeps has reached the user's portfolio (limit_order_tracker.go: "so        *)
(* delayed fills can be reconciled when market simulation later matches       *)
(* resting orders").                                                          *)
FillsReachPortfolio ==
  Quiet => \A id \in Ids :
             tracked[id] # NoOrder /\ odd[id] = {} /\ missed[id] = 0 => credited[id] = traded[id]
=============================================================================
