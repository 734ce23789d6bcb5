# Formal verification of the exchange (OpenSoft-2026)

The repository is a simulated stock exchange: a Go server
(`Opensoft-26-Backend`) around a C++ limit order book, a market simulator and
trading bots that trade in the same books as the users, portfolios in memory
that are written to PostgreSQL every two seconds, a Redis event bus that carries
trades, order updates and candles to the database, and a React frontend. This
directory holds TLA+ modules that model its core, TLC configurations that check
them on small instances, and proofs that TLAPS checks for every instance, of the
matching engine, the portfolio store, the event pipeline, the websocket hub and
the bots. Paths below are relative to `src/Opensoft-26-Backend/`.

## 1. The system

### Components, state, operations

| component | state | operations |
|---|---|---|
| matching engine (`Matching-Engine/Limit_Order_Book/*.cpp`, `src/engine_c_api.cpp`) | per symbol: four AVL trees of price levels with an edge pointer each, `limitBuyMap`, `limitSellMap`, `stopMap` (price to level), a FIFO list of orders per level, `orderMap` (id to order) | market, limit, stop, stop-limit order; cancel and modify of each; depth |
| book manager (`internal/api/book_manager.go`) | per symbol: engine handle, a mutex, the order id counter | one locked method per engine call; depth and best prices without the lock |
| order handlers (`internal/api/order_handler.go`) | none of their own | place, cancel, modify; escrow before, fills and tracker after the engine call |
| limit order tracker (`internal/api/limit_order_tracker.go`) | id to user, quantity, filled, reserved cash | Track, RecordPlacementTrades, UpdateLimit, Remove, ReconcileTrades |
| portfolio manager (`internal/portfolio/manager.go`) | per user: total, available and blocked cash, positions; a flush queue | ReserveCash, ReleaseCash, ApplyFill, load from and flush to PostgreSQL |
| market generator (`internal/market/*.go`) | per symbol: price process, own order id range | a tick: lock the book, quote both sides, report each trade through `onTrade` |
| event bus (`internal/eventbus/*.go`), candle builder, database writers | Redis streams and consumer groups; the open candle of each symbol; rows | publish, consume, acknowledge, drain what is pending at a start |
| websocket hub (`internal/api/ws/*.go`) | registered clients, user index, per client a send channel of 1024 messages, the latest depth and ticker of a symbol | register, unregister, log in, broadcast, flush what is coalesced, stop |
| bot manager (`internal/bot`, `internal/api/bot_handler.go`) | bots: running flag, stop channel, client, strategy container | create, start, stop, remove, event loop |
| simulated bots (`internal/simbot`) | a map of bots by id; per bot a status, a cancel function, two channels and two goroutines | start, stop, close, run loop, reader |
| authentication, other handlers, repositories, configuration | database rows | requests that touch one row |
| frontend | React state | presentation, REST and websocket clients |

### How they interact

A request runs in a goroutine of its own: the handler calls the portfolio
manager (escrow), then the book manager, which calls the engine with the book's
mutex held, then the tracker, and then the portfolio manager once per trade. A
generator's tick holds the same book mutex from its first quote to its last and
calls `onTrade` with it held: the tracker finds the users' resting orders that a
quote has hit, and their fills go to the portfolio manager. `onTrade` also puts
the trades on the Redis stream, from which the candle builder makes candles and
the writers fill tables. Three mutexes (book, tracker, portfolios) cut the order
path into critical sections; nothing holds two of them in opposite orders.

### What is hard, and what makes each component correct

* **Level trees.** The edge pointer is maintained by rules that are right for a
  balanced tree only. Correct: removals lose no level; the edge is the best one.
* **Order book.** A call sweeps the other side, triggers stop orders, which sweep
  again and may rest. Correct: the lists, `orderMap` and the parent pointers
  agree; shares are conserved; time priority survives; only a modify can cross
  the book; every call returns.
* **Order flow.** A handler's fills, the generator's reconciliation, cancels and
  modifications interleave between critical sections. Correct: cash is conserved
  and escrow is exactly what open orders reserve; a fill reaches the portfolio
  at most once, and the tracker counts what did; every request is answered.
* **Portfolio store.** Loads overlap with changes, flushes fail, the process
  restarts. Correct: what was flushed is what a restart loads.
* **Event pipeline.** At-least-once delivery, crashes, failing writes. Correct: what
  is acknowledged is written; what is pending is written after a later start.
* **Websocket hub.** Five goroutines send on a client's channel and one closes it; a
  login moves a client between users while it may be unregistered; snapshots are
  coalesced, reversed and dropped. Correct: nobody sends on a closed channel, the
  two indexes agree, lost connections end, and what a client shows catches up.
* **Bots.** A start gives the lock up while it connects, a stop gives it up before it
  closes. Correct: what is listed as running runs, what runs can be found and
  stopped, what is stopped ends.

`PROJECT.json` lists each of these at its line under `hazards`.

## 2. Plan

| step | module | composes | abstract view | theorems |
|---|---|---|---|---|
| 1 (done) | `LevelTree` | | a set of prices and its best element | |
| 2 (done) | `MatchingBook`, `OrderLedger` | levels by their best price (LevelTree is when that is right) | a ledger of open and traded shares | the inductive invariant, three safety properties, time priority, what can cross the book, and that the book implements the ledger |
| 3 (done) | `OrderFlow` | handlers, tracker, portfolio, generator, book, stop orders, restart | cash splits into available and blocked | all safety properties |
| 4 (done) | `EventPipeline` | streams, consumer groups, candle builder, writers | every acknowledged message is written | all safety properties |
| 5 (done) | `PortfolioStore` | memory, flush channel and worker, rows, restart | a register that a restart reads back | all safety properties |
| 6 (done) | `WsHub`, `LiveFeed` | hub loop, client goroutines; book, generator, portfolio updates, client | what a client shows follows the server | all safety properties |
| 7 (done) | `BotManager`, `SimBots` | start, stop, close, run loops | a stopped bot ends | all safety properties |
| 8 (open) | the order of the deferred calls at a shutdown | `WsHub`, `EventPipeline`, `PortfolioStore` | | |

## 3. Modules

Names of actions and variables are the code's wherever TLA+ allows it;
`PROJECT.json` maps every definition to its lines.

### LevelTree

One side of a book: the AVL tree of price levels that `Book.cpp` and `Limit.cpp`
keep. `tree` is what the root pointer names (a node is a price with its two
subtrees, so that a parent pointer is the last node but one on the path to it),
`edge` the price of `highestBuy` or `lowestSell`, `levels` the domain of the price
map. `AddLevel` is `addLimit` with `updateBookEdgeInsert` and the rebalancing on
the way up; `DeleteEdgeLevel` and `DeleteInnerLevel` are `updateBookEdgeRemove`
(`EdgeAfterRemoval`), `~Limit` with its cases for no, one and two children
(`RemoveNode`, `Splice`) and the rebalancing of `deleteLimit`, in the code's order.
`highIsBest` says which of the two mirror images a behaviour is about.

### MatchingBook

The book of one symbol, with one call of the C API at a time (the caller holds
the book's mutex) and one action per iteration of the engine's loops, so that
the properties hold in the middle of a call too. `orders` is `orderMap` with the
fields of `Order`; `queue` has the FIFO list of every level, limit and stop;
`stopSide` says in which tree a stop level is; `call` has the C++ locals of the
running call. `MarketOrder`, `AddLimitOrder`, `AddStopOrder`, `AddStopLimitOrder`
and the cancels and modifications are the C API's functions; `FillHead` and
`FillHeadPartly` are the two branches of `marketOrderHelper`;
`TriggerStop`, `StopLimitRests` and `StopLimitFilled` one iteration of
`executeStopOrders`. The edges are taken as the best non-empty level, which
`LevelTree` shows to be so while a tree is balanced. `LedgerKept` instantiates
`OrderLedger` with the book's state. Where the code would free a stop level that `stopMap` still names, the model sets `freed` and stops: what
happens after is undefined.

### OrderLedger

What a book promises to the owners of its orders, without prices, sides or
levels: an id is submitted once, an order is open for some shares until they are
traded or withdrawn, a trade takes the same shares off two different open
orders. In the refinement an order is open for the shares that `orderMap` has, or
for what the running sweep has left of it; `FillHead` and `FillHeadPartly` are the
trades, the start of a call is the submission, and triggering a stop order
changes nothing the ledger sees.

### OrderFlow

What surrounds the engine: handler goroutines (every kind of order of users and
bots, their cancels and modifications), the tracker, the portfolio manager's
cash arithmetic and the generator of one symbol. Each action is one critical
section of the book's, the tracker's or the portfolio manager's mutex; what a
goroutine holds between two of them is in its record `req`, and the portfolio
calls it has still to make are in `todo`. The book is reduced to its resting
limit orders and waiting stops, and an engine call is one step: `Executed` repeats
`Round` as often as there can be something to do, and a round is one trade (`Meet`),
what is left of a limit order going to the book (`Rest`), or a stop order that fires
(`FireStop`). The tracker records the trades of a placement, and the generator's
reconciliation its own, one trade per step with the tracker's mutex held (stages
`recording` and `reconciling`, `TrackerFree`). The generator's tick takes the book's
mutex (`NewTick`), quotes (`Quote`), reconciles with the mutex held (`Reconcile`) and
releases it (`EndTick`).

The handlers of stop orders (`AddStop`, `CancelStop`, `ModifyStop`) make one engine
call and tell neither the tracker nor the portfolio, as in the code; the trades
of a stop order that fires belong to the call that fired it, and `Reported` is the
room for 100 trades that a call's result has. `Restart` ends the process between
any two steps and starts it again: the book, the tracker, requests and the tick
are gone, and the cash of every user is what it was (that the rows agree with
memory is `PortfolioStore`'s business). `before` remembers it.

`loaded` is the set of users whose portfolio is in the manager's map. A reservation,
the check of a market order and `GetPortfolio` load it, and so may `ApplyFill`, which
fails when the row cannot be read or the request is over: the handler (and the
reconciliation) only log that, and the shares are `missed`. A release looks in the
map only. After a restart nobody is loaded. (A load that fails where it is the
request's first step refuses the request and changes nothing; that is no step here.)

Histories: `owner`, `traded`, `credited` and `missed` per order, and `odd`, what was unusual
about an order: it was `raised` or `modified`, `cancelled` while its placement was
being handled, or its placement `fired` stops. The properties name the oddities
they exclude; each is a defect of the code described under `findings`.

### EventPipeline

One symbol's streams of trades and closed candles, and the stream of order
updates. A message is its place in its stream; a consumer group is `delivered`
and `pending`; `at` is the goroutine of a consumer: draining pending messages
after a start, then polling. A batch is the set of messages that are read and not yet
handled: the code handles them in the order of the stream, which is that of their
places, so the next one is the least. The candle builder, the row writers and the batching
candle writer are the handlers. A candle holds the numbers of the trades it
counts (its volume in the code), so that a row that misses a trade shows. A
crash loses what is in memory. An acknowledgement belongs to the step of its
handler and may fail there, which together with a crash is the crash between
the two. `Deployments` says which consumers a behaviour has: the candle builder
with the candle writer, and each row writer by itself, since only the builder
hands anything to another consumer.

### PortfolioStore

One manager's map of portfolios, the rows in PostgreSQL, and between them first
loads and the flush worker. A load is four steps (leave the lock, read the row,
read the positions, install), a flush is two (snapshot under the lock, one
transaction), and an update tells the worker only after it has left the lock.
`cash` is the set of updates that the balance has gone through: a lost update is
a missing element. A position is what the updates of its symbol add up to (`Net`, the
sum over the set of updates). `Restart` is the end of the process at any moment and its
next start. For TLC, `MCPortfolioStore` lets a new request take the least free number.

### WsHub

The websocket hub and its connections. `stage` is where the goroutine of a
connection is: the HTTP handler that registers and welcomes it and then becomes
`readPump`; `writer` is its `writePump`. `Register`, `Unregister`, `RunStops` and
`BroadcastToSubscribers` are the cases of `Run`'s select; `UpdateClientID` is a login,
in `readPump`; `BroadcastToUser` is called by any goroutine. Of the send channel only
the fill is kept, and that it is closed: a send then adds its place to `panics`
and the model stops. `register` and `unregister` are unbuffered: their sender
waits in its stage until `Run` takes it, which after a stop is never.

### LiveFeed

What one client is shown of a book and of its user's portfolio. Both are numbers:
how many changes they have seen. `latestDepth` is the hub's one snapshot per symbol
that `Flush` sends every 100 ms. `UserOrder` broadcasts under the book's mutex,
`StopEntry` does not broadcast; the generator's tick reads its depth without the mutex
(`TickReads`) and stores it later (`TickBroadcasts`), so that it can put an older
snapshot over a newer one. A portfolio update is three steps: change, read under
the lock, send. A full channel drops. `overtaken` is history: two portfolio
updates overlapped, or one was dropped.

### BotManager

The trading bots of users: the request that creates and starts a bot (`Create`,
`Start`, `Connect` or `ConnectFails`, `Remove`), the requests that stop one (`Get`,
`Stop`, `Close`, `StopStrategy`), and the event loop (`Poll`, `Recv`, `RecvFails`,
`Exit`). The manager's lock is given up between these steps, and so they
interleave. `Drops` is the server ending a connection. `Close` closes nothing when
the client has not connected yet, as in the code: then the loop is told by
`stopCh` only.

### SimBots

The manager of the simulation bots. A bot is the request that starts it, as each
makes its own instance; `simBots` is the map of ids, which are the client's choice.
`StartSim`, `Dial`, `SetCancelFunc` and `Launch` (or `DeleteFailed`) are `StartBot`;
`FindSim` and `StopSim` are `StopBot`; `CancelAll` and `CloseAll` are `Close`. The loop
chooses among what is ready (`LoopCancelled`, `LoopFails`, `TakeMessage`), the
reader waits for room in `msgCh` or for the cancellation. `overlapped` is history: the
ids of which two starts met.

`MCConnections` puts `WsHub` and `LiveFeed` into one run, `MCBots` `BotManager` and
`SimBots`. The two models of a run share no state, so that every interleaving of
them is one of each: TLC explores one while the other is in its initial state. `TypeOK`
is the conjunction of both type invariants.

## 4. What TLC checks

`tlc -config <cfg> <module>`; all runs together take about fifteen minutes. No run checks
for deadlock: calls, requests, messages and failures are bounded, and a system
that has used its bounds rightly stops; that calls return, requests are
answered, messages are written and goroutines end is checked as liveness
instead.

| run | configuration | bounds | shows |
|---|---|---|---|
| `level_tree` | `LevelTree.cfg` | 7 prices, any insertions and removals | no level is lost; the edge is right while the tree is balanced |
| `matching_book` | `MCMatchingBook.cfg` | 2 prices, quantities 1 and 2, 4 orders in 4 calls; first order a sell (mirror image) | the inductive invariant, lists, shares, places, crossing |
| `matching_book_returns` | `MatchingBookReturns.cfg` | 3 orders, 3 calls | every call ends; the book implements the ledger |
| `order_flow` | `OrderFlow.cfg` | 2 users, 2 goroutines, 2 requests, 2 quotes, 2 prices, room for 2 trades, one restart | conservation of cash, escrow, no double credit |
| `order_flow_answers` | `OrderFlowAnswers.cfg` | 2 goroutines, 2 requests, one quote, any number of ticks, room for one trade | every request is answered; escrow when trades go unreported |
| `event_pipeline` | `EventPipeline.cfg` | 3 seconds, 4 trades, 3 order updates, reads and batches of 2, 3 failures | what is acknowledged is written; no trade counted twice; complete rows; everything is written |
| `portfolio_store` | `PortfolioStore.cfg` | one user, 2 requests, 3 calls, channel of 1, one failure, one restart | no lost update, agreeing rows, flushed in the end |
| `connections` | `MCConnections.cfg` | 2 connections, 2 users and guests, channel of 2; 2 updaters, 2 changes of the book, 2 fills, one other message | agreeing indexes, no send on a closed channel, lost connections end, the client catches up |
| `bots` | `MCBots.cfg` | 2 bots, 2 stops; 2 starts of one id, one stop, Close, `msgCh` of 1 | what is listed runs, what runs is listed, what is stopped ends |
| `level_tree_edge` | `LevelTreeEdge.cfg` | 5 prices | finding: a wrong edge |
| `stop_tree` | `MatchingBookStopTree.cfg` | 3 orders, 3 calls | finding: a stop in the other side's tree |
| `order_flow_lost_fill` | `OrderFlowLostFill.cfg` | one user, one request, 2 quotes | finding: a fill that no portfolio gets |

Why the bounds are enough for the interesting cases: seven levels give trees of
height three, in which every case of `~Limit` and both double rotations occur, and
the edge defect needs four levels. Four orders in a book of two prices make a
level of two, a partial fill, a sweep over two levels and a stop that triggers
another. Two goroutines and one generator give every pair of critical sections
on one order; a third request would repeat a pair on another order, and a
request after the restart meets the escrow that the one before it left behind. Three
seconds close two candles (a batch), and three failures are a failed
acknowledgement, a crash and a failed write in one behaviour. Three calls
around a restart are a position opened, closed and loaded again, or two
overlapping loads with an update between them. Users share only the lock and the
flush channel, so one user shows what a portfolio can lose; that a full channel
drops a user whom it does not hold needs two, and is excluded by `steady` as the
code excludes nothing there.

Two connections are one that logs in as a user and another of the same user or of
nobody; two messages fill a channel; two updaters are the least that can overlap. Two starts of one id are the least
that can meet, and a stop may reach either.

`FillsReachPortfolio` is about limit orders that the tracker keeps, nothing unusual
about them and no fill of them missed; its trace is that of the finding: the engine
has taken a user's buy (`AddLimitAutoID`), the generator's ask trades with it and is
reconciled, and only then the handler comes to `Track`. The other exceptions are
left out of that property so that it shows this race and no other defect.

The three violated properties are what the repository's documents or comments
promise; `findings` in `PROJECT.json` quotes them beside the code. Other defects
have no run of their own; the properties make room for them where they bite:

* a limit order that rests moves the price past a stop and triggers nothing
  (`LimitOrderRests` ends the call without looking at the stop book);
* raising a buy order does not raise its escrow (`raised`), a cancel that overtakes
  the placement leaves the order tracked (`cancelled`), and the trades of triggered
  stops are credited to whoever triggered them (`fired`): exceptions of
  `CashAddsUp`, `EscrowAccounted`, `NeverCreditedTwice` and `TrackerKnowsCredits`;
* a fill whose portfolio cannot be loaded is logged, counted by the tracker and
  never credited (`missed` in `TrackerKnowsCredits`; the proofs show that this takes
  a sell, since the portfolio of a buy is loaded as long as the order lives);
* what was blocked before a restart is blocked for good (`before` in `EscrowAccounted`);
* overlapping first loads lose an update (`overlapped` in `NoUpdateLost`), the row
  of a closed position is never removed and positions that an error cuts off are
  taken for none (`mismatched` in `CashAndPositionsAgree`);
* a restart leaves rows of candles incomplete (`disturbed` in `CompleteRows`), and lets
  a trade that was counted and not acknowledged be counted by a second candle
  (`disturbed` in `CountedOnce`, whose first part, that no candle counts a trade twice
  or one of another second, holds all the same); and an
  order update that was written and not acknowledged stays pending for good
  (`WrittenInTheEnd` asks for the acknowledgement of the others only);
* after the hub is stopped handlers still send on channels that it has closed, and
  the goroutines that want to register or unregister wait for good
  (`NoSendOnClosed` and `LostConnectionsEnd` are about a hub that runs);
* overlapping or dropped portfolio updates leave a client with an old portfolio
  until the next fill (`overtaken` in `PortfolioCatchesUp`);
* two starts of one simulation bot can both run and only one is listed
  (`overlapped` in `RunningIsListed`), and a trading bot whose loop ended on its
  own keeps its container (`container` stays `"up"`).

### Fairness

* `MatchingBook`: the running call goes on (`WF` of the engine's steps); nothing in
  the engine waits. Nobody has to make a call.
* `OrderFlow`: a goroutine that is running goes on (`WF`). One that waits for the
  book's mutex gets it at some time (`SF`), although the generator takes the mutex
  in every tick: Go's `sync.Mutex` hands over to a waiter that has starved for a
  millisecond.
* `EventPipeline`: a consumer's goroutine with something to read or handle goes on
  (`WF`); nothing has to be published and nobody has to start the server again.
  `WrittenInTheEnd` therefore assumes a last start after which nothing fails.
* `PortfolioStore`: a begun request and the flush worker go on, and the worker's
  `select` takes the ticker at some time although the channel has more (`WF` of
  `Tick`; Go chooses at random among ready cases, and the ticker's channel keeps a
  tick).
* `WsHub`: the pumps of a connection run on, and the select of `Run` passes over
  neither the stop nor a waiting client for ever (`WF`; it chooses at random among
  what is ready). Nobody has to connect, and a connection need not fail.
* `LiveFeed`: the generator's ticks and the hub's flushes come from timers, and
  `writePump` and the goroutines that apply fills run on (`WF`). No order has to come.
* `BotManager`, `SimBots`: goroutines run on (`WF`). That a connection delivers a
  message or is dropped is the server's choice and is not assumed: a stopped loop
  ends without it.

## 5. What TLAPS proves

Every theorem holds for every value of the constants that the modules' named
assumptions allow: any number of orders, users, requests, messages, connections
and bots, any prices and quantities, any capacity of a channel, and any number
of failures and restarts. The assumptions say what the code gives: counts are natural
numbers, prices and quantities are positive, and a model value that stands for
"nothing" (`NoOrder`, `NotLoaded`, `NoCandle`) is none of the things it is told apart
from. `tlapm <module>` checks a module; the two of `OrderFlow` take a quarter of an hour
each, the other six some ten minutes together.

| module | theorems | obligations |
|---|---|---|
| `MatchingBook_proofs` | `BookInvariant`, `TypeCorrect`, `ListsMatch`, `SharesAreAccounted`, `OrdersRestAtTheirLimit`, `PlacesAreKept`, `OnlyAModifyCrosses` | 2100 |
| `OrderLedger_proofs` | `BookImplementsLedger` | 400 |
| `PortfolioStore_proofs` | `StoreTypeCorrect`, `NoUpdateIsLost`, `CashAndPositionsAlwaysAgree` | 1100 |
| `EventPipeline_proofs` | `PipelineTypeCorrect`, `AcknowledgedIsWritten`, `TradesAreCountedOnce`, `RowsAreComplete` | 1800 |
| `Connections_proofs` | `UsersHaveTheirClients`, `NobodySendsOnClosed`, `FeedTypeCorrect`, `ConnectionsTypeCorrect` | 600 |
| `Bots_proofs` | `RunningBotsHaveLoops`, `RunningSimsAreListed`, `BotsTypeCorrect` | 600 |
| `OrderFlowBase_proofs` | `FlowTypeOK`, `CreditedOnce` | 6900 |
| `OrderFlow_proofs` | `TrackerAgrees`, `EscrowHolds`, `CashHolds` | 5700 |

### The matching engine

`ListsMatchOrderMap` is not inductive: a step of the sweep relies on the locals of
the call (`CallLocals`: the side, the order that is being swept and whether it is
in a list), an order that is appended must be in no list yet (`FreshIds`), and a
triggered stop must be found in a tree (`StopLevelsInTrees`). `BookInv` is the
conjunction. The proof has one lemma per action, `...KeepsInv`; what an action does
to lists and `orderMap` is one of four moves, each a lemma of its own: an order
is linked at the tail (`AgreeLink`), taken out of a list (`AgreeTakeOut`), erased
from the map (`AgreeErase`), or both (`AgreeUnlink`); `HeadLeaves` is the sweep's
removal of a head. `UnlinkFromList` and `TailOfList` are the facts about lists
without repetition they rest on. Shares (`SharesAreAccounted`) and limits
(`OrdersRestAtTheirLimit`: an order rests in the level of its own limit price) are
invariants relative to `BookInv`, with one lemma per group of actions.

Two action properties follow from `BookInv` too. `PlacesAreKept` is time priority:
`TailKept`, `UnlinkKept` and `AppendNewKept` say that a list whose head leaves, that
loses an order anywhere, or that gets a new one keeps the order of the others
(each is a case of `RisingIsKept`: the new list's elements are those of the old at
rising places); only `Move` appends an order that was in the lists. `OnlyAModifyCrosses`
is the reason why a sweep that ends leaves an uncrossed book: what rests was not
as good as the best order of the other side, hence as none (`RestDoesNotCross`).
That a side with orders has a best price (`EdgeExists`) is not obvious when there
may be infinitely many prices: every level has a head order of its own, and there
are `MaxOrders` ids (`BestOfMany`, by the least number of ids for which there is none).

`BookImplementsLedger` (in `OrderLedger_proofs`): every behaviour of the book is one of
the ledger. One lemma per kind of step says which ledger step it is:
`SubmitIsSubmit`, `CancelIsWithdraw`, `MoveIsAmend` (modifications), `FillIsTrade`,
`SweepEndWithdraws` (a market order drops its rest; a limit order's rest stays
open, now in `orderMap`), and `TriggerChangesNothing`. `NoneChanges`, `OneChanges` and
`TwoChange` turn facts about single orders into the ledger's `EXCEPT`s. `BookInv` is
needed in each: that a trade is between two different orders, and takes no more
than both have open, follows from `CallLocals` and from lists and `orderMap`
agreeing.

### The order flow

The properties are about sums over things in different places: an order in the
book, a trade in a request, a trade that the generator has still to reconcile, a
portfolio call on its way, an order in the tracker. Each is the sum of a weight
over a sequence or a function (`Weight`), and `Total` is the number of elements of
a set of pairs (`Units`), so that the library's facts about finite sets apply; the
first lemmas say what appending, removing and changing an element do to a sum.

*The engine.* For every book, a call gives trades that add up to what the book
loses (`EngineDoes`): what is open of an order and what is traded of it, in shares and
in money at its limit, stay together; an order is in one place at most; nobody but
the submitted order and stops that fire enters the book. The rounds are followed by
well-founded induction on their number, for the set of rounds after which the
statement does not hold.

*What is traded is an upper bound* (`BaseInv`, giving `FlowTypeOK` and `CreditedOnce`).
`NeverCreditedTwice` alone is not inductive: a call to come will credit (or miss), a
placement will be tracked with its trades, and a tick will reconcile. `ClaimsTraded` adds
these to what is credited or missed, and it is the sum that the engine's trades bound. It needs that an
id is used once (`Counted`, `Unused`), that requests and calls are about orders that
exist and belong to their user (`RequestsOK`, `CallsOK`, `OwnersKnown`), and that an
order is in one place of book and stops (`OnePlace`), for otherwise two makers would
share an id.

*What the tracker knows* (`Structure` and `AllCovered`, giving `TrackerAgrees`). For an
order that nothing unusual happened to: what is filled, open, traded and unreconciled,
or traded and being recorded never exceeds its quantity (`SharesCovered`,
`PlacementCovered`), so that the tracker's clamp to the remaining quantity (`Applied`)
never cuts a fill short, and hence the tracker's count and the portfolio's differ by what
is on its way (`FillsAgree`). `Structure` says that one goroutine places an order
(`OnePlacement`), that nothing is credited before an order is tracked (`NotYet`), what a
cancel or a modification that overtakes a placement leaves in `odd` (`Cancelling`,
`Modifying`), and that the book, the tracker and the request agree on the side.

*Whose portfolio is loaded* (`Loaded`). A release is lost, and a limit buy's money stays
blocked, if the user is not in the manager's map when the call comes. `Loaded` says that
this cannot happen: whoever's buy is under way, tracked with a reserve, or has a release
or a limit buy's fill to come is loaded, from the reservation to the next restart, which
ends the order too. The money's lemmas need it wherever a call is made.

*The money* (`Money`, giving `EscrowHolds` and `CashHolds`). Both properties are inductive
only together, and only with `MoneyCovered`, that the reserve of a tracked order
pays for its trades and for what is open of it at its limit: then every fill and
release takes no more than is blocked (`SpentIsReserved`, `OwedIsBlocked`), the clamp in `Release` never strikes, and a step
moves money between the terms of the sum (`Balances`, one lemma per action). That the
clamp does strike for orders that were raised, cancelled in their placement or fired
stops is why these are excepted; an order that is merely `modified` keeps its reserve
covered, and it is not excepted.

### The portfolio store

`NoUpdateIsLost`. What is in memory has every update; but a portfolio is there only
after a fetch has installed it, so the invariant (`StoreInv`) also says that what is
not in memory is in the row, that what a fetch has read is what the row has, and
that the worker writes nothing that was not applied (`NothingElsewhere`). A fetch may
install what it read only because no other request fetches the same portfolio
and none has loaded it meanwhile (`OneFetch`), which is what overlapping loads break
(`overlapped`).

`CashAndPositionsAlwaysAgree`. A position is the sum over the updates that the balance
has gone through, so one update must not be counted again. `NewNumbers` says that
the number of an update that is still to be made is in no portfolio anywhere (in
memory, in a row, with the worker, with a request that has read) and with no other
request; `WorkerAgrees` is the property for what the worker is about to write.

### The event pipeline

`AcknowledgedIsWritten` is inductive together with the types: a writer acknowledges
in the step that has written.

`TradesAreCountedOnce` rests on the builder's cursor (`CountInv`): while what is pending
after a start is drained, nothing beyond the cursor has been handled, and all that
the open candle counts is before what is still to be read (`CursorIsAhead`), so a
message cannot be counted again. Every candle counts trades of its own second
only, each once (`CountsItsOwn`). That two candles share no trade, as long as nothing has
disturbed the builder, follows from what the rows need anyway: the candles' seconds
grow (`StepSecondsGrow`), and the open one's is later than all of them (`CandlesAreComplete`).

`RowsAreComplete` needs to know what has been processed: until the first disturbance
the builder has processed exactly what it has read less the batch in its hands
(`NeverBehind`), the open candle counts what was processed of the last second
(`OpenIsComplete`), and a published candle is of an earlier second and counts all of it
(`CandlesAreComplete`), because trades are published in the order of their seconds
(`InOrder`).

### The websocket hub and what clients are shown

`HubInv` adds to the two properties that a connection is in `clients` exactly in the
stages between its registration and its unregistration, and that its channel is
closed only when it is done (`RegisteredAreOpen`). From it follow both that no sender
meets a closed channel and that the index by user has no stale entry. `FeedInv` adds
to the types that what is still in the channel has been (`SentWas`), so that a client
shows no version that never was.

### The bots

`BotInv` adds to `RunningHasLoop` that a bot has a loop exactly when its start is done,
and that a stop that came while it connected has closed `stopCh` (`StartedHaveLoops`):
the loop that begins then ends at its first look. `SimInv` adds to `RunningIsListed` that a
bot that is being started is listed under its id (`StartingIsListed`) and that a loop
belongs to a finished start and can be cancelled (`GoesOn`).

`MCConnections` and `MCBots` put two models side by side; their type invariants are
proved of the specification that the runs check (`ConnectionsTypeCorrect`,
`BotsTypeCorrect`), and the properties of each part of the part's own specification.

## 6. What is only model-checked, and what is not modelled

Only model-checked: all of `LevelTree` (the height of a tree is a recursive operator),
and liveness everywhere. The prover has no induction rule that these modules could
use; where a proof needs the least element of a set of numbers (the best price of a
side, the next message of a batch, the first round that breaks a statement) it is
taken from the well-foundedness of the natural numbers.

Not modelled:

* quantities that the conversion from `int64` to `C.int` changes silently (the
  refusal is modelled);
* an engine call with the id of an order of the other book, in `OrderFlow` (in
  `MatchingBook` it is the case that sets `freed`);
* prices as floating point: money is in whole units, P&L, average entry and mark
  prices are left out, and so are the price process (a geometric Brownian motion),
  the indicators and the bots' strategies;
* crashes of the C++ walk when depth is read without the mutex (its answer is
  arbitrary in the model);
* a generator's stop, pause and removal of its symbol;
* Redis' trimming of streams at 100,000 messages, malformed messages
  (acknowledged and skipped), Pub/Sub, and the error, alert and bot status
  streams, whose consumers have the same loop;
* a portfolio row that is missing (its creation with the default values is folded
  into the read);
* how `writePump` joins queued messages into one frame, of which the bots' client
  takes the first part that parses, and which symbols a client has subscribed to
  (a broadcast reaches any set of clients);
* the race on `dropCount` (a counter for the log), what a bot does with a message,
  and synthetic fills of the simulation bots;
* the order of deferred calls at a shutdown (plan), authentication, watchlists
  and the other one-row handlers, repositories, migrations, and the frontend.

Most of the repository's C++ is not the program: of its fifty thousand lines
forty-six thousand are two vendored headers (`httplib.h`, `nlohmann/json.hpp`), and
`Matching-Engine/src/Book.cpp`, `src/Limit.cpp`, `src/HTTPServer.cpp` and
`internal/Book.hpp` are an older copy of the engine that is not built into the
server. The engine that is built (`Limit_Order_Book`, `engine_c_api.cpp`) is
modelled; the rest of the exchange is Go, which is where most of the modelled
code is.
