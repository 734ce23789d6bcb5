----------------------------- MODULE PortfolioStore -----------------------------
(***************************************************************************)
(* The portfolio manager as a store: portfolios live in memory, are loaded *)
(* from PostgreSQL at their first use and written back by a flush worker   *)
(* that is told by a channel whose portfolio has changed.  What an update  *)
(* does to the cash is module OrderFlow's; here cash is the set of updates *)
(* it has gone through, so that a lost one shows.  One symbol: a position  *)
(* of zero is no position.                                                 *)
(***************************************************************************)
EXTENDS Integers, SequencesExt

CONSTANTS Users, Requests,
          Calls,       \* what requests call the manager for
          QueueCap,    \* capacity of flushCh
          MaxCalls, MaxFailures, MaxRestarts, \* bounds on what happens
          NotLoaded    \* the store has no portfolio of the user

(* LoadOrFetch, ReserveCash, ReleaseCash, ApplyFill with side buy and with   *)
(* side sell, and what they do to the position                               *)
Change == [look |-> 0, reserve |-> 0, release |-> 0, buy |-> 1, sell |-> -1]

ASSUME StoreConstants ==
  /\ Calls \subseteq DOMAIN Change
  /\ QueueCap \in Nat \ {0}
  /\ MaxCalls \in Nat /\ MaxFailures \in Nat /\ MaxRestarts \in Nat
  /\ NotLoaded \notin Users

VARIABLES
  store,    \* Manager.store: user -> portfolio
  row,      \* PostgreSQL: user -> portfolio
  flushCh,  \* users whose portfolio has changed
  batch,    \* the flush worker's users of the next tick
  worker,   \* [phase, todo, user, value]: the users to flush, the snapshot being written
  req,      \* request -> [phase, user, call, made, read]
  stopped,  \* Stop has been called
  calls, failures, restarts, \* numbers of them so far
  applied,  \* history: user -> updates that the portfolio has gone through
  overlapped, \* history: users that two requests have loaded at a time
  mismatched, \* history: users loaded with a position that is not their cash's
  steady    \* history: since the last start no failure, nobody dropped, no Stop

vars == <<store, row, flushCh, batch, worker, req, stopped, calls, failures,
          restarts, applied, overlapped, mismatched, steady>>

(* An update is its number and what it does to the position. *)
Update    == (1..MaxCalls) \X {-1, 0, 1}
Portfolio == [cash: SUBSET Update, held: Int]
Empty     == [cash |-> {}, held |-> 0]

ASSUME NotLoadedIsNoPortfolio == NotLoaded \notin Portfolio

Job   == [phase: {"call", "row", "positions", "install", "schedule"},
          user: Users, call: Calls, made: Update, read: Portfolio]
Flush == [phase: {"idle", "flush", "final", "ended"}, todo: SUBSET Users,
          user: Users \cup {NotLoaded}, value: Portfolio]
Idle  == [phase |-> "idle"]
Quiet == [phase |-> "idle", todo |-> {}, user |-> NotLoaded, value |-> Empty]

(* A missing row is created with the default cash when it is looked for, as *)
(* if it had been there.                                                    *)
Init == /\ store = [u \in Users |-> NotLoaded]
        /\ row = [u \in Users |-> Empty]
        /\ flushCh = <<>> /\ batch = {}
        /\ worker = Quiet
        /\ req = [t \in Requests |-> Idle]
        /\ stopped = FALSE
        /\ calls = 0 /\ failures = 0 /\ restarts = 0
        /\ applied = [u \in Users |-> {}]
        /\ overlapped = {} /\ mismatched = {}
        /\ steady = TRUE

Fails == /\ failures < MaxFailures
         /\ failures' = failures + 1
         /\ steady' = FALSE

-----------------------------------------------------------------------------
(* Requests *)

Loaded(u) == store[u] # NotLoaded
At(t, p)  == req[t].phase = p
Goes(t, p) == req' = [req EXCEPT ![t].phase = p]
Ends(t)    == req' = [req EXCEPT ![t] = Idle]
User(t)   == req[t].user

Begin(t, u, call) ==
  /\ At(t, "idle")
  /\ calls < MaxCalls
  /\ calls' = calls + 1
  /\ req' = [req EXCEPT ![t] = [phase |-> "call", user |-> u, call |-> call,
                                made |-> <<calls + 1, Change[call]>>, read |-> Empty]]
  /\ UNCHANGED <<store, row, flushCh, batch, worker, stopped, failures, restarts,
                 applied, overlapped, mismatched, steady>>

(* A portfolio that is there is looked at; an update that is refused for     *)
(* lack of cash changes it as little.                                        *)
Look(t) ==
  /\ At(t, "call") /\ req[t].call \in {"look", "reserve", "buy"}
  /\ Loaded(User(t))
  /\ Ends(t)
  /\ UNCHANGED <<store, row, flushCh, batch, worker, stopped, calls, failures,
                 restarts, applied, overlapped, mismatched, steady>>

(* getOrFetchLocked gives the lock up to read from the database, and         *)
(* LoadOrFetch does not have it: another request may be doing the same.      *)
Fetching(t) == req[t].phase \in {"row", "positions", "install"}

Fetch(t) ==
  /\ At(t, "call") /\ req[t].call # "release"
  /\ ~Loaded(User(t))
  /\ Goes(t, "row")
  /\ overlapped' = IF \E o \in Requests : Fetching(o) /\ User(o) = User(t)
                   THEN overlapped \cup {User(t)} ELSE overlapped
  /\ UNCHANGED <<store, row, flushCh, batch, worker, stopped, calls, failures,
                 restarts, applied, mismatched, steady>>

ReadRow(t) ==
  /\ At(t, "row")
  /\ req' = [req EXCEPT ![t].phase = "positions", ![t].read.cash = row[User(t)].cash]
  /\ UNCHANGED <<store, row, flushCh, batch, worker, stopped, calls, failures,
                 restarts, applied, overlapped, mismatched, steady>>

(* An error while the positions are read is not looked for: the portfolio is *)
(* installed without those that had not come yet.                            *)
ReadPositions(t) ==
  /\ At(t, "positions")
  /\ \/ /\ req' = [req EXCEPT ![t].phase = "install", ![t].read.held = row[User(t)].held]
        /\ UNCHANGED <<failures, steady>>
     \/ /\ Goes(t, "install")
        /\ Fails
  /\ UNCHANGED <<store, row, flushCh, batch, worker, stopped, calls, restarts,
                 applied, overlapped, mismatched>>

\* Mutant of FetchFails: without a database the portfolio starts from the default.
FetchFailsAndInstalls(t) ==
  /\ req[t].phase \in {"row", "positions"}
  /\ Fails
  /\ store' = [store EXCEPT ![User(t)] = Empty]
  /\ Goes(t, "call")
  /\ UNCHANGED <<row, flushCh, batch, worker, stopped, calls, restarts, applied,
                 overlapped, mismatched>>

FetchFails(t) ==
  /\ req[t].phase \in {"row", "positions"}
  /\ Fails
  /\ Ends(t)
  /\ UNCHANGED <<store, row, flushCh, batch, worker, stopped, calls, restarts,
                 applied, overlapped, mismatched>>

Moves(cash, d) == {up \in cash : up[2] = d}
Net(cash) == Cardinality(Moves(cash, 1)) - Cardinality(Moves(cash, -1))
Agrees(p) == p.held = Net(p.cash)

(* fetchFromDB puts what it has read into the store, whatever is there.  The *)
(* request then has the lock again and finds a portfolio.                    *)
Install(t) ==
  LET u == User(t)
  IN  /\ At(t, "install")
      /\ store' = [store EXCEPT ![u] = req[t].read]
      /\ req' = [req EXCEPT ![t].phase = "call", ![t].read = Empty]
      /\ mismatched' = IF Agrees(req[t].read) THEN mismatched ELSE mismatched \cup {u}
      /\ UNCHANGED <<row, flushCh, batch, worker, stopped, calls, failures,
                     restarts, applied, overlapped, steady>>

\* Mutant of Apply: a portfolio that is not in memory is not loaded first.
ApplyToAny(t) ==
  LET u == User(t)
  IN  /\ At(t, "call") /\ req[t].call # "look"
      /\ store' = [store EXCEPT ![u] = IF Loaded(u) THEN [cash |-> @.cash \cup {req[t].made},
                                                         held |-> @.held + req[t].made[2]]
                                       ELSE @]
      /\ applied' = [applied EXCEPT ![u] = @ \cup {req[t].made}]
      /\ Goes(t, "schedule")
      /\ UNCHANGED <<row, flushCh, batch, worker, stopped, calls, failures, restarts,
                     overlapped, mismatched, steady>>

(* ReserveCash and ApplyFill change the portfolio under the lock.             *)
Apply(t) ==
  LET u == User(t)
  IN  /\ At(t, "call") /\ req[t].call # "look"
      /\ Loaded(u)
      /\ store' = [store EXCEPT ![u] = [cash |-> @.cash \cup {req[t].made},
                                        held |-> @.held + req[t].made[2]]]
      /\ applied' = [applied EXCEPT ![u] = @ \cup {req[t].made}]
      /\ Goes(t, "schedule")
      /\ UNCHANGED <<row, flushCh, batch, worker, stopped, calls, failures, restarts,
                     overlapped, mismatched, steady>>


(* ReleaseCashAmount has nothing to release of a portfolio that is not in    *)
(* memory: it does not load it, but tells the worker all the same.           *)
ReleaseNothing(t) ==
  /\ At(t, "call") /\ req[t].call = "release"
  /\ ~Loaded(User(t))
  /\ Goes(t, "schedule")
  /\ UNCHANGED <<store, row, flushCh, batch, worker, stopped, calls, failures,
                 restarts, applied, overlapped, mismatched, steady>>

\* Mutant of ScheduleFlush: a user that the worker is flushing is not sent again.
ScheduleUnlessFlushing(t) ==
  /\ At(t, "schedule")
  /\ Ends(t)
  /\ flushCh' = IF Len(flushCh) < QueueCap /\ worker.user # User(t)
                THEN Append(flushCh, User(t)) ELSE flushCh
  /\ UNCHANGED <<store, row, batch, worker, stopped, calls, failures, restarts,
                 applied, overlapped, mismatched, steady>>

(* The worker is told afterwards, without the lock, unless flushCh is full.  *)
ScheduleFlush(t) ==
  /\ At(t, "schedule")
  /\ Ends(t)
  /\ IF Len(flushCh) < QueueCap
     THEN flushCh' = Append(flushCh, User(t)) /\ UNCHANGED steady
     ELSE steady' = (steady /\ User(t) \in ToSet(flushCh)) /\ UNCHANGED flushCh
  /\ UNCHANGED <<store, row, batch, worker, stopped, calls, failures, restarts,
                 applied, overlapped, mismatched>>

-----------------------------------------------------------------------------
(* flushWorker *)

Receive ==
  /\ worker.phase = "idle"
  /\ flushCh # <<>>
  /\ flushCh' = Tail(flushCh)
  /\ batch' = batch \cup {Head(flushCh)}
  /\ UNCHANGED <<store, row, worker, req, stopped, calls, failures, restarts,
                 applied, overlapped, mismatched, steady>>

Tick ==
  /\ worker.phase = "idle"
  /\ batch # {}
  /\ worker' = [worker EXCEPT !.phase = "flush", !.todo = batch]
  /\ batch' = {}
  /\ UNCHANGED <<store, row, flushCh, req, stopped, calls, failures, restarts,
                 applied, overlapped, mismatched, steady>>

(* flushAll, for good *)
FlushAll ==
  /\ worker.phase = "idle"
  /\ stopped
  /\ worker' = [worker EXCEPT !.phase = "final", !.todo = {u \in Users : Loaded(u)}]
  /\ UNCHANGED <<store, row, flushCh, batch, req, stopped, calls, failures,
                 restarts, applied, overlapped, mismatched, steady>>

(* flushUser takes a snapshot under the lock, if there is a portfolio ... *)
Snapshot(u) ==
  /\ u \in worker.todo
  /\ worker.user = NotLoaded
  /\ worker' = IF Loaded(u)
               THEN [worker EXCEPT !.todo = @ \ {u}, !.user = u, !.value = store[u]]
               ELSE [worker EXCEPT !.todo = @ \ {u}]
  /\ UNCHANGED <<store, row, flushCh, batch, req, stopped, calls, failures,
                 restarts, applied, overlapped, mismatched, steady>>

AfterWrite == worker' = [worker EXCEPT !.user = NotLoaded, !.value = Empty]

\* Mutant of Write: the position's upsert fails and the cash is committed.
WriteCashOnly ==
  LET u == worker.user
  IN  /\ u # NotLoaded
      /\ row' = [row EXCEPT ![u].cash = worker.value.cash]
      /\ AfterWrite
      /\ UNCHANGED <<store, flushCh, batch, req, stopped, calls, failures,
                     restarts, applied, overlapped, mismatched, steady>>

(* ... and writes it in one transaction: the cash, and the position when     *)
(* there is one.  The row of a position that is gone stays as it is.         *)
Write ==
  LET u == worker.user
      v == worker.value
  IN  /\ u # NotLoaded
      /\ row' = [row EXCEPT ![u] = [cash |-> v.cash,
                                    held |-> IF v.held = 0 THEN @.held ELSE v.held]]
      /\ AfterWrite
      /\ UNCHANGED <<store, flushCh, batch, req, stopped, calls, failures,
                     restarts, applied, overlapped, mismatched, steady>>

(* A failed flush is logged and not tried again. *)
WriteFails ==
  /\ worker.user # NotLoaded
  /\ Fails
  /\ AfterWrite
  /\ UNCHANGED <<store, row, flushCh, batch, req, stopped, calls, restarts,
                 applied, overlapped, mismatched>>

FlushEnds ==
  /\ worker.phase \in {"flush", "final"}
  /\ worker.todo = {} /\ worker.user = NotLoaded
  /\ worker' = [worker EXCEPT !.phase = IF @ = "flush" THEN "idle" ELSE "ended"]
  /\ UNCHANGED <<store, row, flushCh, batch, req, stopped, calls, failures,
                 restarts, applied, overlapped, mismatched, steady>>

-----------------------------------------------------------------------------
Stop ==
  /\ ~stopped
  /\ stopped' = TRUE
  /\ steady' = FALSE
  /\ UNCHANGED <<store, row, flushCh, batch, worker, req, calls, failures,
                 restarts, applied, overlapped, mismatched>>

(* The process ends, at any moment and after Stop as well, which does not    *)
(* wait for the last flush; then the server starts again with what the rows  *)
(* have.                                                                     *)
Restart ==
  /\ restarts < MaxRestarts
  /\ restarts' = restarts + 1
  /\ store' = [u \in Users |-> NotLoaded]
  /\ flushCh' = <<>> /\ batch' = {}
  /\ worker' = Quiet
  /\ req' = [t \in Requests |-> Idle]
  /\ stopped' = FALSE
  /\ applied' = [u \in Users |-> row[u].cash]
  /\ steady' = TRUE
  /\ UNCHANGED <<row, calls, failures, overlapped, mismatched>>

Request(t) == \/ Look(t) \/ Fetch(t) \/ ReadRow(t) \/ ReadPositions(t) \/ FetchFails(t)
              \/ Install(t) \/ Apply(t)
              \/ ReleaseNothing(t) \/ ScheduleFlush(t)
Worker == \/ Receive \/ Tick \/ FlushAll \/ Write \/ WriteFails \/ FlushEnds
          \/ \E u \in Users : Snapshot(u)

Next == \/ \E t \in Requests, u \in Users, call \in Calls : Begin(t, u, call)
        \/ \E t \in Requests : Request(t)
        \/ Worker
        \/ Stop
        \/ Restart

(* Begun requests and the worker go on; the ticker comes although flushCh    *)
(* has more.                                                                 *)
Fairness == /\ \A t \in Requests : WF_vars(Request(t))
            /\ WF_vars(Receive) /\ WF_vars(Tick)
            /\ WF_vars(Worker)

Spec == Init /\ [][Next]_vars /\ Fairness

-----------------------------------------------------------------------------
(* Properties *)

(* The variables have their types; a snapshot that is being written is of a  *)
(* portfolio that is in the store, and a request that is to tell the worker  *)
(* and has not released anything has changed one.  (flushUser, ApplyFill)    *)
TypeOK ==
  /\ store \in [Users -> Portfolio \cup {NotLoaded}]
  /\ row \in [Users -> Portfolio]
  /\ applied \in [Users -> SUBSET Update]
  /\ flushCh \in Seq(Users) /\ Len(flushCh) <= QueueCap
  /\ batch \subseteq Users /\ overlapped \subseteq Users /\ mismatched \subseteq Users
  /\ stopped \in BOOLEAN /\ steady \in BOOLEAN
  /\ calls \in 0..MaxCalls /\ failures \in 0..MaxFailures /\ restarts \in 0..MaxRestarts
  /\ worker \in Flush
  /\ worker.user # NotLoaded => Loaded(worker.user)
  /\ req \in [Requests -> Job \cup {Idle}]
  /\ \A t \in Requests : At(t, "schedule") /\ req[t].call # "release" => Loaded(User(t))

(* No update is lost in memory: unless two requests have loaded a user's     *)
(* portfolio at the same time, it has gone through exactly the updates that  *)
(* were applied, those before its load included, and a row never has more.   *)
(* (getOrFetchLocked's "return the one in the store to ensure consistency")  *)
NoUpdateLost ==
  \A u \in Users \ overlapped :
    /\ Loaded(u) => store[u].cash = applied[u]
    /\ row[u].cash \subseteq applied[u]

(* The positions of a row and its cash belong to the same portfolio: the row *)
(* has the position that its updates have made, except that a closed one is  *)
(* still there; cash and positions of a portfolio in memory always agree.    *)
(* Loading such a closed position, or missing one because of an error, ends  *)
(* this.                                                                     *)
(* (flushUser's transaction, ApplyFill's "Remove zero positions")            *)
CashAndPositionsAgree ==
  \A u \in Users \ (overlapped \cup mismatched) :
    /\ Loaded(u) => Agrees(store[u])
    /\ Agrees(row[u]) \/ Net(row[u].cash) = 0

(* What the portfolio in memory has gone through is in its row in the end,   *)
(* when from some start on nothing fails, flushCh is never full of others    *)
(* and nobody stops the manager (of two overlapping loads the second may     *)
(* take an update away from memory that the row has).                        *)
(* (scheduleFLush after the update, flushWorker)                             *)
FlushedInTheEnd ==
  \A u \in Users :
    <>[]steady => <>[](u \in overlapped \/ ~Loaded(u) \/ row[u].cash = store[u].cash)

=============================================================================
