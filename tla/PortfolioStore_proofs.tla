------------------------ MODULE PortfolioStore_proofs ------------------------
(* What holds of the portfolio manager's store for every number of users,   *)
(* requests, calls, failures and restarts.                                  *)
EXTENDS PortfolioStore, FiniteSetTheorems, TLAPS

-----------------------------------------------------------------------------
(* The inductive invariant *)

(* At most one request fetches a portfolio, and while it does the portfolio  *)
(* is not in memory.                                                         *)
OneFetch ==
  \A t \in Requests : Fetching(t) /\ User(t) \notin overlapped =>
    /\ ~Loaded(User(t))
    /\ \A o \in Requests : Fetching(o) /\ User(o) = User(t) => o = t

(* What is not in memory is in the row, and what a fetch has read or the     *)
(* worker is about to write has been applied.                                *)
NothingElsewhere ==
  /\ \A u \in Users \ overlapped : ~Loaded(u) => row[u].cash = applied[u]
  /\ \A t \in Requests : /\ req[t].phase \in {"positions", "install"}
                         /\ User(t) \notin overlapped
                         => req[t].read.cash = row[User(t)].cash
  /\ worker.user \in Users \ overlapped => worker.value.cash \subseteq applied[worker.user]

StoreInv == TypeOK /\ NoUpdateLost /\ OneFetch /\ NothingElsewhere

(* An update has its number from the request that makes it: no other request *)
(* has it, and no portfolio anywhere until it is made.                       *)
ToMake(t) == req[t].phase \in {"call", "row", "positions", "install"}
Number(t) == req[t].made[1]
Kept == {row[u].cash : u \in Users}
        \cup {store[u].cash : u \in {v \in Users : Loaded(v)}}
        \cup {worker.value.cash}
        \cup {req[t].read.cash : t \in {o \in Requests : ToMake(o)}}
NewNumbers ==
  /\ \A cash \in Kept : \A up \in cash :
       up[1] <= calls /\ \A t \in Requests : ToMake(t) => up[1] # Number(t)
  /\ \A t \in Requests : ToMake(t) =>
       Number(t) <= calls /\ \A o \in Requests : ToMake(o) /\ o # t => Number(o) # Number(t)

(* Cash and positions agree while the worker writes them, too. *)
WorkerAgrees ==
  worker.user \in Users \ (overlapped \cup mismatched) => Agrees(worker.value)

AgreeInv == StoreInv /\ NewNumbers /\ WorkerAgrees /\ CashAndPositionsAgree

-----------------------------------------------------------------------------
(* The types *)

LEMMA ChangeType == \A c \in Calls : Change[c] \in {-1, 0, 1}
  BY StoreConstants DEF Change

LEMMA EmptyIsPortfolio == Empty \in Portfolio
  BY DEF Empty, Portfolio

LEMMA QuietIsFlush == Quiet \in Flush
  BY EmptyIsPortfolio DEF Quiet, Flush

(* A request that is not idle has a job. *)
LEMMA HasJob ==
  ASSUME TypeOK, NEW t \in Requests, req[t].phase # "idle"
  PROVE  /\ req[t] \in Job
         /\ User(t) \in Users /\ req[t].call \in Calls /\ req[t].made \in Update
         /\ req[t].read \in Portfolio /\ req[t].read.cash \in SUBSET Update
         /\ req[t].read.held \in Int
  <1>1. req[t] \in Job
    BY DEF TypeOK, Idle
  <1> QED
    BY <1>1 DEF Job, Portfolio, User

(* The type invariant after a step of a request that leaves the worker, the  *)
(* rows and the counters, needs only what it makes of the job.               *)
LEMMA JobStep ==
  ASSUME TypeOK, NEW t \in Requests, NEW j \in Job \cup {Idle},
         req' = [req EXCEPT ![t] = j],
         j.phase = "schedule" /\ j.call # "release" => store'[j.user] # NotLoaded,
         \A u \in Users : Loaded(u) => store'[u] # NotLoaded
  PROVE  /\ req' \in [Requests -> Job \cup {Idle}]
         /\ \A o \in Requests : At(o, "schedule")' /\ req'[o].call # "release" => Loaded(User(o))'
  <1>1. req' \in [Requests -> Job \cup {Idle}]
    BY DEF TypeOK
  <1>2. req'[t] = j /\ \A o \in Requests : o # t => req'[o] = req[o]
    BY DEF TypeOK
  <1>3. ASSUME NEW o \in Requests, At(o, "schedule")', req'[o].call # "release"
        PROVE  Loaded(User(o))'
    <2>1. CASE o = t
      BY <1>2, <1>3, <2>1 DEF At, Loaded, User
    <2>2. CASE o # t
      <3>1. req[o].phase = "schedule" /\ req[o].call # "release"
        BY <1>2, <1>3, <2>2 DEF At
      <3>2. User(o) \in Users /\ Loaded(User(o))
        BY <3>1, HasJob DEF TypeOK, At
      <3> QED
        BY <1>2, <2>2, <3>2 DEF Loaded, User
    <2> QED
      BY <2>1, <2>2
  <1> QED
    BY <1>1, <1>3

LEMMA FailsType ==
  ASSUME TypeOK, Fails
  PROVE  failures' \in 0..MaxFailures /\ steady' \in BOOLEAN
  <1>1. failures \in 0..MaxFailures /\ failures < MaxFailures /\ failures' = failures + 1
    BY DEF TypeOK, Fails
  <1>2. steady' \in BOOLEAN
    BY DEF Fails
  <1> QED
    BY <1>1, <1>2, StoreConstants

LEMMA BeginType ==
  ASSUME TypeOK, NEW t \in Requests, NEW u \in Users, NEW call \in Calls, Begin(t, u, call)
  PROVE  TypeOK'
  <1> DEFINE j == [phase |-> "call", user |-> u, call |-> call,
                   made |-> <<calls + 1, Change[call]>>, read |-> Empty]
  <1>1. calls' \in 0..MaxCalls /\ <<calls + 1, Change[call]>> \in Update
    BY ChangeType, StoreConstants DEF Begin, TypeOK, Update
  <1>2. j \in Job /\ j.phase = "call"
    BY <1>1, EmptyIsPortfolio DEF Job
  <1>3. req' = [req EXCEPT ![t] = j] /\ store' = store
    BY DEF Begin
  <1> HIDE DEF j
  <1>4. /\ req' \in [Requests -> Job \cup {Idle}]
        /\ \A o \in Requests : At(o, "schedule")' /\ req'[o].call # "release" => Loaded(User(o))'
    BY <1>2, <1>3, JobStep DEF Loaded
  <1> QED
    BY <1>1, <1>3, <1>4 DEF Begin, TypeOK, Loaded

LEMMA EndsType ==
  ASSUME TypeOK, NEW t \in Requests, Ends(t), UNCHANGED store
  PROVE  /\ req' \in [Requests -> Job \cup {Idle}]
         /\ \A o \in Requests : At(o, "schedule")' /\ req'[o].call # "release" => Loaded(User(o))'
  <1>1. Idle \in Job \cup {Idle} /\ Idle.phase # "schedule"
    BY DEF Idle
  <1> QED
    BY <1>1, JobStep DEF Ends, Loaded

(* The job of a request is given another phase, and other things read. *)
LEMMA GoesType ==
  ASSUME TypeOK, NEW t \in Requests, req[t].phase # "idle",
         NEW p \in {"call", "row", "positions", "install", "schedule"}, NEW r \in Portfolio,
         req' = [req EXCEPT ![t] = [req[t] EXCEPT !.phase = p, !.read = r]],
         p = "schedule" /\ req[t].call # "release" => store'[User(t)] # NotLoaded,
         \A u \in Users : Loaded(u) => store'[u] # NotLoaded
  PROVE  /\ req' \in [Requests -> Job \cup {Idle}]
         /\ \A o \in Requests : At(o, "schedule")' /\ req'[o].call # "release" => Loaded(User(o))'
  <1> DEFINE j == [req[t] EXCEPT !.phase = p, !.read = r]
  <1>1. /\ j \in Job /\ j.phase = p /\ j.user = User(t) /\ j.call = req[t].call
    BY HasJob DEF Job, User
  <1>2. req' = [req EXCEPT ![t] = j]
    OBVIOUS
  <1>3. j.phase = "schedule" /\ j.call # "release" => store'[j.user] # NotLoaded
    BY <1>1
  <1> HIDE DEF j
  <1> QED
    BY <1>1, <1>2, <1>3, JobStep

LEMMA GoesOnly ==
  ASSUME TypeOK, NEW t \in Requests, req[t].phase # "idle", NEW p, Goes(t, p)
  PROVE  req' = [req EXCEPT ![t] = [req[t] EXCEPT !.phase = p, !.read = req[t].read]]
  <1>1. [req[t] EXCEPT !.phase = p] = [req[t] EXCEPT !.phase = p, !.read = req[t].read]
    BY HasJob DEF Job
  <1> QED
    BY <1>1 DEF Goes

LEMMA RequestType ==
  ASSUME TypeOK, NEW t \in Requests, Request(t)
  PROVE  TypeOK'
  <1> USE DEF At
  <1>1. CASE Look(t)
    BY <1>1, EndsType DEF Look, TypeOK, Loaded
  <1>2. CASE Fetch(t)
    <2>1. req[t].phase = "call" /\ User(t) \in Users /\ req[t].read \in Portfolio
      BY <1>2, HasJob DEF Fetch
    <2>2. /\ req' \in [Requests -> Job \cup {Idle}]
          /\ \A o \in Requests : At(o, "schedule")' /\ req'[o].call # "release" => Loaded(User(o))'
      BY <1>2, <2>1, GoesOnly, GoesType DEF Fetch, Loaded
    <2> QED
      BY <1>2, <2>1, <2>2 DEF Fetch, TypeOK, Loaded
  <1>3. CASE ReadRow(t)
    <2>1. req[t].phase = "positions" \/ req[t].phase = "row"
      BY <1>3 DEF ReadRow
    <2>2. /\ User(t) \in Users /\ req[t].read \in Portfolio
          /\ [req[t].read EXCEPT !.cash = row[User(t)].cash] \in Portfolio
      BY <2>1, HasJob DEF TypeOK, Portfolio
    <2>3. req' = [req EXCEPT ![t] = [req[t] EXCEPT !.phase = "positions",
                      !.read = [req[t].read EXCEPT !.cash = row[User(t)].cash]]]
      BY <1>3, <2>1, HasJob DEF ReadRow, Job
    <2>4. /\ req' \in [Requests -> Job \cup {Idle}]
          /\ \A o \in Requests : At(o, "schedule")' /\ req'[o].call # "release" => Loaded(User(o))'
      BY <1>3, <2>1, <2>2, <2>3, GoesType DEF ReadRow, Loaded
    <2> QED
      BY <1>3, <2>4 DEF ReadRow, TypeOK, Loaded
  <1>4. CASE ReadPositions(t)
    <2>1. req[t].phase = "positions"
      BY <1>4 DEF ReadPositions
    <2>2. PICK r \in Portfolio :
            req' = [req EXCEPT ![t] = [req[t] EXCEPT !.phase = "install", !.read = r]]
      <3>1. CASE req' = [req EXCEPT ![t].phase = "install", ![t].read.held = row[User(t)].held]
        <4>1. /\ User(t) \in Users
              /\ [req[t].read EXCEPT !.held = row[User(t)].held] \in Portfolio
          BY <2>1, HasJob DEF TypeOK, Portfolio
        <4> QED
          BY <2>1, <3>1, <4>1
      <3>2. CASE Goes(t, "install")
        BY <2>1, <3>2, GoesOnly, HasJob
      <3> QED
        BY <1>4, <3>1, <3>2 DEF ReadPositions
    <2>3. /\ req' \in [Requests -> Job \cup {Idle}]
          /\ \A o \in Requests : At(o, "schedule")' /\ req'[o].call # "release" => Loaded(User(o))'
      BY <1>4, <2>1, <2>2, GoesType DEF ReadPositions, Loaded
    <2>4. failures' \in 0..MaxFailures /\ steady' \in BOOLEAN
      BY <1>4, FailsType DEF ReadPositions, TypeOK
    <2> QED
      BY <1>4, <2>3, <2>4 DEF ReadPositions, TypeOK, Loaded
  <1>5. CASE FetchFails(t)
    BY <1>5, EndsType, FailsType DEF FetchFails, TypeOK, Loaded
  <1>6. CASE Install(t)
    <2>1. /\ req[t].phase = "install" /\ User(t) \in Users /\ req[t].read \in Portfolio
      BY <1>6, HasJob DEF Install
    <2>2. /\ store' = [store EXCEPT ![User(t)] = req[t].read]
          /\ store' \in [Users -> Portfolio \cup {NotLoaded}]
          /\ \A u \in Users : Loaded(u) => store'[u] # NotLoaded
      BY <1>6, <2>1, NotLoadedIsNoPortfolio DEF Install, TypeOK, Loaded
    <2>3. /\ req' \in [Requests -> Job \cup {Idle}]
          /\ \A o \in Requests : At(o, "schedule")' /\ req'[o].call # "release" => Loaded(User(o))'
      <3>1. req' = [req EXCEPT ![t] = [req[t] EXCEPT !.phase = "call", !.read = Empty]]
        BY <1>6 DEF Install
      <3> QED
        BY <2>1, <2>2, <3>1, GoesType, EmptyIsPortfolio
    <2> QED
      BY <1>6, <2>1, <2>2, <2>3 DEF Install, TypeOK, Loaded, Flush
  <1>7. CASE Apply(t)
    <2>1. /\ req[t].phase = "call" /\ User(t) \in Users /\ req[t].made \in Update
          /\ req[t].read \in Portfolio /\ store[User(t)] \in Portfolio
      BY <1>7, HasJob DEF Apply, TypeOK, Loaded
    <2> DEFINE p == [cash |-> store[User(t)].cash \cup {req[t].made},
                     held |-> store[User(t)].held + req[t].made[2]]
    <2>2. p \in Portfolio
      BY <2>1 DEF Portfolio, Update
    <2>3. store' = [store EXCEPT ![User(t)] = p]
      BY <1>7 DEF Apply
    <2> HIDE DEF p
    <2>4. /\ store' \in [Users -> Portfolio \cup {NotLoaded}]
          /\ \A u \in Users : Loaded(u) => store'[u] # NotLoaded
          /\ store'[User(t)] # NotLoaded
      BY <2>1, <2>2, <2>3, NotLoadedIsNoPortfolio DEF TypeOK, Loaded
    <2>5. /\ req' \in [Requests -> Job \cup {Idle}]
          /\ \A o \in Requests : At(o, "schedule")' /\ req'[o].call # "release" => Loaded(User(o))'
      <3>1. req' = [req EXCEPT ![t] = [req[t] EXCEPT !.phase = "schedule", !.read = req[t].read]]
        BY <1>7, <2>1, GoesOnly DEF Apply
      <3> QED
        BY <2>1, <2>4, <3>1, GoesType
    <2>6. applied' \in [Users -> SUBSET Update]
      BY <1>7, <2>1 DEF Apply, TypeOK
    <2> QED
      BY <1>7, <2>4, <2>5, <2>6 DEF Apply, TypeOK, Loaded, Flush
  <1>8. CASE ReleaseNothing(t)
    <2>1. /\ req[t].phase = "call" /\ req[t].read \in Portfolio
      BY <1>8, HasJob DEF ReleaseNothing
    <2>2. /\ req' \in [Requests -> Job \cup {Idle}]
          /\ \A o \in Requests : At(o, "schedule")' /\ req'[o].call # "release" => Loaded(User(o))'
      BY <1>8, <2>1, GoesOnly, GoesType DEF ReleaseNothing, Loaded
    <2> QED
      BY <1>8, <2>2 DEF ReleaseNothing, TypeOK, Loaded
  <1>9. CASE ScheduleFlush(t)
    <2>1. req[t].phase = "schedule" /\ User(t) \in Users
      BY <1>9, HasJob DEF ScheduleFlush
    <2>2. flushCh' \in Seq(Users) /\ Len(flushCh') <= QueueCap /\ steady' \in BOOLEAN
      <3>1. flushCh \in Seq(Users) /\ Len(flushCh) <= QueueCap
        BY DEF TypeOK
      <3>2. flushCh' \in Seq(Users) /\ Len(flushCh') <= QueueCap
        BY <1>9, <2>1, <3>1, StoreConstants DEF ScheduleFlush
      <3>3. steady' \in BOOLEAN
        BY <1>9, Zenon DEF ScheduleFlush, TypeOK
      <3> QED
        BY <3>2, <3>3
    <2> QED
      BY <1>9, <2>2, EndsType DEF ScheduleFlush, TypeOK, Loaded
  <1> QED
    BY <1>1, <1>2, <1>3, <1>4, <1>5, <1>6, <1>7, <1>8, <1>9 DEF Request

LEMMA WorkerType ==
  ASSUME TypeOK, Worker
  PROVE  TypeOK'
  <1> USE DEF At
  <1>1. CASE Receive
    <2>1. flushCh \in Seq(Users) /\ flushCh # <<>> /\ Len(flushCh) <= QueueCap
      BY <1>1 DEF Receive, TypeOK
    <2>2. Head(flushCh) \in Users /\ Tail(flushCh) \in Seq(Users) /\ Len(Tail(flushCh)) <= QueueCap
      BY <2>1, StoreConstants
    <2> QED
      BY <1>1, <2>2 DEF Receive, TypeOK, Loaded, User
  <1>2. CASE Tick
    <2>1. worker' \in Flush /\ worker'.user = worker.user
      BY <1>2 DEF Tick, TypeOK, Flush
    <2> QED
      BY <1>2, <2>1 DEF Tick, TypeOK, Loaded, User
  <1>3. CASE FlushAll
    <2>1. worker' \in Flush /\ worker'.user = worker.user
      BY <1>3 DEF FlushAll, TypeOK, Flush
    <2> QED
      BY <1>3, <2>1 DEF FlushAll, TypeOK, Loaded, User
  <1>4. ASSUME NEW u \in Users, Snapshot(u)
        PROVE  TypeOK'
    <2>1. worker' \in Flush /\ (worker'.user = NotLoaded \/ Loaded(worker'.user))
      BY <1>4 DEF Snapshot, TypeOK, Flush, Loaded
    <2> QED
      BY <1>4, <2>1 DEF Snapshot, TypeOK, Loaded, User
  <1>5. ASSUME AfterWrite
        PROVE  worker' \in Flush /\ worker'.user = NotLoaded
    BY <1>5, EmptyIsPortfolio DEF AfterWrite, TypeOK, Flush
  <1>6. CASE Write
    <2>1. worker.user \in Users /\ worker.value \in Portfolio
      BY <1>6 DEF Write, TypeOK, Flush
    <2>2. row' \in [Users -> Portfolio]
      BY <1>6, <2>1 DEF Write, TypeOK, Portfolio
    <2>3. worker' \in Flush /\ worker'.user = NotLoaded
      BY <1>5, <1>6 DEF Write
    <2> QED
      BY <1>6, <2>2, <2>3 DEF Write, TypeOK, Loaded, User
  <1>7. CASE WriteFails
    <2>1. worker' \in Flush /\ worker'.user = NotLoaded
      BY <1>5, <1>7 DEF WriteFails
    <2>2. failures' \in 0..MaxFailures /\ steady' \in BOOLEAN
      BY <1>7, FailsType DEF WriteFails
    <2> QED
      BY <1>7, <2>1, <2>2 DEF WriteFails, TypeOK, Loaded, User
  <1>8. CASE FlushEnds
    <2>1. worker' \in Flush /\ worker'.user = worker.user
      BY <1>8 DEF FlushEnds, TypeOK, Flush
    <2> QED
      BY <1>8, <2>1 DEF FlushEnds, TypeOK, Loaded, User
  <1> QED
    BY <1>1, <1>2, <1>3, <1>4, <1>6, <1>7, <1>8 DEF Worker

LEMMA RestartType ==
  ASSUME TypeOK, Restart
  PROVE  TypeOK'
  <1>1. store' \in [Users -> Portfolio \cup {NotLoaded}] /\ applied' \in [Users -> SUBSET Update]
    BY DEF Restart, TypeOK, Portfolio
  <1>2. flushCh' \in Seq(Users) /\ Len(flushCh') <= QueueCap
    BY StoreConstants DEF Restart
  <1>3. worker' \in Flush /\ worker'.user = NotLoaded
    BY QuietIsFlush DEF Restart, Quiet
  <1>4. /\ req' \in [Requests -> Job \cup {Idle}]
        /\ \A t \in Requests : ~At(t, "schedule")'
    BY DEF Restart, At, Idle
  <1>5. restarts' \in 0..MaxRestarts
    BY StoreConstants DEF Restart, TypeOK
  <1> QED
    BY <1>1, <1>2, <1>3, <1>4, <1>5 DEF Restart, TypeOK

LEMMA StepType ==
  ASSUME TypeOK, [Next]_vars
  PROVE  TypeOK'
  <1>1. ASSUME NEW t \in Requests, NEW u \in Users, NEW call \in Calls, Begin(t, u, call)
        PROVE  TypeOK'
    BY <1>1, BeginType
  <1>2. ASSUME NEW t \in Requests, Request(t)
        PROVE  TypeOK'
    BY <1>2, RequestType
  <1>3. CASE Stop
    BY <1>3 DEF Stop, TypeOK, Loaded, At, User
  <1>4. CASE UNCHANGED vars
    BY <1>4 DEF vars, TypeOK, Loaded, At, User
  <1> QED
    BY <1>1, <1>2, <1>3, <1>4, WorkerType, RestartType DEF Next

LEMMA InitType ==
  ASSUME Init
  PROVE  TypeOK
  <1>1. req \in [Requests -> Job \cup {Idle}] /\ \A t \in Requests : ~At(t, "schedule")
    BY DEF Init, At, Idle
  <1>2. flushCh \in Seq(Users) /\ Len(flushCh) <= QueueCap
    BY StoreConstants DEF Init
  <1>3. worker \in Flush /\ worker.user = NotLoaded
    BY QuietIsFlush DEF Init, Quiet
  <1>4. /\ store \in [Users -> Portfolio \cup {NotLoaded}]
        /\ row \in [Users -> Portfolio] /\ applied \in [Users -> SUBSET Update]
    BY EmptyIsPortfolio DEF Init
  <1>5. /\ stopped \in BOOLEAN /\ steady \in BOOLEAN
        /\ batch \subseteq Users /\ overlapped \subseteq Users /\ mismatched \subseteq Users
    BY DEF Init
  <1>6. calls \in 0..MaxCalls /\ failures \in 0..MaxFailures /\ restarts \in 0..MaxRestarts
    BY StoreConstants DEF Init
  <1> QED
    BY <1>1, <1>2, <1>3, <1>4, <1>5, <1>6 DEF TypeOK

(* Every variable has its type: in every state a snapshot that is being      *)
(* written is of a portfolio in memory, and a request that is about to tell  *)
(* the worker has changed one, unless it had nothing to release.             *)
THEOREM StoreTypeCorrect == Spec => []TypeOK
  <1>1. Init => TypeOK
    BY InitType
  <1>2. TypeOK /\ [Next]_vars => TypeOK'
    BY StepType
  <1> QED
    BY <1>1, <1>2, PTL DEF Spec

-----------------------------------------------------------------------------
(* No update is lost in memory *)

(* A request goes on without touching a portfolio. *)
LEMMA RequestKeepsStore ==
  ASSUME StoreInv, TypeOK', NEW t \in Requests,
         UNCHANGED <<store, row, applied, overlapped, worker>>,
         \A o \in Requests : o # t => req'[o] = req[o],
         Fetching(t)' => Fetching(t) /\ User(t)' = User(t),
         req'[t].phase \in {"positions", "install"} /\ User(t)' \notin overlapped
           => req'[t].read.cash = row[User(t)'].cash
  PROVE  StoreInv'
  <1>1. NoUpdateLost'
    BY DEF StoreInv, NoUpdateLost, Loaded
  <1>2. OneFetch'
    BY DEF StoreInv, OneFetch, Loaded, Fetching, User
  <1>3. NothingElsewhere'
    BY DEF StoreInv, NothingElsewhere, Loaded, User
  <1> QED
    BY <1>1, <1>2, <1>3 DEF StoreInv

(* Neither does the worker, nor Stop. *)
LEMMA WorkerKeepsStore ==
  ASSUME StoreInv, TypeOK', UNCHANGED <<store, row, applied, overlapped, req>>,
         worker'.user \in Users \ overlapped => worker'.value.cash \subseteq applied[worker'.user]
  PROVE  StoreInv'
  <1>1. NoUpdateLost'
    BY DEF StoreInv, NoUpdateLost, Loaded
  <1>2. OneFetch'
    BY DEF StoreInv, OneFetch, Loaded, Fetching, User
  <1>3. NothingElsewhere'
    BY DEF StoreInv, NothingElsewhere, Loaded, User
  <1> QED
    BY <1>1, <1>2, <1>3 DEF StoreInv

LEMMA BeginStore ==
  ASSUME StoreInv, TypeOK', NEW t \in Requests, NEW u \in Users, NEW call \in Calls,
         Begin(t, u, call)
  PROVE  StoreInv'
  <1>1. req'[t].phase = "call" /\ \A o \in Requests : o # t => req'[o] = req[o]
    BY DEF Begin, StoreInv, TypeOK
  <1> QED
    BY <1>1, RequestKeepsStore DEF Begin, Fetching

LEMMA FetchStore ==
  ASSUME StoreInv, TypeOK', NEW t \in Requests, Fetch(t)
  PROVE  StoreInv'
  <1>1. /\ req'[t].phase = "row" /\ req'[t].user = req[t].user /\ ~Loaded(User(t))
        /\ \A o \in Requests : o # t => req'[o] = req[o]
        /\ UNCHANGED <<store, row, applied, worker>>
    BY HasJob DEF Fetch, Goes, At, StoreInv, TypeOK, Job
  <1>2. /\ overlapped \subseteq overlapped'
        /\ (\E o \in Requests : Fetching(o) /\ User(o) = User(t)) => User(t) \in overlapped'
    BY DEF Fetch
  <1>3. NoUpdateLost'
    BY <1>1, <1>2 DEF StoreInv, NoUpdateLost, Loaded
  <1>4. OneFetch'
    <2> SUFFICES ASSUME NEW x \in Requests, Fetching(x)', User(x)' \notin overlapped'
                 PROVE  /\ ~Loaded(User(x))'
                        /\ \A o \in Requests : Fetching(o)' /\ User(o)' = User(x)' => o = x
      BY DEF OneFetch
    <2>1. CASE x = t
      BY <1>1, <1>2, <2>1 DEF Loaded, Fetching, User
    <2>2. CASE x # t
      <3>1. Fetching(x) /\ User(x)' = User(x) /\ User(x) \notin overlapped /\ User(x) # User(t)
        BY <1>1, <1>2, <2>2 DEF Fetching, User
      <3> QED
        BY <1>1, <3>1 DEF StoreInv, OneFetch, Loaded, Fetching, User
    <2> QED
      BY <2>1, <2>2
  <1>5. NothingElsewhere'
    BY <1>1, <1>2 DEF StoreInv, NothingElsewhere, Loaded, User
  <1> QED
    BY <1>3, <1>4, <1>5 DEF StoreInv

LEMMA InstallStore ==
  ASSUME StoreInv, TypeOK', NEW t \in Requests, Install(t)
  PROVE  StoreInv'
  <1> DEFINE u == User(t)
  <1>1. /\ req[t].phase = "install" /\ u \in Users /\ req[t].read \in Portfolio
        /\ store'[u] = req[t].read /\ req[t].read # NotLoaded
        /\ \A w \in Users : w # u => store'[w] = store[w]
        /\ req'[t].phase = "call"
        /\ \A o \in Requests : o # t => req'[o] = req[o]
        /\ UNCHANGED <<row, applied, overlapped, worker>>
    BY HasJob, NotLoadedIsNoPortfolio DEF Install, At, StoreInv, TypeOK
  <1>2. u \notin overlapped => /\ ~Loaded(u) /\ req[t].read.cash = row[u].cash
                               /\ row[u].cash = applied[u]
                               /\ \A o \in Requests : Fetching(o) /\ User(o) = u => o = t
    BY <1>1 DEF StoreInv, OneFetch, NothingElsewhere, Fetching
  <1> HIDE DEF u
  <1>3. NoUpdateLost'
    BY <1>1, <1>2 DEF StoreInv, NoUpdateLost, Loaded
  <1>4. OneFetch'
    <2> SUFFICES ASSUME NEW x \in Requests, Fetching(x)', User(x)' \notin overlapped'
                 PROVE  /\ ~Loaded(User(x))'
                        /\ \A o \in Requests : Fetching(o)' /\ User(o)' = User(x)' => o = x
      BY DEF OneFetch
    <2>1. x # t /\ Fetching(x) /\ User(x)' = User(x) /\ User(x) \notin overlapped /\ User(x) # u
      BY <1>1, <1>2 DEF Fetching, User
    <2>2. User(x) \in Users
      BY <2>1, HasJob DEF Fetching, StoreInv
    <2>3. ~Loaded(User(x)) /\ \A o \in Requests : Fetching(o) /\ User(o) = User(x) => o = x
      BY <2>1 DEF StoreInv, OneFetch
    <2> QED
      BY <1>1, <2>1, <2>2, <2>3 DEF Loaded, Fetching, User
  <1>5. NothingElsewhere'
    BY <1>1 DEF StoreInv, NothingElsewhere, Loaded, User
  <1> QED
    BY <1>3, <1>4, <1>5 DEF StoreInv

(* What an update does *)
LEMMA ApplyChanges ==
  ASSUME TypeOK, NEW t \in Requests, Apply(t)
  PROVE  LET u  == User(t)
             up == req[t].made
         IN  /\ req[t].phase = "call" /\ u \in Users /\ Loaded(u)
             /\ req'[t].phase = "schedule"
             /\ \A o \in Requests : o # t => req'[o] = req[o]
             /\ store[u] \in Portfolio /\ store'[u] \in Portfolio /\ store'[u] # NotLoaded
             /\ up \in Update
             /\ store'[u].cash = store[u].cash \cup {up}
             /\ store'[u].held = store[u].held + up[2]
             /\ applied'[u] = applied[u] \cup {up}
             /\ \A w \in Users : w # u => store'[w] = store[w] /\ applied'[w] = applied[w]
  <1>1. /\ req[t].phase = "call" /\ User(t) \in Users /\ Loaded(User(t))
        /\ req[t].made \in Update /\ store[User(t)] \in Portfolio
    BY HasJob DEF Apply, At, TypeOK, Loaded
  <1>2. req'[t].phase = "schedule" /\ \A o \in Requests : o # t => req'[o] = req[o]
    BY <1>1, HasJob DEF Apply, Goes, TypeOK, Job
  <1> DEFINE p == [cash |-> store[User(t)].cash \cup {req[t].made},
                   held |-> store[User(t)].held + req[t].made[2]]
  <1>3. p \in Portfolio
    BY <1>1 DEF Portfolio, Update
  <1>4. store' = [store EXCEPT ![User(t)] = p]
    BY DEF Apply
  <1>5. store'[User(t)] = p /\ \A w \in Users : w # User(t) => store'[w] = store[w]
    BY <1>1, <1>4 DEF TypeOK
  <1>6. /\ applied'[User(t)] = applied[User(t)] \cup {req[t].made}
        /\ \A w \in Users : w # User(t) => applied'[w] = applied[w]
    BY <1>1 DEF Apply, TypeOK
  <1> QED
    <2>1. /\ p # NotLoaded /\ p.cash = store[User(t)].cash \cup {req[t].made}
          /\ p.held = store[User(t)].held + req[t].made[2]
      BY <1>3, NotLoadedIsNoPortfolio
    <2> HIDE DEF p
    <2> QED
      BY <1>1, <1>2, <1>3, <1>5, <1>6, <2>1

LEMMA ApplyStore ==
  ASSUME StoreInv, TypeOK', NEW t \in Requests, Apply(t)
  PROVE  StoreInv'
  <1> DEFINE u == User(t)
             up == req[t].made
  <1>1. /\ req[t].phase = "call" /\ u \in Users /\ Loaded(u) /\ store'[u] # NotLoaded
        /\ req'[t].phase = "schedule"
        /\ \A o \in Requests : o # t => req'[o] = req[o]
        /\ UNCHANGED <<row, overlapped, worker>>
    BY ApplyChanges DEF Apply, StoreInv
  <1>2. /\ store'[u].cash = store[u].cash \cup {up} /\ applied'[u] = applied[u] \cup {up}
        /\ \A w \in Users : w # u => store'[w] = store[w] /\ applied'[w] = applied[w]
    BY ApplyChanges DEF StoreInv
  <1>3. \A w \in Users : Loaded(w)' => Loaded(w)
    BY <1>1, <1>2 DEF Loaded
  <1> HIDE DEF u, up
  <1>4. NoUpdateLost'
    <2> SUFFICES ASSUME NEW w \in Users \ overlapped
                 PROVE  (Loaded(w)' => store'[w].cash = applied'[w]) /\ row[w].cash \subseteq applied'[w]
      BY <1>1 DEF NoUpdateLost
    <2> QED
      BY <1>1, <1>2, <1>3 DEF StoreInv, NoUpdateLost
  <1>5. OneFetch'
    <2> SUFFICES ASSUME NEW x \in Requests, Fetching(x)', User(x)' \notin overlapped'
                 PROVE  /\ ~Loaded(User(x))'
                        /\ \A o \in Requests : Fetching(o)' /\ User(o)' = User(x)' => o = x
      BY DEF OneFetch
    <2>1. x # t /\ Fetching(x) /\ User(x)' = User(x) /\ User(x) \notin overlapped
      BY <1>1 DEF Fetching, User
    <2>2. User(x) \in Users
      BY <2>1, HasJob DEF Fetching, StoreInv
    <2>3. ~Loaded(User(x)) /\ \A o \in Requests : Fetching(o) /\ User(o) = User(x) => o = x
      BY <2>1 DEF StoreInv, OneFetch
    <2>4. ~Loaded(User(x))'
      BY <1>3, <2>1, <2>2, <2>3 DEF Loaded
    <2> QED
      BY <1>1, <2>1, <2>3, <2>4 DEF Fetching, User
  <1>6. NothingElsewhere'
    <2>1. \A w \in Users \ overlapped : ~Loaded(w)' => row[w].cash = applied'[w]
      BY <1>1, <1>2 DEF StoreInv, NothingElsewhere, Loaded
    <2>2. \A x \in Requests : /\ req'[x].phase \in {"positions", "install"}
                              /\ User(x)' \notin overlapped
                              => req'[x].read.cash = row[User(x)'].cash
      BY <1>1 DEF StoreInv, NothingElsewhere, User
    <2>3. worker.user \in Users \ overlapped => worker.value.cash \subseteq applied'[worker.user]
      BY <1>2 DEF StoreInv, NothingElsewhere
    <2> QED
      BY <1>1, <2>1, <2>2, <2>3 DEF NothingElsewhere
  <1> QED
    BY <1>4, <1>5, <1>6 DEF StoreInv

LEMMA RequestStore ==
  ASSUME StoreInv, TypeOK', NEW t \in Requests, Request(t)
  PROVE  StoreInv'
  <1>1. ASSUME Ends(t), UNCHANGED <<store, row, applied, overlapped, worker>>
        PROVE  StoreInv'
    <2>1. req'[t] = Idle /\ \A o \in Requests : o # t => req'[o] = req[o]
      BY <1>1 DEF Ends, StoreInv, TypeOK
    <2> QED
      BY <1>1, <2>1, RequestKeepsStore DEF Idle, Fetching
  <1>2. CASE ReadRow(t)
    <2>1. /\ req[t].phase = "row" /\ req'[t].phase = "positions" /\ req'[t].user = req[t].user
          /\ req'[t].read.cash = row[User(t)].cash
          /\ \A o \in Requests : o # t => req'[o] = req[o]
      BY <1>2, HasJob DEF ReadRow, At, StoreInv, TypeOK, Job, Portfolio
    <2> QED
      BY <1>2, <2>1, RequestKeepsStore DEF ReadRow, Fetching, User
  <1>3. CASE ReadPositions(t)
    <2>1. /\ req[t].phase = "positions" /\ req'[t].phase = "install" /\ req'[t].user = req[t].user
          /\ req'[t].read.cash = req[t].read.cash
          /\ \A o \in Requests : o # t => req'[o] = req[o]
      <3>1. req[t].phase = "positions" /\ req[t] \in Job /\ req[t].read \in Portfolio
        BY <1>3, HasJob DEF ReadPositions, At, StoreInv
      <3>2. CASE req' = [req EXCEPT ![t].phase = "install", ![t].read.held = row[User(t)].held]
        BY <3>1, <3>2 DEF StoreInv, TypeOK, Job, Portfolio
      <3>3. CASE Goes(t, "install")
        BY <3>1, <3>3 DEF Goes, StoreInv, TypeOK, Job
      <3> QED
        BY <1>3, <3>1, <3>2, <3>3 DEF ReadPositions
    <2>2. User(t) \notin overlapped => req[t].read.cash = row[User(t)].cash
      BY <2>1 DEF StoreInv, NothingElsewhere
    <2> QED
      BY <1>3, <2>1, <2>2, RequestKeepsStore DEF ReadPositions, Fetching, User
  <1>4. CASE ReleaseNothing(t)
    <2>1. req'[t].phase = "schedule" /\ \A o \in Requests : o # t => req'[o] = req[o]
      BY <1>4, HasJob DEF ReleaseNothing, Goes, At, StoreInv, TypeOK, Job
    <2> QED
      BY <1>4, <2>1, RequestKeepsStore DEF ReleaseNothing, Fetching
  <1> QED
    BY <1>1, <1>2, <1>3, <1>4, FetchStore, InstallStore, ApplyStore
    DEF Request, Look, FetchFails, ScheduleFlush

LEMMA WorkerStore ==
  ASSUME StoreInv, TypeOK', Worker
  PROVE  StoreInv'
  <1>1. ASSUME NEW u \in Users, Snapshot(u)
        PROVE  StoreInv'
    <2>1. CASE ~Loaded(u)
      <3>1. worker' = [worker EXCEPT !.todo = @ \ {u}]
        BY <1>1, <2>1 DEF Snapshot
      <3>2. worker'.user = worker.user /\ worker'.value = worker.value
        BY <3>1 DEF StoreInv, TypeOK, Flush
      <3> QED
        BY <1>1, <3>2, WorkerKeepsStore DEF Snapshot, StoreInv, NothingElsewhere
    <2>2. CASE Loaded(u)
      <3>1. worker' = [worker EXCEPT !.todo = @ \ {u}, !.user = u, !.value = store[u]]
        BY <1>1, <2>2 DEF Snapshot
      <3>2. worker'.user = u /\ worker'.value = store[u]
        BY <3>1 DEF StoreInv, TypeOK, Flush
      <3>3. u \notin overlapped => store[u].cash = applied[u]
        BY <2>2 DEF StoreInv, NoUpdateLost
      <3> QED
        BY <1>1, <3>2, <3>3, WorkerKeepsStore DEF Snapshot
    <2> QED
      BY <2>1, <2>2
  <1>2. CASE Write
    <2> DEFINE u == worker.user
    <2>1. /\ u \in Users /\ Loaded(u)
          /\ row'[u].cash = worker.value.cash /\ \A w \in Users : w # u => row'[w] = row[w]
          /\ worker'.user = NotLoaded /\ NotLoaded \notin Users
          /\ UNCHANGED <<store, req, applied, overlapped>>
      BY <1>2, StoreConstants DEF Write, AfterWrite, StoreInv, TypeOK, Flush
    <2>2. u \notin overlapped => worker.value.cash \subseteq applied[u]
      BY <2>1 DEF StoreInv, NothingElsewhere
    <2> HIDE DEF u
    <2>3. NoUpdateLost'
      BY <2>1, <2>2 DEF StoreInv, NoUpdateLost, Loaded
    <2>4. OneFetch'
      BY <2>1 DEF StoreInv, OneFetch, Loaded, Fetching, User
    <2>5. \A w \in Users \ overlapped : ~Loaded(w)' => row'[w].cash = applied[w]
      BY <2>1 DEF StoreInv, NothingElsewhere, Loaded
    <2>6. ASSUME NEW x \in Requests, req[x].phase \in {"positions", "install"},
                 User(x) \notin overlapped
          PROVE  req[x].read.cash = row'[User(x)].cash
      <3>1. User(x) \in Users /\ ~Loaded(User(x)) /\ req[x].read.cash = row[User(x)].cash
        BY <2>6, HasJob DEF StoreInv, OneFetch, NothingElsewhere, Fetching
      <3> QED
        BY <2>1, <3>1
    <2>7. NothingElsewhere'
      BY <2>1, <2>5, <2>6 DEF NothingElsewhere, Loaded, User
    <2> QED
      BY <2>3, <2>4, <2>7 DEF StoreInv
  <1>3. CASE WriteFails
    <2>1. worker'.user = NotLoaded /\ NotLoaded \notin Users
      BY <1>3, StoreConstants DEF WriteFails, AfterWrite, StoreInv, TypeOK, Flush
    <2> QED
      BY <1>3, <2>1, WorkerKeepsStore DEF WriteFails
  <1>4. CASE Receive \/ Tick \/ FlushAll \/ FlushEnds
    <2>1. /\ worker'.user = worker.user /\ worker'.value = worker.value
          /\ UNCHANGED <<store, row, applied, overlapped, req>>
      BY <1>4 DEF Receive, Tick, FlushAll, FlushEnds, StoreInv, TypeOK, Flush
    <2> QED
      BY <2>1, WorkerKeepsStore DEF StoreInv, NothingElsewhere
  <1> QED
    BY <1>1, <1>2, <1>3, <1>4 DEF Worker

(* After a restart everything is what the rows have. *)
LEMMA RestartStore ==
  ASSUME StoreInv, TypeOK', Restart
  PROVE  StoreInv'
  <1>1. /\ \A u \in Users : store'[u] = NotLoaded /\ applied'[u] = row[u].cash
        /\ \A t \in Requests : req'[t].phase = "idle"
        /\ worker'.user = NotLoaded /\ NotLoaded \notin Users
        /\ UNCHANGED <<row, overlapped>>
    BY StoreConstants DEF Restart, Idle, Quiet
  <1>2. NoUpdateLost' /\ NothingElsewhere'
    BY <1>1 DEF NoUpdateLost, NothingElsewhere, Loaded
  <1>3. OneFetch'
    BY <1>1 DEF OneFetch, Fetching
  <1> QED
    BY <1>2, <1>3 DEF StoreInv

LEMMA StepStore ==
  ASSUME StoreInv, [Next]_vars
  PROVE  StoreInv'
  <1>1. TypeOK'
    BY StepType DEF StoreInv
  <1>2. CASE Stop \/ UNCHANGED vars
    <2>1. UNCHANGED <<store, row, applied, overlapped, req, worker>>
      BY <1>2 DEF Stop, vars
    <2> QED
      BY <1>1, <2>1, WorkerKeepsStore DEF StoreInv, NothingElsewhere
  <1> QED
    BY <1>1, <1>2, BeginStore, RequestStore, WorkerStore, RestartStore DEF Next

LEMMA InitStore ==
  ASSUME Init
  PROVE  StoreInv
  <1>1. /\ \A u \in Users : store[u] = NotLoaded /\ row[u].cash = {} /\ applied[u] = {}
        /\ \A t \in Requests : req[t].phase = "idle"
        /\ worker.user = NotLoaded /\ NotLoaded \notin Users
    BY StoreConstants DEF Init, Idle, Quiet, Empty
  <1>2. NoUpdateLost /\ NothingElsewhere
    BY <1>1 DEF NoUpdateLost, NothingElsewhere, Loaded
  <1>3. OneFetch
    BY <1>1 DEF OneFetch, Fetching
  <1> QED
    BY <1>2, <1>3, InitType DEF StoreInv

LEMMA StoreInvAlways == Spec => []StoreInv
  <1>1. Init => StoreInv
    BY InitStore
  <1>2. StoreInv /\ [Next]_vars => StoreInv'
    BY StepStore
  <1> QED
    BY <1>1, <1>2, PTL DEF Spec

(* Unless two requests have fetched a user's portfolio at the same time, the *)
(* portfolio in memory has gone through exactly the updates that were        *)
(* applied, and its row never has one that was not, whatever fails and       *)
(* whenever the server restarts.                                             *)
THEOREM NoUpdateIsLost == Spec => []NoUpdateLost
  BY StoreInvAlways, PTL DEF StoreInv

-----------------------------------------------------------------------------
(* Cash and positions agree *)

LEMMA UpdateIsFinite == IsFiniteSet(Update)
  <1>1. IsFiniteSet(1..MaxCalls)
    BY FS_Interval, StoreConstants
  <1>2. IsFiniteSet({-1, 0, 1})
    <2>1. IsFiniteSet({0})
      BY FS_Singleton
    <2>2. IsFiniteSet({0} \cup {1})
      BY <2>1, FS_AddElement
    <2>3. IsFiniteSet(({0} \cup {1}) \cup {-1})
      BY <2>2, FS_AddElement
    <2>4. {-1, 0, 1} = ({0} \cup {1}) \cup {-1}
      OBVIOUS
    <2> QED
      BY <2>3, <2>4
  <1> QED
    BY <1>1, <1>2, FS_Product DEF Update

LEMMA MovesType ==
  ASSUME NEW cash \in SUBSET Update, NEW d
  PROVE  IsFiniteSet(Moves(cash, d)) /\ Cardinality(Moves(cash, d)) \in Nat
  <1>1. Moves(cash, d) \subseteq Update
    BY DEF Moves
  <1> QED
    BY <1>1, UpdateIsFinite, FS_Subset, FS_CardinalityType

(* One update more moves the position by what the update says. *)
LEMMA NetOfOneMore ==
  ASSUME NEW cash \in SUBSET Update, NEW up \in Update, \A v \in cash : v[1] # up[1]
  PROVE  Net(cash) \in Int /\ Net(cash \cup {up}) = Net(cash) + up[2]
  <1>1. up \notin cash /\ up[2] \in {-1, 0, 1}
    BY DEF Update
  <1>2. ASSUME NEW d \in {-1, 1}
        PROVE  Cardinality(Moves(cash \cup {up}, d))
                 = Cardinality(Moves(cash, d)) + (IF up[2] = d THEN 1 ELSE 0)
    <2>1. CASE up[2] = d
      <3>1. Moves(cash \cup {up}, d) = Moves(cash, d) \cup {up} /\ up \notin Moves(cash, d)
        BY <1>1, <2>1 DEF Moves
      <3> QED
        BY <2>1, <3>1, MovesType, FS_AddElement
    <2>2. CASE up[2] # d
      <3>1. Moves(cash \cup {up}, d) = Moves(cash, d)
        BY <2>2 DEF Moves
      <3> QED
        BY <2>2, <3>1, MovesType
    <2> QED
      BY <2>1, <2>2
  <1>3. Cardinality(Moves(cash, 1)) \in Nat /\ Cardinality(Moves(cash, -1)) \in Nat
    BY MovesType
  <1> QED
    BY <1>1, <1>2, <1>3 DEF Net

LEMMA NetOfNone == Net({}) = 0
  <1>1. Moves({}, 1) = {} /\ Moves({}, -1) = {}
    BY DEF Moves
  <1> QED
    BY <1>1, FS_EmptySet DEF Net

(* A step that makes no update and begins no call: what is kept was kept     *)
(* before, or is empty.                                                      *)
LEMMA NoUpdateStep ==
  ASSUME NewNumbers, calls' = calls, Kept' \subseteq Kept \cup {{}},
         \A t \in Requests : ToMake(t)' => ToMake(t) /\ Number(t)' = Number(t)
  PROVE  NewNumbers'
  BY DEF NewNumbers

LEMMA BeginNumbers ==
  ASSUME StoreInv, NewNumbers, NEW t \in Requests, NEW u \in Users, NEW call \in Calls,
         Begin(t, u, call)
  PROVE  NewNumbers'
  <1>1. /\ calls \in Nat /\ calls' = calls + 1
        /\ Number(t)' = calls + 1 /\ req'[t].read.cash = {}
        /\ \A o \in Requests : o # t => req'[o] = req[o]
        /\ UNCHANGED <<store, row, worker>>
    BY DEF Begin, StoreInv, TypeOK, Number, Empty
  <1>2. Kept' \subseteq Kept \cup {{}}
    BY <1>1 DEF Kept, Loaded, ToMake
  <1>3. \A cash \in Kept : \A up \in cash : up[1] \in Int
    BY HasJob DEF Kept, StoreInv, TypeOK, Portfolio, Flush, Update, Loaded, ToMake
  <1>4. \A o \in Requests : ToMake(o) => Number(o) \in Int
    BY HasJob DEF Number, ToMake, StoreInv, Update
  <1>5. \A o \in Requests : o # t => (ToMake(o)' <=> ToMake(o)) /\ Number(o)' = Number(o)
    BY <1>1 DEF ToMake, Number
  <1> QED
    BY <1>1, <1>2, <1>3, <1>4, <1>5 DEF NewNumbers

LEMMA ApplyNumbers ==
  ASSUME StoreInv, NewNumbers, NEW t \in Requests, Apply(t)
  PROVE  NewNumbers'
  <1> DEFINE u == User(t)
             up == req[t].made
  <1>1. /\ u \in Users /\ Loaded(u) /\ store'[u].cash = store[u].cash \cup {up}
        /\ \A w \in Users : w # u => store'[w] = store[w]
        /\ ToMake(t) /\ Number(t) = up[1] /\ ~ToMake(t)'
        /\ \A o \in Requests : o # t => req'[o] = req[o]
        /\ UNCHANGED <<row, worker, calls>>
    BY ApplyChanges DEF Apply, StoreInv, ToMake, Number
  <1> HIDE DEF u, up
  <1>2. Kept' \subseteq Kept \cup {store[u].cash \cup {up}} /\ store[u].cash \in Kept
    BY <1>1 DEF Kept, Loaded, ToMake
  <1>3. \A o \in Requests : ToMake(o)' => o # t /\ ToMake(o) /\ Number(o)' = Number(o)
    BY <1>1 DEF ToMake, Number
  <1>4. ASSUME NEW cash \in Kept', NEW v \in cash
        PROVE  v[1] <= calls /\ \A o \in Requests : ToMake(o)' => v[1] # Number(o)'
    <2>1. (\E c \in Kept : v \in c) \/ v = up
      BY <1>2, <1>4
    <2> QED
      BY <1>1, <1>3, <2>1 DEF NewNumbers
  <1> QED
    BY <1>1, <1>3, <1>4 DEF NewNumbers

(* A request goes on with what it had read, or with a row's cash. *)
LEMMA ReadNumbers ==
  ASSUME StoreInv, NewNumbers, NEW t \in Requests, UNCHANGED <<store, row, worker, calls>>,
         \A o \in Requests : o # t => req'[o] = req[o],
         ToMake(t)' => /\ ToMake(t) /\ req'[t].made = req[t].made
                       /\ req'[t].read.cash \in Kept \cup {{}}
  PROVE  NewNumbers'
  <1>1. Kept' \subseteq Kept \cup {{}}
    BY DEF Kept, Loaded, ToMake
  <1>2. \A o \in Requests : ToMake(o)' => ToMake(o) /\ Number(o)' = Number(o)
    BY DEF ToMake, Number
  <1> QED
    BY <1>1, <1>2, NoUpdateStep

LEMMA RequestNumbers ==
  ASSUME StoreInv, NewNumbers, NEW t \in Requests, Request(t)
  PROVE  NewNumbers'
  <1> USE DEF At
  <1>1. ASSUME ToMake(t)
        PROVE  req[t] \in Job /\ req[t].read \in Portfolio /\ req[t].read.cash \in Kept
    BY <1>1, HasJob DEF ToMake, StoreInv, Kept
  <1>2. ASSUME Ends(t), UNCHANGED <<store, row, worker, calls>>
        PROVE  NewNumbers'
    <2>1. req'[t].phase = "idle" /\ \A o \in Requests : o # t => req'[o] = req[o]
      BY <1>2 DEF Ends, Idle, StoreInv, TypeOK
    <2> QED
      BY <1>2, <2>1, ReadNumbers DEF ToMake
  <1>3. CASE Fetch(t)
    <2>1. /\ ToMake(t) /\ req'[t].made = req[t].made /\ req'[t].read = req[t].read
          /\ \A o \in Requests : o # t => req'[o] = req[o]
      BY <1>1, <1>3 DEF Fetch, Goes, ToMake, StoreInv, TypeOK, Job
    <2> QED
      BY <1>1, <1>3, <2>1, ReadNumbers DEF Fetch
  <1>4. CASE ReadRow(t)
    <2>1. /\ ToMake(t) /\ User(t) \in Users
      BY <1>4, HasJob DEF ReadRow, ToMake, StoreInv
    <2>2. /\ req'[t].made = req[t].made /\ req'[t].read.cash = row[User(t)].cash
          /\ \A o \in Requests : o # t => req'[o] = req[o]
      BY <1>1, <1>4, <2>1 DEF ReadRow, StoreInv, TypeOK, Job, Portfolio
    <2>3. row[User(t)].cash \in Kept
      BY <2>1 DEF Kept
    <2> QED
      BY <1>4, <2>1, <2>2, <2>3, ReadNumbers DEF ReadRow
  <1>5. CASE ReadPositions(t)
    <2>1. ToMake(t)
      BY <1>5 DEF ReadPositions, ToMake
    <2>2. /\ req'[t].made = req[t].made /\ req'[t].read.cash = req[t].read.cash
          /\ \A o \in Requests : o # t => req'[o] = req[o]
      <3>1. CASE req' = [req EXCEPT ![t].phase = "install", ![t].read.held = row[User(t)].held]
        BY <1>1, <2>1, <3>1 DEF StoreInv, TypeOK, Job, Portfolio
      <3>2. CASE Goes(t, "install")
        BY <1>1, <2>1, <3>2 DEF Goes, StoreInv, TypeOK, Job
      <3> QED
        BY <1>5, <3>1, <3>2 DEF ReadPositions
    <2> QED
      BY <1>1, <1>5, <2>1, <2>2, ReadNumbers DEF ReadPositions
  <1>6. CASE Install(t)
    <2>1. ToMake(t) /\ User(t) \in Users
      BY <1>6, HasJob DEF Install, ToMake, StoreInv
    <2>2. /\ req'[t].made = req[t].made /\ req'[t].read.cash = {} /\ Number(t)' = Number(t)
          /\ \A o \in Requests : o # t => req'[o] = req[o]
      BY <1>1, <1>6, <2>1 DEF Install, StoreInv, TypeOK, Job, Empty, Number
    <2>3. store'[User(t)] = req[t].read /\ \A w \in Users : w # User(t) => store'[w] = store[w]
      BY <1>6, <2>1 DEF Install, StoreInv, TypeOK
    <2>4. UNCHANGED <<row, worker, calls>>
      BY <1>6 DEF Install
    <2>5. Kept' \subseteq Kept \cup {{}}
      <3>1. \A w \in Users : Loaded(w)' => store'[w].cash \in Kept
        BY <1>1, <2>1, <2>3 DEF Loaded, Kept
      <3>2. \A o \in Requests : ToMake(o)' => req'[o].read.cash \in Kept \cup {{}}
        BY <2>2 DEF ToMake, Kept
      <3> HIDE DEF Kept
      <3> QED
        BY <2>4, <3>1, <3>2 DEF Kept
    <2>6. \A o \in Requests : ToMake(o)' => ToMake(o) /\ Number(o)' = Number(o)
      BY <2>1, <2>2 DEF ToMake, Number
    <2> QED
      BY <2>4, <2>5, <2>6, NoUpdateStep
  <1>7. CASE ReleaseNothing(t)
    <2>1. /\ ToMake(t) /\ req'[t].phase = "schedule"
          /\ \A o \in Requests : o # t => req'[o] = req[o]
      BY <1>1, <1>7 DEF ReleaseNothing, Goes, ToMake, StoreInv, TypeOK, Job
    <2> QED
      BY <1>7, <2>1, ReadNumbers DEF ReleaseNothing, ToMake
  <1> QED
    BY <1>2, <1>3, <1>4, <1>5, <1>6, <1>7, ApplyNumbers
    DEF Request, Look, FetchFails, ScheduleFlush

LEMMA WorkerNumbers ==
  ASSUME StoreInv, NewNumbers, Worker
  PROVE  NewNumbers'
  <1>1. UNCHANGED <<store, req, calls>>
    BY DEF Worker, Receive, Tick, FlushAll, Snapshot, Write, WriteFails, FlushEnds
  <1>2. worker'.value.cash \in Kept \cup {{}}
    <2>1. worker.value.cash \in Kept
      BY DEF Kept
    <2>2. CASE worker'.value = worker.value
      BY <2>1, <2>2
    <2>3. ASSUME NEW u \in Users, Snapshot(u)
          PROVE  worker'.value.cash \in Kept
      <3>1. CASE Loaded(u)
        <4>1. worker'.value = store[u] /\ store[u].cash \in Kept
          BY <2>3, <3>1 DEF Snapshot, Kept, StoreInv, TypeOK, Flush
        <4> QED
          BY <4>1
      <3>2. CASE ~Loaded(u)
        BY <2>1, <2>3, <3>2 DEF Snapshot, StoreInv, TypeOK, Flush
      <3> QED
        BY <3>1, <3>2
    <2>4. CASE AfterWrite
      BY <2>4 DEF AfterWrite, Empty, StoreInv, TypeOK, Flush
    <2>5. CASE Receive \/ Tick \/ FlushAll \/ FlushEnds
      BY <2>2, <2>5 DEF Receive, Tick, FlushAll, FlushEnds, StoreInv, TypeOK, Flush
    <2> QED
      BY <2>3, <2>4, <2>5 DEF Worker, Write, WriteFails
  <1>3. \A u \in Users : row'[u].cash \in Kept
    <2>1. CASE Write
      BY <2>1 DEF Write, Kept, StoreInv, TypeOK, Flush
    <2>2. CASE row' = row
      BY <2>2 DEF Kept
    <2> QED
      BY <2>1, <2>2 DEF Worker, Receive, Tick, FlushAll, Snapshot, WriteFails, FlushEnds
  <1>4. \A u \in Users : Loaded(u) => store[u].cash \in Kept
    BY DEF Kept
  <1>5. \A t \in Requests : ToMake(t) => req[t].read.cash \in Kept
    BY DEF Kept
  <1>6. Kept' \subseteq Kept \cup {{}}
    BY <1>1, <1>2, <1>3, <1>4, <1>5 DEF Kept, Loaded, ToMake
  <1> QED
    BY <1>1, <1>6, NoUpdateStep DEF ToMake, Number

LEMMA StepNumbers ==
  ASSUME StoreInv, NewNumbers, [Next]_vars
  PROVE  NewNumbers'
  <1>1. CASE Stop \/ UNCHANGED vars
    <2>1. UNCHANGED <<store, row, worker, req, calls>>
      BY <1>1 DEF Stop, vars
    <2>2. Kept' = Kept /\ \A t \in Requests : (ToMake(t)' <=> ToMake(t)) /\ Number(t)' = Number(t)
      BY <2>1 DEF Kept, Loaded, ToMake, Number
    <2> QED
      BY <2>1, <2>2, NoUpdateStep
  <1>2. CASE Restart
    <2>1. /\ \A t \in Requests : ~ToMake(t)'
          /\ \A u \in Users : ~Loaded(u)'
          /\ worker'.value.cash = {} /\ UNCHANGED <<row, calls>>
      BY <1>2 DEF Restart, Idle, Quiet, Empty, ToMake, Loaded
    <2>2. Kept' \subseteq Kept \cup {{}}
      BY <2>1 DEF Kept
    <2> QED
      BY <2>1, <2>2, NoUpdateStep
  <1> QED
    BY <1>1, <1>2, BeginNumbers, RequestNumbers, WorkerNumbers DEF Next

(* A step that leaves what is in memory, in the rows and being written, and  *)
(* what is asked of it.                                                      *)
LEMMA AgreementStep ==
  ASSUME WorkerAgrees, CashAndPositionsAgree, UNCHANGED <<store, row>>,
         overlapped \subseteq overlapped', mismatched \subseteq mismatched',
         \/ worker'.user = NotLoaded
         \/ worker'.user = worker.user /\ worker'.value = worker.value
  PROVE  WorkerAgrees' /\ CashAndPositionsAgree'
  <1>1. CashAndPositionsAgree'
    BY DEF CashAndPositionsAgree, Loaded
  <1>2. WorkerAgrees'
    BY StoreConstants DEF WorkerAgrees
  <1> QED
    BY <1>1, <1>2

LEMMA InstallAgrees ==
  ASSUME StoreInv, WorkerAgrees, CashAndPositionsAgree, NEW t \in Requests, Install(t)
  PROVE  WorkerAgrees' /\ CashAndPositionsAgree'
  <1>1. User(t) \in Users
    BY HasJob DEF Install, At, StoreInv
  <1>2. /\ store'[User(t)] = req[t].read /\ \A w \in Users : w # User(t) => store'[w] = store[w]
        /\ mismatched \subseteq mismatched' /\ (User(t) \in mismatched' \/ Agrees(req[t].read))
        /\ UNCHANGED <<row, worker, overlapped>>
    BY <1>1 DEF Install, StoreInv, TypeOK
  <1>3. CashAndPositionsAgree'
    BY <1>1, <1>2 DEF CashAndPositionsAgree, Loaded
  <1>4. WorkerAgrees'
    BY <1>2 DEF WorkerAgrees
  <1> QED
    BY <1>3, <1>4

LEMMA ApplyAgrees ==
  ASSUME StoreInv, NewNumbers, WorkerAgrees, CashAndPositionsAgree, NEW t \in Requests, Apply(t)
  PROVE  WorkerAgrees' /\ CashAndPositionsAgree'
  <1> DEFINE u == User(t)
             up == req[t].made
  <1>1. /\ u \in Users /\ Loaded(u) /\ store[u] \in Portfolio /\ up \in Update
        /\ store'[u].cash = store[u].cash \cup {up} /\ store'[u].held = store[u].held + up[2]
        /\ \A w \in Users : w # u => store'[w] = store[w]
        /\ ToMake(t) /\ Number(t) = up[1]
        /\ UNCHANGED <<row, worker, overlapped, mismatched>>
    BY ApplyChanges DEF Apply, StoreInv, ToMake, Number
  <1> HIDE DEF u, up
  <1>2. store[u].cash \in SUBSET Update /\ store[u].cash \in Kept
    BY <1>1 DEF Kept, Portfolio
  <1>3. \A v \in store[u].cash : v[1] # up[1]
    BY <1>1, <1>2 DEF NewNumbers
  <1>4. /\ Net(store[u].cash \cup {up}) = Net(store[u].cash) + up[2]
        /\ Net(store[u].cash) \in Int
    BY <1>1, <1>2, <1>3, NetOfOneMore
  <1>5. Agrees(store[u]) => Agrees(store'[u])
    BY <1>1, <1>4 DEF Agrees
  <1>6. CashAndPositionsAgree'
    BY <1>1, <1>5 DEF CashAndPositionsAgree, Loaded
  <1>7. WorkerAgrees'
    BY <1>1 DEF WorkerAgrees
  <1> QED
    BY <1>6, <1>7

LEMMA RequestAgrees ==
  ASSUME StoreInv, NewNumbers, WorkerAgrees, CashAndPositionsAgree, NEW t \in Requests, Request(t)
  PROVE  WorkerAgrees' /\ CashAndPositionsAgree'
  <1>1. CASE Look(t) \/ Fetch(t) \/ ReadRow(t) \/ ReadPositions(t) \/ FetchFails(t)
             \/ ReleaseNothing(t) \/ ScheduleFlush(t)
    <2>1. UNCHANGED <<store, row, worker, mismatched>> /\ overlapped \subseteq overlapped'
      BY <1>1 DEF Look, Fetch, ReadRow, ReadPositions, FetchFails, ReleaseNothing, ScheduleFlush
    <2> QED
      BY <2>1, AgreementStep
  <1> QED
    BY <1>1, InstallAgrees, ApplyAgrees DEF Request

(* The worker writes the position with the cash, except that of a position   *)
(* that is gone.                                                             *)
LEMMA WorkerStepAgrees ==
  ASSUME StoreInv, WorkerAgrees, CashAndPositionsAgree, Worker
  PROVE  WorkerAgrees' /\ CashAndPositionsAgree'
  <1>1. ASSUME NEW u \in Users, Snapshot(u)
        PROVE  WorkerAgrees' /\ CashAndPositionsAgree'
    <2>1. UNCHANGED <<store, row, overlapped, mismatched>>
      BY <1>1 DEF Snapshot
    <2>2. CASE Loaded(u)
      <3>1. worker'.user = u /\ worker'.value = store[u]
        BY <1>1, <2>2 DEF Snapshot, StoreInv, TypeOK, Flush
      <3>2. CashAndPositionsAgree'
        BY <2>1 DEF CashAndPositionsAgree, Loaded
      <3>3. WorkerAgrees'
        BY <2>1, <2>2, <3>1 DEF WorkerAgrees, CashAndPositionsAgree
      <3> QED
        BY <3>2, <3>3
    <2>3. CASE ~Loaded(u)
      <3>1. worker'.user = worker.user /\ worker'.value = worker.value
        BY <1>1, <2>3 DEF Snapshot, StoreInv, TypeOK, Flush
      <3> QED
        BY <2>1, <3>1, AgreementStep
    <2> QED
      BY <2>2, <2>3
  <1>2. CASE Write
    <2> DEFINE u == worker.user
               v == worker.value
    <2>1. /\ u \in Users /\ v \in Portfolio
          /\ row'[u].cash = v.cash /\ (v.held # 0 => row'[u].held = v.held)
          /\ \A w \in Users : w # u => row'[w] = row[w]
          /\ worker'.user = NotLoaded /\ NotLoaded \notin Users
          /\ UNCHANGED <<store, overlapped, mismatched>>
      BY <1>2, StoreConstants DEF Write, AfterWrite, StoreInv, TypeOK, Flush
    <2>2. Agrees(v) => Agrees(row'[u]) \/ Net(row'[u].cash) = 0
      BY <2>1 DEF Agrees
    <2>3. u \notin overlapped \cup mismatched => Agrees(v)
      BY <2>1 DEF WorkerAgrees
    <2> HIDE DEF u, v
    <2>4. CashAndPositionsAgree'
      BY <2>1, <2>2, <2>3 DEF CashAndPositionsAgree, Loaded
    <2>5. WorkerAgrees'
      BY <2>1 DEF WorkerAgrees
    <2> QED
      BY <2>4, <2>5
  <1>3. CASE WriteFails
    <2>1. worker'.user = NotLoaded
      BY <1>3 DEF WriteFails, AfterWrite, StoreInv, TypeOK, Flush
    <2> QED
      BY <1>3, <2>1, AgreementStep DEF WriteFails
  <1>4. CASE Receive \/ Tick \/ FlushAll \/ FlushEnds
    <2>1. /\ worker'.user = worker.user /\ worker'.value = worker.value
          /\ UNCHANGED <<store, row, overlapped, mismatched>>
      BY <1>4 DEF Receive, Tick, FlushAll, FlushEnds, StoreInv, TypeOK, Flush
    <2> QED
      BY <2>1, AgreementStep
  <1> QED
    BY <1>1, <1>2, <1>3, <1>4 DEF Worker

LEMMA StepAgrees ==
  ASSUME AgreeInv, [Next]_vars
  PROVE  AgreeInv'
  <1>1. StoreInv' /\ NewNumbers'
    BY StepStore, StepNumbers DEF AgreeInv
  <1>2. CASE Stop \/ UNCHANGED vars
    <2>1. UNCHANGED <<store, row, worker, overlapped, mismatched>>
      BY <1>2 DEF Stop, vars
    <2> QED
      BY <1>1, <2>1, AgreementStep DEF AgreeInv
  <1>3. CASE Restart
    <2>1. /\ \A u \in Users : ~Loaded(u)'
          /\ worker'.user = NotLoaded /\ NotLoaded \notin Users
          /\ UNCHANGED <<row, overlapped, mismatched>>
      BY <1>3, StoreConstants DEF Restart, Quiet, Loaded
    <2>2. CashAndPositionsAgree'
      BY <2>1 DEF AgreeInv, CashAndPositionsAgree
    <2>3. WorkerAgrees'
      BY <2>1 DEF WorkerAgrees
    <2> QED
      BY <1>1, <2>2, <2>3 DEF AgreeInv
  <1>4. ASSUME NEW t \in Requests, NEW u \in Users, NEW call \in Calls, Begin(t, u, call)
        PROVE  AgreeInv'
    BY <1>1, <1>4, AgreementStep DEF AgreeInv, Begin
  <1>5. ASSUME NEW t \in Requests, Request(t)
        PROVE  AgreeInv'
    BY <1>1, <1>5, RequestAgrees DEF AgreeInv
  <1>6. CASE Worker
    BY <1>1, <1>6, WorkerStepAgrees DEF AgreeInv
  <1> QED
    BY <1>2, <1>3, <1>4, <1>5, <1>6 DEF Next

LEMMA InitAgrees ==
  ASSUME Init
  PROVE  AgreeInv
  <1>1. /\ \A u \in Users : ~Loaded(u) /\ row[u].cash = {}
        /\ worker.user = NotLoaded /\ worker.value.cash = {} /\ NotLoaded \notin Users
        /\ \A t \in Requests : ~ToMake(t)
    BY StoreConstants DEF Init, Quiet, Empty, Idle, ToMake, Loaded
  <1>2. NewNumbers
    BY <1>1 DEF NewNumbers, Kept
  <1>3. WorkerAgrees /\ CashAndPositionsAgree
    BY <1>1, NetOfNone DEF WorkerAgrees, CashAndPositionsAgree
  <1> QED
    BY <1>2, <1>3, InitStore DEF AgreeInv

(* Of a user whose portfolio was never fetched twice at a time, and never    *)
(* with a position that is not its cash's, the position in memory is what    *)
(* the cash says, and so is the row's, unless the position was closed.       *)
THEOREM CashAndPositionsAlwaysAgree == Spec => []CashAndPositionsAgree
  <1>1. Init => AgreeInv
    BY InitAgrees
  <1>2. AgreeInv /\ [Next]_vars => AgreeInv'
    BY StepAgrees
  <1>3. AgreeInv => CashAndPositionsAgree
    BY DEF AgreeInv
  <1> QED
    BY <1>1, <1>2, <1>3, PTL DEF Spec

=============================================================================
