----------------------------- MODULE EventPipeline -----------------------------
(***************************************************************************)
(* The way of trades, order updates and candles of one symbol through the  *)
(* Redis streams to the database: the consumers of the Go server, with the *)
(* candle builder and the repositories as their handlers.                  *)
(*                                                                         *)
(* A stream is the sequence of its messages; a consumer group has what it  *)
(* has been delivered and what it has not acknowledged.  Redis and         *)
(* PostgreSQL keep what they have; the server can crash at any moment (it  *)
(* ends like that at a shutdown, too: the consumers' context is never      *)
(* cancelled), and writes and acknowledgements can fail.                   *)
(***************************************************************************)
EXTENDS Integers, SequencesExt

CONSTANTS Seconds,     \* the seconds in which trades are executed
          MaxTrades, MaxOrders, \* bounds on the published messages
          ReadCount,   \* messages that consumeStream reads at a time
          BatchSize,   \* CandleWriter.batchSize, of which that consumer reads as many
          MaxFailures, \* bound on crashes, failed writes, failed acknowledgements ...
          Deployments, \* sets of consumers that are looked at together
          NoCandle     \* the candle builder has no open candle

Consumers == {"candle-builder", "trade-writer", "order-writer", "candle-writer"}

ASSUME PipelineConstants ==
  /\ Seconds \subseteq Nat
  /\ MaxTrades \in Nat /\ MaxOrders \in Nat /\ MaxFailures \in Nat
  /\ ReadCount \in Nat \ {0} /\ BatchSize \in Nat \ {0}
  /\ Deployments \subseteq SUBSET Consumers

VARIABLES
  stream,    \* stream -> its messages
  delivered, \* consumer -> number of messages its group has been delivered
  pending,   \* consumer -> the messages delivered and not acknowledged
  at,        \* consumer -> where its goroutine is
  open,      \* the candle builder's open candle
  written,   \* writer -> the messages whose rows it has put into the database
  rows,      \* candles: second -> the trades the row's volume counts
  deployed,  \* the consumers of this behaviour
  failures,  \* number of failures so far
  steady,    \* history: nothing has failed since the last start
  disturbed  \* history: the server has crashed, or a reply of Redis was lost

vars == <<stream, delivered, pending, at, open, written, rows, deployed,
          failures, steady, disturbed>>

Of(c)   == CASE c = "order-writer" -> "orders"
             [] c = "candle-writer" -> "candles"
             [] OTHER -> "trades"
Writers == Consumers \ {"candle-builder"}

(* A trade is its second, a candle has the numbers of the trades it counts. *)
Candle == [second: Seconds, trades: Seq(1..MaxTrades)]

ASSUME NoCandleIsNoCandle == NoCandle \notin Candle

(* What a consumer has read and not handled yet is a set of messages: it     *)
(* reads them in the order of the stream, and handles them in that order.    *)
Down == [phase |-> "down", cursor |-> 0, batch |-> {}]

Init == /\ stream = [trades |-> <<>>, orders |-> <<>>, candles |-> <<>>]
        /\ delivered = [c \in Consumers |-> 0]
        /\ pending = [c \in Consumers |-> {}]
        /\ at = [c \in Consumers |-> Down]
        /\ open = NoCandle
        /\ written = [c \in Writers |-> {}]
        /\ rows = [s \in Seconds |-> <<>>]
        /\ deployed \in Deployments
        /\ failures = 0
        /\ steady = FALSE
        /\ disturbed = FALSE

-----------------------------------------------------------------------------
Up == \E c \in deployed : at[c].phase # "down"

Fails == /\ failures < MaxFailures
         /\ failures' = failures + 1
         /\ steady' = FALSE
Works == UNCHANGED <<failures, steady>>

Start == /\ ~Up
         /\ at' = [c \in Consumers |-> IF c \in deployed THEN [Down EXCEPT !.phase = "drain"]
                                       ELSE Down]
         /\ steady' = TRUE
         /\ UNCHANGED <<stream, delivered, pending, open, written, rows, deployed,
                        failures, disturbed>>

(* Everything in memory is lost: read batches and the open candle. *)
Crash == /\ Up
         /\ Fails
         /\ at' = [c \in Consumers |-> Down]
         /\ open' = NoCandle
         /\ disturbed' = TRUE
         /\ UNCHANGED <<stream, delivered, pending, written, rows, deployed>>

(* onTrade and the handlers publish while the server is up.  One generator  *)
(* publishes a symbol's trades, so that their times are in order.           *)
PublishTrade(sec) ==
  /\ Up
  /\ Len(stream["trades"]) < MaxTrades
  /\ \A i \in DOMAIN stream["trades"] : stream["trades"][i] <= sec
  /\ stream' = [stream EXCEPT !["trades"] = Append(@, sec)]
  /\ UNCHANGED <<delivered, pending, at, open, written, rows, deployed,
                 failures, steady, disturbed>>

PublishOrderUpdate ==
  /\ Up
  /\ "order-writer" \in deployed
  /\ Len(stream["orders"]) < MaxOrders
  /\ stream' = [stream EXCEPT !["orders"] = Append(@, 0)]
  /\ UNCHANGED <<delivered, pending, at, open, written, rows, deployed,
                 failures, steady, disturbed>>

-----------------------------------------------------------------------------
(* Reading.  A start first drains the pending messages from the oldest on,  *)
(* each once; then only new messages are read.                              *)

AtOnce(c) == IF c = "candle-writer" THEN BatchSize ELSE ReadCount

Smallest(n, S) == {m \in S : Cardinality({k \in S : k < m}) < n}

(* The consumers that handle message by message finish what they have read  *)
(* first; the batch consumer reads on until its batch is full.              *)
MayRead(c) == IF c = "candle-writer" THEN Cardinality(at[c].batch) < BatchSize ELSE at[c].batch = {}

\* Mutant of Left: the message at the cursor is read again.
LeftFromCursor(c) == {m \in pending[c] : m >= at[c].cursor}

\* Mutant of Left: acknowledged messages are read again.
LeftInStream(c) == {m \in 1..delivered[c] : m > at[c].cursor}

Left(c) == {m \in pending[c] : m > at[c].cursor}

Drain(c) ==
  LET read == Smallest(AtOnce(c), Left(c))
  IN  /\ at[c].phase = "drain"
      /\ MayRead(c)
      /\ Left(c) # {}
      /\ at' = [at EXCEPT ![c].batch = @ \cup read, ![c].cursor = Max(read)]
      /\ UNCHANGED <<stream, delivered, pending, open, written, rows, deployed,
                     failures, steady, disturbed>>

(* The drain ends when nothing is left, and also when a read fails. *)
DrainEnds(c) ==
  /\ at[c].phase = "drain"
  /\ at[c].batch = {}
  /\ \/ Left(c) = {} /\ Works
     \/ Left(c) # {} /\ Fails
  /\ at' = [at EXCEPT ![c].phase = "poll"]
  /\ UNCHANGED <<stream, delivered, pending, open, written, rows, deployed, disturbed>>

(* Without its group a consumer's goroutine ends. *)
GroupFails(c) ==
  /\ at[c] = [Down EXCEPT !.phase = "drain"]
  /\ Fails
  /\ at' = [at EXCEPT ![c].phase = "ended"]
  /\ UNCHANGED <<stream, delivered, pending, open, written, rows, deployed, disturbed>>

(* New messages are delivered: they are pending from then on, also when the *)
(* reply does not arrive.                                                   *)
Poll(c) ==
  LET upto == Min({delivered[c] + AtOnce(c), Len(stream[Of(c)])})
      new  == (delivered[c] + 1)..upto
  IN  /\ at[c].phase = "poll"
      /\ MayRead(c)
      /\ new # {}
      /\ delivered' = [delivered EXCEPT ![c] = upto]
      /\ pending' = [pending EXCEPT ![c] = @ \cup new]
      /\ \/ /\ at' = [at EXCEPT ![c].batch = @ \cup new]
            /\ Works
            /\ UNCHANGED disturbed
         \/ /\ Fails
            /\ disturbed' = TRUE
            /\ UNCHANGED at
      /\ UNCHANGED <<stream, open, written, rows, deployed>>

-----------------------------------------------------------------------------
(* Handling *)

Message(c) == Min(at[c].batch)
HasMessage(c) == at[c].phase \in {"drain", "poll"} /\ at[c].batch # {}
Handled(c) == at' = [at EXCEPT ![c].batch = @ \ {Message(c)}]

(* XACK after the handler has returned nil: its failure is only logged.  f   *)
(* says that something else has failed in the step.                         *)
Acknowledge(c, ms, f) ==
  \/ pending' = [pending EXCEPT ![c] = @ \ ms] /\ (IF f THEN Fails ELSE Works)
  \/ UNCHANGED pending /\ Fails

\* Mutant of Counting: a trade that opens a candle is not counted in it.
CountingFromSecond(m) ==
  LET sec == stream["trades"][m]
  IN  IF open = NoCandle \/ open.second # sec THEN [second |-> sec, trades |-> <<>>]
      ELSE [open EXCEPT !.trades = Append(@, m)]

(* processTrade: the trade opens a candle or joins the open one ... *)
Counting(m) ==
  LET sec == stream["trades"][m]
  IN  IF open = NoCandle \/ open.second # sec THEN [second |-> sec, trades |-> <<m>>]
      ELSE [open EXCEPT !.trades = Append(@, m)]

(* ... and one of another second closes it: the closed candle is published, *)
(* or lost when that fails.  The trade is acknowledged in any case.         *)
ProcessTrade ==
  LET c      == "candle-builder"
      m      == Message(c)
      closes == open # NoCandle /\ open.second # stream["trades"][m]
  IN  /\ HasMessage(c)
      /\ Handled(c)
      /\ open' = Counting(m)
      /\ \E lost \in IF closes THEN BOOLEAN ELSE {FALSE} :
           /\ stream' = IF closes /\ ~lost THEN [stream EXCEPT !["candles"] = Append(@, open)]
                        ELSE stream
           /\ Acknowledge(c, {m}, lost)
      /\ UNCHANGED <<delivered, written, rows, deployed, disturbed>>

(* trades_log ignores a row it has, order_history refuses it. *)
Accepts(c, m) == c = "order-writer" => m \notin written[c]

InsertRow(c) ==
  /\ c \in {"trade-writer", "order-writer"}
  /\ HasMessage(c)
  /\ Accepts(c, Message(c))
  /\ Handled(c)
  /\ written' = [written EXCEPT ![c] = @ \cup {Message(c)}]
  /\ Acknowledge(c, {Message(c)}, FALSE)
  /\ UNCHANGED <<stream, delivered, open, rows, deployed, disturbed>>

\* Mutant of InsertFails: the message is acknowledged all the same.
InsertFailsAcknowledged(c) ==
  /\ c \in {"trade-writer", "order-writer"}
  /\ HasMessage(c)
  /\ IF Accepts(c, Message(c)) THEN Fails ELSE Works
  /\ Handled(c)
  /\ pending' = [pending EXCEPT ![c] = @ \ {Message(c)}]
  /\ UNCHANGED <<stream, delivered, open, written, rows, deployed, disturbed>>

(* A failed insert leaves the message pending and goes on. *)
InsertFails(c) ==
  /\ c \in {"trade-writer", "order-writer"}
  /\ HasMessage(c)
  /\ IF Accepts(c, Message(c)) THEN Fails ELSE Works
  /\ Handled(c)
  /\ UNCHANGED <<stream, delivered, pending, open, written, rows, deployed, disturbed>>

(* The candle writer writes a full batch, and a partial one when no message *)
(* is left to read.                                                         *)
Idle(c) == IF at[c].phase = "drain" THEN Left(c) = {}
           ELSE delivered[c] = Len(stream[Of(c)])

\* Mutant of BatchReady: a partial batch waits for more.
BatchFull(c) == HasMessage(c) /\ Cardinality(at[c].batch) >= BatchSize

BatchReady(c) == HasMessage(c) /\ (Cardinality(at[c].batch) >= BatchSize \/ Idle(c))

(* InsertBatch upserts the candles in one transaction: the volume of a row  *)
(* is that of the last candle of its second.                                *)
InsertBatch ==
  LET c     == "candle-writer"
      batch == at[c].batch
      OfSecond(s) == {m \in batch : stream["candles"][m].second = s}
  IN  /\ BatchReady(c)
      /\ at' = [at EXCEPT ![c].batch = {}]
      /\ rows' = [s \in Seconds |-> IF OfSecond(s) = {} THEN rows[s]
                                    ELSE stream["candles"][Max(OfSecond(s))].trades]
      /\ written' = [written EXCEPT ![c] = @ \cup batch]
      /\ Acknowledge(c, batch, FALSE)
      /\ UNCHANGED <<stream, delivered, open, deployed, disturbed>>

InsertBatchFails ==
  LET c == "candle-writer"
  IN  /\ BatchReady(c)
      /\ Fails
      /\ at' = [at EXCEPT ![c].batch = {}]
      /\ UNCHANGED <<stream, delivered, pending, open, written, rows, deployed, disturbed>>

-----------------------------------------------------------------------------
Reading(c) == Drain(c) \/ DrainEnds(c) \/ GroupFails(c) \/ Poll(c)
Handling   == \/ ProcessTrade
              \/ \E c \in {"trade-writer", "order-writer"} : InsertRow(c) \/ InsertFails(c)
              \/ InsertBatch
              \/ InsertBatchFails

Next == \/ Start
        \/ Crash
        \/ \E sec \in Seconds : PublishTrade(sec)
        \/ PublishOrderUpdate
        \/ \E c \in deployed : Reading(c)
        \/ Handling

(* A consumer's goroutine runs while it has something to do.  Nobody has to *)
(* start the server again, and nothing has to be published.                 *)
Fairness == /\ \A c \in Consumers : /\ WF_vars(Drain(c) \/ DrainEnds(c) \/ Poll(c))
                                    /\ WF_vars(InsertRow(c) \/ InsertFails(c))
            /\ WF_vars(ProcessTrade)
            /\ WF_vars(InsertBatch \/ InsertBatchFails)

Spec == Init /\ [][Next]_vars /\ Fairness

-----------------------------------------------------------------------------
(* Properties *)

Messages(c) == DOMAIN stream[Of(c)]

(* The variables have their types; a group's pending messages, what a       *)
(* consumer holds of them and what it has written have been delivered.      *)
(* (ConsumeTradesGroup .. processEntries)                                   *)
TypeOK ==
  /\ stream \in [trades: Seq(Seconds), orders: Seq({0}), candles: Seq(Candle)]
  /\ Len(stream["trades"]) <= MaxTrades
  /\ open = NoCandle \/ open \in Candle
  /\ deployed \in Deployments /\ failures \in 0..MaxFailures
  /\ steady \in BOOLEAN /\ disturbed \in BOOLEAN
  /\ rows \in [Seconds -> Seq(1..MaxTrades)]
  /\ delivered \in [Consumers -> Nat]
  /\ pending \in [Consumers -> SUBSET Nat]
  /\ written \in [Writers -> SUBSET Nat]
  /\ at \in [Consumers -> [phase: {"down", "drain", "poll", "ended"},
                           cursor: Nat, batch: SUBSET Nat]]
  /\ \A c \in Consumers :
       /\ delivered[c] <= Len(stream[Of(c)])
       /\ pending[c] \subseteq 1..delivered[c]
       /\ at[c].batch \subseteq pending[c]
       /\ c \in Writers => written[c] \subseteq 1..delivered[c]

(* An acknowledged message is in the database: whatever fails and whenever  *)
(* the server crashes, a writer acknowledges only what it has written, so   *)
(* that a message that is not in the database is still pending or still to  *)
(* be delivered.  (processEntries acknowledges after handle, the batch      *)
(* consumers after handler)                                                 *)
AckedIsWritten ==
  \A c \in Writers : (1..delivered[c]) \ pending[c] \subseteq written[c]

(* The published candles and the open one *)
Candles == IF open = NoCandle THEN stream["candles"] ELSE Append(stream["candles"], open)

(* A candle counts trades of its second only, each of them once, although a *)
(* trade may be delivered to the builder many times; and as long as the     *)
(* server has not crashed and no reply of Redis was lost, no trade is       *)
(* counted by two candles, whether or not it was acknowledged.              *)
(* (processTrade)                                                           *)
CountedOnce ==
  /\ \A k \in DOMAIN Candles :
       /\ IsInjective(Candles[k].trades)
       /\ \A i \in DOMAIN Candles[k].trades : stream["trades"][Candles[k].trades[i]] = Candles[k].second
  /\ ~disturbed => \A k, l \in DOMAIN Candles :
       k # l => ToSet(Candles[k].trades) \cap ToSet(Candles[l].trades) = {}

(* As long as the server has not crashed and no reply of Redis was lost, a  *)
(* row of the candles table is complete: it counts every trade that was     *)
(* published in its second.  (processTrade, InsertBatch's ON CONFLICT)      *)
CompleteRows ==
  ~disturbed =>
    \A s \in Seconds :
      rows[s] # <<>> => ToSet(rows[s]) = {i \in DOMAIN stream["trades"] : stream["trades"][i] = s}

(* When nothing fails any more after some start, then every message reaches *)
(* the database, those whose writing failed before included, and only order *)
(* updates that were written before stay pending.  (drainPEL, drainPELBatch,*)
(* the flush of a partial batch at idle)                                    *)
WrittenInTheEnd ==
  <>[]steady => <>[](\A c \in deployed :
                       /\ c \in Writers => written[c] = Messages(c)
                       /\ c # "order-writer" => pending[c] = {} /\ delivered[c] = Len(stream[Of(c)]))

=============================================================================
