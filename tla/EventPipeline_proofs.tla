------------------------- MODULE EventPipeline_proofs -------------------------
(* What holds of the way from the streams to the database for every number  *)
(* of messages, failures and restarts.                                      *)
EXTENDS EventPipeline, FiniteSetTheorems, WellFoundedInduction, TLAPS

-----------------------------------------------------------------------------
(* The inductive invariant *)

builder == "candle-builder"
Trades  == stream["trades"]
IsOpen  == open # NoCandle

(* A candle counts trades of its second, each once. *)
CountsItsOwn(cd) ==
  /\ IsInjective(cd.trades)
  /\ \A i \in DOMAIN cd.trades : cd.trades[i] \in DOMAIN Trades /\ Trades[cd.trades[i]] = cd.second

(* While the pending messages are drained, none beyond the cursor has been   *)
(* read; what the open candle counts is before all that is still to be read. *)
CursorIsAhead ==
  /\ at[builder].cursor <= delivered[builder]
  /\ at[builder].phase = "drain" => at[builder].batch \subseteq 1..at[builder].cursor
  /\ at[builder].phase \in {"down", "ended"} => ~IsOpen
  /\ IsOpen => /\ open.trades # <<>>
               /\ \A i \in DOMAIN open.trades :
                    LET m == open.trades[i]
                    IN  /\ m <= delivered[builder]
                        /\ at[builder].phase = "drain" => m <= at[builder].cursor
                        /\ \A n \in at[builder].batch : m < n

(* Consumers that are not deployed do nothing. *)
Undeployed == \A c \in Consumers \ deployed : at[c] = Down

CountInv == /\ TypeOK
            /\ Undeployed
            /\ CursorIsAhead
            /\ IsOpen => CountsItsOwn(open)
            /\ \A i \in DOMAIN stream["candles"] : CountsItsOwn(stream["candles"][i])

(* Trades are published in the order of their seconds. *)
InOrder == \A i, j \in DOMAIN Trades : i <= j => Trades[i] <= Trades[j]

(* The trades that the builder has processed, those of a second, and what a  *)
(* complete candle counts                                                    *)
Processed == (1..delivered[builder]) \ at[builder].batch
OfSecond(s) == {i \in DOMAIN Trades : Trades[i] = s}

(* Without a crash the builder never drains anything, and it has processed   *)
(* all that it has read before what it still holds.                          *)
NeverBehind ==
  /\ at[builder].phase # "poll" => delivered[builder] = 0
  /\ \A m \in at[builder].batch, n \in 1..delivered[builder] : m <= n => n \in at[builder].batch

(* The open candle is that of the last processed trade's second, and has all *)
(* of that second that were processed.                                       *)
OpenIsComplete ==
  /\ Processed # {} => IsOpen
  /\ IsOpen => /\ \E i \in Processed : Trades[i] = open.second
               /\ \A i \in Processed : Trades[i] <= open.second
               /\ ToSet(open.trades) = {i \in Processed : Trades[i] = open.second}

(* The published candles are of growing seconds, all before that of the open *)
(* candle, and complete; a row has one.                                      *)
CandlesAreComplete ==
  /\ \A i, j \in DOMAIN stream["candles"] :
       i < j => stream["candles"][i].second < stream["candles"][j].second
  /\ \A i \in DOMAIN stream["candles"] :
       LET cd == stream["candles"][i]
       IN  /\ IsOpen /\ cd.second < open.second
           /\ ToSet(cd.trades) = OfSecond(cd.second)
  /\ \A s \in Seconds : rows[s] # <<>> =>
       \E i \in DOMAIN stream["candles"] : stream["candles"][i] = [second |-> s, trades |-> rows[s]]

RowInv == /\ CountInv
          /\ InOrder
          /\ ~disturbed => NeverBehind /\ OpenIsComplete /\ CandlesAreComplete

-----------------------------------------------------------------------------
(* Least and greatest of a set of numbers *)

LEMMA LeastNumber ==
  ASSUME NEW S \in SUBSET Nat, S # {}
  PROVE  \E n \in S : \A m \in S : n <= m
  <1> DEFINE R == OpToRel(<, Nat)
  <1>1. \A x, y \in Nat : <<x, y>> \in R <=> x < y
    BY DEF OpToRel
  <1>2. IsWellFoundedOn(R, Nat)
    BY NatLessThanWellFounded
  <1> HIDE DEF R
  <1>3. PICK n \in S : \A m \in S : ~ (<<m, n>> \in R)
    BY <1>2, WFMin
  <1>4. \A m \in S : m \in Nat /\ n \in Nat /\ ~(m < n)
    BY <1>1, <1>3
  <1> QED
    BY <1>4

LEMMA GreatestNumber ==
  ASSUME NEW b \in Nat, NEW S \in SUBSET (0..b), S # {}
  PROVE  \E n \in S : \A m \in S : n >= m
  <1> DEFINE T == {k \in Nat : b - k \in S}
  <1>1. T # {}
    <2>1. PICK m \in S : TRUE
      OBVIOUS
    <2>2. b - m \in Nat /\ b - (b - m) = m
      OBVIOUS
    <2> QED
      BY <2>1, <2>2
  <1>2. PICK k \in T : \A l \in T : k <= l
    BY <1>1, LeastNumber
  <1>3. ASSUME NEW m \in S
        PROVE  b - k >= m
    <2>1. b - m \in Nat /\ b - (b - m) = m
      OBVIOUS
    <2> QED
      BY <1>2, <2>1
  <1> QED
    BY <1>2, <1>3

LEMMA MinIsLeast ==
  ASSUME NEW S \in SUBSET Nat, S # {}
  PROVE  Min(S) \in S /\ \A m \in S : Min(S) <= m
  BY LeastNumber DEF Min

LEMMA MaxIsGreatest ==
  ASSUME NEW b \in Nat, NEW S \in SUBSET (0..b), S # {}
  PROVE  Max(S) \in S /\ \A m \in S : m <= Max(S)
  <1>1. \E n \in S : \A m \in S : n >= m
    BY GreatestNumber
  <1>2. Max(S) \in S /\ \A m \in S : Max(S) >= m
    BY <1>1 DEF Max
  <1> QED
    BY <1>2

-----------------------------------------------------------------------------
(* Reading *)

LEMMA ConsumersAre ==
  /\ builder \in Consumers /\ Of(builder) = "trades"
  /\ "candle-writer" \in Writers /\ Of("candle-writer") = "candles"
  /\ Of("order-writer") = "orders" /\ Of("trade-writer") = "trades"
  /\ Writers = {"trade-writer", "order-writer", "candle-writer"}
  /\ \A c \in Consumers : c = builder \/ c \in Writers
  BY DEF builder, Consumers, Writers, Of

LEMMA StreamTypes ==
  ASSUME TypeOK
  PROVE  /\ Trades \in Seq(Seconds) /\ stream["candles"] \in Seq(Candle)
         /\ \A c \in Consumers : Len(stream[Of(c)]) \in Nat
         /\ \A c \in Consumers : Of(c) = "trades" \/ Of(c) = "orders" \/ Of(c) = "candles"
         /\ \A i \in DOMAIN Trades : Trades[i] \in Seconds /\ Trades[i] \in Nat
  <1>1. Trades \in Seq(Seconds) /\ stream["candles"] \in Seq(Candle) /\ stream["orders"] \in Seq({0})
    BY DEF TypeOK, Trades
  <1>2. \A c \in Consumers : Of(c) = "trades" \/ Of(c) = "orders" \/ Of(c) = "candles"
    BY DEF Of, Consumers
  <1>3. \A c \in Consumers : Len(stream[Of(c)]) \in Nat
    BY <1>1, <1>2 DEF Trades
  <1>4. \A i \in DOMAIN Trades : Trades[i] \in Seconds
    BY <1>1
  <1>5. \A i \in DOMAIN Trades : Trades[i] \in Nat
    BY <1>4, PipelineConstants
  <1> QED
    BY <1>1, <1>2, <1>3, <1>4, <1>5

LEMMA SomeAtOnce == \A c \in Consumers : AtOnce(c) \in Nat \ {0}
  BY PipelineConstants DEF AtOnce

(* A read of pending messages gives some of those beyond the cursor, and     *)
(* moves the cursor to the last of them.                                     *)
LEMMA DrainReads ==
  ASSUME TypeOK, NEW c \in Consumers, Drain(c)
  PROVE  /\ at[c].phase = "drain" /\ MayRead(c)
         /\ \E read \in SUBSET Left(c) :
              /\ Max(read) \in read /\ \A m \in read : m <= Max(read)
              /\ at' = [at EXCEPT ![c] = [at[c] EXCEPT !.batch = at[c].batch \cup read,
                                                       !.cursor = Max(read)]]
  <1> DEFINE read == Smallest(AtOnce(c), Left(c))
  <1>1. Left(c) \subseteq pending[c] /\ delivered[c] \in Nat /\ Left(c) \in SUBSET (0..delivered[c])
    BY DEF Left, TypeOK
  <1>2. PICK m \in Left(c) : \A k \in Left(c) : m <= k
    BY <1>1, LeastNumber DEF Drain
  <1>3. {k \in Left(c) : k < m} = {}
    BY <1>1, <1>2
  <1>4. m \in read
    BY <1>2, <1>3, SomeAtOnce, FS_EmptySet DEF Smallest
  <1>5. read \in SUBSET Left(c)
    BY DEF Smallest
  <1>6. at' = [at EXCEPT ![c] = [at[c] EXCEPT !.batch = at[c].batch \cup read, !.cursor = Max(read)]]
    BY DEF Drain
  <1> HIDE DEF read
  <1>7. Max(read) \in read /\ \A k \in read : k <= Max(read)
    BY <1>1, <1>4, <1>5, MaxIsGreatest
  <1> QED
    BY <1>5, <1>6, <1>7 DEF Drain

(* A read of new messages gives the next ones of the stream. *)
LEMMA PollReads ==
  ASSUME TypeOK, NEW c \in Consumers, Poll(c)
  PROVE  /\ at[c].phase = "poll" /\ MayRead(c)
         /\ \E upto \in Nat :
              LET new == (delivered[c] + 1)..upto
              IN  /\ delivered[c] < upto /\ upto <= Len(stream[Of(c)])
                  /\ delivered' = [delivered EXCEPT ![c] = upto]
                  /\ pending' = [pending EXCEPT ![c] = pending[c] \cup new]
                  /\ \/ /\ at' = [at EXCEPT ![c].batch = at[c].batch \cup new]
                        /\ Works /\ disturbed' = disturbed
                     \/ at' = at /\ Fails /\ disturbed' = TRUE
  <1> DEFINE S    == {delivered[c] + AtOnce(c), Len(stream[Of(c)])}
             upto == Min(S)
             new  == (delivered[c] + 1)..upto
  <1>1. delivered[c] \in Nat /\ Len(stream[Of(c)]) \in Nat /\ AtOnce(c) \in Nat
    BY SomeAtOnce, StreamTypes DEF TypeOK
  <1>2. S \in SUBSET Nat /\ S # {}
    BY <1>1
  <1>3. upto \in Nat /\ upto <= Len(stream[Of(c)])
    <2> HIDE DEF S
    <2>1. upto \in S /\ \A k \in S : upto <= k
      BY <1>2, MinIsLeast
    <2> QED
      BY <1>2, <2>1 DEF S
  <1>4. new # {}
    BY DEF Poll
  <1>5. delivered[c] < upto
    <2> HIDE DEF S, upto
    <2> QED
      BY <1>1, <1>3, <1>4
  <1>6. /\ delivered' = [delivered EXCEPT ![c] = upto]
        /\ pending' = [pending EXCEPT ![c] = pending[c] \cup new]
        /\ \/ /\ at' = [at EXCEPT ![c].batch = at[c].batch \cup new]
              /\ Works /\ disturbed' = disturbed
           \/ at' = at /\ Fails /\ disturbed' = TRUE
    BY DEF Poll
  <1> HIDE DEF S, upto, new
  <1> QED
    BY <1>3, <1>5, <1>6 DEF new, Poll

LEMMA OneMore ==
  ASSUME NEW S, NEW q \in Seq(S), NEW x \in S
  PROVE  /\ Append(q, x) \in Seq(S) /\ Len(Append(q, x)) = Len(q) + 1 /\ Len(q) \in Nat
         /\ DOMAIN Append(q, x) = 1..(Len(q) + 1) /\ DOMAIN q = 1..Len(q)
         /\ Append(q, x)[Len(q) + 1] = x
         /\ \A i \in 1..Len(q) : Append(q, x)[i] = q[i]
  OBVIOUS

(* What a published trade, order update and candle do to the streams *)
AllStreams == [trades: Seq(Seconds), orders: Seq({0}), candles: Seq(Candle)]

LEMMA PublishedTrade ==
  ASSUME stream \in AllStreams, NEW sec \in Seconds,
         stream' = [stream EXCEPT !["trades"] = Append(@, sec)]
  PROVE  /\ stream' \in AllStreams /\ Trades' = Append(Trades, sec)
         /\ stream'["orders"] = stream["orders"] /\ stream'["candles"] = stream["candles"]
  <1>1. Append(stream["trades"], sec) \in Seq(Seconds)
    BY DEF AllStreams
  <1> DEFINE q == Append(stream["trades"], sec)
  <1>3. stream' = [stream EXCEPT !["trades"] = q]
    OBVIOUS
  <1> HIDE DEF q
  <1>4. /\ stream' \in AllStreams /\ stream'["trades"] = q
        /\ stream'["orders"] = stream["orders"] /\ stream'["candles"] = stream["candles"]
    BY <1>1, <1>3 DEF AllStreams, q
  <1> QED
    BY <1>4 DEF Trades, q

LEMMA PublishedUpdate ==
  ASSUME stream \in AllStreams, stream' = [stream EXCEPT !["orders"] = Append(@, 0)]
  PROVE  /\ stream' \in AllStreams /\ stream'["orders"] = Append(stream["orders"], 0)
         /\ stream'["trades"] = stream["trades"] /\ stream'["candles"] = stream["candles"]
  <1>1. Append(stream["orders"], 0) \in Seq({0})
    BY DEF AllStreams
  <1> QED
    BY <1>1 DEF AllStreams

LEMMA PublishedCandle ==
  ASSUME stream \in AllStreams, NEW cd \in Candle,
         stream' = [stream EXCEPT !["candles"] = Append(@, cd)]
  PROVE  /\ stream' \in AllStreams /\ stream'["candles"] = Append(stream["candles"], cd)
         /\ stream'["trades"] = stream["trades"] /\ stream'["orders"] = stream["orders"]
  <1>1. Append(stream["candles"], cd) \in Seq(Candle)
    BY DEF AllStreams
  <1> QED
    BY <1>1 DEF AllStreams

-----------------------------------------------------------------------------
(* The types *)

State == [phase: {"down", "drain", "poll", "ended"}, cursor: Nat, batch: SUBSET Nat]

LEMMA FailsType ==
  ASSUME TypeOK, Fails
  PROVE  failures' \in 0..MaxFailures /\ steady' \in BOOLEAN
  <1>1. failures \in 0..MaxFailures /\ failures < MaxFailures /\ failures' = failures + 1
    BY DEF TypeOK, Fails
  <1>2. steady' \in BOOLEAN
    BY DEF Fails
  <1> QED
    BY <1>1, <1>2, PipelineConstants

LEMMA WorksType ==
  ASSUME TypeOK, Works
  PROVE  failures' \in 0..MaxFailures /\ steady' \in BOOLEAN
  BY DEF Works, TypeOK

(* What a consumer has, when only the one of it changes. *)
LEMMA ReadingType ==
  ASSUME TypeOK, NEW c \in Consumers, NEW j \in State, at' = [at EXCEPT ![c] = j],
         UNCHANGED <<stream, open, written, rows, deployed>>,
         delivered' \in [Consumers -> Nat], pending' \in [Consumers -> SUBSET Nat],
         \A d \in Consumers : /\ delivered[d] <= delivered'[d]
                              /\ delivered'[d] <= Len(stream[Of(d)])
                              /\ pending'[d] \subseteq 1..delivered'[d]
                              /\ d # c => pending[d] \subseteq pending'[d],
         j.batch \subseteq pending'[c],
         failures' \in 0..MaxFailures, steady' \in BOOLEAN, disturbed' \in BOOLEAN
  PROVE  TypeOK'
  <1>1. at'[c] = j /\ \A d \in Consumers : d # c => at'[d] = at[d]
    BY DEF TypeOK
  <1>2. at' \in [Consumers -> State]
    BY DEF TypeOK, State
  <1>3. \A d \in Consumers : at'[d].batch \subseteq pending'[d]
    BY <1>1 DEF TypeOK
  <1>4. \A d \in Writers : written[d] \subseteq 1..delivered'[d]
    <2> TAKE d \in Writers
    <2>1. d \in Consumers /\ delivered[d] \in Nat /\ delivered'[d] \in Nat
      BY DEF Writers, TypeOK
    <2>2. written[d] \subseteq 1..delivered[d] /\ delivered[d] <= delivered'[d]
      BY <2>1 DEF TypeOK
    <2> QED
      BY <2>1, <2>2
  <1> QED
    BY <1>2, <1>3, <1>4 DEF TypeOK, State

LEMMA StateStepType ==
  ASSUME TypeOK, NEW c \in Consumers, NEW j \in State, at' = [at EXCEPT ![c] = j],
         UNCHANGED <<stream, delivered, pending, open, written, rows, deployed, disturbed>>,
         j.batch \subseteq pending[c],
         failures' \in 0..MaxFailures, steady' \in BOOLEAN
  PROVE  TypeOK'
  <1>1. \A d \in Consumers : /\ delivered[d] \in Nat
                             /\ delivered[d] <= Len(stream[Of(d)])
                             /\ pending[d] \subseteq 1..delivered[d]
    BY DEF TypeOK
  <1>2. delivered' \in [Consumers -> Nat] /\ pending' \in [Consumers -> SUBSET Nat]
    BY DEF TypeOK
  <1>3. disturbed' \in BOOLEAN
    BY DEF TypeOK
  <1>4. delivered' = delivered /\ pending' = pending
    OBVIOUS
  <1>5. \A d \in Consumers : /\ delivered[d] <= delivered'[d]
                             /\ delivered'[d] <= Len(stream[Of(d)])
                             /\ pending'[d] \subseteq 1..delivered'[d]
                             /\ d # c => pending[d] \subseteq pending'[d]
    BY <1>1, <1>4
  <1> QED
    BY <1>2, <1>3, <1>4, <1>5, ReadingType

LEMMA DrainType ==
  ASSUME TypeOK, NEW c \in Consumers, Drain(c)
  PROVE  TypeOK'
  <1>1. PICK read \in SUBSET Left(c) :
          /\ Max(read) \in read
          /\ at' = [at EXCEPT ![c] = [at[c] EXCEPT !.batch = at[c].batch \cup read,
                                                   !.cursor = Max(read)]]
    BY DrainReads
  <1>2. /\ at[c] \in State /\ at[c].batch \subseteq pending[c] /\ delivered[c] \in Nat
        /\ pending[c] \subseteq 1..delivered[c]
    BY DEF TypeOK, State
  <1>3. read \subseteq pending[c] /\ read \in SUBSET Nat
    BY <1>2 DEF Left
  <1> DEFINE j == [at[c] EXCEPT !.batch = at[c].batch \cup read, !.cursor = Max(read)]
  <1>4. j \in State /\ j.batch \subseteq pending[c]
    BY <1>1, <1>2, <1>3 DEF State
  <1> HIDE DEF j
  <1>5. failures' \in 0..MaxFailures /\ steady' \in BOOLEAN
    BY DEF Drain, TypeOK
  <1>6. /\ at' = [at EXCEPT ![c] = j]
        /\ UNCHANGED <<stream, delivered, pending, open, written, rows, deployed, disturbed>>
    BY <1>1 DEF Drain, j
  <1> QED
    BY <1>4, <1>5, <1>6, StateStepType

LEMMA PollType ==
  ASSUME TypeOK, NEW c \in Consumers, Poll(c)
  PROVE  TypeOK'
  <1>1. PICK upto \in Nat :
              LET new == (delivered[c] + 1)..upto
              IN  /\ delivered[c] < upto /\ upto <= Len(stream[Of(c)])
                  /\ delivered' = [delivered EXCEPT ![c] = upto]
                  /\ pending' = [pending EXCEPT ![c] = pending[c] \cup new]
                  /\ \/ /\ at' = [at EXCEPT ![c].batch = at[c].batch \cup new]
                        /\ Works /\ disturbed' = disturbed
                     \/ at' = at /\ Fails /\ disturbed' = TRUE
    BY PollReads
  <1> DEFINE new == (delivered[c] + 1)..upto
  <1>2. /\ at[c] \in State /\ at[c].batch \subseteq pending[c]
        /\ \A d \in Consumers : /\ delivered[d] \in Nat /\ Len(stream[Of(d)]) \in Nat
                                /\ delivered[d] <= Len(stream[Of(d)])
                                /\ pending[d] \subseteq 1..delivered[d]
    BY StreamTypes DEF TypeOK, State
  <1>3. new \in SUBSET Nat /\ new \subseteq 1..upto
    BY <1>2
  <1>4. /\ delivered' \in [Consumers -> Nat] /\ pending' \in [Consumers -> SUBSET Nat]
        /\ delivered'[c] = upto /\ pending'[c] = pending[c] \cup new
        /\ \A d \in Consumers : d # c => delivered'[d] = delivered[d] /\ pending'[d] = pending[d]
    BY <1>1, <1>3 DEF TypeOK
  <1>5. \A d \in Consumers : /\ delivered[d] <= delivered'[d]
                             /\ delivered'[d] <= Len(stream[Of(d)])
                             /\ pending'[d] \subseteq 1..delivered'[d]
                             /\ d # c => pending[d] \subseteq pending'[d]
    BY <1>1, <1>2, <1>3, <1>4
  <1>6. failures' \in 0..MaxFailures /\ steady' \in BOOLEAN
    BY <1>1, FailsType, WorksType
  <1>7. disturbed' \in BOOLEAN
    BY <1>1 DEF TypeOK
  <1>8. PICK j \in State : at' = [at EXCEPT ![c] = j] /\ j.batch \subseteq pending'[c]
    <2>1. CASE at' = [at EXCEPT ![c].batch = at[c].batch \cup new]
      <3>1. [at[c] EXCEPT !.batch = at[c].batch \cup new] \in State
        BY <1>2, <1>3 DEF State
      <3> QED
        BY <1>2, <1>4, <2>1, <3>1 DEF State
    <2>2. CASE at' = at
      <3>1. at' = [at EXCEPT ![c] = at[c]]
        BY <2>2 DEF TypeOK
      <3> QED
        BY <1>2, <1>4, <3>1
    <2> QED
      BY <1>1, <2>1, <2>2
  <1> HIDE DEF new
  <1> QED
    BY <1>4, <1>5, <1>6, <1>7, <1>8, ReadingType DEF Poll

LEMMA ReadingTypes ==
  ASSUME TypeOK, NEW c \in Consumers, Reading(c)
  PROVE  TypeOK'
  <1>1. /\ at[c] \in State /\ at[c].batch \subseteq pending[c]
        /\ delivered \in [Consumers -> Nat] /\ pending \in [Consumers -> SUBSET Nat]
        /\ \A d \in Consumers : /\ delivered[d] \in Nat /\ Len(stream[Of(d)]) \in Nat
                                /\ delivered[d] <= Len(stream[Of(d)])
                                /\ pending[d] \subseteq 1..delivered[d]
    BY StreamTypes DEF TypeOK, State
  <1>2. ASSUME NEW p \in {"poll", "ended"}, at' = [at EXCEPT ![c].phase = p]
        PROVE  \E j \in State : at' = [at EXCEPT ![c] = j] /\ j.batch \subseteq pending[c]
    <2>1. [at[c] EXCEPT !.phase = p] \in State
      BY <1>1 DEF State
    <2> QED
      BY <1>1, <1>2, <2>1 DEF State
  <1>3. CASE DrainEnds(c)
    <2>1. failures' \in 0..MaxFailures /\ steady' \in BOOLEAN
      BY <1>3, FailsType, WorksType DEF DrainEnds
    <2>2. PICK j \in State : at' = [at EXCEPT ![c] = j] /\ j.batch \subseteq pending[c]
      BY <1>2, <1>3 DEF DrainEnds
    <2> QED
      BY <1>3, <2>1, <2>2, StateStepType DEF DrainEnds
  <1>4. CASE GroupFails(c)
    <2>1. failures' \in 0..MaxFailures /\ steady' \in BOOLEAN
      BY <1>4, FailsType DEF GroupFails
    <2>2. PICK j \in State : at' = [at EXCEPT ![c] = j] /\ j.batch \subseteq pending[c]
      BY <1>2, <1>4 DEF GroupFails
    <2> QED
      BY <1>4, <2>1, <2>2, StateStepType DEF GroupFails
  <1> QED
    BY <1>3, <1>4, DrainType, PollType DEF Reading

(* An acknowledgement takes the messages out of the pending ones, or fails. *)
LEMMA AcknowledgeDoes ==
  ASSUME TypeOK, NEW c \in Consumers, NEW ms, NEW f \in BOOLEAN, Acknowledge(c, ms, f)
  PROVE  /\ pending' \in [Consumers -> SUBSET Nat]
         /\ pending[c] \ ms \subseteq pending'[c] /\ pending'[c] \subseteq pending[c]
         /\ \A d \in Consumers : d # c => pending'[d] = pending[d]
         /\ failures' \in 0..MaxFailures /\ steady' \in BOOLEAN
  <1>1. /\ pending' \in [Consumers -> SUBSET Nat]
        /\ pending[c] \ ms \subseteq pending'[c] /\ pending'[c] \subseteq pending[c]
        /\ \A d \in Consumers : d # c => pending'[d] = pending[d]
    BY DEF Acknowledge, TypeOK
  <1>2. Fails \/ Works
    BY DEF Acknowledge
  <1> QED
    BY <1>1, <1>2, FailsType, WorksType

(* A consumer has handled some of its messages. *)
LEMMA HandledType ==
  ASSUME TypeOK, NEW c \in Consumers, NEW b \in SUBSET at[c].batch,
         at' = [at EXCEPT ![c].batch = b],
         pending' \in [Consumers -> SUBSET Nat],
         b \subseteq pending'[c], pending'[c] \subseteq pending[c],
         \A d \in Consumers : d # c => pending'[d] = pending[d],
         UNCHANGED <<delivered, deployed, disturbed>>,
         stream' \in [trades: Seq(Seconds), orders: Seq({0}), candles: Seq(Candle)],
         stream'["trades"] = stream["trades"],
         \A d \in Consumers : Len(stream[Of(d)]) <= Len(stream'[Of(d)]),
         open' = NoCandle \/ open' \in Candle,
         rows' \in [Seconds -> Seq(1..MaxTrades)],
         written' \in [Writers -> SUBSET Nat],
         \A d \in Writers : written'[d] \subseteq 1..delivered[d],
         failures' \in 0..MaxFailures, steady' \in BOOLEAN
  PROVE  TypeOK'
  <1>1. /\ at[c] \in State /\ b \in SUBSET Nat /\ at \in [Consumers -> State]
        /\ disturbed \in BOOLEAN /\ deployed \in Deployments /\ Len(stream["trades"]) <= MaxTrades
        /\ delivered \in [Consumers -> Nat]
    BY DEF TypeOK, State
  <1>2. [at[c] EXCEPT !.batch = b] \in State
    BY <1>1 DEF State
  <1>3. /\ at' \in [Consumers -> State] /\ at'[c].batch = b
        /\ \A d \in Consumers : d # c => at'[d] = at[d]
    BY <1>1, <1>2 DEF State
  <1>4. ASSUME NEW d \in Consumers
        PROVE  /\ delivered[d] <= Len(stream'[Of(d)])
               /\ pending'[d] \subseteq 1..delivered[d]
               /\ at'[d].batch \subseteq pending'[d]
    <2>1. /\ delivered[d] \in Nat /\ delivered[d] <= Len(stream[Of(d)])
          /\ pending[d] \subseteq 1..delivered[d] /\ at[d].batch \subseteq pending[d]
      BY DEF TypeOK
    <2>2. /\ Len(stream[Of(d)]) \in Nat /\ Len(stream'[Of(d)]) \in Nat
          /\ Len(stream[Of(d)]) <= Len(stream'[Of(d)])
      <3>1. Of(d) = "trades" \/ Of(d) = "orders" \/ Of(d) = "candles"
        BY StreamTypes
      <3> QED
        BY <3>1, StreamTypes
    <2>3. delivered[d] <= Len(stream'[Of(d)])
      BY <2>1, <2>2
    <2>4. pending'[d] \subseteq pending[d] /\ at'[d].batch \subseteq pending'[d]
      BY <1>3, <2>1
    <2> QED
      BY <2>1, <2>3, <2>4
  <1>5. disturbed' \in BOOLEAN /\ deployed' \in Deployments
    BY <1>1
  <1>6. delivered' = delivered
    OBVIOUS
  <1>7. Len(stream'["trades"]) <= MaxTrades
    BY <1>1
  <1> QED
    BY <1>1, <1>3, <1>4, <1>5, <1>6, <1>7 DEF TypeOK, State

(* The next message of a consumer is the least that it holds. *)
LEMMA NextMessage ==
  ASSUME TypeOK, NEW c \in Consumers, HasMessage(c)
  PROVE  /\ Message(c) \in at[c].batch /\ Message(c) \in pending[c]
         /\ Message(c) \in 1..delivered[c] /\ Message(c) \in Nat
         /\ Message(c) \in 1..Len(stream[Of(c)])
         /\ \A m \in at[c].batch : Message(c) <= m
  <1>1. /\ at[c].batch \subseteq pending[c] /\ pending[c] \subseteq 1..delivered[c]
        /\ delivered[c] \in Nat /\ delivered[c] <= Len(stream[Of(c)])
    BY DEF TypeOK
  <1>2. at[c].batch \in SUBSET Nat /\ at[c].batch # {} /\ Len(stream[Of(c)]) \in Nat
    BY <1>1, StreamTypes DEF HasMessage
  <1>3. Message(c) \in at[c].batch /\ \A m \in at[c].batch : Message(c) <= m
    BY <1>2, MinIsLeast DEF Message
  <1> QED
    BY <1>1, <1>2, <1>3

LEMMA CountingType ==
  ASSUME TypeOK, HasMessage(builder)
  PROVE  Counting(Message(builder)) \in Candle
  <1> DEFINE m == Message(builder)
  <1>1. m \in 1..Len(Trades) /\ Trades[m] \in Seconds /\ Trades \in Seq(Seconds)
    BY NextMessage, StreamTypes, ConsumersAre DEF Trades
  <1>2. m \in 1..MaxTrades
    BY <1>1, PipelineConstants DEF TypeOK, Trades
  <1> HIDE DEF m
  <1>3. [second |-> Trades[m], trades |-> <<m>>] \in Candle
    BY <1>1, <1>2 DEF Candle
  <1>4. ASSUME open \in Candle
        PROVE  [open EXCEPT !.trades = Append(@, m)] \in Candle
    <2>1. Append(open.trades, m) \in Seq(1..MaxTrades)
      BY <1>2, <1>4 DEF Candle
    <2> QED
      BY <1>4, <2>1 DEF Candle
  <1> QED
    BY <1>3, <1>4 DEF Counting, Trades, TypeOK, m

(* What the builder does with a trade *)
LEMMA ProcessTradeDoes ==
  ASSUME TypeOK, ProcessTrade
  PROVE  LET m == Message(builder)
         IN  /\ HasMessage(builder)
             /\ m \in at[builder].batch /\ m \in 1..delivered[builder] /\ m \in DOMAIN Trades
             /\ \A n \in at[builder].batch : m <= n
             /\ at'[builder].phase = at[builder].phase /\ at'[builder].cursor = at[builder].cursor
             /\ at'[builder].batch = at[builder].batch \ {m}
             /\ \A c \in Consumers : c # builder => at'[c] = at[c] /\ pending'[c] = pending[c]
             /\ open' = Counting(m)
             /\ Trades' = Trades
             /\ \/ stream' = stream
                \/ /\ IsOpen /\ open.second # Trades[m]
                   /\ stream'["candles"] = Append(stream["candles"], open)
             /\ UNCHANGED <<delivered, written, rows, deployed, disturbed>>
  <1> DEFINE m == Message(builder)
  <1>1. /\ HasMessage(builder) /\ open' = Counting(m)
        /\ at' = [at EXCEPT ![builder].batch = at[builder].batch \ {m}]
        /\ UNCHANGED <<delivered, written, rows, deployed, disturbed>>
    BY DEF ProcessTrade, Handled, builder
  <1>2. PICK lost \in BOOLEAN : Acknowledge(builder, {m}, lost)
    BY DEF ProcessTrade, builder
  <1>3. \/ stream' = stream
        \/ /\ IsOpen /\ open.second # Trades[m]
           /\ stream' = [stream EXCEPT !["candles"] = Append(@, open)]
    BY DEF ProcessTrade, builder, IsOpen, Trades
  <1>4. /\ m \in at[builder].batch /\ m \in 1..delivered[builder] /\ m \in DOMAIN Trades
        /\ \A n \in at[builder].batch : m <= n
    <2>1. Trades \in Seq(Seconds)
      BY StreamTypes
    <2> QED
      BY <1>1, <2>1, NextMessage, ConsumersAre DEF Trades
  <1>5. \A c \in Consumers : c # builder => pending'[c] = pending[c]
    BY <1>2, AcknowledgeDoes, ConsumersAre
  <1>6. /\ at'[builder].phase = at[builder].phase /\ at'[builder].cursor = at[builder].cursor
        /\ at'[builder].batch = at[builder].batch \ {m}
        /\ \A c \in Consumers : c # builder => at'[c] = at[c]
    BY <1>1, ConsumersAre DEF TypeOK
  <1>7. Trades' = Trades /\ (\/ stream' = stream
                            \/ /\ IsOpen /\ open.second # Trades[m]
                               /\ stream'["candles"] = Append(stream["candles"], open))
    <2>1. stream \in AllStreams
      BY DEF TypeOK, AllStreams
    <2>2. CASE /\ IsOpen /\ open.second # Trades[m]
               /\ stream' = [stream EXCEPT !["candles"] = Append(@, open)]
      <3>1. open \in Candle
        BY <2>2 DEF IsOpen, TypeOK
      <3> QED
        BY <2>1, <2>2, <3>1, PublishedCandle DEF Trades
    <2> QED
      BY <1>3, <2>2 DEF Trades
  <1> QED
    BY <1>1, <1>4, <1>5, <1>6, <1>7

LEMMA ProcessTradeType ==
  ASSUME TypeOK, ProcessTrade
  PROVE  TypeOK'
  <1> DEFINE m == Message(builder)
             b == at[builder].batch \ {m}
  <1>1. HasMessage(builder) /\ builder \in Consumers
    BY ConsumersAre DEF ProcessTrade, builder
  <1>2. m \in at[builder].batch /\ at[builder].batch \subseteq pending[builder]
    BY <1>1, NextMessage DEF TypeOK
  <1>3. at' = [at EXCEPT ![builder].batch = b]
    BY DEF ProcessTrade, Handled, builder
  <1>4. /\ pending' \in [Consumers -> SUBSET Nat]
        /\ pending[builder] \ {m} \subseteq pending'[builder] /\ pending'[builder] \subseteq pending[builder]
        /\ \A d \in Consumers : d # builder => pending'[d] = pending[d]
        /\ failures' \in 0..MaxFailures /\ steady' \in BOOLEAN
    BY <1>1, AcknowledgeDoes DEF ProcessTrade, builder
  <1>5. open' \in Candle
    BY <1>1, CountingType DEF ProcessTrade, builder
  <1>6. stream' = stream \/ (open \in Candle /\ stream' = [stream EXCEPT !["candles"] = Append(@, open)])
    BY DEF ProcessTrade, TypeOK
  <1>7. /\ stream' \in [trades: Seq(Seconds), orders: Seq({0}), candles: Seq(Candle)]
        /\ stream'["trades"] = stream["trades"] /\ stream'["orders"] = stream["orders"]
        /\ Len(stream["candles"]) <= Len(stream'["candles"])
    <2>1. stream \in AllStreams /\ stream["candles"] \in Seq(Candle)
      BY DEF TypeOK, AllStreams
    <2>2. CASE open \in Candle /\ stream' = [stream EXCEPT !["candles"] = Append(@, open)]
      <3>1. /\ stream' \in AllStreams /\ stream'["candles"] = Append(stream["candles"], open)
            /\ stream'["trades"] = stream["trades"] /\ stream'["orders"] = stream["orders"]
        BY <2>1, <2>2, PublishedCandle
      <3>2. /\ Len(Append(stream["candles"], open)) = Len(stream["candles"]) + 1
            /\ Len(stream["candles"]) \in Nat
        BY <2>1, <2>2, OneMore
      <3> QED
        BY <3>1, <3>2 DEF AllStreams
    <2>3. CASE stream' = stream
      BY <2>1, <2>3 DEF AllStreams
    <2> QED
      BY <1>6, <2>2, <2>3
  <1>8. \A d \in Consumers : Len(stream[Of(d)]) <= Len(stream'[Of(d)])
    BY <1>7, StreamTypes
  <1>9. /\ UNCHANGED <<delivered, deployed, disturbed>>
        /\ rows' \in [Seconds -> Seq(1..MaxTrades)]
        /\ written' \in [Writers -> SUBSET Nat]
        /\ \A d \in Writers : written'[d] \subseteq 1..delivered[d]
    BY DEF ProcessTrade, TypeOK, Writers
  <1>10. b \in SUBSET at[builder].batch /\ b \subseteq pending'[builder]
    BY <1>2, <1>4
  <1> HIDE DEF m, b
  <1> QED
    BY <1>1, <1>3, <1>4, <1>5, <1>7, <1>8, <1>9, <1>10, HandledType

LEMMA InsertType ==
  ASSUME TypeOK, NEW c \in {"trade-writer", "order-writer"}, InsertRow(c) \/ InsertFails(c)
  PROVE  TypeOK'
  <1> DEFINE m == Message(c)
             b == at[c].batch \ {m}
  <1>1. HasMessage(c) /\ c \in Consumers /\ c \in Writers
    BY ConsumersAre DEF InsertRow, InsertFails, Consumers
  <1>2. m \in at[c].batch /\ m \in 1..delivered[c] /\ m \in Nat /\ at[c].batch \subseteq pending[c]
    BY <1>1, NextMessage DEF TypeOK
  <1>3. at' = [at EXCEPT ![c].batch = b]
    BY DEF InsertRow, InsertFails, Handled
  <1>4. /\ pending' \in [Consumers -> SUBSET Nat]
        /\ pending[c] \ {m} \subseteq pending'[c] /\ pending'[c] \subseteq pending[c]
        /\ \A d \in Consumers : d # c => pending'[d] = pending[d]
        /\ failures' \in 0..MaxFailures /\ steady' \in BOOLEAN
    <2>1. CASE InsertRow(c)
      BY <1>1, <2>1, AcknowledgeDoes DEF InsertRow
    <2>2. CASE InsertFails(c)
      <3>1. pending' = pending /\ (Fails \/ Works)
        BY <2>2 DEF InsertFails
      <3> QED
        BY <3>1, FailsType, WorksType DEF TypeOK
    <2> QED
      BY <2>1, <2>2
  <1>5. /\ UNCHANGED <<delivered, deployed, disturbed, stream, open, rows>>
        /\ written' = written \/ written' = [written EXCEPT ![c] = @ \cup {m}]
    BY DEF InsertRow, InsertFails
  <1>6. /\ written' \in [Writers -> SUBSET Nat]
        /\ \A d \in Writers : written'[d] \subseteq 1..delivered[d]
    BY <1>1, <1>2, <1>5 DEF TypeOK, Writers
  <1>7. /\ stream' \in [trades: Seq(Seconds), orders: Seq({0}), candles: Seq(Candle)]
        /\ open' = NoCandle \/ open' \in Candle
        /\ rows' \in [Seconds -> Seq(1..MaxTrades)]
    BY <1>5 DEF TypeOK
  <1>8. \A d \in Consumers : Len(stream[Of(d)]) <= Len(stream'[Of(d)])
    BY <1>5, StreamTypes
  <1>9. b \in SUBSET at[c].batch /\ b \subseteq pending'[c]
    BY <1>2, <1>4
  <1> HIDE DEF m, b
  <1> QED
    BY <1>1, <1>3, <1>4, <1>5, <1>6, <1>7, <1>8, <1>9, HandledType

(* The candles of a written batch are those of the stream. *)
LEMMA InsertBatchRows ==
  ASSUME TypeOK, InsertBatch, NEW s \in Seconds
  PROVE  \/ rows'[s] = rows[s]
         \/ \E i \in DOMAIN stream["candles"] :
              stream["candles"][i].second = s /\ rows'[s] = stream["candles"][i].trades
  <1> DEFINE c    == "candle-writer"
             mine == {m \in at[c].batch : stream["candles"][m].second = s}
  <1>1. rows'[s] = IF mine = {} THEN rows[s] ELSE stream["candles"][Max(mine)].trades
    BY DEF InsertBatch
  <1>2. /\ at[c].batch \subseteq 1..Len(stream["candles"]) /\ Len(stream["candles"]) \in Nat
        /\ DOMAIN stream["candles"] = 1..Len(stream["candles"])
    <2>1. c \in Consumers /\ Of(c) = "candles"
      BY ConsumersAre DEF Writers
    <2>2. /\ at[c].batch \subseteq 1..delivered[c] /\ delivered[c] \in Nat
          /\ delivered[c] <= Len(stream["candles"])
      BY <2>1 DEF TypeOK
    <2>3. stream["candles"] \in Seq(Candle)
      BY StreamTypes
    <2> QED
      BY <2>2, <2>3
  <1>3. CASE mine # {}
    <2>1. mine \in SUBSET (0..Len(stream["candles"]))
      BY <1>2
    <2>2. Max(mine) \in mine
      BY <1>2, <1>3, <2>1, MaxIsGreatest
    <2> QED
      BY <1>1, <1>2, <1>3, <2>2
  <1> QED
    BY <1>1, <1>3

LEMMA InsertBatchType ==
  ASSUME TypeOK, InsertBatch \/ InsertBatchFails
  PROVE  TypeOK'
  <1> DEFINE c == "candle-writer"
  <1>1. c \in Consumers /\ c \in Writers /\ Of(c) = "candles"
    BY ConsumersAre DEF Writers
  <1>2. at[c].batch \subseteq pending[c] /\ at[c].batch \subseteq 1..delivered[c]
    BY <1>1 DEF TypeOK
  <1>3. at' = [at EXCEPT ![c].batch = {}]
    BY DEF InsertBatch, InsertBatchFails
  <1>4. /\ pending' \in [Consumers -> SUBSET Nat]
        /\ pending'[c] \subseteq pending[c]
        /\ \A d \in Consumers : d # c => pending'[d] = pending[d]
        /\ failures' \in 0..MaxFailures /\ steady' \in BOOLEAN
    <2>1. CASE InsertBatch
      BY <1>1, <2>1, AcknowledgeDoes DEF InsertBatch
    <2>2. CASE InsertBatchFails
      <3>1. pending' = pending /\ Fails
        BY <2>2 DEF InsertBatchFails
      <3> QED
        BY <3>1, FailsType DEF TypeOK
    <2> QED
      BY <2>1, <2>2
  <1>5. UNCHANGED <<delivered, deployed, disturbed, stream, open>>
    BY DEF InsertBatch, InsertBatchFails
  <1>6. /\ written' \in [Writers -> SUBSET Nat]
        /\ \A d \in Writers : written'[d] \subseteq 1..delivered[d]
    <2>1. written' = written \/ written' = [written EXCEPT ![c] = @ \cup at[c].batch]
      BY DEF InsertBatch, InsertBatchFails
    <2>2. /\ written \in [Writers -> SUBSET Nat] /\ at[c].batch \in SUBSET Nat
          /\ \A d \in Writers : written[d] \subseteq 1..delivered[d]
      BY <1>1 DEF TypeOK, Writers
    <2>3. CASE written' = [written EXCEPT ![c] = @ \cup at[c].batch]
      <3>1. /\ written'[c] = written[c] \cup at[c].batch
            /\ \A d \in Writers : d # c => written'[d] = written[d]
        BY <1>1, <2>2, <2>3
      <3>2. written' \in [Writers -> SUBSET Nat]
        BY <1>1, <2>2, <2>3
      <3> QED
        BY <1>2, <2>2, <3>1, <3>2
    <2> QED
      BY <2>1, <2>2, <2>3
  <1>7. rows' \in [Seconds -> Seq(1..MaxTrades)]
    <2>1. CASE InsertBatch
      <3>1. \A i \in DOMAIN stream["candles"] : stream["candles"][i].trades \in Seq(1..MaxTrades)
        <4>1. \A i \in DOMAIN stream["candles"] : stream["candles"][i] \in Candle
          BY StreamTypes
        <4> QED
          BY <4>1 DEF Candle
      <3>2. \A s \in Seconds : rows'[s] \in Seq(1..MaxTrades)
        BY <2>1, <3>1, InsertBatchRows DEF TypeOK
      <3>3. rows' = [s \in Seconds |-> rows'[s]]
        BY <2>1 DEF InsertBatch
      <3> QED
        BY <3>2, <3>3
    <2>2. CASE InsertBatchFails
      BY <2>2 DEF InsertBatchFails, TypeOK
    <2> QED
      BY <2>1, <2>2
  <1>8. /\ stream' \in [trades: Seq(Seconds), orders: Seq({0}), candles: Seq(Candle)]
        /\ open' = NoCandle \/ open' \in Candle
    BY <1>5 DEF TypeOK
  <1>9. \A d \in Consumers : Len(stream[Of(d)]) <= Len(stream'[Of(d)])
    BY <1>5, StreamTypes
  <1>10. {} \in SUBSET at[c].batch /\ {} \subseteq pending'[c]
    OBVIOUS
  <1>11. stream'["trades"] = stream["trades"] /\ UNCHANGED <<delivered, deployed, disturbed>>
    BY <1>5
  <1> HIDE DEF c
  <1> QED
    BY <1>1, <1>3, <1>4, <1>6, <1>7, <1>8, <1>9, <1>10, <1>11, HandledType

LEMMA ServerType ==
  ASSUME TypeOK, Start \/ Crash
  PROVE  TypeOK'
  <1>1. Down \in State /\ [Down EXCEPT !.phase = "drain"] \in State
        /\ Down.batch = {} /\ [Down EXCEPT !.phase = "drain"].batch = {}
    BY DEF Down, State
  <1>2. at' \in [Consumers -> State] /\ \A c \in Consumers : at'[c].batch = {}
    BY <1>1 DEF Start, Crash
  <1>3. UNCHANGED <<stream, delivered, pending, written, rows, deployed>>
    BY DEF Start, Crash
  <1>4. failures' \in 0..MaxFailures /\ steady' \in BOOLEAN /\ disturbed' \in BOOLEAN
    <2>1. CASE Start
      BY <2>1 DEF Start, TypeOK
    <2>2. CASE Crash
      BY <2>2, FailsType DEF Crash
    <2> QED
      BY <2>1, <2>2
  <1>5. open' = NoCandle \/ open' \in Candle
    BY DEF Start, Crash, TypeOK
  <1> QED
    BY <1>2, <1>3, <1>4, <1>5 DEF TypeOK, State

LEMMA PublishType ==
  ASSUME TypeOK, (\E sec \in Seconds : PublishTrade(sec)) \/ PublishOrderUpdate
  PROVE  TypeOK'
  <1>1. /\ UNCHANGED <<delivered, pending, at, open, written, rows, deployed>>
        /\ UNCHANGED <<failures, steady, disturbed>>
    BY DEF PublishTrade, PublishOrderUpdate
  <1>2. /\ stream' \in [trades: Seq(Seconds), orders: Seq({0}), candles: Seq(Candle)]
        /\ Len(stream'["trades"]) <= MaxTrades
        /\ Len(stream["trades"]) <= Len(stream'["trades"])
        /\ Len(stream["orders"]) <= Len(stream'["orders"])
        /\ Len(stream["candles"]) <= Len(stream'["candles"])
    <2>1. /\ stream["trades"] \in Seq(Seconds) /\ stream["orders"] \in Seq({0})
          /\ stream["candles"] \in Seq(Candle)
      BY DEF TypeOK
    <2>2. stream \in AllStreams /\ Len(stream["trades"]) <= MaxTrades /\ MaxTrades \in Nat
      BY PipelineConstants DEF TypeOK, AllStreams
    <2>3. ASSUME NEW sec \in Seconds, PublishTrade(sec)
          PROVE  /\ stream' \in AllStreams /\ Len(stream'["trades"]) = Len(stream["trades"]) + 1
                 /\ stream'["orders"] = stream["orders"] /\ stream'["candles"] = stream["candles"]
                 /\ Len(stream'["trades"]) <= MaxTrades
      <3>1. stream' = [stream EXCEPT !["trades"] = Append(@, sec)] /\ Len(stream["trades"]) < MaxTrades
        BY <2>3 DEF PublishTrade
      <3>2. /\ stream' \in AllStreams /\ stream'["trades"] = Append(stream["trades"], sec)
            /\ stream'["orders"] = stream["orders"] /\ stream'["candles"] = stream["candles"]
        BY <2>2, <3>1, PublishedTrade DEF Trades
      <3>3. Len(Append(stream["trades"], sec)) = Len(stream["trades"]) + 1 /\ Len(stream["trades"]) \in Nat
        BY <2>1, OneMore
      <3> QED
        BY <2>2, <3>1, <3>2, <3>3
    <2>4. ASSUME PublishOrderUpdate
          PROVE  /\ stream' \in AllStreams /\ Len(stream'["orders"]) = Len(stream["orders"]) + 1
                 /\ stream'["trades"] = stream["trades"] /\ stream'["candles"] = stream["candles"]
      <3>1. stream' = [stream EXCEPT !["orders"] = Append(@, 0)]
        BY <2>4 DEF PublishOrderUpdate
      <3>2. 0 \in {0}
        OBVIOUS
      <3> QED
        BY <2>1, <2>2, <3>1, <3>2, PublishedUpdate, OneMore
    <2>5. Len(stream["trades"]) \in Nat /\ Len(stream["orders"]) \in Nat /\ Len(stream["candles"]) \in Nat
      BY <2>1
    <2> QED
      BY <2>2, <2>3, <2>4, <2>5 DEF AllStreams
  <1>3. \A d \in Consumers : delivered[d] <= Len(stream'[Of(d)])
    <2> TAKE d \in Consumers
    <2>1. delivered[d] \in Nat /\ delivered[d] <= Len(stream[Of(d)])
      BY DEF TypeOK
    <2>2. /\ Len(stream[Of(d)]) \in Nat /\ Len(stream'[Of(d)]) \in Nat
          /\ Len(stream[Of(d)]) <= Len(stream'[Of(d)])
      BY <1>2, StreamTypes
    <2> QED
      BY <2>1, <2>2
  <1>4. steady' \in BOOLEAN /\ disturbed' \in BOOLEAN
    BY <1>1 DEF TypeOK
  <1> QED
    BY <1>1, <1>2, <1>3, <1>4 DEF TypeOK

LEMMA StepType ==
  ASSUME TypeOK, [Next]_vars
  PROVE  TypeOK'
  <1>1. deployed \subseteq Consumers
    BY PipelineConstants DEF TypeOK
  <1>2. CASE UNCHANGED vars
    BY <1>2 DEF vars, TypeOK
  <1> QED
    BY <1>1, <1>2, ServerType, PublishType, ReadingTypes, ProcessTradeType, InsertType,
       InsertBatchType DEF Next, Handling

LEMMA InitType ==
  ASSUME Init
  PROVE  TypeOK
  <1>1. Down \in State /\ Down.batch = {}
    BY DEF Down, State
  <1>2. /\ stream \in [trades: Seq(Seconds), orders: Seq({0}), candles: Seq(Candle)]
        /\ Len(stream["trades"]) = 0 /\ Len(stream["orders"]) = 0 /\ Len(stream["candles"]) = 0
    BY DEF Init
  <1>3. /\ delivered \in [Consumers -> Nat] /\ pending \in [Consumers -> SUBSET Nat]
        /\ written \in [Writers -> SUBSET Nat] /\ at \in [Consumers -> State]
        /\ rows \in [Seconds -> Seq(1..MaxTrades)]
        /\ \A c \in Consumers : delivered[c] = 0 /\ pending[c] = {} /\ at[c].batch = {}
        /\ \A c \in Writers : written[c] = {}
    BY <1>1 DEF Init
  <1>4. \A c \in Consumers : delivered[c] <= Len(stream[Of(c)])
    <2>1. \A c \in Consumers : Of(c) = "trades" \/ Of(c) = "orders" \/ Of(c) = "candles"
      BY DEF Of, Consumers
    <2> QED
      BY <1>2, <1>3, <2>1
  <1>5. steady \in BOOLEAN /\ disturbed \in BOOLEAN
    BY DEF Init
  <1> QED
    BY <1>2, <1>3, <1>4, <1>5, PipelineConstants DEF Init, TypeOK, State

(* Every variable has its type: no consumer holds a message that is not      *)
(* pending in its group, and nothing is pending, held or written that was    *)
(* not delivered, whatever fails and whenever the server crashes.            *)
THEOREM PipelineTypeCorrect == Spec => []TypeOK
  <1>1. Init => TypeOK
    BY InitType
  <1>2. TypeOK /\ [Next]_vars => TypeOK'
    BY StepType
  <1> QED
    BY <1>1, <1>2, PTL DEF Spec

-----------------------------------------------------------------------------
(* What is acknowledged is in the database *)

AckInv == TypeOK /\ AckedIsWritten

LEMMA StepAcked ==
  ASSUME AckInv, [Next]_vars
  PROVE  AckInv'
  <1>1. TypeOK'
    BY StepType DEF AckInv
  <1>2. deployed \subseteq Consumers
    BY PipelineConstants DEF AckInv, TypeOK
  <1> SUFFICES AckedIsWritten'
    BY <1>1 DEF AckInv
  <1>3. ASSUME NEW c \in Consumers, Poll(c)
        PROVE  AckedIsWritten'
    <2>1. written' = written
      BY <1>3 DEF Poll
    <2>2. PICK upto \in Nat :
            LET new == (delivered[c] + 1)..upto
            IN  /\ delivered' = [delivered EXCEPT ![c] = upto]
                /\ pending' = [pending EXCEPT ![c] = pending[c] \cup new]
      BY <1>3, PollReads DEF AckInv
    <2> DEFINE new == (delivered[c] + 1)..upto
    <2>3. /\ delivered'[c] = upto /\ pending'[c] = pending[c] \cup new
          /\ \A d \in Consumers : d # c => delivered'[d] = delivered[d] /\ pending'[d] = pending[d]
          /\ delivered[c] \in Nat
      BY <2>2 DEF AckInv, TypeOK
    <2>4. (1..delivered'[c]) \ pending'[c] \subseteq (1..delivered[c]) \ pending[c]
      BY <2>3
    <2>5. \A d \in Writers : (1..delivered'[d]) \ pending'[d] \subseteq (1..delivered[d]) \ pending[d]
      BY <2>3, <2>4 DEF Writers
    <2> QED
      BY <2>1, <2>5 DEF AckInv, AckedIsWritten
  <1>4. ASSUME NEW c \in {"trade-writer", "order-writer"}, InsertRow(c)
        PROVE  AckedIsWritten'
    <2>1. c \in Consumers /\ c \in Writers /\ HasMessage(c)
      BY <1>4 DEF InsertRow, Consumers, Writers
    <2>2. /\ pending[c] \ {Message(c)} \subseteq pending'[c]
          /\ \A d \in Consumers : d # c => pending'[d] = pending[d]
      BY <1>4, <2>1, AcknowledgeDoes DEF InsertRow, AckInv
    <2>3. /\ written'[c] = written[c] \cup {Message(c)} /\ delivered' = delivered
          /\ \A d \in Writers : d # c => written'[d] = written[d]
      BY <1>4, <2>1 DEF InsertRow, AckInv, TypeOK
    <2> QED
      BY <2>1, <2>2, <2>3 DEF AckInv, AckedIsWritten, Writers
  <1>5. CASE InsertBatch
    <2> DEFINE c == "candle-writer"
    <2>1. c \in Consumers /\ c \in Writers
      BY ConsumersAre DEF Writers
    <2>2. /\ pending[c] \ at[c].batch \subseteq pending'[c]
          /\ \A d \in Consumers : d # c => pending'[d] = pending[d]
      BY <1>5, <2>1, AcknowledgeDoes DEF InsertBatch, AckInv
    <2>3. /\ written'[c] = written[c] \cup at[c].batch /\ delivered' = delivered
          /\ \A d \in Writers : d # c => written'[d] = written[d]
      BY <1>5, <2>1 DEF InsertBatch, AckInv, TypeOK
    <2> HIDE DEF c
    <2> QED
      BY <2>1, <2>2, <2>3 DEF AckInv, AckedIsWritten, Writers
  <1>6. CASE ProcessTrade
    <2>1. /\ written' = written /\ delivered' = delivered
          /\ \A d \in Consumers : d # builder => pending'[d] = pending[d]
      BY <1>6, ProcessTradeDoes DEF AckInv
    <2>2. \A d \in Writers : d \in Consumers /\ d # builder
      BY DEF Writers, builder
    <2> QED
      BY <2>1, <2>2 DEF AckInv, AckedIsWritten
  <1>7. CASE UNCHANGED <<written, pending, delivered>>
    BY <1>7 DEF AckInv, AckedIsWritten
  <1>8. ASSUME NEW c \in Consumers, Reading(c)
        PROVE  AckedIsWritten'
    BY <1>3, <1>7, <1>8 DEF Reading, Drain, DrainEnds, GroupFails
  <1>9. CASE Handling
    BY <1>4, <1>5, <1>6, <1>7, <1>9 DEF Handling, InsertFails, InsertBatchFails
  <1>10. CASE \/ Start \/ Crash \/ PublishOrderUpdate \/ UNCHANGED vars
              \/ \E sec \in Seconds : PublishTrade(sec)
    BY <1>7, <1>10 DEF Start, Crash, PublishTrade, PublishOrderUpdate, vars
  <1> QED
    BY <1>2, <1>8, <1>9, <1>10 DEF Next

(* A message that a writer has acknowledged is in the database: one that is  *)
(* not there is pending or still to be delivered, after any number of        *)
(* crashes and failed writes, acknowledgements and reads.                    *)
THEOREM AcknowledgedIsWritten == Spec => []AckedIsWritten
  <1>1. Init => AckInv
    <2> SUFFICES ASSUME Init PROVE AckInv
      OBVIOUS
    <2>1. \A c \in Writers : delivered[c] = 0
      BY DEF Init, Writers
    <2> QED
      BY <2>1, InitType DEF AckInv, AckedIsWritten
  <1>2. AckInv /\ [Next]_vars => AckInv'
    BY StepAcked
  <1>3. AckInv => AckedIsWritten
    BY DEF AckInv
  <1> QED
    BY <1>1, <1>2, <1>3, PTL DEF Spec

-----------------------------------------------------------------------------
(* A candle counts each trade of its second once *)

(* A step of one consumer; only one that is deployed has steps. *)
LEMMA UndeployedRest ==
  ASSUME TypeOK, Undeployed, [Next]_vars
  PROVE  Undeployed'
  <1>1. deployed' = deployed
    BY DEF Next, Start, Crash, PublishTrade, PublishOrderUpdate, Reading, Drain, DrainEnds,
           GroupFails, Poll, Handling, ProcessTrade, InsertRow, InsertFails, InsertBatch,
           InsertBatchFails, vars
  <1>2. ASSUME NEW c \in Consumers, HasMessage(c)
        PROVE  c \in deployed
    BY <1>2 DEF HasMessage, Undeployed, Down
  <1>3. ASSUME NEW c, c \in deployed, NEW b, at' = [at EXCEPT ![c] = b]
        PROVE  Undeployed'
    BY <1>1, <1>3 DEF Undeployed, TypeOK
  <1>4. CASE Handling
    <2>1. ASSUME NEW c \in Consumers, HasMessage(c), Handled(c) PROVE Undeployed'
      BY <1>2, <1>3, <2>1 DEF Handled
    <2>2. CASE ProcessTrade
      BY <2>1, <2>2 DEF ProcessTrade, Consumers
    <2>3. ASSUME NEW c \in {"trade-writer", "order-writer"}, InsertRow(c) \/ InsertFails(c)
          PROVE  Undeployed'
      BY <2>1, <2>3 DEF InsertRow, InsertFails, Consumers
    <2>4. CASE InsertBatch \/ InsertBatchFails
      <3>1. "candle-writer" \in deployed
        BY <1>2, <2>4 DEF InsertBatch, InsertBatchFails, BatchReady, Consumers
      <3> QED
        BY <1>3, <2>4, <3>1 DEF InsertBatch, InsertBatchFails
    <2> QED
      BY <1>4, <2>2, <2>3, <2>4 DEF Handling
  <1>5. ASSUME NEW c \in deployed, Reading(c)
        PROVE  Undeployed'
    <2>1. CASE Drain(c) \/ DrainEnds(c) \/ GroupFails(c)
      BY <1>3, <2>1 DEF Drain, DrainEnds, GroupFails
    <2>2. CASE Poll(c)
      <3>1. at' = at \/ \E b : at' = [at EXCEPT ![c] = b]
        BY <2>2 DEF Poll
      <3> QED
        BY <1>1, <1>3, <3>1 DEF Undeployed
    <2> QED
      BY <1>5, <2>1, <2>2 DEF Reading
  <1>6. CASE Start \/ Crash
    BY <1>1, <1>6 DEF Start, Crash, Undeployed
  <1>7. CASE \/ PublishOrderUpdate \/ UNCHANGED vars
             \/ \E sec \in Seconds : PublishTrade(sec)
    BY <1>1, <1>7 DEF PublishTrade, PublishOrderUpdate, vars, Undeployed
  <1> QED
    BY <1>4, <1>5, <1>6, <1>7 DEF Next

(* Trades are only added. *)
LEMMA TradesStay ==
  ASSUME TypeOK, TypeOK', [Next]_vars
  PROVE  /\ DOMAIN Trades \subseteq DOMAIN Trades'
         /\ \A i \in DOMAIN Trades : Trades'[i] = Trades[i]
  <1>1. ASSUME NEW sec \in Seconds, PublishTrade(sec)
        PROVE  /\ DOMAIN Trades \subseteq DOMAIN Trades'
               /\ \A i \in DOMAIN Trades : Trades'[i] = Trades[i]
    <2>1. stream \in AllStreams /\ Trades \in Seq(Seconds)
      BY StreamTypes DEF TypeOK, AllStreams
    <2>2. Trades' = Append(Trades, sec)
      BY <1>1, <2>1, PublishedTrade DEF PublishTrade
    <2>3. /\ DOMAIN Append(Trades, sec) = 1..(Len(Trades) + 1) /\ DOMAIN Trades = 1..Len(Trades)
          /\ Len(Trades) \in Nat
          /\ \A i \in 1..Len(Trades) : Append(Trades, sec)[i] = Trades[i]
      BY <2>1, OneMore
    <2> QED
      BY <2>2, <2>3
  <1>2. CASE PublishOrderUpdate
    <2>1. stream \in AllStreams
      BY DEF TypeOK, AllStreams
    <2> QED
      BY <1>2, <2>1, PublishedUpdate DEF PublishOrderUpdate, Trades
  <1>3. CASE ProcessTrade
    BY <1>3, ProcessTradeDoes
  <1>4. CASE stream' = stream
    BY <1>4 DEF Trades
  <1> QED
    BY <1>1, <1>2, <1>3, <1>4
    DEF Next, Start, Crash, Reading, Drain, DrainEnds, GroupFails, Poll, Handling, InsertRow,
        InsertFails, InsertBatch, InsertBatchFails, vars

LEMMA CountsStill ==
  ASSUME TypeOK, TypeOK', [Next]_vars, NEW cd, CountsItsOwn(cd)
  PROVE  /\ IsInjective(cd.trades)
         /\ \A i \in DOMAIN cd.trades : /\ cd.trades[i] \in DOMAIN Trades'
                                        /\ Trades'[cd.trades[i]] = cd.second
  BY TradesStay DEF CountsItsOwn

LEMMA CandlesGrow ==
  ASSUME TypeOK, [Next]_vars
  PROVE  \/ stream'["candles"] = stream["candles"]
         \/ /\ ProcessTrade /\ IsOpen /\ open.second # Trades[Message(builder)]
            /\ stream'["candles"] = Append(stream["candles"], open)
  <1>1. CASE ProcessTrade /\ stream' # stream
    BY <1>1, ProcessTradeDoes
  <1>2. CASE stream' = stream
    BY <1>2
  <1>3. ASSUME NEW sec \in Seconds, PublishTrade(sec)
        PROVE  stream'["candles"] = stream["candles"]
    BY <1>3, PublishedTrade DEF PublishTrade, TypeOK, AllStreams
  <1>4. CASE PublishOrderUpdate
    BY <1>4, PublishedUpdate DEF PublishOrderUpdate, TypeOK, AllStreams
  <1> QED
    BY <1>1, <1>2, <1>3, <1>4
    DEF Next, Start, Crash, Reading, Drain, DrainEnds, GroupFails, Poll, Handling, InsertRow,
        InsertFails, InsertBatch, InsertBatchFails, vars

LEMMA CandlesStay ==
  ASSUME TypeOK, [Next]_vars
  PROVE  /\ \A i \in DOMAIN stream'["candles"] :
              \/ i \in DOMAIN stream["candles"] /\ stream'["candles"][i] = stream["candles"][i]
              \/ /\ ProcessTrade /\ IsOpen /\ open.second # Trades[Message(builder)]
                 /\ stream'["candles"][i] = open
         /\ \A i \in DOMAIN stream["candles"] :
              i \in DOMAIN stream'["candles"] /\ stream'["candles"][i] = stream["candles"][i]
  <1>1. CASE stream'["candles"] = stream["candles"]
    BY <1>1
  <1>2. ASSUME ProcessTrade, IsOpen, open.second # Trades[Message(builder)],
               stream'["candles"] = Append(stream["candles"], open)
        PROVE  /\ \A i \in DOMAIN stream'["candles"] :
                    \/ i \in DOMAIN stream["candles"] /\ stream'["candles"][i] = stream["candles"][i]
                    \/ stream'["candles"][i] = open
               /\ \A i \in DOMAIN stream["candles"] :
                    i \in DOMAIN stream'["candles"] /\ stream'["candles"][i] = stream["candles"][i]
    <2>1. open \in Candle /\ stream["candles"] \in Seq(Candle)
      BY <1>2, StreamTypes DEF IsOpen, TypeOK
    <2>2. /\ DOMAIN Append(stream["candles"], open) = 1..(Len(stream["candles"]) + 1)
          /\ DOMAIN stream["candles"] = 1..Len(stream["candles"]) /\ Len(stream["candles"]) \in Nat
          /\ Append(stream["candles"], open)[Len(stream["candles"]) + 1] = open
          /\ \A i \in 1..Len(stream["candles"]) : Append(stream["candles"], open)[i] = stream["candles"][i]
      BY <2>1, OneMore
    <2>3. \A i \in 1..(Len(stream["candles"]) + 1) :
            i \in 1..Len(stream["candles"]) \/ i = Len(stream["candles"]) + 1
      BY <2>2
    <2> QED
      BY <1>2, <2>2, <2>3
  <1> QED
    BY <1>1, <1>2, CandlesGrow

(* The builder and its open candle change by its own steps only. *)
LEMMA BuilderRests ==
  ASSUME TypeOK, [Next]_vars,
         ~Start, ~Crash, ~ProcessTrade, ~(builder \in deployed /\ Reading(builder))
  PROVE  at'[builder] = at[builder] /\ delivered'[builder] = delivered[builder] /\ open' = open
  <1>1. builder \in Consumers /\ deployed \subseteq Consumers
    BY ConsumersAre, PipelineConstants DEF TypeOK
  <1>2. ASSUME NEW c \in deployed, Reading(c), c # builder
        PROVE  at'[builder] = at[builder] /\ delivered'[builder] = delivered[builder] /\ open' = open
    BY <1>1, <1>2 DEF Reading, Drain, DrainEnds, GroupFails, Poll, TypeOK
  <1>3. ASSUME NEW c \in {"trade-writer", "order-writer"}, InsertRow(c) \/ InsertFails(c)
        PROVE  at'[builder] = at[builder] /\ delivered'[builder] = delivered[builder] /\ open' = open
    <2>1. c # builder
      BY DEF builder
    <2> QED
      BY <1>1, <1>3, <2>1 DEF InsertRow, InsertFails, Handled, TypeOK
  <1>4. CASE InsertBatch \/ InsertBatchFails
    BY <1>1, <1>4 DEF InsertBatch, InsertBatchFails, builder, TypeOK
  <1>5. CASE \/ PublishOrderUpdate \/ UNCHANGED vars
             \/ \E sec \in Seconds : PublishTrade(sec)
    BY <1>5 DEF PublishTrade, PublishOrderUpdate, vars
  <1> QED
    BY <1>2, <1>3, <1>4, <1>5 DEF Next, Handling

(* After a start the builder has no open candle. *)
LEMMA StartsWithNone ==
  ASSUME TypeOK, Undeployed, CursorIsAhead, Start
  PROVE  ~IsOpen
  <1>1. at[builder].phase = "down"
    BY ConsumersAre DEF Start, Up, Undeployed, Down
  <1> QED
    BY <1>1 DEF CursorIsAhead

LEMMA OpenCounts ==
  ASSUME CountInv, TypeOK', [Next]_vars, IsOpen'
  PROVE  CountsItsOwn(open)'
  <1>1. CASE ProcessTrade
    <2> DEFINE m == Message(builder)
    <2>1. /\ m \in at[builder].batch /\ m \in DOMAIN Trades /\ m \in Nat
          /\ open' = Counting(m) /\ Trades' = Trades
      BY <1>1, ProcessTradeDoes, NextMessage, ConsumersAre DEF CountInv
    <2> HIDE DEF m
    <2>2. CASE open = NoCandle \/ open.second # Trades[m]
      <3>1. open' = [second |-> Trades[m], trades |-> <<m>>]
        BY <2>1, <2>2 DEF Counting, Trades
      <3>2. DOMAIN <<m>> = {1} /\ <<m>>[1] = m
        OBVIOUS
      <3> QED
        BY <2>1, <3>1, <3>2 DEF CountsItsOwn, IsInjective
    <2>3. CASE open # NoCandle /\ open.second = Trades[m]
      <3>1. open' = [open EXCEPT !.trades = Append(open.trades, m)]
        BY <2>1, <2>3 DEF Counting, Trades
      <3>2. open \in Candle /\ open.trades \in Seq(1..MaxTrades)
        BY <2>3 DEF CountInv, TypeOK, Candle
      <3>3. open'.second = open.second /\ open'.trades = Append(open.trades, m)
        BY <3>1, <3>2 DEF Candle
      <3>4. \A i \in DOMAIN open.trades : open.trades[i] < m
        BY <2>1, <2>3 DEF CountInv, CursorIsAhead, IsOpen
      <3>5. open.trades \in Seq(Nat)
        BY <3>2, PipelineConstants
      <3>6. /\ DOMAIN Append(open.trades, m) = 1..(Len(open.trades) + 1)
            /\ DOMAIN open.trades = 1..Len(open.trades) /\ Len(open.trades) \in Nat
            /\ Append(open.trades, m)[Len(open.trades) + 1] = m
            /\ \A i \in 1..Len(open.trades) : Append(open.trades, m)[i] = open.trades[i]
        BY <2>1, <3>5, OneMore
      <3>7. CountsItsOwn(open)
        BY <2>3 DEF CountInv, IsOpen
      <3>8. \A i \in 1..(Len(open.trades) + 1) : i \in 1..Len(open.trades) \/ i = Len(open.trades) + 1
        BY <3>6
      <3>9. \A i \in 1..Len(open.trades) : open.trades[i] \in Nat /\ open.trades[i] # m
        BY <2>1, <3>4, <3>5, <3>6
      <3>10. IsInjective(Append(open.trades, m))
        BY <3>6, <3>7, <3>8, <3>9 DEF CountsItsOwn, IsInjective
      <3>11. \A i \in DOMAIN Append(open.trades, m) :
               /\ Append(open.trades, m)[i] \in DOMAIN Trades
               /\ Trades[Append(open.trades, m)[i]] = open.second
        BY <2>1, <2>3, <3>6, <3>7, <3>8 DEF CountsItsOwn
      <3> QED
        BY <2>1, <3>3, <3>10, <3>11 DEF CountsItsOwn
    <2> QED
      BY <2>2, <2>3
  <1>2. CASE open' = open
    BY <1>2, CountsStill DEF CountInv, CountsItsOwn, IsOpen
  <1>3. CASE Start \/ Crash
    BY <1>2, <1>3 DEF Start, Crash, IsOpen
  <1>4. CASE builder \in deployed /\ Reading(builder)
    BY <1>2, <1>4 DEF Reading, Drain, DrainEnds, GroupFails, Poll
  <1> QED
    BY <1>1, <1>2, <1>3, <1>4, BuilderRests DEF CountInv

LEMMA BuilderTypes ==
  ASSUME TypeOK
  PROVE  /\ at[builder] \in State /\ at[builder].batch \subseteq pending[builder]
         /\ pending[builder] \subseteq 1..delivered[builder] /\ delivered[builder] \in Nat
         /\ at[builder].cursor \in Nat
         /\ IsOpen => open.trades \in Seq(Nat)
  <1>1. /\ at[builder] \in State /\ at[builder].batch \subseteq pending[builder]
        /\ pending[builder] \subseteq 1..delivered[builder] /\ delivered[builder] \in Nat
    BY ConsumersAre DEF TypeOK, State
  <1>2. IsOpen => open.trades \in Seq(1..MaxTrades)
    BY DEF TypeOK, IsOpen, Candle
  <1> QED
    BY <1>1, <1>2, PipelineConstants DEF State

LEMMA DrainCursor ==
  ASSUME CountInv, Drain(builder)
  PROVE  CursorIsAhead'
  <1>1. PICK read \in SUBSET Left(builder) :
          /\ at[builder].phase = "drain"
          /\ Max(read) \in read /\ \A m \in read : m <= Max(read)
          /\ at' = [at EXCEPT ![builder] = [at[builder] EXCEPT !.batch = at[builder].batch \cup read,
                                                               !.cursor = Max(read)]]
    BY DrainReads, ConsumersAre DEF CountInv
  <1>2. /\ at'[builder].phase = "drain" /\ at'[builder].cursor = Max(read)
        /\ at'[builder].batch = at[builder].batch \cup read
        /\ open' = open /\ delivered' = delivered
    <2>1. at[builder] \in State /\ at \in [Consumers -> State] /\ builder \in Consumers
      BY BuilderTypes, ConsumersAre DEF CountInv, TypeOK, State
    <2>2. at'[builder] = [at[builder] EXCEPT !.batch = at[builder].batch \cup read, !.cursor = Max(read)]
      BY <1>1, <2>1
    <2>3. open' = open /\ delivered' = delivered
      BY DEF Drain
    <2> QED
      BY <1>1, <2>1, <2>2, <2>3 DEF State
  <1>3. /\ \A m \in read : m \in Nat /\ m <= delivered[builder] /\ m > at[builder].cursor
        /\ at[builder].batch \subseteq 1..at[builder].cursor
        /\ at[builder].cursor \in Nat /\ delivered[builder] \in Nat
    BY <1>1, BuilderTypes DEF Left, CountInv, CursorIsAhead
  <1> DEFINE x == Max(read)
  <1>4. x \in Nat /\ x <= delivered[builder] /\ x > at[builder].cursor /\ \A m \in read : m <= x
    BY <1>1, <1>3
  <1>5. at'[builder].batch \subseteq 1..x
    <2> HIDE DEF x
    <2> QED
      BY <1>2, <1>3, <1>4
  <1>6. ASSUME IsOpen, NEW i \in DOMAIN open.trades
        PROVE  /\ open.trades[i] <= delivered[builder] /\ open.trades[i] <= x
               /\ \A n \in at[builder].batch \cup read : open.trades[i] < n
    <2>1. /\ open.trades[i] \in Nat /\ open.trades[i] <= at[builder].cursor
          /\ \A n \in at[builder].batch : open.trades[i] < n
      BY <1>1, <1>6, BuilderTypes DEF CountInv, CursorIsAhead
    <2> HIDE DEF x
    <2> QED
      BY <1>3, <1>4, <2>1
  <1> QED
    BY <1>2, <1>4, <1>5, <1>6 DEF CountInv, CursorIsAhead, IsOpen

LEMMA PollCursor ==
  ASSUME CountInv, Poll(builder)
  PROVE  CursorIsAhead'
  <1>1. PICK upto \in Nat :
          /\ at[builder].phase = "poll" /\ delivered[builder] < upto
          /\ delivered' = [delivered EXCEPT ![builder] = upto]
          /\ at' = at \/ at' = [at EXCEPT ![builder].batch
                                  = at[builder].batch \cup ((delivered[builder] + 1)..upto)]
    BY PollReads, ConsumersAre DEF CountInv
  <1>2. open' = open
    BY DEF Poll
  <1>3. /\ at'[builder].phase = "poll" /\ at'[builder].cursor = at[builder].cursor
        /\ at'[builder].batch \subseteq at[builder].batch \cup ((delivered[builder] + 1)..upto)
        /\ delivered'[builder] = upto
    BY <1>1, ConsumersAre DEF CountInv, TypeOK
  <1>4. delivered[builder] \in Nat /\ at[builder].cursor \in Nat
    BY BuilderTypes DEF CountInv
  <1>5. ASSUME IsOpen, NEW i \in DOMAIN open.trades
        PROVE  open.trades[i] <= upto /\ \A n \in at'[builder].batch : open.trades[i] < n
    <2>1. /\ open.trades[i] \in Nat /\ open.trades[i] <= delivered[builder]
          /\ \A n \in at[builder].batch : open.trades[i] < n
      BY <1>5, BuilderTypes DEF CountInv, CursorIsAhead
    <2> QED
      BY <1>1, <1>3, <1>4, <2>1
  <1>6. at[builder].cursor <= upto
    BY <1>1, <1>4 DEF CountInv, CursorIsAhead
  <1> QED
    BY <1>1, <1>2, <1>3, <1>5, <1>6 DEF CountInv, CursorIsAhead, IsOpen

LEMMA ProcessTradeCursor ==
  ASSUME CountInv, TypeOK', ProcessTrade
  PROVE  CursorIsAhead'
  <1> DEFINE m == Message(builder)
  <1>1. /\ at'[builder].phase = at[builder].phase /\ at'[builder].cursor = at[builder].cursor
        /\ at'[builder].batch = at[builder].batch \ {m} /\ delivered' = delivered
        /\ m \in at[builder].batch /\ m \in Nat /\ m <= delivered[builder]
        /\ \A n \in at[builder].batch : m <= n
        /\ open' = Counting(m) /\ at[builder].phase \in {"drain", "poll"}
    BY ProcessTradeDoes, BuilderTypes DEF CountInv, HasMessage
  <1>2. /\ at[builder].batch \subseteq Nat /\ delivered[builder] \in Nat
        /\ at[builder].phase = "drain" => m <= at[builder].cursor
    BY <1>1, BuilderTypes DEF CountInv, CursorIsAhead, State
  <1> HIDE DEF m
  <1>3. \A n \in at'[builder].batch : m < n
    BY <1>1, <1>2
  <1>4. CASE open = NoCandle \/ open.second # Trades[m]
    <2>1. open' = [second |-> Trades[m], trades |-> <<m>>]
      BY <1>1, <1>4 DEF Counting, Trades
    <2>2. DOMAIN <<m>> = {1} /\ <<m>>[1] = m /\ <<m>> # <<>>
      OBVIOUS
    <2> QED
      BY <1>1, <1>2, <1>3, <2>1, <2>2 DEF CountInv, CursorIsAhead
  <1>5. CASE open # NoCandle /\ open.second = Trades[m]
    <2>1. open' = [open EXCEPT !.trades = Append(open.trades, m)] /\ IsOpen
      BY <1>1, <1>5 DEF Counting, Trades, IsOpen
    <2>2. open'.trades = Append(open.trades, m) /\ open.trades \in Seq(Nat)
      BY <2>1, BuilderTypes DEF CountInv, TypeOK, Candle, IsOpen
    <2>3. /\ DOMAIN open'.trades = 1..(Len(open.trades) + 1)
          /\ DOMAIN open.trades = 1..Len(open.trades) /\ Len(open.trades) \in Nat
          /\ open'.trades[Len(open.trades) + 1] = m
          /\ \A i \in 1..Len(open.trades) : open'.trades[i] = open.trades[i]
      BY <1>1, <2>2, OneMore
    <2>4. open'.trades # <<>>
      BY <2>3
    <2>5. ASSUME NEW i \in DOMAIN open'.trades
          PROVE  \/ i \in DOMAIN open.trades /\ open'.trades[i] = open.trades[i]
                 \/ open'.trades[i] = m
      <3>1. i \in 1..Len(open.trades) \/ i = Len(open.trades) + 1
        BY <2>3
      <3> QED
        BY <2>3, <3>1
    <2>6. ASSUME NEW i \in DOMAIN open'.trades
          PROVE  /\ open'.trades[i] <= delivered[builder]
                 /\ at[builder].phase = "drain" => open'.trades[i] <= at[builder].cursor
                 /\ \A n \in at'[builder].batch : open'.trades[i] < n
      <3>1. CASE open'.trades[i] = m
        BY <1>1, <1>2, <1>3, <3>1
      <3>2. CASE i \in DOMAIN open.trades /\ open'.trades[i] = open.trades[i]
        BY <1>1, <2>1, <3>2 DEF CountInv, CursorIsAhead
      <3> QED
        BY <2>5, <3>1, <3>2
    <2> QED
      BY <1>1, <1>2, <2>4, <2>6 DEF CountInv, CursorIsAhead
  <1> QED
    BY <1>4, <1>5

LEMMA StepCursor ==
  ASSUME CountInv, TypeOK', [Next]_vars
  PROVE  CursorIsAhead'
  <1>1. CASE Start
    <2>1. ~IsOpen /\ open' = open /\ delivered' = delivered
      BY <1>1, StartsWithNone DEF CountInv, Start
    <2>2. at'[builder].cursor = 0 /\ at'[builder].batch = {}
      BY <1>1, ConsumersAre DEF Start, Down
    <2> QED
      BY <2>1, <2>2, BuilderTypes DEF CountInv, CursorIsAhead, IsOpen
  <1>2. CASE Crash
    <2>1. ~IsOpen' /\ delivered' = delivered
      BY <1>2 DEF Crash, IsOpen
    <2>2. at'[builder].cursor = 0 /\ at'[builder].batch = {}
      BY <1>2, ConsumersAre DEF Crash, Down
    <2> QED
      BY <2>1, <2>2, BuilderTypes DEF CountInv, CursorIsAhead
  <1>3. CASE DrainEnds(builder)
    <2>1. /\ at'[builder].phase = "poll" /\ at'[builder].cursor = at[builder].cursor
          /\ at'[builder].batch = {} /\ open' = open /\ delivered' = delivered
          /\ at[builder].phase = "drain"
      BY <1>3, ConsumersAre DEF DrainEnds, CountInv, TypeOK
    <2> QED
      BY <2>1 DEF CountInv, CursorIsAhead, IsOpen
  <1>4. CASE GroupFails(builder)
    <2>1. /\ at'[builder].phase = "ended" /\ at'[builder].cursor = at[builder].cursor
          /\ at'[builder].batch = {} /\ open' = open /\ delivered' = delivered
          /\ at[builder].phase = "drain" /\ at[builder].cursor = 0
      BY <1>4, ConsumersAre DEF GroupFails, CountInv, TypeOK, Down
    <2>2. ~IsOpen
      <3> SUFFICES ASSUME IsOpen PROVE FALSE
        OBVIOUS
      <3>1. open.trades \in Seq(1..MaxTrades) /\ open.trades # <<>>
        BY DEF CountInv, TypeOK, IsOpen, Candle, CursorIsAhead
      <3>2. 1 \in DOMAIN open.trades /\ open.trades[1] >= 1
        BY <3>1, PipelineConstants
      <3> QED
        BY <2>1, <3>1, <3>2, PipelineConstants DEF CountInv, CursorIsAhead
    <2> QED
      BY <2>1, <2>2 DEF CountInv, CursorIsAhead, IsOpen
  <1>5. CASE at'[builder] = at[builder] /\ delivered'[builder] = delivered[builder] /\ open' = open
    BY <1>5 DEF CountInv, CursorIsAhead, IsOpen
  <1> QED
    BY <1>1, <1>2, <1>3, <1>4, <1>5, DrainCursor, PollCursor, ProcessTradeCursor, BuilderRests
    DEF Reading, CountInv

LEMMA StepCounts ==
  ASSUME CountInv, [Next]_vars
  PROVE  CountInv'
  <1>1. TypeOK' /\ Undeployed'
    BY StepType, UndeployedRest DEF CountInv
  <1>2. ASSUME NEW i \in DOMAIN stream'["candles"]
        PROVE  CountsItsOwn(stream["candles"][i])'
    <2>1. CASE i \in DOMAIN stream["candles"] /\ stream'["candles"][i] = stream["candles"][i]
      <3>1. CountsItsOwn(stream["candles"][i])
        BY <2>1 DEF CountInv
      <3> QED
        BY <1>1, <2>1, <3>1, CountsStill DEF CountInv, CountsItsOwn
    <2>2. CASE IsOpen /\ stream'["candles"][i] = open
      <3>1. CountsItsOwn(open)
        BY <2>2 DEF CountInv
      <3> QED
        BY <1>1, <2>2, <3>1, CountsStill DEF CountInv, CountsItsOwn
    <2> QED
      BY <1>1, <1>2, <2>1, <2>2, CandlesStay DEF CountInv
  <1> QED
    BY <1>1, <1>2, OpenCounts, StepCursor DEF CountInv

LEMMA InitCounts ==
  ASSUME Init
  PROVE  CountInv
  <1>1. /\ open = NoCandle /\ DOMAIN stream["candles"] = {}
        /\ \A c \in Consumers : at[c] = Down /\ delivered[c] = 0
    BY DEF Init
  <1>2. at[builder].cursor = 0 /\ at[builder].batch = {} /\ at[builder].phase = "down"
    BY <1>1, ConsumersAre DEF Down
  <1> QED
    BY <1>1, <1>2, InitType, ConsumersAre DEF CountInv, CursorIsAhead, IsOpen, Undeployed

-----------------------------------------------------------------------------
(* Rows are complete *)

LEMMA StepInOrder ==
  ASSUME TypeOK, TypeOK', InOrder, [Next]_vars
  PROVE  InOrder'
  <1>1. ASSUME NEW sec \in Seconds, PublishTrade(sec)
        PROVE  InOrder'
    <2>1. stream \in AllStreams /\ Trades \in Seq(Seconds)
      BY StreamTypes DEF TypeOK, AllStreams
    <2>2. Trades' = Append(Trades, sec) /\ \A i \in DOMAIN Trades : Trades[i] <= sec
      BY <1>1, <2>1, PublishedTrade DEF PublishTrade, Trades
    <2>3. /\ DOMAIN Trades' = 1..(Len(Trades) + 1) /\ DOMAIN Trades = 1..Len(Trades)
          /\ Len(Trades) \in Nat /\ Trades'[Len(Trades) + 1] = sec /\ sec \in Nat
          /\ \A i \in 1..Len(Trades) : Trades'[i] = Trades[i]
      BY <2>1, <2>2, OneMore, PipelineConstants
    <2> SUFFICES ASSUME NEW i \in DOMAIN Trades', NEW j \in DOMAIN Trades', i <= j
                 PROVE  Trades'[i] <= Trades'[j]
      BY DEF InOrder
    <2>4. CASE j \in 1..Len(Trades)
      <3>1. i \in 1..Len(Trades)
        BY <2>3, <2>4
      <3> QED
        BY <2>3, <2>4, <3>1 DEF InOrder
    <2>5. CASE j = Len(Trades) + 1
      <3>1. i \in 1..Len(Trades) \/ i = Len(Trades) + 1
        BY <2>3
      <3> QED
        BY <2>2, <2>3, <2>5, <3>1
    <2> QED
      BY <2>3, <2>4, <2>5
  <1>2. CASE PublishOrderUpdate
    <2>1. Trades' = Trades
      BY <1>2, PublishedUpdate DEF PublishOrderUpdate, TypeOK, AllStreams, Trades
    <2> QED
      BY <2>1 DEF InOrder
  <1>3. CASE ProcessTrade
    BY <1>3, ProcessTradeDoes DEF InOrder
  <1>4. CASE stream' = stream
    BY <1>4 DEF Trades, InOrder
  <1> QED
    BY <1>1, <1>2, <1>3, <1>4
    DEF Next, Start, Crash, Reading, Drain, DrainEnds, GroupFails, Poll, Handling, InsertRow,
        InsertFails, InsertBatch, InsertBatchFails, vars

(* What is disturbed stays so. *)
LEMMA Undisturbed ==
  ASSUME [Next]_vars, ~disturbed'
  PROVE  ~disturbed /\ ~Crash
  <1>1. ~Crash
    BY DEF Crash
  <1>2. ASSUME NEW c \in deployed, Reading(c)
        PROVE  disturbed' = disturbed
    <2>1. CASE Poll(c)
      BY <2>1 DEF Poll
    <2>2. CASE Drain(c) \/ DrainEnds(c) \/ GroupFails(c)
      BY <2>2 DEF Drain, DrainEnds, GroupFails
    <2> QED
      BY <1>2, <2>1, <2>2 DEF Reading
  <1>3. ASSUME Handling
        PROVE  disturbed' = disturbed
    BY <1>3 DEF Handling, ProcessTrade, InsertRow, InsertFails, InsertBatch, InsertBatchFails
  <1>4. Start \/ (\E sec \in Seconds : PublishTrade(sec)) \/ PublishOrderUpdate => disturbed' = disturbed
    BY DEF Start, PublishTrade, PublishOrderUpdate
  <1> QED
    BY <1>1, <1>2, <1>3, <1>4 DEF Next, vars

(* The builder's read, when the reply arrives *)
LEMMA PolledWhole ==
  ASSUME TypeOK, Poll(builder), ~disturbed'
  PROVE  \E upto \in Nat :
           /\ at[builder].phase = "poll" /\ delivered[builder] < upto
           /\ delivered'[builder] = upto /\ at'[builder].phase = "poll"
           /\ at'[builder].batch = at[builder].batch \cup ((delivered[builder] + 1)..upto)
           /\ open' = open
  <1>1. PICK upto \in Nat :
          /\ at[builder].phase = "poll" /\ delivered[builder] < upto
          /\ delivered' = [delivered EXCEPT ![builder] = upto]
          /\ at' = [at EXCEPT ![builder].batch
                                  = at[builder].batch \cup ((delivered[builder] + 1)..upto)]
    BY PollReads, ConsumersAre
  <1>2. /\ delivered'[builder] = upto /\ at'[builder].phase = "poll"
        /\ at'[builder].batch = at[builder].batch \cup ((delivered[builder] + 1)..upto)
    BY <1>1, ConsumersAre DEF TypeOK
  <1>3. open' = open
    BY DEF Poll
  <1> QED
    BY <1>1, <1>2, <1>3

(* A builder that has been delivered nothing has nothing to drain. *)
LEMMA NothingToDrain ==
  ASSUME TypeOK, NeverBehind
  PROVE  /\ at[builder].phase # "poll" => Processed = {} /\ at[builder].batch = {}
         /\ ~Drain(builder)
  <1>1. ASSUME at[builder].phase # "poll"
        PROVE  delivered[builder] = 0 /\ at[builder].batch = {} /\ pending[builder] = {}
    BY <1>1, BuilderTypes DEF NeverBehind
  <1>2. ~Drain(builder)
    BY <1>1 DEF Drain, Left
  <1> QED
    BY <1>1, <1>2 DEF Processed

LEMMA StepNeverBehind ==
  ASSUME CountInv, NeverBehind, [Next]_vars, ~disturbed'
  PROVE  NeverBehind'
  <1>1. ASSUME delivered'[builder] = 0
        PROVE  NeverBehind'
    BY <1>1 DEF NeverBehind
  <1>2. CASE Start
    <2>1. at[builder].phase = "down"
      BY <1>2, ConsumersAre DEF Start, Up, Undeployed, Down, CountInv
    <2> QED
      BY <1>1, <1>2, <2>1 DEF NeverBehind, Start
  <1>3. CASE DrainEnds(builder) \/ GroupFails(builder)
    <2>1. at[builder].phase # "poll" /\ delivered' = delivered
      BY <1>3 DEF DrainEnds, GroupFails, Down
    <2> QED
      BY <1>1, <2>1 DEF NeverBehind
  <1>4. CASE Poll(builder)
    <2>1. PICK upto \in Nat :
           /\ delivered[builder] < upto
           /\ delivered'[builder] = upto /\ at'[builder].phase = "poll"
           /\ at'[builder].batch = at[builder].batch \cup ((delivered[builder] + 1)..upto)
      BY <1>4, PolledWhole DEF CountInv
    <2>2. delivered[builder] \in Nat /\ at[builder].batch \subseteq 1..delivered[builder]
      BY BuilderTypes DEF CountInv
    <2>3. ASSUME NEW m \in at'[builder].batch, NEW n \in 1..upto, m <= n
          PROVE  n \in at'[builder].batch
      <3>1. CASE n \in 1..delivered[builder]
        <4>1. m \in at[builder].batch
          BY <2>1, <2>2, <2>3, <3>1
        <4> QED
          BY <2>1, <2>3, <3>1, <4>1 DEF NeverBehind
      <3>2. CASE n \in (delivered[builder] + 1)..upto
        BY <2>1, <3>2
      <3> QED
        BY <2>2, <3>1, <3>2
    <2> QED
      BY <2>1, <2>3 DEF NeverBehind
  <1>5. CASE ProcessTrade
    <2> DEFINE m == Message(builder)
    <2>1. /\ at'[builder].phase = at[builder].phase /\ delivered' = delivered
          /\ at'[builder].batch = at[builder].batch \ {m}
          /\ m \in at[builder].batch /\ \A n \in at[builder].batch : m <= n
      BY <1>5, ProcessTradeDoes DEF CountInv
    <2>2. at[builder].batch \subseteq Nat /\ delivered[builder] \in Nat
      BY BuilderTypes DEF CountInv
    <2> HIDE DEF m
    <2>3. ASSUME NEW k \in at'[builder].batch, NEW n \in 1..delivered[builder], k <= n
          PROVE  n \in at'[builder].batch
      <3>1. n \in at[builder].batch
        BY <2>1, <2>3 DEF NeverBehind
      <3>2. m < n
        BY <2>1, <2>2, <2>3
      <3> QED
        BY <2>1, <2>2, <3>1, <3>2
    <2> QED
      BY <2>1, <2>3 DEF NeverBehind
  <1>6. CASE at'[builder] = at[builder] /\ delivered'[builder] = delivered[builder]
    BY <1>6 DEF NeverBehind
  <1> QED
    BY <1>2, <1>3, <1>4, <1>5, <1>6, BuilderRests, NothingToDrain, Undisturbed
    DEF Reading, CountInv

(* What the builder has processed are trades of the stream. *)
LEMMA ProcessedTypes ==
  ASSUME TypeOK
  PROVE  /\ Processed \subseteq DOMAIN Trades /\ Processed \subseteq Nat
         /\ \A i \in DOMAIN Trades : Trades[i] \in Nat /\ i \in Nat
  <1>1. delivered[builder] <= Len(Trades) /\ delivered[builder] \in Nat
    BY ConsumersAre DEF TypeOK, Trades
  <1>2. Trades \in Seq(Seconds) /\ DOMAIN Trades = 1..Len(Trades) /\ Len(Trades) \in Nat
    BY StreamTypes
  <1> QED
    BY <1>1, <1>2, StreamTypes DEF Processed

(* The next trade is after all that were processed, and before the others. *)
LEMMA NextIsBetween ==
  ASSUME TypeOK, InOrder, NeverBehind, ProcessTrade, NEW m, m = Message(builder)
  PROVE  /\ m \in DOMAIN Trades /\ m \notin Processed /\ Processed' = Processed \cup {m}
         /\ \A i \in Processed : i < m /\ Trades[i] <= Trades[m]
         /\ \A i \in (DOMAIN Trades) \ Processed : Trades[m] <= Trades[i]
  <1>1. /\ m \in at[builder].batch /\ m \in 1..delivered[builder] /\ m \in DOMAIN Trades
        /\ \A n \in at[builder].batch : m <= n
        /\ at'[builder].batch = at[builder].batch \ {m} /\ delivered' = delivered
    BY ProcessTradeDoes
  <1>2. at[builder].batch \subseteq Nat /\ delivered[builder] \in Nat
    BY BuilderTypes
  <1>3. Processed' = Processed \cup {m} /\ m \notin Processed
    BY <1>1, <1>2 DEF Processed
  <1>4. ASSUME NEW i \in Processed
        PROVE  i < m /\ Trades[i] <= Trades[m]
    <2>1. i \in 1..delivered[builder] /\ i \notin at[builder].batch /\ i \in DOMAIN Trades
      BY ProcessedTypes DEF Processed
    <2>2. i < m
      BY <1>1, <1>2, <2>1 DEF NeverBehind
    <2> QED
      BY <1>1, <2>1, <2>2, ProcessedTypes DEF InOrder
  <1>5. ASSUME NEW i \in (DOMAIN Trades) \ Processed
        PROVE  Trades[m] <= Trades[i]
    <2>1. i \in Nat /\ i >= 1
      BY StreamTypes
    <2>2. i \in at[builder].batch \/ i > delivered[builder]
      BY <1>2, <2>1 DEF Processed
    <2>3. m <= i
      BY <1>1, <1>2, <2>1, <2>2
    <2> QED
      BY <1>1, <2>3 DEF InOrder
  <1> QED
    BY <1>1, <1>3, <1>4, <1>5

(* The open candle stays complete while nothing is processed. *)
LEMMA SameProcessed ==
  ASSUME TypeOK, TypeOK', [Next]_vars, OpenIsComplete, Processed' = Processed, open' = open
  PROVE  OpenIsComplete'
  <1>1. \A i \in Processed : Trades'[i] = Trades[i]
    BY TradesStay, ProcessedTypes
  <1> QED
    BY <1>1 DEF OpenIsComplete, IsOpen

LEMMA ProcessTradeOpen ==
  ASSUME CountInv, TypeOK', InOrder, NeverBehind, OpenIsComplete, ProcessTrade
  PROVE  OpenIsComplete' /\ IsOpen' /\ open'.second = Trades[Message(builder)]
  <1> DEFINE m == Message(builder)
  <1>1. open' = Counting(m) /\ HasMessage(builder) /\ Trades' = Trades
    BY ProcessTradeDoes DEF CountInv
  <1>2. open' \in Candle /\ IsOpen'
    BY <1>1, CountingType, NoCandleIsNoCandle DEF CountInv, IsOpen
  <1>3. /\ m \in DOMAIN Trades /\ m \notin Processed /\ Processed' = Processed \cup {m}
        /\ \A i \in Processed : Trades[i] <= Trades[m]
    BY NextIsBetween DEF CountInv
  <1> HIDE DEF m
  <1>4. /\ \A i \in DOMAIN Trades : Trades[i] \in Nat /\ i \in Nat
        /\ Processed \subseteq DOMAIN Trades
    BY ProcessedTypes DEF CountInv
  <1>5. CASE ~IsOpen \/ open.second # Trades[m]
    <2>1. open' = [second |-> Trades[m], trades |-> <<m>>]
      BY <1>1, <1>5 DEF Counting, Trades, IsOpen
    <2>2. open'.second = Trades[m] /\ ToSet(open'.trades) = {m}
      BY <2>1 DEF ToSet
    <2>3. ASSUME NEW i \in Processed
          PROVE  Trades[i] # Trades[m]
      <3>1. IsOpen /\ open.second # Trades[m]
        BY <1>5, <2>3 DEF OpenIsComplete
      <3>2. PICK j \in Processed : Trades[j] = open.second
        BY <3>1 DEF OpenIsComplete
      <3>3. Trades[i] <= Trades[j]
        BY <3>1, <3>2 DEF OpenIsComplete
      <3>4. Trades[j] < Trades[m]
        BY <1>3, <1>4, <3>1, <3>2
      <3> QED
        BY <1>3, <1>4, <3>3, <3>4
    <2>4. {i \in Processed' : Trades[i] = Trades[m]} = {m}
      BY <1>3, <2>3
    <2> QED
      BY <1>1, <1>2, <1>3, <1>4, <2>2, <2>4 DEF OpenIsComplete, m
  <1>6. CASE IsOpen /\ open.second = Trades[m]
    <2>1. open' = [open EXCEPT !.trades = Append(open.trades, m)]
      BY <1>1, <1>6 DEF Counting, Trades, IsOpen
    <2>2. /\ open'.trades = Append(open.trades, m) /\ open.trades \in Seq(Nat)
          /\ open'.second = Trades[m]
      BY <1>6, <2>1, BuilderTypes DEF CountInv, TypeOK, Candle, IsOpen
    <2>3. /\ DOMAIN open'.trades = 1..(Len(open.trades) + 1)
          /\ DOMAIN open.trades = 1..Len(open.trades) /\ Len(open.trades) \in Nat
          /\ open'.trades[Len(open.trades) + 1] = m
          /\ \A i \in 1..Len(open.trades) : open'.trades[i] = open.trades[i]
      BY <1>3, <1>4, <2>2, OneMore
    <2>4. ToSet(open'.trades) = ToSet(open.trades) \cup {m}
      <3>1. \A i \in DOMAIN open'.trades : i \in DOMAIN open.trades \/ i = Len(open.trades) + 1
        BY <2>3
      <3>2. Len(open.trades) + 1 \in DOMAIN open'.trades /\ DOMAIN open.trades \subseteq DOMAIN open'.trades
        BY <2>3
      <3> QED
        BY <2>3, <3>1, <3>2 DEF ToSet
    <2>5. ToSet(open'.trades) = {i \in Processed' : Trades[i] = Trades[m]}
      BY <1>3, <1>6, <2>4 DEF OpenIsComplete
    <2> QED
      BY <1>1, <1>2, <1>3, <1>4, <2>2, <2>5 DEF OpenIsComplete, m
  <1> QED
    BY <1>5, <1>6

(* A builder that is not polling has processed nothing. *)
LEMMA NothingProcessed ==
  ASSUME TypeOK, NeverBehind, OpenIsComplete, at[builder].phase # "poll"
  PROVE  delivered[builder] = 0 /\ at[builder].batch = {} /\ ~IsOpen /\ Processed = {}
  BY NothingToDrain DEF NeverBehind, OpenIsComplete

LEMMA StepOpenIsComplete ==
  ASSUME CountInv, TypeOK', InOrder, NeverBehind, OpenIsComplete, [Next]_vars, ~disturbed'
  PROVE  OpenIsComplete'
  <1> USE DEF CountInv
  <1>1. CASE Start
    <2>1. at[builder].phase = "down"
      BY <1>1, ConsumersAre DEF Start, Up, Undeployed, Down
    <2>2. delivered'[builder] = 0 /\ open' = open
      BY <1>1, <2>1, NothingProcessed DEF Start
    <2>3. Processed' = {} /\ Processed = {}
      BY <2>1, <2>2, NothingProcessed DEF Processed
    <2> QED
      BY <2>2, <2>3, SameProcessed
  <1>2. CASE DrainEnds(builder) \/ GroupFails(builder)
    <2>1. at[builder].phase # "poll" /\ delivered' = delivered /\ open' = open
      BY <1>2 DEF DrainEnds, GroupFails, Down
    <2>2. Processed' = {} /\ Processed = {}
      BY <2>1, NothingProcessed DEF Processed
    <2> QED
      BY <2>1, <2>2, SameProcessed
  <1>3. CASE Poll(builder)
    <2>1. PICK upto \in Nat :
           /\ delivered[builder] < upto /\ delivered'[builder] = upto
           /\ at'[builder].batch = at[builder].batch \cup ((delivered[builder] + 1)..upto)
           /\ open' = open
      BY <1>3, PolledWhole
    <2>2. delivered[builder] \in Nat /\ at[builder].batch \subseteq 1..delivered[builder]
      BY BuilderTypes
    <2>3. Processed' = Processed
      BY <2>1, <2>2 DEF Processed
    <2> QED
      BY <2>1, <2>3, SameProcessed
  <1>4. CASE ProcessTrade
    BY <1>4, ProcessTradeOpen
  <1>5. CASE at'[builder] = at[builder] /\ delivered'[builder] = delivered[builder] /\ open' = open
    <2>1. Processed' = Processed
      BY <1>5 DEF Processed
    <2> QED
      BY <1>5, <2>1, SameProcessed
  <1> QED
    BY <1>1, <1>2, <1>3, <1>4, <1>5, BuilderRests, NothingToDrain, Undisturbed DEF Reading

(* The trades of an earlier second than the open candle's are all published, *)
(* and those of the open candle's when the next second's trade is there.     *)
LEMMA EarlierSecond ==
  ASSUME CountInv, TypeOK', OpenIsComplete, [Next]_vars, NEW s, s < open.second, IsOpen, s \in Nat
  PROVE  OfSecond(s)' = OfSecond(s)
  <1> USE DEF CountInv
  <1>1. PICK j \in Processed : Trades[j] = open.second
    BY DEF OpenIsComplete
  <1>2. j \in DOMAIN Trades /\ Trades[j] \in Nat
    BY <1>1, ProcessedTypes
  <1>3. ASSUME NEW sec \in Seconds, PublishTrade(sec)
        PROVE  OfSecond(s)' = OfSecond(s)
    <2>1. stream \in AllStreams /\ Trades \in Seq(Seconds)
      BY StreamTypes DEF TypeOK, AllStreams
    <2>2. Trades' = Append(Trades, sec) /\ \A i \in DOMAIN Trades : Trades[i] <= sec
      BY <1>3, <2>1, PublishedTrade DEF PublishTrade, Trades
    <2>3. /\ DOMAIN Trades' = 1..(Len(Trades) + 1) /\ DOMAIN Trades = 1..Len(Trades)
          /\ Len(Trades) \in Nat /\ Trades'[Len(Trades) + 1] = sec /\ sec \in Nat
          /\ \A i \in 1..Len(Trades) : Trades'[i] = Trades[i]
      BY <2>1, <2>2, OneMore, PipelineConstants
    <2>4. s # sec
      BY <1>1, <1>2, <2>2, <2>3
    <2>5. \A i \in DOMAIN Trades' : i \in DOMAIN Trades \/ i = Len(Trades) + 1
      BY <2>3
    <2>6. DOMAIN Trades \subseteq DOMAIN Trades'
      BY <2>3
    <2> QED
      BY <2>3, <2>4, <2>5, <2>6 DEF OfSecond
  <1>4. CASE PublishOrderUpdate
    <2>1. Trades' = Trades
      BY <1>4, PublishedUpdate DEF PublishOrderUpdate, TypeOK, AllStreams, Trades
    <2> QED
      BY <2>1 DEF OfSecond
  <1>5. CASE ProcessTrade
    BY <1>5, ProcessTradeDoes DEF OfSecond
  <1>6. CASE stream' = stream
    BY <1>6 DEF Trades, OfSecond
  <1> QED
    BY <1>3, <1>4, <1>5, <1>6
    DEF Next, Start, Crash, Reading, Drain, DrainEnds, GroupFails, Poll, Handling, InsertRow,
        InsertFails, InsertBatch, InsertBatchFails, vars

(* The open candle is only replaced by one of a later second. *)
LEMMA OpenGoesOn ==
  ASSUME CountInv, TypeOK', InOrder, NeverBehind, OpenIsComplete, [Next]_vars, ~disturbed', IsOpen
  PROVE  /\ IsOpen' /\ open'.second >= open.second
         /\ open.second \in Nat /\ open'.second \in Nat
  <1> USE DEF CountInv
  <1>1. open.second \in Nat
    BY PipelineConstants DEF TypeOK, IsOpen, Candle
  <1>2. CASE ProcessTrade
    <2>1. IsOpen' /\ open'.second = Trades[Message(builder)]
      BY <1>2, ProcessTradeOpen
    <2>2. PICK j \in Processed : Trades[j] = open.second
      BY DEF OpenIsComplete
    <2>3. Trades[j] <= Trades[Message(builder)] /\ Message(builder) \in DOMAIN Trades
      BY <1>2, NextIsBetween
    <2>4. Trades[Message(builder)] \in Nat
      BY <2>3, ProcessedTypes
    <2> QED
      BY <1>1, <2>1, <2>2, <2>3, <2>4
  <1>3. CASE open' = open
    BY <1>1, <1>3 DEF IsOpen
  <1>4. CASE Reading(builder)
    BY <1>3, <1>4 DEF Reading, Drain, DrainEnds, GroupFails, Poll
  <1> QED
    BY <1>2, <1>3, <1>4, BuilderRests, Undisturbed DEF Start

LEMMA StepPublishedCandles ==
  ASSUME CountInv, TypeOK', InOrder, NeverBehind, OpenIsComplete, CandlesAreComplete,
         [Next]_vars, ~disturbed',
         NEW i \in DOMAIN stream'["candles"], NEW cd, cd = stream'["candles"][i]
  PROVE  IsOpen' /\ cd.second < open'.second /\ ToSet(cd.trades) = OfSecond(cd.second)'
  <1> USE DEF CountInv
  <1>1. cd \in Candle /\ cd.second \in Nat
    <2>1. stream'["candles"] \in Seq(Candle)
      BY DEF TypeOK
    <2>2. cd \in Candle
      BY <2>1
    <2> QED
      BY <2>2, PipelineConstants DEF Candle
  <1>2. ASSUME IsOpen, cd.second < open.second, ToSet(cd.trades) = OfSecond(cd.second)
        PROVE  IsOpen' /\ cd.second < open'.second /\ ToSet(cd.trades) = OfSecond(cd.second)'
    <2>1. OfSecond(cd.second)' = OfSecond(cd.second)
      BY <1>1, <1>2, EarlierSecond
    <2> QED
      BY <1>1, <1>2, <2>1, OpenGoesOn
  <1>3. CASE i \in DOMAIN stream["candles"] /\ cd = stream["candles"][i]
    BY <1>2, <1>3 DEF CandlesAreComplete
  <1>4. CASE ProcessTrade /\ IsOpen /\ open.second # Trades[Message(builder)] /\ cd = open
    <2> DEFINE m == Message(builder)
    <2>1. /\ m \in DOMAIN Trades
          /\ \A k \in Processed : Trades[k] <= Trades[m]
          /\ \A k \in (DOMAIN Trades) \ Processed : Trades[m] <= Trades[k]
      BY <1>4, NextIsBetween
    <2>2. IsOpen' /\ open'.second = Trades[m] /\ Trades' = Trades
      BY <1>4, ProcessTradeOpen, ProcessTradeDoes
    <2> HIDE DEF m
    <2>3. PICK j \in Processed : Trades[j] = cd.second
      BY <1>4 DEF OpenIsComplete
    <2>4. cd.second < Trades[m] /\ Trades[m] \in Nat
      BY <1>4, <1>1, <2>1, <2>3, ProcessedTypes DEF m
    <2>5. OfSecond(cd.second) = {k \in Processed : Trades[k] = cd.second}
      BY <1>1, <2>1, <2>4, ProcessedTypes DEF OfSecond
    <2>6. ToSet(cd.trades) = OfSecond(cd.second)
      BY <1>4, <2>5 DEF OpenIsComplete
    <2>7. OfSecond(cd.second)' = OfSecond(cd.second)
      BY <2>2 DEF OfSecond
    <2> QED
      BY <2>2, <2>4, <2>6, <2>7
  <1> QED
    BY <1>3, <1>4, CandlesStay

(* What is published is the open candle, whose second is later than those of *)
(* the candles before it.                                                    *)
LEMMA StepSecondsGrow ==
  ASSUME CountInv, TypeOK', CandlesAreComplete, [Next]_vars
  PROVE  \A i, j \in DOMAIN stream'["candles"] :
            i < j => stream'["candles"][i].second < stream'["candles"][j].second
  <1> USE DEF CountInv
  <1>1. CASE stream'["candles"] = stream["candles"]
    BY <1>1 DEF CandlesAreComplete
  <1>2. ASSUME stream'["candles"] = Append(stream["candles"], open), IsOpen
        PROVE  \A i, j \in DOMAIN stream'["candles"] :
                  i < j => stream'["candles"][i].second < stream'["candles"][j].second
    <2> DEFINE q == stream["candles"]
    <2>1. q \in Seq(Candle) /\ open \in Candle
      BY <1>2, StreamTypes DEF TypeOK, IsOpen
    <2>2. /\ Len(q) \in Nat /\ DOMAIN Append(q, open) = 1..(Len(q) + 1) /\ DOMAIN q = 1..Len(q)
          /\ Append(q, open)[Len(q) + 1] = open /\ \A i \in 1..Len(q) : Append(q, open)[i] = q[i]
      BY <2>1, OneMore
    <2>3. /\ \A i \in DOMAIN q : q[i].second < open.second
          /\ \A i, j \in DOMAIN q : i < j => q[i].second < q[j].second
      BY DEF CandlesAreComplete
    <2> HIDE DEF q
    <2>4. ASSUME NEW i \in 1..(Len(q) + 1), NEW j \in 1..(Len(q) + 1), i < j
          PROVE  Append(q, open)[i].second < Append(q, open)[j].second
      <3>1. i \in 1..Len(q) /\ (j \in 1..Len(q) \/ j = Len(q) + 1)
        BY <2>2, <2>4
      <3> QED
        BY <2>2, <2>3, <2>4, <3>1
    <2> QED
      BY <1>2, <2>2, <2>4 DEF q
  <1> QED
    BY <1>1, <1>2, CandlesGrow

LEMMA StepRows ==
  ASSUME CountInv, TypeOK', CandlesAreComplete, [Next]_vars, NEW s \in Seconds, rows'[s] # <<>>
  PROVE  \E i \in DOMAIN stream'["candles"] :
            stream'["candles"][i] = [second |-> s, trades |-> rows'[s]]
  <1> USE DEF CountInv
  <1>1. CASE rows'[s] = rows[s]
    BY <1>1, CandlesStay DEF CandlesAreComplete
  <1>2. CASE InsertBatch
    <2>1. ASSUME NEW i \in DOMAIN stream["candles"],
                 stream["candles"][i].second = s, rows'[s] = stream["candles"][i].trades
          PROVE  stream["candles"][i] = [second |-> s, trades |-> rows'[s]]
      <3>1. stream["candles"][i] \in Candle
        BY StreamTypes
      <3> QED
        BY <2>1, <3>1 DEF Candle
    <2> QED
      BY <1>1, <1>2, <2>1, InsertBatchRows, CandlesStay
  <1>3. CASE ~InsertBatch
    BY <1>1, <1>3
    DEF Next, Start, Crash, PublishTrade, PublishOrderUpdate, Reading, Drain, DrainEnds,
        GroupFails, Poll, Handling, ProcessTrade, InsertRow, InsertFails, InsertBatchFails, vars
  <1> QED
    BY <1>2, <1>3

LEMMA StepRow ==
  ASSUME RowInv, [Next]_vars
  PROVE  RowInv'
  <1>1. CountInv' /\ TypeOK' /\ InOrder'
    BY StepCounts, StepInOrder, StepType DEF RowInv, CountInv
  <1>2. ASSUME ~disturbed'
        PROVE  (NeverBehind /\ OpenIsComplete /\ CandlesAreComplete)'
    <2>1. CountInv /\ InOrder /\ NeverBehind /\ OpenIsComplete /\ CandlesAreComplete
      BY <1>2, Undisturbed DEF RowInv
    <2>2. NeverBehind' /\ OpenIsComplete'
      BY <1>1, <1>2, <2>1, StepNeverBehind, StepOpenIsComplete
    <2>3. ASSUME NEW i \in DOMAIN stream'["candles"], NEW cd, cd = stream'["candles"][i]
          PROVE  IsOpen' /\ cd.second < open'.second /\ ToSet(cd.trades) = OfSecond(cd.second)'
      BY <1>1, <1>2, <2>1, <2>3, StepPublishedCandles
    <2>4. ASSUME NEW i \in DOMAIN stream'["candles"]
          PROVE  LET cd == stream'["candles"][i]
                 IN  /\ IsOpen' /\ cd.second < open'.second
                     /\ ToSet(cd.trades) = {k \in DOMAIN Trades' : Trades'[k] = cd.second}
      BY <2>3 DEF OfSecond
    <2>5. \A s \in Seconds : rows'[s] # <<>> =>
            \E i \in DOMAIN stream'["candles"] :
              stream'["candles"][i] = [second |-> s, trades |-> rows'[s]]
      BY <1>1, <2>1, StepRows
    <2>6. \A i, j \in DOMAIN stream'["candles"] :
            i < j => stream'["candles"][i].second < stream'["candles"][j].second
      BY <1>1, <2>1, StepSecondsGrow
    <2>7. CandlesAreComplete'
      BY <2>4, <2>5, <2>6 DEF CandlesAreComplete, OfSecond
    <2> QED
      BY <2>2, <2>7
  <1> QED
    BY <1>1, <1>2 DEF RowInv

LEMMA InitRow ==
  ASSUME Init
  PROVE  RowInv
  <1>1. /\ Trades = <<>> /\ stream["candles"] = <<>> /\ open = NoCandle
        /\ delivered[builder] = 0 /\ at[builder] = Down
        /\ \A s \in Seconds : rows[s] = <<>>
    BY ConsumersAre DEF Init, Trades
  <1>2. at[builder].batch = {} /\ Processed = {}
    BY <1>1 DEF Down, Processed
  <1> QED
    BY <1>1, <1>2, InitCounts
    DEF RowInv, InOrder, NeverBehind, OpenIsComplete, CandlesAreComplete, IsOpen

LEMMA RowInvAlways == Spec => []RowInv
  <1>1. Init => RowInv
    BY InitRow
  <1>2. RowInv /\ [Next]_vars => RowInv'
    BY StepRow
  <1> QED
    BY <1>1, <1>2, PTL DEF Spec

(* As long as nothing was disturbed, a row of the candles table counts every *)
(* trade of its second: the closed candle is complete, since no earlier      *)
(* trade is processed after a later one.                                     *)
THEOREM RowsAreComplete == Spec => []CompleteRows
  <1>1. RowInv => CompleteRows
    <2> SUFFICES ASSUME RowInv, ~disturbed, NEW s \in Seconds, rows[s] # <<>>
                 PROVE  ToSet(rows[s]) = OfSecond(s)
      BY DEF CompleteRows, OfSecond, Trades
    <2>1. PICK i \in DOMAIN stream["candles"] :
            stream["candles"][i] = [second |-> s, trades |-> rows[s]]
      BY DEF RowInv, CandlesAreComplete
    <2> QED
      BY <2>1 DEF RowInv, CandlesAreComplete
  <1> QED
    BY <1>1, RowInvAlways, PTL

(* The open candle and every published one count trades of their second      *)
(* only, each of them once, however often a trade is delivered again; and    *)
(* until the server crashes or a reply is lost, no two of them count the     *)
(* same trade, whether or not it could be acknowledged: their seconds grow.  *)
THEOREM TradesAreCountedOnce == Spec => []CountedOnce
  <1>1. RowInv => CountedOnce
    <2> SUFFICES ASSUME RowInv
                 PROVE  CountedOnce
      OBVIOUS
    <2> DEFINE q == stream["candles"]
    <2> USE DEF RowInv, CountInv
    <2>1. q \in Seq(Candle) /\ (IsOpen => open \in Candle)
      BY StreamTypes DEF TypeOK, IsOpen
    <2>2. /\ Len(q) \in Nat /\ DOMAIN q = 1..Len(q)
          /\ IsOpen => /\ DOMAIN Append(q, open) = 1..(Len(q) + 1)
                       /\ Append(q, open)[Len(q) + 1] = open
                       /\ \A i \in 1..Len(q) : Append(q, open)[i] = q[i]
      BY <2>1, OneMore
    <2>3. /\ \A i \in DOMAIN q : CountsItsOwn(q[i])
          /\ ~disturbed => /\ \A i \in DOMAIN q : q[i].second < open.second
                           /\ \A i, j \in DOMAIN q : i < j => q[i].second < q[j].second
      BY DEF CandlesAreComplete
    <2> HIDE DEF q
    <2>4. \A k \in DOMAIN Candles : CountsItsOwn(Candles[k])
      <3>1. CASE IsOpen
        <4>1. Candles = Append(q, open)
          BY <3>1 DEF Candles, IsOpen, q
        <4>2. \A k \in 1..(Len(q) + 1) : k \in 1..Len(q) \/ k = Len(q) + 1
          BY <2>2
        <4> QED
          BY <2>2, <2>3, <3>1, <4>1, <4>2
      <3> QED
        BY <2>3, <3>1 DEF Candles, IsOpen, q
    <2>5. ASSUME ~disturbed, NEW k \in DOMAIN Candles, NEW l \in DOMAIN Candles, k < l
          PROVE  Candles[k].second < Candles[l].second
      <3>1. CASE IsOpen
        <4>1. Candles = Append(q, open)
          BY <3>1 DEF Candles, IsOpen, q
        <4>2. k \in 1..Len(q) /\ (l \in 1..Len(q) \/ l = Len(q) + 1)
          BY <2>2, <2>5, <3>1, <4>1
        <4> QED
          BY <2>2, <2>3, <2>5, <3>1, <4>1, <4>2
      <3> QED
        BY <2>3, <2>5, <3>1 DEF Candles, IsOpen, q
    <2>6. DOMAIN Candles \subseteq Nat /\ \A k \in DOMAIN Candles : Candles[k].second \in Nat
      <3>1. \A cd \in Candle : cd.second \in Nat
        BY PipelineConstants DEF Candle
      <3>2. Candles \in Seq(Candle)
        BY <2>1 DEF Candles, IsOpen, q
      <3> QED
        BY <3>1, <3>2
    <2>7. ASSUME ~disturbed, NEW k \in DOMAIN Candles, NEW l \in DOMAIN Candles, k # l
          PROVE  ToSet(Candles[k].trades) \cap ToSet(Candles[l].trades) = {}
      <3>1. Candles[k].second # Candles[l].second
        BY <2>5, <2>6, <2>7
      <3> QED
        BY <2>4, <3>1 DEF CountsItsOwn, ToSet
    <2> QED
      BY <2>4, <2>7 DEF CountedOnce, CountsItsOwn, Trades
  <1> QED
    BY <1>1, RowInvAlways, PTL

=============================================================================
