------------------------------- MODULE LiveFeed -------------------------------
(***************************************************************************)
(* What a websocket client of the Go server is shown: the depth of one     *)
(* book and the portfolio of its user, and how far that may be from what   *)
(* they are.  A depth or a portfolio is the number of changes it has seen. *)
(*                                                                         *)
(* Depth is coalesced: hub.latestDepth keeps one snapshot, which the hub   *)
(* flushes every 100 ms.  A user's order stores its snapshot with the      *)
(* book's mutex held, and so does a quote of the generator that trades;    *)
(* the tick of the generator reads its own without the mutex.  A portfolio *)
(* is sent as it is read, after the manager's lock is given up.  Both go   *)
(* through the client's bounded send channel, which drops what finds it    *)
(* full.                                                                   *)
(***************************************************************************)
EXTENDS Integers, SequencesExt

CONSTANTS Updaters,   \* goroutines that apply fills to the user's portfolio
          SendCapacity,   \* of the client's send channel
          MaxChanges, \* bound on the changes of the book
          MaxFills,   \* bound on the changes of the portfolio
          MaxOthers,  \* bound on the other messages for this client
          NoDepth

ASSUME FeedConstants == /\ SendCapacity \in Nat \ {0}
                        /\ MaxChanges \in Nat /\ MaxFills \in Nat /\ MaxOthers \in Nat
                        /\ NoDepth \notin Nat

VARIABLES
  book,          \* changes of the book so far
  tick,          \* the generator's tick: "off", "idle", "read" or "quoting"
  snapshot,      \* the depth the tick has read
  latestDepth,   \* Hub.latestDepth of the symbol
  send,          \* the client's send channel
  depthSeen,     \* the depth the client shows
  portfolio,     \* changes of the portfolio so far
  update,        \* goroutine -> its broadcastUpdate and the portfolio that has read
  portfolioSeen, \* the portfolio the client shows
  others,        \* other messages so far
  overtaken      \* history: two updates overlapped, or one found the channel full

feedVars == <<book, tick, snapshot, latestDepth, send, depthSeen, portfolio,
              update, portfolioSeen, others, overtaken>>

Message == [kind: {"depth", "portfolio"}, version: Nat] \cup [kind: {"other"}]

NoUpdate == [stage |-> "none", version |-> 0]
Busy(u)  == update[u].stage # "none"

FeedInit == /\ book = 0
            /\ tick = "off"
            /\ snapshot = 0
            /\ latestDepth = NoDepth
            /\ send = <<>>
            /\ depthSeen = 0
            /\ portfolio = 0
            /\ update = [u \in Updaters |-> NoUpdate]
            /\ portfolioSeen = 0
            /\ others = 0
            /\ overtaken = FALSE

BookChanges == book < MaxChanges /\ book' = book + 1

(* The generator holds the book's mutex while it quotes. *)
BookFree == tick # "quoting"

-----------------------------------------------------------------------------
(* The book *)

(* AddLimit, Market, CancelLimit and ModifyLimit of a ManagedBook. *)
UserOrder ==
  /\ BookFree /\ BookChanges
  /\ latestDepth' = book'
  /\ UNCHANGED <<tick, snapshot, send, depthSeen, portfolio, update, portfolioSeen,
                 others, overtaken>>

(* AddStop and AddStopLimit tell nobody, executed at once or not. *)
StopEntry ==
  /\ BookFree /\ BookChanges
  /\ UNCHANGED <<tick, snapshot, latestDepth, send, depthSeen, portfolio, update,
                 portfolioSeen, others, overtaken>>

-----------------------------------------------------------------------------
(* The tick of the generator: emitGBMEvents, then submitOrders *)

StartGenerator ==
  /\ tick = "off"
  /\ tick' = "idle"
  /\ UNCHANGED <<book, snapshot, latestDepth, send, depthSeen, portfolio, update,
                 portfolioSeen, others, overtaken>>

TickReads ==
  /\ tick = "idle"
  /\ tick' = "read"
  /\ snapshot' = book
  /\ UNCHANGED <<book, latestDepth, send, depthSeen, portfolio, update, portfolioSeen,
                 others, overtaken>>

\* Mutant of TickBroadcasts: only orders broadcast.
TickSilent ==
  /\ tick = "read"
  /\ tick' = "quoting"
  /\ UNCHANGED <<book, snapshot, latestDepth, send, depthSeen, portfolio, update,
                 portfolioSeen, others, overtaken>>

TickBroadcasts ==
  /\ tick = "read"
  /\ tick' = "quoting"
  /\ latestDepth' = snapshot
  /\ UNCHANGED <<book, snapshot, send, depthSeen, portfolio, update, portfolioSeen,
                 others, overtaken>>

(* A quote that rests is not broadcast, one that trades is, by onTrade. *)
Quote(trades) ==
  /\ tick = "quoting" /\ BookChanges
  /\ latestDepth' = IF trades THEN book' ELSE latestDepth
  /\ UNCHANGED <<tick, snapshot, send, depthSeen, portfolio, update, portfolioSeen,
                 others, overtaken>>

TickEnds ==
  /\ tick = "quoting"
  /\ tick' = "idle"
  /\ UNCHANGED <<book, snapshot, latestDepth, send, depthSeen, portfolio, update,
                 portfolioSeen, others, overtaken>>

-----------------------------------------------------------------------------
(* The hub and the client *)

HasRoom == Len(send) < SendCapacity
\* Mutant of Enqueue: nothing is dropped.
EnqueueAlways(m) == send' = Append(send, m)

Enqueue(m) == send' = IF HasRoom THEN Append(send, m) ELSE send

Flush ==
  /\ latestDepth # NoDepth
  /\ Enqueue([kind |-> "depth", version |-> latestDepth])
  /\ latestDepth' = NoDepth
  /\ UNCHANGED <<book, tick, snapshot, depthSeen, portfolio, update, portfolioSeen,
                 others, overtaken>>

(* A trade or a candle for this client. *)
OtherMessage ==
  /\ others < MaxOthers
  /\ others' = others + 1
  /\ Enqueue([kind |-> "other"])
  /\ UNCHANGED <<book, tick, snapshot, latestDepth, depthSeen, portfolio, update,
                 portfolioSeen, overtaken>>

LastOf(kind, before) ==
  LET i == SelectLastInSeq(send, LAMBDA m : m.kind = kind)
  IN  IF i = 0 THEN before ELSE send[i].version

(* writePump puts all that is queued into one frame. *)
WriteFrame ==
  /\ send # <<>>
  /\ send' = <<>>
  /\ depthSeen' = LastOf("depth", depthSeen)
  /\ portfolioSeen' = LastOf("portfolio", portfolioSeen)
  /\ UNCHANGED <<book, tick, snapshot, latestDepth, portfolio, update, others, overtaken>>

-----------------------------------------------------------------------------
(* The portfolio *)

ApplyFill(u) ==
  /\ ~Busy(u) /\ portfolio < MaxFills
  /\ portfolio' = portfolio + 1
  /\ update' = [update EXCEPT ![u].stage = "changed"]
  /\ overtaken' = (overtaken \/ \E v \in Updaters : Busy(v))
  /\ UNCHANGED <<book, tick, snapshot, latestDepth, send, depthSeen, portfolioSeen, others>>

\* Mutant of ReadPortfolio: the snapshot is the one before the fill.
ReadPortfolioBefore(u) ==
  /\ update[u].stage = "changed"
  /\ update' = [update EXCEPT ![u] = [stage |-> "read", version |-> portfolio - 1]]
  /\ UNCHANGED <<book, tick, snapshot, latestDepth, send, depthSeen, portfolio,
                 portfolioSeen, others, overtaken>>

(* buildSnapshot, under the manager's read lock *)
ReadPortfolio(u) ==
  /\ update[u].stage = "changed"
  /\ update' = [update EXCEPT ![u] = [stage |-> "read", version |-> portfolio]]
  /\ UNCHANGED <<book, tick, snapshot, latestDepth, send, depthSeen, portfolio,
                 portfolioSeen, others, overtaken>>

BroadcastUpdate(u) ==
  /\ update[u].stage = "read"
  /\ Enqueue([kind |-> "portfolio", version |-> update[u].version])
  /\ overtaken' = (overtaken \/ ~HasRoom)
  /\ update' = [update EXCEPT ![u] = NoUpdate]
  /\ UNCHANGED <<book, tick, snapshot, latestDepth, depthSeen, portfolio, portfolioSeen, others>>

Ticks == TickReads \/ TickBroadcasts \/ TickEnds
Updates(u) == ReadPortfolio(u) \/ BroadcastUpdate(u)

FeedNext ==
  \/ UserOrder \/ StopEntry
  \/ StartGenerator \/ Ticks
  \/ \E trades \in BOOLEAN : Quote(trades)
  \/ Flush \/ OtherMessage \/ WriteFrame
  \/ \E u \in Updaters : ApplyFill(u) \/ Updates(u)

(* The generator ticks and the hub flushes on timers, and writePump and the *)
(* goroutines that update a portfolio do not stop.                          *)
FeedFairness == /\ WF_feedVars(Ticks) /\ WF_feedVars(Flush) /\ WF_feedVars(WriteFrame)
                /\ \A u \in Updaters : WF_feedVars(Updates(u))

FeedSpec == FeedInit /\ [][FeedNext]_feedVars /\ FeedFairness

-----------------------------------------------------------------------------
FeedTypeOK ==
  /\ book \in 0..MaxChanges
  /\ tick \in {"off", "idle", "read", "quoting"}
  /\ snapshot \in 0..book
  /\ latestDepth \in 0..book \cup {NoDepth}
  /\ send \in Seq(Message) /\ Len(send) <= SendCapacity
  /\ depthSeen \in 0..book
  /\ portfolio \in 0..MaxFills
  /\ update \in [Updaters -> [stage: {"none", "changed", "read"}, version: 0..portfolio]]
  /\ portfolioSeen \in 0..portfolio
  /\ others \in 0..MaxOthers
  /\ overtaken \in BOOLEAN

(* The depth a client shows is that of the book in the end, although stop   *)
(* orders and resting quotes are not broadcast, a tick may put an older     *)
(* snapshot over a newer one, and a full channel drops messages: the ticks  *)
(* that follow repair it, once the generator is started.                    *)
DepthCatchesUp == <>[](tick # "off" => depthSeen = book)

(* So is the portfolio, unless two updates overlapped or one was dropped:   *)
(* nothing repairs it then.                                                 *)
PortfolioCatchesUp == <>overtaken \/ <>[](portfolioSeen = portfolio)
=============================================================================
