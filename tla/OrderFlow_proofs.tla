--------------------------- MODULE OrderFlow_proofs ---------------------------
(* Second part of the proofs about OrderFlow: the tracker counts what the   *)
(* portfolio is credited, the escrow of every user is what the open orders  *)
(* and the calls under way account for, and no money is lost or made.       *)
EXTENDS OrderFlowBase_proofs

-----------------------------------------------------------------------------
(* What the steps keep of placements, calls and sides                        *)

(* A step that neither hands out the id of a limit order nor tracks one      *)
Orderly ==
  /\ \A s \in Threads : Placed(req'[s]) =>
       /\ Placed(req[s]) /\ req'[s].id = req[s].id /\ req'[s].side = req[s].side
       /\ Recorder(req'[s]) <=> Recorder(req[s])
  /\ \A i \in Ids : tracked'[i] # NoOrder => tracked[i] # NoOrder /\ tracked'[i].side = tracked[i].side
  /\ \A i \in Ids : i < nextId /\ tracked[i] = NoOrder /\ settled[i] = 0 /\ Claims(i) = 0 =>
       settled'[i] = 0 /\ Claims(i)' = 0
  /\ \A a \in Actors : \A c \in ToSet(todo'[a]) : c.op = "marketFill" /\ c.id < nextId =>
       \E b \in Actors : c \in ToSet(todo[b])
  /\ \A i \in Ids : /\ odd[i] \subseteq odd'[i]
                    /\ "modified" \in odd'[i] /\ InPlacement(i) => "modified" \in odd[i] \/ "raised" \in odd'[i]
  /\ \A s \in Threads : req'[s].stage = "remove" =>
       \/ req[s].stage = "remove" /\ req[s].id = req'[s].id
       \/ InPlacement(req'[s].id) => "cancelled" \in odd'[req'[s].id]
  /\ \A o \in Held(book') : o.id \in Ids /\ o.id < nextId /\ owner[o.id] # NoUser =>
       \E y \in Held(book) : y.id = o.id /\ y.side = o.side

(* An order that is being placed or tracked has an owner. *)
LEMMA PlacedOwned ==
  ASSUME BaseInv
  PROVE  /\ \A r \in Threads : Placed(req[r]) => req[r].id \in Ids /\ req[r].id < nextId /\ owner[req[r].id] # NoUser
                                               /\ owner[req[r].id] = req[r].user /\ req[r].user \in Users
         /\ \A i \in Ids : tracked[i] # NoOrder => i < nextId /\ owner[i] # NoUser /\ owner[i] = tracked[i].user
         /\ \A i \in Ids : owner[i] # NoUser => i < nextId
  <1>1. /\ TypeOK /\ RequestsOK /\ Unused /\ OwnersKnown /\ NoUser \notin Users /\ nextId \in Nat /\ Ids \subseteq Nat
    BY IdsAreNat, OrderFlowConstants DEF BaseInv
  <1>2. \A i \in Ids : i < nextId \/ i >= nextId
    BY <1>1
  <1>3. \A i \in Ids : owner[i] # NoUser \/ tracked[i] # NoOrder => i < nextId
    BY <1>1, <1>2 DEF Unused, UnusedId
  <1>4. \A i \in Ids : tracked[i] # NoOrder => tracked[i] \in Tracked /\ tracked[i].user \in Users
    BY <1>1 DEF TypeOK, Tracked
  <1>5. \A i \in Ids : tracked[i] # NoOrder => owner[i] = tracked[i].user /\ owner[i] # NoUser
    BY <1>1, <1>4 DEF OwnersKnown
  <1>6. ASSUME NEW r, r \in Threads, Placed(req[r])
        PROVE  req[r].id \in Ids /\ req[r].id < nextId /\ owner[req[r].id] # NoUser
               /\ owner[req[r].id] = req[r].user /\ req[r].user \in Users
    <2>1. RequestOK(req[r])
      BY <1>1, <1>6 DEF RequestsOK
    <2>2. req[r].user \in Users /\ req[r].id \in Ids /\ req[r].id < nextId /\ owner[req[r].id] = req[r].user
      BY <1>6, <2>1 DEF RequestOK, Placed
    <2> QED
      BY <1>1, <2>2
  <1> QED
    BY <1>3, <1>5, <1>6

LEMMA OrderlyKeeps ==
  ASSUME BaseInv, BaseInv', Structure, Orderly
  PROVE  Structure'
  <1>1. /\ \A s \in Threads : Placed(req'[s]) =>
             /\ Placed(req[s]) /\ req'[s].id = req[s].id /\ req'[s].side = req[s].side
             /\ Recorder(req'[s]) <=> Recorder(req[s])
        /\ \A i \in Ids : tracked'[i] # NoOrder => tracked[i] # NoOrder /\ tracked'[i].side = tracked[i].side
    BY DEF Orderly
  <1>2. /\ \A r \in Threads : Placed(req[r]) => req[r].id \in Ids /\ req[r].id < nextId /\ owner[req[r].id] # NoUser
        /\ \A i \in Ids : tracked[i] # NoOrder => i < nextId /\ owner[i] # NoUser
    BY PlacedOwned
  <1>3. \A r \in Threads : Placed(req[r]) => InPlacement(req[r].id)
    BY DEF InPlacement, Placed
  <1>4. OnePlacement'
    BY <1>1 DEF Structure, OnePlacement
  <1>5. NotYet'
    <2> SUFFICES ASSUME NEW r \in Threads, req'[r].stage = "track"
                 PROVE  (tracked[req[r].id] = NoOrder /\ settled[req[r].id] = 0 /\ Claims(req[r].id) = 0)'
      BY DEF NotYet
    <2>1. Placed(req'[r]) /\ ~Recorder(req'[r])
      BY DEF Placed, Recorder
    <2>2. req[r].stage = "track" /\ req'[r].id = req[r].id /\ Placed(req[r])
      BY <1>1, <2>1 DEF Placed, Recorder
    <2>3. tracked[req[r].id] = NoOrder /\ settled[req[r].id] = 0 /\ Claims(req[r].id) = 0
      BY <2>2 DEF Structure, NotYet
    <2>4. req[r].id \in Ids /\ req[r].id < nextId
      BY <1>2, <2>2
    <2>5. tracked'[req[r].id] = NoOrder
      BY <1>1, <2>3, <2>4
    <2>6. PICK i : i = req[r].id
      OBVIOUS
    <2>7. settled'[i] = 0 /\ Claims(i)' = 0
      BY <2>3, <2>4, <2>6 DEF Orderly
    <2>8. (Claims(req[r].id) = 0)'
      BY <2>2, <2>6, <2>7 DEF Claims
    <2> QED
      BY <2>2, <2>5, <2>6, <2>7, <2>8
  <1>6. Never'
    <2> SUFFICES ASSUME NEW a \in Actors, NEW c \in ToSet(todo'[a]), c.op = "marketFill"
                 PROVE  tracked'[c.id] = NoOrder /\ \A r \in Threads : Placed(req'[r]) => req'[r].id # c.id
      BY DEF Never
    <2>1. TypeOK /\ TypeOK' /\ nextId \in Nat /\ Ids \subseteq Nat /\ Unused
      BY IdsAreNat DEF BaseInv
    <2>2. c \in Call
      <3>1. todo'[a] \in Seq(Call)
        BY <2>1 DEF TypeOK
      <3> QED
        BY <3>1, OfSeq
    <2>3. c.id \in Ids
      BY <2>2, CallIs
    <2>4. tracked[c.id] = NoOrder /\ \A r \in Threads : Placed(req[r]) => req[r].id # c.id
      <3>1. CASE c.id < nextId
        <4>1. PICK b \in Actors : c \in ToSet(todo[b])
          BY <3>1 DEF Orderly
        <4> QED
          BY <4>1 DEF Structure, Never
      <3>2. CASE c.id >= nextId
        <4>1. tracked[c.id] = NoOrder
          BY <2>1, <2>3, <3>2 DEF Unused, UnusedId
        <4>2. \A r \in Threads : Placed(req[r]) => req[r].id # c.id
          <5>1. \A i \in Ids : i < nextId => i # c.id
            BY <2>1, <2>3, <3>2
          <5> QED
            BY <1>2, <5>1
        <4> QED
          BY <4>1, <4>2
      <3>3. \A i \in Ids : i < nextId \/ i >= nextId
        BY <2>1
      <3> QED
        BY <2>3, <3>1, <3>2, <3>3
    <2> QED
      BY <1>1, <2>3, <2>4
  <1>7. Cancelling'
    <2> SUFFICES ASSUME NEW r \in Threads, NEW s \in Threads, Placed(req'[r]), req'[s].id = req'[r].id,
                        req'[s].stage = "remove"
                 PROVE  "cancelled" \in odd'[req'[r].id]
      BY DEF Cancelling, Placed
    <2>1. Placed(req[r]) /\ req'[r].id = req[r].id /\ req[r].id \in Ids
      BY <1>1, <1>2
    <2>2. odd[req[r].id] \subseteq odd'[req[r].id]
      BY <2>1 DEF Orderly
    <2>3. \/ req[s].stage = "remove" /\ req[s].id = req'[s].id
          \/ InPlacement(req'[s].id) => "cancelled" \in odd'[req'[s].id]
      BY DEF Orderly
    <2>4. CASE req[s].stage = "remove" /\ req[s].id = req'[s].id
      BY <2>1, <2>2, <2>4 DEF Structure, Cancelling
    <2> QED
      BY <1>3, <2>1, <2>3, <2>4
  <1>8. Modifying'
    <2> SUFFICES ASSUME NEW r \in Threads, Placed(req'[r]), "modified" \in odd'[req'[r].id]
                 PROVE  "raised" \in odd'[req'[r].id]
      BY DEF Modifying, Placed
    <2>1. Placed(req[r]) /\ req'[r].id = req[r].id /\ req[r].id \in Ids /\ InPlacement(req[r].id)
      BY <1>1, <1>2, <1>3
    <2>2. /\ odd[req[r].id] \subseteq odd'[req[r].id]
          /\ "modified" \in odd[req[r].id] \/ "raised" \in odd'[req[r].id]
      BY <2>1 DEF Orderly
    <2>3. "modified" \in odd[req[r].id] => "raised" \in odd[req[r].id]
      BY <2>1 DEF Structure, Modifying
    <2> QED
      BY <2>1, <2>2, <2>3
  <1>9. \A o \in Held(book') : o.id \in Ids /\ o.id < nextId /\ owner[o.id] # NoUser =>
          \E y \in Held(book) : y.id = o.id /\ y.side = o.side
    BY DEF Orderly
  <1>10. BookSides'
    <2> SUFFICES ASSUME NEW o \in Held(book'), o.id \in Ids, tracked'[o.id] # NoOrder
                 PROVE  o.side = tracked'[o.id].side
      BY DEF BookSides
    <2>1. tracked[o.id] # NoOrder /\ tracked'[o.id].side = tracked[o.id].side
      BY <1>1
    <2>2. PICK y \in Held(book) : y.id = o.id /\ y.side = o.side
      BY <1>2, <1>9, <2>1
    <2> QED
      BY <2>1, <2>2 DEF Structure, BookSides
  <1>11. PlacedSides'
    <2> SUFFICES ASSUME NEW o \in Held(book'), NEW r \in Threads, Placed(req'[r]), req'[r].id = o.id
                 PROVE  o.side = req'[r].side
      BY DEF PlacedSides, Placed
    <2>1. Placed(req[r]) /\ req[r].id = o.id /\ req'[r].side = req[r].side
      BY <1>1
    <2>2. PICK y \in Held(book) : y.id = o.id /\ y.side = o.side
      BY <1>2, <1>9, <2>1
    <2> QED
      BY <2>1, <2>2 DEF Structure, PlacedSides
  <1>12. RecordSides'
    <2> SUFFICES ASSUME NEW r \in Threads, Recorder(req'[r]), tracked'[req'[r].id] # NoOrder
                 PROVE  tracked'[req'[r].id].side = req'[r].side
      BY DEF RecordSides, Recorder
    <2>1. Placed(req'[r])
      BY DEF Placed, Recorder
    <2>2. Recorder(req[r]) /\ req'[r].id = req[r].id /\ req'[r].side = req[r].side /\ Placed(req[r])
      BY <1>1, <2>1
    <2>3. tracked[req[r].id] # NoOrder /\ tracked'[req[r].id].side = tracked[req[r].id].side
      BY <1>1, <1>2, <2>2
    <2> QED
      BY <2>2, <2>3 DEF Structure, RecordSides
  <1> QED
    BY <1>4, <1>5, <1>6, <1>7, <1>8, <1>10, <1>11, <1>12 DEF Structure

(* A step that leaves the tracker's order i, the placement of it and its     *)
(* fills alone, and opens no more of it                                      *)
Keeps(i) ==
  /\ Shrinks(i)
  /\ Weight(req', RecShares(i)) = Weight(req, RecShares(i))
  /\ Weight(req', RecMoney(i)) = Weight(req, RecMoney(i))
  /\ \A s \in Threads : (Placed(req[s]) /\ req[s].id = i) \/ (Placed(req'[s]) /\ req'[s].id = i) => req'[s] = req[s]
  /\ tracked'[i] = tracked[i] /\ odd[i] \subseteq odd'[i] /\ owner'[i] = owner[i]
  /\ tracked[i] # NoOrder => settled'[i] + Claims(i)' = settled[i] + Claims(i)

(* No placement comes, goes or changes. *)
SamePlacements ==
  /\ \A s \in Threads : Placed(req[s]) \/ Placed(req'[s]) => req'[s] = req[s]
  /\ \A i : /\ Weight(req', RecShares(i)) = Weight(req, RecShares(i))
            /\ Weight(req', RecMoney(i)) = Weight(req, RecMoney(i))
LEMMA SameReqPlacements ==
  ASSUME req' = req
  PROVE  SamePlacements
  BY DEF SamePlacements

LEMMA SwapPlacements ==
  ASSUME TypeOK, NEW r, r \in Threads, NEW x, x \in Request, req' = [req EXCEPT ![r] = x],
         ~Placed(x), ~Placed(req[r])
  PROVE  SamePlacements
  <1>1. /\ req'[r] = x /\ \A s \in Threads : s # r => req'[s] = req[s]
        /\ \A w \in [Request -> Nat] :
             /\ Weight(req', w) + w[req[r]] = Weight(req, w) + w[x]
             /\ Weight(req', w) \in Nat /\ Weight(req, w) \in Nat
    BY ReqChanges, ZenonT(30)
  <1>2. req[r] \in Request /\ ~Recorder(req[r]) /\ ~Recorder(x)
    BY DEF TypeOK, Placed, Recorder
  <1>3. ASSUME NEW i
        PROVE  /\ Weight(req', RecShares(i)) = Weight(req, RecShares(i))
               /\ Weight(req', RecMoney(i)) = Weight(req, RecMoney(i))
    <2>1. /\ RecShares(i)[req[r]] = 0 /\ RecShares(i)[x] = 0 /\ RecMoney(i)[req[r]] = 0 /\ RecMoney(i)[x] = 0
      BY <1>2, RequestWeighs
    <2>2. RecShares(i) \in [Request -> Nat] /\ RecMoney(i) \in [Request -> Nat]
      BY RequestWeights
    <2>3. /\ Weight(req', RecShares(i)) + 0 = Weight(req, RecShares(i)) + 0
          /\ Weight(req', RecMoney(i)) + 0 = Weight(req, RecMoney(i)) + 0
          /\ Weight(req', RecShares(i)) \in Nat /\ Weight(req, RecShares(i)) \in Nat
          /\ Weight(req', RecMoney(i)) \in Nat /\ Weight(req, RecMoney(i)) \in Nat
      BY <1>1, <2>1, <2>2
    <2> QED
      BY ONLY <2>3
  <1> QED
    BY <1>1, <1>3 DEF SamePlacements

(* The tracker and the calls to the portfolio manager stay as they are; the  *)
(* orders in S are seen to elsewhere.                                        *)
LEMMA SteadyKeeps ==
  ASSUME BaseInv, Grows, SamePlacements, UNCHANGED <<tracked, credited, missed, settled, todo>>, NEW S,
         \A i \in Ids : owner[i] # NoUser /\ i \notin S => Shrinks(i),
         \A o \in Held(book') : o.id \in S => \E y \in Held(book) : y.id = o.id /\ y.side = o.side,
         \A i \in Ids : "modified" \in odd'[i] /\ InPlacement(i) => "modified" \in odd[i] \/ "raised" \in odd'[i],
         \A s \in Threads : req'[s].stage = "remove" =>
           \/ req'[s] = req[s]
           \/ InPlacement(req'[s].id) => "cancelled" \in odd'[req'[s].id]
  PROVE  Orderly /\ \A i \in Ids : owner[i] # NoUser /\ i \notin S => Keeps(i)
  <1>1. \A i : Claims(i)' = Claims(i)
    BY DEF Claims
  <1>2. /\ \A s \in Threads : Placed(req'[s]) => req'[s] = req[s]
        /\ \A i \in Ids : odd[i] \subseteq odd'[i]
    BY DEF SamePlacements, Grows
  <1>3. \A i \in Ids : owner[i] # NoUser => i < nextId /\ owner'[i] = owner[i]
    BY PlacedOwned DEF Grows
  <1>4. \A o \in Held(book') : o.id \in Ids /\ o.id < nextId /\ owner[o.id] # NoUser =>
          \E y \in Held(book) : y.id = o.id /\ y.side = o.side
    BY DEF Shrinks
  <1>5. Orderly
    BY <1>1, <1>2, <1>4 DEF Orderly
  <1>6. ASSUME NEW i \in Ids, owner[i] # NoUser, i \notin S
        PROVE  Keeps(i)
    BY <1>1, <1>2, <1>3, <1>6 DEF Keeps, SamePlacements
  <1> QED
    BY <1>5, <1>6

(* A step that leaves the books alone *)
LEMMA StillShrinks ==
  ASSUME TypeOK, UNCHANGED book, gen'.trades = gen.trades
  PROVE  \A i : Shrinks(i)
  <1> SUFFICES ASSUME NEW i
               PROVE  Shrinks(i)
    OBVIOUS
  <1>1. Open(i)' = Open(i) /\ Worth(i)' = Worth(i) /\ Made(i)' = Made(i) /\ Revenue(i)' = Revenue(i)
    BY DEF Open, Worth, Made, Revenue
  <1>2. Open(i) \in Nat /\ Worth(i) \in Nat /\ Made(i) \in Nat /\ Revenue(i) \in Nat
    BY NumbersAreNat
  <1> QED
    BY <1>1, <1>2 DEF Shrinks

(* Ticks, requests that wait or are refused, and stop orders *)
LEMMA TicksKeep ==
  ASSUME BaseInv, NewTick \/ EndTick, UNCHANGED run
  PROVE  Orderly /\ \A i \in Ids : owner[i] # NoUser => Keeps(i)
  <1>1. /\ TypeOK /\ Still /\ UNCHANGED <<tracked, cash, shares, loaded, req, todo, requests, credited, missed, settled>>
        /\ gen'.trades = gen.trades
    BY TicksKeepBase DEF BaseInv
  <1>2. Grows /\ odd' = odd /\ book' = book
    BY <1>1, StillIs DEF Still
  <1>3. SamePlacements /\ \A i : Shrinks(i)
    BY <1>1, <1>2, SameReqPlacements, StillShrinks
  <1>4. PICK S : S = {}
    OBVIOUS
  <1>5. Orderly /\ \A i \in Ids : owner[i] # NoUser /\ i \notin S => Keeps(i)
    BY <1>1, <1>2, <1>3, <1>4, SteadyKeeps
  <1> QED
    BY <1>4, <1>5

LEMMA PassesKeep ==
  ASSUME BaseInv, NEW r, r \in Threads, NEW x, x \in Request, Passes(r, x), ~Placed(x), ~Placed(req[r]),
         x.stage # "remove"
  PROVE  Orderly /\ \A i \in Ids : owner[i] # NoUser => Keeps(i)
  <1>1. TypeOK /\ Still /\ UNCHANGED <<tracked, shares, gen, todo, credited, missed, settled>> /\ req' = [req EXCEPT ![r] = x]
    BY DEF Passes, BaseInv
  <1>2. Grows /\ odd' = odd /\ book' = book
    BY <1>1, StillIs DEF Still
  <1>3. SamePlacements /\ \A i : Shrinks(i)
    BY <1>1, <1>2, SwapPlacements, StillShrinks
  <1>4. PICK S : S = {}
    OBVIOUS
  <1>5. \A s \in Threads : req'[s].stage = "remove" => req'[s] = req[s]
    BY <1>1, ReqChanges
  <1>6. Orderly /\ \A i \in Ids : owner[i] # NoUser /\ i \notin S => Keeps(i)
    BY <1>1, <1>2, <1>3, <1>4, <1>5, SteadyKeeps
  <1> QED
    BY <1>4, <1>6

LEMMA StopRequestKeeps ==
  ASSUME BaseInv, NEW r, r \in Threads, NEW x, StopRequest(r, x)
  PROVE  Orderly /\ \A i \in Ids : owner[i] # NoUser => Keeps(i)
  <1>1. /\ TypeOK /\ Grows /\ odd' = odd /\ x = NoRequest /\ req[r].stage = "idle"
        /\ req' = [req EXCEPT ![r] = x] /\ UNCHANGED <<tracked, credited, missed, settled, todo>>
        /\ \A i \in Ids : owner[i] # NoUser => Shrinks(i)
    BY DEF StopRequest, Comes, BaseInv
  <1>2. x \in Request /\ ~Placed(x) /\ ~Placed(req[r]) /\ x.stage # "remove"
    BY <1>1, NoRequestIs DEF Placed
  <1>3. SamePlacements
    BY <1>1, <1>2, SwapPlacements
  <1>4. PICK S : S = {}
    OBVIOUS
  <1>5. \A s \in Threads : req'[s].stage = "remove" => req'[s] = req[s]
    BY <1>1, <1>2, ReqChanges
  <1>6. /\ \A i \in Ids : owner[i] # NoUser /\ i \notin S => Shrinks(i)
        /\ \A o \in Held(book') : o.id \in S => \E y \in Held(book) : y.id = o.id /\ y.side = o.side
        /\ \A i \in Ids : "modified" \in odd'[i] /\ InPlacement(i) => "modified" \in odd[i] \/ "raised" \in odd'[i]
    BY <1>1, <1>4
  <1>7. Orderly /\ \A i \in Ids : owner[i] # NoUser /\ i \notin S => Keeps(i)
    BY ONLY BaseInv, <1>1, <1>3, <1>5, <1>6, SteadyKeeps
  <1> QED
    BY <1>4, <1>7

LEMMA QuoteKeeps ==
  ASSUME BaseInv, NEW e, NEW s, NEW p, NEW q, Quotes1(e, s, p, q)
  PROVE  Orderly /\ \A i \in Ids : owner[i] # NoUser => Keeps(i)
  <1>1. Grows /\ odd' = odd /\ req' = req /\ UNCHANGED <<tracked, credited, missed, settled, todo>>
    BY QuoteKeepsBase DEF Quotes1
  <1>2. \A i \in Ids : owner[i] # NoUser => Shrinks(i)
    BY QuoteShrinks
  <1>3. SamePlacements
    BY <1>1, SameReqPlacements
  <1>4. PICK S : S = {}
    OBVIOUS
  <1>5. /\ \A i \in Ids : owner[i] # NoUser /\ i \notin S => Shrinks(i)
        /\ \A o \in Held(book') : o.id \in S => \E y \in Held(book) : y.id = o.id /\ y.side = o.side
        /\ \A i \in Ids : "modified" \in odd'[i] /\ InPlacement(i) => "modified" \in odd[i] \/ "raised" \in odd'[i]
        /\ \A t \in Threads : req'[t].stage = "remove" => req'[t] = req[t]
    BY <1>1, <1>2, <1>4
  <1>6. Orderly /\ \A i \in Ids : owner[i] # NoUser /\ i \notin S => Keeps(i)
    BY ONLY BaseInv, <1>1, <1>3, <1>5, SteadyKeeps
  <1> QED
    BY <1>4, <1>6

-----------------------------------------------------------------------------
(* What the steps keep of what is reserved for the orders                    *)

UnownedAreCovered == \A i \in Ids : owner[i] = NoUser => Covered(i)
LEMMA UnownedCovered == BaseInv => UnownedAreCovered
  <1> SUFFICES ASSUME BaseInv, NEW i \in Ids, owner[i] = NoUser
               PROVE  Covered(i)
    BY DEF UnownedAreCovered
  <1>1. \A r \in Threads : Placed(req[r]) => req[r].id # i
    BY PlacedOwned
  <1>2. tracked[i] = NoOrder
    BY PlacedOwned
  <1>3. \A r \in Threads : req[r].stage = "track" \/ Recorder(req[r]) => req[r].id # i
    BY <1>1 DEF Placed, Recorder
  <1> QED
    BY <1>2, <1>3 DEF Covered

LEMMA UnownedCoveredNext == BaseInv' => UnownedAreCovered'
  BY UnownedCovered, PTL

(* Fewer shares and less money than before are covered too. *)
LEMMA LessIsCovered ==
  ASSUME NEW a \in Nat, NEW b \in Nat, NEW a1 \in Nat, NEW b1 \in Nat, a1 + b1 <= a + b, NEW c \in Nat, NEW d \in Nat
  PROVE  /\ a + b + c <= d => a1 + b1 + c <= d
         /\ \A f \in Nat : f + a + b + c <= d => f + a1 + b1 + c <= d
  OBVIOUS

LEMMA KeepsCovered ==
  ASSUME BaseInv, TypeOK', NEW i \in Ids, Keeps(i), Covered(i)
  PROVE  Covered(i)'
  <1>1. TypeOK /\ Numbers /\ Numbers'
    BY NumbersNow, NumbersNext DEF BaseInv
  <1>2. /\ Shrinks(i) /\ tracked'[i] = tracked[i] /\ odd[i] \subseteq odd'[i] /\ owner'[i] = owner[i]
        /\ Weight(req', RecShares(i)) = Weight(req, RecShares(i))
        /\ Weight(req', RecMoney(i)) = Weight(req, RecMoney(i))
        /\ tracked[i] # NoOrder => settled'[i] + Claims(i)' = settled[i] + Claims(i)
        /\ \A s \in Threads : (Placed(req[s]) /\ req[s].id = i) \/ (Placed(req'[s]) /\ req'[s].id = i) => req'[s] = req[s]
    BY DEF Keeps
  <1>3. /\ Open(i) \in Nat /\ Made(i) \in Nat /\ Open(i)' \in Nat /\ Made(i)' \in Nat
        /\ Worth(i) \in Nat /\ Revenue(i) \in Nat /\ Worth(i)' \in Nat /\ Revenue(i)' \in Nat
        /\ Weight(req, RecShares(i)) \in Nat /\ Weight(req, RecMoney(i)) \in Nat
    BY <1>1 DEF Numbers
  <1>4. Open(i)' + Made(i)' <= Open(i) + Made(i) /\ Worth(i)' + Revenue(i)' <= Worth(i) + Revenue(i)
    BY <1>2 DEF Shrinks
  <1>5. (odd'[i] = {} => odd[i] = {}) /\ (Sound(i)' => Sound(i))
    BY <1>2 DEF Sound
  <1>6. tracked[i] # NoOrder => tracked[i] \in Tracked /\ tracked[i].filled \in Nat /\ tracked[i].qty \in Nat
                                /\ tracked[i].reserve \in Nat
    BY <1>1 DEF TypeOK, Tracked
  <1>7. ASSUME NEW r \in Threads, req'[r].stage = "track", req'[r].id = i, odd'[i] = {}
        PROVE  PlacementCovered(req[r])'
    <2>1. req'[r] = req[r] /\ odd[i] = {}
      BY <1>2, <1>5, <1>7 DEF Placed
    <2>2. PlacementCovered(req[r]) /\ req[r].id = i
      BY <1>7, <2>1 DEF Covered
    <2>3. req[r] \in Request
      BY <1>1 DEF TypeOK
    <2>4. PICK q \in Request : q = req[r]
      BY <2>3
    <2>5. /\ q.id = i /\ Weight(q.trades, SharesOf) \in Nat /\ Weight(q.trades, MoneyOf) \in Nat /\ q.price * q.qty \in Nat
          /\ q.qty \in Nat
      BY <2>2, <2>4, RequestIs
    <2>6. /\ Open(i) + Made(i) + Weight(q.trades, SharesOf) <= q.qty
          /\ q.side = "buy" => Worth(i) + Revenue(i) + Weight(q.trades, MoneyOf) <= q.price * q.qty
      BY <2>2, <2>4, <2>5 DEF PlacementCovered
    <2>7. /\ Open(i)' + Made(i)' + Weight(q.trades, SharesOf) <= q.qty
          /\ q.side = "buy" => Worth(i)' + Revenue(i)' + Weight(q.trades, MoneyOf) <= q.price * q.qty
      BY ONLY <1>3, <1>4, <2>5, <2>6, LessIsCovered
    <2>8. req'[r] = q
      BY <2>1, <2>4
    <2> QED
      BY <2>5, <2>7, <2>8 DEF PlacementCovered, Open, Made, Worth, Revenue
  <1>8. tracked'[i] # NoOrder /\ odd'[i] = {} => SharesCovered(i)' /\ FillsAgree(i)'
    <2> SUFFICES ASSUME tracked'[i] # NoOrder, odd'[i] = {}
                 PROVE  SharesCovered(i)' /\ FillsAgree(i)'
      OBVIOUS
    <2>1. SharesCovered(i) /\ FillsAgree(i)
      BY <1>2, <1>5 DEF Covered
    <2>2. tracked[i].filled + Open(i) + Made(i) + Weight(req, RecShares(i)) <= tracked[i].qty
      BY <2>1 DEF SharesCovered
    <2>3. tracked[i].filled \in Nat /\ tracked[i].qty \in Nat
      BY <1>2, <1>6
    <2>4. tracked[i].filled + Open(i)' + Made(i)' + Weight(req, RecShares(i)) <= tracked[i].qty
      BY ONLY <1>3, <1>4, <2>2, <2>3, LessIsCovered
    <2> QED
      BY <1>2, <2>1, <2>4 DEF SharesCovered, FillsAgree
  <1>9. tracked'[i] # NoOrder /\ Sound(i)' /\ tracked'[i].side = "buy" => MoneyCovered(i)'
    <2> SUFFICES ASSUME tracked'[i] # NoOrder, Sound(i)', tracked'[i].side = "buy"
                 PROVE  MoneyCovered(i)'
      OBVIOUS
    <2>1. Worth(i) + Revenue(i) + Weight(req, RecMoney(i)) <= tracked[i].reserve
      BY <1>2, <1>5 DEF Covered, MoneyCovered
    <2>2. tracked[i].reserve \in Nat
      BY <1>2, <1>6
    <2>3. Worth(i)' + Revenue(i)' + Weight(req, RecMoney(i)) <= tracked[i].reserve
      BY ONLY <1>3, <1>4, <2>1, <2>2, LessIsCovered
    <2> QED
      BY <1>2, <2>3 DEF MoneyCovered
  <1>10. ASSUME NEW r \in Threads, Recorder(req'[r]), req'[r].id = i, Sound(i)'
         PROVE  tracked'[i] # NoOrder
    BY <1>2, <1>5, <1>10 DEF Covered, Placed, Recorder
  <1>11. ASSUME owner'[i] # NoUser, odd'[i] = {}, tracked'[i] = NoOrder, NEW o \in Held(book'), o.id = i
         PROVE  \E r \in Threads : req'[r].stage = "track" /\ req'[r].id = i
    <2>1. PICK y \in Held(book) : y.id = i
      BY <1>2, <1>11 DEF Shrinks
    <2>2. PICK r \in Threads : req[r].stage = "track" /\ req[r].id = i
      BY <1>2, <1>5, <1>11, <2>1 DEF Covered
    <2>3. req'[r] = req[r]
      BY <1>2, <2>2 DEF Placed
    <2> QED
      BY <2>2, <2>3
  <1> QED
    BY <1>7, <1>8, <1>9, <1>10, <1>11 DEF Covered

(* A step that leaves all orders alone but those in S, which are covered after it *)
LEMMA OrderlyCovers ==
  ASSUME BaseInv, BaseInv', Structure, AllCovered, Orderly, NEW S,
         \A i \in Ids : owner'[i] # NoUser => owner[i] # NoUser \/ i \in S,
         \A i \in Ids : owner[i] # NoUser /\ i \notin S => Keeps(i),
         \A i \in Ids : i \in S => Covered(i)'
  PROVE  Structure' /\ AllCovered'
  <1>1. Structure'
    BY OrderlyKeeps
  <1>2. ASSUME NEW i \in Ids
        PROVE  Covered(i)'
    <2>1. CASE owner'[i] = NoUser
      BY <2>1, UnownedCoveredNext DEF UnownedAreCovered
    <2>2. CASE i \in S
      BY <2>2
    <2>3. CASE owner'[i] # NoUser /\ i \notin S
      <3>1. Keeps(i) /\ Covered(i) /\ TypeOK'
        BY <2>3 DEF AllCovered, BaseInv
      <3> QED
        BY <3>1, KeepsCovered
    <2> QED
      BY <2>1, <2>2, <2>3
  <1> QED
    BY <1>1, <1>2 DEF AllCovered

-----------------------------------------------------------------------------
(* The steps that leave the tracker alone                                    *)
LEMMA PlainKeeps ==
  ASSUME BaseInv, Grows, SamePlacements, tracked' = tracked,
         \A i \in Ids : owner[i] # NoUser => Shrinks(i),
         \A i \in Ids : "modified" \in odd'[i] /\ InPlacement(i) => "modified" \in odd[i] \/ "raised" \in odd'[i],
         \A s \in Threads : req'[s].stage = "remove" => req'[s] = req[s],
         \A i \in Ids : i < nextId /\ tracked[i] = NoOrder /\ settled[i] = 0 /\ Claims(i) = 0 =>
           settled'[i] = 0 /\ Claims(i)' = 0,
         \A a \in Actors : \A c \in ToSet(todo'[a]) : c.op = "marketFill" /\ c.id < nextId =>
           \E b \in Actors : c \in ToSet(todo[b]),
         \A i \in Ids : tracked[i] # NoOrder => settled'[i] + Claims(i)' = settled[i] + Claims(i)
  PROVE  Orderly /\ \A i \in Ids : owner[i] # NoUser => Keeps(i)
  <1>1. /\ \A s \in Threads : Placed(req'[s]) => req'[s] = req[s]
        /\ \A i \in Ids : odd[i] \subseteq odd'[i]
    BY DEF SamePlacements, Grows
  <1>2. \A i \in Ids : owner[i] # NoUser => i < nextId /\ owner'[i] = owner[i]
    BY PlacedOwned DEF Grows
  <1>3. \A o \in Held(book') : o.id \in Ids /\ o.id < nextId /\ owner[o.id] # NoUser =>
          \E y \in Held(book) : y.id = o.id /\ y.side = o.side
    BY DEF Shrinks
  <1>4. Orderly
    BY <1>1, <1>3 DEF Orderly
  <1>5. ASSUME NEW i \in Ids, owner[i] # NoUser
        PROVE  Keeps(i)
    BY <1>1, <1>2, <1>5 DEF Keeps, SamePlacements
  <1> QED
    BY <1>4, <1>5

(* EngineRefuses: request q is over, and its escrow is to be released. *)
RefusesAs(r, q, d) ==
  /\ q \in Request /\ q.stage = "limit" /\ q.user \in Users /\ q.price * q.qty \in Nat /\ todo[r] = <<>>
  /\ d \in Seq(Call) /\ d = IF q.side = "sell" THEN <<>> ELSE ReleaseCall(q.user, q.price * q.qty)
  /\ (\A c \in ToSet(d) : c.op = "release") /\ (\A i : Weight(d, Claim(i)) = 0)
  /\ req' = [req EXCEPT ![r] = NoRequest] /\ todo' = [todo EXCEPT ![r] = d]
  /\ nextId' = nextId + 1 /\ Grows
  /\ UNCHANGED <<book, stops, nextQuote, traded, tracked, cash, shares, loaded, gen, credited, missed, settled, owner, odd, requests>>
  /\ UNCHANGED <<restarts, before>>
LEMMA RefusesIs ==
  ASSUME BaseInv, NEW r, r \in Threads, EngineRefuses(r), UNCHANGED run
  PROVE  \E q, d : q = req[r] /\ RefusesAs(r, q, d)
  <1>1. TypeOK /\ RequestsOK
    BY DEF BaseInv
  <1>2. PICK q : q = req[r]
    OBVIOUS
  <1>3. PICK d : d = IF q.side = "sell" THEN <<>> ELSE ReleaseCall(q.user, q.price * q.qty)
    OBVIOUS
  <1>4. /\ q \in Request /\ q.stage = "limit" /\ todo[r] = <<>>
        /\ req' = [req EXCEPT ![r] = NoRequest] /\ todo' = [todo EXCEPT ![r] = d]
        /\ nextId' = nextId + 1
        /\ UNCHANGED <<book, stops, nextQuote, traded, tracked, cash, shares, loaded, gen, credited, missed, settled, owner, odd, requests>>
        /\ UNCHANGED <<restarts, before>>
    BY <1>1, <1>2, <1>3 DEF EngineRefuses, GoesOn, BookFree, TypeOK, run, settled
  <1>5. q.user \in Users /\ q.price * q.qty \in Nat
    BY <1>1, <1>2, <1>4, RequestIs DEF RequestsOK, RequestOK
  <1>6. d \in Seq(Call) /\ (\A c \in ToSet(d) : c.op = "release") /\ \A i : Weight(d, Claim(i)) = 0
    BY <1>3, <1>5, ReleaseCallIs, NoCalls
  <1>7. Grows
    <2>1. (\A i : Here(i)' = Here(i)) /\ nextId \in Nat
      BY <1>1, <1>4, IdsAreNat DEF Here
    <2> QED
      BY <1>4, <2>1 DEF Grows
  <1>8. RefusesAs(r, q, d)
    BY <1>3, <1>4, <1>5, <1>6, <1>7 DEF RefusesAs
  <1> QED
    BY <1>2, <1>8

LEMMA RefusesKeep ==
  ASSUME BaseInv, NEW r, r \in Threads, NEW q, q = req[r], NEW d, RefusesAs(r, q, d)
  PROVE  Orderly /\ \A i \in Ids : owner[i] # NoUser => Keeps(i)
  <1>1. /\ TypeOK /\ q.stage = "limit" /\ todo[r] = <<>> /\ r \in Actors /\ d \in Seq(Call)
        /\ (\A c \in ToSet(d) : c.op = "release") /\ (\A i : Weight(d, Claim(i)) = 0)
        /\ req' = [req EXCEPT ![r] = NoRequest] /\ todo' = [todo EXCEPT ![r] = d] /\ Grows
        /\ UNCHANGED <<book, tracked, gen, credited, missed, settled, odd>>
    BY DEF RefusesAs, BaseInv, Actors
  <1>2. SamePlacements
    <2>1. NoRequest \in Request /\ ~Placed(NoRequest) /\ ~Placed(req[r])
      BY <1>1, NoRequestIs DEF Placed
    <2> QED
      BY <1>1, <2>1, SwapPlacements
  <1>3. \A i : Shrinks(i)
    BY <1>1, StillShrinks
  <1>4. /\ \A b \in Actors : b # r => todo'[b] = todo[b]
        /\ todo'[r] = d
        /\ \A w \in [Call -> Nat] :
              /\ Weight(todo', Each(w)) + Weight(todo[r], w) = Weight(todo, Each(w)) + Weight(d, w)
              /\ Weight(todo', Each(w)) \in Nat /\ Weight(todo, Each(w)) \in Nat
    <2>1. TypeOK /\ r \in Actors /\ d \in Seq(Call) /\ todo' = [todo EXCEPT ![r] = d]
      BY <1>1
    <2> QED
      BY ONLY <2>1, TodoChanges
  <1>5. ASSUME NEW i
        PROVE  Claims(i)' = Claims(i)
    <2>1. Claim(i) \in [Call -> Nat] /\ Weight(todo[r], Claim(i)) = 0 /\ Weight(d, Claim(i)) = 0
      BY <1>1, CallWeights, NoCalls
    <2> QED
      BY <1>4, <2>1 DEF Claims
  <1>6. \A a \in Actors : \A c \in ToSet(todo'[a]) : c.op = "marketFill" => \E b \in Actors : c \in ToSet(todo[b])
    BY <1>1, <1>4
  <1>7. \A s \in Threads : req'[s].stage = "remove" => req'[s] = req[s]
    BY <1>1, NoRequestIs, ReqChanges
  <1> QED
    BY <1>1, <1>2, <1>3, <1>5, <1>6, <1>7, PlainKeeps

(* The calls to the portfolio manager *)
LEMMA CallKeeps ==
  ASSUME BaseInv, Structure, NEW a, a \in Actors, NEW c, NEW q, CallsAs(a, c, q)
  PROVE  Orderly /\ \A i \in Ids : owner[i] # NoUser => Keeps(i)
  <1>1. /\ TypeOK /\ c \in Call /\ c \in ToSet(todo[a]) /\ q \in Seq(Call)
        /\ Still /\ UNCHANGED <<tracked, req, gen, requests>>
    BY DEF BaseInv, CallsAs
  <1>2. /\ todo'[a] = q
        /\ \A b \in Actors : b # a => todo'[b] = todo[b]
        /\ \A d \in ToSet(q) : d \in ToSet(todo[a])
        /\ \A i : Claims(i) = Claims(i)' + Claim(i)[c] /\ Claims(i)' \in Nat /\ Claim(i)[c] \in Nat
    BY <1>1, CallGone
  <1>3. \/ c.op \in {"release", "marketFill"} /\ settled' = settled
        \/ Credits(c)
    BY DEF CallsAs
  <1>4. ASSUME NEW i \in Ids
        PROVE  /\ settled[i] \in Nat /\ settled'[i] \in Nat
               /\ settled'[i] = settled[i] \/ settled'[i] = settled[i] + Claim(i)[c]
               /\ tracked[i] # NoOrder => settled'[i] = settled[i] + Claim(i)[c]
    <2>1. CASE c.op \in {"release", "marketFill"} /\ settled' = settled
      <3>1. tracked[i] # NoOrder => Claim(i)[c] = 0
        BY <1>1, <2>1 DEF Structure, Never, Claim
      <3> QED
        BY <1>1, <2>1, <3>1, SettledIs
    <2>2. CASE Credits(c)
      <3>1. /\ c.op # "release" /\ settled' = [settled EXCEPT ![c.id] = @ + c.qty] /\ settled \in [Ids -> Nat]
            /\ c.id \in Ids /\ c.qty \in Nat
        BY <1>1, <2>2, CallIs, SettledIs DEF Credits
      <3>2. Claim(i)[c] = IF c.id = i THEN c.qty ELSE 0
        BY <1>1, <3>1 DEF Claim
      <3> QED
        BY <3>1, <3>2
    <2> QED
      BY <1>3, <2>1, <2>2
  <1>5. ASSUME NEW i \in Ids
        PROVE  /\ settled[i] = 0 /\ Claims(i) = 0 => settled'[i] = 0 /\ Claims(i)' = 0
               /\ tracked[i] # NoOrder => settled'[i] + Claims(i)' = settled[i] + Claims(i)
    <2>1. Claims(i) = Claims(i)' + Claim(i)[c] /\ Claims(i)' \in Nat /\ Claim(i)[c] \in Nat
      BY <1>2
    <2>2. /\ settled[i] \in Nat /\ settled'[i] \in Nat
          /\ settled'[i] = settled[i] \/ settled'[i] = settled[i] + Claim(i)[c]
          /\ tracked[i] # NoOrder => settled'[i] = settled[i] + Claim(i)[c]
      BY <1>4
    <2> QED
      BY ONLY <2>1, <2>2
  <1>6. Grows /\ odd' = odd /\ SamePlacements /\ \A i : Shrinks(i)
    BY <1>1, StillIs, SameReqPlacements, StillShrinks DEF Still
  <1>7. \A b \in Actors : \A d \in ToSet(todo'[b]) : \E e \in Actors : d \in ToSet(todo[e])
    BY <1>2
  <1> QED
    BY <1>1, <1>5, <1>6, <1>7, PlainKeeps

LEMMA CancelsKeep ==
  ASSUME BaseInv, NEW r, r \in Threads, NEW id, NEW x, Cancels(r, id, x)
  PROVE  Orderly /\ \A i \in Ids : owner[i] # NoUser => Keeps(i)
  <1>1. /\ TypeOK /\ Comes(r, x) /\ x.stage = "remove" /\ x.id = id /\ id \in Ids \cup Quotes
        /\ \A i : Open(i)' <= Open(i) /\ Worth(i)' <= Worth(i)
        /\ \A o \in Held(book') : o \in Held(book)
        /\ odd' = [odd EXCEPT ![id] = @ \cup IF InPlacement(id) THEN {"cancelled"} ELSE {}]
    BY DEF Cancels, BaseInv
  <1>2. /\ req[r].stage = "idle" /\ x \in Request /\ req' = [req EXCEPT ![r] = x]
        /\ UNCHANGED <<tracked, credited, missed, settled, todo, gen>> /\ odd \in [Ids \cup Quotes -> SUBSET Oddity]
    BY <1>1 DEF Comes, TypeOK
  <1>3. Grows
    BY CancelsKeepsBase
  <1>4. SamePlacements
    BY <1>1, <1>2, SwapPlacements DEF Placed
  <1>5. ASSUME NEW i
        PROVE  Shrinks(i)
    <2>1. Made(i)' = Made(i) /\ Revenue(i)' = Revenue(i)
      BY <1>2 DEF Made, Revenue
    <2>2. Made(i) \in Nat /\ Revenue(i) \in Nat /\ Open(i) \in Nat /\ Worth(i) \in Nat
      BY <1>1, NumbersAreNat
    <2>3. book' \in [Side -> Seq(Resting)]
      BY <1>1 DEF Comes
    <2>4. Open(i)' \in Nat /\ Worth(i)' \in Nat
      BY <2>3, BookWeighs, WeightsAre DEF Open, Worth
    <2>5. Open(i)' + Made(i)' <= Open(i) + Made(i) /\ Worth(i)' + Revenue(i)' <= Worth(i) + Revenue(i)
      BY <1>1, <2>1, <2>2, <2>4
    <2> QED
      BY <1>1, <2>5 DEF Shrinks
  <1>6. /\ odd'[id] = odd[id] \cup IF InPlacement(id) THEN {"cancelled"} ELSE {}
        /\ \A i \in Ids : i # id => odd'[i] = odd[i]
    BY <1>1, <1>2
  <1>7. \A i \in Ids : "modified" \in odd'[i] => "modified" \in odd[i]
    BY <1>6
  <1>8. \A s \in Threads : req'[s].stage = "remove" =>
          \/ req'[s] = req[s]
          \/ InPlacement(req'[s].id) => "cancelled" \in odd'[req'[s].id]
    <2>1. req'[r] = x /\ \A s \in Threads : s # r => req'[s] = req[s]
      BY <1>1, <1>2, ReqChanges
    <2> QED
      BY <1>1, <1>6, <2>1
  <1>9. PICK S : S = {}
    OBVIOUS
  <1>10. /\ \A i \in Ids : owner[i] # NoUser /\ i \notin S => Shrinks(i)
         /\ \A o \in Held(book') : o.id \in S => \E y \in Held(book) : y.id = o.id /\ y.side = o.side
         /\ \A i \in Ids : "modified" \in odd'[i] /\ InPlacement(i) => "modified" \in odd[i] \/ "raised" \in odd'[i]
    BY <1>5, <1>7, <1>9
  <1>11. Orderly /\ \A i \in Ids : owner[i] # NoUser /\ i \notin S => Keeps(i)
    BY ONLY BaseInv, <1>2, <1>3, <1>4, <1>8, <1>10, SteadyKeeps
  <1> QED
    BY <1>9, <1>11

-----------------------------------------------------------------------------
(* An order of a handler is taken by the engine: the orders with an owner    *)
LEMMA EnterShrinks ==
  ASSUME BaseInv, nextId \in Ids, UnusedId(nextId), gen' = gen, gen.trades = <<>>,
         NEW e, NEW s, NEW p, NEW n, Submitted(e, nextId, s, p, n), TypeOK'
  PROVE  /\ \A i \in Ids : owner[i] # NoUser => Shrinks(i)
         /\ \A o \in Held(book') : o.id = nextId => o.side = s /\ p # 0
  <1>1. TypeOK /\ StopsUnowned /\ owner[nextId] = NoUser /\ Here(nextId) = 0
    BY DEF BaseInv, UnusedId
  <1>2. /\ e.trades \in Seq(Fill)
        /\ \A o \in Held(book') : \/ \E x \in Held(book) : x.id = o.id /\ x.side = o.side
                                  \/ o.id = nextId /\ o.side = s /\ p # 0
                                  \/ \E x \in ToSet(stops) : x.id = o.id
        /\ \A i : i # nextId /\ (\A x \in ToSet(stops) : x.id # i) =>
             /\ Open(i)' + Weight(e.trades, MadeBy(i)) = Open(i)
             /\ Worth(i)' + Weight(e.trades, MadeFor(i)) = Worth(i)
    BY DEF Submitted
  <1>3. (\A o \in Held(book) : o.id # nextId) /\ (\A x \in ToSet(stops) : x.id # nextId)
    BY ONLY <1>1, HereIs
  <1>4. \A o \in Held(book') : o.id = nextId => o.side = s /\ p # 0
    BY <1>2, <1>3
  <1>5. ASSUME NEW i \in Ids, owner[i] # NoUser
        PROVE  Shrinks(i)
    <2>1. i # nextId /\ \A x \in ToSet(stops) : x.id # i
      BY <1>1, <1>5 DEF StopsUnowned
    <2>2. Open(i)' + Weight(e.trades, MadeBy(i)) = Open(i) /\ Worth(i)' + Weight(e.trades, MadeFor(i)) = Worth(i)
      BY <1>2, <2>1
    <2>3. Made(i)' = Made(i) /\ Revenue(i)' = Revenue(i)
      BY DEF Made, Revenue
    <2>4. Made(i) \in Nat /\ Revenue(i) \in Nat /\ Open(i) \in Nat /\ Worth(i) \in Nat
      BY <1>1, NumbersAreNat
    <2>5. MadeBy(i) \in [Fill -> Nat] /\ MadeFor(i) \in [Fill -> Nat]
      BY WeightsAre
    <2>6. Weight(e.trades, MadeBy(i)) \in Nat /\ Weight(e.trades, MadeFor(i)) \in Nat
      BY <1>2, <2>5, WeightType
    <2>7. Open(i)' \in Nat /\ Worth(i)' \in Nat
      BY NumbersNext DEF Numbers
    <2>8. Open(i)' + Made(i)' <= Open(i) + Made(i) /\ Worth(i)' + Revenue(i)' <= Worth(i) + Revenue(i)
      BY ONLY <2>2, <2>3, <2>4, <2>6, <2>7
    <2>9. \A o \in Held(book') : o.id = i => \E y \in Held(book) : y.id = i /\ y.side = o.side
      BY <1>2, <2>1
    <2> QED
      BY <2>8, <2>9 DEF Shrinks
  <1> QED
    BY <1>4, <1>5

LEMMA MarketEntersKeeps ==
  ASSUME BaseInv, BaseInv', Structure, AllCovered, NEW r, r \in Threads, NEW q, q = req[r], NEW d, NEW e,
         MarketEnters(r, q, d, e)
  PROVE  Structure' /\ AllCovered'
  <1>1. /\ q.stage = "market" /\ q.user \in Users /\ q.side \in Side /\ d \in Seq(Call)
        /\ FillsOf(d, "marketFill", q, nextId, Reported(e))
        /\ Enters(r, q.user, NoRequest, d, e, q.side, 0, q.qty)
    BY DEF MarketEnters
  <1>2. /\ nextId \in Ids /\ gen.trades = <<>> /\ Submitted(e, nextId, q.side, 0, q.qty)
        /\ req' = [req EXCEPT ![r] = NoRequest] /\ UNCHANGED <<tracked, gen, credited, missed, settled>>
    BY <1>1 DEF Enters
  <1>3. TypeOK /\ RequestsOK /\ TypeOK'
    BY DEF BaseInv
  <1>4. Entered(r, q.user, d, e)
    BY ONLY BaseInv, r \in Threads, NoRequestIs, <1>1, EntersIs
  <1>5. /\ Grows /\ UnusedId(nextId) /\ odd'[nextId] = Fired(e, nextId)
        /\ \A i \in Ids : i # nextId => owner'[i] = owner[i] /\ odd'[i] = odd[i]
        /\ \A i : Claims(i)' = Claims(i) + Weight(d, Claim(i))
        /\ todo'[r] = d /\ \A b \in Actors : b # r => todo'[b] = todo[b]
    BY <1>4 DEF Entered
  <1>6. /\ \A i \in Ids : owner[i] # NoUser => Shrinks(i)
        /\ \A o \in Held(book') : o.id # nextId
    BY ONLY BaseInv, <1>2, <1>3, <1>5, EnterShrinks
  <1>7. SamePlacements
    <2>1. NoRequest \in Request /\ ~Placed(NoRequest) /\ ~Placed(req[r])
      BY <1>1, NoRequestIs DEF Placed
    <2> QED
      BY <1>2, <1>3, <2>1, SwapPlacements
  <1>8. nextId \in Nat /\ Ids \subseteq Nat
    BY <1>3, IdsAreNat
  <1>9. ASSUME NEW i \in Ids, i < nextId
        PROVE  Claims(i)' = Claims(i)
    <2>1. i # nextId
      BY <1>8, <1>9
    <2>2. Weight(d, Claim(i)) = 0
      BY <1>1, <2>1 DEF FillsOf
    <2>3. Claims(i) \in Nat /\ Claims(i)' = Claims(i) + Weight(d, Claim(i))
      BY <1>3, <1>5, NumbersAreNat
    <2> QED
      BY ONLY <2>2, <2>3
  <1>10. \A i \in Ids : tracked[i] # NoOrder => i < nextId
    BY PlacedOwned
  <1>11. \A s \in Threads : req'[s].stage = "remove" => req'[s] = req[s]
    BY <1>2, <1>3, NoRequestIs, ReqChanges
  <1>12. \A i \in Ids : "modified" \in odd'[i] => "modified" \in odd[i]
    <2>1. e.trades \in Seq(Fill)
      BY <1>2 DEF Submitted
    <2>2. Fired(e, nextId) \subseteq {"fired"}
      BY <2>1, FiredIs
    <2> QED
      BY <1>5, <2>2
  <1>13. \A a \in Actors : \A c \in ToSet(todo'[a]) : c.op = "marketFill" /\ c.id < nextId =>
           \E b \in Actors : c \in ToSet(todo[b])
    <2>1. \A c \in ToSet(d) : c.id = nextId
      BY <1>1 DEF FillsOf
    <2> QED
      BY <1>5, <1>8, <2>1
  <1>14. Orderly /\ \A i \in Ids : owner[i] # NoUser => Keeps(i)
    BY <1>2, <1>5, <1>6, <1>7, <1>9, <1>10, <1>11, <1>12, <1>13, PlainKeeps
  <1>15. ASSUME NEW i, i = nextId
         PROVE  Covered(i)'
    <2>1. tracked'[nextId] = NoOrder
      BY <1>2, <1>5 DEF UnusedId
    <2>2. \A s \in Threads : Placed(req'[s]) => req'[s].id # nextId
      <3>1. \A s \in Threads : Placed(req'[s]) => Placed(req[s]) /\ req'[s].id = req[s].id
        BY <1>14 DEF Orderly
      <3>2. \A s \in Threads : Placed(req[s]) => req[s].id \in Ids /\ req[s].id < nextId
        BY PlacedOwned
      <3>3. \A j \in Ids : j < nextId => j # nextId
        BY <1>8
      <3> QED
        BY <3>1, <3>2, <3>3
    <2>3. /\ tracked'[i] = NoOrder /\ \A o \in Held(book') : o.id # i
          /\ \A s \in Threads : req'[s].stage = "track" \/ Recorder(req'[s]) => req'[s].id # i
      BY <1>6, <1>15, <2>1, <2>2 DEF Placed, Recorder
    <2> QED
      BY <2>3 DEF Covered
  <1> QED
    <2>1. PICK S : S = {nextId}
      OBVIOUS
    <2>2. \A i \in Ids : owner'[i] # NoUser => owner[i] # NoUser \/ i \in S
      BY <1>5, <2>1
    <2>3. \A i \in Ids : i \in S => Covered(i)'
      BY <1>15, <2>1
    <2> QED
      BY <1>14, <2>2, <2>3, OrderlyCovers

LEMMA LimitEntersKeeps ==
  ASSUME BaseInv, BaseInv', Structure, AllCovered, NEW r, r \in Threads, NEW q, q = req[r], NEW x, NEW e,
         LimitEnters(r, q, x, e)
  PROVE  Structure' /\ AllCovered'
  <1>1. /\ q.stage = "limit" /\ q.side \in Side /\ q.price \in Prices /\ q.qty \in Nat /\ q.price * q.qty \in Nat
        /\ x \in Request /\ x.stage = "track" /\ x.side = q.side /\ x.qty = q.qty /\ x.price = q.price
        /\ x.id = nextId /\ x.trades = Reported(e)
        /\ Enters(r, q.user, x, <<>>, e, q.side, q.price, q.qty)
    BY DEF LimitEnters
  <1>2. /\ nextId \in Ids /\ gen.trades = <<>> /\ Submitted(e, nextId, q.side, q.price, q.qty)
        /\ req' = [req EXCEPT ![r] = x] /\ UNCHANGED <<tracked, gen, credited, missed, settled>>
    BY <1>1 DEF Enters
  <1>3. TypeOK /\ RequestsOK /\ TypeOK' /\ CallsOK /\ <<>> \in Seq(Call)
    BY NoCalls DEF BaseInv
  <1>4. Entered(r, q.user, <<>>, e)
    BY ONLY BaseInv, r \in Threads, <1>1, <1>3, EntersIs
  <1>5. /\ Grows /\ UnusedId(nextId) /\ odd'[nextId] = Fired(e, nextId)
        /\ \A i \in Ids : i # nextId => owner'[i] = owner[i] /\ odd'[i] = odd[i]
        /\ todo'[r] = <<>> /\ \A b \in Actors : b # r => todo'[b] = todo[b]
    BY <1>4 DEF Entered
  <1>6. /\ \A i \in Ids : owner[i] # NoUser => Shrinks(i)
        /\ \A o \in Held(book') : o.id = nextId => o.side = q.side
    BY ONLY BaseInv, <1>2, <1>3, <1>5, EnterShrinks
  <1>7. /\ req'[r] = x /\ \A s \in Threads : s # r => req'[s] = req[s]
        /\ \A w \in [Request -> Nat] :
             /\ Weight(req', w) + w[q] = Weight(req, w) + w[x]
             /\ Weight(req', w) \in Nat /\ Weight(req, w) \in Nat
    <2>1. TypeOK /\ r \in Threads /\ x \in Request /\ req' = [req EXCEPT ![r] = x]
      BY <1>1, <1>2, <1>3
    <2> QED
      BY ONLY <2>1, q = req[r], ReqChanges, ZenonT(30)
  <1>8. nextId \in Nat /\ Ids \subseteq Nat
    BY <1>3, IdsAreNat
  <1>9. ASSUME NEW i
        PROVE  Claims(i)' = Claims(i)
    <2>1. Weight(<<>>, Claim(i)) = 0
      BY NoCalls
    <2>2. Claims(i) \in Nat /\ Claims(i)' = Claims(i) + Weight(<<>>, Claim(i))
      BY <1>3, <1>4, NumbersAreNat DEF Entered
    <2> QED
      BY ONLY <2>1, <2>2
  <1>10. /\ \A s \in Threads : Placed(req[s]) => req[s].id \in Ids /\ req[s].id # nextId /\ owner[req[s].id] # NoUser
         /\ \A i \in Ids : owner[i] # NoUser \/ tracked[i] # NoOrder => i # nextId /\ owner[i] # NoUser
    <2>1. \A i \in Ids : i < nextId => i # nextId
      BY <1>8
    <2> QED
      BY <2>1, PlacedOwned
  <1>11. \A s \in Threads : s # r /\ Placed(req'[s]) =>
            req'[s] = req[s] /\ req'[s].id \in Ids /\ req'[s].id # nextId /\ owner[req[s].id] # NoUser
    BY <1>7, <1>10
  <1>12. ~Recorder(x) /\ ~Recorder(q) /\ ~Placed(q) /\ q \in Request
    BY <1>1, <1>3 DEF Recorder, Placed, TypeOK
  <1>13. \A o \in Held(book') : o.id \in Ids /\ owner[o.id] # NoUser => \E y \in Held(book) : y.id = o.id /\ y.side = o.side
    BY <1>6 DEF Shrinks
  <1>14. OnePlacement' /\ RecordSides'
    <2>1. OnePlacement'
      BY <1>1, <1>7, <1>11 DEF Structure, OnePlacement
    <2>2. \A s \in Threads : Recorder(req'[s]) => s # r
      BY <1>7, <1>12
    <2>3. RecordSides'
      BY <1>2, <1>7, <2>2 DEF Structure, RecordSides
    <2> QED
      BY <2>1, <2>3
  <1>15. NotYet'
    <2>1. tracked'[nextId] = NoOrder /\ settled'[nextId] = 0
      BY <1>2, <1>5 DEF UnusedId
    <2>2. ASSUME NEW i, i = nextId
          PROVE  Claims(i)' = 0
      <3>1. i \in Ids /\ i >= nextId
        BY <1>2, <1>8, <2>2
      <3>2. Claims(i) = 0
        BY <1>3, <3>1, NothingOfUnused
      <3> QED
        BY <3>2, <1>9
    <2>3. ASSUME NEW s \in Threads, req'[s].stage = "track"
          PROVE  (tracked[req[s].id] = NoOrder /\ settled[req[s].id] = 0 /\ Claims(req[s].id) = 0)'
      <3>1. PICK i : i = req'[s].id
        OBVIOUS
      <3>2. tracked'[i] = NoOrder /\ settled'[i] = 0 /\ Claims(i)' = 0
        <4>1. CASE s = r
          BY <1>1, <1>7, <2>1, <2>2, <3>1, <4>1
        <4>2. CASE s # r
          <5>1. req[s].stage = "track" /\ req[s].id = i
            BY <1>7, <2>3, <3>1, <4>2
          <5>2. (tracked[req[s].id] = NoOrder /\ settled[req[s].id] = 0 /\ Claims(req[s].id) = 0)
            BY <5>1 DEF Structure, NotYet
          <5> QED
            BY <1>2, <1>9, <5>1, <5>2
        <4> QED
          BY <4>1, <4>2
      <3> QED
        BY <3>1, <3>2 DEF Claims
    <2> QED
      BY <2>3 DEF NotYet
  <1>16. Never'
    <2> SUFFICES ASSUME NEW a \in Actors, NEW c \in ToSet(todo'[a]), c.op = "marketFill"
                 PROVE  tracked'[c.id] = NoOrder /\ \A s \in Threads : Placed(req'[s]) => req'[s].id # c.id
      BY DEF Never
    <2>1. c \in ToSet(todo[a]) /\ a # r
      BY <1>5, NoCalls
    <2>2. tracked[c.id] = NoOrder /\ \A s \in Threads : Placed(req[s]) => req[s].id # c.id
      BY <2>1 DEF Structure, Never
    <2>3. c.id # nextId
      <3>1. todo[a] \in Seq(Call)
        BY <1>3 DEF TypeOK
      <3>2. c \in Call
        BY <2>1, <3>1, OfSeq
      <3>3. c.id \in Ids
        BY <3>2, CallIs
      <3>4. c.id < nextId
        BY <1>3, <2>1 DEF CallsOK, CallOK
      <3>5. \A i \in Ids : i < nextId => i # nextId
        BY <1>8
      <3> QED
        BY <3>3, <3>4, <3>5
    <2> QED
      BY <1>1, <1>2, <1>7, <1>11, <2>2, <2>3
  <1>17. Cancelling'
    <2> SUFFICES ASSUME NEW s \in Threads, NEW z \in Threads, Placed(req'[s]), req'[z].id = req'[s].id,
                        req'[z].stage = "remove"
                 PROVE  "cancelled" \in odd'[req'[s].id]
      BY DEF Cancelling, Placed
    <2>1. z # r /\ req'[z] = req[z]
      BY <1>1, <1>7
    <2>2. req'[s].id \in Ids
      BY <1>1, <1>2, <1>7, <1>11
    <2>3. req[z].id < nextId
      BY <1>3, <2>1, <2>2 DEF RequestsOK, RequestOK
    <2>4. req'[s].id # nextId
      <3>1. \A i \in Ids : i < nextId => i # nextId
        BY <1>8
      <3> QED
        BY <2>1, <2>2, <2>3, <3>1
    <2>5. s # r /\ req'[s] = req[s]
      BY <1>1, <1>7, <2>4
    <2>6. "cancelled" \in odd[req[s].id]
      BY <2>1, <2>5 DEF Structure, Cancelling
    <2> QED
      BY <1>5, <2>2, <2>4, <2>5, <2>6
  <1>18. "modified" \notin odd'[nextId] /\ e.trades \in Seq(Fill)
    <2>1. e.trades \in Seq(Fill)
      BY <1>2 DEF Submitted
    <2> QED
      BY <1>5, <2>1, FiredIs
  <1>19. Modifying'
    BY <1>1, <1>5, <1>7, <1>11, <1>18 DEF Structure, Modifying
  <1>20. BookSides'
    <2> SUFFICES ASSUME NEW o \in Held(book'), o.id \in Ids, tracked'[o.id] # NoOrder
                 PROVE  o.side = tracked'[o.id].side
      BY DEF BookSides
    <2>1. tracked[o.id] # NoOrder /\ owner[o.id] # NoUser
      BY <1>2, <1>10
    <2>2. PICK y \in Held(book) : y.id = o.id /\ y.side = o.side
      BY <1>13, <2>1
    <2> QED
      BY <1>2, <2>1, <2>2 DEF Structure, BookSides
  <1>21. PlacedSides'
    <2> SUFFICES ASSUME NEW o \in Held(book'), NEW s \in Threads, Placed(req'[s]), req'[s].id = o.id
                 PROVE  o.side = req'[s].side
      BY DEF PlacedSides, Placed
    <2>1. CASE s = r
      BY <1>1, <1>6, <1>7, <2>1
    <2>2. CASE s # r
      <3>1. req'[s] = req[s] /\ o.id \in Ids /\ owner[o.id] # NoUser
        BY <1>11, <2>2
      <3>2. PICK y \in Held(book) : y.id = o.id /\ y.side = o.side
        BY <1>13, <3>1
      <3> QED
        BY <3>1, <3>2 DEF Structure, PlacedSides
    <2> QED
      BY <2>1, <2>2
  <1>22. ASSUME NEW i \in Ids, owner[i] # NoUser
         PROVE  Keeps(i)
    <2>1. Shrinks(i) /\ i # nextId
      BY <1>6, <1>10, <1>22
    <2>2. /\ Weight(req', RecShares(i)) = Weight(req, RecShares(i))
          /\ Weight(req', RecMoney(i)) = Weight(req, RecMoney(i))
      <3>1. /\ RecShares(i)[q] = 0 /\ RecShares(i)[x] = 0 /\ RecMoney(i)[q] = 0 /\ RecMoney(i)[x] = 0
        BY <1>1, <1>12, RequestWeighs
      <3>2. RecShares(i) \in [Request -> Nat] /\ RecMoney(i) \in [Request -> Nat]
        BY RequestWeights
      <3>3. /\ Weight(req', RecShares(i)) + 0 = Weight(req, RecShares(i)) + 0
            /\ Weight(req', RecMoney(i)) + 0 = Weight(req, RecMoney(i)) + 0
            /\ Weight(req', RecShares(i)) \in Nat /\ Weight(req, RecShares(i)) \in Nat
            /\ Weight(req', RecMoney(i)) \in Nat /\ Weight(req, RecMoney(i)) \in Nat
        BY <1>7, <3>1, <3>2
      <3> QED
        BY ONLY <3>3
    <2>3. \A s \in Threads : (Placed(req[s]) /\ req[s].id = i) \/ (Placed(req'[s]) /\ req'[s].id = i) => req'[s] = req[s]
      BY <1>1, <1>7, <1>12, <2>1
    <2> QED
      BY <1>2, <1>5, <1>9, <2>1, <2>2, <2>3 DEF Keeps
  <1>23. ASSUME NEW i, i = nextId
         PROVE  Covered(i)'
    <2>1. tracked'[i] = NoOrder /\ i \in Ids /\ r \in Threads
      BY <1>2, <1>5, <1>23 DEF UnusedId
    <2>2. \A s \in Threads : Placed(req'[s]) /\ req'[s].id = i => s = r
      BY <1>11, <1>23
    <2>3. ASSUME odd'[i] = {}
          PROVE  PlacementCovered(req[r])'
      <3>1. "fired" \notin Fired(e, nextId)
        BY <1>5, <1>23, <2>3
      <3>2. /\ Weight(Reported(e), SharesOf) <= Weight(e.trades, TakenBy(i))
            /\ Weight(Reported(e), MoneyOf) <= Weight(e.trades, TakenFor(i))
        BY <1>18, <1>23, <3>1, FiredIs
      <3>3. /\ Weight(e.trades, TakenBy(i)) + Open(i)' <= q.qty
            /\ q.side = "buy" => Weight(e.trades, TakenFor(i)) + Worth(i)' <= q.price * q.qty
        <4>1. q.price # 0
          BY <1>1, OrderFlowConstants
        <4>2. /\ Weight(e.trades, TakenBy(nextId)) + InBooks(book', OpenOf(nextId)) <= q.qty
              /\ q.side = "buy" /\ q.price # 0 =>
                   Weight(e.trades, TakenFor(nextId)) + InBooks(book', WorthOf(nextId)) <= q.price * q.qty
          BY <1>2 DEF Submitted
        <4>3. /\ Weight(e.trades, TakenBy(i)) + InBooks(book', OpenOf(i)) <= q.qty
              /\ q.side = "buy" => Weight(e.trades, TakenFor(i)) + InBooks(book', WorthOf(i)) <= q.price * q.qty
          BY ONLY <1>23, <4>1, <4>2
        <4> QED
          BY <4>3 DEF Open, Worth
      <3>4. Made(i)' = 0 /\ Revenue(i)' = 0
        BY <1>2, NoCalls DEF Made, Revenue
      <3>5. TakenBy(i) \in [Fill -> Nat] /\ TakenFor(i) \in [Fill -> Nat]
        BY WeightsAre
      <3>6. Weight(e.trades, TakenBy(i)) \in Nat /\ Weight(e.trades, TakenFor(i)) \in Nat
        BY <1>18, <3>5, WeightType
      <3>7. Open(i)' \in Nat /\ Worth(i)' \in Nat
        BY <1>3, NumbersNext DEF Numbers
      <3>8. Weight(x.trades, SharesOf) \in Nat /\ Weight(x.trades, MoneyOf) \in Nat
        BY <1>1, RequestIs
      <3>9. q.qty \in Nat /\ q.price * q.qty \in Nat
        BY <1>1
      <3>10. /\ Weight(x.trades, SharesOf) <= Weight(e.trades, TakenBy(i))
             /\ Weight(x.trades, MoneyOf) <= Weight(e.trades, TakenFor(i))
        BY <1>1, <3>2
      <3>11. /\ Open(i)' + Made(i)' + Weight(x.trades, SharesOf) <= q.qty
             /\ q.side = "buy" => Worth(i)' + Revenue(i)' + Weight(x.trades, MoneyOf) <= q.price * q.qty
        BY ONLY <3>3, <3>4, <3>6, <3>7, <3>8, <3>9, <3>10
      <3>12. req'[r] = x /\ x.id = i /\ x.qty = q.qty /\ x.price = q.price /\ x.side = q.side
        BY <1>1, <1>7, <1>23
      <3> QED
        BY <3>11, <3>12 DEF PlacementCovered, Open, Worth, Made, Revenue
    <2>4. \A s \in Threads : Recorder(req'[s]) => req'[s].id # i
      BY <1>7, <1>12, <2>2 DEF Placed, Recorder
    <2>5. req'[r].stage = "track" /\ req'[r].id = i
      BY <1>1, <1>7, <1>23
    <2>6. \A s \in Threads : req'[s].stage = "track" /\ req'[s].id = i => s = r
      BY <2>2 DEF Placed
    <2> QED
      BY <2>1, <2>3, <2>4, <2>5, <2>6 DEF Covered
  <1>24. ASSUME NEW i \in Ids
         PROVE  Covered(i)'
    <2>1. CASE owner'[i] = NoUser
      BY <2>1, UnownedCoveredNext DEF UnownedAreCovered
    <2>2. CASE i = nextId
      BY <1>23, <2>2
    <2>3. CASE owner'[i] # NoUser /\ i # nextId
      <3>1. Keeps(i) /\ Covered(i)
        BY <1>5, <1>22, <2>3 DEF AllCovered
      <3> QED
        BY <1>3, <3>1, KeepsCovered
    <2> QED
      BY <2>1, <2>2, <2>3
  <1>25. Structure'
    BY <1>14, <1>15, <1>16, <1>17, <1>19, <1>20, <1>21 DEF Structure
  <1> QED
    BY <1>24, <1>25 DEF AllCovered

(* An order that is being placed and sound has nothing odd about it. *)
LEMMA PlacedIsPlain ==
  ASSUME BaseInv, Structure, NEW r, r \in Threads, Placed(req[r]), Sound(req[r].id)
  PROVE  odd[req[r].id] = {}
  <1>1. req[r].id \in Ids /\ odd \in [Ids \cup Quotes -> SUBSET Oddity]
    BY PlacedOwned DEF BaseInv, TypeOK
  <1>2. odd[req[r].id] \cap Lost = {} /\ odd[req[r].id] \subseteq Oddity
    BY <1>1 DEF Sound
  <1>3. "raised" \notin odd[req[r].id] /\ odd[req[r].id] \subseteq {"modified"}
    BY <1>2 DEF Lost, Oddity
  <1>4. "modified" \notin odd[req[r].id]
    BY <1>3 DEF Structure, Modifying
  <1> QED
    BY <1>3, <1>4

LEMMA TrackKeeps ==
  ASSUME BaseInv, BaseInv', Structure, AllCovered, NEW r, r \in Threads, NEW q, q = req[r], NEW x, NEW d, NEW o,
         TracksAs(r, q, x, d, o)
  PROVE  Structure' /\ AllCovered'
  <1>1. /\ q \in Request /\ q.stage = "track" /\ q.id \in Ids /\ q.price * q.qty \in Nat
        /\ x \in Request /\ d \in Seq(Call) /\ o \in Tracked /\ o # NoOrder
        /\ GoesTo(r, x, d) /\ tracked' = [tracked EXCEPT ![q.id] = o]
        /\ o.side = q.side /\ o.qty = q.qty /\ o.filled = 0
        /\ o.reserve = IF q.side = "buy" THEN q.price * q.qty ELSE 0
        /\ \/ q.trades = <<>> /\ x = NoRequest
           \/ x.stage = "record" /\ x.side = q.side /\ x.id = q.id /\ x.trades = q.trades
        /\ FillsOf(d, "limitFill", q, q.id, q.trades)
    BY NoOrderIsNone DEF TracksAs
  <1>2. TypeOK /\ TypeOK' /\ tracked \in [Ids -> Tracked \cup {NoOrder}] /\ odd \in [Ids \cup Quotes -> SUBSET Oddity]
    BY DEF BaseInv, TypeOK
  <1>3. /\ Still /\ UNCHANGED <<gen, credited, missed, settled>>
        /\ req'[r] = x /\ \A s \in Threads : s # r => req'[s] = req[s]
        /\ \A w \in [Request -> Nat] :
              /\ Weight(req', w) + w[q] = Weight(req, w) + w[x]
              /\ Weight(req', w) \in Nat /\ Weight(req, w) \in Nat
        /\ todo'[r] = d /\ \A b \in Actors : b # r => todo'[b] = todo[b]
        /\ \A i : Claims(i)' = Claims(i) + Weight(d, Claim(i)) /\ Weight(d, Claim(i)) \in Nat
    <2>1. TypeOK /\ r \in Threads /\ x \in Request /\ d \in Seq(Call) /\ GoesTo(r, x, d)
      BY <1>1, <1>2
    <2>2. Still /\ UNCHANGED <<gen, credited, missed, settled>>
      BY <2>1 DEF GoesTo
    <2>3. /\ req'[r] = x /\ \A s \in Threads : s # r => req'[s] = req[s]
          /\ \A w \in [Request -> Nat] :
              /\ Weight(req', w) + w[req[r]] = Weight(req, w) + w[x]
              /\ Weight(req', w) \in Nat /\ Weight(req, w) \in Nat
          /\ todo'[r] = d /\ \A b \in Actors : b # r => todo'[b] = todo[b]
          /\ \A i : Claims(i)' = Claims(i) + Weight(d, Claim(i)) /\ Weight(d, Claim(i)) \in Nat
      BY ONLY <2>1, GoesToIs
    <2> QED
      BY <2>2, <2>3
  <1>4. UNCHANGED <<book, odd, owner>> /\ Held(book') = Held(book)
    BY <1>3 DEF Still
  <1>5. tracked'[q.id] = o /\ \A i \in Ids : i # q.id => tracked'[i] = tracked[i]
    BY <1>1, <1>2
  <1>6. \A s \in Threads : Placed(req[s]) /\ req[s].id = q.id => s = r
    BY <1>1 DEF Structure, OnePlacement, Placed
  <1>7. /\ Placed(x) => x.id = q.id /\ x.side = q.side
        /\ Recorder(x) => x.id = q.id /\ x.side = q.side /\ x.trades = q.trades
        /\ x.stage # "track" /\ x.stage # "remove" /\ ~Recorder(q) /\ Placed(q)
    BY <1>1, NoRequestIs DEF Placed, Recorder
  <1>8. \A s \in Threads : s # r /\ Placed(req'[s]) =>
            req'[s] = req[s] /\ req'[s].id \in Ids /\ req'[s].id # q.id
    BY <1>3, <1>6, PlacedOwned
  <1>9. /\ tracked[q.id] = NoOrder /\ settled[q.id] = 0
        /\ \A i : i = q.id => Claims(i) = 0
    <2>1. req[r].stage = "track"
      BY <1>1
    <2>2. tracked[req[r].id] = NoOrder /\ settled[req[r].id] = 0 /\ Claims(req[r].id) = 0
      BY <2>1 DEF Structure, NotYet
    <2> QED
      BY <2>2
  <1>10. /\ \A c \in ToSet(d) : c.op = "limitFill"
         /\ \A i : Weight(d, Claim(i)) = IF i = q.id THEN Weight(q.trades, SharesOf) ELSE 0
    BY <1>1 DEF FillsOf
  <1>11. OnePlacement'
    BY <1>3, <1>7, <1>8 DEF Structure, OnePlacement
  <1>12. NotYet'
    <2>1. ASSUME NEW s \in Threads, req'[s].stage = "track"
          PROVE  (tracked[req[s].id] = NoOrder /\ settled[req[s].id] = 0 /\ Claims(req[s].id) = 0)'
      <3>1. PICK i : i = req'[s].id
        OBVIOUS
      <3>2. s # r /\ req'[s] = req[s] /\ i \in Ids /\ i # q.id /\ i = req[s].id
        BY <1>3, <1>7, <1>8, <2>1, <3>1 DEF Placed
      <3>3. tracked[req[s].id] = NoOrder /\ settled[req[s].id] = 0 /\ Claims(req[s].id) = 0
        BY <2>1, <3>2 DEF Structure, NotYet
      <3>4. Claims(i) = 0
        BY <3>2, <3>3
      <3>5. Claims(i)' = 0
        <4>1. Claims(i)' = Claims(i) + Weight(d, Claim(i)) /\ Weight(d, Claim(i)) = 0
          BY <1>3, <1>10, <3>2
        <4> QED
          BY <3>4, <4>1
      <3>6. tracked'[i] = NoOrder /\ settled'[i] = 0
        BY <1>3, <1>5, <3>2, <3>3
      <3> QED
        BY <3>1, <3>5, <3>6 DEF Claims
    <2> QED
      BY <2>1 DEF NotYet
  <1>13. Never'
    <2> SUFFICES ASSUME NEW a \in Actors, NEW c \in ToSet(todo'[a]), c.op = "marketFill"
                 PROVE  tracked'[c.id] = NoOrder /\ \A s \in Threads : Placed(req'[s]) => req'[s].id # c.id
      BY DEF Never
    <2>1. c \in ToSet(todo[a]) /\ a # r
      BY <1>3, <1>10
    <2>2. tracked[c.id] = NoOrder /\ \A s \in Threads : Placed(req[s]) => req[s].id # c.id
      BY <2>1 DEF Structure, Never
    <2>3. c.id # q.id
      BY <1>7, <2>2
    <2>4. c.id \in Ids
      <3>1. todo[a] \in Seq(Call)
        BY <1>2 DEF TypeOK
      <3> QED
        BY <2>1, <3>1, OfSeq, CallIs
    <2> QED
      BY <1>3, <1>5, <1>7, <1>8, <2>2, <2>3, <2>4
  <1>14. Cancelling' /\ Modifying'
    <2>1. \A s \in Threads : Placed(req'[s]) => Placed(req[s]) /\ req'[s].id = req[s].id
      BY <1>3, <1>7
    <2>2. \A s \in Threads : req'[s].stage = "remove" => req'[s] = req[s]
      BY <1>3, <1>7
    <2>3. Cancelling'
      BY <1>4, <2>1, <2>2 DEF Structure, Cancelling
    <2>4. Modifying'
      BY <1>4, <2>1 DEF Structure, Modifying
    <2> QED
      BY <2>3, <2>4
  <1>15. \A b \in Held(book) : b.id = q.id => b.side = q.side
    BY <1>7 DEF Structure, PlacedSides
  <1>16. BookSides'
    <2> SUFFICES ASSUME NEW b \in Held(book'), b.id \in Ids, tracked'[b.id] # NoOrder
                 PROVE  b.side = tracked'[b.id].side
      BY DEF BookSides
    <2>1. CASE b.id = q.id
      BY <1>1, <1>4, <1>5, <1>15, <2>1
    <2>2. CASE b.id # q.id
      BY <1>4, <1>5, <2>2 DEF Structure, BookSides
    <2> QED
      BY <2>1, <2>2
  <1>17. PlacedSides'
    <2> SUFFICES ASSUME NEW b \in Held(book'), NEW s \in Threads, Placed(req'[s]), req'[s].id = b.id
                 PROVE  b.side = req'[s].side
      BY DEF PlacedSides, Placed
    <2>1. CASE s = r
      BY <1>3, <1>4, <1>7, <1>15, <2>1
    <2>2. CASE s # r
      BY <1>3, <1>4, <2>2 DEF Structure, PlacedSides
    <2> QED
      BY <2>1, <2>2
  <1>18. RecordSides'
    <2> SUFFICES ASSUME NEW s \in Threads, Recorder(req'[s]), tracked'[req'[s].id] # NoOrder
                 PROVE  tracked'[req'[s].id].side = req'[s].side
      BY DEF RecordSides, Recorder
    <2>1. CASE s = r
      BY <1>1, <1>3, <1>5, <1>7, <2>1
    <2>2. CASE s # r
      <3>1. req'[s] = req[s] /\ req[s].id \in Ids /\ req[s].id # q.id
        BY <1>3, <1>8, <2>2 DEF Placed, Recorder
      <3> QED
        BY <1>5, <3>1 DEF Structure, RecordSides
    <2> QED
      BY <2>1, <2>2
  <1>19. ASSUME NEW i \in Ids, i # q.id
         PROVE  Keeps(i)
    <2>1. Shrinks(i)
      BY <1>2, <1>3, <1>4, StillShrinks
    <2>2. /\ Weight(req', RecShares(i)) = Weight(req, RecShares(i))
          /\ Weight(req', RecMoney(i)) = Weight(req, RecMoney(i))
      <3>1. /\ RecShares(i)[q] = 0 /\ RecShares(i)[x] = 0 /\ RecMoney(i)[q] = 0 /\ RecMoney(i)[x] = 0
        BY <1>1, <1>7, <1>19, RequestWeighs
      <3>2. RecShares(i) \in [Request -> Nat] /\ RecMoney(i) \in [Request -> Nat]
        BY RequestWeights
      <3>3. /\ Weight(req', RecShares(i)) + 0 = Weight(req, RecShares(i)) + 0
            /\ Weight(req', RecMoney(i)) + 0 = Weight(req, RecMoney(i)) + 0
            /\ Weight(req', RecShares(i)) \in Nat /\ Weight(req, RecShares(i)) \in Nat
            /\ Weight(req', RecMoney(i)) \in Nat /\ Weight(req, RecMoney(i)) \in Nat
        BY <1>3, <3>1, <3>2
      <3> QED
        BY ONLY <3>3
    <2>3. \A s \in Threads : (Placed(req[s]) /\ req[s].id = i) \/ (Placed(req'[s]) /\ req'[s].id = i) => req'[s] = req[s]
      BY <1>3, <1>7, <1>19
    <2>4. Claims(i)' = Claims(i)
      <3>1. Claims(i)' = Claims(i) + Weight(d, Claim(i)) /\ Weight(d, Claim(i)) = 0 /\ Claims(i) \in Nat
        BY <1>2, <1>3, <1>10, <1>19, NumbersAreNat
      <3> QED
        BY ONLY <3>1
    <2>5. tracked'[i] = tracked[i] /\ odd[i] \subseteq odd'[i] /\ owner'[i] = owner[i] /\ settled'[i] = settled[i]
      BY <1>3, <1>4, <1>5, <1>19
    <2> QED
      BY <2>1, <2>2, <2>3, <2>4, <2>5 DEF Keeps
  <1>20. ASSUME NEW i, i = q.id
         PROVE  Covered(i)'
    <2>1. i \in Ids /\ tracked'[i] = o
      BY <1>1, <1>5, <1>20
    <2>2. \A s \in Threads : req'[s].stage = "track" => req'[s].id # i
      BY <1>3, <1>7, <1>8, <1>20 DEF Placed
    <2>3. odd'[i] = {} => PlacementCovered(q)
      <3>1. Covered(i)
        BY <2>1 DEF AllCovered
      <3> QED
        BY <1>1, <1>4, <1>20, <3>1 DEF Covered
    <2>4. Sound(i)' => odd'[i] = {}
      BY <1>4, <1>7, <1>20, PlacedIsPlain DEF Sound
    <2>5. PICK n : n = Weight(q.trades, SharesOf)
      OBVIOUS
    <2>6. PICK m : m = Weight(q.trades, MoneyOf)
      OBVIOUS
    <2>7. n \in Nat /\ m \in Nat
      BY <1>1, <2>5, <2>6, RequestIs
    <2>8. Weight(req', RecShares(i)) = n /\ Weight(req', RecMoney(i)) = m
      <3>1. RecShares(i) \in [Request -> Nat] /\ RecMoney(i) \in [Request -> Nat]
        BY RequestWeights
      <3>2. \A s \in Threads : RecShares(i)[req[s]] = 0 /\ RecMoney(i)[req[s]] = 0
        <4>1. \A s \in Threads : req[s] \in Request /\ ~(Recorder(req[s]) /\ req[s].id = i)
          BY <1>2, <1>6, <1>7, <1>20 DEF TypeOK, Placed, Recorder
        <4> QED
          BY <4>1, RequestWeighs
      <3>3. req \in [Threads -> Request]
        BY <1>2 DEF TypeOK
      <3>4. Weight(req, RecShares(i)) = 0 /\ Weight(req, RecMoney(i)) = 0
        BY <3>1, <3>2, <3>3, NothingWeighs
      <3>5. RecShares(i)[q] = 0 /\ RecMoney(i)[q] = 0
        BY <3>2
      <3>6. RecShares(i)[x] = n /\ RecMoney(i)[x] = m
        <4>1. CASE q.trades = <<>> /\ x = NoRequest
          <5>1. n = 0 /\ m = 0
            BY <2>5, <2>6, <4>1, NoCalls
          <5> QED
            BY <4>1, <5>1, IdleWeighs, NoRequestIs
        <4>2. CASE x.stage = "record" /\ x.id = q.id /\ x.trades = q.trades
          BY <1>1, <1>20, <2>5, <2>6, <4>2, RequestWeighs DEF Recorder
        <4> QED
          BY <1>1, <4>1, <4>2
      <3>7. /\ Weight(req', RecShares(i)) + 0 = 0 + n /\ Weight(req', RecMoney(i)) + 0 = 0 + m
            /\ Weight(req', RecShares(i)) \in Nat /\ Weight(req', RecMoney(i)) \in Nat
        BY <1>3, <3>1, <3>4, <3>5, <3>6
      <3> QED
        BY ONLY <2>7, <3>7
    <2>9. /\ Open(i)' = Open(i) /\ Made(i)' = Made(i) /\ Worth(i)' = Worth(i) /\ Revenue(i)' = Revenue(i)
          /\ Open(i) \in Nat /\ Made(i) \in Nat /\ Worth(i) \in Nat /\ Revenue(i) \in Nat
      BY <1>2, <1>3, <1>4, NumbersAreNat DEF Open, Made, Worth, Revenue
    <2>10. odd'[i] = {} => SharesCovered(i)' /\ FillsAgree(i)'
      <3> SUFFICES ASSUME odd'[i] = {}
                   PROVE  SharesCovered(i)' /\ FillsAgree(i)'
        OBVIOUS
      <3>1. Open(i) + Made(i) + n <= o.qty /\ o.qty \in Nat
        BY <1>1, <1>20, <2>3, <2>5, RequestIs DEF PlacementCovered
      <3>2. tracked'[i].filled + Open(i)' + Made(i)' + Weight(req', RecShares(i)) <= tracked'[i].qty
        <4>1. tracked'[i].filled = 0 /\ tracked'[i].qty = o.qty
          BY <1>1, <2>1
        <4> QED
          BY ONLY <2>7, <2>8, <2>9, <3>1, <4>1
      <3>3. Claims(i)' = n
        <4>1. Claims(i)' = Claims(i) + Weight(d, Claim(i)) /\ Weight(d, Claim(i)) = n /\ Claims(i) = 0
          BY <1>3, <1>9, <1>10, <1>20, <2>5
        <4> QED
          BY ONLY <2>7, <4>1
      <3>4. tracked'[i].filled = 0 /\ settled'[i] = 0
        BY <1>1, <1>3, <1>9, <1>20, <2>1
      <3>5. tracked'[i].filled + Weight(req', RecShares(i)) = settled'[i] + Claims(i)'
        BY <2>8, <3>3, <3>4
      <3> QED
        BY <3>2, <3>5 DEF SharesCovered, FillsAgree
    <2>11. Sound(i)' /\ o.side = "buy" => MoneyCovered(i)'
      <3> SUFFICES ASSUME Sound(i)', o.side = "buy"
                   PROVE  MoneyCovered(i)'
        OBVIOUS
      <3>1. Worth(i) + Revenue(i) + m <= q.price * q.qty
        BY <1>1, <1>20, <2>3, <2>4, <2>6 DEF PlacementCovered
      <3>2. tracked'[i].reserve = q.price * q.qty
        BY <1>1, <2>1
      <3>3. Worth(i)' + Revenue(i)' + Weight(req', RecMoney(i)) <= tracked'[i].reserve
        BY <2>8, <2>9, <3>1, <3>2
      <3> QED
        BY <3>3 DEF MoneyCovered
    <2> QED
      BY <1>1, <2>1, <2>2, <2>10, <2>11 DEF Covered
  <1>21. ASSUME NEW i \in Ids
         PROVE  Covered(i)'
    <2>1. CASE i = q.id
      BY <1>20, <2>1
    <2>2. CASE i # q.id
      <3>1. Keeps(i) /\ Covered(i)
        BY <1>19, <2>2 DEF AllCovered
      <3> QED
        BY <1>2, <3>1, KeepsCovered
    <2> QED
      BY <2>1, <2>2
  <1>22. Structure'
    BY <1>11, <1>12, <1>13, <1>14, <1>16, <1>17, <1>18 DEF Structure
  <1> QED
    BY <1>21, <1>22 DEF AllCovered

(* An order without an open share is not in the book. *)
LEMMA NothingOpen ==
  ASSUME TypeOK, NEW i, Open(i) = 0
  PROVE  \A o \in Held(book) : o.id # i
  <1>1. book["buy"] \in Seq(Resting) /\ book["sell"] \in Seq(Resting) /\ OpenOf(i) \in [Resting -> Nat]
    BY WeightsAre DEF TypeOK, Side
  <1>2. Weight(book["buy"], OpenOf(i)) \in Nat /\ Weight(book["sell"], OpenOf(i)) \in Nat
    BY <1>1, WeightType
  <1>3. Weight(book["buy"], OpenOf(i)) = 0 /\ Weight(book["sell"], OpenOf(i)) = 0
    BY <1>2 DEF Open, InBooks
  <1>4. ASSUME NEW q, q \in Seq(Resting), Weight(q, OpenOf(i)) = 0
        PROVE  \A o \in ToSet(q) : o.id # i
    <2> SUFFICES ASSUME NEW k \in DOMAIN q
                 PROVE  q[k].id # i
      BY DEF ToSet
    <2>1. OpenOf(i)[q[k]] <= Weight(q, OpenOf(i))
      BY <1>1, <1>4, WeightOfPart
    <2>2. q[k] \in Resting
      BY <1>4
    <2>3. q[k].open \in Nat /\ q[k].open # 0
      BY <2>2 DEF Resting
    <2>4. OpenOf(i)[q[k]] = IF q[k].id = i THEN q[k].open ELSE 0
      BY <2>2 DEF OpenOf
    <2> QED
      BY <1>4, <2>1, <2>3, <2>4
  <1> QED
    BY <1>1, <1>3, <1>4 DEF Held

(* The trades of a request are about some shares. *)
LEMMA TradesWeigh ==
  ASSUME NEW q, q \in Request, q.trades # <<>>
  PROVE  /\ Head(q.trades) \in Fill /\ Head(q.trades).qty \in Nat /\ Head(q.trades).qty > 0
         /\ Tail(q.trades) \in Seq(Fill)
         /\ \A w \in [Fill -> Nat] : /\ Weight(q.trades, w) = w[Head(q.trades)] + Weight(Tail(q.trades), w)
                                     /\ w[Head(q.trades)] \in Nat /\ Weight(Tail(q.trades), w) \in Nat
  <1>1. q.trades \in Seq(Fill)
    BY RequestIs
  <1>2. Head(q.trades) \in Fill /\ Tail(q.trades) \in Seq(Fill)
    BY <1>1
  <1>3. Head(q.trades).qty \in Nat /\ Head(q.trades).qty > 0
    BY <1>2 DEF Fill
  <1>4. ASSUME NEW w, w \in [Fill -> Nat]
        PROVE  /\ Weight(q.trades, w) = w[Head(q.trades)] + Weight(Tail(q.trades), w)
               /\ w[Head(q.trades)] \in Nat /\ Weight(Tail(q.trades), w) \in Nat
    BY <1>1, <1>2, <1>4, WeightOfTail, WeightType
  <1> QED
    BY <1>2, <1>3, <1>4

(* The sum over a function of which one entry weighs anything *)
LEMMA OneWeighs ==
  ASSUME NEW T, IsFiniteSet(T), NEW S, NEW w, w \in [S -> Nat], NEW f, f \in [T -> S], NEW r, r \in T,
         NEW z, z \in S, w[z] = 0, \A s \in T : s # r => w[f[s]] = 0
  PROVE  Weight(f, w) = w[f[r]]
  <1>1. PICK none : none = [f EXCEPT ![r] = z]
    OBVIOUS
  <1>2. none \in [T -> S] /\ none[r] = z /\ \A s \in T : s # r => none[s] = f[s]
    BY <1>1
  <1>3. Weight(none, w) = 0
    BY <1>2, NothingWeighs
  <1>4. Weight(f, w) + w[none[r]] = Weight(none, w) + w[f[r]]
    BY <1>2, WeightChanges
  <1>5. w[f[r]] \in Nat /\ Weight(f, w) \in Nat
    BY WeightOnType
  <1> QED
    BY <1>2, <1>3, <1>4, <1>5

(* Only one goroutine places order i: it has the shares and the money that   *)
(* are still to be recorded of it.                                           *)
LEMMA OneRecords ==
  ASSUME TypeOK, Structure, NEW r, r \in Threads, Placed(req[r]), NEW x, NEW i, i = req[r].id,
         req' \in [Threads -> Request], req'[r] = x, \A s \in Threads : s # r => req'[s] = req[s]
  PROVE  /\ Weight(req, RecShares(i)) = RecShares(i)[req[r]] /\ Weight(req', RecShares(i)) = RecShares(i)[x]
         /\ Weight(req, RecMoney(i)) = RecMoney(i)[req[r]] /\ Weight(req', RecMoney(i)) = RecMoney(i)[x]
  <1>1. \A s \in Threads : s # r => ~(Recorder(req[s]) /\ req[s].id = i)
    BY DEF Structure, OnePlacement, Placed, Recorder
  <1>2. req \in [Threads -> Request] /\ NoRequest \in Request
    BY NoRequestIs DEF TypeOK
  <1>3. RecShares(i) \in [Request -> Nat] /\ RecMoney(i) \in [Request -> Nat]
    BY RequestWeights
  <1>4. \A s \in Threads : s # r => RecShares(i)[req[s]] = 0 /\ RecMoney(i)[req[s]] = 0
    BY <1>1, <1>2, RequestWeighs
  <1>5. RecShares(i)[NoRequest] = 0 /\ RecMoney(i)[NoRequest] = 0
    BY NoRequestIs, IdleWeighs
  <1>6. Weight(req, RecShares(i)) = RecShares(i)[req[r]] /\ Weight(req, RecMoney(i)) = RecMoney(i)[req[r]]
    BY <1>2, <1>3, <1>4, <1>5, OneWeighs, FiniteSets
  <1>7. PICK g : g = req'
    OBVIOUS
  <1>8. g \in [Threads -> Request] /\ g[r] = x /\ \A s \in Threads : s # r => g[s] = req[s]
    BY <1>7
  <1>9. Weight(g, RecShares(i)) = RecShares(i)[g[r]] /\ Weight(g, RecMoney(i)) = RecMoney(i)[g[r]]
    BY <1>2, <1>3, <1>4, <1>5, <1>8, OneWeighs, FiniteSets
  <1> QED
    BY <1>6, <1>7, <1>8, <1>9

(* A handler goes on with request x, and calls that only release *)
LEMMA GoesKeeps ==
  ASSUME BaseInv, TypeOK', NEW r, r \in Threads, NEW q, q = req[r], NEW x, x \in Request, NEW d, d \in Seq(Call),
         GoesTo(r, x, d), \A c \in ToSet(d) : c.op = "release",
         Placed(x) => Placed(q) /\ x.id = q.id /\ x.side = q.side /\ (Recorder(x) <=> Recorder(q)),
         x.stage # "remove",
         \A i \in Ids : tracked'[i] # NoOrder => tracked[i] # NoOrder /\ tracked'[i].side = tracked[i].side
  PROVE  /\ Orderly
         /\ \A i \in Ids : tracked'[i] = tracked[i] /\ ~(Placed(q) /\ q.id = i) => Keeps(i)
         /\ \A i : Claims(i)' = Claims(i)
  <1>1. TypeOK /\ r \in Threads /\ x \in Request /\ d \in Seq(Call) /\ GoesTo(r, x, d)
    BY DEF BaseInv
  <1>2. Still /\ UNCHANGED <<gen, credited, missed, settled>>
    BY DEF GoesTo
  <1>3. /\ req'[r] = x /\ \A s \in Threads : s # r => req'[s] = req[s]
        /\ \A w \in [Request -> Nat] :
            /\ Weight(req', w) + w[req[r]] = Weight(req, w) + w[x]
            /\ Weight(req', w) \in Nat /\ Weight(req, w) \in Nat
        /\ todo'[r] = d /\ \A b \in Actors : b # r => todo'[b] = todo[b]
        /\ \A i : Claims(i)' = Claims(i) + Weight(d, Claim(i)) /\ Weight(d, Claim(i)) \in Nat
    BY ONLY <1>1, GoesToIs
  <1>4. ASSUME NEW i
        PROVE  Claims(i)' = Claims(i)
    <2>1. \A c \in ToSet(d) : Claim(i)[c] = 0
      <3>1. \A c \in ToSet(d) : c \in Call
        BY OfSeq
      <3> QED
        BY <3>1 DEF Claim
    <2>2. Weight(d, Claim(i)) = 0
      BY <2>1, CallWeights, ListWeighsNothing
    <2>3. Claims(i)' = Claims(i) + Weight(d, Claim(i)) /\ Claims(i) \in Nat
      BY <1>1, <1>3, NumbersAreNat
    <2> QED
      BY ONLY <2>2, <2>3
  <1>5. UNCHANGED <<book, odd, owner>> /\ Held(book') = Held(book)
    BY <1>2 DEF Still
  <1>6. Orderly
    <2>1. \A s \in Threads : Placed(req'[s]) =>
            /\ Placed(req[s]) /\ req'[s].id = req[s].id /\ req'[s].side = req[s].side
            /\ Recorder(req'[s]) <=> Recorder(req[s])
      BY <1>3
    <2>2. \A a \in Actors : \A c \in ToSet(todo'[a]) : c.op = "marketFill" => c \in ToSet(todo[a])
      BY <1>3
    <2>3. \A s \in Threads : req'[s].stage = "remove" => req'[s] = req[s]
      BY <1>3
    <2> QED
      BY <1>2, <1>4, <1>5, <2>1, <2>2, <2>3 DEF Orderly
  <1>7. ASSUME NEW i \in Ids, tracked'[i] = tracked[i], ~(Placed(q) /\ q.id = i)
        PROVE  Keeps(i)
    <2>1. Shrinks(i)
      BY <1>1, <1>2, <1>5, StillShrinks
    <2>2. ~(Placed(x) /\ x.id = i) /\ q \in Request
      BY <1>1, <1>7 DEF TypeOK
    <2>3. /\ Weight(req', RecShares(i)) = Weight(req, RecShares(i))
          /\ Weight(req', RecMoney(i)) = Weight(req, RecMoney(i))
      <3>1. /\ RecShares(i)[q] = 0 /\ RecShares(i)[x] = 0 /\ RecMoney(i)[q] = 0 /\ RecMoney(i)[x] = 0
        BY <1>7, <2>2, RequestWeighs DEF Placed, Recorder
      <3>2. RecShares(i) \in [Request -> Nat] /\ RecMoney(i) \in [Request -> Nat]
        BY RequestWeights
      <3>3. /\ Weight(req', RecShares(i)) + 0 = Weight(req, RecShares(i)) + 0
            /\ Weight(req', RecMoney(i)) + 0 = Weight(req, RecMoney(i)) + 0
            /\ Weight(req', RecShares(i)) \in Nat /\ Weight(req, RecShares(i)) \in Nat
            /\ Weight(req', RecMoney(i)) \in Nat /\ Weight(req, RecMoney(i)) \in Nat
        BY <1>3, <3>1, <3>2
      <3> QED
        BY ONLY <3>3
    <2>4. \A s \in Threads : (Placed(req[s]) /\ req[s].id = i) \/ (Placed(req'[s]) /\ req'[s].id = i) => req'[s] = req[s]
      BY <1>3, <1>7, <2>2, SMTT(30)
    <2> QED
      BY <1>2, <1>4, <1>5, <1>7, <2>1, <2>3, <2>4 DEF Keeps
  <1> QED
    BY <1>4, <1>6, <1>7

(* RecordPlacementTrades: nothing unusual is known of the order, and all of  *)
(* the trade is recorded.                                                    *)
RecordsExactly(i, t, o, new) ==
  /\ odd[i] = {} /\ o \in Tracked /\ new \in Tracked /\ tracked[i] = o /\ o # NoOrder
  /\ new.filled = o.filled + t.qty /\ new.qty = o.qty /\ new.side = o.side /\ new.user = o.user
  /\ o.reserve = new.reserve + (IF o.side = "buy" THEN t.price * t.qty ELSE 0)
LEMMA SoundRecords ==
  ASSUME BaseInv, Structure, NEW i, i \in Ids, Covered(i), NEW r, r \in Threads, NEW q, q = req[r], NEW t, NEW x, NEW d,
         RecordsAs(r, q, t, x, d), NEW new,
         new = IF q.id \in {t.maker, t.taker} THEN AfterTrade(tracked[q.id], t) ELSE tracked[q.id],
         i = q.id, Sound(i)
  PROVE  RecordsExactly(i, t, tracked[i], new)
  <1>1. /\ q \in Request /\ Recorder(q) /\ Placed(q) /\ q.trades \in Seq(Fill) /\ q.trades # <<>>
        /\ t = Head(q.trades) /\ t \in ToSet(q.trades) /\ t \in Fill
    BY DEF RecordsAs, Recorder, Placed
  <1>2. TypeOK /\ RequestOK(q)
    BY DEF BaseInv, RequestsOK
  <1>3. odd[i] = {}
    BY <1>1, PlacedIsPlain
  <1>4. t.taker = i
    BY <1>1, <1>2, <1>3 DEF RequestOK
  <1>5. tracked[i] \in Tracked /\ tracked[i] # NoOrder
    <2>1. tracked[i] # NoOrder
      BY <1>1 DEF Covered
    <2> QED
      BY <1>2, <2>1 DEF TypeOK
  <1>6. PICK o : o = tracked[i]
    OBVIOUS
  <1>7. new = AfterTrade(o, t) /\ o \in Tracked
    BY <1>4, <1>5, <1>6
  <1>8. PICK n \in Nat : After(o, new, t, n)
    BY <1>1, <1>7, AfterTradeIs
  <1>9. SharesCovered(i) /\ (o.side = "buy" => MoneyCovered(i))
    BY <1>3, <1>5, <1>6 DEF Covered, Sound
  <1>10. /\ Weight(req, RecShares(i)) = RecShares(i)[q] /\ Weight(req, RecMoney(i)) = RecMoney(i)[q]
    <2>1. \A s \in Threads : s # r => RecShares(i)[req[s]] = 0 /\ RecMoney(i)[req[s]] = 0
      <3>1. \A s \in Threads : s # r => ~(Recorder(req[s]) /\ req[s].id = i)
        BY <1>1 DEF Structure, OnePlacement, Placed, Recorder
      <3> QED
        BY <1>1, <1>2, <3>1, RequestWeighs DEF TypeOK
    <2>2. RecShares(i)[NoRequest] = 0 /\ RecMoney(i)[NoRequest] = 0 /\ NoRequest \in Request
      BY NoRequestIs, IdleWeighs
    <2>3. RecShares(i) \in [Request -> Nat] /\ RecMoney(i) \in [Request -> Nat] /\ req \in [Threads -> Request]
      BY <1>2, RequestWeights DEF TypeOK
    <2> QED
      BY <2>1, <2>2, <2>3, OneWeighs, FiniteSets
  <1>11. RecShares(i)[q] = Weight(q.trades, SharesOf) /\ RecMoney(i)[q] = Weight(q.trades, MoneyOf)
    BY <1>1, RequestWeighs
  <1>12. /\ Weight(q.trades, SharesOf) = t.qty + Weight(Tail(q.trades), SharesOf)
         /\ Weight(q.trades, MoneyOf) = t.price * t.qty + Weight(Tail(q.trades), MoneyOf)
         /\ t.qty \in Nat /\ t.price * t.qty \in Nat
         /\ Weight(Tail(q.trades), SharesOf) \in Nat /\ Weight(Tail(q.trades), MoneyOf) \in Nat
    <2>1. SharesOf[t] = t.qty /\ MoneyOf[t] = t.price * t.qty
      BY <1>1 DEF SharesOf, MoneyOf
    <2> QED
      BY <1>1, <2>1, TradesWeigh, FillWeights
  <1>13. PICK a : a = Weight(Tail(q.trades), SharesOf)
    OBVIOUS
  <1>14. PICK b : b = Weight(Tail(q.trades), MoneyOf)
    OBVIOUS
  <1>15. /\ Open(i) \in Nat /\ Made(i) \in Nat /\ Worth(i) \in Nat /\ Revenue(i) \in Nat
         /\ o.filled \in Nat /\ o.qty \in Nat /\ o.reserve \in Nat
    BY <1>2, <1>7, NumbersAreNat DEF Tracked
  <1>16. o.filled + Open(i) + Made(i) + (t.qty + a) <= o.qty
    BY <1>6, <1>9, <1>10, <1>11, <1>12, <1>13 DEF SharesCovered
  <1>17. n = t.qty
    <2>1. o.filled + t.qty <= o.qty
      BY <1>12, <1>13, <1>15, <1>16
    <2> QED
      BY <1>8, <2>1 DEF After
  <1>18. o.side = "buy" => o.reserve = new.reserve + t.price * t.qty
    <2> SUFFICES ASSUME o.side = "buy"
                 PROVE  o.reserve = new.reserve + t.price * t.qty
      OBVIOUS
    <2>1. Worth(i) + Revenue(i) + (t.price * t.qty + b) <= o.reserve
      BY <1>6, <1>9, <1>10, <1>11, <1>12, <1>14 DEF MoneyCovered
    <2>2. n * t.price = t.price * t.qty
      <3>1. t.qty \in Nat /\ t.price \in Nat
        BY <1>1, OrderFlowConstants DEF Fill
      <3> QED
        BY ONLY <1>17, <3>1
    <2>3. n * t.price <= o.reserve
      BY <1>12, <1>14, <1>15, <2>1, <2>2
    <2> QED
      BY <1>8, <2>2, <2>3 DEF After
  <1> QED
    <2>1. o.reserve = new.reserve + (IF o.side = "buy" THEN t.price * t.qty ELSE 0)
      <3>1. o.side # "buy" => new.reserve = o.reserve
        BY <1>8 DEF After
      <3>2. o.side # "buy" => o.reserve = new.reserve + 0
        BY ONLY <1>15, <3>1
      <3> QED
        BY ONLY <1>18, <3>2
    <2> QED
      BY <1>3, <1>5, <1>6, <1>7, <1>8, <1>17, <2>1 DEF RecordsExactly, After

LEMMA RecordKeeps ==
  ASSUME BaseInv, BaseInv', Structure, AllCovered, NEW r, r \in Threads, RecordPlacementTrades(r), UNCHANGED run
  PROVE  Structure' /\ AllCovered'
  <1>1. PICK q, t, x, d, new :
           /\ q = req[r] /\ RecordsAs(r, q, t, x, d)
           /\ new = IF q.id \in {t.maker, t.taker} THEN AfterTrade(tracked[q.id], t) ELSE tracked[q.id]
           /\ tracked[q.id] # NoOrder => new \in Tracked
           /\ Forgets(q, x, d) \/ Records1(q, x, d, new) \/ Completes(q, x, d, new)
    BY RecordIs
  <1>2. /\ q \in Request /\ Recorder(q) /\ Placed(q) /\ q.id \in Ids /\ q.user \in Users
        /\ q.trades \in Seq(Fill) /\ q.trades # <<>> /\ t = Head(q.trades) /\ t \in Fill
        /\ x \in Request /\ d \in Seq(Call) /\ GoesTo(r, x, d)
    BY <1>1 DEF RecordsAs, Recorder, Placed
  <1>3. TypeOK /\ TypeOK' /\ tracked \in [Ids -> Tracked \cup {NoOrder}]
    BY DEF BaseInv, TypeOK
  <1>4. x = NoRequest \/ (Placed(x) /\ Recorder(x) /\ x.id = q.id /\ x.side = q.side)
    BY <1>1 DEF Forgets, Records1, Completes, Rests, Placed, Recorder
  <1>5. \A c \in ToSet(d) : c.op = "release"
    <2>1. new \in Tracked => new.reserve \in Nat
      BY DEF Tracked
    <2> QED
      BY <1>1, <1>2, <2>1, ReleaseCallIs, NoCalls DEF Forgets, Records1, Completes
  <1>6. /\ \A j \in Ids : j # q.id => tracked'[j] = tracked[j]
        /\ tracked'[q.id] # NoOrder => /\ tracked[q.id] # NoOrder /\ tracked'[q.id].side = tracked[q.id].side
                                       /\ Records1(q, x, d, new) \/ Forgets(q, x, d)
    <2>1. CASE Forgets(q, x, d)
      BY <2>1 DEF Forgets
    <2>2. CASE Records1(q, x, d, new)
      <3>1. new \in Tracked /\ tracked[q.id] # NoOrder /\ tracked' = [tracked EXCEPT ![q.id] = new]
        BY <1>1, <2>2 DEF Records1
      <3>2. new.side = tracked[q.id].side
        <4>1. tracked[q.id] \in Tracked
          BY <1>2, <1>3, <3>1
        <4>2. AfterTrade(tracked[q.id], t).side = tracked[q.id].side
          BY <1>2, <4>1, AfterTradeIs DEF After
        <4> QED
          BY <1>1, <4>2
      <3> QED
        BY <1>2, <1>3, <2>2, <3>1, <3>2
    <2>3. CASE Completes(q, x, d, new)
      <3>1. tracked' = [tracked EXCEPT ![q.id] = NoOrder]
        BY <2>3 DEF Completes
      <3> QED
        BY <1>2, <1>3, <3>1
    <2> QED
      BY <1>1, <2>1, <2>2, <2>3
  <1>7. /\ Orderly
        /\ \A i \in Ids : i # q.id => Keeps(i)
        /\ \A i : Claims(i)' = Claims(i)
    <2>1. /\ Placed(x) => Placed(q) /\ x.id = q.id /\ x.side = q.side /\ (Recorder(x) <=> Recorder(q))
          /\ x.stage # "remove"
      BY <1>2, <1>4, NoRequestIs DEF Placed
    <2>2. \A i \in Ids : tracked'[i] # NoOrder => tracked[i] # NoOrder /\ tracked'[i].side = tracked[i].side
      BY <1>6
    <2>3. /\ Orderly
          /\ \A i \in Ids : tracked'[i] = tracked[i] /\ ~(Placed(q) /\ q.id = i) => Keeps(i)
          /\ \A i : Claims(i)' = Claims(i)
      BY <1>1, <1>2, <1>3, <1>5, <2>1, <2>2, GoesKeeps
    <2> QED
      BY <1>6, <2>3
  <1>8. UNCHANGED <<book, odd, owner, gen, credited, missed, settled>> /\ req' = [req EXCEPT ![r] = x] /\ Held(book') = Held(book)
    BY <1>2 DEF GoesTo, Still
  <1>9. ASSUME NEW i, i = q.id
        PROVE  Covered(i)'
    <2>1. i \in Ids /\ Covered(i)
      BY <1>2, <1>9 DEF AllCovered
    <2>2. /\ req'[r] = x /\ \A s \in Threads : s # r => req'[s] = req[s]
          /\ x.stage # "track" /\ (Recorder(x) \/ x = NoRequest)
      BY <1>3, <1>4, <1>8, NoRequestIs DEF TypeOK, Recorder
    <2>3. \A s \in Threads : /\ req'[s].stage = "track" => req'[s].id # i
                             /\ Recorder(req'[s]) /\ req'[s].id = i => s = r
      BY <1>1, <1>2, <1>9, <2>2 DEF Structure, OnePlacement, Placed, Recorder
    <2>4. CASE ~Sound(i)
      BY <1>8, <2>3, <2>4 DEF Covered, Sound
    <2>5. CASE Sound(i)
      <3>1. PICK o : o = tracked[i] /\ RecordsExactly(i, t, o, new)
        BY <1>1, <1>2, <1>9, <2>1, <2>5, SoundRecords
      <3>2. /\ odd[i] = {} /\ o \in Tracked /\ new \in Tracked /\ o # NoOrder
            /\ new.filled = o.filled + t.qty /\ new.qty = o.qty /\ new.side = o.side
            /\ o.side = "buy" => o.reserve = new.reserve + t.price * t.qty
        BY <3>1 DEF RecordsExactly
      <3>3. SharesCovered(i) /\ FillsAgree(i) /\ (o.side = "buy" => MoneyCovered(i))
        BY <2>1, <2>5, <3>1, <3>2 DEF Covered
      <3>4. PICK a : a = Weight(Tail(q.trades), SharesOf)
        OBVIOUS
      <3>5. PICK b : b = Weight(Tail(q.trades), MoneyOf)
        OBVIOUS
      <3>6. /\ Weight(q.trades, SharesOf) = t.qty + a /\ Weight(q.trades, MoneyOf) = t.price * t.qty + b
            /\ t.qty \in Nat /\ t.price * t.qty \in Nat /\ a \in Nat /\ b \in Nat
        <4>1. SharesOf[t] = t.qty /\ MoneyOf[t] = t.price * t.qty
          BY <1>2 DEF SharesOf, MoneyOf
        <4> QED
          BY <1>2, <3>4, <3>5, <4>1, TradesWeigh, FillWeights
      <3>7. /\ Weight(req, RecShares(i)) = t.qty + a /\ Weight(req, RecMoney(i)) = t.price * t.qty + b
            /\ Weight(req', RecShares(i)) = RecShares(i)[x] /\ Weight(req', RecMoney(i)) = RecMoney(i)[x]
        <4>1. RecShares(i)[q] = Weight(q.trades, SharesOf) /\ RecMoney(i)[q] = Weight(q.trades, MoneyOf)
          BY <1>2, <1>9, RequestWeighs
        <4>2. Placed(req[r]) /\ i = req[r].id /\ req[r] = q
          BY <1>1, <1>2, <1>9
        <4>3. /\ Weight(req, RecShares(i)) = RecShares(i)[req[r]] /\ Weight(req', RecShares(i)) = RecShares(i)[x]
              /\ Weight(req, RecMoney(i)) = RecMoney(i)[req[r]] /\ Weight(req', RecMoney(i)) = RecMoney(i)[x]
          <5>1. /\ TypeOK /\ Structure /\ r \in Threads /\ Placed(req[r]) /\ i = req[r].id
                /\ req' \in [Threads -> Request] /\ req'[r] = x /\ \A s \in Threads : s # r => req'[s] = req[s]
            BY <1>3, <2>2, <4>2 DEF TypeOK
          <5> QED
            BY ONLY <5>1, OneRecords
        <4> QED
          BY <3>6, <4>1, <4>2, <4>3
      <3>8. /\ Open(i)' = Open(i) /\ Made(i)' = Made(i) /\ Worth(i)' = Worth(i) /\ Revenue(i)' = Revenue(i)
            /\ Open(i) \in Nat /\ Made(i) \in Nat /\ Worth(i) \in Nat /\ Revenue(i) \in Nat
        BY <1>3, <1>8, NumbersAreNat DEF Open, Made, Worth, Revenue
      <3>9. /\ o.filled \in Nat /\ o.qty \in Nat /\ o.reserve \in Nat /\ new.reserve \in Nat
            /\ settled[i] \in Nat /\ Claims(i) \in Nat
        BY <1>3, <2>1, <3>2, NumbersAreNat, SettledIs DEF Tracked, TypeOK
      <3>10. o.filled + Open(i) + Made(i) + (t.qty + a) <= o.qty
        BY <3>1, <3>3, <3>7 DEF SharesCovered
      <3>11. CASE Records1(q, x, d, new)
        <4>1. Rests(q, x) /\ tracked'[i] = new
          BY <1>3, <1>9, <2>1, <3>11 DEF Records1
        <4>2. RecShares(i)[x] = a /\ RecMoney(i)[x] = b
          <5>1. CASE x = NoRequest /\ Tail(q.trades) = <<>>
            BY <3>4, <3>5, <5>1, NoCalls, NoRequestIs, IdleWeighs
          <5>2. CASE x.stage = "recording" /\ x.id = q.id /\ x.trades = Tail(q.trades)
            BY <1>2, <1>9, <3>4, <3>5, <5>2, RequestWeighs DEF Recorder
          <5> QED
            BY <4>1, <5>1, <5>2 DEF Rests
        <4>3. SharesCovered(i)'
          <5>1. new.filled + Open(i)' + Made(i)' + a <= new.qty
            BY <3>2, <3>6, <3>8, <3>9, <3>10
          <5> QED
            BY <3>7, <4>1, <4>2, <5>1 DEF SharesCovered
        <4>4. FillsAgree(i)'
          <5>1. o.filled + (t.qty + a) = settled[i] + Claims(i)
            BY <3>1, <3>3, <3>7 DEF FillsAgree
          <5>2. new.filled + a = settled[i] + Claims(i)
            BY <3>2, <3>6, <3>9, <5>1
          <5>3. settled'[i] = settled[i] /\ Claims(i)' = Claims(i)
            BY <1>7, <1>8
          <5> QED
            BY <3>7, <4>1, <4>2, <5>2, <5>3 DEF FillsAgree
        <4>5. new.side = "buy" => MoneyCovered(i)'
          <5> SUFFICES ASSUME o.side = "buy"
                       PROVE  MoneyCovered(i)'
            BY <3>2
          <5>1. Worth(i) + Revenue(i) + (t.price * t.qty + b) <= o.reserve
            BY <3>1, <3>3, <3>7 DEF MoneyCovered
          <5>2. o.reserve = new.reserve + t.price * t.qty
            BY <3>2
          <5>3. PICK m : m = t.price * t.qty
            OBVIOUS
          <5>4. Worth(i)' + Revenue(i)' + b <= new.reserve
            BY <3>6, <3>8, <3>9, <5>1, <5>2, <5>3
          <5> QED
            BY <3>7, <4>1, <4>2, <5>4 DEF MoneyCovered
        <4>6. new # NoOrder
          BY <3>2, NoOrderIsNone
        <4> QED
          BY <2>3, <3>2, <4>1, <4>3, <4>4, <4>5, <4>6 DEF Covered
      <3>12. CASE Completes(q, x, d, new)
        <4>1. x = NoRequest /\ tracked'[i] = NoOrder /\ new.filled >= new.qty
          BY <1>3, <1>9, <2>1, <3>12 DEF Completes, Completed
        <4>2. Open(i) = 0
          <5>1. o.filled + t.qty >= o.qty
            BY <3>2, <4>1
          <5> QED
            BY <3>6, <3>8, <3>9, <3>10, <5>1
        <4>3. \A y \in Held(book') : y.id # i
          BY <1>3, <1>8, <4>2, NothingOpen
        <4>4. \A s \in Threads : ~(Recorder(req'[s]) /\ req'[s].id = i)
          BY <2>2, <2>3, <4>1, NoRequestIs
        <4> QED
          BY <2>3, <4>1, <4>3, <4>4 DEF Covered
      <3> QED
        BY <1>1, <1>9, <3>1, <3>2, <3>11, <3>12, SMTT(30) DEF Forgets
    <2> QED
      BY <2>4, <2>5
  <1>10. \A i \in Ids : owner'[i] # NoUser => owner[i] # NoUser
    BY <1>8
  <1>11. PICK S : S = {q.id}
    OBVIOUS
  <1>12. /\ \A i \in Ids : owner'[i] # NoUser => owner[i] # NoUser \/ i \in S
         /\ \A i \in Ids : owner[i] # NoUser /\ i \notin S => Keeps(i)
         /\ \A i \in Ids : i \in S => Covered(i)'
    BY <1>7, <1>9, <1>10, <1>11
  <1> QED
    BY <1>7, <1>12, OrderlyCovers

LEMMA RemovesKeep ==
  ASSUME BaseInv, BaseInv', Structure, AllCovered, NEW r, r \in Threads, RemoveFromTracker(r), UNCHANGED run
  PROVE  Structure' /\ AllCovered'
  <1>1. PICK q, d : q = req[r] /\ RemovesAs(r, q, d)
    BY RemovesIs
  <1>2. /\ q \in Request /\ q.stage = "remove" /\ ~Placed(q) /\ d \in Seq(Call) /\ GoesTo(r, NoRequest, d)
        /\ \/ tracked' = tracked /\ d = <<>>
           \/ /\ q.id \in Ids /\ tracked[q.id] # NoOrder /\ tracked[q.id] \in Tracked
              /\ tracked' = [tracked EXCEPT ![q.id] = NoOrder]
              /\ d = ReleaseCall(tracked[q.id].user, tracked[q.id].reserve)
    BY <1>1 DEF RemovesAs, Placed
  <1>3. TypeOK /\ TypeOK' /\ tracked \in [Ids -> Tracked \cup {NoOrder}] /\ RequestOK(q)
    BY <1>1 DEF BaseInv, TypeOK, RequestsOK
  <1>4. \A c \in ToSet(d) : c.op = "release"
    <2>1. tracked[q.id] \in Tracked => tracked[q.id].user \in Users /\ tracked[q.id].reserve \in Nat
      BY DEF Tracked
    <2> QED
      BY <1>2, <2>1, ReleaseCallIs, NoCalls
  <1>5. /\ \A j \in Ids : j # q.id \/ tracked' = tracked => tracked'[j] = tracked[j]
        /\ q.id \in Ids /\ tracked' # tracked => tracked'[q.id] = NoOrder /\ tracked[q.id] # NoOrder
    BY <1>2, <1>3
  <1>6. /\ Orderly
        /\ \A i \in Ids : i # q.id \/ tracked' = tracked => Keeps(i)
    <2>1. /\ Placed(NoRequest) => /\ Placed(q) /\ NoRequest.id = q.id /\ NoRequest.side = q.side
                                  /\ (Recorder(NoRequest) <=> Recorder(q))
          /\ NoRequest.stage # "remove" /\ NoRequest \in Request
      BY NoRequestIs
    <2>2. \A i \in Ids : tracked'[i] # NoOrder => tracked[i] # NoOrder /\ tracked'[i].side = tracked[i].side
      BY <1>5
    <2>3. /\ Orderly
          /\ \A i \in Ids : tracked'[i] = tracked[i] /\ ~(Placed(q) /\ q.id = i) => Keeps(i)
      BY <1>1, <1>2, <1>3, <1>4, <2>1, <2>2, GoesKeeps
    <2> QED
      BY <1>2, <1>5, <2>3
  <1>7. UNCHANGED <<book, odd, owner>> /\ req' = [req EXCEPT ![r] = NoRequest] /\ Held(book') = Held(book)
    BY <1>2 DEF GoesTo, Still
  <1>8. ASSUME NEW i \in Ids, i = q.id, tracked' # tracked
        PROVE  Covered(i)'
    <2>1. tracked'[i] = NoOrder /\ tracked[i] # NoOrder
      BY <1>5, <1>8
    <2>2. /\ req'[r] = NoRequest /\ \A s \in Threads : s # r => req'[s] = req[s]
          /\ NoRequest.stage # "track" /\ ~Recorder(NoRequest)
      BY <1>3, <1>7, NoRequestIs DEF TypeOK
    <2>3. \A s \in Threads : req'[s].stage = "track" => req'[s].id # i
      BY <2>1, <2>2 DEF Structure, NotYet
    <2>4. \A s \in Threads : ~(Recorder(req'[s]) /\ req'[s].id = i /\ Sound(i)')
      <3> SUFFICES ASSUME NEW s \in Threads, Recorder(req'[s]), req'[s].id = i
                   PROVE  ~Sound(i)'
        OBVIOUS
      <3>1. Placed(req[s]) /\ req[s].id = i
        BY <2>2 DEF Placed, Recorder
      <3>2. "cancelled" \in odd[i]
        BY <1>1, <1>2, <1>8, <3>1 DEF Structure, Cancelling
      <3> QED
        BY <1>7, <3>2 DEF Sound, Lost, Oddity
    <2>5. \A o \in Held(book') : o.id # i
      <3>1. Here(i) = 0
        BY <1>2, <1>3, <1>8 DEF RequestOK
      <3> QED
        BY <1>3, <1>7, <1>8, <3>1, HereIs
    <2> QED
      BY <2>1, <2>3, <2>4, <2>5 DEF Covered
  <1>9. PICK S : S = {i \in Ids : i = q.id /\ tracked' # tracked}
    OBVIOUS
  <1>10. /\ \A i \in Ids : owner'[i] # NoUser => owner[i] # NoUser \/ i \in S
         /\ \A i \in Ids : owner[i] # NoUser /\ i \notin S => Keeps(i)
         /\ \A i \in Ids : i \in S => Covered(i)'
    BY <1>6, <1>7, <1>8, <1>9
  <1> QED
    BY <1>6, <1>10, OrderlyCovers

LEMMA UpdatesKeep ==
  ASSUME BaseInv, BaseInv', Structure, AllCovered, NEW r, r \in Threads, UpdateLimit(r), UNCHANGED run
  PROVE  Structure' /\ AllCovered'
  <1>1. PICK q : q = req[r] /\ UpdatesAs(r, q)
    BY UpdatesIs
  <1>2. PICK n : /\ q \in Request /\ q.stage = "update" /\ ~Placed(q) /\ GoesTo(r, NoRequest, <<>>)
                 /\ \/ tracked' = tracked
                    \/ /\ q.id \in Ids /\ tracked[q.id] # NoOrder /\ n \in Tracked
                       /\ tracked' = [tracked EXCEPT ![q.id] = n]
                       /\ n.side = tracked[q.id].side /\ n.reserve = tracked[q.id].reserve
                       /\ "modified" \in odd[q.id]
    BY <1>1 DEF UpdatesAs, Placed
  <1>3. TypeOK /\ TypeOK' /\ tracked \in [Ids -> Tracked \cup {NoOrder}]
    BY DEF BaseInv, TypeOK
  <1>4. /\ \A j \in Ids : j # q.id \/ tracked' = tracked => tracked'[j] = tracked[j]
        /\ q.id \in Ids /\ tracked' # tracked =>
             /\ tracked'[q.id] = n /\ tracked[q.id] # NoOrder
             /\ n.side = tracked[q.id].side /\ n.reserve = tracked[q.id].reserve /\ "modified" \in odd[q.id]
    BY <1>2, <1>3
  <1>5. /\ Orderly
        /\ \A i \in Ids : i # q.id \/ tracked' = tracked => Keeps(i)
    <2>1. /\ Placed(NoRequest) => /\ Placed(q) /\ NoRequest.id = q.id /\ NoRequest.side = q.side
                                  /\ (Recorder(NoRequest) <=> Recorder(q))
          /\ NoRequest.stage # "remove" /\ NoRequest \in Request
      BY NoRequestIs
    <2>2. \A i \in Ids : tracked'[i] # NoOrder => tracked[i] # NoOrder /\ tracked'[i].side = tracked[i].side
      BY <1>4
    <2>3. PICK d : d = <<>>
      OBVIOUS
    <2>4. d \in Seq(Call) /\ GoesTo(r, NoRequest, d) /\ \A c \in ToSet(d) : c.op = "release"
      BY <1>2, <2>3, NoCalls
    <2>5. /\ Orderly
          /\ \A i \in Ids : tracked'[i] = tracked[i] /\ ~(Placed(q) /\ q.id = i) => Keeps(i)
      BY <1>1, <1>2, <1>3, <2>1, <2>2, <2>4, GoesKeeps
    <2> QED
      BY <1>2, <1>4, <2>5
  <1>6. UNCHANGED <<book, gen, odd, owner>> /\ req' = [req EXCEPT ![r] = NoRequest]
    BY <1>2 DEF GoesTo, Still
  <1>7. ASSUME NEW i \in Ids, i = q.id, tracked' # tracked
        PROVE  Covered(i)'
    <2>1. /\ tracked'[i] = n /\ tracked[i] # NoOrder /\ "modified" \in odd'[i]
          /\ n.side = tracked[i].side /\ n.reserve = tracked[i].reserve
      BY <1>4, <1>6, <1>7
    <2>2. Covered(i)
      BY DEF AllCovered
    <2>3. /\ req'[r] = NoRequest /\ \A s \in Threads : s # r => req'[s] = req[s]
          /\ ~Recorder(NoRequest)
      BY <1>3, <1>6, NoRequestIs DEF TypeOK
    <2>4. n # NoOrder
      BY <1>2, <1>7, <2>1, NoOrderIsNone DEF Covered
    <2>5. Sound(i)' /\ n.side = "buy" => MoneyCovered(i)'
      <3> SUFFICES ASSUME Sound(i)', n.side = "buy"
                   PROVE  MoneyCovered(i)'
        OBVIOUS
      <3>1. MoneyCovered(i)
        BY <1>6, <2>1, <2>2 DEF Covered, Sound
      <3>2. Weight(req', RecMoney(i)) = Weight(req, RecMoney(i))
        <4>1. SamePlacements
          <5>1. NoRequest \in Request /\ ~Placed(NoRequest) /\ ~Placed(req[r])
            BY <1>1, <1>2, NoRequestIs
          <5> QED
            BY <1>3, <1>6, <5>1, SwapPlacements
        <4> QED
          BY <4>1 DEF SamePlacements
      <3> QED
        BY <1>6, <2>1, <3>1, <3>2 DEF MoneyCovered, Worth, Revenue
    <2>6. \A s \in Threads : Recorder(req'[s]) => Recorder(req[s]) /\ req'[s] = req[s]
      BY <2>3
    <2> QED
      BY <2>1, <2>4, <2>5, <2>6 DEF Covered
  <1>8. PICK S : S = {i \in Ids : i = q.id /\ tracked' # tracked}
    OBVIOUS
  <1>9. /\ \A i \in Ids : owner'[i] # NoUser => owner[i] # NoUser \/ i \in S
        /\ \A i \in Ids : owner[i] # NoUser /\ i \notin S => Keeps(i)
        /\ \A i \in Ids : i \in S => Covered(i)'
    BY <1>5, <1>6, <1>7, <1>8
  <1> QED
    BY <1>5, <1>9, OrderlyCovers

LEMMA ModifiesKeep ==
  ASSUME BaseInv, BaseInv', Structure, AllCovered, NEW r, r \in Threads, NEW id, NEW x, NEW n, NEW p, Modifies(r, id, x, n, p)
  PROVE  Structure' /\ AllCovered'
  <1>1. PICK side \in Side :
          /\ \E o \in Held(book) : o.id = id /\ o.side = side
          /\ \A o \in Held(book') : o \in Held(book) \/ (o.id = id /\ o.side = side)
          /\ odd' = [odd EXCEPT ![id] = @ \cup ({"modified"} \cup
                       IF Raises(id, side, n * p) \/ InPlacement(id) THEN {"raised"} ELSE {})]
    BY DEF Modifies
  <1>2. /\ TypeOK /\ TypeOK' /\ Comes(r, x) /\ x.stage = "update" /\ x.id = id /\ id \in Ids \cup Quotes
        /\ n \in Nat /\ p \in Prices /\ p \in Nat /\ p * n \in Nat /\ n * p = p * n
        /\ \A i : i # id => Open(i)' <= Open(i) /\ Worth(i)' <= Worth(i)
        /\ Worth(id)' <= p * n
    <2>1. n \in Nat /\ p \in Prices /\ p \in Nat
      BY OrderFlowConstants DEF Modifies
    <2>2. n * p = p * n
      BY ONLY <2>1
    <2> QED
      BY <2>1, <2>2 DEF Modifies, BaseInv
  <1>3. /\ req[r].stage = "idle" /\ x \in Request /\ req' = [req EXCEPT ![r] = x] /\ gen.trades = <<>>
        /\ UNCHANGED <<tracked, credited, missed, settled, todo, gen, owner>> /\ odd \in [Ids \cup Quotes -> SUBSET Oddity]
    BY <1>2 DEF Comes, TypeOK
  <1>4. Grows
    BY ModifiesKeepsBase
  <1>5. SamePlacements
    BY <1>2, <1>3, SwapPlacements DEF Placed
  <1>6. /\ req'[r] = x /\ \A s \in Threads : s # r => req'[s] = req[s]
        /\ \A s \in Threads : req'[s].stage = "remove" => req'[s] = req[s]
    BY <1>2, <1>3, ReqChanges
  <1>7. /\ odd'[id] = odd[id] \cup ({"modified"} \cup
                        IF Raises(id, side, n * p) \/ InPlacement(id) THEN {"raised"} ELSE {})
        /\ \A i \in Ids : i # id => odd'[i] = odd[i]
    BY <1>1, <1>2, <1>3
  <1>8. ASSUME NEW i, i # id
        PROVE  Shrinks(i)
    <2>1. Made(i)' = Made(i) /\ Revenue(i)' = Revenue(i)
      BY <1>3 DEF Made, Revenue
    <2>2. Made(i) \in Nat /\ Revenue(i) \in Nat /\ Open(i) \in Nat /\ Worth(i) \in Nat
      BY <1>2, NumbersAreNat
    <2>3. book' \in [Side -> Seq(Resting)]
      BY <1>2 DEF TypeOK
    <2>4. Open(i)' \in Nat /\ Worth(i)' \in Nat
      BY <2>3, BookWeighs, WeightsAre DEF Open, Worth
    <2>5. Open(i)' + Made(i)' <= Open(i) + Made(i) /\ Worth(i)' + Revenue(i)' <= Worth(i) + Revenue(i)
      BY <1>2, <1>8, <2>1, <2>2, <2>4
    <2> QED
      BY <1>1, <1>8, <2>5 DEF Shrinks
  <1>9. PICK S : S = {id}
    OBVIOUS
  <1>10. /\ \A i \in Ids : owner[i] # NoUser /\ i \notin S => Shrinks(i)
         /\ \A o \in Held(book') : o.id \in S => \E y \in Held(book) : y.id = o.id /\ y.side = o.side
         /\ \A i \in Ids : "modified" \in odd'[i] /\ InPlacement(i) => "modified" \in odd[i] \/ "raised" \in odd'[i]
         /\ \A s \in Threads : req'[s].stage = "remove" =>
              \/ req'[s] = req[s]
              \/ InPlacement(req'[s].id) => "cancelled" \in odd'[req'[s].id]
    <2>1. \A o \in Held(book') : o.id = id => \E y \in Held(book) : y.id = o.id /\ y.side = o.side
      BY <1>1
    <2>2. \A i \in Ids : "modified" \in odd'[i] /\ InPlacement(i) => "modified" \in odd[i] \/ "raised" \in odd'[i]
      BY <1>7
    <2> QED
      BY <1>6, <1>8, <1>9, <2>1, <2>2
  <1>11. Orderly /\ \A i \in Ids : owner[i] # NoUser /\ i \notin S => Keeps(i)
    <2>1. UNCHANGED <<tracked, credited, missed, settled, todo>>
      BY <1>3
    <2> QED
      BY ONLY BaseInv, <1>4, <1>5, <1>10, <2>1, SteadyKeeps
  <1>12. ASSUME NEW i \in Ids, i = id
         PROVE  Covered(i)'
    <2>1. "modified" \in odd'[i] /\ tracked'[i] = tracked[i] /\ (tracked[i] # NoOrder => tracked[i] \in Tracked)
      BY <1>2, <1>3, <1>7, <1>12 DEF TypeOK
    <2>2. Sound(i)' => ~InPlacement(i) /\ ~Raises(i, side, n * p)
      BY <1>7, <1>12 DEF Sound, Lost, Oddity
    <2>3. ASSUME Sound(i)'
          PROVE  \A s \in Threads : /\ ~(Recorder(req[s]) /\ req[s].id = i)
                                    /\ ~(Recorder(req'[s]) /\ req'[s].id = i)
      <3>1. \A s \in Threads : ~(Recorder(req[s]) /\ req[s].id = i)
        BY <2>2, <2>3 DEF InPlacement, Recorder
      <3>2. ~Recorder(x)
        BY <1>2 DEF Recorder
      <3> QED
        BY <1>6, <3>1, <3>2
    <2>4. ASSUME Sound(i)', tracked[i] # NoOrder, tracked[i].side = "buy"
          PROVE  MoneyCovered(i)'
      <3>1. side = tracked[i].side
        BY <1>1, <1>12, <2>4 DEF Structure, BookSides
      <3>2. p * n <= tracked[i].reserve
        <4>1. ~(n * p > tracked[i].reserve)
          BY <1>12, <2>2, <2>4, <3>1 DEF Raises
        <4>2. tracked[i].reserve \in Nat
          BY <2>1, <2>4 DEF Tracked
        <4> QED
          BY <1>2, <4>1, <4>2
      <3>3. Revenue(i)' = 0
        BY <1>3, NoCalls DEF Revenue
      <3>4. Weight(req', RecMoney(i)) = 0
        <4>1. Weight(req, RecMoney(i)) = 0
          <5>1. \A s \in Threads : RecMoney(i)[req[s]] = 0
            BY <1>2, <2>3, <2>4, RequestWeighs DEF TypeOK
          <5>2. RecMoney(i) \in [Request -> Nat] /\ req \in [Threads -> Request]
            BY <1>2, RequestWeights DEF TypeOK
          <5> QED
            BY ONLY <5>1, <5>2, NothingWeighs
        <4> QED
          BY <1>5, <4>1 DEF SamePlacements
      <3>5. Worth(i)' <= p * n /\ Worth(i)' \in Nat
        BY <1>2, <1>12, NumbersNext DEF Numbers
      <3>6. tracked'[i].reserve \in Nat /\ tracked'[i].reserve = tracked[i].reserve
        BY <2>1, <2>4 DEF Tracked
      <3>7. Worth(i)' + Revenue(i)' + Weight(req', RecMoney(i)) <= tracked'[i].reserve
        BY ONLY <1>2, <3>2, <3>3, <3>4, <3>5, <3>6
      <3> QED
        BY <3>7 DEF MoneyCovered
    <2> QED
      BY <2>1, <2>3, <2>4 DEF Covered
  <1>13. /\ \A i \in Ids : owner'[i] # NoUser => owner[i] # NoUser \/ i \in S
         /\ \A i \in Ids : i \in S => Covered(i)'
    BY <1>3, <1>9, <1>12
  <1> QED
    BY <1>11, <1>13, OrderlyCovers

(* Reconcile: the order of the trade *)
LEMMA ReconcilesCover ==
  ASSUME BaseInv, BaseInv', Structure, NEW t, NEW ts, TickGoes(t, ts), Still, UNCHANGED <<req, credited, missed, settled>>,
         NEW o, NEW new, NEW n, Reconciles(t, ts, o, new, n), NEW i, i = t.maker, Covered(i)
  PROVE  Covered(i)'
  <1>1. /\ i \in Ids /\ o = tracked[i] /\ o \in Tracked /\ o # NoOrder /\ t \in Fill
        /\ n \in Nat /\ new \in Tracked /\ new # NoOrder
        /\ n <= t.qty /\ (o.filled + t.qty <= o.qty => n = t.qty)
        /\ new.side = o.side /\ new.qty = o.qty /\ new.filled = o.filled + n
        /\ n * t.price \in Nat /\ n * t.price <= t.price * t.qty
        /\ o.side = "buy" /\ n * t.price <= o.reserve => o.reserve = new.reserve + n * t.price
        /\ \/ ~(new.filled >= new.qty) /\ tracked' = [tracked EXCEPT ![i] = new]
           \/ new.filled >= new.qty /\ tracked' = [tracked EXCEPT ![i] = NoOrder]
        /\ Claims(i)' = Claims(i) + n
    BY NoOrderIsNone DEF Reconciles, After, TickGoes, ReconcileSums
  <1>2. TypeOK /\ TypeOK' /\ tracked \in [Ids -> Tracked \cup {NoOrder}]
    BY DEF BaseInv, TypeOK
  <1>3. UNCHANGED <<req, credited, missed, settled, book, odd, owner>> /\ Held(book') = Held(book)
    BY DEF Still
  <1>4. PICK m : m = MadeBy(i)[t]
    OBVIOUS
  <1>5. PICK c : c = MadeFor(i)[t]
    OBVIOUS
  <1>6. /\ Made(i) = m + Made(i)' /\ Revenue(i) = c + Revenue(i)' /\ m \in Nat /\ c \in Nat
        /\ Made(i)' \in Nat /\ Revenue(i)' \in Nat
    BY <1>4, <1>5, WeightsAre DEF TickGoes, Made, Revenue
  <1>7. m = t.qty /\ c = t.price * t.qty
    BY <1>1, <1>4, <1>5 DEF MadeBy, MadeFor
  <1>8. /\ Open(i)' = Open(i) /\ Worth(i)' = Worth(i) /\ Open(i) \in Nat /\ Worth(i) \in Nat
        /\ Weight(req', RecShares(i)) = Weight(req, RecShares(i)) /\ Weight(req, RecShares(i)) \in Nat
        /\ Weight(req', RecMoney(i)) = Weight(req, RecMoney(i)) /\ Weight(req, RecMoney(i)) \in Nat
        /\ settled'[i] = settled[i] /\ settled[i] \in Nat /\ Claims(i) \in Nat
        /\ o.filled \in Nat /\ o.qty \in Nat /\ o.reserve \in Nat /\ new.reserve \in Nat
    BY <1>1, <1>2, <1>3, NumbersAreNat, SettledIs DEF Open, Worth, Tracked, TypeOK
  <1>9. \A s \in Threads : ~(req'[s].stage = "track" /\ req'[s].id = i)
    BY <1>1, <1>3 DEF Structure, NotYet
  <1>10. odd[i] = {} => /\ o.filled + Open(i) + (t.qty + Made(i)') + Weight(req, RecShares(i)) <= o.qty
                        /\ FillsAgree(i) /\ n = t.qty
    <2> SUFFICES ASSUME odd[i] = {}
                 PROVE  /\ o.filled + Open(i) + (t.qty + Made(i)') + Weight(req, RecShares(i)) <= o.qty
                        /\ FillsAgree(i) /\ n = t.qty
      OBVIOUS
    <2>1. SharesCovered(i) /\ FillsAgree(i)
      BY <1>1 DEF Covered
    <2>2. o.filled + Open(i) + (t.qty + Made(i)') + Weight(req, RecShares(i)) <= o.qty
      BY <1>1, <1>6, <1>7, <2>1 DEF SharesCovered
    <2>3. o.filled + t.qty <= o.qty
      BY <1>6, <1>7, <1>8, <2>2
    <2> QED
      BY <1>1, <2>1, <2>2, <2>3
  <1>11. CASE ~(new.filled >= new.qty)
    <2>1. tracked'[i] = new
      BY <1>1, <1>2, <1>11
    <2>2. odd[i] = {} => SharesCovered(i)' /\ FillsAgree(i)'
      <3> SUFFICES ASSUME odd[i] = {}
                   PROVE  SharesCovered(i)' /\ FillsAgree(i)'
        OBVIOUS
      <3>1. new.filled + Open(i) + Made(i)' + Weight(req, RecShares(i)) <= new.qty
        BY <1>1, <1>6, <1>8, <1>10
      <3>2. o.filled + Weight(req, RecShares(i)) = settled[i] + Claims(i)
        BY <1>1, <1>10 DEF FillsAgree
      <3>3. new.filled + Weight(req, RecShares(i)) = settled[i] + Claims(i)'
        BY <1>1, <1>8, <3>2
      <3> QED
        BY <1>8, <2>1, <3>1, <3>3 DEF SharesCovered, FillsAgree
    <2>3. Sound(i) /\ o.side = "buy" => MoneyCovered(i)'
      <3> SUFFICES ASSUME Sound(i), o.side = "buy"
                   PROVE  MoneyCovered(i)'
        OBVIOUS
      <3>1. Worth(i) + (c + Revenue(i)') + Weight(req, RecMoney(i)) <= o.reserve
        BY <1>1, <1>6 DEF Covered, MoneyCovered
      <3>2. PICK k : k = n * t.price
        OBVIOUS
      <3>3. k \in Nat /\ k <= c
        BY <1>1, <1>7, <3>2
      <3>4. k <= o.reserve
        BY <1>6, <1>8, <3>1, <3>3
      <3>5. o.reserve = new.reserve + k
        BY <1>1, <3>2, <3>4
      <3>6. Worth(i)' + Revenue(i)' + Weight(req', RecMoney(i)) <= new.reserve
        BY <1>6, <1>8, <3>1, <3>3, <3>5
      <3> QED
        BY <2>1, <3>6 DEF MoneyCovered
    <2> QED
      BY <1>1, <1>3, <1>9, <2>1, <2>2, <2>3 DEF Covered, Sound
  <1>12. CASE new.filled >= new.qty
    <2>1. tracked'[i] = NoOrder
      BY <1>1, <1>2, <1>12
    <2>2. odd[i] = {} => Open(i) = 0 /\ Weight(req, RecShares(i)) = 0
      <3> SUFFICES ASSUME odd[i] = {}
                   PROVE  Open(i) = 0 /\ Weight(req, RecShares(i)) = 0
        OBVIOUS
      <3>1. o.filled + t.qty >= o.qty
        BY <1>1, <1>10, <1>12
      <3> QED
        BY <1>6, <1>7, <1>8, <1>10, <3>1
    <2>3. odd'[i] = {} => \A y \in Held(book') : y.id # i
      BY <1>2, <1>3, <2>2, NothingOpen
    <2>4. ASSUME NEW s \in Threads, Recorder(req[s]), req[s].id = i, Sound(i)
          PROVE  FALSE
      <3>1. PICK q : q = req[s]
        OBVIOUS
      <3>2. odd[i] = {}
        BY <2>4, PlacedIsPlain DEF Placed, Recorder
      <3>3. q \in Request /\ q.trades # <<>>
        BY <1>2, <2>4, <3>1 DEF TypeOK, BaseInv, RequestsOK, RequestOK
      <3>4. Weight(q.trades, SharesOf) \in Nat /\ Weight(q.trades, SharesOf) > 0
        <4>1. /\ Weight(q.trades, SharesOf) = SharesOf[Head(q.trades)] + Weight(Tail(q.trades), SharesOf)
              /\ Weight(Tail(q.trades), SharesOf) \in Nat /\ Head(q.trades) \in Fill
              /\ Head(q.trades).qty \in Nat /\ Head(q.trades).qty > 0
          BY <3>3, TradesWeigh, FillWeights
        <4>2. SharesOf[Head(q.trades)] = Head(q.trades).qty
          BY <4>1 DEF SharesOf
        <4> QED
          BY ONLY <4>1, <4>2
      <3>5. RecShares(i)[req[s]] = Weight(q.trades, SharesOf)
        BY <2>4, <3>1, <3>3, RequestWeighs
      <3>6. RecShares(i)[req[s]] <= Weight(req, RecShares(i))
        <4>1. RecShares(i) \in [Request -> Nat] /\ req \in [Threads -> Request]
          BY <1>2, RequestWeights DEF TypeOK
        <4> QED
          BY <4>1, FiniteSets, PartOfWeight
      <3>7. Weight(req, RecShares(i)) = 0
        BY <2>2, <3>2
      <3> QED
        BY ONLY <3>4, <3>5, <3>6, <3>7
    <2> QED
      BY <1>3, <1>9, <2>1, <2>3, <2>4 DEF Covered, Sound
  <1> QED
    BY <1>11, <1>12

LEMMA ReconcileKeeps ==
  ASSUME BaseInv, BaseInv', Structure, AllCovered, Reconcile, UNCHANGED run
  PROVE  Structure' /\ AllCovered'
  <1>1. PICK t, ts : ReconcilesAs(t, ts)
    BY ReconcileIs
  <1>2. /\ TypeOK /\ TickGoes(t, ts) /\ t \in Fill
        /\ Still /\ UNCHANGED <<cash, shares, loaded, req, requests, credited, missed, settled>>
        /\ tracked \in [Ids -> Tracked \cup {NoOrder}]
    BY <1>1 DEF BaseInv, ReconcilesAs, TypeOK, TickGoes
  <1>3. UNCHANGED <<book, odd, owner, nextId>> /\ Held(book') = Held(book)
    BY <1>2 DEF Still
  <1>4. PICK S, m, n :
           /\ n \in Nat /\ S \subseteq {m}
           /\ \A c \in ToSet(todo'[Generator]) :
                 c \in ToSet(todo[Generator]) \/ c.op = "release" \/ c.op = "limitFill"
           /\ \A b \in Actors : b # Generator => todo'[b] = todo[b]
           /\ \A i : Claims(i)' = Claims(i) + (IF i = m THEN n ELSE 0)
           /\ n = 0 \/ (m \in Ids /\ tracked[m] # NoOrder /\ m \in S)
           /\ \A i \in Ids : i \notin S => tracked'[i] = tracked[i]
           /\ \A i \in Ids : tracked'[i] # NoOrder => tracked[i] # NoOrder /\ tracked'[i].side = tracked[i].side
           /\ \A i : i \in S => i = t.maker /\ i \in Ids /\ \E o, new, k : Reconciles(t, ts, o, new, k)
    <2>1. CASE Misses(t)
      <3>1. ReconcileSums(t, ts, 0, 0, 0, 0, 0, 0)
        BY <1>2, <2>1, MissesSums
      <3>2. tracked' = tracked /\ todo' = todo
        BY <2>1 DEF Misses
      <3>3. \A i : Claims(i)' = Claims(i) + (IF i = 0 THEN 0 ELSE 0)
        BY <3>1 DEF ReconcileSums
      <3>4. PICK S : S = {}
        OBVIOUS
      <3> QED
        BY <3>2, <3>3, <3>4
    <2>2. CASE \E o, new, k, d : Hits(t, o, new, k, d)
      <3>1. PICK o, new, k : Reconciles(t, ts, o, new, k)
        BY <1>2, <2>2, HitsReconcile
      <3>2. /\ t.maker \in Ids /\ o = tracked[t.maker] /\ o # NoOrder /\ k \in Nat /\ new \in Tracked /\ new.side = o.side
            /\ tracked' = [tracked EXCEPT ![t.maker] = new] \/ tracked' = [tracked EXCEPT ![t.maker] = NoOrder]
            /\ \E rest : ReconcileSums(t, ts, t.maker, o.user, o.side, k, t.price * k, rest)
        BY <3>1 DEF Reconciles, After
      <3>3. /\ \A i \in Ids : i # t.maker => tracked'[i] = tracked[i]
            /\ tracked'[t.maker] # NoOrder => tracked'[t.maker].side = o.side
        BY <1>2, <3>2
      <3>4. /\ \A c \in ToSet(todo'[Generator]) :
                 c \in ToSet(todo[Generator]) \/ c.op = "release" \/ c.op = "limitFill"
            /\ \A b \in Actors : b # Generator => todo'[b] = todo[b]
            /\ \A i : Claims(i)' = Claims(i) + (IF i = t.maker THEN k ELSE 0)
        BY <3>2 DEF ReconcileSums
      <3>5. PICK S : S = {t.maker}
        OBVIOUS
      <3> QED
        BY <3>1, <3>2, <3>3, <3>4, <3>5
    <2> QED
      BY <1>1, <2>1, <2>2 DEF ReconcilesAs
  <1>5. \A i : Claims(i) \in Nat
    BY <1>2, NumbersAreNat
  <1>6. Orderly
    <2>1. \A i \in Ids : i < nextId /\ tracked[i] = NoOrder /\ settled[i] = 0 /\ Claims(i) = 0 =>
             settled'[i] = 0 /\ Claims(i)' = 0
      BY <1>2, <1>4
    <2>2. \A a \in Actors : \A c \in ToSet(todo'[a]) : c.op = "marketFill" => c \in ToSet(todo[a])
      BY <1>4
    <2> QED
      BY <1>2, <1>3, <1>4, <2>1, <2>2 DEF Orderly
  <1>7. ASSUME NEW i \in Ids, i \notin S
        PROVE  Keeps(i)
    <2>1. Shrinks(i)
      <3>1. /\ Made(i) = MadeBy(i)[t] + Made(i)' /\ Revenue(i) = MadeFor(i)[t] + Revenue(i)'
            /\ MadeBy(i)[t] \in Nat /\ MadeFor(i)[t] \in Nat /\ Made(i)' \in Nat /\ Revenue(i)' \in Nat
        BY <1>2, WeightsAre DEF TickGoes, Made, Revenue
      <3>2. Open(i)' = Open(i) /\ Worth(i)' = Worth(i) /\ Open(i) \in Nat /\ Worth(i) \in Nat
        BY <1>2, <1>3, NumbersAreNat DEF Open, Worth
      <3>3. Open(i)' + Made(i)' <= Open(i) + Made(i) /\ Worth(i)' + Revenue(i)' <= Worth(i) + Revenue(i)
        BY ONLY <3>1, <3>2
      <3> QED
        BY <1>3, <3>3 DEF Shrinks
    <2>2. Claims(i)' = Claims(i)
      BY <1>4, <1>5, <1>7
    <2>3. /\ Weight(req', RecShares(i)) = Weight(req, RecShares(i))
          /\ Weight(req', RecMoney(i)) = Weight(req, RecMoney(i))
          /\ \A s \in Threads : req'[s] = req[s]
      BY <1>2
    <2>4. tracked'[i] = tracked[i] /\ odd'[i] = odd[i] /\ owner'[i] = owner[i] /\ settled'[i] = settled[i]
      BY <1>2, <1>3, <1>4, <1>7
    <2> QED
      BY <2>1, <2>2, <2>3, <2>4 DEF Keeps
  <1>8. ASSUME NEW i, i \in S
        PROVE  Covered(i)'
    <2>1. PICK o, new, k : Reconciles(t, ts, o, new, k)
      BY <1>4, <1>8
    <2>2. i = t.maker /\ Covered(i)
      BY <1>4, <1>8 DEF AllCovered
    <2> QED
      BY <1>2, <2>1, <2>2, ReconcilesCover
  <1>9. /\ \A i \in Ids : owner'[i] # NoUser => owner[i] # NoUser \/ i \in S
        /\ \A i \in Ids : owner[i] # NoUser /\ i \notin S => Keeps(i)
        /\ \A i \in Ids : i \in S => Covered(i)'
    BY <1>3, <1>7, <1>8
  <1> QED
    BY <1>6, <1>9, OrderlyCovers

-----------------------------------------------------------------------------
(* Every step keeps the placements and what is reserved for the orders.      *)
Intact == Structure /\ AllCovered

LEMMA KeptCovers ==
  ASSUME BaseInv, BaseInv', Intact, owner' = owner, Orderly, \A i \in Ids : owner[i] # NoUser => Keeps(i)
  PROVE  Intact'
  <1>1. PICK S : S = {}
    OBVIOUS
  <1>2. /\ \A i \in Ids : owner'[i] # NoUser => owner[i] # NoUser \/ i \in S
        /\ \A i \in Ids : owner[i] # NoUser /\ i \notin S => Keeps(i)
        /\ \A i \in Ids : i \in S => Covered(i)'
    BY <1>1
  <1> QED
    BY <1>2, OrderlyCovers DEF Intact

LEMMA NewRequestKeeps ==
  ASSUME BaseInv, BaseInv', Intact, NEW r, r \in Threads, NewRequest(r), UNCHANGED run
  PROVE  Intact'
  <1>1. Idle(r) /\ requests < MaxRequests /\ ~Placed(req[r])
    BY DEF NewRequest, Idle, Placed
  <1>2. ASSUME NEW x \in Request, Passes(r, x), x.stage \in {"idle", "limit", "check", "market"}
        PROVE  Intact'
    <2>1. ~Placed(x) /\ x.stage # "remove"
      BY <1>2 DEF Placed
    <2>2. Orderly /\ \A i \in Ids : owner[i] # NoUser => Keeps(i)
      BY ONLY BaseInv, r \in Threads, x \in Request, <1>1, <1>2, <2>1, PassesKeep
    <2>3. owner' = owner
      BY <1>2 DEF Passes, Still
    <2> QED
      BY ONLY BaseInv, BaseInv', Intact, <2>2, <2>3, KeptCovers
  <1>3. ASSUME NEW x, StopRequest(r, x)
        PROVE  Intact'
    <2>1. Orderly /\ \A i \in Ids : owner[i] # NoUser => Keeps(i)
      BY ONLY BaseInv, r \in Threads, <1>3, StopRequestKeeps
    <2>2. owner' = owner
      BY <1>3 DEF StopRequest, Comes
    <2> QED
      BY ONLY BaseInv, BaseInv', Intact, <2>1, <2>2, KeptCovers
  <1>4. ASSUME NEW u, u \in Users, NEW s, s \in Side, NEW q, q \in Quantities, NEW p, p \in Prices,
               PlaceLimitOrder(r, u, s, q, p)
        PROVE  Intact'
    <2>1. PICK x \in Request : Passes(r, x) /\ x.stage = "limit"
      BY ONLY BaseInv, r \in Threads, <1>1, <1>4, UNCHANGED run, PlaceLimitOrderPasses
    <2> QED
      BY <1>2, <2>1
  <1>5. ASSUME NEW u, u \in Users, NEW s, s \in Side, NEW q, q \in Quantities,
               PlaceMarketOrder(r, u, s, q) \/ PlaceInternalMarketOrder(r, u, s, q)
        PROVE  Intact'
    <2>1. PICK x \in Request : Passes(r, x) /\ x.stage \in {"check", "market"}
      BY ONLY BaseInv, r \in Threads, <1>1, <1>5, UNCHANGED run, MarketOrderPasses
    <2> QED
      BY <1>2, <2>1
  <1>6. PICK x : x = NoRequest
    OBVIOUS
  <1>7. ASSUME NEW s, s \in Side, NEW q, q \in Quantities, NEW limit, limit \in Prices \cup {0},
               NEW stop, stop \in Prices, AddStop(r, s, q, limit, stop)
        PROVE  Intact'
    <2>1. StopRequest(r, x)
      BY ONLY BaseInv, r \in Threads, <1>1, <1>6, <1>7, UNCHANGED run, AddStopIs
    <2> QED
      BY <1>3, <2>1
  <1>8. ASSUME NEW k, k \in DOMAIN stops, NEW q, q \in Quantities, NEW limit, limit \in Prices \cup {0},
               NEW stop, stop \in Prices, ModifyStop(r, k, q, limit, stop)
        PROVE  Intact'
    <2>1. StopRequest(r, x)
      BY ONLY BaseInv, r \in Threads, <1>1, <1>6, <1>8, UNCHANGED run, ModifyStopIs
    <2> QED
      BY <1>3, <2>1
  <1>9. ASSUME NEW k, k \in DOMAIN stops, CancelStop(r, k)
        PROVE  Intact'
    <2>1. StopRequest(r, x)
      BY ONLY BaseInv, r \in Threads, <1>1, <1>6, <1>9, UNCHANGED run, CancelStopIs
    <2> QED
      BY <1>3, <2>1
  <1>10. ASSUME NEW id, id \in Ids \cup Quotes, CancelLimit(r, id)
         PROVE  Intact'
    <2>1. PICK y : Cancels(r, id, y)
      BY ONLY BaseInv, r \in Threads, <1>1, <1>10, UNCHANGED run, CancelsIs
    <2>2. Orderly /\ \A i \in Ids : owner[i] # NoUser => Keeps(i)
      BY ONLY BaseInv, r \in Threads, <2>1, CancelsKeep
    <2>3. owner' = owner
      BY <2>1 DEF Cancels, Comes
    <2> QED
      BY ONLY BaseInv, BaseInv', Intact, <2>2, <2>3, KeptCovers
  <1>11. ASSUME NEW id, id \in Ids \cup Quotes, NEW q, q \in Quantities, NEW p, p \in Prices,
                ModifyLimit(r, id, q, p)
         PROVE  Intact'
    <2>1. PICK y : Modifies(r, id, y, q, p)
      BY ONLY BaseInv, r \in Threads, <1>1, <1>11, UNCHANGED run, ModifiesIs
    <2>2. Structure /\ AllCovered
      BY DEF Intact
    <2>3. Structure' /\ AllCovered'
      BY ONLY BaseInv, BaseInv', r \in Threads, <2>1, <2>2, ModifiesKeep
    <2> QED
      BY <2>3 DEF Intact
  <1>12. ASSUME NEW u, u \in Users, GetPortfolio(r, u)
         PROVE  Intact'
    <2>1. NoRequest \in Request /\ Passes(r, NoRequest) /\ NoRequest.stage = "idle"
      BY ONLY BaseInv, r \in Threads, <1>1, <1>12, UNCHANGED run, GetPortfolioPasses
    <2> QED
      BY <1>2, <2>1
  <1> QED
    BY <1>4, <1>5, <1>7, <1>8, <1>9, <1>10, <1>11, <1>12 DEF NewRequest

LEMMA WaitsKeep ==
  ASSUME BaseInv, BaseInv', Intact, NEW r, r \in Threads, Waits(r), UNCHANGED run
  PROVE  Intact'
  <1>1. Structure /\ AllCovered
    BY DEF Intact
  <1>2. CASE AddLimitAutoID(r)
    <2>1. PICK q, x, e : q = req[r] /\ LimitEnters(r, q, x, e)
      BY ONLY BaseInv, r \in Threads, <1>2, UNCHANGED run, LimitEntersIs
    <2>2. Structure' /\ AllCovered'
      BY ONLY BaseInv, BaseInv', r \in Threads, <1>1, <2>1, LimitEntersKeeps
    <2> QED
      BY <2>2 DEF Intact
  <1>3. CASE EngineRefuses(r)
    <2>1. PICK q, d : q = req[r] /\ RefusesAs(r, q, d)
      BY ONLY BaseInv, r \in Threads, <1>3, UNCHANGED run, RefusesIs
    <2>2. Orderly /\ \A i \in Ids : owner[i] # NoUser => Keeps(i)
      BY ONLY BaseInv, r \in Threads, <2>1, RefusesKeep
    <2>3. owner' = owner
      BY <2>1 DEF RefusesAs
    <2> QED
      BY ONLY BaseInv, BaseInv', Intact, <2>2, <2>3, KeptCovers
  <1>4. CASE MarketAutoID(r)
    <2>1. PICK q, d, e : q = req[r] /\ MarketEnters(r, q, d, e)
      BY ONLY BaseInv, r \in Threads, <1>4, UNCHANGED run, MarketEntersIs
    <2>2. Structure' /\ AllCovered'
      BY ONLY BaseInv, BaseInv', r \in Threads, <1>1, <2>1, MarketEntersKeeps
    <2> QED
      BY <2>2 DEF Intact
  <1> QED
    BY <1>2, <1>3, <1>4 DEF Waits

LEMMA CallPortfolioKeeps ==
  ASSUME BaseInv, BaseInv', Intact, NEW a, a \in Actors, CallPortfolio(a), UNCHANGED run
  PROVE  Intact'
  <1>1. PICK c, q : CallsAs(a, c, q)
    BY ONLY BaseInv, a \in Actors, CallPortfolio(a), UNCHANGED run, CallIsOne
  <1>2. Structure
    BY DEF Intact
  <1>3. Orderly /\ \A i \in Ids : owner[i] # NoUser => Keeps(i)
    BY ONLY BaseInv, a \in Actors, <1>1, <1>2, CallKeeps
  <1>4. owner' = owner
    BY <1>1 DEF CallsAs, Still
  <1> QED
    BY ONLY BaseInv, BaseInv', Intact, <1>3, <1>4, KeptCovers

LEMMA HandlesKeep ==
  ASSUME BaseInv, BaseInv', Intact, NEW r, r \in Threads, Handles(r), UNCHANGED run
  PROVE  Intact'
  <1>1. Structure /\ AllCovered
    BY DEF Intact
  <1>2. CASE CheckPasses(r) \/ CheckFails(r)
    <2>1. PICK x \in Request : Passes(r, x) /\ x.stage \in {"idle", "market"} /\ req[r].stage = "check"
      BY ONLY BaseInv, r \in Threads, <1>2, UNCHANGED run, CheckPassesOn
    <2>2. ~Placed(x) /\ ~Placed(req[r]) /\ x.stage # "remove"
      BY <2>1 DEF Placed
    <2>3. Orderly /\ \A i \in Ids : owner[i] # NoUser => Keeps(i)
      BY ONLY BaseInv, r \in Threads, x \in Request, <2>1, <2>2, PassesKeep
    <2>4. owner' = owner
      BY <2>1 DEF Passes, Still
    <2> QED
      BY ONLY BaseInv, BaseInv', Intact, <2>3, <2>4, KeptCovers
  <1>3. CASE Track(r)
    <2>1. PICK q, x, d, o : q = req[r] /\ TracksAs(r, q, x, d, o)
      BY ONLY BaseInv, r \in Threads, <1>3, UNCHANGED run, TrackIs
    <2>2. Structure' /\ AllCovered'
      BY ONLY BaseInv, BaseInv', r \in Threads, <1>1, <2>1, TrackKeeps
    <2> QED
      BY <2>2 DEF Intact
  <1>4. CASE RecordPlacementTrades(r)
    BY ONLY BaseInv, BaseInv', r \in Threads, <1>1, <1>4, UNCHANGED run, RecordKeeps DEF Intact
  <1>5. CASE RemoveFromTracker(r)
    BY ONLY BaseInv, BaseInv', r \in Threads, <1>1, <1>5, UNCHANGED run, RemovesKeep DEF Intact
  <1>6. CASE UpdateLimit(r)
    BY ONLY BaseInv, BaseInv', r \in Threads, <1>1, <1>6, UNCHANGED run, UpdatesKeep DEF Intact
  <1>7. CASE CallPortfolio(r)
    <2>1. r \in Actors
      BY DEF Actors
    <2> QED
      BY ONLY BaseInv, BaseInv', Intact, <2>1, <1>7, UNCHANGED run, CallPortfolioKeeps
  <1> QED
    BY <1>2, <1>3, <1>4, <1>5, <1>6, <1>7 DEF Handles

LEMMA ServesKeep ==
  ASSUME BaseInv, BaseInv', Intact, Serves, UNCHANGED run
  PROVE  Intact'
  <1>1. Structure /\ AllCovered
    BY DEF Intact
  <1>2. CASE NewTick \/ EndTick
    <2>1. Orderly /\ \A i \in Ids : owner[i] # NoUser => Keeps(i)
      BY ONLY BaseInv, <1>2, UNCHANGED run, TicksKeep
    <2>2. owner' = owner
      BY <1>2 DEF NewTick, EndTick, settled
    <2> QED
      BY ONLY BaseInv, BaseInv', Intact, <2>1, <2>2, KeptCovers
  <1>3. ASSUME NEW s, s \in Side, NEW p, p \in Prices, NEW q, q \in QuoteSizes, Quote(s, p, q)
        PROVE  Intact'
    <2>1. PICK e : Quotes1(e, s, p, q)
      BY ONLY BaseInv, <1>3, UNCHANGED run, QuoteIs
    <2>2. Orderly /\ \A i \in Ids : owner[i] # NoUser => Keeps(i)
      BY ONLY BaseInv, <2>1, QuoteKeeps
    <2>3. owner' = owner
      BY <2>1 DEF Quotes1
    <2> QED
      BY ONLY BaseInv, BaseInv', Intact, <2>2, <2>3, KeptCovers
  <1>4. CASE Reconcile
    BY ONLY BaseInv, BaseInv', <1>1, <1>4, UNCHANGED run, ReconcileKeeps DEF Intact
  <1>5. CASE CallPortfolio(Generator)
    <2>1. Generator \in Actors
      BY DEF Actors
    <2> QED
      BY ONLY BaseInv, BaseInv', Intact, <2>1, <1>5, UNCHANGED run, CallPortfolioKeeps
  <1>6. CASE Generates
    BY <1>2, <1>3, <1>4, <1>5, <1>6 DEF Generates
  <1>7. ASSUME NEW r \in Threads, NewRequest(r) \/ Waits(r) \/ Handles(r)
        PROVE  Intact'
    BY <1>7, NewRequestKeeps, WaitsKeep, HandlesKeep
  <1> QED
    BY <1>2, <1>6, <1>7 DEF Serves

(* A server that starts *)
LEMMA FreshKept == Fresh => Intact
  <1> SUFFICES ASSUME Fresh
               PROVE  Intact
    OBVIOUS
  <1>1. /\ \A r \in Threads : req[r] = NoRequest
        /\ \A i \in Ids : tracked[i] = NoOrder
        /\ \A a \in Actors : todo[a] = <<>>
        /\ Held(book) = {}
    <2>1. book["buy"] = <<>> /\ book["sell"] = <<>>
      BY DEF Fresh, Side
    <2> QED
      BY <2>1, NoCalls DEF Fresh, Held, ToSet
  <1>2. NoRequest.stage = "idle" /\ ~Placed(NoRequest) /\ ~Recorder(NoRequest)
    BY NoRequestIs
  <1>3. Structure
    <2>1. OnePlacement /\ NotYet /\ Cancelling /\ Modifying /\ RecordSides
      BY <1>1, <1>2 DEF OnePlacement, NotYet, Cancelling, Modifying, RecordSides
    <2>2. BookSides /\ PlacedSides
      BY <1>1 DEF BookSides, PlacedSides
    <2>3. Never
      BY <1>1, NoCalls DEF Never
    <2> QED
      BY <2>1, <2>2, <2>3 DEF Structure
  <1>4. AllCovered
    BY <1>1, <1>2 DEF AllCovered, Covered
  <1> QED
    BY <1>3, <1>4 DEF Intact

LEMMA StutterKeeps ==
  ASSUME Intact, UNCHANGED vars
  PROVE  Intact'
  <1>1. UNCHANGED <<book, tracked, req, gen, todo, credited, missed, settled, owner, odd>>
    BY DEF vars, engine, settled
  <1>2. \A i : Covered(i)' <=> Covered(i)
    BY <1>1 DEF Covered, PlacementCovered, SharesCovered, MoneyCovered, FillsAgree, Open, Worth, Made, Revenue,
                Claims, Sound
  <1>3. AllCovered'
    BY <1>2 DEF Intact, AllCovered
  <1>4. Structure'
    BY <1>1 DEF Intact, Structure, OnePlacement, NotYet, Never, Cancelling, Modifying, BookSides, PlacedSides, RecordSides,
                Claims
  <1> QED
    BY <1>3, <1>4 DEF Intact

KeptInv == BaseInv /\ Intact
LEMMA InitKept == Init => KeptInv
  BY InitBase, InitIsFresh, FreshKept DEF KeptInv

LEMMA KeptNext == KeptInv /\ [Next]_vars => KeptInv'
  <1>1. ASSUME KeptInv, Restart
        PROVE  Intact'
    <2>1. TypeOK
      BY <1>1 DEF KeptInv, BaseInv
    <2>2. Fresh'
      BY <1>1, <2>1, RestartIsFresh
    <2> QED
      BY <2>2, FreshKept, PTL
  <1>2. ASSUME KeptInv, BaseInv', Serves, UNCHANGED run
        PROVE  Intact'
    BY <1>2, ServesKeep DEF KeptInv
  <1>3. ASSUME KeptInv, UNCHANGED vars
        PROVE  Intact'
    BY <1>3, StutterKeeps DEF KeptInv
  <1>4. KeptInv /\ [Next]_vars => BaseInv'
    BY BaseNext DEF KeptInv
  <1> QED
    BY <1>1, <1>2, <1>3, <1>4 DEF Next, KeptInv

LEMMA KeptHolds == Spec => []KeptInv
  BY InitKept, KeptNext, PTL DEF Spec

-----------------------------------------------------------------------------
(* When nothing is under way, the tracker counts exactly the fills of an     *)
(* order that the user's portfolio was told of - credited with, or missed    *)
(* because it could not be loaded - and it tracks every order of a user that *)
(* rests in the book, whatever ran in between (unless the order was          *)
(* modified, cancelled while it was being placed or triggered stop orders).  *)
THEOREM TrackerAgrees == Spec => []TrackerKnowsCredits
  <1>1. KeptInv => TrackerKnowsCredits
    <2> SUFFICES ASSUME KeptInv, Quiet, NEW i \in Ids, odd[i] = {}, owner[i] # NoUser
                 PROVE  /\ tracked[i] # NoOrder => tracked[i].filled = credited[i] + missed[i]
                        /\ InBook(i) => tracked[i] # NoOrder
      BY DEF TrackerKnowsCredits
    <2>1. TypeOK /\ TickOK /\ Covered(i)
      BY DEF KeptInv, Intact, BaseInv, AllCovered
    <2>2. /\ gen.stage = "idle" /\ \A r \in Threads : req[r].stage = "idle" /\ todo[r] = <<>>
          /\ \A a \in Actors : todo[a] = <<>>
      BY <2>1 DEF Quiet, BookFree, Idle, Actors, TickOK
    <2>3. Claims(i) = 0
      <3>1. Each(Claim(i)) \in [Seq(Call) -> Nat]
        BY CallWeights, EachType
      <3>2. \A a \in Actors : Each(Claim(i))[todo[a]] = 0
        BY <2>2, NoCalls DEF Each
      <3>3. todo \in [Actors -> Seq(Call)]
        BY <2>1 DEF TypeOK
      <3>4. PICK w : w = Each(Claim(i))
        OBVIOUS
      <3>5. Weight(todo, w) = 0
        BY ONLY <3>1, <3>2, <3>3, <3>4, NothingWeighs
      <3> QED
        BY <3>4, <3>5 DEF Claims
    <2>4. Weight(req, RecShares(i)) = 0
      <3>1. RecShares(i) \in [Request -> Nat] /\ req \in [Threads -> Request]
        BY <2>1, RequestWeights DEF TypeOK
      <3>2. \A r \in Threads : RecShares(i)[req[r]] = 0
        BY <2>2, <3>1, RequestWeighs DEF Recorder
      <3> QED
        BY ONLY <3>1, <3>2, NothingWeighs
    <2>5. tracked[i] # NoOrder => tracked[i].filled = credited[i] + missed[i]
      <3> SUFFICES ASSUME tracked[i] # NoOrder
                   PROVE  tracked[i].filled = settled[i]
        BY <2>1, SettledIs
      <3>1. tracked[i].filled \in Nat /\ settled[i] \in Nat
        BY <2>1, SettledIs DEF TypeOK, Tracked
      <3>2. tracked[i].filled + Weight(req, RecShares(i)) = settled[i] + Claims(i)
        BY <2>1 DEF Covered, FillsAgree
      <3> QED
        BY <2>3, <2>4, <3>1, <3>2
    <2>6. InBook(i) => tracked[i] # NoOrder
      <3>1. Orders = Held(book)
        BY DEF Orders, Held
      <3> QED
        BY <2>1, <2>2, <3>1 DEF InBook, Covered
    <2> QED
      BY <2>5, <2>6
  <1> QED
    BY <1>1, KeptHolds, PTL

-----------------------------------------------------------------------------
(* The money that is blocked for an order is in a portfolio that has been    *)
(* loaded: a buy was loaded to reserve it, and stays loaded until a restart. *)
(* So neither a release nor the fill of a limit buy is ever missed.          *)
ReqLoaded(q, L)   == q.side = "buy" /\ q.stage \in {"limit", "track", "record", "recording"} => q.user \in L
OrderLoaded(o, L) == o # NoOrder => o.user \in L \/ (o.side = "sell" /\ o.reserve = 0)
CallLoaded(c, L)  == c.op = "release" \/ (c.op = "limitFill" /\ c.side = "buy") => c.user \in L
Loaded == /\ \A r \in Threads : ReqLoaded(req[r], loaded)
          /\ \A i \in Ids : OrderLoaded(tracked[i], loaded)
          /\ \A a \in Actors : \A c \in ToSet(todo[a]) : CallLoaded(c, loaded)

LEMMA LoadedStays ==
  ASSUME Loaded, loaded \subseteq loaded',
         \A r \in Threads : req'[r] = req[r] \/ ReqLoaded(req'[r], loaded'),
         \A i \in Ids : tracked'[i] = tracked[i] \/ OrderLoaded(tracked'[i], loaded'),
         \A a \in Actors : \A c \in ToSet(todo'[a]) : c \in ToSet(todo[a]) \/ CallLoaded(c, loaded')
  PROVE  Loaded'
  <1>1. \A r \in Threads : ReqLoaded(req'[r], loaded')
    BY DEF Loaded, ReqLoaded
  <1>2. \A i \in Ids : OrderLoaded(tracked'[i], loaded')
    BY DEF Loaded, OrderLoaded
  <1>3. \A a \in Actors : \A c \in ToSet(todo'[a]) : CallLoaded(c, loaded')
    BY DEF Loaded, CallLoaded
  <1> QED
    BY <1>1, <1>2, <1>3 DEF Loaded

LEMMA NoRequestLoaded == \A L : ReqLoaded(NoRequest, L)
  BY DEF ReqLoaded, NoRequest

(* The calls of a handler *)
LEMMA FillsLoaded ==
  ASSUME NEW op, NEW r, NEW id, NEW ts, NEW L, op = "limitFill" /\ req[r].side = "buy" => req[r].user \in L,
         op # "release"
  PROVE  \A c \in ToSet(FillCalls(op, r, id, ts)) : CallLoaded(c, L)
  BY DEF FillCalls, ToSet, CallLoaded

LEMMA ReleaseLoaded ==
  ASSUME NEW u, NEW n, NEW L, n > 0 => u \in L
  PROVE  \A c \in ToSet(ReleaseCall(u, n)) : CallLoaded(c, L)
  <1>1. CASE n > 0
    <2>1. ReleaseCall(u, n) = <<[op |-> "release", user |-> u, amount |-> n]>>
      BY <1>1 DEF ReleaseCall
    <2> QED
      BY <1>1, <2>1 DEF ToSet, CallLoaded
  <1>2. CASE ~(n > 0)
    BY <1>2 DEF ReleaseCall, ToSet
  <1> QED
    BY <1>1, <1>2

LEMMA HandlerLoads ==
  ASSUME TypeOK, Loaded, loaded \subseteq loaded', NEW r, r \in Threads, NEW x, NEW d,
         req' = [req EXCEPT ![r] = x], ReqLoaded(x, loaded'),
         todo' = todo \/ todo' = [todo EXCEPT ![r] = d],
         todo' # todo => \A c \in ToSet(d) : CallLoaded(c, loaded'),
         \A i \in Ids : tracked'[i] = tracked[i] \/ OrderLoaded(tracked'[i], loaded')
  PROVE  Loaded'
  <1>1. \A s \in Threads : req'[s] = req[s] \/ ReqLoaded(req'[s], loaded')
    BY DEF TypeOK
  <1>2. \A a \in Actors : \A c \in ToSet(todo'[a]) : c \in ToSet(todo[a]) \/ CallLoaded(c, loaded')
    <2>1. CASE todo' = todo
      BY <2>1
    <2>2. CASE todo' # todo
      <3>1. \A a \in Actors : todo'[a] = todo[a] \/ todo'[a] = d
        BY <2>2 DEF TypeOK
      <3> QED
        BY <2>2, <3>1
    <2> QED
      BY <2>1, <2>2
  <1> QED
    BY <1>1, <1>2, LoadedStays

(* A new request *)
LEMMA NewRequestLoads ==
  ASSUME TypeOK, Loaded, NEW r, r \in Threads, NewRequest(r)
  PROVE  Loaded'
  <1>1. ASSUME NEW x, req' = [req EXCEPT ![r] = x], ReqLoaded(x, loaded'), loaded \subseteq loaded',
               UNCHANGED <<tracked, todo>>
        PROVE  Loaded'
    BY <1>1, HandlerLoads
  <1>2. ASSUME NEW u, u \in Users, NEW s, NEW q, NEW p, PlaceLimitOrder(r, u, s, q, p)
        PROVE  Loaded'
    <2>1. PICK x : x = [NoRequest EXCEPT !.stage = "limit", !.user = u, !.side = s, !.qty = q, !.price = p]
      OBVIOUS
    <2>2. req' = [req EXCEPT ![r] = x] /\ UNCHANGED <<tracked, todo>>
      BY <1>2, <2>1 DEF PlaceLimitOrder, Arrives
    <2>3. (s = "sell" /\ loaded' = loaded) \/ loaded' = loaded \cup {u}
      BY <1>2 DEF PlaceLimitOrder
    <2>4. x.side = s /\ x.user = u
      BY <2>1 DEF NoRequest
    <2>5. ReqLoaded(x, loaded') /\ loaded \subseteq loaded'
      BY <2>3, <2>4 DEF ReqLoaded
    <2> QED
      BY <1>1, <2>2, <2>5
  <1>3. ASSUME NEW u, NEW s, NEW q, PlaceMarketOrder(r, u, s, q)
        PROVE  Loaded'
    <2>1. PICK x : x = [NoRequest EXCEPT !.stage = "check", !.user = u, !.side = s, !.qty = q,
                          !.seen = IF s = "buy" THEN cash[u].available ELSE shares[u]]
      OBVIOUS
    <2>2. req' = [req EXCEPT ![r] = x] /\ UNCHANGED <<tracked, todo>> /\ loaded' = loaded \cup {u}
      BY <1>3, <2>1 DEF PlaceMarketOrder, Arrives
    <2>3. x.stage = "check"
      BY <2>1 DEF NoRequest
    <2> QED
      BY <1>1, <2>2, <2>3 DEF ReqLoaded
  <1>4. ASSUME NEW u, NEW s, NEW q, PlaceInternalMarketOrder(r, u, s, q)
        PROVE  Loaded'
    <2>1. PICK x : x = [NoRequest EXCEPT !.stage = "market", !.user = u, !.side = s, !.qty = q]
      OBVIOUS
    <2>2. req' = [req EXCEPT ![r] = x] /\ UNCHANGED <<tracked, todo, loaded>>
      BY <1>4, <2>1 DEF PlaceInternalMarketOrder, Arrives
    <2>3. x.stage = "market"
      BY <2>1 DEF NoRequest
    <2> QED
      BY <1>1, <2>2, <2>3 DEF ReqLoaded
  <1>5. ASSUME NEW u, GetPortfolio(r, u)
        PROVE  Loaded'
    <2>1. req' = [req EXCEPT ![r] = NoRequest] /\ UNCHANGED <<tracked, todo>> /\ loaded' = loaded \cup {u}
      BY <1>5 DEF GetPortfolio, Arrives
    <2> QED
      BY <1>1, <2>1, NoRequestLoaded
  <1>6. ASSUME StopCall(r)
        PROVE  Loaded'
    <2>1. req' = [req EXCEPT ![r] = NoRequest] /\ UNCHANGED <<tracked, todo, loaded>>
      BY <1>6 DEF StopCall, Arrives
    <2> QED
      BY <1>1, <2>1, NoRequestLoaded
  <1>7. ASSUME NEW id, CancelLimit(r, id)
        PROVE  Loaded'
    <2>1. PICK x : x = [NoRequest EXCEPT !.stage = "remove", !.id = id]
      OBVIOUS
    <2>2. req' = [req EXCEPT ![r] = x] /\ UNCHANGED <<tracked, todo, loaded>>
      BY <1>7, <2>1 DEF CancelLimit, Arrives
    <2>3. x.stage = "remove"
      BY <2>1 DEF NoRequest
    <2> QED
      BY <1>1, <2>2, <2>3 DEF ReqLoaded
  <1>8. ASSUME NEW id, NEW q, NEW p, ModifyLimit(r, id, q, p)
        PROVE  Loaded'
    <2>1. PICK x : x = [NoRequest EXCEPT !.stage = "update", !.id = id, !.qty = q]
      OBVIOUS
    <2>2. req' = [req EXCEPT ![r] = x] /\ UNCHANGED <<tracked, todo, loaded>>
      BY <1>8, <2>1 DEF ModifyLimit, Arrives
    <2>3. x.stage = "update"
      BY <2>1 DEF NoRequest
    <2> QED
      BY <1>1, <2>2, <2>3 DEF ReqLoaded
  <1>9. ASSUME NEW s, NEW q, NEW limit, NEW stop, AddStop(r, s, q, limit, stop)
        PROVE  Loaded'
    BY <1>6, <1>9 DEF AddStop
  <1>10. ASSUME NEW k, NEW q, NEW limit, NEW stop, ModifyStop(r, k, q, limit, stop)
         PROVE  Loaded'
    BY <1>6, <1>10 DEF ModifyStop
  <1>11. ASSUME NEW k, CancelStop(r, k)
         PROVE  Loaded'
    BY <1>6, <1>11 DEF CancelStop
  <1> QED
    BY <1>2, <1>3, <1>4, <1>5, <1>7, <1>8, <1>9, <1>10, <1>11 DEF NewRequest

(* The engine takes an order, or refuses it and its escrow is released. *)
LEMMA WaitsLoads ==
  ASSUME TypeOK, Loaded, NEW r, r \in Threads, Waits(r)
  PROVE  Loaded'
  <1>1. ReqLoaded(req[r], loaded) /\ req[r] \in Request
    BY DEF Loaded, TypeOK
  <1>2. CASE AddLimitAutoID(r)
    <2>1. PICK x : /\ req' = [req EXCEPT ![r] = x] /\ UNCHANGED <<tracked, todo, loaded>>
                   /\ req[r].stage = "limit" /\ x.user = req[r].user /\ x.side = req[r].side
      <3>1. PICK ts : ts = Reported(Taken(nextId, req[r].side, req[r].price, req[r].qty))
        OBVIOUS
      <3>2. PICK x : x = [req[r] EXCEPT !.stage = "track", !.id = nextId, !.trades = ts]
        OBVIOUS
      <3>3. /\ req' = [req EXCEPT ![r] = x] /\ UNCHANGED <<tracked, todo, loaded>>
            /\ req[r].stage = "limit"
        BY <1>2, <3>1, <3>2 DEF AddLimitAutoID, GoesOn
      <3>4. x.user = req[r].user /\ x.side = req[r].side
        BY <1>1, <3>2 DEF Request
      <3> QED
        BY <3>3, <3>4
    <2>2. ReqLoaded(x, loaded')
      BY <1>1, <2>1 DEF ReqLoaded
    <2> QED
      BY <2>1, <2>2, HandlerLoads
  <1>3. CASE EngineRefuses(r)
    <2>1. PICK d : d = IF req[r].side = "sell" THEN <<>> ELSE ReleaseCall(req[r].user, req[r].price * req[r].qty)
      OBVIOUS
    <2>2. /\ req' = [req EXCEPT ![r] = NoRequest] /\ UNCHANGED <<tracked, loaded>>
          /\ todo' = [todo EXCEPT ![r] = d] /\ req[r].stage = "limit"
      BY <1>3, <2>1 DEF EngineRefuses, GoesOn
    <2>3. \A c \in ToSet(d) : CallLoaded(c, loaded')
      <3>1. CASE req[r].side = "sell"
        BY <2>1, <3>1 DEF ToSet
      <3>2. CASE req[r].side # "sell"
        <4>1. req[r].side = "buy"
          BY <1>1, <3>2, RequestIs DEF Side
        <4>2. req[r].user \in loaded'
          BY <1>1, <2>2, <4>1 DEF ReqLoaded
        <4> QED
          BY <2>1, <3>2, <4>2, ReleaseLoaded
      <3> QED
        BY <3>1, <3>2
    <2> QED
      BY <2>2, <2>3, NoRequestLoaded, HandlerLoads
  <1>4. CASE MarketAutoID(r)
    <2>1. PICK ts : ts = Reported(Taken(nextId, req[r].side, 0, req[r].qty))
      OBVIOUS
    <2>2. /\ req' = [req EXCEPT ![r] = NoRequest] /\ UNCHANGED <<tracked, loaded>>
          /\ todo' = [todo EXCEPT ![r] = FillCalls("marketFill", r, nextId, ts)]
      BY <1>4, <2>1 DEF MarketAutoID, GoesOn
    <2>3. \A c \in ToSet(FillCalls("marketFill", r, nextId, ts)) : CallLoaded(c, loaded')
      BY FillsLoaded
    <2> QED
      BY <2>3, <2>2, NoRequestLoaded, HandlerLoads
  <1> QED
    BY <1>2, <1>3, <1>4 DEF Waits

(* The tracker of a handler *)
LEMMA TrackLoads ==
  ASSUME TypeOK, Loaded, NEW r, r \in Threads, Track(r)
  PROVE  Loaded'
  <1>1. ReqLoaded(req[r], loaded) /\ req[r] \in Request /\ req[r].stage = "track" /\ req[r].side \in Side
    BY RequestIs DEF Loaded, TypeOK, Track, GoesOn
  <1>2. req[r].side = "buy" => req[r].user \in loaded
    BY <1>1 DEF ReqLoaded
  <1>3. PICK q, x, d, o :
          /\ q = req[r] /\ x = IF q.trades = <<>> THEN NoRequest ELSE [q EXCEPT !.stage = "record"]
          /\ d = FillCalls("limitFill", r, q.id, q.trades)
          /\ o = [user |-> q.user, side |-> q.side, qty |-> q.qty, filled |-> 0,
                  reserve |-> IF q.side = "buy" THEN q.price * q.qty ELSE 0]
    OBVIOUS
  <1>4. /\ req' = [req EXCEPT ![r] = x] /\ todo' = [todo EXCEPT ![r] = d] /\ loaded' = loaded
        /\ tracked' = [tracked EXCEPT ![q.id] = o]
    BY <1>3 DEF Track, GoesOn
  <1>5. ReqLoaded(x, loaded')
    <2>1. x = NoRequest \/ (x.user = q.user /\ x.side = q.side)
      BY <1>1, <1>3 DEF Request
    <2> QED
      BY <1>2, <1>3, <1>4, <2>1, NoRequestLoaded DEF ReqLoaded
  <1>6. \A c \in ToSet(d) : CallLoaded(c, loaded')
    BY <1>2, <1>3, <1>4, FillsLoaded
  <1>7. OrderLoaded(o, loaded')
    BY <1>1, <1>2, <1>3, <1>4 DEF OrderLoaded, Side
  <1>8. \A i \in Ids : tracked'[i] = tracked[i] \/ OrderLoaded(tracked'[i], loaded')
    BY <1>4, <1>7 DEF TypeOK
  <1> QED
    BY <1>4, <1>5, <1>6, <1>8, HandlerLoads

(* An order after a trade is as loaded as before, and what is released too. *)
LEMMA AfterIsLoaded ==
  ASSUME NEW o, o \in Tracked, NEW t, t \in Fill, NEW L, OrderLoaded(o, L)
  PROVE  /\ OrderLoaded(AfterTrade(o, t), L)
         /\ AfterTrade(o, t).reserve > 0 => o.user \in L
  <1>1. PICK new, n : new = AfterTrade(o, t) /\ After(o, new, t, n)
    BY AfterTradeIs
  <1>2. o # NoOrder
    BY NoOrderIsNone
  <1>3. new.user = o.user /\ new.side = o.side /\ (o.side # "buy" => new.reserve = o.reserve)
    BY <1>1 DEF After
  <1> QED
    BY <1>1, <1>2, <1>3 DEF OrderLoaded

LEMMA RecordLoads ==
  ASSUME BaseInv, Loaded, NEW r, r \in Threads, RecordPlacementTrades(r), UNCHANGED run
  PROVE  Loaded'
  <1>1. PICK q, t, x, d, new :
           /\ q = req[r] /\ RecordsAs(r, q, t, x, d)
           /\ new = IF q.id \in {t.maker, t.taker} THEN AfterTrade(tracked[q.id], t) ELSE tracked[q.id]
           /\ Forgets(q, x, d) \/ Records1(q, x, d, new) \/ Completes(q, x, d, new)
    BY RecordIs
  <1>2. /\ TypeOK /\ OwnersKnown /\ tracked \in [Ids -> Tracked \cup {NoOrder}]
        /\ ReqLoaded(q, loaded) /\ q.id \in Ids /\ OrderLoaded(tracked[q.id], loaded) /\ owner[q.id] = q.user
        /\ t \in Fill /\ Recorder(q) /\ loaded' = loaded
        /\ req' = [req EXCEPT ![r] = x] /\ todo' = [todo EXCEPT ![r] = d]
    BY <1>1 DEF BaseInv, TypeOK, Loaded, RecordsAs, GoesTo
  <1>3. ReqLoaded(x, loaded')
    BY <1>1, <1>2, NoRequestLoaded DEF ReqLoaded, Recorder, Forgets, Records1, Rests, Completes
  <1>4. ASSUME tracked[q.id] # NoOrder
        PROVE  OrderLoaded(new, loaded) /\ (new.reserve > 0 => q.user \in loaded)
    <2>1. tracked[q.id] \in Tracked /\ tracked[q.id].user = q.user
      BY <1>2, <1>4 DEF OwnersKnown
    <2>2. CASE new = tracked[q.id]
      BY <1>2, <1>4, <2>1, <2>2 DEF OrderLoaded
    <2>3. CASE new = AfterTrade(tracked[q.id], t)
      BY <1>2, <2>1, <2>3, AfterIsLoaded
    <2> QED
      BY <1>1, <2>2, <2>3
  <1>5. \A c \in ToSet(d) : CallLoaded(c, loaded')
    <2>1. CASE d = <<>>
      BY <2>1, NoCalls
    <2>2. CASE tracked[q.id] # NoOrder /\ d = ReleaseCall(q.user, new.reserve)
      <3>1. new.reserve > 0 => q.user \in loaded'
        BY <1>2, <1>4, <2>2
      <3> QED
        BY <2>2, <3>1, ReleaseLoaded
    <2> QED
      BY <1>1, <2>1, <2>2 DEF Forgets, Records1, Completes
  <1>6. \A i \in Ids : tracked'[i] = tracked[i] \/ OrderLoaded(tracked'[i], loaded')
    BY <1>1, <1>2, <1>4 DEF Forgets, Records1, Completes, OrderLoaded
  <1> QED
    BY <1>2, <1>3, <1>5, <1>6, HandlerLoads

LEMMA HandlesLoads ==
  ASSUME BaseInv, Loaded, NEW r, r \in Threads, Handles(r), ~CallPortfolio(r), UNCHANGED run
  PROVE  Loaded'
  <1>1. TypeOK /\ req[r] \in Request /\ tracked \in [Ids -> Tracked \cup {NoOrder}]
    BY DEF BaseInv, TypeOK
  <1>2. CASE CheckPasses(r)
    <2>1. PICK x : /\ req' = [req EXCEPT ![r] = x] /\ UNCHANGED <<tracked, todo, loaded>>
                   /\ x.stage = "market"
      <3>1. PICK x : x = [req[r] EXCEPT !.stage = "market", !.seen = 0]
        OBVIOUS
      <3>2. x.stage = "market"
        BY <1>1, <3>1 DEF Request
      <3> QED
        BY <1>2, <3>1, <3>2 DEF CheckPasses, GoesOn
    <2> QED
      BY <1>1, <2>1, HandlerLoads DEF ReqLoaded
  <1>3. CASE CheckFails(r)
    BY <1>1, <1>3, NoRequestLoaded, HandlerLoads DEF CheckFails, GoesOn
  <1>4. CASE RemoveFromTracker(r)
    <2>1. PICK q, d : q = req[r] /\ RemovesAs(r, q, d)
      BY <1>4, RemovesIs
    <2>2. /\ req' = [req EXCEPT ![r] = NoRequest] /\ todo' = [todo EXCEPT ![r] = d] /\ loaded' = loaded
      BY <2>1 DEF RemovesAs, GoesTo
    <2>3. \A c \in ToSet(d) : CallLoaded(c, loaded')
      <3>1. CASE d = <<>>
        BY <3>1, NoCalls
      <3>2. CASE q.id \in Ids /\ tracked[q.id] # NoOrder /\ tracked[q.id] \in Tracked
                   /\ d = ReleaseCall(tracked[q.id].user, tracked[q.id].reserve)
        <4>1. OrderLoaded(tracked[q.id], loaded)
          BY <3>2 DEF Loaded
        <4>2. tracked[q.id].reserve > 0 => tracked[q.id].user \in loaded'
          BY <2>2, <3>2, <4>1 DEF OrderLoaded
        <4> QED
          BY <3>2, <4>2, ReleaseLoaded
      <3> QED
        BY <2>1, <3>1, <3>2 DEF RemovesAs
    <2>4. \A i \in Ids : tracked'[i] = tracked[i] \/ tracked'[i] = NoOrder
      BY <1>1, <2>1 DEF RemovesAs
    <2> QED
      BY <1>1, <2>2, <2>3, <2>4, NoRequestLoaded, HandlerLoads DEF OrderLoaded
  <1>5. CASE UpdateLimit(r)
    <2>1. PICK q : q = req[r] /\ UpdatesAs(r, q)
      BY <1>5, UpdatesIs
    <2>2. req' = [req EXCEPT ![r] = NoRequest] /\ todo' = [todo EXCEPT ![r] = <<>>] /\ loaded' = loaded
      BY <2>1 DEF UpdatesAs, GoesTo
    <2>3. \A i \in Ids : tracked'[i] = tracked[i] \/ OrderLoaded(tracked'[i], loaded')
      <3>1. \A i \in Ids : OrderLoaded(tracked[i], loaded)
        BY DEF Loaded
      <3> QED
        BY <1>1, <2>1, <2>2, <3>1 DEF UpdatesAs, OrderLoaded
    <2> QED
      BY <1>1, <2>2, <2>3, NoCalls, NoRequestLoaded, HandlerLoads
  <1> QED
    BY <1>1, <1>2, <1>3, <1>4, <1>5, TrackLoads, RecordLoads DEF Handles

(* A call returns; portfolios may be loaded by it. *)
LEMMA CallLoads ==
  ASSUME BaseInv, Loaded, NEW a, a \in Actors, NEW c, NEW q, CallsAs(a, c, q)
  PROVE  Loaded'
  <1>1. TypeOK /\ loaded \subseteq loaded' /\ UNCHANGED <<tracked, req>>
    BY DEF BaseInv, CallsAs
  <1>2. /\ todo'[a] = q /\ \A b \in Actors : b # a => todo'[b] = todo[b]
        /\ \A d \in ToSet(q) : d \in ToSet(todo[a])
    BY <1>1, CallGone
  <1> QED
    BY <1>1, <1>2, LoadedStays

(* The generator reconciles a trade. *)
LEMMA ReconcileLoads ==
  ASSUME BaseInv, Loaded, Reconcile, UNCHANGED run
  PROVE  Loaded'
  <1>1. /\ TypeOK /\ TickOK /\ gen \in Tick /\ gen.trades \in Seq(Fill) /\ gen.trades # <<>>
        /\ tracked \in [Ids -> Tracked \cup {NoOrder}] /\ todo[Generator] \in Seq(Call)
    BY DEF BaseInv, TypeOK, Tick, TickOK, Reconcile, Actors
  <1>2. PICK t, o, new, fill, d0, d1 :
           /\ t = Head(gen.trades) /\ o = IF t.maker \in Ids THEN tracked[t.maker] ELSE NoOrder
           /\ new = AfterTrade(o, t) /\ d0 = todo[Generator] /\ d1 = Append(d0, fill)
           /\ fill = [op |-> "limitFill", user |-> o.user, id |-> t.maker, side |-> o.side,
                      price |-> t.price, qty |-> Applied(o, t)]
    OBVIOUS
  <1>3. t \in Fill
    BY <1>1, <1>2, TailHolds
  <1>4. new = AfterTrade(o, t)
    BY <1>2
  <1>5. UNCHANGED <<loaded, req>> /\ ReconcileTrade(t, o, new)
    BY <1>2 DEF Reconcile
  <1>6. CASE UNCHANGED <<tracked, todo>>
    BY <1>5, <1>6, LoadedStays
  <1>7. ASSUME o # NoOrder, new # o
        PROVE  /\ t.maker \in Ids /\ o = tracked[t.maker] /\ o \in Tracked
               /\ OrderLoaded(new, loaded) /\ (new.reserve > 0 => o.user \in loaded)
               /\ CallLoaded(fill, loaded) /\ fill \in Call
    <2>1. t.maker \in Ids /\ o = tracked[t.maker] /\ o \in Tracked
      BY <1>1, <1>2, <1>7
    <2>2. OrderLoaded(o, loaded)
      BY <2>1 DEF Loaded
    <2>3. OrderLoaded(new, loaded) /\ (new.reserve > 0 => o.user \in loaded)
      BY <1>2, <1>3, <2>1, <2>2, AfterIsLoaded
    <2>4. fill.op = "limitFill" /\ fill.side = o.side /\ fill.user = o.user
      BY <1>2
    <2>5. CallLoaded(fill, loaded)
      BY <1>7, <2>2, <2>4 DEF CallLoaded, OrderLoaded
    <2>6. fill \in Call
      <3>1. o.user \in Users /\ o.side \in Side /\ t.price \in Prices
        BY <1>3, <2>1 DEF Tracked, Fill
      <3>2. PICK n \in Nat : After(o, new, t, n)
        BY <1>3, <1>4, <2>1, AfterTradeIs
      <3>3. Applied(o, t) \in Nat \ {0}
        BY <1>7, <3>2 DEF After
      <3> QED
        BY <1>2, <2>1, <3>1, <3>3 DEF Call
    <2> QED
      BY <2>1, <2>3, <2>5, <2>6
  <1>8. ASSUME o # NoOrder, new # o, tracked' = [tracked EXCEPT ![t.maker] = new],
               todo' = [todo EXCEPT ![Generator] = d1]
        PROVE  Loaded'
    <2>1. \A i \in Ids : tracked'[i] = tracked[i] \/ OrderLoaded(tracked'[i], loaded')
      BY <1>1, <1>5, <1>7, <1>8
    <2>2. \A c \in ToSet(d1) : c = fill \/ c \in ToSet(d0)
      BY <1>1, <1>2, <1>7, <1>8, AppendHolds
    <2>3. \A a \in Actors : todo'[a] = todo[a] \/ (a = Generator /\ todo'[a] = d1)
      BY <1>1, <1>8 DEF TypeOK
    <2>4. d0 = todo[Generator] /\ CallLoaded(fill, loaded')
      BY <1>2, <1>5, <1>7, <1>8
    <2>5. \A a \in Actors : \A c \in ToSet(todo'[a]) : c \in ToSet(todo[a]) \/ CallLoaded(c, loaded')
      BY <2>2, <2>3, <2>4
    <2> QED
      BY <1>5, <2>1, <2>5, LoadedStays
  <1>9. ASSUME o # NoOrder, new # o, tracked' = [tracked EXCEPT ![t.maker] = NoOrder],
               todo' = [todo EXCEPT ![Generator] = d1 \o ReleaseCall(o.user, new.reserve)]
        PROVE  Loaded'
    <2>1. \A i \in Ids : tracked'[i] = tracked[i] \/ OrderLoaded(tracked'[i], loaded')
      <3>1. \A i \in Ids : tracked'[i] = tracked[i] \/ tracked'[i] = NoOrder
        BY <1>1, <1>9
      <3> QED
        BY <3>1 DEF OrderLoaded
    <2>2. d1 \in Seq(Call) /\ \A c \in ToSet(d1) : c = fill \/ c \in ToSet(d0)
      <3>1. fill \in Call
        BY <1>7, <1>9
      <3>2. d1 = Append(d0, fill) /\ d0 \in Seq(Call)
        BY <1>1, <1>2
      <3> QED
        BY <3>1, <3>2, AppendHolds
    <2>3. PICK d, e : e = ReleaseCall(o.user, new.reserve) /\ d = d1 \o e
      OBVIOUS
    <2>4. (\A c \in ToSet(e) : CallLoaded(c, loaded)) /\ (e = <<>> \/ \E c \in Call : e = <<c>>)
      <3>1. o.user \in Users /\ new.reserve \in Nat
        <4>1. o \in Tracked
          BY <1>7, <1>9
        <4>2. PICK n \in Nat : After(o, new, t, n)
          BY <1>3, <1>4, <4>1, AfterTradeIs
        <4> QED
          BY <4>1, <4>2 DEF After, Tracked
      <3>2. \A c \in ToSet(e) : CallLoaded(c, loaded)
        BY <1>7, <1>9, <2>3, ReleaseLoaded
      <3>3. e = <<>> \/ \E c \in Call : e = <<c>>
        BY <2>3, <3>1, ReleaseCallIs
      <3> QED
        BY <3>2, <3>3
    <2>5. \A c \in ToSet(d) : c \in ToSet(d1) \/ c \in ToSet(e)
      <3>1. CASE e = <<>>
        BY <2>2, <2>3, <3>1
      <3>2. ASSUME NEW c \in Call, e = <<c>>
            PROVE  \A y \in ToSet(d) : y \in ToSet(d1) \/ y \in ToSet(e)
        <4>1. d = Append(d1, c) /\ c \in ToSet(e)
          BY <2>2, <2>3, <3>2 DEF ToSet
        <4> QED
          BY <2>2, <4>1, AppendHolds
      <3> QED
        BY <2>4, <3>1, <3>2
    <2>6. \A a \in Actors : todo'[a] = todo[a] \/ (a = Generator /\ todo'[a] = d)
      BY <1>1, <1>9, <2>3 DEF TypeOK
    <2>7. d0 = todo[Generator] /\ CallLoaded(fill, loaded') /\ loaded' = loaded
      BY <1>2, <1>5, <1>7, <1>9
    <2>8. \A a \in Actors : \A c \in ToSet(todo'[a]) : c \in ToSet(todo[a]) \/ CallLoaded(c, loaded')
      <3>1. \A c \in ToSet(d) : c \in ToSet(todo[Generator]) \/ CallLoaded(c, loaded')
        BY <2>2, <2>4, <2>5, <2>7
      <3>2. ASSUME NEW a \in Actors
            PROVE  \A c \in ToSet(todo'[a]) : c \in ToSet(todo[a]) \/ CallLoaded(c, loaded')
        BY <2>6, <3>1
      <3> QED
        BY <3>2
    <2> QED
      BY <1>5, <2>1, <2>8, LoadedStays
  <1> QED
    <2>1. PICK f : f = [op |-> "limitFill", user |-> o.user, id |-> t.maker, side |-> o.side,
                        price |-> t.price, qty |-> Applied(o, t)]
      OBVIOUS
    <2>2. f = fill
      BY <1>2, <2>1
    <2>3. \/ UNCHANGED <<tracked, todo>>
          \/ /\ o # NoOrder /\ new # o /\ tracked' = [tracked EXCEPT ![t.maker] = new]
             /\ todo' = [todo EXCEPT ![Generator] = Append(todo[Generator], f)]
          \/ /\ o # NoOrder /\ new # o /\ tracked' = [tracked EXCEPT ![t.maker] = NoOrder]
             /\ todo' = [todo EXCEPT ![Generator] =
                           Append(todo[Generator], f) \o ReleaseCall(o.user, new.reserve)]
      BY <1>5, <2>1 DEF ReconcileTrade
    <2>4. Append(todo[Generator], f) = d1
      BY <1>2, <2>2
    <2> QED
      BY <1>6, <1>8, <1>9, <2>3, <2>4

LEMMA ServesLoads ==
  ASSUME BaseInv, Loaded, Serves, UNCHANGED run
  PROVE  Loaded'
  <1>1. TypeOK
    BY DEF BaseInv
  <1>2. ASSUME NEW a, a \in Actors, CallPortfolio(a)
        PROVE  Loaded'
    <2>1. PICK c, q : CallsAs(a, c, q)
      BY <1>2, CallIsOne
    <2> QED
      BY <1>2, <2>1, CallLoads
  <1>3. ASSUME NEW r, r \in Threads, NewRequest(r) \/ Waits(r) \/ Handles(r)
        PROVE  Loaded'
    <2>1. r \in Actors
      BY <1>3 DEF Actors
    <2> QED
      BY <1>1, <1>2, <1>3, <2>1, NewRequestLoads, WaitsLoads, HandlesLoads
  <1>4. CASE NewTick \/ EndTick
    BY <1>4, LoadedStays DEF NewTick, EndTick
  <1>5. ASSUME NEW s, NEW p, NEW q, Quote(s, p, q)
        PROVE  Loaded'
    BY <1>5, LoadedStays DEF Quote
  <1>6. CASE CallPortfolio(Generator)
    <2>1. Generator \in Actors
      BY DEF Actors
    <2> QED
      BY <1>2, <1>6, <2>1
  <1> QED
    BY <1>3, <1>4, <1>5, <1>6, ReconcileLoads DEF Serves, Generates

LEMMA FreshLoaded == Fresh => Loaded
  <1> SUFFICES ASSUME Fresh
               PROVE  Loaded
    OBVIOUS
  <1>1. \A r \in Threads : req[r] = NoRequest
    BY DEF Fresh
  <1>2. \A i \in Ids : tracked[i] = NoOrder
    BY DEF Fresh
  <1>3. \A a \in Actors : todo[a] = <<>>
    BY DEF Fresh
  <1> QED
    BY <1>1, <1>2, <1>3, NoRequestLoaded, NoCalls DEF Loaded, OrderLoaded

-----------------------------------------------------------------------------
(* The money: the escrow of a user whose orders are sound, as sums           *)
MoneyOK(u) ==
  Calm(u, Lost) =>
    /\ Missing(cash[u]) = Missing(before[u])
    /\ cash[u].blocked + Weight(req, Spent(u))
         = before[u].blocked + Weight(tracked, Reserved(u)) + Weight(req, Asked(u)) + Weight(todo, Each(Owed(u)))
Money == \A u \in Users : MoneyOK(u)

LEMMA MoneyIs ==
  ASSUME TypeOK, Money
  PROVE  EscrowAccounted /\ CashAddsUp
  <1>1. EscrowSplits /\ Numbers
    BY EscrowIs, NumbersNow
  <1>2. ASSUME NEW u \in Users, Calm(u, Lost)
        PROVE  cash[u].blocked = before[u].blocked + Escrow(u) /\ Missing(cash[u]) = Missing(before[u])
    <2>1. /\ Missing(cash[u]) = Missing(before[u])
          /\ cash[u].blocked + Weight(req, Spent(u))
               = before[u].blocked + Weight(tracked, Reserved(u)) + Weight(req, Asked(u)) + Weight(todo, Each(Owed(u)))
      BY <1>2 DEF Money, MoneyOK
    <2>2. Escrow(u) = Weight(tracked, Reserved(u)) + Weight(req, Asked(u)) - Weight(req, Spent(u))
                        + Weight(todo, Each(Owed(u)))
      BY <1>1 DEF EscrowSplits
    <2>3. /\ Weight(tracked, Reserved(u)) \in Nat /\ Weight(req, Asked(u)) \in Nat /\ Weight(req, Spent(u)) \in Nat
          /\ Weight(todo, Each(Owed(u))) \in Nat
      BY <1>1 DEF Numbers
    <2>4. cash[u].blocked \in Nat /\ before[u].blocked \in Nat
      BY DEF TypeOK, Cash
    <2>5. cash[u].blocked = before[u].blocked + Escrow(u)
      BY ONLY <2>1, <2>2, <2>3, <2>4
    <2> QED
      BY <2>1, <2>5
  <1> QED
    BY <1>2 DEF EscrowAccounted, CashAddsUp, Lost

(* What the portfolio has spent and the tracker does not know of is still    *)
(* reserved: of each such order there is one goroutine.                      *)
LEMMA SpentIsReserved ==
  ASSUME BaseInv, Intact, NEW u, u \in Users, Calm(u, Lost)
  PROVE  Weight(req, Spent(u)) <= Weight(tracked, Reserved(u))
  <1>1. /\ TypeOK /\ Structure /\ OwnersKnown
        /\ req \in [Threads -> Request] /\ tracked \in [Ids -> Tracked \cup {NoOrder}]
    BY DEF BaseInv, TypeOK, Intact
  <1>2. PICK f : f = [r \in Threads |-> Spent(u)[req[r]]]
    OBVIOUS
  <1>3. PICK g : g = [i \in Ids |-> Reserved(u)[tracked[i]]]
    OBVIOUS
  <1>4. PICK h : h = [r \in Threads |-> req[r].id]
    OBVIOUS
  <1>5. f \in [Threads -> Nat] /\ \A r \in Threads : f[r] = Spent(u)[req[r]]
    <2>1. Spent(u) \in [Request -> Nat]
      BY RequestWeights
    <2> QED
      BY <1>1, <1>2, <2>1
  <1>6. g \in [Ids -> Nat] /\ \A i \in Ids : g[i] = Reserved(u)[tracked[i]]
    <2>1. \A i \in Ids : Reserved(u)[tracked[i]] \in Nat
      BY <1>1, ReservedIs DEF Tracked
    <2> QED
      BY <1>3, <2>1
  <1>7. ASSUME NEW r \in Threads, f[r] > 0
        PROVE  Placed(req[r]) /\ h[r] \in Ids /\ f[r] <= g[h[r]]
    <2>1. /\ req[r] \in Request /\ req[r].user = u /\ req[r].side = "buy" /\ Recorder(req[r])
          /\ f[r] = Weight(req[r].trades, MoneyOf)
      BY <1>1, <1>5, <1>7, RequestWeighs
    <2>2. PICK i : i = req[r].id
      OBVIOUS
    <2>3. Placed(req[r]) /\ i \in Ids /\ owner[i] = u
      BY <2>1, <2>2, PlacedOwned DEF Placed, Recorder
    <2>4. Sound(i) /\ Covered(i)
      BY <2>3 DEF Calm, Sound, Intact, AllCovered
    <2>5. tracked[i] # NoOrder /\ tracked[i] \in Tracked
      BY <1>1, <2>1, <2>2, <2>3, <2>4 DEF Covered
    <2>6. tracked[i].side = "buy" /\ tracked[i].user = u
      BY <1>1, <2>1, <2>2, <2>3, <2>5 DEF Structure, RecordSides, OwnersKnown
    <2>7. Worth(i) + Revenue(i) + Weight(req, RecMoney(i)) <= tracked[i].reserve
      BY <2>4, <2>5, <2>6 DEF Covered, MoneyCovered
    <2>8. RecMoney(i)[req[r]] = f[r]
      BY <2>1, <2>2, RequestWeighs
    <2>9. RecMoney(i)[req[r]] <= Weight(req, RecMoney(i))
      <3>1. RecMoney(i) \in [Request -> Nat]
        BY RequestWeights
      <3> QED
        BY <1>1, <3>1, FiniteSets, PartOfWeight
    <2>10. g[i] = tracked[i].reserve /\ tracked[i].reserve \in Nat
      BY <1>6, <2>3, <2>5, <2>6, ReservedIs DEF Tracked
    <2>11. Worth(i) \in Nat /\ Revenue(i) \in Nat /\ Weight(req, RecMoney(i)) \in Nat /\ f[r] \in Nat
      BY <1>1, <1>5, NumbersAreNat
    <2>12. f[r] <= g[i]
      BY ONLY <2>7, <2>8, <2>9, <2>10, <2>11
    <2> QED
      BY <1>4, <2>2, <2>3, <2>12
  <1>8. \A r, s \in Threads : f[r] > 0 /\ f[s] > 0 /\ h[r] = h[s] => r = s
    BY <1>1, <1>4, <1>7 DEF Structure, OnePlacement
  <1>9. Total(f) <= Total(g)
    <2>1. \A r \in Threads : f[r] > 0 => h[r] \in Ids /\ f[r] <= g[h[r]]
      BY <1>7
    <2>2. IsFiniteSet(Threads) /\ IsFiniteSet(Ids)
      BY FiniteSets
    <2> QED
      BY ONLY <1>5, <1>6, <1>8, <2>1, <2>2, TotalWithin
  <1> QED
    BY <1>1, <1>2, <1>3, <1>9 DEF Weight

(* A step that keeps the account of user u *)
Balances(u) ==
  /\ Missing(cash'[u]) = Missing(cash[u])
  /\ (cash'[u].blocked + Weight(req', Spent(u)))
       + (Weight(tracked, Reserved(u)) + Weight(req, Asked(u)) + Weight(todo, Each(Owed(u))))
     = (cash[u].blocked + Weight(req, Spent(u)))
         + (Weight(tracked', Reserved(u)) + Weight(req', Asked(u)) + Weight(todo', Each(Owed(u))))

LEMMA Balance ==
  ASSUME NEW b \in Nat, NEW b0 \in Nat, NEW s0 \in Nat, NEW r0 \in Nat, NEW a0 \in Nat, NEW w0 \in Nat,
         NEW b1 \in Nat, NEW s1 \in Nat, NEW r1 \in Nat, NEW a1 \in Nat, NEW w1 \in Nat,
         b0 + s0 = b + r0 + a0 + w0,
         (b1 + s1) + (r0 + a0 + w0) = (b0 + s0) + (r1 + a1 + w1)
  PROVE  b1 + s1 = b + r1 + a1 + w1
  OBVIOUS

Balanced == \A u \in Users : Calm(u, Lost) => Balances(u)

(* Owners stay, and no oddity is forgotten. *)
OwnersStay == \A i \in Ids : i < nextId => owner'[i] = owner[i] /\ odd[i] \subseteq odd'[i]

LEMMA BalancesKeep ==
  ASSUME BaseInv, BaseInv', Money, OwnersStay, before' = before, Balanced
  PROVE  Money'
  <1>1. ASSUME NEW u \in Users, Calm(u, Lost)'
        PROVE  Calm(u, Lost)
    <2> SUFFICES ASSUME NEW i \in Ids, owner[i] = u
                 PROVE  odd[i] \cap Lost = {}
      BY DEF Calm
    <2>1. u # NoUser
      BY OrderFlowConstants
    <2>2. i < nextId
      BY <2>1, PlacedOwned
    <2>3. owner'[i] = u /\ odd[i] \subseteq odd'[i]
      BY <2>2 DEF OwnersStay
    <2> QED
      BY <1>1, <2>3 DEF Calm
  <1>2. ASSUME NEW u \in Users, Calm(u, Lost)'
        PROVE  /\ Missing(cash'[u]) = Missing(before'[u])
               /\ cash'[u].blocked + Weight(req', Spent(u))
                    = before'[u].blocked + Weight(tracked', Reserved(u)) + Weight(req', Asked(u))
                        + Weight(todo', Each(Owed(u)))
    <2>1. Calm(u, Lost)
      BY <1>1, <1>2
    <2>2. /\ Missing(cash[u]) = Missing(before[u])
          /\ cash[u].blocked + Weight(req, Spent(u))
               = before[u].blocked + Weight(tracked, Reserved(u)) + Weight(req, Asked(u)) + Weight(todo, Each(Owed(u)))
      BY <2>1 DEF Money, MoneyOK
    <2>3. Balances(u)
      BY <2>1 DEF Balanced
    <2>4. TypeOK /\ TypeOK' /\ Numbers /\ Numbers'
      BY NumbersNow, NumbersNext DEF BaseInv
    <2>5. /\ Weight(tracked, Reserved(u)) \in Nat /\ Weight(req, Asked(u)) \in Nat /\ Weight(req, Spent(u)) \in Nat
          /\ Weight(todo, Each(Owed(u))) \in Nat
      BY <2>4 DEF Numbers
    <2>6. /\ Weight(tracked', Reserved(u)) \in Nat /\ Weight(req', Asked(u)) \in Nat /\ Weight(req', Spent(u)) \in Nat
          /\ Weight(todo', Each(Owed(u))) \in Nat
      BY <2>4 DEF Numbers
    <2>7. cash[u].blocked \in Nat /\ before[u].blocked \in Nat /\ cash'[u].blocked \in Nat
      BY <2>4 DEF TypeOK, Cash
    <2>8. /\ (cash'[u].blocked + Weight(req', Spent(u)))
                + (Weight(tracked, Reserved(u)) + Weight(req, Asked(u)) + Weight(todo, Each(Owed(u))))
             = (cash[u].blocked + Weight(req, Spent(u)))
                 + (Weight(tracked', Reserved(u)) + Weight(req', Asked(u)) + Weight(todo', Each(Owed(u))))
          /\ Missing(cash'[u]) = Missing(cash[u])
      BY <2>3 DEF Balances
    <2>9. PICK b, b0, s0, r0, a0, w0, b1, s1, r1, a1, w1 :
            /\ b = before[u].blocked /\ b0 = cash[u].blocked /\ b1 = cash'[u].blocked
            /\ s0 = Weight(req, Spent(u)) /\ s1 = Weight(req', Spent(u))
            /\ r0 = Weight(tracked, Reserved(u)) /\ r1 = Weight(tracked', Reserved(u))
            /\ a0 = Weight(req, Asked(u)) /\ a1 = Weight(req', Asked(u))
            /\ w0 = Weight(todo, Each(Owed(u))) /\ w1 = Weight(todo', Each(Owed(u)))
      OBVIOUS
    <2>10. /\ b \in Nat /\ b0 \in Nat /\ s0 \in Nat /\ r0 \in Nat /\ a0 \in Nat /\ w0 \in Nat
           /\ b1 \in Nat /\ s1 \in Nat /\ r1 \in Nat /\ a1 \in Nat /\ w1 \in Nat
      BY ONLY <2>5, <2>6, <2>7, <2>9
    <2>11. b0 + s0 = b + r0 + a0 + w0 /\ (b1 + s1) + (r0 + a0 + w0) = (b0 + s0) + (r1 + a1 + w1)
      BY ONLY <2>2, <2>8, <2>9
    <2>12. b1 + s1 = b + r1 + a1 + w1
      BY ONLY <2>10, <2>11, Balance
    <2>13. cash'[u].blocked + Weight(req', Spent(u))
             = before[u].blocked + Weight(tracked', Reserved(u)) + Weight(req', Asked(u)) + Weight(todo', Each(Owed(u)))
      BY ONLY <2>9, <2>12
    <2> QED
      BY <2>2, <2>8, <2>13
  <1> QED
    BY <1>2 DEF Money, MoneyOK

(* The changes of the account of user u: what is blocked, spent, reserved,   *)
(* asked and owed                                                            *)
Changes(u, b, s, r, a, w) ==
  /\ b \in Int /\ s \in Int /\ r \in Int /\ a \in Int /\ w \in Int
  /\ b + s = r + a + w
  /\ Missing(cash'[u]) = Missing(cash[u])
  /\ cash'[u].blocked = cash[u].blocked + b
  /\ Weight(req', Spent(u)) = Weight(req, Spent(u)) + s
  /\ Weight(tracked', Reserved(u)) = Weight(tracked, Reserved(u)) + r
  /\ Weight(req', Asked(u)) = Weight(req, Asked(u)) + a
  /\ Weight(todo', Each(Owed(u))) = Weight(todo, Each(Owed(u))) + w

LEMMA Settling ==
  ASSUME NEW b \in Int, NEW s \in Int, NEW r \in Int, NEW a \in Int, NEW w \in Int, b + s = r + a + w,
         NEW b0 \in Int, NEW s0 \in Int, NEW r0 \in Int, NEW a0 \in Int, NEW w0 \in Int
  PROVE  ((b0 + b) + (s0 + s)) + (r0 + a0 + w0) = (b0 + s0) + ((r0 + r) + (a0 + a) + (w0 + w))
  OBVIOUS

LEMMA Settles ==
  ASSUME TypeOK, NEW u, u \in Users, NEW b, NEW s, NEW r, NEW a, NEW w, Changes(u, b, s, r, a, w)
  PROVE  Balances(u)
  <1>1. /\ Weight(tracked, Reserved(u)) \in Nat /\ Weight(req, Asked(u)) \in Nat /\ Weight(req, Spent(u)) \in Nat
        /\ Weight(todo, Each(Owed(u))) \in Nat
    BY NumbersNow DEF Numbers
  <1>2. PICK b0, s0, r0, a0, w0 :
          /\ b0 = cash[u].blocked /\ s0 = Weight(req, Spent(u)) /\ r0 = Weight(tracked, Reserved(u))
          /\ a0 = Weight(req, Asked(u)) /\ w0 = Weight(todo, Each(Owed(u)))
    OBVIOUS
  <1>3. b0 \in Int /\ s0 \in Int /\ r0 \in Int /\ a0 \in Int /\ w0 \in Int
    <2>1. cash[u].blocked \in Nat
      BY DEF TypeOK, Cash
    <2> QED
      BY <1>1, <1>2, <2>1
  <1>4. ((b0 + b) + (s0 + s)) + (r0 + a0 + w0) = (b0 + s0) + ((r0 + r) + (a0 + a) + (w0 + w))
    <2>1. b \in Int /\ s \in Int /\ r \in Int /\ a \in Int /\ w \in Int /\ b + s = r + a + w
      BY DEF Changes
    <2> QED
      BY ONLY <1>3, <2>1, Settling
  <1>5. /\ cash'[u].blocked = b0 + b /\ Weight(req', Spent(u)) = s0 + s /\ Weight(tracked', Reserved(u)) = r0 + r
        /\ Weight(req', Asked(u)) = a0 + a /\ Weight(todo', Each(Owed(u))) = w0 + w
    BY <1>2 DEF Changes
  <1>6. (cash'[u].blocked + Weight(req', Spent(u)))
          + (Weight(tracked, Reserved(u)) + Weight(req, Asked(u)) + Weight(todo, Each(Owed(u))))
        = (cash[u].blocked + Weight(req, Spent(u)))
            + (Weight(tracked', Reserved(u)) + Weight(req', Asked(u)) + Weight(todo', Each(Owed(u))))
    BY ONLY <1>2, <1>4, <1>5
  <1> QED
    BY <1>6 DEF Balances, Changes

(* The requests change by one. *)
LEMMA SwapMoney ==
  ASSUME TypeOK, NEW r, r \in Threads, NEW x, x \in Request, req' = [req EXCEPT ![r] = x], NEW u
  PROVE  /\ Weight(req', Asked(u)) + Asked(u)[req[r]] = Weight(req, Asked(u)) + Asked(u)[x]
         /\ Weight(req', Spent(u)) + Spent(u)[req[r]] = Weight(req, Spent(u)) + Spent(u)[x]
         /\ Weight(req', Asked(u)) \in Nat /\ Weight(req, Asked(u)) \in Nat
         /\ Asked(u)[req[r]] \in Nat /\ Asked(u)[x] \in Nat
         /\ Weight(req', Spent(u)) \in Nat /\ Weight(req, Spent(u)) \in Nat
         /\ Spent(u)[req[r]] \in Nat /\ Spent(u)[x] \in Nat
  <1>1. /\ TypeOK /\ r \in Threads /\ x \in Request /\ req' = [req EXCEPT ![r] = x]
    OBVIOUS
  <1>2. \A w \in [Request -> Nat] :
          /\ Weight(req', w) + w[req[r]] = Weight(req, w) + w[x]
          /\ Weight(req', w) \in Nat /\ Weight(req, w) \in Nat /\ w[req[r]] \in Nat /\ w[x] \in Nat
    BY ONLY <1>1, ReqChanges
  <1>3. Asked(u) \in [Request -> Nat] /\ Spent(u) \in [Request -> Nat]
    BY RequestWeights
  <1> QED
    BY ONLY <1>2, <1>3

SameMoney(u, x, q) == Asked(u)[x] = Asked(u)[q] /\ Spent(u)[x] = Spent(u)[q]
LEMMA SwapBalances ==
  ASSUME TypeOK, NEW r, r \in Threads, NEW x, x \in Request, req' = [req EXCEPT ![r] = x], NEW u,
         SameMoney(u, x, req[r])
  PROVE  Weight(req', Asked(u)) = Weight(req, Asked(u)) /\ Weight(req', Spent(u)) = Weight(req, Spent(u))
  <1>1. /\ TypeOK /\ r \in Threads /\ x \in Request /\ req' = [req EXCEPT ![r] = x]
    OBVIOUS
  <1>2. /\ Weight(req', Asked(u)) + Asked(u)[req[r]] = Weight(req, Asked(u)) + Asked(u)[x]
        /\ Weight(req', Spent(u)) + Spent(u)[req[r]] = Weight(req, Spent(u)) + Spent(u)[x]
        /\ Weight(req', Asked(u)) \in Nat /\ Weight(req, Asked(u)) \in Nat /\ Asked(u)[x] \in Nat
        /\ Weight(req', Spent(u)) \in Nat /\ Weight(req, Spent(u)) \in Nat /\ Spent(u)[x] \in Nat
    BY ONLY <1>1, SwapMoney
  <1>3. Asked(u)[x] = Asked(u)[req[r]] /\ Spent(u)[x] = Spent(u)[req[r]]
    BY DEF SameMoney
  <1> QED
    BY ONLY <1>2, <1>3

(* A request without money takes the place of another. *)
Moneyless(q) == q.stage \in {"idle", "check", "market", "remove", "update"}
LEMMA MoneylessBalances ==
  ASSUME TypeOK, NEW r, r \in Threads, NEW x, x \in Request, req' = [req EXCEPT ![r] = x],
         Moneyless(x), Moneyless(req[r]), UNCHANGED <<cash, tracked, todo>>
  PROVE  Balanced
  <1> SUFFICES ASSUME NEW u \in Users
               PROVE  Balances(u)
    BY DEF Balanced
  <1>1. req[r] \in Request
    BY DEF TypeOK
  <1>2. Asked(u)[x] = 0 /\ Spent(u)[x] = 0
    BY RequestWeighs DEF Moneyless, Recorder
  <1>3. Asked(u)[req[r]] = 0 /\ Spent(u)[req[r]] = 0
    BY <1>1, RequestWeighs DEF Moneyless, Recorder
  <1>4. /\ TypeOK /\ r \in Threads /\ x \in Request /\ req' = [req EXCEPT ![r] = x]
        /\ SameMoney(u, x, req[r])
    BY <1>2, <1>3 DEF SameMoney
  <1>5. Weight(req', Asked(u)) = Weight(req, Asked(u)) /\ Weight(req', Spent(u)) = Weight(req, Spent(u))
    BY ONLY <1>4, SwapBalances
  <1> QED
    BY <1>5 DEF Balances

LEMMA ComesBalances ==
  ASSUME TypeOK, NEW r, r \in Threads, NEW x, Comes(r, x)
  PROVE  Balanced
  <1>1. /\ TypeOK /\ r \in Threads /\ x \in Request /\ req' = [req EXCEPT ![r] = x]
        /\ Moneyless(x) /\ Moneyless(req[r]) /\ UNCHANGED <<cash, tracked, todo>>
    BY DEF Comes, Idles, Moneyless
  <1> QED
    BY ONLY <1>1, MoneylessBalances

(* PlaceLimitOrder reserves the money of a buy. *)
LEMMA PlaceBalances ==
  ASSUME BaseInv, NEW r, r \in Threads, NEW v, v \in Users, NEW s, s \in Side, NEW n, n \in Quantities,
         NEW p, p \in Prices, Idle(r), PlaceLimitOrder(r, v, s, n, p),
         NEW x, x \in Request, Passes(r, x), x.stage = "limit", x.user = v, x.side = s, x.qty = n, x.price = p
  PROVE  Balanced
  <1> SUFFICES ASSUME NEW u \in Users
               PROVE  Balances(u)
    BY DEF Balanced
  <1>1. TypeOK /\ req[r] \in Request /\ req[r].stage = "idle" /\ cash \in [Users -> Cash]
    BY DEF BaseInv, TypeOK, Idle
  <1>2. p * n \in Nat
    <2>1. p \in Nat /\ n \in Nat
      BY OrderFlowConstants
    <2> QED
      BY <2>1, ProductType
  <1>3. Asked(u)[x] = (IF u = v /\ s = "buy" THEN p * n ELSE 0) /\ Spent(u)[x] = 0
    BY RequestWeighs DEF Recorder
  <1>4. Asked(u)[req[r]] = 0 /\ Spent(u)[req[r]] = 0
    BY <1>1, RequestWeighs DEF Recorder
  <1>5. TypeOK /\ r \in Threads /\ x \in Request /\ req' = [req EXCEPT ![r] = x]
    BY <1>1 DEF Passes
  <1>6. /\ Weight(req', Asked(u)) + Asked(u)[req[r]] = Weight(req, Asked(u)) + Asked(u)[x]
        /\ Weight(req', Spent(u)) + Spent(u)[req[r]] = Weight(req, Spent(u)) + Spent(u)[x]
        /\ Weight(req', Asked(u)) \in Nat /\ Weight(req, Asked(u)) \in Nat
        /\ Weight(req', Spent(u)) \in Nat /\ Weight(req, Spent(u)) \in Nat
        /\ Weight(tracked, Reserved(u)) \in Nat /\ Weight(todo, Each(Owed(u))) \in Nat
    <2>1. Weight(tracked, Reserved(u)) \in Nat /\ Weight(todo, Each(Owed(u))) \in Nat
      BY <1>1, NumbersNow DEF Numbers
    <2> QED
      BY ONLY <1>5, <2>1, SwapMoney
  <1>7. tracked' = tracked /\ todo' = todo
    BY DEF Passes
  <1>8. cash[u] \in Cash /\ cash[u].blocked \in Nat
    BY <1>1, CashIs
  <1>9. PICK m : m = p * n
    OBVIOUS
  <1>10. CASE u = v /\ s = "buy"
    <2>1. cash'[u] = Reserve(cash[u], m)
      BY <1>1, <1>9, <1>10 DEF PlaceLimitOrder, settled
    <2>2. cash'[u].blocked = cash[u].blocked + m /\ Missing(cash'[u]) = Missing(cash[u])
      <3>1. cash[u] \in Cash /\ m \in Nat
        BY <1>2, <1>8, <1>9
      <3>2. Reserve(cash[u], m).blocked = cash[u].blocked + m /\ Missing(Reserve(cash[u], m)) = Missing(cash[u])
        BY ONLY <3>1, CashIs
      <3> QED
        BY ONLY <2>1, <3>2
    <2>3. Asked(u)[x] = m /\ m \in Nat
      BY <1>2, <1>3, <1>9, <1>10
    <2>4. Changes(u, m, 0, 0, m, 0)
      <3>1. Weight(req', Asked(u)) = Weight(req, Asked(u)) + m
        BY ONLY <1>4, <1>6, <2>3
      <3>2. Weight(req', Spent(u)) = Weight(req, Spent(u)) + 0
        BY ONLY <1>3, <1>4, <1>6
      <3>3. /\ Weight(tracked', Reserved(u)) = Weight(tracked, Reserved(u)) + 0
            /\ Weight(todo', Each(Owed(u))) = Weight(todo, Each(Owed(u))) + 0
        BY ONLY <1>6, <1>7
      <3> QED
        BY ONLY <2>2, <2>3, <3>1, <3>2, <3>3 DEF Changes
    <2> QED
      BY ONLY u \in Users, <1>1, <2>4, Settles
  <1>11. CASE ~(u = v /\ s = "buy")
    <2>1. cash'[u] = cash[u]
      BY <1>1, <1>11 DEF PlaceLimitOrder, settled
    <2>2. SameMoney(u, x, req[r])
      BY <1>3, <1>4, <1>11 DEF SameMoney
    <2>3. Weight(req', Asked(u)) = Weight(req, Asked(u)) /\ Weight(req', Spent(u)) = Weight(req, Spent(u))
      BY ONLY <1>5, <2>2, SwapBalances
    <2> QED
      BY <1>7, <2>1, <2>3 DEF Balances
  <1> QED
    BY <1>10, <1>11

LEMMA NewRequestBalances ==
  ASSUME BaseInv, NEW r, r \in Threads, NewRequest(r), UNCHANGED run
  PROVE  Balanced
  <1>1. Idle(r) /\ requests < MaxRequests /\ Moneyless(req[r]) /\ TypeOK
    BY DEF NewRequest, Idle, Moneyless, BaseInv
  <1>2. ASSUME NEW x, Comes(r, x)
        PROVE  Balanced
    BY ONLY r \in Threads, <1>1, <1>2, ComesBalances
  <1>3. ASSUME NEW x, StopRequest(r, x)
        PROVE  Balanced
    BY <1>2, <1>3 DEF StopRequest
  <1>4. ASSUME NEW u, u \in Users, NEW s, s \in Side, NEW q, q \in Quantities, NEW p, p \in Prices,
               PlaceLimitOrder(r, u, s, q, p)
        PROVE  Balanced
    <2>1. PICK x \in Request : Passes(r, x) /\ x.stage = "limit" /\ x.user = u /\ x.side = s /\ x.qty = q /\ x.price = p
      BY ONLY BaseInv, r \in Threads, <1>1, <1>4, UNCHANGED run, PlaceLimitOrderPasses
    <2> QED
      BY ONLY BaseInv, r \in Threads, <1>1, <1>4, <2>1, PlaceBalances
  <1>5. ASSUME NEW u, u \in Users, NEW s, s \in Side, NEW q, q \in Quantities,
               PlaceMarketOrder(r, u, s, q) \/ PlaceInternalMarketOrder(r, u, s, q)
        PROVE  Balanced
    <2>1. PICK x \in Request : Passes(r, x) /\ x.stage \in {"check", "market"} /\ cash' = cash
      BY ONLY BaseInv, r \in Threads, <1>1, <1>5, UNCHANGED run, MarketOrderPasses
    <2>2. /\ TypeOK /\ r \in Threads /\ x \in Request /\ req' = [req EXCEPT ![r] = x]
          /\ Moneyless(x) /\ Moneyless(req[r]) /\ UNCHANGED <<cash, tracked, todo>>
      BY <1>1, <2>1 DEF Passes, Moneyless
    <2> QED
      BY ONLY <2>2, MoneylessBalances
  <1>6. PICK x : x = NoRequest
    OBVIOUS
  <1>7. ASSUME NEW s, s \in Side, NEW q, q \in Quantities, NEW limit, limit \in Prices \cup {0},
               NEW stop, stop \in Prices, AddStop(r, s, q, limit, stop)
        PROVE  Balanced
    <2>1. StopRequest(r, x)
      BY ONLY BaseInv, r \in Threads, <1>1, <1>6, <1>7, UNCHANGED run, AddStopIs
    <2> QED
      BY <1>3, <2>1
  <1>8. ASSUME NEW k, k \in DOMAIN stops, NEW q, q \in Quantities, NEW limit, limit \in Prices \cup {0},
               NEW stop, stop \in Prices, ModifyStop(r, k, q, limit, stop)
        PROVE  Balanced
    <2>1. StopRequest(r, x)
      BY ONLY BaseInv, r \in Threads, <1>1, <1>6, <1>8, UNCHANGED run, ModifyStopIs
    <2> QED
      BY <1>3, <2>1
  <1>9. ASSUME NEW k, k \in DOMAIN stops, CancelStop(r, k)
        PROVE  Balanced
    <2>1. StopRequest(r, x)
      BY ONLY BaseInv, r \in Threads, <1>1, <1>6, <1>9, UNCHANGED run, CancelStopIs
    <2> QED
      BY <1>3, <2>1
  <1>10. ASSUME NEW id, id \in Ids \cup Quotes, CancelLimit(r, id)
         PROVE  Balanced
    <2>1. PICK y : Cancels(r, id, y)
      BY ONLY BaseInv, r \in Threads, <1>1, <1>10, UNCHANGED run, CancelsIs
    <2> QED
      BY <1>2, <2>1 DEF Cancels
  <1>11. ASSUME NEW id, id \in Ids \cup Quotes, NEW q, q \in Quantities, NEW p, p \in Prices,
                ModifyLimit(r, id, q, p)
         PROVE  Balanced
    <2>1. PICK y : Modifies(r, id, y, q, p)
      BY ONLY BaseInv, r \in Threads, <1>1, <1>11, UNCHANGED run, ModifiesIs
    <2> QED
      BY <1>2, <2>1 DEF Modifies
  <1>12. ASSUME NEW u, u \in Users, GetPortfolio(r, u)
         PROVE  Balanced
    <2>1. NoRequest \in Request /\ Passes(r, NoRequest) /\ NoRequest.stage = "idle" /\ cash' = cash
      BY ONLY BaseInv, r \in Threads, <1>1, <1>12, UNCHANGED run, GetPortfolioPasses
    <2>2. /\ TypeOK /\ r \in Threads /\ NoRequest \in Request /\ req' = [req EXCEPT ![r] = NoRequest]
          /\ Moneyless(NoRequest) /\ Moneyless(req[r]) /\ UNCHANGED <<cash, tracked, todo>>
      BY <1>1, <2>1 DEF Passes, Moneyless
    <2> QED
      BY ONLY <2>2, MoneylessBalances
  <1> QED
    BY <1>4, <1>5, <1>7, <1>8, <1>9, <1>10, <1>11, <1>12 DEF NewRequest

-----------------------------------------------------------------------------
(* A handler goes on with request x, and the calls d to come: what the       *)
(* account of u has then                                                     *)
OwedGrows(u, d) ==
  /\ Weight(todo', Each(Owed(u))) = Weight(todo, Each(Owed(u))) + Weight(d, Owed(u))
  /\ Weight(d, Owed(u)) \in Nat /\ Weight(todo, Each(Owed(u))) \in Nat
ReserveMoves(u, n, m) ==
  /\ n \in Nat /\ m \in Nat /\ Weight(tracked, Reserved(u)) \in Nat /\ Weight(tracked', Reserved(u)) \in Nat
  /\ Weight(tracked', Reserved(u)) + n = Weight(tracked, Reserved(u)) + m
HandsOver(u, q, x, d, n, m) ==
  Spent(u)[x] + n + Asked(u)[q] = Spent(u)[q] + m + Asked(u)[x] + Weight(d, Owed(u))

LEMMA OwedIs ==
  ASSUME TypeOK, NEW a, a \in Actors, NEW d, d \in Seq(Call), todo' = [todo EXCEPT ![a] = d], todo[a] = <<>>, NEW u
  PROVE  OwedGrows(u, d)
  <1>1. TypeOK /\ a \in Actors /\ d \in Seq(Call) /\ todo' = [todo EXCEPT ![a] = d]
    OBVIOUS
  <1>2. \A w \in [Call -> Nat] :
          /\ Weight(todo', Each(w)) + Weight(todo[a], w) = Weight(todo, Each(w)) + Weight(d, w)
          /\ Weight(todo', Each(w)) \in Nat /\ Weight(todo, Each(w)) \in Nat /\ Weight(d, w) \in Nat
    BY ONLY <1>1, TodoChanges
  <1>3. Owed(u) \in [Call -> Nat] /\ Weight(todo[a], Owed(u)) = 0
    BY CallWeights, NoCalls
  <1>4. /\ Weight(todo', Each(Owed(u))) + Weight(todo[a], Owed(u)) = Weight(todo, Each(Owed(u))) + Weight(d, Owed(u))
        /\ Weight(todo', Each(Owed(u))) \in Nat /\ Weight(todo, Each(Owed(u))) \in Nat /\ Weight(d, Owed(u)) \in Nat
    BY ONLY <1>2, <1>3
  <1>5. Weight(todo', Each(Owed(u))) = Weight(todo, Each(Owed(u))) + Weight(d, Owed(u))
    BY ONLY <1>3, <1>4
  <1> QED
    BY ONLY <1>4, <1>5 DEF OwedGrows

LEMMA ReserveStays ==
  ASSUME TypeOK, tracked' = tracked, NEW u
  PROVE  ReserveMoves(u, 0, 0)
  <1>1. Weight(tracked, Reserved(u)) \in Nat
    BY NumbersNow DEF Numbers
  <1> QED
    BY <1>1 DEF ReserveMoves

LEMMA ReserveChanges ==
  ASSUME TypeOK, NEW i, i \in Ids, NEW x, x \in Tracked \cup {NoOrder}, tracked' = [tracked EXCEPT ![i] = x], NEW u
  PROVE  ReserveMoves(u, Reserved(u)[tracked[i]], Reserved(u)[x])
  <1>1. TypeOK /\ i \in Ids /\ x \in Tracked \cup {NoOrder} /\ tracked' = [tracked EXCEPT ![i] = x]
    OBVIOUS
  <1>2. /\ Weight(tracked', Reserved(u)) + Reserved(u)[tracked[i]] = Weight(tracked, Reserved(u)) + Reserved(u)[x]
        /\ Weight(tracked', Reserved(u)) \in Nat /\ Weight(tracked, Reserved(u)) \in Nat
        /\ Reserved(u)[tracked[i]] \in Nat /\ Reserved(u)[x] \in Nat
    BY ONLY <1>1, TrackedChanges
  <1> QED
    BY <1>2 DEF ReserveMoves

LEMMA HandingOver ==
  ASSUME NEW s0 \in Nat, NEW r0 \in Nat, NEW a0 \in Nat, NEW w0 \in Nat, NEW s1 \in Nat, NEW r1 \in Nat, NEW a1 \in Nat,
         NEW w1 \in Nat, NEW b \in Nat,
         NEW sq \in Nat, NEW sx \in Nat, NEW aq \in Nat, NEW ax \in Nat, NEW n \in Nat, NEW m \in Nat, NEW d \in Nat,
         s1 + sq = s0 + sx, a1 + aq = a0 + ax, r1 + n = r0 + m, w1 = w0 + d, sx + n + aq = sq + m + ax + d
  PROVE  (b + s1) + (r0 + a0 + w0) = (b + s0) + (r1 + a1 + w1)
  OBVIOUS

LEMMA HandlerBalances ==
  ASSUME TypeOK, NEW r, r \in Threads, NEW x, x \in Request, req' = [req EXCEPT ![r] = x], cash' = cash,
         NEW u, u \in Users, NEW d, OwedGrows(u, d), NEW n, NEW m, ReserveMoves(u, n, m),
         NEW q, q = req[r], HandsOver(u, q, x, d, n, m)
  PROVE  Balances(u)
  <1>1. TypeOK /\ r \in Threads /\ x \in Request /\ req' = [req EXCEPT ![r] = x]
    OBVIOUS
  <1>2. /\ Weight(req', Asked(u)) + Asked(u)[req[r]] = Weight(req, Asked(u)) + Asked(u)[x]
        /\ Weight(req', Spent(u)) + Spent(u)[req[r]] = Weight(req, Spent(u)) + Spent(u)[x]
        /\ Weight(req', Asked(u)) \in Nat /\ Weight(req, Asked(u)) \in Nat
        /\ Asked(u)[req[r]] \in Nat /\ Asked(u)[x] \in Nat
        /\ Weight(req', Spent(u)) \in Nat /\ Weight(req, Spent(u)) \in Nat
        /\ Spent(u)[req[r]] \in Nat /\ Spent(u)[x] \in Nat
    BY ONLY <1>1, SwapMoney
  <1>3. cash[u].blocked \in Nat
    BY DEF TypeOK, Cash
  <1>4. PICK b, s0, r0, a0, w0, s1, r1, a1, w1, sq, sx, aq, ax, e :
          /\ b = cash[u].blocked
          /\ s0 = Weight(req, Spent(u)) /\ s1 = Weight(req', Spent(u))
          /\ r0 = Weight(tracked, Reserved(u)) /\ r1 = Weight(tracked', Reserved(u))
          /\ a0 = Weight(req, Asked(u)) /\ a1 = Weight(req', Asked(u))
          /\ w0 = Weight(todo, Each(Owed(u))) /\ w1 = Weight(todo', Each(Owed(u)))
          /\ sq = Spent(u)[q] /\ sx = Spent(u)[x] /\ aq = Asked(u)[q] /\ ax = Asked(u)[x] /\ e = Weight(d, Owed(u))
    OBVIOUS
  <1>5. /\ w1 = w0 + e /\ w0 \in Nat /\ e \in Nat
    BY ONLY <1>4, OwedGrows(u, d) DEF OwedGrows
  <1>6. r1 + n = r0 + m /\ r1 \in Nat /\ r0 \in Nat /\ n \in Nat /\ m \in Nat
    BY ONLY <1>4, ReserveMoves(u, n, m) DEF ReserveMoves
  <1>7. sx + n + aq = sq + m + ax + e
    BY ONLY <1>4, HandsOver(u, q, x, d, n, m) DEF HandsOver
  <1>8. /\ s1 + sq = s0 + sx /\ a1 + aq = a0 + ax
        /\ s0 \in Nat /\ s1 \in Nat /\ sq \in Nat /\ sx \in Nat /\ a0 \in Nat /\ a1 \in Nat /\ aq \in Nat /\ ax \in Nat
        /\ b \in Nat
    BY ONLY <1>2, <1>3, <1>4, q = req[r]
  <1>9. w1 \in Nat
    BY ONLY <1>5
  <1>10. (b + s1) + (r0 + a0 + w0) = (b + s0) + (r1 + a1 + w1)
    BY ONLY <1>5, <1>6, <1>7, <1>8, <1>9, HandingOver
  <1>11. cash'[u] = cash[u]
    OBVIOUS
  <1> QED
    BY ONLY <1>4, <1>10, <1>11 DEF Balances

(* The money of a request, by its stage *)
LEMMA RequestHas ==
  ASSUME NEW q, q \in Request, NEW u
  PROVE  /\ Moneyless(q) => Asked(u)[q] = 0 /\ Spent(u)[q] = 0
         /\ q.user # u \/ q.side # "buy" => Asked(u)[q] = 0 /\ Spent(u)[q] = 0
         /\ q.stage \in {"limit", "track"} => /\ Spent(u)[q] = 0
                                              /\ q.user = u /\ q.side = "buy" => Asked(u)[q] = q.price * q.qty
         /\ Recorder(q) => /\ Asked(u)[q] = 0
                           /\ q.user = u /\ q.side = "buy" => Spent(u)[q] = Weight(q.trades, MoneyOf)
  BY RequestWeighs DEF Moneyless, Recorder

LEMMA LimitEntersBalances ==
  ASSUME BaseInv, NEW r, r \in Threads, NEW q, q = req[r], NEW x, NEW e, LimitEnters(r, q, x, e)
  PROVE  Balanced
  <1> SUFFICES ASSUME NEW u, u \in Users
               PROVE  Balances(u)
    BY DEF Balanced
  <1>1. TypeOK /\ req[r] = q
    BY DEF BaseInv
  <1>2. /\ q \in Request /\ q.stage = "limit" /\ x \in Request /\ x.stage = "track"
        /\ x.user = q.user /\ x.side = q.side /\ x.qty = q.qty /\ x.price = q.price
    BY DEF LimitEnters
  <1>3. req' = [req EXCEPT ![r] = x] /\ todo[r] = <<>> /\ todo' = [todo EXCEPT ![r] = <<>>] /\ tracked' = tracked /\ cash' = cash
    BY DEF LimitEnters, Enters
  <1>4. OwedGrows(u, <<>>)
    <2>1. r \in Actors /\ <<>> \in Seq(Call)
      BY NoCalls DEF Actors
    <2> QED
      BY ONLY <1>1, <1>3, <2>1, OwedIs
  <1>5. ReserveMoves(u, 0, 0)
    BY ONLY <1>1, <1>3, ReserveStays
  <1>6. HandsOver(u, q, x, <<>>, 0, 0)
    <2>1. Spent(u)[x] = 0 /\ Spent(u)[q] = 0 /\ Asked(u)[x] = Asked(u)[q]
      BY <1>2, RequestWeighs DEF Recorder
    <2>2. Asked(u)[q] \in Nat /\ Weight(<<>>, Owed(u)) = 0
      BY <1>2, RequestWeights, NoCalls
    <2> QED
      BY ONLY <2>1, <2>2 DEF HandsOver
  <1> QED
    BY ONLY r \in Threads, u \in Users, <1>1, <1>2, <1>3, <1>4, <1>5, <1>6, HandlerBalances

LEMMA RefusesBalances ==
  ASSUME BaseInv, NEW r, r \in Threads, NEW q, q = req[r], NEW d, RefusesAs(r, q, d)
  PROVE  Balanced
  <1> SUFFICES ASSUME NEW u, u \in Users
               PROVE  Balances(u)
    BY DEF Balanced
  <1>1. TypeOK /\ req[r] = q
    BY DEF BaseInv
  <1>2. PICK x : x = NoRequest
    OBVIOUS
  <1>3. /\ q \in Request /\ q.stage = "limit" /\ q.user \in Users /\ q.price * q.qty \in Nat
        /\ d \in Seq(Call) /\ d = IF q.side = "sell" THEN <<>> ELSE ReleaseCall(q.user, q.price * q.qty)
    BY DEF RefusesAs
  <1>4. req' = [req EXCEPT ![r] = x] /\ todo[r] = <<>> /\ todo' = [todo EXCEPT ![r] = d] /\ tracked' = tracked /\ cash' = cash
    BY <1>2 DEF RefusesAs
  <1>5. x \in Request /\ Spent(u)[x] = 0 /\ Asked(u)[x] = 0
    BY <1>2, NoRequestIs, IdleWeighs
  <1>6. OwedGrows(u, d)
    <2>1. r \in Actors
      BY DEF Actors
    <2> QED
      BY ONLY <1>1, <1>3, <1>4, <2>1, OwedIs
  <1>7. ReserveMoves(u, 0, 0)
    BY ONLY <1>1, <1>4, ReserveStays
  <1>8. Spent(u)[q] = 0 /\ Asked(u)[q] = Weight(d, Owed(u)) /\ Asked(u)[q] \in Nat
    <2>1. Spent(u)[q] = 0 /\ Asked(u)[q] = IF q.user = u /\ q.side = "buy" THEN q.price * q.qty ELSE 0
      BY <1>3, RequestWeighs DEF Recorder
    <2>2. CASE q.side = "sell"
      BY <1>3, <2>1, <2>2, NoCalls
    <2>3. CASE q.side # "sell"
      <3>1. q.side = "buy"
        BY <1>3, <2>3 DEF Request, Side
      <3>2. Weight(d, Owed(u)) = IF u = q.user THEN q.price * q.qty ELSE 0
        BY <1>3, <2>3, ReleaseCallIs
      <3> QED
        BY <1>3, <2>1, <3>1, <3>2
    <2> QED
      BY <2>2, <2>3
  <1>9. HandsOver(u, q, x, d, 0, 0)
    BY ONLY <1>5, <1>8 DEF HandsOver
  <1> QED
    BY ONLY r \in Threads, u \in Users, <1>1, <1>4, <1>5, <1>6, <1>7, <1>9, HandlerBalances

LEMMA MarketEntersBalances ==
  ASSUME BaseInv, NEW r, r \in Threads, NEW q, q = req[r], NEW d, NEW e, MarketEnters(r, q, d, e)
  PROVE  Balanced
  <1> SUFFICES ASSUME NEW u, u \in Users
               PROVE  Balances(u)
    BY DEF Balanced
  <1>1. TypeOK /\ req[r] = q
    BY DEF BaseInv
  <1>2. PICK x : x = NoRequest
    OBVIOUS
  <1>3. q \in Request /\ q.stage = "market" /\ d \in Seq(Call) /\ Weight(d, Owed(u)) = 0
    BY DEF MarketEnters, FillsOf
  <1>4. req' = [req EXCEPT ![r] = x] /\ todo[r] = <<>> /\ todo' = [todo EXCEPT ![r] = d] /\ tracked' = tracked /\ cash' = cash
    BY <1>2 DEF MarketEnters, Enters
  <1>5. x \in Request /\ Spent(u)[x] = 0 /\ Asked(u)[x] = 0
    BY <1>2, NoRequestIs, IdleWeighs
  <1>6. OwedGrows(u, d)
    <2>1. r \in Actors
      BY DEF Actors
    <2> QED
      BY ONLY <1>1, <1>3, <1>4, <2>1, OwedIs
  <1>7. ReserveMoves(u, 0, 0)
    BY ONLY <1>1, <1>4, ReserveStays
  <1>8. Spent(u)[q] = 0 /\ Asked(u)[q] = 0
    BY <1>3, RequestHas DEF Moneyless
  <1>9. HandsOver(u, q, x, d, 0, 0)
    BY ONLY <1>3, <1>5, <1>8 DEF HandsOver
  <1> QED
    BY ONLY r \in Threads, u \in Users, <1>1, <1>4, <1>5, <1>6, <1>7, <1>9, HandlerBalances

LEMMA WaitsBalances ==
  ASSUME BaseInv, NEW r, r \in Threads, Waits(r), UNCHANGED run
  PROVE  Balanced
  <1>1. PICK q : q = req[r]
    OBVIOUS
  <1>2. CASE AddLimitAutoID(r)
    <2>1. PICK x, e : LimitEnters(r, q, x, e)
      BY ONLY BaseInv, r \in Threads, <1>1, <1>2, UNCHANGED run, LimitEntersIs
    <2> QED
      BY ONLY BaseInv, r \in Threads, <1>1, <2>1, LimitEntersBalances
  <1>3. CASE EngineRefuses(r)
    <2>1. PICK d : RefusesAs(r, q, d)
      BY ONLY BaseInv, r \in Threads, <1>1, <1>3, UNCHANGED run, RefusesIs
    <2> QED
      BY ONLY BaseInv, r \in Threads, <1>1, <2>1, RefusesBalances
  <1>4. CASE MarketAutoID(r)
    <2>1. PICK d, e : MarketEnters(r, q, d, e)
      BY ONLY BaseInv, r \in Threads, <1>1, <1>4, UNCHANGED run, MarketEntersIs
    <2> QED
      BY ONLY BaseInv, r \in Threads, <1>1, <2>1, MarketEntersBalances
  <1> QED
    BY <1>2, <1>3, <1>4 DEF Waits

LEMMA TrackBalances ==
  ASSUME BaseInv, Intact, NEW r, r \in Threads, NEW q, q = req[r], NEW x, NEW d, NEW o, TracksAs(r, q, x, d, o)
  PROVE  Balanced
  <1> SUFFICES ASSUME NEW u, u \in Users
               PROVE  Balances(u)
    BY DEF Balanced
  <1>1. TypeOK /\ req[r] = q
    BY DEF BaseInv
  <1>2. /\ q \in Request /\ q.stage = "track" /\ q.id \in Ids /\ q.price * q.qty \in Nat
        /\ x \in Request /\ d \in Seq(Call) /\ o \in Tracked
        /\ o.user = q.user /\ o.reserve = (IF q.side = "buy" THEN q.price * q.qty ELSE 0)
    BY DEF TracksAs
  <1>3. /\ req' = [req EXCEPT ![r] = x] /\ todo[r] = <<>> /\ todo' = [todo EXCEPT ![r] = d]
        /\ tracked' = [tracked EXCEPT ![q.id] = o] /\ cash' = cash
    BY DEF TracksAs, GoesTo
  <1>4. OwedGrows(u, d)
    <2>1. r \in Actors
      BY DEF Actors
    <2> QED
      BY ONLY <1>1, <1>2, <1>3, <2>1, OwedIs
  <1>5. PICK n, m : n = Reserved(u)[tracked[q.id]] /\ m = Reserved(u)[o]
    OBVIOUS
  <1>6. ReserveMoves(u, n, m)
    <2>1. o \in Tracked \cup {NoOrder}
      BY <1>2
    <2> QED
      BY ONLY <1>1, <1>2, <1>3, <1>5, <2>1, ReserveChanges
  <1>7. n = 0 /\ m = (IF q.user = u /\ q.side = "buy" THEN q.price * q.qty ELSE 0)
    <2>1. tracked[q.id] = NoOrder
      BY <1>1, <1>2 DEF Intact, Structure, NotYet
    <2>2. NoOrder \in Tracked \cup {NoOrder} /\ o \in Tracked \cup {NoOrder} /\ o # NoOrder
      BY <1>2, NoOrderIsNone
    <2> QED
      BY <1>2, <1>5, <2>1, <2>2, ReservedIs
  <1>8. Asked(u)[q] = m /\ Spent(u)[q] = 0 /\ Asked(u)[x] = 0 /\ Spent(u)[x] = Weight(d, Owed(u))
    <2>1. Asked(u)[q] = m /\ Spent(u)[q] = 0
      BY <1>2, <1>7, RequestWeighs DEF Recorder
    <2>2. Weight(d, Owed(u)) = IF u = q.user /\ q.side = "buy" THEN Weight(q.trades, MoneyOf) ELSE 0
      BY DEF TracksAs, FillsOf
    <2>3. CASE q.trades = <<>> /\ x = NoRequest
      <3>1. Weight(q.trades, MoneyOf) = 0
        BY <2>3, NoCalls
      <3>2. Asked(u)[x] = 0 /\ Spent(u)[x] = 0
        BY <2>3, NoRequestIs, IdleWeighs
      <3> QED
        BY <2>1, <2>2, <3>1, <3>2
    <2>4. CASE /\ q.trades # <<>> /\ x.stage = "record"
               /\ x.user = q.user /\ x.side = q.side /\ x.qty = q.qty /\ x.price = q.price
               /\ x.id = q.id /\ x.trades = q.trades
      BY <1>2, <2>1, <2>2, <2>4, RequestWeighs DEF Recorder
    <2> QED
      BY <2>3, <2>4 DEF TracksAs
  <1>9. HandsOver(u, q, x, d, n, m)
    <2>1. m \in Nat /\ Weight(d, Owed(u)) \in Nat
      BY <1>4, <1>6 DEF OwedGrows, ReserveMoves
    <2> QED
      BY ONLY <1>7, <1>8, <2>1 DEF HandsOver
  <1> QED
    BY ONLY r \in Threads, u \in Users, <1>1, <1>2, <1>3, <1>4, <1>6, <1>9, HandlerBalances

LEMMA RemovesBalances ==
  ASSUME BaseInv, NEW r, r \in Threads, NEW q, q = req[r], NEW d, RemovesAs(r, q, d)
  PROVE  Balanced
  <1> SUFFICES ASSUME NEW u, u \in Users
               PROVE  Balances(u)
    BY DEF Balanced
  <1>1. TypeOK /\ req[r] = q
    BY DEF BaseInv
  <1>2. PICK x : x = NoRequest
    OBVIOUS
  <1>3. q \in Request /\ q.stage = "remove" /\ d \in Seq(Call) /\ x \in Request
    BY <1>2, NoRequestIs DEF RemovesAs
  <1>4. req' = [req EXCEPT ![r] = x] /\ todo[r] = <<>> /\ todo' = [todo EXCEPT ![r] = d] /\ cash' = cash
    BY <1>2 DEF RemovesAs, GoesTo
  <1>5. Spent(u)[x] = 0 /\ Asked(u)[x] = 0 /\ Spent(u)[q] = 0 /\ Asked(u)[q] = 0
    BY <1>2, <1>3, NoRequestIs, IdleWeighs DEF Idles
  <1>6. OwedGrows(u, d)
    <2>1. r \in Actors
      BY DEF Actors
    <2> QED
      BY ONLY <1>1, <1>3, <1>4, <2>1, OwedIs
  <1>7. CASE tracked' = tracked /\ d = <<>>
    <2>1. ReserveMoves(u, 0, 0)
      BY ONLY <1>1, <1>7, ReserveStays
    <2>2. Weight(d, Owed(u)) = 0
      BY <1>7, NoCalls
    <2>3. HandsOver(u, q, x, d, 0, 0)
      BY ONLY <1>5, <2>2 DEF HandsOver
    <2> QED
      BY ONLY r \in Threads, u \in Users, <1>1, <1>3, <1>4, <1>6, <2>1, <2>3, HandlerBalances
  <1>8. CASE /\ q.id \in Ids /\ tracked[q.id] # NoOrder /\ tracked[q.id] \in Tracked
             /\ tracked' = [tracked EXCEPT ![q.id] = NoOrder]
             /\ d = ReleaseCall(tracked[q.id].user, tracked[q.id].reserve)
    <2>1. NoOrder \in Tracked \cup {NoOrder} /\ tracked[q.id] \in Tracked \cup {NoOrder}
      BY <1>8
    <2>2. PICK n, m : n = Reserved(u)[tracked[q.id]] /\ m = Reserved(u)[NoOrder]
      OBVIOUS
    <2>3. ReserveMoves(u, n, m)
      BY ONLY <1>1, <1>8, <2>1, <2>2, ReserveChanges
    <2>4. m = 0 /\ n = IF tracked[q.id].user = u THEN tracked[q.id].reserve ELSE 0
      BY <1>8, <2>1, <2>2, ReservedIs
    <2>5. Weight(d, Owed(u)) = IF u = tracked[q.id].user THEN tracked[q.id].reserve ELSE 0
      <3>1. tracked[q.id].user \in Users /\ tracked[q.id].reserve \in Nat
        BY <1>8 DEF Tracked
      <3> QED
        BY <1>8, <3>1, ReleaseCallIs
    <2>6. Weight(d, Owed(u)) = n /\ n \in Nat
      BY <2>3, <2>4, <2>5 DEF ReserveMoves
    <2>7. HandsOver(u, q, x, d, n, m)
      BY ONLY <1>5, <2>4, <2>6 DEF HandsOver
    <2> QED
      BY ONLY r \in Threads, u \in Users, <1>1, <1>3, <1>4, <1>6, <2>3, <2>7, HandlerBalances
  <1> QED
    BY <1>7, <1>8 DEF RemovesAs

LEMMA UpdatesBalances ==
  ASSUME BaseInv, NEW r, r \in Threads, NEW q, q = req[r], UpdatesAs(r, q)
  PROVE  Balanced
  <1> SUFFICES ASSUME NEW u, u \in Users
               PROVE  Balances(u)
    BY DEF Balanced
  <1>1. TypeOK /\ req[r] = q
    BY DEF BaseInv
  <1>2. PICK x, d : x = NoRequest /\ d = <<>>
    OBVIOUS
  <1>3. q \in Request /\ q.stage = "update" /\ d \in Seq(Call) /\ x \in Request /\ Weight(d, Owed(u)) = 0
    BY <1>2, NoRequestIs, NoCalls DEF UpdatesAs
  <1>4. req' = [req EXCEPT ![r] = x] /\ todo[r] = <<>> /\ todo' = [todo EXCEPT ![r] = d] /\ cash' = cash
    BY <1>2 DEF UpdatesAs, GoesTo
  <1>5. Spent(u)[x] = 0 /\ Asked(u)[x] = 0 /\ Spent(u)[q] = 0 /\ Asked(u)[q] = 0
    BY <1>2, <1>3, NoRequestIs, IdleWeighs DEF Idles
  <1>6. OwedGrows(u, d)
    <2>1. r \in Actors
      BY DEF Actors
    <2> QED
      BY ONLY <1>1, <1>3, <1>4, <2>1, OwedIs
  <1>7. PICK n \in Nat : ReserveMoves(u, n, n)
    <2>1. CASE tracked' = tracked
      <3>1. ReserveMoves(u, 0, 0)
        BY ONLY <1>1, <2>1, ReserveStays
      <3> QED
        BY <3>1
    <2>2. ASSUME NEW k \in Tracked, q.id \in Ids, tracked[q.id] # NoOrder, tracked[q.id] \in Tracked,
                 tracked' = [tracked EXCEPT ![q.id] = k],
                 k.user = tracked[q.id].user, k.reserve = tracked[q.id].reserve
          PROVE  \E n \in Nat : ReserveMoves(u, n, n)
      <3>1. k \in Tracked \cup {NoOrder} /\ tracked[q.id] \in Tracked \cup {NoOrder} /\ k # NoOrder
        BY <2>2, NoOrderIsNone
      <3>2. ReserveMoves(u, Reserved(u)[tracked[q.id]], Reserved(u)[k])
        BY ONLY <1>1, <2>2, <3>1, ReserveChanges
      <3>3. Reserved(u)[k] = Reserved(u)[tracked[q.id]]
        BY <2>2, <3>1, ReservedIs
      <3> QED
        BY <3>2, <3>3 DEF ReserveMoves
    <2> QED
      BY <2>1, <2>2 DEF UpdatesAs
  <1>8. HandsOver(u, q, x, d, n, n)
    BY ONLY <1>3, <1>5, <1>7 DEF HandsOver
  <1> QED
    BY ONLY r \in Threads, u \in Users, <1>1, <1>3, <1>4, <1>6, <1>7, <1>8, HandlerBalances

(* RecordPlacementTrades, of another user's order and of the user's own      *)
RecordsInto(q, x, d, new) ==
  /\ tracked[q.id] # NoOrder => new \in Tracked /\ new.user = tracked[q.id].user
  /\ Forgets(q, x, d) \/ Records1(q, x, d, new) \/ Completes(q, x, d, new)
LEMMA RecordsNothingOf ==
  ASSUME BaseInv, NEW r, r \in Threads, NEW q, q = req[r], NEW t, NEW x, NEW d, NEW new, RecordsAs(r, q, t, x, d),
         RecordsInto(q, x, d, new), NEW u, u # q.user
  PROVE  ReserveMoves(u, 0, 0) /\ HandsOver(u, q, x, d, 0, 0)
  <1> SUFFICES /\ Asked(u)[q] = 0 /\ Asked(u)[x] = 0 /\ Spent(u)[q] = 0 /\ Spent(u)[x] = 0 /\ Weight(d, Owed(u)) = 0
               /\ ReserveMoves(u, 0, 0)
    BY DEF HandsOver
  <1>1. /\ q \in Request /\ q.id \in Ids /\ owner[q.id] = q.user /\ q.user \in Users /\ x \in Request /\ d \in Seq(Call)
        /\ x = NoRequest \/ x.user = q.user
        /\ TypeOK /\ OwnersKnown /\ tracked \in [Ids -> Tracked \cup {NoOrder}]
    BY DEF RecordsAs, RecordsInto, Forgets, Records1, Completes, Rests, BaseInv, TypeOK
  <1>2. Asked(u)[q] = 0 /\ Spent(u)[q] = 0
    BY <1>1, RequestHas
  <1>3. Asked(u)[x] = 0 /\ Spent(u)[x] = 0
    <2>1. CASE x = NoRequest
      BY <2>1, NoRequestIs, IdleWeighs
    <2>2. CASE x.user = q.user
      BY <1>1, <2>2, RequestHas
    <2> QED
      BY <1>1, <2>1, <2>2
  <1>4. CASE Forgets(q, x, d)
    <2>1. tracked' = tracked /\ d = <<>>
      BY <1>4 DEF Forgets
    <2>2. ReserveMoves(u, 0, 0)
      BY ONLY <1>1, <2>1, ReserveStays
    <2> QED
      BY <1>2, <1>3, <2>1, <2>2, NoCalls
  <1>5. CASE Records1(q, x, d, new) \/ Completes(q, x, d, new)
    <2>1. PICK k : k \in {new, NoOrder} /\ tracked' = [tracked EXCEPT ![q.id] = k]
      BY <1>5 DEF Records1, Completes
    <2>2. /\ tracked[q.id] # NoOrder /\ new \in Tracked /\ new.user = tracked[q.id].user
          /\ d = <<>> \/ d = ReleaseCall(q.user, new.reserve)
      BY <1>5 DEF RecordsInto, Records1, Completes
    <2>3. new.user = q.user
      BY <1>1, <2>2 DEF OwnersKnown
    <2>4. k \in Tracked \cup {NoOrder} /\ tracked[q.id] \in Tracked \cup {NoOrder}
      BY <1>1, <2>1, <2>2
    <2>5. ReserveMoves(u, Reserved(u)[tracked[q.id]], Reserved(u)[k])
      BY ONLY <1>1, <2>1, <2>4, ReserveChanges
    <2>6. Reserved(u)[tracked[q.id]] = 0 /\ Reserved(u)[k] = 0
      <3>1. Reserved(u)[tracked[q.id]] = 0
        BY <2>2, <2>3, <2>4, ReservedIs
      <3>2. CASE k = NoOrder
        BY <2>4, <3>1, <3>2, ReservedIs
      <3>3. CASE k = new
        BY <2>2, <2>3, <2>4, <3>1, <3>3, ReservedIs
      <3> QED
        BY <2>1, <3>2, <3>3
    <2>7. Weight(d, Owed(u)) = 0
      <3>1. new.reserve \in Nat
        BY <2>2 DEF Tracked
      <3> QED
        BY <1>1, <2>2, <3>1, NoCalls, ReleaseCallIs
    <2> QED
      BY <1>2, <1>3, <2>5, <2>6, <2>7
  <1> QED
    BY <1>4, <1>5 DEF RecordsInto

LEMMA RecordsOwn ==
  ASSUME BaseInv, Intact, NEW r, r \in Threads, NEW q, q = req[r], NEW t, NEW x, NEW d, NEW new, RecordsAs(r, q, t, x, d),
         new = IF q.id \in {t.maker, t.taker} THEN AfterTrade(tracked[q.id], t) ELSE tracked[q.id],
         Forgets(q, x, d) \/ Records1(q, x, d, new) \/ Completes(q, x, d, new),
         NEW u, u \in Users, Calm(u, Lost), u = q.user
  PROVE  \E n, m : ReserveMoves(u, n, m) /\ HandsOver(u, q, x, d, n, m)
  <1>1. /\ q \in Request /\ Recorder(q) /\ Placed(q) /\ q.id \in Ids /\ owner[q.id] = q.user /\ x \in Request
        /\ d \in Seq(Call) /\ t = Head(q.trades) /\ t \in Fill /\ q.trades \in Seq(Fill) /\ q.trades # <<>>
        /\ TypeOK /\ Structure /\ OwnersKnown /\ tracked \in [Ids -> Tracked \cup {NoOrder}]
    BY DEF RecordsAs, BaseInv, TypeOK, Intact, Placed, Recorder
  <1>2. PICK i, o, ts : i = q.id /\ o = tracked[q.id] /\ ts = Tail(q.trades)
    OBVIOUS
  <1>3. i \in Ids /\ Covered(i) /\ Sound(i)
    BY <1>1, <1>2 DEF Intact, AllCovered, Calm, Sound
  <1>4. RecordsExactly(i, t, o, new)
    <2>1. RecordsExactly(i, t, tracked[i], new)
      BY ONLY BaseInv, <1>1, <1>2, <1>3, r \in Threads, q = req[r], RecordsAs(r, q, t, x, d),
              new = IF q.id \in {t.maker, t.taker} THEN AfterTrade(tracked[q.id], t) ELSE tracked[q.id], SoundRecords
    <2> QED
      BY <1>2, <2>1
  <1>5. /\ odd[i] = {} /\ o \in Tracked /\ new \in Tracked /\ o # NoOrder
        /\ new.filled = o.filled + t.qty /\ new.qty = o.qty /\ new.user = o.user
        /\ o.reserve = new.reserve + (IF o.side = "buy" THEN t.price * t.qty ELSE 0)
    BY <1>4, SMTT(30) DEF RecordsExactly
  <1>6. o.side = q.side /\ o.user = u
    BY <1>1, <1>2, <1>5 DEF Structure, RecordSides, OwnersKnown
  <1>7. /\ Weight(q.trades, MoneyOf) = t.price * t.qty + Weight(ts, MoneyOf)
        /\ Weight(q.trades, SharesOf) = t.qty + Weight(ts, SharesOf)
        /\ ts \in Seq(Fill) /\ t.price * t.qty \in Nat /\ Weight(ts, MoneyOf) \in Nat
        /\ t.qty \in Nat /\ Weight(ts, SharesOf) \in Nat
    <2>1. SharesOf[t] = t.qty /\ MoneyOf[t] = t.price * t.qty
      BY <1>1, SMTT(30) DEF SharesOf, MoneyOf
    <2>2. /\ Tail(q.trades) \in Seq(Fill)
          /\ \A w \in [Fill -> Nat] : /\ Weight(q.trades, w) = w[Head(q.trades)] + Weight(Tail(q.trades), w)
                                      /\ w[Head(q.trades)] \in Nat /\ Weight(Tail(q.trades), w) \in Nat
      BY <1>1, TradesWeigh
    <2>3. /\ Weight(q.trades, MoneyOf) = MoneyOf[t] + Weight(ts, MoneyOf) /\ MoneyOf[t] \in Nat /\ Weight(ts, MoneyOf) \in Nat
          /\ Weight(q.trades, SharesOf) = SharesOf[t] + Weight(ts, SharesOf) /\ SharesOf[t] \in Nat /\ Weight(ts, SharesOf) \in Nat
      BY ONLY <1>1, <1>2, <2>2, FillWeights
    <2> QED
      BY ONLY <1>2, <2>1, <2>2, <2>3
  <1>8. Asked(u)[q] = 0 /\ Spent(u)[q] = IF q.side = "buy" THEN t.price * t.qty + Weight(ts, MoneyOf) ELSE 0
    BY <1>1, <1>7, RequestWeighs DEF Recorder
  <1>9. PICK c : c = IF o.side = "buy" THEN t.price * t.qty ELSE 0
    OBVIOUS
  <1>10. PICK e : e = IF o.side = "buy" THEN Weight(ts, MoneyOf) ELSE 0
    OBVIOUS
  <1>11. PICK a, b : a = o.reserve /\ b = new.reserve
    OBVIOUS
  <1>12. a \in Nat /\ b \in Nat /\ c \in Nat /\ e \in Nat /\ a = b + c /\ Spent(u)[q] = c + e
    <2>1. a \in Nat /\ b \in Nat
      BY <1>5, <1>11 DEF Tracked
    <2>2. c \in Nat /\ e \in Nat
      BY <1>7, <1>9, <1>10
    <2>3. a = b + c
      BY ONLY <1>5, <1>9, <1>11
    <2>4. Spent(u)[q] = c + e
      <3>1. CASE o.side = "buy"
        BY ONLY <1>6, <1>8, <1>9, <1>10, <3>1
      <3>2. CASE o.side # "buy"
        BY ONLY <1>6, <1>8, <1>9, <1>10, <3>2
      <3> QED
        BY <3>1, <3>2
    <2> QED
      BY <2>1, <2>2, <2>3, <2>4, SMTT(30)
  <1>13. ~Forgets(q, x, d)
    BY <1>2, <1>5 DEF Forgets
  <1>14. Reserved(u)[tracked[q.id]] = a /\ Reserved(u)[new] = b /\ Reserved(u)[NoOrder] = 0
    <2>1. o \in Tracked \cup {NoOrder} /\ new \in Tracked \cup {NoOrder} /\ NoOrder \in Tracked \cup {NoOrder} /\ new # NoOrder
      BY <1>5, NoOrderIsNone
    <2> QED
      <3>1. Reserved(u)[NoOrder] = 0
        BY <2>1, ReservedIs
      <3>2. Reserved(u)[o] = o.reserve
        BY ONLY <1>5, <1>6, <2>1, ReservedIs
      <3>3. Reserved(u)[new] = new.reserve
        BY ONLY <1>5, <1>6, <2>1, ReservedIs
      <3> QED
        BY ONLY <1>2, <1>11, <3>1, <3>2, <3>3
  <1>15. CASE Records1(q, x, d, new)
    <2>1. Rests(q, x) /\ d = <<>> /\ tracked' = [tracked EXCEPT ![q.id] = new]
      BY <1>15 DEF Records1
    <2>2. ReserveMoves(u, a, b)
      <3>1. new \in Tracked \cup {NoOrder}
        BY <1>5
      <3>2. ReserveMoves(u, Reserved(u)[tracked[q.id]], Reserved(u)[new])
        BY ONLY <1>1, <2>1, <3>1, ReserveChanges
      <3> QED
        BY ONLY <1>14, <3>2
    <2>3. Asked(u)[x] = 0 /\ Spent(u)[x] = e
      <3>1. CASE x = NoRequest /\ Tail(q.trades) = <<>>
        <4>1. Asked(u)[x] = 0 /\ Spent(u)[x] = 0
          BY <3>1, NoRequestIs, IdleWeighs
        <4>2. e = 0
          BY <1>2, <1>10, <3>1, NoCalls
        <4> QED
          BY <4>1, <4>2
      <3>2. CASE /\ x.stage = "recording" /\ Tail(q.trades) # <<>>
                 /\ x.user = q.user /\ x.side = q.side /\ x.qty = q.qty /\ x.price = q.price
                 /\ x.id = q.id /\ x.trades = Tail(q.trades)
        BY <1>1, <1>2, <1>6, <1>10, <3>2, RequestWeighs DEF Recorder
      <3> QED
        BY <2>1, <3>1, <3>2 DEF Rests
    <2>4. Weight(d, Owed(u)) = 0
      BY <2>1, NoCalls
    <2>5. HandsOver(u, q, x, d, a, b)
      BY ONLY <1>8, <1>12, <2>3, <2>4 DEF HandsOver
    <2> QED
      BY <2>2, <2>5
  <1>16. CASE Completes(q, x, d, new)
    <2>1. /\ Completed(o, new) /\ x = NoRequest /\ d = ReleaseCall(q.user, new.reserve)
          /\ tracked' = [tracked EXCEPT ![q.id] = NoOrder]
      BY <1>2, <1>16 DEF Completes
    <2>2. ReserveMoves(u, a, 0)
      <3>1. NoOrder \in Tracked \cup {NoOrder}
        OBVIOUS
      <3>2. ReserveMoves(u, Reserved(u)[tracked[q.id]], Reserved(u)[NoOrder])
        BY ONLY <1>1, <2>1, <3>1, ReserveChanges
      <3> QED
        BY ONLY <1>14, <3>2
    <2>3. Asked(u)[x] = 0 /\ Spent(u)[x] = 0
      BY <2>1, NoRequestIs, IdleWeighs
    <2>4. Weight(d, Owed(u)) = b
      <3>1. q.user \in Users /\ b \in Nat
        BY <1>12
      <3>2. Weight(ReleaseCall(q.user, b), Owed(u)) = IF u = q.user THEN b ELSE 0
        BY ONLY <3>1, ReleaseCallIs
      <3>3. ReleaseCall(q.user, new.reserve) = ReleaseCall(q.user, b)
        BY ONLY <1>11
      <3> QED
        BY <2>1, <3>2, <3>3
    <2>5. Weight(ts, SharesOf) = 0
      <3>1. SharesCovered(i)
        BY <1>2, <1>3, <1>5 DEF Covered
      <3>2. o.filled + Open(i) + Made(i) + Weight(req, RecShares(i)) <= o.qty
        BY <1>2, <3>1 DEF SharesCovered
      <3>3. RecShares(i)[req[r]] <= Weight(req, RecShares(i))
        <4>1. RecShares(i) \in [Request -> Nat] /\ req \in [Threads -> Request]
          BY <1>1, RequestWeights DEF TypeOK
        <4> QED
          BY <4>1, FiniteSets, PartOfWeight
      <3>4. RecShares(i)[req[r]] = t.qty + Weight(ts, SharesOf)
        BY <1>1, <1>2, <1>7, RequestWeighs, SMTT(30)
      <3>5. new.filled >= new.qty
        BY <2>1, SMTT(30) DEF Completed
      <3>6. /\ Open(i) \in Nat /\ Made(i) \in Nat /\ Weight(req, RecShares(i)) \in Nat
            /\ o.filled \in Nat /\ o.qty \in Nat
        BY <1>1, <1>5, NumbersAreNat DEF Tracked
      <3>7. PICK f, g, h, k, l, m, n :
              /\ f = o.filled /\ g = Open(i) /\ h = Made(i) /\ k = Weight(req, RecShares(i)) /\ l = o.qty
              /\ m = Weight(ts, SharesOf) /\ n = t.qty
        OBVIOUS
      <3>8. /\ f \in Nat /\ g \in Nat /\ h \in Nat /\ k \in Nat /\ l \in Nat /\ m \in Nat /\ n \in Nat
            /\ f + g + h + k <= l /\ n + m <= k
        BY ONLY <1>7, <3>2, <3>3, <3>4, <3>6, <3>7
      <3>9. f + n >= l
        BY ONLY <1>5, <3>5, <3>7
      <3>10. m = 0
        BY ONLY <3>8, <3>9
      <3> QED
        BY ONLY <3>7, <3>10
    <2>6. e = 0
      <3>1. Weight(ts, MoneyOf) = 0
        <4>1. \A y \in Fill : SharesOf[y] = 0 => MoneyOf[y] = 0
          BY DEF SharesOf, Fill
        <4>2. SharesOf \in [Fill -> Nat] /\ MoneyOf \in [Fill -> Nat] /\ ts \in Seq(Fill)
          BY <1>7, FillWeights
        <4> QED
          BY ONLY <2>5, <4>1, <4>2, WeightVanishes
      <3> QED
        BY <1>10, <3>1
    <2>7. HandsOver(u, q, x, d, a, 0)
      BY ONLY <1>8, <1>12, <2>3, <2>4, <2>6 DEF HandsOver
    <2> QED
      BY <2>2, <2>7, SMTT(30)
  <1> QED
    BY <1>13, <1>15, <1>16

LEMMA RecordBalances ==
  ASSUME BaseInv, Intact, NEW r, r \in Threads, RecordPlacementTrades(r), UNCHANGED run
  PROVE  Balanced
  <1> SUFFICES ASSUME NEW u, u \in Users, Calm(u, Lost)
               PROVE  Balances(u)
    BY DEF Balanced
  <1>1. PICK q, t, x, d, new :
          /\ q = req[r] /\ RecordsAs(r, q, t, x, d)
          /\ new = IF q.id \in {t.maker, t.taker} THEN AfterTrade(tracked[q.id], t) ELSE tracked[q.id]
          /\ tracked[q.id] # NoOrder => new \in Tracked /\ new.user = tracked[q.id].user
          /\ Forgets(q, x, d) \/ Records1(q, x, d, new) \/ Completes(q, x, d, new)
    BY ONLY BaseInv, r \in Threads, RecordPlacementTrades(r), UNCHANGED run, RecordIs
  <1>2. TypeOK /\ x \in Request /\ d \in Seq(Call)
    BY <1>1 DEF BaseInv, RecordsAs
  <1>3. req' = [req EXCEPT ![r] = x] /\ todo[r] = <<>> /\ todo' = [todo EXCEPT ![r] = d] /\ cash' = cash
    BY <1>1 DEF RecordsAs, GoesTo
  <1>4. OwedGrows(u, d)
    <2>1. r \in Actors
      BY DEF Actors
    <2> QED
      BY ONLY <1>2, <1>3, <2>1, OwedIs
  <1>5. PICK n, m : ReserveMoves(u, n, m) /\ HandsOver(u, q, x, d, n, m)
    <2>1. CASE u = q.user
      BY ONLY BaseInv, Intact, r \in Threads, u \in Users, Calm(u, Lost), <1>1, <2>1, RecordsOwn
    <2>2. CASE u # q.user
      <3>1. RecordsInto(q, x, d, new) /\ RecordsAs(r, q, t, x, d) /\ q = req[r]
        BY <1>1 DEF RecordsInto
      <3>2. ReserveMoves(u, 0, 0) /\ HandsOver(u, q, x, d, 0, 0)
        BY ONLY BaseInv, r \in Threads, <2>2, <3>1, RecordsNothingOf
      <3> QED
        BY <3>2
    <2> QED
      BY <2>1, <2>2
  <1> QED
    BY ONLY r \in Threads, u \in Users, <1>1, <1>2, <1>3, <1>4, <1>5, HandlerBalances

(* A call to the portfolio manager: what is blocked covers it. *)
LEMMA OwedIsBlocked ==
  ASSUME BaseInv, Intact, Money, NEW u, u \in Users, Calm(u, Lost)
  PROVE  Weight(todo, Each(Owed(u))) <= cash[u].blocked
  <1>1. TypeOK
    BY DEF BaseInv
  <1>2. /\ Weight(tracked, Reserved(u)) \in Nat /\ Weight(req, Asked(u)) \in Nat /\ Weight(req, Spent(u)) \in Nat
        /\ Weight(todo, Each(Owed(u))) \in Nat
    BY <1>1, NumbersNow DEF Numbers
  <1>3. cash[u].blocked \in Nat /\ before[u].blocked \in Nat
    BY <1>1 DEF TypeOK, Cash
  <1>4. Weight(req, Spent(u)) <= Weight(tracked, Reserved(u))
    BY SpentIsReserved
  <1>5. cash[u].blocked + Weight(req, Spent(u))
          = before[u].blocked + Weight(tracked, Reserved(u)) + Weight(req, Asked(u)) + Weight(todo, Each(Owed(u)))
    BY DEF Money, MoneyOK
  <1> QED
    BY ONLY <1>2, <1>3, <1>4, <1>5

(* What the call c that is made first does to the account *)
LEMMA OwedOf ==
  ASSUME NEW c, c \in Call, NEW u
  PROVE  /\ Owed(u)[c] = Pending(u, c)
         /\ c.user # u => Owed(u)[c] = 0
         /\ c.user = u /\ c.op = "release" => Owed(u)[c] = c.amount
         /\ c.user = u /\ c.op = "limitFill" /\ c.side = "buy" => Owed(u)[c] = c.price * c.qty
         /\ c.op # "release" /\ ~(c.op = "limitFill" /\ c.side = "buy") => Owed(u)[c] = 0
  BY PendingIs DEF Owed

LEMMA CallPays ==
  ASSUME BaseInv, NEW a, a \in Actors, NEW c, NEW q, CallsAs(a, c, q), NEW u, u \in Users, u = c.user,
         Owed(u)[c] <= cash[u].blocked, CallLoaded(c, loaded)
  PROVE  /\ Missing(cash'[u]) = Missing(cash[u])
         /\ cash'[u].blocked = cash[u].blocked + (-Owed(u)[c])
  <1>1. TypeOK /\ c \in Call /\ cash \in [Users -> Cash]
    BY DEF BaseInv, TypeOK, CallsAs
  <1>2. cash[u] \in Cash /\ cash[u].blocked \in Nat
    BY <1>1, CashIs
  <1>3. PICK b : b = cash[u].blocked
    OBVIOUS
  <1>4. PICK k : k = c.price * c.qty
    OBVIOUS
  <1>5. ASSUME NEW new, NewCash(c, new)
        PROVE  cash'[u] = new
    BY <1>1, <1>5 DEF NewCash
  <1>6. CASE c.op = "release" /\ NewCash(c, Release(cash[c.user], c.amount))
    <2>1. c.amount \in Nat
      BY <1>1, <1>6, CallIs
    <2>2. cash'[u] = Release(cash[u], c.amount) /\ Owed(u)[c] = c.amount
      BY <1>1, <1>5, <1>6, OwedOf
    <2>3. c.amount <= cash[u].blocked
      BY <2>2
    <2>4. Release(cash[u], c.amount).blocked = cash[u].blocked - c.amount /\ Missing(Release(cash[u], c.amount)) = Missing(cash[u])
      BY ONLY <1>2, <2>1, <2>3, CashIs, ZenonT(30)
    <2>5. b - c.amount = b + (-c.amount)
      BY ONLY <1>2, <1>3, <2>1
    <2> QED
      BY ONLY <1>3, <2>2, <2>4, <2>5
  <1>7. ASSUME c.op # "release"
        PROVE  k \in Nat
    BY <1>1, <1>4, <1>7, CallIs
  <1>8. b = b + (-0)
    BY ONLY <1>2, <1>3
  <1>9. CASE c.side = "sell" /\ Credits(c) /\ NewCash(c, Sell(cash[c.user], c.price * c.qty))
    <2>1. c.op # "release" /\ k \in Nat
      BY <1>7, <1>9 DEF Credits
    <2>2. cash'[u] = Sell(cash[u], k)
      BY <1>4, <1>5, <1>9
    <2>3. Owed(u)[c] = 0
      BY <1>1, <1>9, <2>1, OwedOf
    <2>4. Sell(cash[u], k).blocked = cash[u].blocked /\ Missing(Sell(cash[u], k)) = Missing(cash[u])
      BY ONLY <1>2, <2>1, CashIs
    <2> QED
      BY ONLY <1>3, <1>8, <2>2, <2>3, <2>4
  <1>10. CASE c.op = "limitFill" /\ c.side = "buy" /\ NewCash(c, LimitBuy(cash[c.user], c.price * c.qty))
    <2>1. k \in Nat
      BY <1>7, <1>10
    <2>2. cash'[u] = LimitBuy(cash[u], k)
      BY <1>4, <1>5, <1>10
    <2>3. Owed(u)[c] = k
      BY <1>1, <1>4, <1>10, OwedOf
    <2>4. k <= cash[u].blocked
      BY <2>3
    <2>5. LimitBuy(cash[u], k).blocked = cash[u].blocked - k /\ Missing(LimitBuy(cash[u], k)) = Missing(cash[u])
      BY ONLY <1>2, <2>1, <2>4, CashIs
    <2>6. b - k = b + (-k)
      BY ONLY <1>2, <1>3, <2>1
    <2> QED
      BY ONLY <1>3, <2>2, <2>3, <2>5, <2>6
  <1>11. CASE c.op = "marketFill" /\ NewCash(c, MarketBuy(cash[c.user], c.price * c.qty))
    <2>1. k \in Nat
      BY <1>7, <1>11
    <2>2. cash'[u] = MarketBuy(cash[u], k)
      BY <1>4, <1>5, <1>11
    <2>3. Owed(u)[c] = 0
      BY <1>1, <1>11, OwedOf
    <2>4. MarketBuy(cash[u], k).blocked = cash[u].blocked /\ Missing(MarketBuy(cash[u], k)) = Missing(cash[u])
      BY ONLY <1>2, <2>1, CashIs
    <2> QED
      BY ONLY <1>3, <1>8, <2>2, <2>3, <2>4
  <1>12. CASE c.op = "marketFill" /\ cash' = cash
    <2>1. Owed(u)[c] = 0
      BY <1>1, <1>12, OwedOf
    <2> QED
      BY ONLY <1>3, <1>8, <1>12, <2>1
  <1>13. CASE Credits(c) /\ c.user \notin loaded /\ cash' = cash
    <2>1. Owed(u)[c] = 0
      BY <1>1, <1>13, OwedOf DEF Credits, CallLoaded
    <2> QED
      BY ONLY <1>3, <1>8, <1>13, <2>1
  <1> QED
    BY <1>6, <1>9, <1>10, <1>11, <1>12, <1>13 DEF CallsAs, CallLoaded

LEMMA CallBalances ==
  ASSUME BaseInv, Intact, Loaded, Money, NEW a, a \in Actors, CallPortfolio(a), UNCHANGED run
  PROVE  Balanced
  <1> SUFFICES ASSUME NEW u, u \in Users, Calm(u, Lost)
               PROVE  Balances(u)
    BY DEF Balanced
  <1>1. PICK c, q : CallsAs(a, c, q)
    BY ONLY BaseInv, a \in Actors, CallPortfolio(a), UNCHANGED run, CallIsOne
  <1>2. /\ TypeOK /\ c \in Call /\ cash \in [Users -> Cash]
        /\ UNCHANGED <<tracked, req>>
        /\ cash' = cash \/ \E new : cash' = [cash EXCEPT ![c.user] = new]
    BY <1>1 DEF BaseInv, TypeOK, CallsAs, NewCash
  <1>3. /\ Weight(todo, Each(Owed(u))) = Weight(todo', Each(Owed(u))) + Owed(u)[c]
        /\ Weight(todo', Each(Owed(u))) \in Nat /\ Owed(u)[c] \in Nat
    BY ONLY <1>1, <1>2, a \in Actors, CallGone
  <1>4. Weight(todo, Each(Owed(u))) <= cash[u].blocked
    BY ONLY BaseInv, Intact, Money, u \in Users, Calm(u, Lost), OwedIsBlocked
  <1>5. cash[u].blocked \in Nat /\ cash[u] \in Cash
    BY <1>2, CashIs
  <1>6. Owed(u)[c] <= cash[u].blocked
    BY ONLY <1>3, <1>4, <1>5
  <1>7. PICK k \in Nat : k = Owed(u)[c]
    BY <1>3
  <1>10. CallLoaded(c, loaded)
    BY <1>1 DEF CallsAs, Loaded
  <1>8. Missing(cash'[u]) = Missing(cash[u]) /\ cash'[u].blocked = cash[u].blocked + (-k)
    <2>1. CASE u = c.user
      <3>1. /\ Missing(cash'[u]) = Missing(cash[u])
            /\ cash'[u].blocked = cash[u].blocked + (-Owed(u)[c])
        BY ONLY BaseInv, a \in Actors, u \in Users, <1>1, <1>6, <1>10, <2>1, CallPays
      <3> QED
        BY ONLY <1>7, <3>1
    <2>2. CASE u # c.user
      <3>1. cash'[u] = cash[u]
        BY <1>2, <2>2
      <3>2. Owed(u)[c] = 0
        BY <1>2, <2>2, OwedOf
      <3>3. cash[u].blocked = cash[u].blocked + (-0)
        BY ONLY <1>5
      <3> QED
        BY ONLY <1>7, <3>1, <3>2, <3>3
    <2> QED
      BY <2>1, <2>2
  <1>9. Changes(u, -k, 0, 0, 0, -k)
    <2>1. /\ Weight(tracked, Reserved(u)) \in Nat /\ Weight(req, Asked(u)) \in Nat /\ Weight(req, Spent(u)) \in Nat
      BY <1>2, NumbersNow DEF Numbers
    <2>2. Weight(todo', Each(Owed(u))) = Weight(todo, Each(Owed(u))) + (-k)
      BY ONLY <1>3, <1>7
    <2>3. /\ Weight(req', Spent(u)) = Weight(req, Spent(u)) + 0
          /\ Weight(tracked', Reserved(u)) = Weight(tracked, Reserved(u)) + 0
          /\ Weight(req', Asked(u)) = Weight(req, Asked(u)) + 0
      BY ONLY <1>2, <2>1
    <2>4. -k \in Int /\ 0 \in Int /\ (-k) + 0 = 0 + 0 + (-k)
      BY ONLY k \in Nat
    <2> QED
      BY ONLY <1>8, <2>2, <2>3, <2>4 DEF Changes
  <1> QED
    BY ONLY u \in Users, <1>2, <1>9, Settles

LEMMA ServesOwnersStay ==
  ASSUME TypeOK, Serves
  PROVE  OwnersStay
  <1>1. /\ owner \in [Ids -> Users \cup {NoUser}] /\ odd \in [Ids \cup Quotes -> SUBSET Oddity]
        /\ Ids \subseteq Nat /\ nextId \in Nat
    BY IdsAreNat DEF TypeOK
  <1>2. ASSUME UNCHANGED <<owner, odd>>
        PROVE  OwnersStay
    BY <1>2 DEF OwnersStay
  <1>3. ASSUME NEW id, NEW what, odd' = Oddly(id, what), owner' = owner
        PROVE  OwnersStay
    BY <1>1, <1>3 DEF OwnersStay, Oddly
  <1>4. ASSUME NEW u, NEW what, odd' = Oddly(nextId, what), owner' = [owner EXCEPT ![nextId] = u]
        PROVE  OwnersStay
    <2>1. \A i \in Ids : i < nextId => i # nextId
      BY ONLY <1>1
    <2> QED
      BY <1>1, <1>4, <2>1 DEF OwnersStay, Oddly
  <1>5. ASSUME NEW r \in Threads, NewRequest(r)
        PROVE  OwnersStay
    <2>1. ASSUME NEW u, NEW s, NEW q, NEW p, PlaceLimitOrder(r, u, s, q, p) \/ PlaceMarketOrder(r, u, s, q)
                                              \/ PlaceInternalMarketOrder(r, u, s, q)
          PROVE  OwnersStay
      BY <1>2, <2>1 DEF PlaceLimitOrder, PlaceMarketOrder, PlaceInternalMarketOrder, settled
    <2>2. ASSUME NEW s, NEW q, NEW limit, NEW stop, NEW k,
                 AddStop(r, s, q, limit, stop) \/ ModifyStop(r, k, q, limit, stop) \/ CancelStop(r, k)
          PROVE  OwnersStay
      BY <1>2, <2>2 DEF AddStop, ModifyStop, CancelStop, StopCall, settled
    <2>3. ASSUME NEW id, NEW q, NEW p, CancelLimit(r, id) \/ ModifyLimit(r, id, q, p)
          PROVE  OwnersStay
      <3>1. owner' = owner /\ \E what : odd' = Oddly(id, what)
        BY <2>3 DEF CancelLimit, ModifyLimit, settled
      <3> QED
        BY <1>3, <3>1
    <2>4. ASSUME NEW u, GetPortfolio(r, u)
          PROVE  OwnersStay
      BY <1>2, <2>4 DEF GetPortfolio
    <2> QED
      BY <1>5, <2>1, <2>2, <2>3, <2>4 DEF NewRequest
  <1>6. ASSUME NEW r \in Threads, Waits(r)
        PROVE  OwnersStay
    <2>1. CASE AddLimitAutoID(r) \/ MarketAutoID(r)
      <3>1. \E u, what : odd' = Oddly(nextId, what) /\ owner' = [owner EXCEPT ![nextId] = u]
        BY <2>1 DEF AddLimitAutoID, MarketAutoID, settled
      <3> QED
        BY <1>4, <3>1
    <2>2. CASE EngineRefuses(r)
      BY <1>2, <2>2, SMTT(30) DEF EngineRefuses, settled
    <2> QED
      BY <1>6, <2>1, <2>2 DEF Waits
  <1>7. ASSUME NEW a, CallPortfolio(a)
        PROVE  OwnersStay
    BY <1>2, <1>7 DEF CallPortfolio
  <1>8. ASSUME NEW r \in Threads, Handles(r)
        PROVE  OwnersStay
    <2>1. CASE CallPortfolio(r)
      BY <1>7, <2>1
    <2>2. CASE Track(r) \/ RecordPlacementTrades(r) \/ CheckPasses(r) \/ CheckFails(r)
      BY <1>2, <2>2 DEF Track, RecordPlacementTrades, CheckPasses, CheckFails, settled
    <2>3. CASE RemoveFromTracker(r) \/ UpdateLimit(r)
      BY <1>2, <2>3 DEF RemoveFromTracker, UpdateLimit, settled
    <2> QED
      BY <1>8, <2>1, <2>2, <2>3 DEF Handles
  <1>9. ASSUME NewTick \/ EndTick \/ Reconcile
        PROVE  OwnersStay
    BY <1>2, <1>9 DEF NewTick, EndTick, Reconcile, settled
  <1>10. ASSUME NEW s, NEW p, NEW q, Quote(s, p, q)
         PROVE  OwnersStay
    BY <1>2, <1>10 DEF Quote, settled
  <1> QED
    BY <1>5, <1>6, <1>7, <1>8, <1>9, <1>10 DEF Serves, Generates

(* Reconcile: what the trade fills is still reserved for its order. *)
LEMMA ReconcilesMoney ==
  ASSUME BaseInv, Intact, NEW t, NEW ts, TickGoes(t, ts), NEW o, NEW new, NEW n, Reconciles(t, ts, o, new, n),
         NEW u, u \in Users, Calm(u, Lost), o.user = u
  PROVE  o.reserve = new.reserve + (IF o.side = "buy" THEN t.price * n ELSE 0)
  <1>1. PICK i : i = t.maker
    OBVIOUS
  <1>2. /\ i \in Ids /\ o = tracked[i] /\ o \in Tracked /\ new \in Tracked /\ o # NoOrder /\ t \in Fill
        /\ n \in Nat /\ After(o, new, t, n) /\ TypeOK
    BY <1>1 DEF Reconciles, TickGoes, BaseInv
  <1>3. owner[i] = u
    BY <1>2 DEF BaseInv, OwnersKnown
  <1>4. Covered(i) /\ Sound(i)
    BY <1>2, <1>3 DEF Intact, AllCovered, Calm, Sound
  <1>5. o.reserve \in Nat /\ new.reserve \in Nat /\ t.price \in Nat /\ t.qty \in Nat
    BY <1>2, OrderFlowConstants DEF Tracked, Fill
  <1>6. CASE o.side # "buy"
    <2>1. new.reserve = o.reserve
      BY <1>2, <1>6 DEF After
    <2> QED
      BY ONLY <1>5, <1>6, <2>1
  <1>7. CASE o.side = "buy"
    <2>1. Worth(i) + Revenue(i) + Weight(req, RecMoney(i)) <= o.reserve
      BY <1>2, <1>4, <1>7 DEF Covered, MoneyCovered
    <2>2. Worth(i) \in Nat /\ Revenue(i) \in Nat /\ Weight(req, RecMoney(i)) \in Nat
      BY <1>2, NumbersAreNat
    <2>3. PICK c : c = MadeFor(i)[t]
      OBVIOUS
    <2>4. PICK rest : rest = Weight(ts, MadeFor(i))
      OBVIOUS
    <2>5. Revenue(i) = c + rest /\ c \in Nat /\ rest \in Nat
      BY <2>3, <2>4, WeightsAre DEF TickGoes, Revenue
    <2>6. c = t.price * t.qty
      BY <1>1, <1>2, <2>3 DEF MadeFor
    <2>7. n * t.price \in Nat /\ n * t.price <= t.price * t.qty
      BY <1>2 DEF After
    <2>8. PICK m : m = n * t.price
      OBVIOUS
    <2>9. m \in Nat /\ m <= c
      BY ONLY <2>6, <2>7, <2>8
    <2>10. m <= o.reserve
      BY ONLY <1>5, <2>1, <2>2, <2>5, <2>9
    <2>11. o.reserve = new.reserve + m
      <3>1. n * t.price <= o.reserve
        BY ONLY <2>8, <2>10
      <3> QED
        BY <1>2, <1>7, <2>8, <3>1 DEF After
    <2>12. t.price * n = n * t.price
      BY ONLY <1>2, <1>5
    <2> QED
      BY ONLY <1>7, <2>8, <2>11, <2>12
  <1> QED
    BY <1>6, <1>7

LEMMA TickBalances ==
  ASSUME TypeOK, UNCHANGED <<cash, req>>, NEW u, u \in Users, NEW n, NEW m, ReserveMoves(u, n, m), NEW e, e \in Nat, n = m + e,
         Weight(todo', Each(Owed(u))) = Weight(todo, Each(Owed(u))) + e
  PROVE  Balances(u)
  <1>1. /\ n \in Nat /\ m \in Nat /\ Weight(tracked, Reserved(u)) \in Nat /\ Weight(tracked', Reserved(u)) \in Nat
        /\ Weight(tracked', Reserved(u)) + n = Weight(tracked, Reserved(u)) + m
    BY DEF ReserveMoves
  <1>2. Weight(req, Asked(u)) \in Nat /\ Weight(req, Spent(u)) \in Nat /\ cash[u].blocked \in Nat
    BY NumbersNow DEF Numbers, TypeOK, Cash
  <1>3. Changes(u, 0, 0, -e, 0, e)
    <2>1. cash'[u].blocked = cash[u].blocked + 0 /\ Missing(cash'[u]) = Missing(cash[u])
      BY <1>2
    <2>2. Weight(req', Asked(u)) = Weight(req, Asked(u)) + 0 /\ Weight(req', Spent(u)) = Weight(req, Spent(u)) + 0
      BY <1>2
    <2>3. Weight(tracked', Reserved(u)) = Weight(tracked, Reserved(u)) + (-e)
      BY ONLY <1>1, e \in Nat, n = m + e
    <2>4. -e \in Int /\ e \in Int /\ 0 \in Int /\ 0 + 0 = (-e) + 0 + e
      BY ONLY e \in Nat
    <2>5. Weight(todo', Each(Owed(u))) = Weight(todo, Each(Owed(u))) + e
      OBVIOUS
    <2> QED
      BY ONLY <2>1, <2>2, <2>3, <2>4, <2>5 DEF Changes
  <1> QED
    BY ONLY TypeOK, u \in Users, <1>3, Settles

LEMMA ReconcileBalances ==
  ASSUME BaseInv, Intact, Reconcile, UNCHANGED run
  PROVE  Balanced
  <1> SUFFICES ASSUME NEW u, u \in Users, Calm(u, Lost)
               PROVE  Balances(u)
    BY DEF Balanced
  <1>1. PICK t, ts : ReconcilesAs(t, ts)
    BY ONLY BaseInv, Reconcile, UNCHANGED run, ReconcileIs
  <1>2. TypeOK /\ UNCHANGED <<cash, req>> /\ TickGoes(t, ts) /\ t \in Fill
    BY <1>1 DEF BaseInv, ReconcilesAs, TickGoes
  <1>3. CASE Misses(t)
    BY <1>2, <1>3 DEF Misses, Balances
  <1>4. CASE \E o, new, n, d : Hits(t, o, new, n, d)
    <2>1. PICK o, new, n : Reconciles(t, ts, o, new, n)
      BY ONLY <1>2, <1>4, HitsReconcile
    <2>2. PICK i : i = t.maker
      OBVIOUS
    <2>3. /\ i \in Ids /\ tracked[i] = o /\ o \in Tracked /\ new \in Tracked /\ o # NoOrder /\ new.user = o.user
          /\ n \in Nat /\ t.price * n \in Nat
      BY <2>1, <2>2 DEF Reconciles, After
    <2>4. o.reserve \in Nat /\ new.reserve \in Nat
      BY <2>3 DEF Tracked
    <2>5. o \in Tracked \cup {NoOrder} /\ new \in Tracked \cup {NoOrder} /\ NoOrder \in Tracked \cup {NoOrder} /\ new # NoOrder
      BY <2>3, NoOrderIsNone
    <2>6. /\ Reserved(u)[o] = IF o.user = u THEN o.reserve ELSE 0
          /\ Reserved(u)[new] = IF o.user = u THEN new.reserve ELSE 0
          /\ Reserved(u)[NoOrder] = 0
      <3>1. Reserved(u)[o] = IF o.user = u THEN o.reserve ELSE 0
        BY ONLY <2>3, <2>5, ReservedIs
      <3>2. Reserved(u)[new] = IF o.user = u THEN new.reserve ELSE 0
        BY ONLY <2>3, <2>5, ReservedIs
      <3>3. Reserved(u)[NoOrder] = 0
        BY ONLY <2>5, ReservedIs
      <3> QED
        BY ONLY <3>1, <3>2, <3>3
    <2>7. PICK k, rest : /\ tracked' = [tracked EXCEPT ![i] = k]
                         /\ ReconcileSums(t, ts, t.maker, o.user, o.side, n, t.price * n, rest)
                         /\ (k = new /\ rest = 0) \/ (k = NoOrder /\ rest = new.reserve)
      BY <2>1, <2>2 DEF Reconciles
    <2>8. k \in Tracked \cup {NoOrder}
      BY ONLY <2>5, <2>7
    <2>9. ReserveMoves(u, Reserved(u)[tracked[i]], Reserved(u)[k])
      BY ONLY <1>2, <2>3, <2>7, <2>8, ReserveChanges
    <2>10. PICK e : e = IF u = o.user THEN (IF o.side = "buy" THEN t.price * n ELSE 0) + rest ELSE 0
      OBVIOUS
    <2>11. Weight(todo', Each(Owed(u))) = Weight(todo, Each(Owed(u))) + e
      BY <2>7, <2>10 DEF ReconcileSums
    <2>12. Reserved(u)[tracked[i]] = Reserved(u)[k] + e /\ e \in Nat
      <3>1. CASE u # o.user
        <4>1. e = 0 /\ Reserved(u)[tracked[i]] = 0 /\ Reserved(u)[k] = 0
          BY ONLY <2>3, <2>6, <2>7, <2>10, <3>1
        <4> QED
          BY ONLY <4>1
      <3>2. CASE u = o.user
        <4>1. o.reserve = new.reserve + (IF o.side = "buy" THEN t.price * n ELSE 0)
          BY ONLY BaseInv, Intact, u \in Users, Calm(u, Lost), <1>2, <2>1, <3>2, ReconcilesMoney
        <4>2. PICK c : c = IF o.side = "buy" THEN t.price * n ELSE 0
          OBVIOUS
        <4>3. c \in Nat /\ o.reserve = new.reserve + c /\ e = c + rest
          BY ONLY <2>3, <2>10, <3>2, <4>1, <4>2
        <4>4. Reserved(u)[tracked[i]] = o.reserve
          BY ONLY <2>3, <2>6, <3>2
        <4>5. CASE k = new /\ rest = 0
          <5>1. Reserved(u)[k] = new.reserve
            BY ONLY <2>6, <3>2, <4>5
          <5> QED
            BY ONLY <2>4, <4>3, <4>4, <4>5, <5>1
        <4>6. CASE k = NoOrder /\ rest = new.reserve
          <5>1. Reserved(u)[k] = 0
            BY ONLY <2>6, <4>6
          <5> QED
            BY ONLY <2>4, <4>3, <4>4, <4>6, <5>1
        <4> QED
          BY <2>7, <4>5, <4>6
      <3> QED
        BY <3>1, <3>2
    <2> QED
      BY ONLY u \in Users, <1>2, <2>9, <2>11, <2>12, TickBalances
  <1> QED
    BY <1>1, <1>3, <1>4 DEF ReconcilesAs

LEMMA HandlesBalances ==
  ASSUME BaseInv, Intact, Loaded, Money, NEW r, r \in Threads, Handles(r), UNCHANGED run
  PROVE  Balanced
  <1>1. TypeOK
    BY DEF BaseInv
  <1>2. CASE CheckPasses(r) \/ CheckFails(r)
    <2>1. PICK x \in Request : Passes(r, x) /\ x.stage \in {"idle", "market"} /\ req[r].stage = "check" /\ cash' = cash
      BY ONLY BaseInv, r \in Threads, <1>2, UNCHANGED run, CheckPassesOn
    <2>2. /\ TypeOK /\ r \in Threads /\ x \in Request /\ req' = [req EXCEPT ![r] = x]
          /\ Moneyless(x) /\ Moneyless(req[r]) /\ UNCHANGED <<cash, tracked, todo>>
      BY <1>1, <2>1 DEF Passes, Moneyless
    <2> QED
      BY ONLY <2>2, MoneylessBalances
  <1>3. CASE Track(r)
    <2>1. PICK q, x, d, o : q = req[r] /\ TracksAs(r, q, x, d, o)
      BY ONLY BaseInv, r \in Threads, <1>3, UNCHANGED run, TrackIs
    <2> QED
      BY ONLY BaseInv, Intact, r \in Threads, <2>1, TrackBalances
  <1>4. CASE RecordPlacementTrades(r)
    BY ONLY BaseInv, Intact, r \in Threads, <1>4, UNCHANGED run, RecordBalances
  <1>5. CASE RemoveFromTracker(r)
    <2>1. PICK q, d : q = req[r] /\ RemovesAs(r, q, d)
      BY ONLY BaseInv, r \in Threads, <1>5, UNCHANGED run, RemovesIs
    <2> QED
      BY ONLY BaseInv, r \in Threads, <2>1, RemovesBalances
  <1>6. CASE UpdateLimit(r)
    <2>1. PICK q : q = req[r] /\ UpdatesAs(r, q)
      BY ONLY BaseInv, r \in Threads, <1>6, UNCHANGED run, UpdatesIs
    <2> QED
      BY ONLY BaseInv, r \in Threads, <2>1, UpdatesBalances
  <1>7. CASE CallPortfolio(r)
    <2>1. r \in Actors
      BY DEF Actors
    <2> QED
      BY ONLY BaseInv, Intact, Loaded, Money, <2>1, <1>7, UNCHANGED run, CallBalances
  <1> QED
    BY <1>2, <1>3, <1>4, <1>5, <1>6, <1>7 DEF Handles

LEMMA ServesBalances ==
  ASSUME BaseInv, Intact, Loaded, Money, Serves, UNCHANGED run
  PROVE  Balanced
  <1>1. ASSUME UNCHANGED <<cash, req, tracked, todo>>
        PROVE  Balanced
    BY <1>1 DEF Balanced, Balances
  <1>2. CASE NewTick \/ EndTick
    BY <1>1, <1>2 DEF NewTick, EndTick, settled
  <1>3. ASSUME NEW s, NEW p, NEW q, Quote(s, p, q)
        PROVE  Balanced
    BY <1>1, <1>3 DEF Quote, settled
  <1>4. CASE Reconcile
    BY ONLY BaseInv, Intact, <1>4, UNCHANGED run, ReconcileBalances
  <1>5. CASE CallPortfolio(Generator)
    <2>1. Generator \in Actors
      BY DEF Actors
    <2> QED
      BY ONLY BaseInv, Intact, Loaded, Money, <2>1, <1>5, UNCHANGED run, CallBalances
  <1>6. CASE Generates
    BY <1>2, <1>3, <1>4, <1>5, <1>6 DEF Generates
  <1>7. ASSUME NEW r \in Threads, NewRequest(r)
        PROVE  Balanced
    BY ONLY BaseInv, <1>7, UNCHANGED run, NewRequestBalances
  <1>8. ASSUME NEW r \in Threads, Waits(r)
        PROVE  Balanced
    BY ONLY BaseInv, <1>8, UNCHANGED run, WaitsBalances
  <1>9. ASSUME NEW r \in Threads, Handles(r)
        PROVE  Balanced
    BY ONLY BaseInv, Intact, Loaded, Money, <1>9, UNCHANGED run, HandlesBalances
  <1> QED
    BY <1>2, <1>6, <1>7, <1>8, <1>9 DEF Serves

(* A server that starts has no order: what is blocked then stays nobody's.   *)
LEMMA FreshMoney == Fresh => Money
  <1> SUFFICES ASSUME Fresh, NEW u \in Users
               PROVE  /\ Missing(cash[u]) = Missing(before[u])
                      /\ cash[u].blocked + Weight(req, Spent(u))
                           = before[u].blocked + Weight(tracked, Reserved(u)) + Weight(req, Asked(u))
                               + Weight(todo, Each(Owed(u)))
    BY DEF Money, MoneyOK
  <1>1. /\ Weight(todo, Each(Owed(u))) = 0 /\ Weight(tracked, Reserved(u)) = 0
        /\ Weight(req, Asked(u)) = 0 /\ Weight(req, Spent(u)) = 0
    BY FreshSums
  <1>2. before = cash /\ cash[u].blocked \in Nat
    BY DEF Fresh, Cash
  <1> QED
    BY <1>1, <1>2

LEMMA StutterMoney ==
  ASSUME Money, UNCHANGED vars
  PROVE  Money'
  <1>1. UNCHANGED <<cash, before, req, tracked, todo, owner, odd>>
    BY DEF vars, run, settled
  <1> SUFFICES ASSUME NEW u \in Users, Calm(u, Lost)'
               PROVE  /\ Missing(cash'[u]) = Missing(before'[u])
                      /\ cash'[u].blocked + Weight(req', Spent(u))
                           = before'[u].blocked + Weight(tracked', Reserved(u)) + Weight(req', Asked(u))
                               + Weight(todo', Each(Owed(u)))
    BY DEF Money, MoneyOK
  <1>2. Calm(u, Lost)
    BY <1>1 DEF Calm
  <1> QED
    BY <1>1, <1>2 DEF Money, MoneyOK

MoneyInv == KeptInv /\ Loaded /\ Money
LEMMA InitMoney == Init => MoneyInv
  BY InitKept, InitIsFresh, FreshLoaded, FreshMoney DEF MoneyInv

LEMMA MoneyNext == MoneyInv /\ [Next]_vars => MoneyInv'
  <1>1. ASSUME MoneyInv, Restart
        PROVE  Loaded' /\ Money'
    <2>1. TypeOK
      BY <1>1 DEF MoneyInv, KeptInv, BaseInv
    <2>2. Fresh'
      BY <1>1, <2>1, RestartIsFresh
    <2> QED
      BY <2>2, FreshLoaded, FreshMoney, PTL
  <1>2. ASSUME MoneyInv, KeptInv', Serves, UNCHANGED run
        PROVE  Loaded' /\ Money'
    <2>1. BaseInv /\ Intact /\ Loaded /\ Money /\ BaseInv' /\ TypeOK
      BY <1>2 DEF MoneyInv, KeptInv, BaseInv
    <2>2. Balanced
      BY ONLY <1>2, <2>1, ServesBalances
    <2>3. OwnersStay
      BY ONLY <1>2, <2>1, ServesOwnersStay
    <2>4. before' = before
      BY <1>2 DEF run
    <2>5. Loaded'
      BY ONLY <1>2, <2>1, ServesLoads
    <2>6. Money'
      BY ONLY <2>1, <2>2, <2>3, <2>4, BalancesKeep
    <2> QED
      BY <2>5, <2>6
  <1>3. ASSUME MoneyInv, UNCHANGED vars
        PROVE  Loaded' /\ Money'
    <2>1. Loaded'
      BY <1>3, LoadedStays DEF MoneyInv, vars
    <2> QED
      BY <1>3, <2>1, StutterMoney DEF MoneyInv
  <1>4. MoneyInv /\ [Next]_vars => KeptInv'
    BY KeptNext DEF MoneyInv
  <1> QED
    BY <1>1, <1>2, <1>3, <1>4 DEF Next, MoneyInv

LEMMA MoneyHolds == Spec => []MoneyInv
  BY InitMoney, MoneyNext, PTL DEF Spec

LEMMA MoneyImplies == MoneyInv => EscrowAccounted /\ CashAddsUp
  BY MoneyIs DEF MoneyInv, KeptInv, BaseInv

(* The money that is blocked of a user is exactly what the tracker's orders  *)
(* and the orders, fills and releases under way account for, and what was    *)
(* blocked when the server was started, at every moment between two critical *)
(* sections (unless an order of the user was modified to a higher cost,      *)
(* cancelled while it was being placed or triggered stop orders).            *)
THEOREM EscrowHolds == Spec => []EscrowAccounted
  BY MoneyHolds, MoneyImplies, PTL

(* No step loses or makes money of such a user: what is available and what   *)
(* is blocked add up to the cash as they did when the server was started.    *)
THEOREM CashHolds == Spec => []CashAddsUp
  BY MoneyHolds, MoneyImplies, PTL

=============================================================================
