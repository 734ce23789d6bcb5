------------------------- MODULE MatchingBook_proofs -------------------------
(* What holds of the book for every number of orders, prices and calls.     *)
EXTENDS MatchingBook, WellFoundedInduction, TLAPS

-----------------------------------------------------------------------------
(* The lists *)

(* Appending an id that is not in a list adds it and repeats none. *)
LEMMA AppendToList ==
  ASSUME NEW S, NEW q \in Seq(S), NEW x \in S, IsInjective(q), x \notin ToSet(q)
  PROVE  /\ Append(q, x) \in Seq(S)
         /\ IsInjective(Append(q, x))
         /\ ToSet(Append(q, x)) = ToSet(q) \cup {x}
  BY DEF IsInjective, ToSet

(* Taking the head off a list without repetition takes it out of the list. *)
LEMMA TailOfList ==
  ASSUME NEW S, NEW q \in Seq(S), q # <<>>, IsInjective(q)
  PROVE  /\ Tail(q) \in Seq(S)
         /\ IsInjective(Tail(q))
         /\ Head(q) \in S
         /\ Head(q) \in ToSet(q)
         /\ ToSet(Tail(q)) = ToSet(q) \ {Head(q)}
  <1>1. /\ Len(q) \in Nat \ {0}
        /\ Head(q) = q[1]
        /\ Tail(q) \in Seq(S)
        /\ Len(Tail(q)) = Len(q) - 1
        /\ DOMAIN Tail(q) = 1..(Len(q) - 1)
        /\ \A i \in 1..(Len(q) - 1) : Tail(q)[i] = q[i + 1]
    OBVIOUS
  <1>2. \A i, j \in 1..Len(q) : q[i] = q[j] => i = j
    BY DEF IsInjective
  <1>3. IsInjective(Tail(q))
    <2> SUFFICES ASSUME NEW i \in 1..(Len(q) - 1), NEW j \in 1..(Len(q) - 1),
                        Tail(q)[i] = Tail(q)[j]
                 PROVE  i = j
      BY <1>1 DEF IsInjective
    <2>1. q[i + 1] = q[j + 1]
      BY <1>1
    <2>2. i + 1 \in 1..Len(q) /\ j + 1 \in 1..Len(q)
      BY <1>1
    <2> QED
      BY <1>2, <2>1, <2>2
  <1>4. ASSUME NEW y \in ToSet(Tail(q))
        PROVE  y \in ToSet(q) \ {Head(q)}
    <2>1. PICK i \in 1..(Len(q) - 1) : y = q[i + 1]
      BY <1>1 DEF ToSet
    <2>2. i + 1 \in 1..Len(q) /\ 1 \in 1..Len(q) /\ i + 1 # 1
      BY <1>1
    <2> QED
      BY <1>1, <1>2, <2>1, <2>2 DEF ToSet
  <1>5. ASSUME NEW y \in ToSet(q), y # Head(q)
        PROVE  y \in ToSet(Tail(q))
    <2>1. PICK i \in 1..Len(q) : y = q[i]
      BY DEF ToSet
    <2>2. i # 1 /\ i - 1 \in 1..(Len(q) - 1)
      BY <1>1, <1>5, <2>1
    <2>3. y = Tail(q)[i - 1]
      BY <1>1, <2>1, <2>2
    <2> QED
      BY <1>1, <2>2, <2>3 DEF ToSet
  <1>6. 1 \in 1..Len(q)
    BY <1>1
  <1>7. Head(q) \in ToSet(q) /\ Head(q) \in S
    BY <1>1, <1>6 DEF ToSet
  <1> QED
    BY <1>1, <1>3, <1>4, <1>5, <1>7

(* Order::cancel removes the order and no other, and repeats none. *)
LEMMA UnlinkFromList ==
  ASSUME NEW S, NEW q \in Seq(S), NEW x \in ToSet(q), IsInjective(q)
  PROVE  /\ Unlink(q, x) \in Seq(S)
         /\ IsInjective(Unlink(q, x))
         /\ ToSet(Unlink(q, x)) = ToSet(q) \ {x}
  <1> DEFINE u == Unlink(q, x)
             k == Place(q, x)
  <1>1. Len(q) \in Nat /\ DOMAIN q = 1..Len(q) /\ \A i \in 1..Len(q) : q[i] \in S
    OBVIOUS
  <1>2. \A i, j \in 1..Len(q) : q[i] = q[j] => i = j
    BY <1>1 DEF IsInjective
  <1>3. k \in 1..Len(q) /\ q[k] = x
    BY <1>1 DEF ToSet, Place
  <1>4. /\ u = [i \in 1..(Len(q) - 1) |-> IF i < k THEN q[i] ELSE q[i + 1]]
        /\ Len(q) - 1 \in Nat
    BY <1>1, <1>3 DEF Unlink
  <1> HIDE DEF k, u
  <1>5. \A i \in 1..(Len(q) - 1) : u[i] = IF i < k THEN q[i] ELSE q[i + 1]
    BY <1>4
  <1>6. u \in Seq(S) /\ DOMAIN u = 1..(Len(q) - 1)
    <2>1. \A i \in 1..(Len(q) - 1) : u[i] \in S
      BY <1>1, <1>3, <1>5
    <2> QED
      BY <1>4, <2>1
  <1>7. IsInjective(u)
    <2> SUFFICES ASSUME NEW i \in 1..(Len(q) - 1), NEW j \in 1..(Len(q) - 1), u[i] = u[j]
                 PROVE  i = j
      BY <1>6 DEF IsInjective
    <2>1. i \in 1..Len(q) /\ i + 1 \in 1..Len(q) /\ j \in 1..Len(q) /\ j + 1 \in 1..Len(q)
      BY <1>1
    <2>2. CASE i < k /\ j < k
      BY <1>2, <1>5, <2>1, <2>2
    <2>3. CASE i < k /\ ~(j < k)
      <3>1. q[i] = q[j + 1]
        BY <1>5, <2>3
      <3>2. i = j + 1
        BY <1>2, <2>1, <3>1
      <3> QED
        BY <1>1, <1>3, <2>3, <3>2
    <2>4. CASE ~(i < k) /\ j < k
      <3>1. q[i + 1] = q[j]
        BY <1>5, <2>4
      <3>2. i + 1 = j
        BY <1>2, <2>1, <3>1
      <3> QED
        BY <1>1, <1>3, <2>4, <3>2
    <2>5. CASE ~(i < k) /\ ~(j < k)
      <3>1. q[i + 1] = q[j + 1]
        BY <1>5, <2>5
      <3>2. i + 1 = j + 1
        BY <1>2, <2>1, <3>1
      <3> QED
        BY <1>1, <3>2
    <2> QED
      BY <2>2, <2>3, <2>4, <2>5
  <1>8. ASSUME NEW y \in ToSet(u)
        PROVE  y \in ToSet(q) \ {x}
    <2>1. PICK i \in 1..(Len(q) - 1) : y = u[i]
      BY <1>6 DEF ToSet
    <2>2. i \in 1..Len(q) /\ i + 1 \in 1..Len(q)
      BY <1>1
    <2>3. CASE i < k
      <3>1. y = q[i] /\ i # k
        BY <1>1, <1>3, <1>5, <2>1, <2>3
      <3> QED
        BY <1>1, <1>2, <1>3, <2>2, <3>1 DEF ToSet
    <2>4. CASE ~(i < k)
      <3>1. y = q[i + 1] /\ i + 1 # k
        BY <1>1, <1>3, <1>5, <2>1, <2>4
      <3> QED
        BY <1>1, <1>2, <1>3, <2>2, <3>1 DEF ToSet
    <2> QED
      BY <2>3, <2>4
  <1>9. ASSUME NEW y \in ToSet(q), y # x
        PROVE  y \in ToSet(u)
    <2>1. PICK i \in 1..Len(q) : y = q[i]
      BY <1>1 DEF ToSet
    <2>2. i # k
      BY <1>3, <1>9, <2>1
    <2>3. CASE i < k
      <3>1. i \in 1..(Len(q) - 1) /\ u[i] = y
        BY <1>1, <1>3, <1>5, <2>1, <2>3
      <3> QED
        BY <1>6, <3>1 DEF ToSet
    <2>4. CASE k < i
      <3>1. i - 1 \in 1..(Len(q) - 1) /\ ~(i - 1 < k) /\ (i - 1) + 1 = i
        BY <1>1, <1>3, <2>4
      <3>2. u[i - 1] = y
        BY <1>5, <2>1, <3>1
      <3> QED
        BY <1>6, <3>1, <3>2 DEF ToSet
    <2> QED
      BY <1>1, <1>3, <2>2, <2>3, <2>4
  <1> QED
    BY <1>6, <1>7, <1>8, <1>9 DEF u

-----------------------------------------------------------------------------
(* Types *)

LEMMA LevelNames ==
  ASSUME NEW p \in Prices
  PROVE  /\ <<"stop", p>> \in StopLevel
         /\ StopLevel \subseteq Level
         /\ LimitLevel \subseteq Level
         /\ \A s \in Side : <<s, p>> \in LimitLevel /\ <<Opposite(s), p>> \in LimitLevel
         /\ \A s \in Side : Opposite(s) \in Side
  BY DEF Level, LimitLevel, StopLevel, Side, Opposite

(* Whatever the lists are, the trees of the stop levels keep their type. *)
LEMMA StopTreesType ==
  ASSUME stopSide \in [Prices -> Side \cup {"none"}],
         NEW q1, NEW q2, NEW s \in Side \cup {"none"}
  PROVE  StopTrees(q1, q2, s) \in [Prices -> Side \cup {"none"}]
  BY DEF StopTrees

(* The trees follow the lists: an order of side s opened the levels that    *)
(* are new in q2, and q1 has no level that was not there before.            *)
LEMMA StopTreesFollow ==
  ASSUME StopLevelsInTrees, NEW q1, NEW s \in Side \cup {"none"},
         s # "none" \/ q1 = queue',
         \A p \in Prices : q1[<<"stop", p>>] # <<>> => queue[<<"stop", p>>] # <<>>,
         stopSide' = StopTrees(q1, queue', s)
  PROVE  StopLevelsInTrees'
  BY DEF StopLevelsInTrees, StopTrees

(* A step that leaves the stop book alone. *)
LEMMA StopTreesStay ==
  ASSUME StopLevelsInTrees, UNCHANGED stopSide,
         \A p \in Prices : queue'[<<"stop", p>>] = queue[<<"stop", p>>]
  PROVE  StopLevelsInTrees'
  BY DEF StopLevelsInTrees

-----------------------------------------------------------------------------
(* orderMap and the lists of all levels *)

Maps  == [Ids -> Order \cup {NoOrder}]
Lists == [Level -> Seq(Ids)]

(* One order of the map, one list of the book replaced. *)
WithOrder(os, id, o) == [os EXCEPT ![id] = o]
WithList(q, l, u)    == [q EXCEPT ![l] = u]

(* The lists q and the map os agree on every order but those of the set     *)
(* out, which are in no list.                                               *)
Agree(os, q, out) ==
  /\ \A l \in Level : /\ IsInjective(q[l])
                      /\ \A x \in ToSet(q[l]) : /\ os[x] # NoOrder
                                                /\ os[x].parent = l
                                                /\ x \notin out
  /\ \A x \in Ids : os[x] # NoOrder /\ x \notin out => x \in ToSet(q[os[x].parent])

HeldIds == {x \in Ids : Held(x)}

LEMMA ListsAgree ==
  ASSUME TypeOK
  PROVE  ListsMatchOrderMap <=> Agree(orders, queue, HeldIds)
  <1>1. \A l \in Level : ToSet(queue[l]) \subseteq Ids
    BY DEF TypeOK, ToSet
  <1> QED
    BY <1>1 DEF ListsMatchOrderMap, Agree, HeldIds

LEMMA ListsAgreeNext ==
  ASSUME TypeOK'
  PROVE  ListsMatchOrderMap' <=> Agree(orders', queue', HeldIds')
  <1>1. \A l \in Level : ToSet(queue'[l]) \subseteq Ids
    BY DEF TypeOK, ToSet
  <1> QED
    BY <1>1 DEF ListsMatchOrderMap, Agree, HeldIds

(* Outside the sweep of a triggered stop-limit order nothing is held. *)
LEMMA NothingHeld == /\ (~(call.stage = "sweep" /\ call.kind = "stopLimit") => HeldIds = {})
                     /\ (~(call.stage = "sweep" /\ call.kind = "stopLimit") => HeldIds = {})'
  BY DEF HeldIds, Held

(* An order that is in no list is written to the map and appended to the    *)
(* list it points at.                                                       *)
LEMMA AgreeLink ==
  ASSUME NEW os \in Maps, NEW q \in Lists, NEW id \in Ids, NEW out,
         NEW o \in Order, Agree(os, q, out), os[id] = NoOrder \/ id \in out,
         NEW os2, os2 = WithOrder(os, id, o),
         NEW q2, q2 = Linked(q, o.parent, id), NEW out2, out2 = out \ {id}
  PROVE  /\ os2 \in Maps
         /\ q2 \in Lists
         /\ Agree(os2, q2, out2)
  <1> DEFINE m == o.parent
  <1>1. m \in Level /\ o # NoOrder
    BY NoOrderIsNoOrder DEF Order
  <1>2. id \notin ToSet(q[m])
    BY <1>1 DEF Agree
  <1>3. /\ Append(q[m], id) \in Seq(Ids)
        /\ IsInjective(Append(q[m], id))
        /\ ToSet(Append(q[m], id)) = ToSet(q[m]) \cup {id}
    BY <1>1, <1>2, AppendToList DEF Agree, Lists
  <1>4. q2 \in Lists /\ \A l \in Level : q2[l] = IF l = m THEN Append(q[m], id) ELSE q[l]
    BY <1>1, <1>3 DEF Linked, Lists
  <1>5. os2 \in Maps /\ \A x \in Ids : os2[x] = IF x = id THEN o ELSE os[x]
    BY DEF Maps, WithOrder
  <1>6. \A l \in Level : ToSet(q[l]) \subseteq Ids
    BY DEF Lists, ToSet
  <1>7. ASSUME NEW l \in Level
        PROVE  /\ IsInjective(q2[l])
               /\ \A x \in ToSet(q2[l]) : os2[x] # NoOrder /\ os2[x].parent = l /\ x \notin out \ {id}
    <2>1. CASE l = m
      BY <1>1, <1>2, <1>3, <1>4, <1>5, <1>6, <2>1 DEF Agree
    <2>2. CASE l # m
      <3>1. q2[l] = q[l] /\ id \notin ToSet(q[l])
        BY <1>4, <2>2 DEF Agree
      <3> QED
        BY <1>5, <1>6, <3>1 DEF Agree
    <2> QED
      BY <2>1, <2>2
  <1>8. ASSUME NEW x \in Ids, os2[x] # NoOrder, x \notin out \ {id}
        PROVE  x \in ToSet(q2[os2[x].parent])
    <2>1. CASE x = id
      BY <1>1, <1>3, <1>4, <1>5, <2>1
    <2>2. CASE x # id
      <3>1. os2[x] = os[x] /\ x \notin out /\ os[x].parent \in Level
        BY <1>5, <1>8, <2>2 DEF Maps, Order
      <3> QED
        BY <1>3, <1>4, <1>8, <3>1 DEF Agree
    <2> QED
      BY <2>1, <2>2
  <1> QED
    BY <1>4, <1>5, <1>7, <1>8 DEF Agree

(* An order is taken out of its list: the map still has it. *)
LEMMA AgreeTakeOut ==
  ASSUME NEW os \in Maps, NEW q \in Lists, NEW id \in Ids, NEW out,
         NEW m \in Level, NEW u \in Seq(Ids), Agree(os, q, out),
         id \in ToSet(q[m]), IsInjective(u), ToSet(u) = ToSet(q[m]) \ {id},
         NEW q2, q2 = WithList(q, m, u), NEW out2, out2 = out \cup {id}
  PROVE  /\ q2 \in Lists
         /\ Agree(os, q2, out2)
  <1>1. q2 \in Lists /\ \A l \in Level : q2[l] = IF l = m THEN u ELSE q[l]
    BY DEF Lists, WithList
  <1>2. \A l \in Level : id \in ToSet(q[l]) => l = m
    BY DEF Agree
  <1>3. ASSUME NEW l \in Level
        PROVE  /\ IsInjective(q2[l])
               /\ \A x \in ToSet(q2[l]) : os[x] # NoOrder /\ os[x].parent = l /\ x \notin out \cup {id}
    BY <1>1, <1>2 DEF Agree
  <1>4. ASSUME NEW x \in Ids, os[x] # NoOrder, x \notin out \cup {id}
        PROVE  x \in ToSet(q2[os[x].parent])
    <2>1. os[x].parent \in Level
      BY <1>4 DEF Maps, Order
    <2> QED
      BY <1>1, <1>4, <2>1 DEF Agree
  <1> QED
    BY <1>1, <1>3, <1>4 DEF Agree

(* An order in no list is erased from the map. *)
LEMMA AgreeErase ==
  ASSUME NEW os \in Maps, NEW q \in Lists, NEW id \in Ids, NEW out,
         Agree(os, q, out), id \in out,
         NEW os2, os2 = WithOrder(os, id, NoOrder), NEW out2, out2 = out \ {id}
  PROVE  /\ os2 \in Maps
         /\ Agree(os2, q, out2)
  <1>1. os2 \in Maps /\ \A x \in Ids : os2[x] = IF x = id THEN NoOrder ELSE os[x]
    BY DEF Maps, WithOrder
  <1>2. \A l \in Level : ToSet(q[l]) \subseteq Ids /\ id \notin ToSet(q[l])
    BY DEF Lists, ToSet, Agree
  <1> QED
    BY <1>1, <1>2 DEF Agree

(* The list of a live order that is not out, and what is left of it. *)
LEMMA AgreeUnlink ==
  ASSUME NEW os \in Maps, NEW q \in Lists, NEW id \in Ids,
         Agree(os, q, {}), os[id] # NoOrder,
         NEW q2, q2 = WithList(q, os[id].parent, Unlink(q[os[id].parent], id))
  PROVE  q2 \in Lists /\ Agree(os, q2, {id})
  <1> DEFINE m == os[id].parent
             u == Unlink(q[m], id)
  <1>1. m \in Level /\ id \in ToSet(q[m]) /\ IsInjective(q[m]) /\ q[m] \in Seq(Ids)
    BY DEF Maps, Order, Agree, Lists
  <1>2. u \in Seq(Ids) /\ IsInjective(u) /\ ToSet(u) = ToSet(q[m]) \ {id}
    BY <1>1, UnlinkFromList
  <1>3. q2 = WithList(q, m, u) /\ {id} = {} \cup {id}
    OBVIOUS
  <1> HIDE DEF m, u
  <1> QED
    BY <1>1, <1>2, <1>3, AgreeTakeOut

LEMMA UnlinkedOnlyShrinks ==
  ASSUME NEW os \in Maps, NEW q \in Lists, NEW id \in Ids,
         Agree(os, q, {}), os[id] # NoOrder,
         NEW q2, q2 = WithList(q, os[id].parent, Unlink(q[os[id].parent], id))
  PROVE  \A l \in Level : q2[l] # <<>> => q[l] # <<>>
  <1>1. os[id].parent \in Level /\ id \in ToSet(q[os[id].parent])
    BY DEF Maps, Order, Agree
  <1>2. q[os[id].parent] # <<>>
    BY <1>1 DEF ToSet
  <1> QED
    BY <1>1, <1>2 DEF WithList, Lists

-----------------------------------------------------------------------------
(* The steps *)

LEMMA InitKeepsInv == Init => BookInv
  <1> SUFFICES ASSUME Init PROVE BookInv
    OBVIOUS
  <1>1. TypeOK
    <2>1. call \in Call
      BY DEF Init, Call, NoCall, Side, Kind
    <2>2. nextId \in 1..(MaxOrders + 1) /\ calls \in Nat
      BY BookConstants DEF Init
    <2>3. queue \in [Level -> Seq(Ids)]
      BY DEF Init
    <2> QED
      BY <2>1, <2>2, <2>3 DEF Init, TypeOK
  <1>2. ListsMatchOrderMap
    <2>1. \A l \in Level : queue[l] = <<>>
      BY DEF Init
    <2>2. \A id \in Ids : orders[id] = NoOrder
      BY DEF Init
    <2> QED
      BY <2>1, <2>2 DEF ListsMatchOrderMap, IsInjective, ToSet
  <1>3. CallLocals /\ FreshIds
    BY DEF Init, NoCall, CallLocals, FreshIds
  <1>4. StopLevelsInTrees
    BY LevelNames DEF Init, StopLevelsInTrees
  <1> QED
    BY <1>1, <1>2, <1>3, <1>4 DEF BookInv

(* A new order that goes to the market at once only sets the locals. *)
LEMMA BeginKeepsInv ==
  ASSUME BookInv, NEW id \in Ids, NEW s \in Side, NEW q \in Quantities,
         NEW p \in Prices \cup {0}, NEW kind \in {"market", "limit"},
         kind = "limit" => p \in Prices,
         TakeId(id, q), Begin(Sweep(kind, id, s, q, p))
  PROVE  BookInv'
  <1>1. q \in Nat \ {0}
    BY BookConstants
  <1>2. TypeOK'
    BY <1>1, BookConstants
    DEF BookInv, TypeOK, TakeId, NextCall, Begin, Sweep, Call, Kind, Ids
  <1>3. ListsMatchOrderMap'
    BY DEF BookInv, TypeOK, ListsMatchOrderMap, Held, TakeId, NextCall, Begin, Sweep
  <1>4. CallLocals'
    BY DEF BookInv, TypeOK, FreshIds, CallLocals, TakeId, NextCall, Begin, Sweep, Ids
  <1>5. FreshIds'
    BY DEF BookInv, TypeOK, FreshIds, TakeId, NextCall, Begin, Ids
  <1>6. StopLevelsInTrees'
    BY StopTreesStay DEF BookInv, Begin
  <1> QED
    BY <1>2, <1>3, <1>4, <1>5, <1>6 DEF BookInv

(* A new stop order rests in the list of its stop level. *)
LEMMA StopRestsKeepsInv ==
  ASSUME BookInv, NEW id \in Ids, NEW s \in Side, NEW q \in Quantities,
         NEW p \in Prices \cup {0}, NEW sp \in Prices, TakeId(id, q),
         orders' = [orders EXCEPT ![id] = [side |-> s, shares |-> q, limit |-> p,
                                           parent |-> <<"stop", sp>>]],
         queue' = Linked(queue, <<"stop", sp>>, id),
         stopSide' = StopTrees(queue, queue', s),
         UNCHANGED call
  PROVE  BookInv'
  <1> DEFINE o == [side |-> s, shares |-> q, limit |-> p, parent |-> <<"stop", sp>>]
  <1>1. o \in Order /\ o.parent = <<"stop", sp>>
    BY BookConstants, LevelNames DEF Order
  <1>2. /\ orders \in Maps /\ queue \in Lists /\ call.stage = "idle" /\ HeldIds = {}
        /\ Agree(orders, queue, {})
    BY ListsAgree, NothingHeld DEF BookInv, TypeOK, Maps, Lists, TakeId, NextCall
  <1>3. orders[id] = NoOrder
    BY DEF BookInv, TypeOK, FreshIds, TakeId, Ids
  <1> HIDE DEF o
  <1>4. /\ orders' = WithOrder(orders, id, o) /\ queue' = Linked(queue, o.parent, id)
        /\ {} = {} \ {id}
    BY <1>1 DEF o, WithOrder
  <1>5. orders' \in Maps /\ queue' \in Lists /\ Agree(orders', queue', {})
    BY <1>1, <1>2, <1>3, <1>4, AgreeLink
  <1>6. TypeOK'
    <2>1. stopSide' \in [Prices -> Side \cup {"none"}]
      BY StopTreesType DEF BookInv, TypeOK
    <2>2. /\ call' \in Call /\ nextId' \in 1..(MaxOrders + 1) /\ calls' \in Nat
          /\ freed' \in BOOLEAN /\ done' \in [Ids -> Nat]
      BY BookConstants DEF BookInv, TypeOK, TakeId, NextCall, Ids
    <2>3. asked' \in [Ids -> Nat]
      BY BookConstants DEF BookInv, TypeOK, TakeId
    <2> QED
      BY <1>5, <2>1, <2>2, <2>3 DEF TypeOK, Maps, Lists
  <1>7. ListsMatchOrderMap'
    <2>1. HeldIds' = {}
      BY <1>2, NothingHeld
    <2> QED
      BY <1>5, <1>6, <2>1, ListsAgreeNext
  <1>8. CallLocals'
    BY <1>2 DEF CallLocals
  <1>9. FreshIds'
    BY <1>4 DEF BookInv, TypeOK, FreshIds, TakeId, Ids, WithOrder
  <1>10. StopLevelsInTrees'
    BY StopTreesFollow DEF BookInv, Side
  <1> QED
    BY <1>6, <1>7, <1>8, <1>9, <1>10 DEF BookInv

LEMMA CancelKeepsInv ==
  ASSUME BookInv, NEW id \in Ids, NEW levels, CancelOrder(id, levels)
  PROVE  BookInv'
  <1>1. /\ orders \in Maps /\ queue \in Lists /\ call.stage = "idle" /\ HeldIds = {}
        /\ Agree(orders, queue, {}) /\ orders[id] # NoOrder
    BY ListsAgree, NothingHeld DEF BookInv, TypeOK, Maps, Lists, CancelOrder, Lookup, NextCall
  <1>2. queue' = WithList(queue, orders[id].parent, Unlink(queue[orders[id].parent], id))
    BY DEF CancelOrder, Unlinked, WithList
  <1>3. queue' \in Lists /\ Agree(orders, queue', {id})
    BY <1>1, <1>2, AgreeUnlink
  <1>4. orders' = WithOrder(orders, id, NoOrder) /\ {} = {id} \ {id}
    BY DEF CancelOrder, WithOrder
  <1>5. orders' \in Maps /\ Agree(orders', queue', {})
    BY <1>1, <1>3, <1>4, AgreeErase
  <1>6. TypeOK'
    <2>1. stopSide' \in [Prices -> Side \cup {"none"}]
      BY StopTreesType DEF BookInv, TypeOK, CancelOrder
    <2> QED
      BY <1>3, <1>5, <2>1
      DEF BookInv, TypeOK, Maps, Lists, CancelOrder, Lookup, NextCall, FreesLevel
  <1>7. ListsMatchOrderMap'
    <2>1. HeldIds' = {}
      BY <1>1, NothingHeld DEF CancelOrder
    <2> QED
      BY <1>5, <1>6, <2>1, ListsAgreeNext
  <1>8. CallLocals'
    BY <1>1 DEF CallLocals, CancelOrder
  <1>9. FreshIds'
    BY <1>4 DEF BookInv, TypeOK, FreshIds, CancelOrder, WithOrder
  <1>10. StopLevelsInTrees'
    <2>1. \A l \in Level : queue'[l] # <<>> => queue[l] # <<>>
      BY <1>1, <1>2, UnlinkedOnlyShrinks
    <2> QED
      BY <2>1, LevelNames, StopTreesFollow DEF BookInv, CancelOrder
  <1> QED
    BY <1>6, <1>7, <1>8, <1>9, <1>10 DEF BookInv
LEMMA MoveKeepsInv ==
  ASSUME BookInv, NEW id \in Ids, NEW q \in Quantities, NEW p \in Prices \cup {0},
         NEW l \in Level, NEW levels, Move(id, q, p, l, levels)
  PROVE  BookInv'
  <1> DEFINE o  == [orders[id] EXCEPT !.shares = q, !.limit = p, !.parent = l]
             q1 == Unlinked(id)
  <1>1. /\ orders \in Maps /\ queue \in Lists /\ call.stage = "idle" /\ HeldIds = {}
        /\ Agree(orders, queue, {}) /\ orders[id] # NoOrder
    BY ListsAgree, NothingHeld DEF BookInv, TypeOK, Maps, Lists, Move, Lookup, NextCall
  <1>2. o \in Order /\ o.parent = l
    BY <1>1, BookConstants DEF Maps, Order
  <1>3. q1 = WithList(queue, orders[id].parent, Unlink(queue[orders[id].parent], id))
    BY DEF Unlinked, WithList
  <1>4. /\ {} = {id} \ {id}
        /\ orders' = WithOrder(orders, id, o)
        /\ queue' = Linked(q1, o.parent, id)
        /\ stopSide' = StopTrees(q1, queue', orders[id].side)
    BY <1>2 DEF Move, WithOrder
  <1> HIDE DEF o, q1
  <1>5. q1 \in Lists /\ Agree(orders, q1, {id})
    BY <1>1, <1>3, AgreeUnlink
  <1>6. orders' \in Maps /\ queue' \in Lists /\ Agree(orders', queue', {})
    BY <1>1, <1>2, <1>4, <1>5, AgreeLink
  <1>7. TypeOK'
    <2>1. orders[id].side \in Side \cup {"none"}
      BY <1>1 DEF Maps, Order
    <2>2. stopSide' \in [Prices -> Side \cup {"none"}]
      BY <1>4, <2>1, StopTreesType DEF BookInv, TypeOK
    <2>3. asked' \in [Ids -> Nat] /\ done' \in [Ids -> Nat]
      BY BookConstants DEF BookInv, TypeOK, Move
    <2> QED
      BY <1>6, <2>2, <2>3 DEF BookInv, TypeOK, Maps, Lists, Move, Lookup, NextCall, FreesLevel
  <1>8. ListsMatchOrderMap'
    <2>1. HeldIds' = {}
      BY <1>1, NothingHeld DEF Move
    <2> QED
      BY <1>6, <1>7, <2>1, ListsAgreeNext
  <1>9. CallLocals'
    BY <1>1 DEF CallLocals, Move
  <1>10. FreshIds'
    BY <1>1, <1>4 DEF BookInv, TypeOK, FreshIds, Move, WithOrder
  <1>11. StopLevelsInTrees'
    <2>1. \A l1 \in Level : q1[l1] # <<>> => queue[l1] # <<>>
      BY <1>1, <1>3, UnlinkedOnlyShrinks
    <2>2. orders[id].side \in Side
      BY <1>1 DEF Maps, Order
    <2> QED
      BY <1>4, <2>1, <2>2, LevelNames, StopTreesFollow DEF BookInv, Side
  <1> QED
    BY <1>7, <1>8, <1>9, <1>10, <1>11 DEF BookInv

-----------------------------------------------------------------------------
(* The steps of a running call *)

(* A sweep meets a level of the other side, whose head is a live order that *)
(* is not the one sweeping.                                                 *)
LEMMA HeadIsLive ==
  ASSUME BookInv, NEW p \in Prices, NextPrice(p), NEW l, l = <<Opposite(call.side), p>>
  PROVE  /\ l \in LimitLevel /\ queue[l] # <<>>
         /\ Head(queue[l]) \in Ids /\ Head(queue[l]) \in ToSet(queue[l])
         /\ orders[Head(queue[l])] \in Order
         /\ orders[Head(queue[l])].parent = l
         /\ Head(queue[l]) # call.id
         /\ Head(queue[l]) < nextId
  <1>1. l \in LimitLevel /\ l \in Level /\ queue[l] # <<>>
    BY LevelNames DEF BookInv, TypeOK, Call, NextPrice, IsEdge, Occupied
  <1>2. queue[l] \in Seq(Ids) /\ IsInjective(queue[l])
    BY <1>1 DEF BookInv, TypeOK, ListsMatchOrderMap
  <1>3. Head(queue[l]) \in Ids /\ Head(queue[l]) \in ToSet(queue[l])
    BY <1>1, <1>2, TailOfList
  <1>4. /\ orders[Head(queue[l])] # NoOrder /\ orders[Head(queue[l])].parent = l
        /\ ~Held(Head(queue[l]))
    BY <1>1, <1>3 DEF BookInv, ListsMatchOrderMap
  <1>5. orders[Head(queue[l])] \in Order
    BY <1>3, <1>4 DEF BookInv, TypeOK
  <1>6. Head(queue[l]) # call.id
    BY <1>4 DEF BookInv, CallLocals, Held, NextPrice
  <1>7. Head(queue[l]) < nextId
    BY <1>3, <1>4 DEF BookInv, TypeOK, FreshIds, Ids
  <1> QED
    BY <1>1, <1>3, <1>4, <1>5, <1>6, <1>7

(* What a trade of q shares does to the locals and the history. *)
LEMMA TradeTypes ==
  ASSUME BookInv, call.stage = "sweep", NEW h \in Ids, NEW q \in Nat \ {0}, h # call.id,
         q <= call.rest, Trade(h, q)
  PROVE  /\ call' \in Call
         /\ done' \in [Ids -> Nat]
         /\ call'.stage = call.stage /\ call'.kind = call.kind /\ call'.id = call.id
         /\ call'.side = call.side /\ call'.limit = call.limit
         /\ call'.rest = call.rest - q
         /\ done'[h] = done[h] + q
         /\ done'[call.id] = done[call.id] + q
         /\ \A id \in Ids : id # h /\ id # call.id => done'[id] = done[id]
  <1>1. call \in Call /\ call.id \in Ids /\ done \in [Ids -> Nat]
    BY DEF BookInv, TypeOK, CallLocals
  <1>2. call' = [call EXCEPT !.rest = call.rest - q]
    BY DEF Trade
  <1>3. done' = [done EXCEPT ![h] = done[h] + q, ![call.id] = done[call.id] + q]
    BY <1>1 DEF Trade
  <1>4. call.rest - q \in Nat
    BY <1>1 DEF Call
  <1>5. /\ call' \in Call
        /\ call'.stage = call.stage /\ call'.kind = call.kind /\ call'.id = call.id
        /\ call'.side = call.side /\ call'.limit = call.limit
        /\ call'.rest = call.rest - q
    BY <1>1, <1>2, <1>4 DEF Call
  <1> QED
    BY <1>1, <1>3, <1>5

(* The head of a level of the book leaves it. *)
LEMMA HeadLeaves ==
  ASSUME BookInv, NEW l \in Level, queue[l] # <<>>,
         queue' = WithList(queue, l, Tail(queue[l])),
         NEW out, out = HeldIds \cup {Head(queue[l])}
  PROVE  /\ Head(queue[l]) \in Ids \ HeldIds
         /\ orders[Head(queue[l])] # NoOrder
         /\ queue' \in Lists
         /\ Agree(orders, queue', out)
  <1> DEFINE h == Head(queue[l])
             u == Tail(queue[l])
  <1>1. orders \in Maps /\ queue \in Lists /\ Agree(orders, queue, HeldIds)
    BY ListsAgree DEF BookInv, TypeOK, Maps, Lists
  <1>2. queue[l] \in Seq(Ids) /\ IsInjective(queue[l])
    BY <1>1 DEF Lists, Agree
  <1>3. /\ u \in Seq(Ids) /\ IsInjective(u) /\ ToSet(u) = ToSet(queue[l]) \ {h}
        /\ h \in Ids /\ h \in ToSet(queue[l])
    BY <1>2, TailOfList
  <1>4. h \notin HeldIds /\ orders[h] # NoOrder
    BY <1>1, <1>3 DEF Agree
  <1>5. queue' = WithList(queue, l, u) /\ out = HeldIds \cup {h}
    OBVIOUS
  <1> HIDE DEF h, u
  <1>6. queue' \in Lists /\ Agree(orders, queue', out)
    BY <1>1, <1>3, <1>5, AgreeTakeOut
  <1> QED
    BY <1>3, <1>4, <1>6 DEF h

LEMMA FillHeadKeepsInv ==
  ASSUME BookInv, NEW p \in Prices, FillHead(p)
  PROVE  BookInv'
  <1> DEFINE l == <<Opposite(call.side), p>>
             h == Head(queue[l])
  <1>1. /\ NextPrice(p) /\ call.stage = "sweep" /\ orders[h].shares <= call.rest
        /\ Trade(h, orders[h].shares)
        /\ orders' = WithOrder(orders, h, NoOrder)
        /\ queue' = WithList(queue, l, Tail(queue[l]))
        /\ UNCHANGED <<stopSide, nextId, calls, freed, asked>>
    BY DEF FillHead, NextPrice, WithOrder, WithList
  <1>2. /\ l \in LimitLevel /\ queue[l] # <<>> /\ h \in Ids /\ orders[h] \in Order
        /\ h # call.id /\ h < nextId
    BY <1>1, HeadIsLive
  <1>3. /\ call' \in Call /\ done' \in [Ids -> Nat]
        /\ call'.stage = call.stage /\ call'.kind = call.kind /\ call'.id = call.id
        /\ call'.limit = call.limit
        /\ \A id \in Ids : id # h /\ id # call.id => done'[id] = done[id]
    <2>1. orders[h].shares \in Nat \ {0}
      BY <1>2 DEF Order
    <2> HIDE DEF h, l
    <2> QED
      BY <1>1, <1>2, <2>1, TradeTypes
  <1>4. orders \in Maps /\ queue \in Lists /\ Agree(orders, queue, HeldIds) /\ l \in Level
    BY <1>2, ListsAgree DEF BookInv, TypeOK, Maps, Lists, Level
  <1>5. /\ h \notin HeldIds /\ queue' \in Lists
        /\ Agree(orders, queue', HeldIds \cup {h})
    <2>1. PICK out : out = HeldIds \cup {h}
      OBVIOUS
    <2> QED
      BY <1>1, <1>2, <1>4, <2>1, HeadLeaves
  <1> HIDE DEF h, l
  <1>6. orders' \in Maps /\ Agree(orders', queue', HeldIds)
    <2>1. HeldIds = (HeldIds \cup {h}) \ {h} /\ h \in HeldIds \cup {h}
      BY <1>5
    <2> QED
      BY <1>1, <1>2, <1>4, <1>5, <2>1, AgreeErase
  <1>7. TypeOK'
    BY <1>1, <1>3, <1>5, <1>6 DEF BookInv, TypeOK, Maps, Lists
  <1>8. ListsMatchOrderMap'
    <2>1. HeldIds' = HeldIds
      BY <1>3 DEF HeldIds, Held
    <2> QED
      BY <1>6, <1>7, <2>1, ListsAgreeNext
  <1>9. CallLocals'
    BY <1>1, <1>2, <1>3 DEF BookInv, TypeOK, CallLocals, WithOrder
  <1>10. FreshIds'
    <2>1. call.id < nextId
      BY <1>1 DEF BookInv, CallLocals
    <2>2. ASSUME NEW id \in Ids, id >= nextId
          PROVE  orders'[id] = NoOrder /\ done'[id] = 0
      <3>1. id # h /\ id # call.id /\ orders[id] = NoOrder /\ done[id] = 0
        BY <1>2, <2>1, <2>2 DEF BookInv, TypeOK, FreshIds, Ids
      <3> QED
        BY <1>1, <1>3, <1>4, <3>1 DEF WithOrder, Maps
    <2> QED
      BY <1>1, <2>2 DEF FreshIds
  <1>11. StopLevelsInTrees'
    <2>1. \A sp \in Prices : l # <<"stop", sp>> /\ <<"stop", sp>> \in Level
      BY <1>2, LevelNames DEF LimitLevel, Side, l
    <2>2. \A sp \in Prices : queue'[<<"stop", sp>>] = queue[<<"stop", sp>>]
      BY <1>1, <1>4, <2>1 DEF Lists, WithList
    <2> QED
      BY <1>1, <2>2, StopTreesStay DEF BookInv
  <1> QED
    BY <1>7, <1>8, <1>9, <1>10, <1>11 DEF BookInv

LEMMA FillHeadPartlyKeepsInv ==
  ASSUME BookInv, NEW p \in Prices, FillHeadPartly(p)
  PROVE  BookInv'
  <1> DEFINE l == <<Opposite(call.side), p>>
             h == Head(queue[l])
             left == orders[h].shares - call.rest
  <1>1. /\ NextPrice(p) /\ call.stage = "sweep" /\ call.rest > 0
        /\ orders[h].shares > call.rest
        /\ Trade(h, call.rest)
        /\ orders' = [orders EXCEPT ![h].shares = left]
        /\ UNCHANGED <<queue, stopSide, nextId, calls, freed, asked>>
    BY DEF FillHeadPartly, NextPrice
  <1>2. /\ l \in LimitLevel /\ h \in Ids /\ orders[h] \in Order
        /\ h # call.id /\ h < nextId
    BY <1>1, HeadIsLive
  <1> HIDE DEF h, l
  <1>3. call.rest \in Nat \ {0} /\ left \in Nat \ {0} /\ call.rest <= call.rest
    <2>1. call.rest \in Nat
      BY DEF BookInv, TypeOK, Call
    <2>2. orders[h].shares \in Nat
      BY <1>2 DEF Order
    <2> QED
      BY <1>1, <2>1, <2>2
  <1> HIDE DEF left
  <1>4. /\ call' \in Call /\ done' \in [Ids -> Nat]
        /\ call'.stage = call.stage /\ call'.kind = call.kind /\ call'.id = call.id
        /\ call'.limit = call.limit
        /\ \A id \in Ids : id # h /\ id # call.id => done'[id] = done[id]
    BY <1>1, <1>2, <1>3, TradeTypes
  <1>5. [orders[h] EXCEPT !.shares = left] \in Order
    BY <1>2, <1>3 DEF Order
  <1>6. /\ \A x \in Ids : x # h => orders'[x] = orders[x]
        /\ orders'[h] = [orders[h] EXCEPT !.shares = left]
        /\ orders' \in [Ids -> Order \cup {NoOrder}]
    BY <1>1, <1>2, <1>5 DEF BookInv, TypeOK
  <1>7. orders[h] # NoOrder /\ orders'[h] # NoOrder /\ orders'[h].parent = orders[h].parent
    BY <1>2, <1>5, <1>6, NoOrderIsNoOrder DEF Order
  <1>8. TypeOK'
    BY <1>1, <1>4, <1>6 DEF BookInv, TypeOK
  <1>9. ListsMatchOrderMap'
    <2>1. /\ \A x \in Ids : orders'[x] # NoOrder <=> orders[x] # NoOrder
          /\ \A x \in Ids : orders[x] # NoOrder => orders'[x].parent = orders[x].parent
          /\ \A x \in Ids : Held(x)' <=> Held(x)
      BY <1>4, <1>6, <1>7 DEF Held
    <2>2. \A l1 \in Level : ToSet(queue[l1]) \subseteq Ids
      BY DEF BookInv, TypeOK, ToSet
    <2> QED
      BY <1>1, <2>1, <2>2 DEF BookInv, ListsMatchOrderMap
  <1>10. CallLocals'
    BY <1>1, <1>2, <1>4, <1>6 DEF BookInv, CallLocals
  <1>11. FreshIds'
    BY <1>1, <1>2, <1>4, <1>6 DEF BookInv, TypeOK, CallLocals, FreshIds, Ids
  <1>12. StopLevelsInTrees'
    BY <1>1, StopTreesStay DEF BookInv
  <1> QED
    BY <1>8, <1>9, <1>10, <1>11, <1>12 DEF BookInv
(* A call outside a sweep has no locals to keep. *)
LEMMA NextCallTypes ==
  ASSUME BookInv
  PROVE  /\ Stops(call.side) \in Call /\ Stops(call.side).stage = "stops"
         /\ NoCall \in Call /\ NoCall.stage = "idle"
  BY DEF BookInv, TypeOK, Call, Stops, NoCall, Side, Kind

(* The sweep of a triggered stop-limit order holds that order only. *)
LEMMA SweepHolds ==
  ASSUME BookInv, call.stage = "sweep"
  PROVE  HeldIds = IF call.kind = "stopLimit" THEN {call.id} ELSE {}
  <1>1. call.id \in Ids
    BY DEF BookInv, CallLocals
  <1> QED
    BY <1>1 DEF HeldIds, Held

LEMMA MarketSweepEndsKeepsInv ==
  ASSUME BookInv, MarketSweepEnds
  PROVE  BookInv'
  <1>1. /\ call.stage = "sweep" /\ call.kind # "stopLimit" /\ call' = Stops(call.side)
        /\ UNCHANGED <<orders, queue, stopSide, nextId, calls, freed, asked, done>>
    BY DEF MarketSweepEnds, SweepEnds
  <1>2. call' \in Call /\ call'.stage = "stops"
    BY <1>1, NextCallTypes
  <1>3. TypeOK'
    BY <1>1, <1>2 DEF BookInv, TypeOK
  <1>4. ListsMatchOrderMap'
    BY <1>1, <1>2 DEF BookInv, ListsMatchOrderMap, Held
  <1>5. CallLocals' /\ FreshIds'
    BY <1>1, <1>2 DEF BookInv, CallLocals, FreshIds
  <1>6. StopLevelsInTrees'
    BY <1>1, StopTreesStay DEF BookInv
  <1> QED
    BY <1>3, <1>4, <1>5, <1>6 DEF BookInv

LEMMA CallReturnsKeepsInv ==
  ASSUME BookInv, CallReturns
  PROVE  BookInv'
  <1>1. /\ call.stage = "stops" /\ call' = NoCall
        /\ UNCHANGED <<orders, queue, stopSide, nextId, calls, freed, asked, done>>
    BY DEF CallReturns
  <1>2. call' \in Call /\ call'.stage = "idle"
    BY <1>1, NextCallTypes
  <1>3. TypeOK'
    BY <1>1, <1>2 DEF BookInv, TypeOK
  <1>4. ListsMatchOrderMap'
    BY <1>1, <1>2 DEF BookInv, ListsMatchOrderMap, Held
  <1>5. CallLocals' /\ FreshIds'
    BY <1>1, <1>2 DEF BookInv, CallLocals, FreshIds
  <1>6. StopLevelsInTrees'
    BY <1>1, StopTreesStay DEF BookInv
  <1> QED
    BY <1>3, <1>4, <1>5, <1>6 DEF BookInv

LEMMA LimitOrderRestsKeepsInv ==
  ASSUME BookInv, LimitOrderRests
  PROVE  BookInv'
  <1> DEFINE l == <<call.side, call.limit>>
             o == [side |-> call.side, shares |-> call.rest, limit |-> call.limit, parent |-> l]
  <1>1. /\ call.stage = "sweep" /\ call.kind = "limit" /\ call.rest > 0
        /\ orders' = WithOrder(orders, call.id, o) /\ queue' = Linked(queue, o.parent, call.id)
        /\ call' = NoCall
        /\ UNCHANGED <<stopSide, nextId, calls, freed, asked, done>>
    BY DEF LimitOrderRests, SweepEnds, WithOrder
  <1>2. /\ call.id \in Ids /\ call.id < nextId /\ call.limit \in Prices /\ call.side \in Side
        /\ call.rest \in Nat \ {0} /\ orders[call.id] = NoOrder
    BY <1>1 DEF BookInv, TypeOK, Call, CallLocals
  <1>3. o \in Order
    BY <1>2, LevelNames DEF Order
  <1>4. orders \in Maps /\ queue \in Lists /\ Agree(orders, queue, {})
    BY <1>1, ListsAgree, NothingHeld DEF BookInv, TypeOK, Maps, Lists
  <1> HIDE DEF o, l
  <1>5. orders' \in Maps /\ queue' \in Lists /\ Agree(orders', queue', {})
    <2>1. orders' = WithOrder(orders, call.id, o) /\ queue' = Linked(queue, o.parent, call.id)
      BY <1>1
    <2>2. call.id \in Ids /\ orders[call.id] = NoOrder /\ {} = {} \ {call.id}
      BY <1>2
    <2> QED
      BY <1>3, <1>4, <2>1, <2>2, AgreeLink
  <1>6. call' \in Call /\ call'.stage = "idle" /\ HeldIds' = {}
    BY <1>1, NextCallTypes, NothingHeld
  <1>7. TypeOK'
    BY <1>1, <1>5, <1>6 DEF BookInv, TypeOK, Maps, Lists
  <1>8. ListsMatchOrderMap'
    BY <1>5, <1>6, <1>7, ListsAgreeNext
  <1>9. CallLocals'
    BY <1>6 DEF CallLocals
  <1>10. FreshIds'
    BY <1>1, <1>2 DEF BookInv, TypeOK, FreshIds, WithOrder, Ids
  <1>11. StopLevelsInTrees'
    <2>1. \A sp \in Prices : <<call.side, call.limit>> # <<"stop", sp>> /\ <<"stop", sp>> \in Level
      BY <1>2, LevelNames DEF Side
    <2>2. \A sp \in Prices : queue'[<<"stop", sp>>] = queue[<<"stop", sp>>]
      BY <1>1, <1>4, <2>1 DEF Lists, Linked, o, l
    <2> QED
      BY <1>1, <2>2, StopTreesStay DEF BookInv
  <1> QED
    BY <1>7, <1>8, <1>9, <1>10, <1>11 DEF BookInv

LEMMA StopLimitFilledKeepsInv ==
  ASSUME BookInv, StopLimitFilled
  PROVE  BookInv'
  <1>1. /\ call.stage = "sweep" /\ call.kind = "stopLimit"
        /\ orders' = WithOrder(orders, call.id, NoOrder) /\ call' = Stops(call.side)
        /\ UNCHANGED <<queue, stopSide, nextId, calls, freed, asked, done>>
    BY DEF StopLimitFilled, SweepEnds, WithOrder
  <1>2. call.id \in Ids /\ call.id \in {call.id} /\ {} = {call.id} \ {call.id}
    BY <1>1 DEF BookInv, CallLocals
  <1>3. orders \in Maps /\ queue \in Lists /\ Agree(orders, queue, {call.id})
    BY <1>1, ListsAgree, SweepHolds DEF BookInv, TypeOK, Maps, Lists
  <1>4. orders' \in Maps /\ Agree(orders', queue, {})
    BY <1>1, <1>2, <1>3, AgreeErase
  <1>5. call' \in Call /\ call'.stage = "stops" /\ HeldIds' = {}
    BY <1>1, NextCallTypes, NothingHeld
  <1>6. TypeOK'
    BY <1>1, <1>4, <1>5 DEF BookInv, TypeOK, Maps
  <1>7. ListsMatchOrderMap'
    BY <1>1, <1>4, <1>5, <1>6, ListsAgreeNext
  <1>8. CallLocals'
    BY <1>5 DEF CallLocals
  <1>9. FreshIds'
    BY <1>1, <1>2 DEF BookInv, TypeOK, FreshIds, WithOrder
  <1>10. StopLevelsInTrees'
    BY <1>1, StopTreesStay DEF BookInv
  <1> QED
    BY <1>6, <1>7, <1>8, <1>9, <1>10 DEF BookInv

LEMMA StopLimitRestsKeepsInv ==
  ASSUME BookInv, StopLimitRests
  PROVE  BookInv'
  <1> DEFINE l == <<call.side, call.limit>>
             o == [orders[call.id] EXCEPT !.shares = call.rest, !.parent = l]
  <1>1. /\ call.stage = "sweep" /\ call.kind = "stopLimit" /\ call.rest > 0
        /\ orders' = [orders EXCEPT ![call.id].shares = call.rest, ![call.id].parent = l]
        /\ queue' = Linked(queue, l, call.id) /\ call' = Stops(call.side)
        /\ UNCHANGED <<stopSide, nextId, calls, freed, asked, done>>
    BY DEF StopLimitRests, SweepEnds
  <1>2. /\ call.id \in Ids /\ call.id < nextId /\ call.limit \in Prices /\ call.side \in Side
        /\ call.rest \in Nat \ {0} /\ orders[call.id] \in Order
    BY <1>1 DEF BookInv, TypeOK, Call, CallLocals
  <1>3. l \in Level
    BY <1>2, LevelNames
  <1>4. o \in Order /\ o.parent = l
    BY <1>2, <1>3 DEF Order
  <1>5. orders \in Maps /\ queue \in Lists /\ Agree(orders, queue, {call.id})
    BY <1>1, ListsAgree, SweepHolds DEF BookInv, TypeOK, Maps, Lists
  <1>6. orders' = WithOrder(orders, call.id, o)
    BY <1>1, <1>2, <1>5 DEF Maps, WithOrder
  <1> HIDE DEF o, l
  <1>7. queue' = Linked(queue, o.parent, call.id)
    BY <1>1, <1>4
  <1>8. call.id \in {call.id} /\ {} = {call.id} \ {call.id}
    OBVIOUS
  <1>9. orders' \in Maps /\ queue' \in Lists /\ Agree(orders', queue', {})
    BY <1>2, <1>4, <1>5, <1>6, <1>7, <1>8, AgreeLink
  <1>10. call' \in Call /\ call'.stage = "stops" /\ HeldIds' = {}
    BY <1>1, NextCallTypes, NothingHeld
  <1>11. TypeOK'
    BY <1>1, <1>9, <1>10 DEF BookInv, TypeOK, Maps, Lists
  <1>12. ListsMatchOrderMap'
    BY <1>9, <1>10, <1>11, ListsAgreeNext
  <1>13. CallLocals'
    BY <1>10 DEF CallLocals
  <1>14. FreshIds'
    BY <1>1, <1>2, <1>6 DEF BookInv, TypeOK, FreshIds, WithOrder, Ids
  <1>15. StopLevelsInTrees'
    <2>1. \A sp \in Prices : <<call.side, call.limit>> # <<"stop", sp>> /\ <<"stop", sp>> \in Level
      BY <1>2, LevelNames DEF Side
    <2>2. \A sp \in Prices : queue'[<<"stop", sp>>] = queue[<<"stop", sp>>]
      BY <1>1, <1>5, <2>1 DEF Lists, Linked, o, l
    <2> QED
      BY <1>1, <2>2, StopTreesStay DEF BookInv
  <1> QED
    BY <1>11, <1>12, <1>13, <1>14, <1>15 DEF BookInv
LEMMA TriggerStopKeepsInv ==
  ASSUME BookInv, NEW p \in Prices, TriggerStop(p)
  PROVE  BookInv'
  <1> DEFINE l == <<"stop", p>>
             h == Head(queue[l])
             o == orders[h]
  <1>1. /\ call.stage = "stops" /\ stopSide[p] = call.side
        /\ queue' = WithList(queue, l, Tail(queue[l]))
        /\ stopSide' = StopTrees(queue', queue', "none")
        /\ \/ /\ o.limit = 0
              /\ orders' = WithOrder(orders, h, NoOrder)
              /\ call' = Sweep("stopMarket", h, call.side, o.shares, 0)
           \/ /\ o.limit # 0
              /\ call' = Sweep("stopLimit", h, call.side, o.shares, o.limit)
              /\ orders' = orders
        /\ UNCHANGED <<nextId, calls, freed, asked, done>>
    BY DEF TriggerStop, StopDue, IsStopEdge, StopPrices, WithOrder, WithList
  <1>2. l \in Level
    BY LevelNames
  <1>3. /\ orders \in Maps /\ queue \in Lists /\ HeldIds = {} /\ Agree(orders, queue, {})
    BY <1>1, ListsAgree, NothingHeld DEF BookInv, TypeOK, Maps, Lists
  <1>4. queue[l] # <<>> /\ call.side \in Side
    <2>1. call.side \in Side
      BY DEF BookInv, TypeOK, Call
    <2> QED
      BY <1>1, <2>1 DEF BookInv, StopLevelsInTrees, Side
  <1>5. h \in Ids /\ orders[h] # NoOrder /\ queue' \in Lists /\ Agree(orders, queue', {h})
    <2>1. PICK out : out = HeldIds \cup {h} /\ out = {h}
      BY <1>3
    <2> QED
      BY <1>1, <1>2, <1>4, <2>1, HeadLeaves
  <1> HIDE DEF h, l
  <1>6. {} = {h} \ {h} /\ h \in {h}
    OBVIOUS
  <1>8. o \in Order /\ o.shares \in Nat \ {0} /\ o.limit \in Prices \cup {0} /\ h < nextId
    BY <1>3, <1>5 DEF Maps, Order, BookInv, TypeOK, FreshIds, Ids
  <1> HIDE DEF o
  <1>9. StopLevelsInTrees'
    <2>1. \A sp \in Prices : queue'[<<"stop", sp>>] # <<>> => queue[<<"stop", sp>>] # <<>>
      BY <1>1, <1>2, <1>3, <1>4, LevelNames DEF Lists, WithList
    <2> QED
      BY <1>1, <2>1, StopTreesFollow DEF BookInv
  <1>10. stopSide' \in [Prices -> Side \cup {"none"}]
    BY <1>1, StopTreesType DEF BookInv, TypeOK
  <1>11. FreshIds'
    BY <1>1, <1>8 DEF BookInv, TypeOK, FreshIds, WithOrder
  <1>12. CASE o.limit = 0
    <2>1. orders' = WithOrder(orders, h, NoOrder) /\ call' = Sweep("stopMarket", h, call.side, o.shares, 0)
      BY <1>1, <1>12
    <2>2. orders' \in Maps /\ Agree(orders', queue', {})
      BY <1>3, <1>6, <1>5, <2>1, AgreeErase
    <2>3. /\ call' \in Call /\ call'.stage = "sweep" /\ call'.kind = "stopMarket" /\ call'.id = h
      BY <1>4, <1>5, <1>8, <2>1 DEF Call, Kind, Sweep
    <2>4. TypeOK'
      BY <1>1, <1>5, <1>10, <2>2, <2>3 DEF BookInv, TypeOK, Maps, Lists
    <2>5. ListsMatchOrderMap'
      BY <2>2, <2>3, <2>4, NothingHeld, ListsAgreeNext
    <2>6. CallLocals'
      BY <1>1, <1>3, <1>5, <1>8, <2>1, <2>3 DEF CallLocals, WithOrder, Maps
    <2> QED
      BY <1>9, <1>11, <2>4, <2>5, <2>6 DEF BookInv
  <1>13. CASE o.limit # 0
    <2>1. orders' = orders /\ call' = Sweep("stopLimit", h, call.side, o.shares, o.limit)
      BY <1>1, <1>13
    <2>2. /\ call' \in Call /\ call'.stage = "sweep" /\ call'.kind = "stopLimit" /\ call'.id = h
          /\ call'.limit = o.limit
      BY <1>4, <1>5, <1>8, <2>1 DEF Call, Kind, Sweep
    <2>3. TypeOK'
      BY <1>1, <1>3, <1>5, <1>10, <2>1, <2>2 DEF BookInv, TypeOK, Maps, Lists
    <2>4. HeldIds' = {h}
      BY <1>5, <2>2 DEF HeldIds, Held
    <2>5. ListsMatchOrderMap'
      BY <1>5, <2>1, <2>3, <2>4, ListsAgreeNext
    <2>6. CallLocals'
      BY <1>1, <1>5, <1>8, <1>13, <2>1, <2>2 DEF CallLocals, o
    <2> QED
      BY <1>9, <1>11, <2>3, <2>5, <2>6 DEF BookInv
  <1> QED
    BY <1>12, <1>13
-----------------------------------------------------------------------------
(* The inductive invariant *)

LEMMA SubmitKeepsInv ==
  ASSUME BookInv, SubmitOn(Side)
  PROVE  BookInv'
  <1>1. PICK id \in Ids, s \in Side, q \in Quantities :
           \/ MarketOrder(id, s, q)
           \/ \E p \in Prices : \/ AddLimitOrder(id, s, q, p)
                                \/ AddStopOrder(id, s, q, p)
                                \/ \E sp \in Prices : AddStopLimitOrder(id, s, q, p, sp)
    BY DEF SubmitOn
  <1>2. CASE MarketOrder(id, s, q)
    BY <1>2, BeginKeepsInv DEF MarketOrder
  <1>3. ASSUME NEW p \in Prices, AddLimitOrder(id, s, q, p)
        PROVE  BookInv'
    BY <1>3, BeginKeepsInv DEF AddLimitOrder
  <1>4. ASSUME NEW sp \in Prices, AddStopOrder(id, s, q, sp)
        PROVE  BookInv'
    <2>1. CASE Begin(Sweep("market", id, s, q, 0))
      BY <1>4, <2>1, BeginKeepsInv DEF AddStopOrder
    <2>2. CASE ~Begin(Sweep("market", id, s, q, 0))
      <3>1. 0 \in Prices \cup {0}
        OBVIOUS
      <3> QED
        BY <1>4, <2>2, <3>1, StopRestsKeepsInv DEF AddStopOrder
    <2> QED
      BY <2>1, <2>2
  <1>5. ASSUME NEW p \in Prices, NEW sp \in Prices, AddStopLimitOrder(id, s, q, p, sp)
        PROVE  BookInv'
    <2>1. CASE Begin(Sweep("limit", id, s, q, p))
      BY <1>5, <2>1, BeginKeepsInv DEF AddStopLimitOrder
    <2>2. CASE ~Begin(Sweep("limit", id, s, q, p))
      BY <1>5, <2>2, StopRestsKeepsInv DEF AddStopLimitOrder
    <2> QED
      BY <2>1, <2>2
  <1> QED
    BY <1>1, <1>2, <1>3, <1>4, <1>5

LEMMA ModifyKeepsInv ==
  ASSUME BookInv, Modify
  PROVE  BookInv'
  <1>1. PICK id \in Ids, q \in Quantities, p \in Prices :
           \/ ModifyLimitOrder(id, q, p)
           \/ ModifyStopOrder(id, q, p)
           \/ \E sp \in Prices : ModifyStopLimitOrder(id, q, p, sp)
    BY DEF Modify
  <1>2. CASE ModifyLimitOrder(id, q, p)
    <2>1. orders[id] \in Order
      BY <1>2 DEF BookInv, TypeOK, ModifyLimitOrder
    <2>2. <<orders[id].side, p>> \in Level
      BY <2>1, LevelNames DEF Order
    <2> QED
      BY <1>2, <2>2, MoveKeepsInv DEF ModifyLimitOrder
  <1>3. CASE ModifyStopOrder(id, q, p)
    <2>1. <<"stop", p>> \in Level /\ 0 \in Prices \cup {0}
      BY LevelNames
    <2> QED
      BY <1>3, <2>1, MoveKeepsInv DEF ModifyStopOrder
  <1>4. ASSUME NEW sp \in Prices, ModifyStopLimitOrder(id, q, p, sp)
        PROVE  BookInv'
    <2>1. <<"stop", sp>> \in Level
      BY LevelNames
    <2> QED
      BY <1>4, <2>1, MoveKeepsInv DEF ModifyStopLimitOrder
  <1> QED
    BY <1>1, <1>2, <1>3, <1>4

LEMMA NextKeepsInv == BookInv /\ [Next]_vars => BookInv'
  <1> SUFFICES ASSUME BookInv, [Next]_vars
               PROVE  BookInv'
    OBVIOUS
  <1>1. CASE SubmitOn(Side)
    BY <1>1, SubmitKeepsInv
  <1>2. CASE Cancel
    BY <1>2, CancelKeepsInv DEF Cancel, CancelLimitOrder, CancelStopOrder
  <1>3. CASE Modify
    BY <1>3, ModifyKeepsInv
  <1>4. CASE EngineStep
    BY <1>4, FillHeadKeepsInv, FillHeadPartlyKeepsInv, TriggerStopKeepsInv,
       MarketSweepEndsKeepsInv, LimitOrderRestsKeepsInv, StopLimitFilledKeepsInv,
       StopLimitRestsKeepsInv, CallReturnsKeepsInv DEF EngineStep
  <1>5. CASE UNCHANGED vars
    <2>1. TypeOK'
      BY <1>5 DEF BookInv, TypeOK, vars
    <2>2. ListsMatchOrderMap'
      BY <1>5 DEF BookInv, ListsMatchOrderMap, Held, vars
    <2>3. CallLocals' /\ FreshIds' /\ StopLevelsInTrees'
      BY <1>5 DEF BookInv, CallLocals, FreshIds, StopLevelsInTrees, vars
    <2> QED
      BY <2>1, <2>2, <2>3 DEF BookInv
  <1> QED
    BY <1>1, <1>2, <1>3, <1>4, <1>5 DEF Next

(* The inductive invariant holds in every state, however many orders are    *)
(* placed and whichever calls are made before a level is freed in use.      *)
THEOREM BookInvariant == Spec => []BookInv
  BY InitKeepsInv, NextKeepsInv, PTL DEF Spec

(* Type correctness: among the rest, an order of the book always has a      *)
(* positive number of shares, which the sweep's head comparison relies on.  *)
THEOREM TypeCorrect == Spec => []TypeOK
  <1>1. BookInv => TypeOK
    BY DEF BookInv
  <1> QED
    BY <1>1, BookInvariant, PTL

(* orderMap, the parentLimit pointers and the lists always agree, through   *)
(* every sweep, stop trigger, cancel and modify.                            *)
THEOREM ListsMatch == Spec => []ListsMatchOrderMap
  <1>1. BookInv => ListsMatchOrderMap
    BY DEF BookInv
  <1> QED
    BY <1>1, BookInvariant, PTL
-----------------------------------------------------------------------------
(* Shares *)

LEMMA SubmitKeepsShares ==
  ASSUME BookInv, SharesAccounted, SubmitOn(Side)
  PROVE  SharesAccounted'
  <1>1. PICK id \in Ids, s \in Side, q \in Quantities :
           \/ MarketOrder(id, s, q)
           \/ \E p \in Prices : \/ AddLimitOrder(id, s, q, p)
                                \/ AddStopOrder(id, s, q, p)
                                \/ \E sp \in Prices : AddStopLimitOrder(id, s, q, p, sp)
    BY DEF SubmitOn
  <1>2. TakeId(id, q)
    BY <1>1 DEF MarketOrder, AddLimitOrder, AddStopOrder, AddStopLimitOrder
  <1>3. /\ call.stage = "idle" /\ id = nextId /\ done' = done
        /\ asked' = [asked EXCEPT ![id] = q]
    BY <1>2 DEF TakeId, NextCall
  <1>4. /\ asked'[id] = q /\ done'[id] = 0 /\ orders[id] = NoOrder
        /\ \A x \in Ids : x # id => asked'[x] = asked[x] /\ done'[x] = done[x]
        /\ q \in Nat
    BY <1>3, BookConstants DEF BookInv, TypeOK, FreshIds, Ids
  <1>5. \A x \in Ids : orders[x] # NoOrder => asked[x] = done[x] + orders[x].shares
    BY <1>3 DEF SharesAccounted, Held
  <1>6. ASSUME NEW kind \in {"market", "limit"}, NEW p, Begin(Sweep(kind, id, s, q, p))
        PROVE  SharesAccounted'
    <2>1. /\ orders' = orders /\ call'.stage = "sweep" /\ call'.id = id /\ call'.rest = q
      BY <1>6 DEF Begin, Sweep
    <2> QED
      BY <1>4, <1>5, <2>1 DEF SharesAccounted
  <1>7. ASSUME NEW o, o.shares = q, orders' = [orders EXCEPT ![id] = o], UNCHANGED call
        PROVE  SharesAccounted'
    <2>1. orders'[id].shares = q /\ \A x \in Ids : x # id => orders'[x] = orders[x]
      BY <1>7 DEF BookInv, TypeOK
    <2>2. call'.stage = "idle"
      BY <1>3, <1>7
    <2>3. ASSUME NEW x \in Ids, orders'[x] # NoOrder
          PROVE  asked'[x] = done'[x] + orders'[x].shares
      BY <1>4, <1>5, <2>1, <2>3
    <2> QED
      BY <2>2, <2>3 DEF SharesAccounted
  <1>8. CASE MarketOrder(id, s, q)
    BY <1>6, <1>8 DEF MarketOrder
  <1>9. ASSUME NEW p \in Prices, AddLimitOrder(id, s, q, p)
        PROVE  SharesAccounted'
    BY <1>6, <1>9 DEF AddLimitOrder
  <1>10. ASSUME NEW sp \in Prices, AddStopOrder(id, s, q, sp)
         PROVE  SharesAccounted'
    <2> DEFINE o == [side |-> s, shares |-> q, limit |-> 0, parent |-> <<"stop", sp>>]
    <2>1. CASE Begin(Sweep("market", id, s, q, 0))
      BY <1>6, <2>1
    <2>2. CASE ~Begin(Sweep("market", id, s, q, 0))
      <3>1. orders' = [orders EXCEPT ![id] = o] /\ UNCHANGED call /\ o.shares = q
        BY <1>10, <2>2 DEF AddStopOrder
      <3> HIDE DEF o
      <3> QED
        BY <1>7, <3>1
    <2> QED
      BY <2>1, <2>2
  <1>11. ASSUME NEW p \in Prices, NEW sp \in Prices, AddStopLimitOrder(id, s, q, p, sp)
         PROVE  SharesAccounted'
    <2> DEFINE o == [side |-> s, shares |-> q, limit |-> p, parent |-> <<"stop", sp>>]
    <2>1. CASE Begin(Sweep("limit", id, s, q, p))
      BY <1>6, <2>1
    <2>2. CASE ~Begin(Sweep("limit", id, s, q, p))
      <3>1. orders' = [orders EXCEPT ![id] = o] /\ UNCHANGED call /\ o.shares = q
        BY <1>11, <2>2 DEF AddStopLimitOrder
      <3> HIDE DEF o
      <3> QED
        BY <1>7, <3>1
    <2> QED
      BY <2>1, <2>2
  <1> QED
    BY <1>1, <1>8, <1>9, <1>10, <1>11

LEMMA CancelKeepsShares ==
  ASSUME BookInv, SharesAccounted, NEW id \in Ids, NEW levels, CancelOrder(id, levels)
  PROVE  SharesAccounted'
  <1>1. /\ call.stage = "idle" /\ call' = call /\ asked' = asked /\ done' = done
        /\ orders' = [orders EXCEPT ![id] = NoOrder]
    BY DEF CancelOrder, Lookup, NextCall
  <1>2. \A x \in Ids : orders'[x] = IF x = id THEN NoOrder ELSE orders[x]
    BY <1>1 DEF BookInv, TypeOK
  <1> QED
    BY <1>1, <1>2 DEF SharesAccounted, Held

LEMMA MoveKeepsShares ==
  ASSUME BookInv, SharesAccounted, NEW id \in Ids, NEW q \in Quantities, NEW p, NEW l,
         NEW levels, Move(id, q, p, l, levels)
  PROVE  SharesAccounted'
  <1>1. /\ call.stage = "idle" /\ call' = call
        /\ asked' = [asked EXCEPT ![id] = q] /\ done' = [done EXCEPT ![id] = 0]
        /\ orders' = [orders EXCEPT ![id].shares = q, ![id].limit = p, ![id].parent = l]
        /\ orders[id] # NoOrder
    BY DEF Move, Lookup, NextCall
  <1>2. orders[id] \in Order
    BY <1>1 DEF BookInv, TypeOK
  <1>3. orders'[id].shares = q /\ \A x \in Ids : x # id => orders'[x] = orders[x]
    BY <1>1, <1>2 DEF BookInv, TypeOK, Order
  <1>4. /\ asked'[id] = q /\ done'[id] = 0 /\ q \in Nat
        /\ \A x \in Ids : x # id => asked'[x] = asked[x] /\ done'[x] = done[x]
    BY <1>1, BookConstants DEF BookInv, TypeOK
  <1>5. \A x \in Ids : orders[x] # NoOrder => asked[x] = done[x] + orders[x].shares
    BY <1>1 DEF SharesAccounted, Held
  <1>6. ASSUME NEW x \in Ids, orders'[x] # NoOrder
        PROVE  asked'[x] = done'[x] + orders'[x].shares
    <2>1. CASE x = id
      BY <1>3, <1>4, <2>1
    <2>2. CASE x # id
      BY <1>3, <1>4, <1>5, <1>6, <2>2
    <2> QED
      BY <2>1, <2>2
  <1> QED
    BY <1>1, <1>6 DEF SharesAccounted

LEMMA FillKeepsShares ==
  ASSUME BookInv, SharesAccounted, NEW p \in Prices, FillHead(p) \/ FillHeadPartly(p)
  PROVE  SharesAccounted'
  <1> DEFINE l == <<Opposite(call.side), p>>
             h == Head(queue[l])
             q == IF orders[h].shares <= call.rest THEN orders[h].shares ELSE call.rest
  <1>1. NextPrice(p) /\ call.stage = "sweep" /\ call.rest > 0 /\ asked' = asked
    BY DEF FillHead, FillHeadPartly, NextPrice
  <1>2. l \in LimitLevel /\ h \in Ids /\ orders[h] \in Order /\ h # call.id /\ h \in ToSet(queue[l])
    BY <1>1, HeadIsLive
  <1>3. /\ q \in Nat \ {0} /\ q <= call.rest
        /\ Trade(h, q)
        /\ \/ orders' = [orders EXCEPT ![h] = NoOrder]
           \/ orders' = [orders EXCEPT ![h].shares = orders[h].shares - q]
    <2>1. call.rest \in Nat \ {0}
      BY <1>1 DEF BookInv, TypeOK, Call
    <2>2. /\ FillHead(p) => /\ orders[h].shares <= call.rest /\ Trade(h, orders[h].shares)
                            /\ orders' = [orders EXCEPT ![h] = NoOrder]
          /\ FillHeadPartly(p) => /\ orders[h].shares > call.rest /\ Trade(h, call.rest)
                                  /\ orders' = [orders EXCEPT ![h].shares = orders[h].shares - call.rest]
      BY DEF FillHead, FillHeadPartly
    <2> HIDE DEF h, l
    <2>3. orders[h].shares \in Nat \ {0}
      BY <1>2 DEF Order
    <2>4. CASE FillHead(p)
      BY <2>1, <2>2, <2>3, <2>4
    <2>5. CASE FillHeadPartly(p)
      <3>1. q = call.rest
        BY <2>1, <2>2, <2>3, <2>5
      <3> QED
        BY <2>1, <2>2, <2>5, <3>1
    <2> QED
      BY <2>4, <2>5
  <1>4. ~Held(h) /\ orders[h] # NoOrder
    BY <1>2 DEF BookInv, ListsMatchOrderMap, Level
  <1> HIDE DEF h, l, q
  <1>5. /\ call'.stage = call.stage /\ call'.kind = call.kind /\ call'.id = call.id
        /\ call'.rest = call.rest - q
        /\ done'[h] = done[h] + q
        /\ done'[call.id] = done[call.id] + q
        /\ \A id \in Ids : id # h /\ id # call.id => done'[id] = done[id]
    BY <1>1, <1>2, <1>3, TradeTypes
  <1>6. /\ \A x \in Ids : x # h => orders'[x] = orders[x]
        /\ orders'[h] # NoOrder => orders'[h].shares = orders[h].shares - q
    <2>1. CASE orders' = [orders EXCEPT ![h] = NoOrder]
      BY <1>2, <2>1 DEF BookInv, TypeOK
    <2>2. CASE orders' = [orders EXCEPT ![h].shares = orders[h].shares - q]
      BY <1>2, <2>2 DEF BookInv, TypeOK, Order
    <2> QED
      BY <1>3, <2>1, <2>2
  <1>7. /\ asked[call.id] = done[call.id] + call.rest
        /\ asked[h] = done[h] + orders[h].shares
        /\ call.id \in Ids
        /\ \A x \in Ids : done[x] \in Nat
        /\ call.rest \in Nat /\ orders[h].shares \in Nat /\ q \in Nat
    BY <1>1, <1>2, <1>3, <1>4 DEF SharesAccounted, BookInv, TypeOK, CallLocals, Call, Order
  <1>8. asked'[call'.id] = done'[call'.id] + call'.rest
    BY <1>1, <1>5, <1>7
  <1>9. ASSUME NEW x \in Ids, orders'[x] # NoOrder, ~Held(x)'
        PROVE  asked'[x] = done'[x] + orders'[x].shares
    <2>1. CASE x = h
      BY <1>1, <1>5, <1>6, <1>7, <1>9, <2>1
    <2>2. CASE x # h
      <3>1. orders[x] # NoOrder /\ ~Held(x)
        BY <1>5, <1>6, <1>9, <2>2 DEF Held
      <3>2. x # call.id
        BY <1>1, <3>1 DEF Held, BookInv, CallLocals
      <3> QED
        BY <1>1, <1>5, <1>6, <2>2, <3>1, <3>2 DEF SharesAccounted
    <2> QED
      BY <2>1, <2>2
  <1> QED
    BY <1>8, <1>9 DEF SharesAccounted

LEMMA SweepEndKeepsShares ==
  ASSUME BookInv, SharesAccounted,
         MarketSweepEnds \/ LimitOrderRests \/ StopLimitFilled \/ StopLimitRests
  PROVE  SharesAccounted'
  <1>1. /\ call.stage = "sweep" /\ call'.stage # "sweep" /\ asked' = asked /\ done' = done
    <2>1. SweepEnds /\ (call' = Stops(call.side) \/ call' = NoCall)
      BY DEF MarketSweepEnds, LimitOrderRests, StopLimitFilled, StopLimitRests
    <2> QED
      BY <2>1, NextCallTypes DEF SweepEnds
  <1>2. call.id \in Ids /\ asked[call.id] = done[call.id] + call.rest
    BY <1>1 DEF SharesAccounted, BookInv, CallLocals
  <1>3. /\ \A x \in Ids : x # call.id => orders'[x] = orders[x]
        /\ orders'[call.id] # NoOrder => orders'[call.id].shares = call.rest
    <2>1. CASE MarketSweepEnds
      BY <2>1, <1>2 DEF MarketSweepEnds, SweepEnds, BookInv, CallLocals
    <2>2. CASE LimitOrderRests
      BY <1>2, <2>2 DEF LimitOrderRests, BookInv, TypeOK
    <2>3. CASE StopLimitFilled
      BY <1>2, <2>3 DEF StopLimitFilled, BookInv, TypeOK
    <2>4. CASE StopLimitRests
      <3>1. orders[call.id] \in Order
        BY <1>1, <1>2, <2>4 DEF StopLimitRests, BookInv, TypeOK, CallLocals
      <3> QED
        BY <1>2, <2>4, <3>1 DEF StopLimitRests, BookInv, TypeOK, Order
    <2> QED
      BY <2>1, <2>2, <2>3, <2>4
  <1>4. ASSUME NEW x \in Ids, orders'[x] # NoOrder
        PROVE  asked'[x] = done'[x] + orders'[x].shares
    BY <1>1, <1>2, <1>3, <1>4 DEF SharesAccounted, Held
  <1> QED
    BY <1>1, <1>4 DEF SharesAccounted

LEMMA TriggerKeepsShares ==
  ASSUME BookInv, SharesAccounted, NEW p \in Prices, TriggerStop(p)
  PROVE  SharesAccounted'
  <1> DEFINE l == <<"stop", p>>
             h == Head(queue[l])
             o == orders[h]
  <1>1. /\ call.stage = "stops" /\ stopSide[p] = call.side /\ asked' = asked /\ done' = done
        /\ \/ /\ orders' = [orders EXCEPT ![h] = NoOrder]
              /\ call' = Sweep("stopMarket", h, call.side, o.shares, 0)
           \/ /\ call' = Sweep("stopLimit", h, call.side, o.shares, o.limit)
              /\ orders' = orders
    BY DEF TriggerStop, StopDue, IsStopEdge, StopPrices
  <1>2. l \in Level /\ queue[l] # <<>>
    <2>1. call.side \in Side
      BY DEF BookInv, TypeOK, Call
    <2> QED
      BY <1>1, <2>1, LevelNames DEF BookInv, StopLevelsInTrees, Side
  <1>3. h \in Ids /\ orders[h] # NoOrder
    <2>1. queue[l] \in Seq(Ids) /\ IsInjective(queue[l])
      BY <1>2 DEF BookInv, TypeOK, ListsMatchOrderMap
    <2>2. h \in Ids /\ h \in ToSet(queue[l])
      BY <1>2, <2>1, TailOfList
    <2> QED
      BY <1>2, <2>2 DEF BookInv, ListsMatchOrderMap
  <1> HIDE DEF h, l
  <1>4. \A x \in Ids : orders[x] # NoOrder => asked[x] = done[x] + orders[x].shares
    BY <1>1 DEF SharesAccounted, Held
  <1>5. call'.stage = "sweep" /\ call'.id = h /\ call'.rest = o.shares
    BY <1>1 DEF Sweep
  <1>6. \A x \in Ids : orders'[x] # NoOrder => orders'[x] = orders[x]
    BY <1>1, <1>3 DEF BookInv, TypeOK
  <1> QED
    BY <1>1, <1>3, <1>4, <1>5, <1>6 DEF SharesAccounted

LEMMA NextKeepsShares == BookInv /\ SharesAccounted /\ [Next]_vars => SharesAccounted'
  <1> SUFFICES ASSUME BookInv, SharesAccounted, [Next]_vars
               PROVE  SharesAccounted'
    OBVIOUS
  <1>1. CASE SubmitOn(Side)
    BY <1>1, SubmitKeepsShares
  <1>2. CASE Cancel
    BY <1>2, CancelKeepsShares DEF Cancel, CancelLimitOrder, CancelStopOrder
  <1>3. CASE Modify
    BY <1>3, MoveKeepsShares DEF Modify, ModifyLimitOrder, ModifyStopOrder, ModifyStopLimitOrder
  <1>4. CASE EngineStep
    <2>1. CASE CallReturns
      BY <2>1 DEF CallReturns, SharesAccounted, Held, NoCall
    <2> QED
      BY <1>4, <2>1, FillKeepsShares, SweepEndKeepsShares, TriggerKeepsShares DEF EngineStep
  <1>5. CASE UNCHANGED vars
    BY <1>5 DEF SharesAccounted, Held, vars
  <1> QED
    BY <1>1, <1>2, <1>3, <1>4, <1>5 DEF Next

(* No share is lost or traded twice, whatever the sweep, the stop chain and *)
(* the conversion of stop-limit orders do: what an order has open is what   *)
(* it asked for less what it has traded.                                    *)
THEOREM SharesAreAccounted == Spec => []SharesAccounted
  <1>1. Init => SharesAccounted
    BY DEF Init, SharesAccounted, NoCall
  <1> QED
    BY <1>1, NextKeepsShares, BookInvariant, PTL DEF Spec
-----------------------------------------------------------------------------
(* Prices *)

(* What RestsAtItsLimit says of one order. *)
AtItsLimit(o) == o # NoOrder /\ o.parent \in LimitLevel => o.limit = o.parent[2]

LEMMA StopIsNoLimitLevel == \A p \in Prices : <<"stop", p>> \notin LimitLevel
  BY DEF LimitLevel, Side

(* A step that leaves every order where it was, at its limit, or erased, or *)
(* writes one order that is at its limit.                                   *)
LEMMA OneOrderAtItsLimit ==
  ASSUME RestsAtItsLimit, NEW id, AtItsLimit(orders'[id]),
         \A x \in Ids : x # id /\ ~Held(x)' =>
            ~Held(x) /\ (orders'[x] = orders[x] \/ orders'[x] = NoOrder)
  PROVE  RestsAtItsLimit'
  BY DEF RestsAtItsLimit, AtItsLimit

LEMMA NextKeepsRests == BookInv /\ RestsAtItsLimit /\ [Next]_vars => RestsAtItsLimit'
  <1> SUFFICES ASSUME BookInv, RestsAtItsLimit, [Next]_vars
               PROVE  RestsAtItsLimit'
    OBVIOUS
  <1>1. CASE SubmitOn(Side)
    <2>1. PICK id \in Ids, s \in Side, q \in Quantities :
             \/ MarketOrder(id, s, q)
             \/ \E p \in Prices : \/ AddLimitOrder(id, s, q, p)
                                  \/ AddStopOrder(id, s, q, p)
                                  \/ \E sp \in Prices : AddStopLimitOrder(id, s, q, p, sp)
      BY <1>1 DEF SubmitOn
    <2>2. call.stage = "idle" /\ \A x \in Ids : ~Held(x)
      BY <2>1 DEF MarketOrder, AddLimitOrder, AddStopOrder, AddStopLimitOrder, TakeId, NextCall, Held
    <2>3. ASSUME UNCHANGED orders
          PROVE  RestsAtItsLimit'
      BY <2>2, <2>3 DEF RestsAtItsLimit
    <2>4. ASSUME NEW o, NEW sp \in Prices, o.parent = <<"stop", sp>>,
                 orders' = [orders EXCEPT ![id] = o], UNCHANGED call
          PROVE  RestsAtItsLimit'
      <3>1. AtItsLimit(orders'[id]) /\ \A x \in Ids : x # id => orders'[x] = orders[x]
        BY <2>4, StopIsNoLimitLevel DEF BookInv, TypeOK, AtItsLimit
      <3> QED
        BY <2>2, <3>1, OneOrderAtItsLimit
    <2>5. CASE MarketOrder(id, s, q) \/ \E p \in Prices : AddLimitOrder(id, s, q, p)
      BY <2>3, <2>5 DEF MarketOrder, AddLimitOrder, Begin
    <2>6. ASSUME NEW sp \in Prices, AddStopOrder(id, s, q, sp)
          PROVE  RestsAtItsLimit'
      <3> DEFINE o == [side |-> s, shares |-> q, limit |-> 0, parent |-> <<"stop", sp>>]
      <3>1. UNCHANGED orders \/ (orders' = [orders EXCEPT ![id] = o] /\ UNCHANGED call)
        BY <2>6 DEF AddStopOrder, Begin
      <3>2. o.parent = <<"stop", sp>>
        OBVIOUS
      <3> HIDE DEF o
      <3> QED
        BY <2>3, <2>4, <3>1, <3>2
    <2>7. ASSUME NEW p \in Prices, NEW sp \in Prices, AddStopLimitOrder(id, s, q, p, sp)
          PROVE  RestsAtItsLimit'
      <3> DEFINE o == [side |-> s, shares |-> q, limit |-> p, parent |-> <<"stop", sp>>]
      <3>1. UNCHANGED orders \/ (orders' = [orders EXCEPT ![id] = o] /\ UNCHANGED call)
        BY <2>7 DEF AddStopLimitOrder, Begin
      <3>2. o.parent = <<"stop", sp>>
        OBVIOUS
      <3> HIDE DEF o
      <3> QED
        BY <2>3, <2>4, <3>1, <3>2
    <2> QED
      BY <2>1, <2>5, <2>6, <2>7
  <1>2. CASE Cancel
    <2>1. PICK id \in Ids, levels \in {LimitLevel, StopLevel} : CancelOrder(id, levels)
      BY <1>2 DEF Cancel, CancelLimitOrder, CancelStopOrder
    <2>2. /\ orders'[id] = NoOrder /\ \A x \in Ids : x # id => orders'[x] = orders[x]
          /\ UNCHANGED call
      BY <2>1 DEF CancelOrder, BookInv, TypeOK
    <2> QED
      BY <2>2, OneOrderAtItsLimit DEF AtItsLimit, Held
  <1>3. CASE Modify
    <2>1. PICK id \in Ids, q \in Quantities, p \in Prices :
             \/ ModifyLimitOrder(id, q, p)
             \/ ModifyStopOrder(id, q, p)
             \/ \E sp \in Prices : ModifyStopLimitOrder(id, q, p, sp)
      BY <1>3 DEF Modify
    <2>2. ASSUME NEW lim, NEW l, NEW levels, Move(id, q, lim, l, levels),
                 l \in LimitLevel => lim = l[2]
          PROVE  RestsAtItsLimit'
      <3>1. orders[id] \in Order /\ UNCHANGED call
        BY <2>2 DEF Move, Lookup, BookInv, TypeOK
      <3>2. /\ \A x \in Ids : x # id => orders'[x] = orders[x]
            /\ orders'[id].limit = lim /\ orders'[id].parent = l
        BY <2>2, <3>1 DEF Move, BookInv, TypeOK, Order
      <3>3. AtItsLimit(orders'[id])
        BY <2>2, <3>2 DEF AtItsLimit
      <3> QED
        BY <3>1, <3>2, <3>3, OneOrderAtItsLimit DEF Held
    <2>3. CASE ModifyLimitOrder(id, q, p)
      <3>1. <<orders[id].side, p>>[2] = p
        OBVIOUS
      <3> QED
        BY <2>2, <2>3, <3>1 DEF ModifyLimitOrder
    <2>4. CASE ModifyStopOrder(id, q, p)
      BY <2>2, <2>4, StopIsNoLimitLevel DEF ModifyStopOrder
    <2>5. ASSUME NEW sp \in Prices, ModifyStopLimitOrder(id, q, p, sp)
          PROVE  RestsAtItsLimit'
      BY <2>2, <2>5, StopIsNoLimitLevel DEF ModifyStopLimitOrder
    <2> QED
      BY <2>1, <2>3, <2>4, <2>5
  <1>4. ASSUME NEW p \in Prices, FillHead(p) \/ FillHeadPartly(p)
        PROVE  RestsAtItsLimit'
    <2> DEFINE l == <<Opposite(call.side), p>>
               h == Head(queue[l])
    <2>1. NextPrice(p) /\ call'.stage = call.stage /\ call'.kind = call.kind /\ call'.id = call.id
      BY <1>4 DEF FillHead, FillHeadPartly, Trade, BookInv, TypeOK, Call
    <2>2. /\ l \in LimitLevel /\ h \in Ids /\ orders[h] \in Order /\ orders[h].parent = l
          /\ h # call.id
      BY <2>1, HeadIsLive
    <2>3. \/ orders' = [orders EXCEPT ![h] = NoOrder]
          \/ orders' = [orders EXCEPT ![h].shares = @ - call.rest]
      BY <1>4 DEF FillHead, FillHeadPartly
    <2> HIDE DEF h, l
    <2>4. /\ \A x \in Ids : x # h => orders'[x] = orders[x]
          /\ \/ orders'[h] = NoOrder
             \/ orders'[h].limit = orders[h].limit /\ orders'[h].parent = l
      BY <2>2, <2>3 DEF BookInv, TypeOK, Order
    <2>5. orders[h].limit = l[2]
      BY <2>2, NoOrderIsNoOrder DEF RestsAtItsLimit, Held
    <2>6. AtItsLimit(orders'[h])
      BY <2>4, <2>5 DEF AtItsLimit
    <2> QED
      BY <2>1, <2>4, <2>6, OneOrderAtItsLimit DEF Held
  <1>5. CASE LimitOrderRests \/ StopLimitFilled \/ StopLimitRests \/ MarketSweepEnds
    <2>1. call.stage = "sweep" /\ call.id \in Ids
      BY <1>5 DEF MarketSweepEnds, LimitOrderRests, StopLimitFilled, StopLimitRests, SweepEnds,
                  BookInv, CallLocals
    <2>2. \A x \in Ids : x # call.id => ~Held(x)
      BY DEF Held
    <2>3. \A x \in Ids : x # call.id => orders'[x] = orders[x]
      BY <1>5, <2>1 DEF MarketSweepEnds, LimitOrderRests, StopLimitFilled, StopLimitRests,
                        BookInv, TypeOK
    <2>4. AtItsLimit(orders'[call.id])
      <3>1. CASE LimitOrderRests
        BY <2>1, <3>1 DEF LimitOrderRests, AtItsLimit, BookInv, TypeOK
      <3>2. CASE StopLimitFilled
        BY <2>1, <3>2 DEF StopLimitFilled, AtItsLimit, BookInv, TypeOK
      <3>3. CASE StopLimitRests
        <4>1. /\ orders[call.id] \in Order /\ orders[call.id].limit = call.limit
          BY <2>1, <3>3 DEF StopLimitRests, BookInv, TypeOK, CallLocals
        <4>2. /\ orders'[call.id].limit = call.limit
              /\ orders'[call.id].parent = <<call.side, call.limit>>
          BY <2>1, <3>3, <4>1 DEF StopLimitRests, BookInv, TypeOK, Order
        <4> QED
          BY <4>2 DEF AtItsLimit
      <3>4. CASE MarketSweepEnds
        BY <2>1, <3>4 DEF MarketSweepEnds, SweepEnds, AtItsLimit, BookInv, CallLocals
      <3> QED
        BY <1>5, <3>1, <3>2, <3>3, <3>4
    <2> QED
      BY <2>2, <2>3, <2>4, OneOrderAtItsLimit
  <1>6. ASSUME NEW p \in Prices, TriggerStop(p)
        PROVE  RestsAtItsLimit'
    <2> DEFINE h == Head(queue[<<"stop", p>>])
    <2>1. call.stage = "stops" /\ (UNCHANGED orders \/ orders' = [orders EXCEPT ![h] = NoOrder])
      BY <1>6 DEF TriggerStop, StopDue
    <2> HIDE DEF h
    <2>2. \A x \in Ids : orders'[x] = orders[x] \/ orders'[x] = NoOrder
      BY <2>1 DEF BookInv, TypeOK
    <2> QED
      BY <2>1, <2>2 DEF RestsAtItsLimit, Held
  <1>7. CASE CallReturns \/ UNCHANGED vars
    BY <1>7 DEF CallReturns, RestsAtItsLimit, Held, vars
  <1> QED
    BY <1>1, <1>2, <1>3, <1>4, <1>5, <1>6, <1>7 DEF Next, EngineStep

(* An order rests at the price of its limit, through modifications, partial *)
(* fills and the conversion of stop-limit orders.                           *)
THEOREM OrdersRestAtTheirLimit == Spec => []RestsAtItsLimit
  <1>1. Init => RestsAtItsLimit
    BY DEF Init, RestsAtItsLimit
  <1> QED
    BY <1>1, NextKeepsRests, BookInvariant, PTL DEF Spec
-----------------------------------------------------------------------------
(* Time priority *)

(* The common elements of q and r stand in the same order. *)
Kept(q, r) ==
  \A i, j \in 1..Len(q) : i < j => \A m, n \in 1..Len(r) :
    ~(r[m] = q[j] /\ r[n] = q[i] /\ m < n)

(* They do, but for x, which may have gone behind others. *)
KeptBut(q, r, x) ==
  \A i, j \in 1..Len(q) : i < j => \A m, n \in 1..Len(r) :
    r[m] = q[j] /\ r[n] = q[i] /\ m < n => q[i] = x

(* A list made of the elements of q at rising places keeps their order. *)
LEMMA RisingIsKept ==
  ASSUME NEW S, NEW q \in Seq(S), NEW r \in Seq(S), IsInjective(q),
         NEW f \in [1..Len(r) -> 1..Len(q)],
         \A m \in 1..Len(r) : r[m] = q[f[m]],
         \A m, n \in 1..Len(r) : m < n => f[m] < f[n]
  PROVE  Kept(q, r)
  <1> SUFFICES ASSUME NEW i \in 1..Len(q), NEW j \in 1..Len(q), i < j,
                      NEW m \in 1..Len(r), NEW n \in 1..Len(r),
                      r[m] = q[j], r[n] = q[i], m < n
               PROVE  FALSE
    BY DEF Kept
  <1>1. DOMAIN q = 1..Len(q) /\ Len(q) \in Nat
    OBVIOUS
  <1>2. q[f[m]] = q[j] /\ q[f[n]] = q[i]
    OBVIOUS
  <1>3. f[m] = j /\ f[n] = i
    BY <1>1, <1>2 DEF IsInjective
  <1> QED
    BY <1>3

LEMMA SameListKept ==
  ASSUME NEW S, NEW q \in Seq(S), IsInjective(q)
  PROVE  Kept(q, q)
  <1> DEFINE f == [m \in 1..Len(q) |-> m]
  <1>1. f \in [1..Len(q) -> 1..Len(q)] /\ \A m \in 1..Len(q) : f[m] = m
    OBVIOUS
  <1> HIDE DEF f
  <1> QED
    BY <1>1, RisingIsKept

LEMMA TailKept ==
  ASSUME NEW S, NEW q \in Seq(S), q # <<>>, IsInjective(q)
  PROVE  Kept(q, Tail(q))
  <1> DEFINE r == Tail(q)
             f == [m \in 1..Len(r) |-> m + 1]
  <1>1. r \in Seq(S) /\ Len(r) = Len(q) - 1 /\ Len(q) \in Nat
    OBVIOUS
  <1>2. \A m \in 1..Len(r) : r[m] = q[m + 1]
    OBVIOUS
  <1>3. f \in [1..Len(r) -> 1..Len(q)]
    BY <1>1
  <1>4. \A m \in 1..Len(r) : f[m] = m + 1
    OBVIOUS
  <1>5. \A m, n \in 1..Len(r) : m < n => f[m] < f[n]
    BY <1>1, <1>4
  <1> HIDE DEF f, r
  <1> QED
    BY <1>1, <1>2, <1>3, <1>4, <1>5, RisingIsKept DEF r

(* Order::cancel closes the gap the order leaves and moves no other. *)
LEMMA UnlinkKept ==
  ASSUME NEW S, NEW q \in Seq(S), NEW x \in ToSet(q), IsInjective(q)
  PROVE  Kept(q, Unlink(q, x))
  <1> DEFINE r == Unlink(q, x)
             k == Place(q, x)
             f == [m \in 1..Len(r) |-> IF m < k THEN m ELSE m + 1]
  <1>1. Len(q) \in Nat /\ DOMAIN q = 1..Len(q)
    OBVIOUS
  <1>2. k \in 1..Len(q)
    BY <1>1 DEF ToSet, Place
  <1>3. r = [i \in 1..(Len(q) - 1) |-> IF i < k THEN q[i] ELSE q[i + 1]]
    BY DEF Unlink
  <1>4. r \in Seq(S)
    BY UnlinkFromList
  <1> HIDE DEF k, r
  <1>5. Len(r) = Len(q) - 1
    <2>1. DOMAIN r = 1..(Len(q) - 1) /\ DOMAIN r = 1..Len(r) /\ Len(r) \in Nat
      BY <1>3, <1>4
    <2>2. Len(q) - 1 \in Nat
      BY <1>1, <1>2
    <2> QED
      BY <2>1, <2>2
  <1>6. \A m \in 1..Len(r) : /\ f[m] = (IF m < k THEN m ELSE m + 1)
                             /\ f[m] \in 1..Len(q)
    BY <1>1, <1>2, <1>5
  <1>7. f \in [1..Len(r) -> 1..Len(q)]
    BY <1>6
  <1>8. \A m \in 1..Len(r) : r[m] = q[f[m]]
    BY <1>3, <1>5, <1>6
  <1>9. \A m, n \in 1..Len(r) : m < n => f[m] < f[n]
    BY <1>1, <1>2, <1>5, <1>6
  <1> HIDE DEF f
  <1> QED
    BY <1>4, <1>7, <1>8, <1>9, RisingIsKept DEF r

(* Only the order that is put at the end can stand behind one it was before. *)
LEMMA AppendKept ==
  ASSUME NEW S, NEW q \in Seq(S), NEW r \in Seq(S), NEW x \in S, Kept(q, r)
  PROVE  KeptBut(q, Append(r, x), x)
  <1> DEFINE a == Append(r, x)
  <1> SUFFICES ASSUME NEW i \in 1..Len(q), NEW j \in 1..Len(q), i < j,
                      NEW m \in 1..Len(a), NEW n \in 1..Len(a),
                      a[m] = q[j], a[n] = q[i], m < n
               PROVE  q[i] = x
    BY DEF KeptBut
  <1>1. Len(r) \in Nat /\ m \in 1..(Len(r) + 1) /\ n \in 1..(Len(r) + 1)
    OBVIOUS
  <1>2. a[Len(r) + 1] = x /\ \A y \in 1..Len(r) : a[y] = r[y]
    OBVIOUS
  <1> HIDE DEF a
  <1>3. CASE n = Len(r) + 1
    BY <1>2, <1>3
  <1>4. CASE n # Len(r) + 1
    <2>1. n \in 1..Len(r)
      BY <1>1, <1>4
    <2>2. m \in 1..Len(r)
      BY <1>1, <2>1
    <2>3. r[m] = q[j] /\ r[n] = q[i]
      BY <1>2, <2>1, <2>2
    <2> QED
      BY <2>1, <2>2, <2>3 DEF Kept
  <1> QED
    BY <1>3, <1>4

LEMMA AppendNewKept ==
  ASSUME NEW S, NEW q \in Seq(S), NEW x \in S, x \notin ToSet(q), IsInjective(q)
  PROVE  Kept(q, Append(q, x))
  <1>1. KeptBut(q, Append(q, x), x)
    BY SameListKept, AppendKept
  <1>2. \A i \in 1..Len(q) : q[i] # x
    BY DEF ToSet
  <1> QED
    BY <1>1, <1>2 DEF Kept, KeptBut

(* A step that only takes orders out of the lists, each time the head or by *)
(* Order::cancel, or appends one that was in none of them.                  *)
LEMMA OneListKept ==
  ASSUME BookInv, NEW l \in Level, NEW u \in Seq(Ids), Kept(queue[l], u),
         queue' = WithList(queue, l, u)
  PROVE  \A k \in Level : Kept(queue[k], queue'[k])
  <1> SUFFICES ASSUME NEW k \in Level PROVE Kept(queue[k], queue'[k])
    OBVIOUS
  <1>1. queue[k] \in Seq(Ids) /\ IsInjective(queue[k])
    BY DEF BookInv, TypeOK, ListsMatchOrderMap
  <1>2. queue'[k] = IF k = l THEN u ELSE queue[k]
    BY DEF WithList, BookInv, TypeOK
  <1> QED
    BY <1>1, <1>2, SameListKept

LEMMA SameListsKept ==
  ASSUME BookInv, UNCHANGED queue
  PROVE  \A k \in Level : Kept(queue[k], queue'[k])
  BY SameListKept DEF BookInv, TypeOK, ListsMatchOrderMap

(* An order that is not in the lists is appended to one. *)
LEMMA LinkKept ==
  ASSUME BookInv, NEW l \in Level, NEW id \in Ids, orders[id] = NoOrder \/ Held(id),
         queue' = Linked(queue, l, id)
  PROVE  \A k \in Level : Kept(queue[k], queue'[k])
  <1>1. queue[l] \in Seq(Ids) /\ IsInjective(queue[l]) /\ id \notin ToSet(queue[l])
    BY DEF BookInv, TypeOK, ListsMatchOrderMap
  <1>2. queue' = WithList(queue, l, Append(queue[l], id))
    BY DEF Linked, WithList, BookInv, TypeOK
  <1>3. Kept(queue[l], Append(queue[l], id)) /\ Append(queue[l], id) \in Seq(Ids)
    BY <1>1, AppendNewKept
  <1> QED
    BY <1>2, <1>3, OneListKept

LEMMA TailsKept ==
  ASSUME BookInv, NEW l \in Level, queue[l] # <<>>, queue' = WithList(queue, l, Tail(queue[l]))
  PROVE  \A k \in Level : Kept(queue[k], queue'[k])
  <1>1. queue[l] \in Seq(Ids) /\ IsInjective(queue[l])
    BY DEF BookInv, TypeOK, ListsMatchOrderMap
  <1>2. Kept(queue[l], Tail(queue[l])) /\ Tail(queue[l]) \in Seq(Ids)
    BY <1>1, TailKept
  <1> QED
    BY <1>2, OneListKept

(* The lists once an order is out of its own. *)
LEMMA UnlinkedKept ==
  ASSUME BookInv, NEW id \in Ids, orders[id] # NoOrder, call.stage = "idle"
  PROVE  /\ Unlinked(id) \in Lists
         /\ \A k \in Level : Kept(queue[k], Unlinked(id)[k])
  <1> DEFINE m == orders[id].parent
  <1>1. orders[id] \in Order /\ m \in Level
    BY DEF BookInv, TypeOK, Order
  <1>2. id \in ToSet(queue[m])
    BY DEF BookInv, ListsMatchOrderMap, Held
  <1>3. \A k \in Level : queue[k] \in Seq(Ids) /\ IsInjective(queue[k])
    BY DEF BookInv, TypeOK, ListsMatchOrderMap
  <1>4. /\ Unlink(queue[m], id) \in Seq(Ids)
        /\ Kept(queue[m], Unlink(queue[m], id))
    BY <1>1, <1>2, <1>3, UnlinkFromList, UnlinkKept
  <1>5. /\ Unlinked(id) \in Lists
        /\ \A k \in Level : Unlinked(id)[k] = IF k = m THEN Unlink(queue[m], id) ELSE queue[k]
    BY <1>1, <1>4 DEF Unlinked, BookInv, TypeOK, Lists
  <1> HIDE DEF m
  <1> QED
    BY <1>3, <1>4, <1>5, SameListKept

(* A modify sends one order to the back of a list and keeps the others'     *)
(* places.                                                                  *)
LEMMA MoveKept ==
  ASSUME BookInv, NEW id \in Ids, NEW q, NEW p, NEW l \in Level, NEW levels,
         Move(id, q, p, l, levels)
  PROVE  \A k \in Level : KeptBut(queue[k], queue'[k], id)
  <1>1. orders[id] # NoOrder /\ call.stage = "idle" /\ queue' = Linked(Unlinked(id), l, id)
    BY DEF Move, Lookup, NextCall
  <1>2. Unlinked(id) \in Lists /\ \A k \in Level : Kept(queue[k], Unlinked(id)[k])
    BY <1>1, UnlinkedKept
  <1>3. \A k \in Level : queue'[k] = IF k = l THEN Append(Unlinked(id)[l], id) ELSE Unlinked(id)[k]
    BY <1>1, <1>2 DEF Linked, Lists
  <1>4. queue[l] \in Seq(Ids) /\ Unlinked(id)[l] \in Seq(Ids)
    BY <1>2 DEF BookInv, TypeOK, Lists
  <1>5. KeptBut(queue[l], Append(Unlinked(id)[l], id), id)
    BY <1>2, <1>4, AppendKept
  <1>6. ASSUME NEW k \in Level, k # l
        PROVE  KeptBut(queue[k], queue'[k], id)
    <2>1. Kept(queue[k], queue'[k])
      BY <1>2, <1>3, <1>6
    <2> QED
      BY <2>1 DEF Kept, KeptBut
  <1>7. KeptBut(queue[l], queue'[l], id)
    BY <1>3, <1>5
  <1> QED
    BY <1>6, <1>7

(* Every step but a modify keeps the order of every list. *)
LEMMA SubmitKeepsPlaces ==
  ASSUME BookInv, SubmitOn(Side)
  PROVE  \A k \in Level : Kept(queue[k], queue'[k])
  <1>1. PICK id \in Ids, s \in Side, q \in Quantities :
           \/ MarketOrder(id, s, q)
           \/ \E p \in Prices : \/ AddLimitOrder(id, s, q, p)
                                \/ AddStopOrder(id, s, q, p)
                                \/ \E sp \in Prices : AddStopLimitOrder(id, s, q, p, sp)
    BY DEF SubmitOn
  <1>2. orders[id] = NoOrder
    <2>1. TakeId(id, q)
      BY <1>1 DEF MarketOrder, AddLimitOrder, AddStopOrder, AddStopLimitOrder
    <2> QED
      BY <2>1 DEF TakeId, BookInv, TypeOK, FreshIds, Ids
  <1>3. UNCHANGED queue \/ \E sp \in Prices : queue' = Linked(queue, <<"stop", sp>>, id)
    BY <1>1 DEF MarketOrder, AddLimitOrder, AddStopOrder, AddStopLimitOrder, Begin
  <1>4. ASSUME NEW sp \in Prices, queue' = Linked(queue, <<"stop", sp>>, id)
        PROVE  \A k \in Level : Kept(queue[k], queue'[k])
    BY <1>2, <1>4, LevelNames, LinkKept
  <1> QED
    BY <1>3, <1>4, SameListsKept

LEMMA CancelKeepsPlaces ==
  ASSUME BookInv, Cancel
  PROVE  \A k \in Level : Kept(queue[k], queue'[k])
  <1>1. PICK id \in Ids, levels \in {LimitLevel, StopLevel} : CancelOrder(id, levels)
    BY DEF Cancel, CancelLimitOrder, CancelStopOrder
  <1> QED
    BY <1>1, UnlinkedKept DEF CancelOrder, Lookup, NextCall

LEMMA EngineKeepsPlaces ==
  ASSUME BookInv, EngineStep
  PROVE  \A k \in Level : Kept(queue[k], queue'[k])
  <1>1. ASSUME NEW p \in Prices, FillHead(p)
        PROVE  \A k \in Level : Kept(queue[k], queue'[k])
    <2> DEFINE l == <<Opposite(call.side), p>>
    <2>1. NextPrice(p) /\ queue' = WithList(queue, l, Tail(queue[l]))
      BY <1>1 DEF FillHead, WithList
    <2>2. l \in Level /\ queue[l] # <<>>
      BY <2>1, HeadIsLive DEF Level
    <2> HIDE DEF l
    <2> QED
      BY <2>1, <2>2, TailsKept
  <1>2. ASSUME NEW p \in Prices, TriggerStop(p)
        PROVE  \A k \in Level : Kept(queue[k], queue'[k])
    <2> DEFINE l == <<"stop", p>>
    <2>1. stopSide[p] = call.side /\ queue' = WithList(queue, l, Tail(queue[l]))
      BY <1>2 DEF TriggerStop, StopDue, IsStopEdge, StopPrices, WithList
    <2>2. l \in Level /\ queue[l] # <<>>
      <3>1. call.side # "none"
        BY DEF BookInv, TypeOK, Call, Side
      <3> QED
        BY <2>1, <3>1, LevelNames DEF BookInv, StopLevelsInTrees
    <2> HIDE DEF l
    <2> QED
      BY <2>1, <2>2, TailsKept
  <1>3. ASSUME LimitOrderRests \/ StopLimitRests
        PROVE  \A k \in Level : Kept(queue[k], queue'[k])
    <2>1. call.stage = "sweep" /\ call.kind \in {"limit", "stopLimit"}
      BY <1>3 DEF LimitOrderRests, StopLimitRests, SweepEnds
    <2>2. /\ call.id \in Ids /\ call.limit \in Prices
          /\ orders[call.id] = NoOrder \/ Held(call.id)
      BY <2>1 DEF BookInv, CallLocals, Held
    <2>3. call.side \in Side /\ <<call.side, call.limit>> \in Level
      BY <2>2, LevelNames DEF BookInv, TypeOK, Call
    <2>4. queue' = Linked(queue, <<call.side, call.limit>>, call.id)
      BY <1>3 DEF LimitOrderRests, StopLimitRests
    <2> QED
      BY <2>2, <2>3, <2>4, LinkKept
  <1>4. CASE (\E p \in Prices : FillHeadPartly(p)) \/ MarketSweepEnds \/ StopLimitFilled \/ CallReturns
    BY <1>4, SameListsKept DEF FillHeadPartly, MarketSweepEnds, StopLimitFilled, CallReturns
  <1> QED
    BY <1>1, <1>2, <1>3, <1>4 DEF EngineStep

(* What PlacesKept says of one step. *)
MayPass(id) == \E q \in Quantities, p \in Prices :
                 \/ ModifyLimitOrder(id, q, p)
                 \/ ModifyStopOrder(id, q, p)
                 \/ \E sp \in Prices : ModifyStopLimitOrder(id, q, p, sp)

StepKeepsPlaces ==
  \A l \in Level : \A i, j \in 1..Len(queue[l]) :
    i < j => \A m, n \in 1..Len(queue'[l]) :
      queue'[l][m] = queue[l][j] /\ queue'[l][n] = queue[l][i] /\ m < n =>
        MayPass(queue[l][i])

LEMMA ModifyKeepsPlaces ==
  ASSUME BookInv, Modify
  PROVE  StepKeepsPlaces
  <1>1. PICK id \in Ids, q \in Quantities, p \in Prices :
           \/ ModifyLimitOrder(id, q, p)
           \/ ModifyStopOrder(id, q, p)
           \/ \E sp \in Prices : ModifyStopLimitOrder(id, q, p, sp)
    BY DEF Modify
  <1>2. MayPass(id)
    BY <1>1 DEF MayPass
  <1>3. \E r, lim, levels : \E l \in Level : Move(id, r, lim, l, levels)
    <2>1. CASE ModifyLimitOrder(id, q, p)
      <3>1. orders[id] \in Order
        BY <2>1 DEF ModifyLimitOrder, BookInv, TypeOK
      <3>2. <<orders[id].side, p>> \in Level
        BY <3>1, LevelNames DEF Order
      <3> QED
        BY <2>1, <3>2 DEF ModifyLimitOrder
    <2>2. CASE ModifyStopOrder(id, q, p)
      BY <2>2, LevelNames DEF ModifyStopOrder
    <2>3. ASSUME NEW sp \in Prices, ModifyStopLimitOrder(id, q, p, sp)
          PROVE  \E r, lim, levels : \E l \in Level : Move(id, r, lim, l, levels)
      BY <2>3, LevelNames DEF ModifyStopLimitOrder
    <2> QED
      BY <1>1, <2>1, <2>2, <2>3
  <1>4. \A k \in Level : KeptBut(queue[k], queue'[k], id)
    BY <1>3, MoveKept
  <1> QED
    BY <1>2, <1>4 DEF StepKeepsPlaces, KeptBut

LEMMA NextKeepsPlaces == BookInv /\ [Next]_vars => StepKeepsPlaces
  <1> SUFFICES ASSUME BookInv, [Next]_vars PROVE StepKeepsPlaces
    OBVIOUS
  <1>1. CASE Modify
    BY <1>1, ModifyKeepsPlaces
  <1>2. CASE ~Modify
    <2>1. \A k \in Level : Kept(queue[k], queue'[k])
      BY <1>2, SubmitKeepsPlaces, CancelKeepsPlaces, EngineKeepsPlaces, SameListsKept DEF Next, vars
    <2> QED
      BY <2>1 DEF StepKeepsPlaces, Kept
  <1> QED
    BY <1>1, <1>2

(* Time priority: only an order that is modified goes behind another of its *)
(* level; sweeps, cancels, stop triggers and new orders keep every place.   *)
THEOREM PlacesAreKept == Spec => PlacesKept
  <1>1. BookInv /\ [Next]_vars => [StepKeepsPlaces]_vars
    BY NextKeepsPlaces
  <1>2. PlacesKept <=> [][StepKeepsPlaces]_vars
    BY DEF PlacesKept, StepKeepsPlaces, MayPass
  <1> QED
    BY <1>1, <1>2, BookInvariant, PTL DEF Spec
-----------------------------------------------------------------------------
(* The spread *)

LEMMA LeastNumber ==
  ASSUME NEW S \in SUBSET Nat, S # {}
  PROVE  \E n \in S : \A m \in S : n <= m
  <1> DEFINE R == OpToRel(<, Nat)
  <1>1. \A x, y \in Nat : <<x, y>> \in R <=> x < y
    BY DEF OpToRel
  <1>2. IsWellFoundedOn(R, Nat)
    BY NatLessThanWellFounded
  <1> HIDE DEF R
  <1>3. PICK n \in S : \A m \in S : ~ (<<m, n>> \in R)
    BY <1>2, WFMin
  <1>4. \A m \in S : m \in Nat /\ n \in Nat /\ ~(m < n)
    BY <1>1, <1>3
  <1> QED
    BY <1>4

AsGoodAsAll(s, e, S) == e \in S /\ \A q \in S : AsGood(s, e, q)

(* A set of prices that n numbers can tell apart has a best one: there may  *)
(* be infinitely many prices, but a level has an order.                     *)
LEMMA BestOfMany ==
  ASSUME NEW S \in SUBSET Nat, S # {}, NEW s \in Side, NEW n \in Nat,
         NEW h \in [S -> 1..n], \A p, q \in S : h[p] = h[q] => p = q
  PROVE  \E e \in S : AsGoodAsAll(s, e, S)
  <1> DEFINE T(k) == {p \in S : h[p] <= k}
             Has(k) == \E e \in T(k) : AsGoodAsAll(s, e, T(k))
             Bad == {k \in Nat : T(k) # {} /\ ~Has(k)}
  <1> HIDE DEF Has, Bad
  <1>1. T(0) = {} /\ T(n) = S
    <2>1. \A p \in S : ~(h[p] <= 0) /\ h[p] <= n
      OBVIOUS
    <2> QED
      BY <2>1
  <1>2. ASSUME NEW k \in Nat, k # 0, T(k - 1) = {} \/ Has(k - 1), T(k) # {}
        PROVE  Has(k)
    <2>1. \A p \in T(k) : p \in T(k - 1) \/ h[p] = k
      <3> SUFFICES ASSUME NEW p \in T(k), h[p] # k PROVE p \in T(k - 1)
        OBVIOUS
      <3>1. p \in S /\ h[p] \in 1..n /\ h[p] <= k
        OBVIOUS
      <3>2. h[p] <= k - 1
        BY <1>2, <3>1
      <3> QED
        BY <3>1, <3>2
    <2>2. T(k - 1) \subseteq T(k) /\ T(k) \subseteq S
      <3>1. \A p \in S : h[p] <= k - 1 => h[p] <= k
        OBVIOUS
      <3> QED
        BY <3>1
    <2>3. \A p, q \in S : h[p] = k /\ h[q] = k => p = q
      OBVIOUS
    <2> DEFINE A == T(k - 1)
               B == T(k)
    <2>4. A = {} \/ \E e \in A : AsGoodAsAll(s, e, A)
      BY <1>2 DEF Has
    <2>5. B # {} /\ A \subseteq B /\ B \subseteq Nat
      BY <1>2, <2>2
    <2>6. \A p \in B : p \in A \/ h[p] = k
      BY <2>1
    <2>7. \A p, q \in B : h[p] = k /\ h[q] = k => p = q
      BY <2>2, <2>3
    <2> HIDE DEF A, B, T
    <2>8. CASE A = {}
      <3>1. PICK p \in B : TRUE
        BY <2>5
      <3>2. \A q \in B : q = p
        BY <2>6, <2>7, <2>8
      <3> QED
        BY <2>5, <3>1, <3>2 DEF AsGoodAsAll, AsGood, B, Has
    <2>9. CASE \E e \in A : AsGoodAsAll(s, e, A)
      <3>1. PICK e \in A : AsGoodAsAll(s, e, A)
        BY <2>9
      <3>2. CASE \A p \in B : AsGood(s, e, p)
        BY <2>5, <3>2 DEF AsGoodAsAll, B, Has
      <3>3. CASE ~\A p \in B : AsGood(s, e, p)
        <4>1. PICK p \in B : ~AsGood(s, e, p)
          BY <3>3
        <4>2. h[p] = k
          BY <2>6, <3>1, <4>1 DEF AsGoodAsAll
        <4>3. \A q \in B : q \in A \/ q = p
          BY <2>6, <2>7, <4>2
        <4>4. \A q \in A : AsGood(s, p, q)
          BY <2>5, <3>1, <4>1 DEF AsGoodAsAll, AsGood
        <4>5. AsGood(s, p, p)
          BY <2>5 DEF AsGood
        <4> QED
          BY <4>3, <4>4, <4>5 DEF AsGoodAsAll, B, Has
      <3> QED
        BY <3>2, <3>3
    <2> QED
      BY <2>4, <2>8, <2>9 DEF Has, B
  <1>3. Bad = {}
    <2> SUFFICES ASSUME Bad # {} PROVE FALSE
      OBVIOUS
    <2> HIDE DEF T
    <2>1. PICK k \in Bad : \A m \in Bad : k <= m
      BY LeastNumber DEF Bad
    <2>2. k \in Nat /\ T(k) # {} /\ ~Has(k)
      BY <2>1 DEF Bad
    <2>3. k # 0
      BY <1>1, <2>2
    <2>4. k - 1 \in Nat /\ k - 1 \notin Bad
      BY <2>1, <2>2, <2>3
    <2>5. T(k - 1) = {} \/ Has(k - 1)
      BY <2>4 DEF Bad
    <2> QED
      BY <1>2, <2>2, <2>3, <2>5
  <1>4. T(n) # {} /\ n \notin Bad
    BY <1>1, <1>3
  <1> HIDE DEF T
  <1>5. Has(n)
    BY <1>4 DEF Bad
  <1> QED
    BY <1>1, <1>5 DEF Has

(* A side with orders has an edge. *)
LEMMA EdgeExists ==
  ASSUME BookInv, NEW s \in Side, Occupied(Opposite(s)) # {}
  PROVE  \E e \in Prices : IsEdge(s, e)
  <1> DEFINE S == Occupied(Opposite(s))
             L(p) == <<Opposite(s), p>>
             h == [p \in S |-> Head(queue[L(p)])]
  <1>1. S \in SUBSET Prices /\ S \in SUBSET Nat /\ S # {}
    BY BookConstants DEF Occupied
  <1>2. ASSUME NEW p \in S
        PROVE  h[p] \in 1..MaxOrders /\ orders[h[p]].parent = L(p)
    <2>1. p \in Prices /\ L(p) \in Level /\ queue[L(p)] # <<>>
      BY LevelNames DEF Occupied
    <2>2. queue[L(p)] \in Seq(Ids) /\ IsInjective(queue[L(p)])
      BY <2>1 DEF BookInv, TypeOK, ListsMatchOrderMap
    <2> HIDE DEF L
    <2>3. Head(queue[L(p)]) \in Ids /\ Head(queue[L(p)]) \in ToSet(queue[L(p)])
      BY <2>1, <2>2, TailOfList
    <2>4. orders[Head(queue[L(p)])].parent = L(p)
      BY <2>1, <2>3 DEF BookInv, ListsMatchOrderMap
    <2> HIDE DEF S
    <2> QED
      BY <2>3, <2>4 DEF Ids
  <1>3. \A p, q \in S : h[p] = h[q] => p = q
    BY <1>2
  <1>4. h \in [S -> 1..MaxOrders] /\ MaxOrders \in Nat
    BY <1>2, BookConstants
  <1>5. \A e \in S : AsGoodAsAll(s, e, S) => IsEdge(s, e)
    BY DEF AsGoodAsAll, IsEdge
  <1> HIDE DEF S, h
  <1> QED
    BY <1>1, <1>3, <1>4, <1>5, BestOfMany

(* What is left of a limit order when its sweep ends is not as good as any  *)
(* order of the other side: else the sweep would have met that one's level. *)
LEMMA RestDoesNotCross ==
  ASSUME BookInv, SweepEnds, call.rest > 0, call.limit \in Prices,
         NEW e \in Occupied(Opposite(call.side))
  PROVE  ~AsGood(call.side, e, call.limit)
  <1> SUFFICES ASSUME AsGood(call.side, e, call.limit) PROVE FALSE
    OBVIOUS
  <1>1. call.side \in Side
    BY DEF BookInv, TypeOK, Call
  <1>2. PICK best \in Prices : IsEdge(call.side, best)
    BY <1>1, EdgeExists
  <1>3. e \in Nat /\ best \in Nat /\ call.limit \in Nat
    BY BookConstants DEF Occupied
  <1>4. AsGood(call.side, best, e)
    BY <1>2 DEF IsEdge
  <1>5. AsGood(call.side, best, call.limit)
    BY <1>3, <1>4 DEF AsGood
  <1>6. NextPrice(best)
    BY <1>2, <1>5 DEF NextPrice, SweepEnds
  <1> QED
    BY <1>6 DEF SweepEnds

(* Nothing new on either side. *)
LEMMA FewerDoNotCross ==
  ASSUME ~Crossed, \A l \in LimitLevel : queue'[l] # <<>> => queue[l] # <<>>
  PROVE  ~Crossed'
  <1>1. \A p \in Prices : <<"buy", p>> \in LimitLevel /\ <<"sell", p>> \in LimitLevel
    BY DEF LimitLevel, Side
  <1> QED
    BY <1>1 DEF Crossed, Occupied

LEMMA RestsDoesNotCross ==
  ASSUME BookInv, ~Crossed, LimitOrderRests \/ StopLimitRests
  PROVE  ~Crossed'
  <1> DEFINE l == <<call.side, call.limit>>
  <1>1. SweepEnds /\ call.rest > 0 /\ queue' = Linked(queue, l, call.id)
    BY DEF LimitOrderRests, StopLimitRests
  <1>2. call.limit \in Prices /\ call.side \in Side
    BY <1>1 DEF LimitOrderRests, StopLimitRests, SweepEnds, BookInv, TypeOK, CallLocals, Call
  <1>3. \A k \in Level : k # l => queue'[k] = queue[k]
    BY <1>1 DEF Linked, BookInv, TypeOK
  <1>4. \A p \in Prices : \A s \in Side :
           <<s, p>> \in Level /\ (<<s, p>> = l => s = call.side /\ p = call.limit)
    BY DEF Level, LimitLevel
  <1> HIDE DEF l
  <1>5. ASSUME NEW b \in Prices, NEW a \in Prices, queue'[<<"buy", b>>] # <<>>,
               queue'[<<"sell", a>>] # <<>>, b >= a
        PROVE  FALSE
    <2>1. CASE queue[<<"buy", b>>] # <<>> /\ queue[<<"sell", a>>] # <<>>
      BY <1>5, <2>1 DEF Crossed, Occupied
    <2>2. CASE queue[<<"buy", b>>] = <<>>
      <3>1. call.side = "buy" /\ call.limit = b
        BY <1>3, <1>4, <1>5, <2>2 DEF Side
      <3>2. queue[<<"sell", a>>] # <<>>
        BY <1>3, <1>4, <1>5, <3>1 DEF Side
      <3>3. a \in Occupied(Opposite(call.side)) /\ AsGood(call.side, a, call.limit)
        BY <1>5, <3>1, <3>2, BookConstants DEF Occupied, Opposite, AsGood
      <3> QED
        BY <1>1, <1>2, <3>3, RestDoesNotCross
    <2>3. CASE queue[<<"sell", a>>] = <<>>
      <3>1. call.side = "sell" /\ call.limit = a
        BY <1>3, <1>4, <1>5, <2>3 DEF Side
      <3>2. queue[<<"buy", b>>] # <<>>
        BY <1>3, <1>4, <1>5, <3>1 DEF Side
      <3>3. b \in Occupied(Opposite(call.side)) /\ AsGood(call.side, b, call.limit)
        BY <1>5, <3>1, <3>2, BookConstants DEF Occupied, Opposite, AsGood
      <3> QED
        BY <1>1, <1>2, <3>3, RestDoesNotCross
    <2> QED
      BY <2>1, <2>2, <2>3
  <1> QED
    BY <1>5 DEF Crossed, Occupied

(* Linking or unlinking in the stop book puts nothing on either side. *)
LEMMA LinkedStopIsNoLimit ==
  ASSUME NEW q \in Lists, NEW sp \in Prices, NEW id
  PROVE  \A l \in LimitLevel : Linked(q, <<"stop", sp>>, id)[l] = q[l]
  <1>1. \A l \in LimitLevel : l # <<"stop", sp>> /\ l \in Level
    BY StopIsNoLimitLevel DEF Level
  <1> QED
    BY <1>1 DEF Linked, Lists

LEMMA NextKeepsSpread ==
  BookInv /\ [Next]_vars =>
    (Crossed' => Crossed \/ \E id \in Ids, q \in Quantities, p \in Prices :
                                ModifyLimitOrder(id, q, p))
  <1> SUFFICES ASSUME BookInv, [Next]_vars, ~Crossed,
                      ~\E id \in Ids, q \in Quantities, p \in Prices : ModifyLimitOrder(id, q, p)
               PROVE  ~Crossed'
    OBVIOUS
  <1>1. queue \in Lists /\ orders \in Maps
    BY DEF BookInv, TypeOK, Lists, Maps
  <1>2. CASE SubmitOn(Side)
    <2>1. PICK id \in Ids, s \in Side, q \in Quantities :
             \/ MarketOrder(id, s, q)
             \/ \E p \in Prices : \/ AddLimitOrder(id, s, q, p)
                                  \/ AddStopOrder(id, s, q, p)
                                  \/ \E sp \in Prices : AddStopLimitOrder(id, s, q, p, sp)
      BY <1>2 DEF SubmitOn
    <2>2. UNCHANGED queue \/ \E sp \in Prices : queue' = Linked(queue, <<"stop", sp>>, id)
      BY <2>1 DEF MarketOrder, AddLimitOrder, AddStopOrder, AddStopLimitOrder, Begin
    <2>3. ASSUME NEW sp \in Prices, queue' = Linked(queue, <<"stop", sp>>, id), NEW l \in LimitLevel
          PROVE  queue'[l] = queue[l]
      BY <1>1, <2>3, LinkedStopIsNoLimit
    <2> QED
      BY <2>2, <2>3, FewerDoNotCross
  <1>3. ASSUME NEW id \in Ids, Lookup(id)
        PROVE  /\ Unlinked(id) \in Lists
               /\ \A l \in LimitLevel : Unlinked(id)[l] # <<>> => queue[l] # <<>>
    <2>1. /\ call.stage = "idle" /\ HeldIds = {} /\ Agree(orders, queue, {})
          /\ orders[id] # NoOrder
      BY <1>3, ListsAgree, NothingHeld DEF BookInv, Lookup, NextCall
    <2>2. Unlinked(id) = WithList(queue, orders[id].parent, Unlink(queue[orders[id].parent], id))
      BY DEF Unlinked, WithList
    <2> QED
      BY <1>1, <2>1, <2>2, AgreeUnlink, UnlinkedOnlyShrinks DEF Level
  <1>4. CASE Cancel
    <2>1. PICK id \in Ids : Lookup(id) /\ queue' = Unlinked(id)
      BY <1>4 DEF Cancel, CancelLimitOrder, CancelStopOrder, CancelOrder
    <2> QED
      BY <1>3, <2>1, FewerDoNotCross
  <1>5. CASE Modify
    <2>1. PICK id \in Ids, sp \in Prices :
            Lookup(id) /\ queue' = Linked(Unlinked(id), <<"stop", sp>>, id)
      BY <1>5 DEF Modify, ModifyStopOrder, ModifyStopLimitOrder, Move
    <2>2. \A l \in LimitLevel : queue'[l] = Unlinked(id)[l]
      BY <1>3, <2>1, LinkedStopIsNoLimit
    <2> QED
      BY <1>3, <2>1, <2>2, FewerDoNotCross
  <1>6. CASE EngineStep
    <2>1. CASE LimitOrderRests \/ StopLimitRests
      BY <2>1, RestsDoesNotCross
    <2>2. CASE ~(LimitOrderRests \/ StopLimitRests)
      <3>1. \/ UNCHANGED queue
            \/ \E l \in Level : queue' = [queue EXCEPT ![l] = Tail(@)] /\ queue[l] # <<>>
        <4>1. ASSUME NEW p \in Prices, FillHead(p)
              PROVE  \E l \in Level : queue' = [queue EXCEPT ![l] = Tail(@)] /\ queue[l] # <<>>
          <5>1. NextPrice(p) /\ queue' = [queue EXCEPT ![<<Opposite(call.side), p>>] = Tail(@)]
            BY <4>1 DEF FillHead
          <5> QED
            BY <5>1, HeadIsLive DEF Level
        <4>2. ASSUME NEW p \in Prices, TriggerStop(p)
              PROVE  \E l \in Level : queue' = [queue EXCEPT ![l] = Tail(@)] /\ queue[l] # <<>>
          <5>1. stopSide[p] = call.side /\ queue' = [queue EXCEPT ![<<"stop", p>>] = Tail(@)]
            BY <4>2 DEF TriggerStop, StopDue, IsStopEdge, StopPrices
          <5>2. call.side # "none"
            BY DEF BookInv, TypeOK, Call, Side
          <5> QED
            BY <5>1, <5>2, LevelNames DEF BookInv, StopLevelsInTrees
        <4>3. CASE (\E p \in Prices : FillHeadPartly(p)) \/ MarketSweepEnds \/ StopLimitFilled \/ CallReturns
          BY <4>3 DEF FillHeadPartly, MarketSweepEnds, StopLimitFilled, CallReturns
        <4> QED
          BY <1>6, <2>2, <4>1, <4>2, <4>3 DEF EngineStep
      <3>2. \A l \in LimitLevel : queue'[l] # <<>> => queue[l] # <<>>
        BY <1>1, <3>1 DEF Lists, Level
      <3> QED
        BY <3>2, FewerDoNotCross
    <2> QED
      BY <2>1, <2>2
  <1>7. CASE UNCHANGED vars
    BY <1>7, FewerDoNotCross DEF vars
  <1> QED
    BY <1>2, <1>4, <1>5, <1>6, <1>7 DEF Next

(* No order crosses the book but one whose limit a modify has changed: a    *)
(* limit order rests only where its sweep, over all prices that have orders,*)
(* left nothing on the other side that it could still have traded with.     *)
THEOREM OnlyAModifyCrosses == Spec => OnlyModifyCrosses
  <1>1. BookInv /\ [Next]_vars =>
          [Crossed' => Crossed \/ \E id \in Ids, q \in Quantities, p \in Prices :
                                      ModifyLimitOrder(id, q, p)]_vars
    BY NextKeepsSpread
  <1> QED
    BY <1>1, BookInvariant, PTL DEF Spec, OnlyModifyCrosses
=============================================================================
