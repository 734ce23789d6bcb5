------------------------- MODULE OrderFlowBase_proofs -------------------------
(* First part of the proofs about OrderFlow: the sums that its properties   *)
(* are about, what a call of the engine does to them for every book, and    *)
(* the invariant of types, ids and traded shares. OrderFlow_proofs goes on  *)
(* with the tracker and the money.                                          *)
EXTENDS OrderFlow, FiniteSetTheorems, WellFoundedInduction, TLAPS

-----------------------------------------------------------------------------
(* Sums *)

Column(x, n) == {x} \X (1..n)

LEMMA ColumnCounts ==
  ASSUME NEW x, NEW n \in Nat
  PROVE  IsFiniteSet(Column(x, n)) /\ Cardinality(Column(x, n)) = n
  <1>1. IsFiniteSet({x}) /\ Cardinality({x}) = 1
    BY FS_Singleton
  <1>2. IsFiniteSet(1..n) /\ Cardinality(1..n) = n
    BY FS_Interval
  <1>3. IsFiniteSet({x} \X (1..n)) /\ Cardinality({x} \X (1..n)) = Cardinality({x}) * Cardinality(1..n)
    BY <1>1, <1>2, FS_Product
  <1> QED
    BY <1>1, <1>2, <1>3 DEF Column

LEMMA UnitsAre ==
  ASSUME NEW S, NEW f \in [S -> Nat]
  PROVE  \A u : u \in Units(f) <=> \E x \in S : \E k \in 1..f[x] : u = <<x, k>>
  BY DEF Units

(* A sum over a finite set is a natural number. *)
LEMMA TotalType ==
  ASSUME NEW S, IsFiniteSet(S), NEW f \in [S -> Nat]
  PROVE  IsFiniteSet(Units(f)) /\ Total(f) \in Nat
  <1> DEFINE C == [x \in S |-> Column(x, f[x])]
             Cs == {Column(x, f[x]) : x \in S}
  <1>1. C \in Surjection(S, Cs)
    BY DEF Surjection
  <1>2. IsFiniteSet(Cs)
    BY <1>1, FS_Surjection
  <1>3. \A c \in Cs : IsFiniteSet(c)
    BY ColumnCounts
  <1>4. Units(f) = UNION Cs
    BY DEF Units, Column
  <1>5. IsFiniteSet(UNION Cs)
    BY <1>2, <1>3, FS_UNION
  <1> QED
    BY <1>4, <1>5, FS_CardinalityType DEF Total

(* The part of a sum outside x, and the part of x *)
LEMMA TotalSplits ==
  ASSUME NEW S, IsFiniteSet(S), NEW f \in [S -> Nat], NEW x \in S
  PROVE  LET R == {u \in Units(f) : u[1] # x}
         IN  IsFiniteSet(R) /\ Cardinality(R) \in Nat /\ Total(f) = Cardinality(R) + f[x]
  <1> DEFINE R == {u \in Units(f) : u[1] # x}
             C == Column(x, f[x])
  <1>1. IsFiniteSet(Units(f))
    BY TotalType
  <1>2. IsFiniteSet(R) /\ Cardinality(R) \in Nat
    BY <1>1, FS_Subset, FS_CardinalityType
  <1>3. IsFiniteSet(C) /\ Cardinality(C) = f[x]
    BY ColumnCounts
  <1>4. Units(f) = R \cup C /\ R \cap C = {}
    BY UnitsAre DEF Column
  <1>5. Cardinality({}) = 0
    BY FS_EmptySet
  <1>6. Cardinality(R \cup C) = Cardinality(R) + Cardinality(C) - Cardinality(R \cap C)
    BY <1>2, <1>3, FS_Union
  <1> QED
    BY <1>2, <1>3, <1>4, <1>5, <1>6, SMTT(30) DEF Total

(* No part is more than the sum. *)
LEMMA TotalHasPart ==
  ASSUME NEW S, IsFiniteSet(S), NEW f \in [S -> Nat], NEW x \in S
  PROVE  f[x] <= Total(f)
  <1> DEFINE R == {u \in Units(f) : u[1] # x}
  <1>1. Cardinality(R) \in Nat /\ Total(f) = Cardinality(R) + f[x]
    BY TotalSplits
  <1> HIDE DEF R
  <1> QED
    BY <1>1

(* A change in one place changes the sum by as much. *)
LEMMA TotalChanges ==
  ASSUME NEW S, IsFiniteSet(S), NEW f \in [S -> Nat], NEW g \in [S -> Nat], NEW x \in S,
         \A y \in S \ {x} : f[y] = g[y]
  PROVE  Total(f) + g[x] = Total(g) + f[x]
  <1> DEFINE R(h) == {u \in Units(h) : u[1] # x}
  <1>1. R(f) = R(g)
    <2>1. \A u : u \in R(f) <=> \E y \in S : \E k \in 1..f[y] : u = <<y, k>> /\ y # x
      BY UnitsAre
    <2>2. \A u : u \in R(g) <=> \E y \in S : \E k \in 1..g[y] : u = <<y, k>> /\ y # x
      BY UnitsAre
    <2> QED
      BY <2>1, <2>2
  <1>2. Cardinality(R(f)) \in Nat /\ Total(f) = Cardinality(R(f)) + f[x]
    BY TotalSplits
  <1>3. Cardinality(R(g)) \in Nat /\ Total(g) = Cardinality(R(g)) + g[x]
    BY TotalSplits
  <1>4. f[x] \in Nat /\ g[x] \in Nat
    OBVIOUS
  <1> HIDE DEF R
  <1> QED
    BY <1>1, <1>2, <1>3, <1>4

(* A further place adds its part. *)
LEMMA TotalExtends ==
  ASSUME NEW T, IsFiniteSet(T), NEW x \in T, NEW S, S \subseteq T, \A y \in T : y \in S <=> y # x,
         NEW f \in [S -> Nat], NEW g \in [T -> Nat], \A y \in S : g[y] = f[y]
  PROVE  Total(g) = Total(f) + g[x]
  <1>2. {u \in Units(g) : u[1] # x} = Units(f)
    BY UnitsAre
  <1> QED
    BY <1>2, TotalSplits DEF Total

LEMMA TotalZero ==
  ASSUME NEW S, NEW f \in [S -> Nat], \A x \in S : f[x] = 0
  PROVE  Total(f) = 0
  <1>1. Units(f) = {}
    BY UnitsAre
  <1> QED
    BY <1>1, FS_EmptySet DEF Total

(* A sum is at most another when its parts are at most distinct parts of it. *)
LEMMA TotalWithin ==
  ASSUME NEW S, IsFiniteSet(S), NEW f \in [S -> Nat],
         NEW T, IsFiniteSet(T), NEW g \in [T -> Nat],
         NEW h, \A x \in S : f[x] > 0 => h[x] \in T /\ f[x] <= g[h[x]],
         \A x, y \in S : f[x] > 0 /\ f[y] > 0 /\ h[x] = h[y] => x = y
  PROVE  Total(f) <= Total(g)
  <1> DEFINE m == [u \in Units(f) |-> <<h[u[1]], u[2]>>]
  <1>1. \A u \in Units(f) : u[1] \in S /\ u[2] \in 1..f[u[1]] /\ u = <<u[1], u[2]>>
    BY UnitsAre
  <1>2. \A u \in Units(f) : f[u[1]] > 0
    BY <1>1
  <1>3. \A u \in Units(f) : <<h[u[1]], u[2]>> \in Units(g)
    <2> SUFFICES ASSUME NEW u \in Units(f)
                 PROVE  <<h[u[1]], u[2]>> \in Units(g)
      OBVIOUS
    <2>1. h[u[1]] \in T /\ u[2] \in 1..g[h[u[1]]]
      BY <1>1, <1>2
    <2> QED
      BY <2>1, UnitsAre
  <1>4. m \in Injection(Units(f), Units(g))
    <2>1. m \in [Units(f) -> Units(g)]
      BY <1>3
    <2>2. ASSUME NEW u \in Units(f), NEW v \in Units(f), m[u] = m[v]
          PROVE  u = v
      <3>1. h[u[1]] = h[v[1]] /\ u[2] = v[2]
        BY <2>2
      <3>2. u[1] = v[1]
        BY <3>1, <1>1, <1>2
      <3> QED
        BY <3>1, <3>2, <1>1
    <2> QED
      BY <2>1, <2>2 DEF Injection, IsInjective
  <1>5. IsFiniteSet(Units(g))
    BY TotalType
  <1> QED
    BY <1>4, <1>5, FS_Injection DEF Total

LEMMA TotalBelow ==
  ASSUME NEW S, NEW T, S \subseteq T, IsFiniteSet(T), NEW f \in [S -> Nat], NEW g \in [T -> Nat],
         \A x \in S : f[x] <= g[x]
  PROVE  Total(f) <= Total(g)
  <1> DEFINE h == [x \in S |-> x]
  <1>1. IsFiniteSet(S)
    BY FS_Subset
  <1>2. \A x \in S : f[x] > 0 => h[x] \in T /\ f[x] <= g[h[x]]
    OBVIOUS
  <1>3. \A x, y \in S : f[x] > 0 /\ f[y] > 0 /\ h[x] = h[y] => x = y
    OBVIOUS
  <1> HIDE DEF h
  <1> QED
    BY <1>1, <1>2, <1>3, TotalWithin

-----------------------------------------------------------------------------
(* Sums over the places of a sequence *)

LEMMA SeqIsFunction ==
  ASSUME NEW S, NEW q \in Seq(S)
  PROVE  Len(q) \in Nat /\ DOMAIN q = 1..Len(q) /\ q \in [1..Len(q) -> S] /\ IsFiniteSet(1..Len(q))
  BY FS_Interval

LEMMA TotalOfSeq ==
  ASSUME NEW q \in Seq(Nat)
  PROVE  Total(q) \in Nat
  <1>1. q \in [1..Len(q) -> Nat] /\ IsFiniteSet(1..Len(q))
    BY FS_Interval
  <1> QED
    BY <1>1, TotalType

LEMMA TotalOfEmpty == Total(<<>>) = 0
  <1>1. <<>> \in [1..0 -> Nat] /\ \A x \in 1..0 : <<>>[x] = 0
    OBVIOUS
  <1> QED
    BY <1>1, TotalZero

LEMMA TotalOfOneMore ==
  ASSUME NEW n, n \in Nat, NEW f, f \in [1..n -> Nat], NEW g, g \in [1..(n + 1) -> Nat],
         \A k \in 1..n : g[k] = f[k]
  PROVE  Total(g) = Total(f) + g[n + 1]
  <1> DEFINE S == 1..n
             T == 1..(n + 1)
             x == n + 1
  <1>1. IsFiniteSet(T)
    BY FS_Interval
  <1>2. x \in T /\ S \subseteq T /\ \A y \in T : y \in S <=> y # x
    OBVIOUS
  <1>3. f \in [S -> Nat] /\ g \in [T -> Nat] /\ \A y \in S : g[y] = f[y]
    OBVIOUS
  <1> HIDE DEF S, T, x
  <1>4. Total(g) = Total(f) + g[x]
    BY ONLY <1>1, <1>2, <1>3, TotalExtends
  <1> QED
    BY <1>4 DEF x

LEMMA TotalOfAppend ==
  ASSUME NEW q \in Seq(Nat), NEW x \in Nat
  PROVE  Total(Append(q, x)) = Total(q) + x
  <1> DEFINE n == Len(q)
             g == Append(q, x)
  <1>1. n \in Nat
    OBVIOUS
  <1>2. g \in Seq(Nat) /\ Len(g) = n + 1 /\ g[n + 1] = x /\ \A y \in 1..n : g[y] = q[y]
    OBVIOUS
  <1> HIDE DEF g, n
  <1>3. q \in [1..n -> Nat] /\ g \in [1..(n + 1) -> Nat]
    BY <1>2, SeqIsFunction DEF n
  <1>4. Total(g) = Total(q) + g[n + 1]
    BY <1>1, <1>2, <1>3, TotalOfOneMore
  <1> QED
    BY <1>2, <1>4 DEF g

LEMMA TotalOfTail ==
  ASSUME NEW q, q \in Seq(Nat), q # <<>>
  PROVE  Total(q) = Head(q) + Total(Tail(q))
  <1> DEFINE m == Len(q)
             n == m - 1
             t == Tail(q)
  <1>20. n \in Nat /\ Head(q) = q[1] /\ m = n + 1
    OBVIOUS
  <1>21. t \in Seq(Nat) /\ Len(t) = n
    OBVIOUS
  <1>22. \A k \in 1..n : t[k] = q[k + 1]
    OBVIOUS
  <1>23. q \in [1..m -> Nat] /\ t \in [1..n -> Nat]
    BY <1>20, <1>21, SeqIsFunction
  <1> HIDE DEF t, n, m
  <1> DEFINE S == 2..m
             T == 1..m
             D == 1..n
             r    == [k \in S |-> q[k]]
             down == [k \in S |-> k - 1]
             up   == [k \in D |-> k + 1]
  <1>1. IsFiniteSet(T) /\ IsFiniteSet(S) /\ IsFiniteSet(D)
    <2>1. 1 \in Int /\ 2 \in Int /\ n \in Int /\ m \in Int
      BY ONLY <1>20, <1>22, <1>23
    <2> QED
      BY <2>1, FS_Interval
  <1>2. 1 \in T /\ S \subseteq T /\ \A y \in T : y \in S <=> y # 1
    BY ONLY <1>20, <1>22, <1>23
  <1>3. r \in [S -> Nat] /\ q \in [T -> Nat] /\ t \in [D -> Nat] /\ \A y \in S : q[y] = r[y]
    BY ONLY <1>20, <1>22, <1>23
  <1>4. \A x \in S : r[x] > 0 => down[x] \in D /\ r[x] <= t[down[x]]
    BY ONLY <1>20, <1>22, <1>23
  <1>5. \A x, y \in S : r[x] > 0 /\ r[y] > 0 /\ down[x] = down[y] => x = y
    BY ONLY <1>20, <1>22, <1>23
  <1>6. \A x \in D : t[x] > 0 => up[x] \in S /\ t[x] <= r[up[x]]
    BY ONLY <1>20, <1>22, <1>23
  <1>7. \A x, y \in D : t[x] > 0 /\ t[y] > 0 /\ up[x] = up[y] => x = y
    BY ONLY <1>20, <1>22, <1>23
  <1> HIDE DEF S, T, D, r, down, up
  <1>8. Total(q) = Total(r) + q[1]
    BY ONLY <1>1, <1>2, <1>3, TotalExtends
  <1>9. Total(r) <= Total(t)
    BY ONLY <1>1, <1>3, <1>4, <1>5, TotalWithin
  <1>10. Total(t) <= Total(r)
    BY ONLY <1>1, <1>3, <1>6, <1>7, TotalWithin
  <1>11. Total(r) \in Nat /\ Total(t) \in Nat /\ q[1] \in Nat
    BY <1>1, <1>2, <1>3, TotalType
  <1> QED
    BY <1>20, <1>8, <1>9, <1>10, <1>11 DEF t

(* The sum of the weights that w gives the elements of a sequence *)
Weight(q, w) == Total([k \in DOMAIN q |-> w[q[k]]])

LEMMA WeightType ==
  ASSUME NEW S, NEW w \in [S -> Nat], NEW q \in Seq(S)
  PROVE  Weight(q, w) \in Nat
  <1>1. [k \in DOMAIN q |-> w[q[k]]] \in Seq(Nat)
    OBVIOUS
  <1> QED
    BY <1>1, TotalOfSeq DEF Weight

LEMMA WeightOfEmpty ==
  ASSUME NEW w
  PROVE  Weight(<<>>, w) = 0
  <1>1. [k \in DOMAIN <<>> |-> w[<<>>[k]]] = <<>>
    OBVIOUS
  <1> QED
    BY <1>1, TotalOfEmpty DEF Weight

LEMMA WeightOfAppend ==
  ASSUME NEW S, NEW w \in [S -> Nat], NEW q \in Seq(S), NEW x \in S
  PROVE  Weight(Append(q, x), w) = Weight(q, w) + w[x]
  <1> DEFINE f == [k \in DOMAIN q |-> w[q[k]]]
  <1>1. f \in Seq(Nat) /\ w[x] \in Nat /\ Len(f) = Len(q)
    OBVIOUS
  <1>2. [k \in DOMAIN Append(q, x) |-> w[Append(q, x)[k]]] = Append(f, w[x])
    OBVIOUS
  <1> HIDE DEF f
  <1>3. Total(Append(f, w[x])) = Total(f) + w[x]
    BY <1>1, TotalOfAppend
  <1> QED
    BY <1>2, <1>3 DEF Weight, f

LEMMA WeightOfTail ==
  ASSUME NEW S, NEW w \in [S -> Nat], NEW q \in Seq(S), q # <<>>
  PROVE  Weight(q, w) = w[Head(q)] + Weight(Tail(q), w)
  <1> DEFINE f == [k \in DOMAIN q |-> w[q[k]]]
  <1>1. f \in Seq(Nat) /\ f # <<>> /\ Head(f) = w[Head(q)] /\ Len(f) = Len(q)
    OBVIOUS
  <1>2. [k \in DOMAIN Tail(q) |-> w[Tail(q)[k]]] = Tail(f)
    OBVIOUS
  <1> HIDE DEF f
  <1>3. Total(f) = Head(f) + Total(Tail(f))
    BY <1>1, TotalOfTail
  <1> QED
    BY <1>1, <1>2, <1>3 DEF Weight, f

(* Weights that are nowhere more give sums that are not more, and so does a  *)
(* sequence that is cut off.                                                 *)
LEMMA WeightWithin ==
  ASSUME NEW S, NEW v \in [S -> Nat], NEW w \in [S -> Nat], NEW q \in Seq(S), NEW p \in Seq(S),
         Len(p) <= Len(q), \A k \in DOMAIN p : p[k] = q[k] /\ v[p[k]] <= w[p[k]]
  PROVE  Weight(p, v) <= Weight(q, w)
  <1> DEFINE f == [k \in DOMAIN p |-> v[p[k]]]
             g == [k \in DOMAIN q |-> w[q[k]]]
  <1>1. /\ Len(p) \in Nat /\ DOMAIN p = 1..Len(p) /\ p \in [1..Len(p) -> S] /\ IsFiniteSet(1..Len(p))
        /\ Len(q) \in Nat /\ DOMAIN q = 1..Len(q) /\ q \in [1..Len(q) -> S] /\ IsFiniteSet(1..Len(q))
    BY SeqIsFunction
  <1>2. f \in [1..Len(p) -> Nat] /\ g \in [1..Len(q) -> Nat]
    BY <1>1
  <1> DEFINE P == 1..Len(p)
             Q == 1..Len(q)
  <1>3. P \subseteq Q
    BY <1>1
  <1>4. \A x \in P : f[x] <= g[x]
    <2> SUFFICES ASSUME NEW x \in P
                 PROVE  f[x] <= g[x]
      OBVIOUS
    <2>1. x \in DOMAIN p /\ x \in DOMAIN q
      BY <1>1
    <2>2. f[x] = v[p[x]] /\ g[x] = w[q[x]]
      BY <2>1
    <2>3. p[x] = q[x] /\ v[p[x]] <= w[p[x]]
      BY <2>1
    <2> QED
      BY <2>2, <2>3
  <1>5. f \in [P -> Nat] /\ g \in [Q -> Nat] /\ IsFiniteSet(Q)
    BY <1>1, <1>2
  <1> HIDE DEF f, g, P, Q
  <1>6. Total(f) <= Total(g)
    BY <1>3, <1>4, <1>5, TotalBelow
  <1> QED
    BY <1>6 DEF Weight, f, g

LEMMA WeightOfPart ==
  ASSUME NEW S, NEW w \in [S -> Nat], NEW q \in Seq(S), NEW k \in DOMAIN q
  PROVE  w[q[k]] <= Weight(q, w)
  <1> DEFINE f == [j \in DOMAIN q |-> w[q[j]]]
  <1>0. DOMAIN q = 1..Len(q) /\ q \in [1..Len(q) -> S] /\ IsFiniteSet(1..Len(q))
    BY SeqIsFunction
  <1>1. f \in [1..Len(q) -> Nat] /\ IsFiniteSet(1..Len(q)) /\ f[k] = w[q[k]] /\ k \in 1..Len(q)
    BY <1>0
  <1> HIDE DEF f
  <1>2. f[k] <= Total(f)
    BY <1>1, TotalHasPart
  <1> QED
    BY <1>1, <1>2 DEF Weight, f

-----------------------------------------------------------------------------
(* Changes of a list *)

LEMMA InsertAtIs ==
  ASSUME NEW S, NEW q \in Seq(S), NEW o \in S, NEW i \in 1..(Len(q) + 1)
  PROVE  LET g == InsertAt(q, i, o)
         IN  /\ g \in Seq(S) /\ Len(g) = Len(q) + 1 /\ g[i] = o
             /\ \A k \in 1..Len(q) : q[k] = g[IF k < i THEN k ELSE k + 1]
             /\ \A k \in 1..Len(g) : k # i => \E j \in 1..Len(q) : g[k] = q[j]
  <1> DEFINE a == SubSeq(q, 1, i - 1)
             b == SubSeq(q, i, Len(q))
             c == a \o <<o>>
             g == c \o b
  <1>1. Len(q) \in Nat /\ i \in Nat
    OBVIOUS
  <1>2. a \in Seq(S) /\ Len(a) = i - 1 /\ \A k \in 1..(i - 1) : a[k] = q[k]
    BY <1>1
  <1>3. b \in Seq(S) /\ Len(b) = Len(q) - i + 1 /\ \A k \in 1..(Len(q) - i + 1) : b[k] = q[k + i - 1]
    BY <1>1
  <1> HIDE DEF a, b
  <1>4. c \in Seq(S) /\ Len(c) = i /\ c[i] = o /\ \A k \in 1..(i - 1) : c[k] = a[k]
    BY <1>1, <1>2
  <1> HIDE DEF c
  <1>5. g \in Seq(S) /\ Len(g) = Len(q) + 1 /\ g[i] = o
    BY <1>1, <1>3, <1>4
  <1>6. \A k \in 1..(i - 1) : g[k] = q[k]
    BY <1>1, <1>2, <1>3, <1>4
  <1>7. \A k \in i..Len(q) : g[k + 1] = q[k]
    <2> SUFFICES ASSUME NEW k \in i..Len(q)
                 PROVE  g[k + 1] = q[k]
      OBVIOUS
    <2>1. g[k + 1] = b[k + 1 - i]
      BY <1>1, <1>3, <1>4
    <2>2. b[k + 1 - i] = q[k + 1 - i + i - 1]
      BY <1>1, <1>3
    <2>3. k + 1 - i + i - 1 = k
      BY <1>1
    <2> QED
      BY <2>1, <2>2, <2>3
  <1>8. g = InsertAt(q, i, o)
    BY DEF InsertAt, a, b, c
  <1> HIDE DEF g
  <1>9. \A k \in 1..Len(q) : q[k] = g[IF k < i THEN k ELSE k + 1]
    BY <1>1, <1>6, <1>7
  <1>10. ASSUME NEW k \in 1..Len(g), k # i
         PROVE  \E j \in 1..Len(q) : g[k] = q[j]
    <2>1. CASE k < i
      <3>1. k \in 1..(i - 1) /\ k \in 1..Len(q)
        BY <2>1, <1>1, <1>5
      <3> QED
        BY <3>1, <1>6
    <2>2. CASE ~(k < i)
      <3>1. k - 1 \in i..Len(q) /\ k - 1 \in 1..Len(q) /\ k - 1 + 1 = k
        BY <2>2, <1>1, <1>5, <1>10
      <3> QED
        BY <3>1, <1>7
    <2> QED
      BY <2>1, <2>2
  <1> QED
    BY <1>5, <1>8, <1>9, <1>10

LEMMA RemoveAtIs ==
  ASSUME NEW S, NEW q \in Seq(S), NEW i \in DOMAIN q
  PROVE  LET p == RemoveAt(q, i)
         IN  /\ p \in Seq(S) /\ Len(q) = Len(p) + 1
             /\ \A k \in 1..Len(p) : p[k] = q[IF k < i THEN k ELSE k + 1]
  <1> DEFINE a == SubSeq(q, 1, i - 1)
             b == SubSeq(q, i + 1, Len(q))
             p == a \o b
  <1>1. Len(q) \in Nat /\ i \in 1..Len(q)
    OBVIOUS
  <1>2. a \in Seq(S) /\ Len(a) = i - 1 /\ \A k \in 1..(i - 1) : a[k] = q[k]
    BY <1>1
  <1>3. b \in Seq(S) /\ Len(b) = Len(q) - i /\ \A k \in 1..(Len(q) - i) : b[k] = q[k + i]
    BY <1>1
  <1> HIDE DEF a, b
  <1>4. p \in Seq(S) /\ Len(p) = Len(q) - 1
    BY <1>1, <1>2, <1>3
  <1>5. \A k \in 1..(i - 1) : p[k] = q[k]
    BY <1>1, <1>2, <1>3
  <1>6. \A k \in i..(Len(q) - 1) : p[k] = q[k + 1]
    <2> SUFFICES ASSUME NEW k \in i..(Len(q) - 1)
                 PROVE  p[k] = q[k + 1]
      OBVIOUS
    <2>1. p[k] = b[k - i + 1]
      BY <1>1, <1>2, <1>3, SMTT(30)
    <2>2. b[k - i + 1] = q[k - i + 1 + i]
      BY <1>1, <1>3, SMTT(30)
    <2>3. k - i + 1 + i = k + 1
      BY <1>1
    <2> QED
      BY <2>1, <2>2, <2>3
  <1>7. p = RemoveAt(q, i)
    BY DEF RemoveAt, a, b
  <1> HIDE DEF p
  <1>8. \A k \in 1..Len(p) : p[k] = q[IF k < i THEN k ELSE k + 1]
    BY <1>1, <1>4, <1>5, <1>6
  <1> QED
    BY <1>4, <1>7, <1>8

(* g is q with one element more, at i. *)
OneMore(q, g, i) == /\ Len(g) = Len(q) + 1 /\ i \in DOMAIN g
                    /\ \A k \in DOMAIN q : q[k] = g[IF k < i THEN k ELSE k + 1]

LEMMA WeightOfOneMore ==
  ASSUME NEW S, NEW w, w \in [S -> Nat], NEW q, q \in Seq(S), NEW g, g \in Seq(S), NEW i,
         OneMore(q, g, i)
  PROVE  Weight(g, w) = Weight(q, w) + w[g[i]]
  <1> DEFINE n == Len(q)
             m == Len(g)
             D == 1..n
             T == 1..m
             R == T \ {i}
             f == [k \in DOMAIN q |-> w[q[k]]]
             h == [k \in DOMAIN g |-> w[g[k]]]
             r == [k \in R |-> h[k]]
             up == [k \in D |-> IF k < i THEN k ELSE k + 1]
             down == [k \in R |-> IF k < i THEN k ELSE k - 1]
  <1>1. /\ n \in Nat /\ DOMAIN q = D /\ q \in [D -> S] /\ IsFiniteSet(D)
        /\ m \in Nat /\ DOMAIN g = T /\ g \in [T -> S] /\ IsFiniteSet(T)
    BY SeqIsFunction
  <1>2. m = n + 1 /\ i \in T /\ \A k \in D : q[k] = g[IF k < i THEN k ELSE k + 1]
    BY <1>1 DEF OneMore
  <1>3. IsFiniteSet(R)
    BY <1>1, FS_Subset
  <1>4. R \subseteq T /\ \A y \in T : y \in R <=> y # i
    OBVIOUS
  <1>5. f \in [D -> Nat] /\ h \in [T -> Nat]
    BY <1>1
  <1>6. r \in [R -> Nat] /\ \A y \in R : h[y] = r[y]
    BY <1>5
  <1>7. \A x \in R : down[x] \in D
    BY <1>1, <1>2
  <1>8. \A x \in D : up[x] \in R
    BY <1>1, <1>2
  <1>9. \A x \in R : r[x] = f[down[x]]
    <2> SUFFICES ASSUME NEW x \in R
                 PROVE  r[x] = f[down[x]]
      OBVIOUS
    <2>1. down[x] \in D /\ x = (IF down[x] < i THEN down[x] ELSE down[x] + 1)
      BY <1>1, <1>2
    <2>2. q[down[x]] = g[x]
      BY <2>1, <1>2
    <2> QED
      BY <2>1, <2>2, <1>1
  <1>10. \A x \in D : f[x] = r[up[x]]
    <2> SUFFICES ASSUME NEW x \in D
                 PROVE  f[x] = r[up[x]]
      OBVIOUS
    <2>1. up[x] \in R /\ up[x] = (IF x < i THEN x ELSE x + 1)
      BY <1>1, <1>2
    <2>2. q[x] = g[up[x]]
      BY <2>1, <1>2
    <2> QED
      BY <2>1, <2>2, <1>1
  <1>11. \A x, y \in R : r[x] > 0 /\ r[y] > 0 /\ down[x] = down[y] => x = y
    BY <1>1, <1>2, SMTT(30)
  <1>12. \A x, y \in D : f[x] > 0 /\ f[y] > 0 /\ up[x] = up[y] => x = y
    <2>1. \A x \in D : down[up[x]] = x
      BY <1>1, <1>2
    <2> QED
      BY <2>1
  <1> HIDE DEF n, m, D, T, R, f, h, r, up, down
  <1>13. \A x \in R : r[x] > 0 => down[x] \in D /\ r[x] <= f[down[x]]
    BY <1>5, <1>6, <1>7, <1>9
  <1>14. \A x \in D : f[x] > 0 => up[x] \in R /\ f[x] <= r[up[x]]
    BY <1>5, <1>6, <1>8, <1>10
  <1>15. Total(h) = Total(r) + h[i]
    BY ONLY <1>1, <1>2, <1>4, <1>5, <1>6, TotalExtends
  <1>16. Total(r) <= Total(f)
    BY ONLY <1>1, <1>3, <1>5, <1>6, <1>13, <1>11, TotalWithin
  <1>17. Total(f) <= Total(r)
    BY ONLY <1>1, <1>3, <1>5, <1>6, <1>14, <1>12, TotalWithin
  <1>18. Total(r) \in Nat /\ Total(f) \in Nat /\ h[i] \in Nat
    BY <1>1, <1>2, <1>3, <1>5, <1>6, TotalType
  <1>19. Total(h) = Total(f) + h[i]
    BY <1>15, <1>16, <1>17, <1>18
  <1>20. h[i] = w[g[i]]
    BY <1>1, <1>2 DEF h
  <1> QED
    BY <1>19, <1>20 DEF Weight, f, h

LEMMA WeightOfInsert ==
  ASSUME NEW S, NEW w, w \in [S -> Nat], NEW q, q \in Seq(S), NEW o, o \in S,
         NEW i, i \in 1..(Len(q) + 1)
  PROVE  Weight(InsertAt(q, i, o), w) = Weight(q, w) + w[o]
  <1> DEFINE g == InsertAt(q, i, o)
  <1>1. /\ g \in Seq(S) /\ Len(g) = Len(q) + 1 /\ g[i] = o
        /\ \A k \in 1..Len(q) : q[k] = g[IF k < i THEN k ELSE k + 1]
    BY InsertAtIs
  <1> HIDE DEF g
  <1>2. OneMore(q, g, i)
    <2>1. DOMAIN g = 1..Len(g) /\ DOMAIN q = 1..Len(q) /\ Len(q) \in Nat
      BY <1>1
    <2> QED
      BY <1>1, <2>1 DEF OneMore
  <1>3. Weight(g, w) = Weight(q, w) + w[g[i]]
    BY ONLY w \in [S -> Nat], q \in Seq(S), <1>1, <1>2, WeightOfOneMore, SMTT(30)
  <1> QED
    BY <1>1, <1>3 DEF g

LEMMA WeightOfRemove ==
  ASSUME NEW S, NEW w, w \in [S -> Nat], NEW q, q \in Seq(S), NEW i, i \in DOMAIN q
  PROVE  Weight(q, w) = Weight(RemoveAt(q, i), w) + w[q[i]]
  <1> DEFINE p == RemoveAt(q, i)
  <1>1. /\ p \in Seq(S) /\ Len(q) = Len(p) + 1
        /\ \A k \in 1..Len(p) : p[k] = q[IF k < i THEN k ELSE k + 1]
    BY RemoveAtIs
  <1> HIDE DEF p
  <1>2. OneMore(p, q, i)
    <2>1. DOMAIN p = 1..Len(p)
      BY <1>1
    <2> QED
      BY <1>1, <2>1 DEF OneMore
  <1>4. p \in Seq(S)
    BY <1>1
  <1>3. Weight(q, w) = Weight(p, w) + w[q[i]]
    BY ONLY w \in [S -> Nat], q \in Seq(S), <1>4, <1>2, WeightOfOneMore, SMTT(30)
  <1> QED
    BY <1>1, <1>3 DEF p

(* The elements of the changed list *)
LEMMA InsertAtHolds ==
  ASSUME NEW S, NEW q \in Seq(S), NEW o \in S, NEW i \in 1..(Len(q) + 1)
  PROVE  \A x \in ToSet(InsertAt(q, i, o)) : x = o \/ x \in ToSet(q)
  <1> DEFINE g == InsertAt(q, i, o)
  <1>1. /\ g \in Seq(S) /\ g[i] = o
        /\ \A k \in 1..Len(g) : k # i => \E j \in 1..Len(q) : g[k] = q[j]
    BY InsertAtIs
  <1>2. DOMAIN g = 1..Len(g) /\ DOMAIN q = 1..Len(q)
    BY <1>1
  <1> HIDE DEF g
  <1>3. \A x \in ToSet(g) : x = o \/ x \in ToSet(q)
    BY <1>1, <1>2 DEF ToSet
  <1> QED
    BY <1>3 DEF g

LEMMA RemoveAtHolds ==
  ASSUME NEW S, NEW q \in Seq(S), NEW i \in DOMAIN q
  PROVE  \A x \in ToSet(RemoveAt(q, i)) : x \in ToSet(q)
  <1> DEFINE p == RemoveAt(q, i)
  <1>1. /\ p \in Seq(S) /\ Len(q) = Len(p) + 1
        /\ \A k \in 1..Len(p) : p[k] = q[IF k < i THEN k ELSE k + 1]
    BY RemoveAtIs
  <1> HIDE DEF p
  <1>2. DOMAIN p = 1..Len(p) /\ DOMAIN q = 1..Len(q) /\ Len(p) \in Nat
    BY <1>1
  <1>3. \A k \in DOMAIN p : p[k] \in ToSet(q)
    <2> SUFFICES ASSUME NEW k \in DOMAIN p
                 PROVE  p[k] \in ToSet(q)
      OBVIOUS
    <2>1. (IF k < i THEN k ELSE k + 1) \in DOMAIN q
      BY <1>1, <1>2
    <2> QED
      BY <1>1, <1>2, <2>1 DEF ToSet
  <1>4. \A x \in ToSet(p) : x \in ToSet(q)
    BY <1>3 DEF ToSet
  <1> QED
    BY <1>4 DEF p

LEMMA TailHolds ==
  ASSUME NEW S, NEW q \in Seq(S), q # <<>>
  PROVE  /\ Tail(q) \in Seq(S) /\ Head(q) \in S /\ Head(q) \in ToSet(q)
         /\ \A x \in ToSet(Tail(q)) : x \in ToSet(q)
  BY DEF ToSet

LEMMA HeadChanged ==
  ASSUME NEW S, NEW q \in Seq(S), q # <<>>, NEW o \in S
  PROVE  LET g == [q EXCEPT ![1] = o]
         IN  /\ g \in Seq(S) /\ g # <<>> /\ Head(g) = o /\ Tail(g) = Tail(q)
             /\ \A x \in ToSet(g) : x = o \/ x \in ToSet(q)
  BY DEF ToSet

(* A change of one place of a function on a finite set *)
LEMMA WeightChanges ==
  ASSUME NEW T, IsFiniteSet(T), NEW S, NEW w, w \in [S -> Nat], NEW f, f \in [T -> S],
         NEW g, g \in [T -> S], NEW r, r \in T, \A y \in T : y # r => g[y] = f[y]
  PROVE  Weight(g, w) + w[f[r]] = Weight(f, w) + w[g[r]]
  <1> DEFINE a == [k \in DOMAIN f |-> w[f[k]]]
             b == [k \in DOMAIN g |-> w[g[k]]]
  <1>1. a \in [T -> Nat] /\ b \in [T -> Nat] /\ \A y \in T \ {r} : a[y] = b[y]
    OBVIOUS
  <1>2. a[r] = w[f[r]] /\ b[r] = w[g[r]]
    OBVIOUS
  <1> HIDE DEF a, b
  <1>3. Total(a) + b[r] = Total(b) + a[r]
    BY ONLY IsFiniteSet(T), r \in T, <1>1, TotalChanges
  <1> QED
    BY <1>2, <1>3 DEF Weight, a, b

LEMMA WeightOnType ==
  ASSUME NEW T, IsFiniteSet(T), NEW S, NEW w, w \in [S -> Nat], NEW f, f \in [T -> S]
  PROVE  Weight(f, w) \in Nat
  <1>1. [k \in DOMAIN f |-> w[f[k]]] \in [T -> Nat]
    OBVIOUS
  <1> QED
    BY <1>1, TotalType DEF Weight

(* What is weighed nothing by w is weighed nothing by v. *)
LEMMA WeightVanishes ==
  ASSUME NEW S, NEW w \in [S -> Nat], NEW v \in [S -> Nat], NEW q \in Seq(S), Weight(q, w) = 0,
         \A x \in S : w[x] = 0 => v[x] = 0
  PROVE  Weight(q, v) = 0
  <1>1. \A k \in DOMAIN q : w[q[k]] <= 0
    BY WeightOfPart
  <1>2. DOMAIN q = 1..Len(q) /\ \A k \in DOMAIN q : q[k] \in S
    OBVIOUS
  <1>3. \A k \in DOMAIN q : v[q[k]] = 0
    BY <1>1, <1>2
  <1> DEFINE f == [k \in DOMAIN q |-> v[q[k]]]
  <1>4. f \in [1..Len(q) -> Nat] /\ \A k \in 1..Len(q) : f[k] = 0
    BY <1>2, <1>3
  <1> HIDE DEF f
  <1>5. Total(f) = 0
    BY <1>4, TotalZero
  <1> QED
    BY <1>5 DEF Weight, f

-----------------------------------------------------------------------------
(* One round of the engine *)

LEMMA MinIs ==
  ASSUME NEW x \in Int, NEW y \in Int
  PROVE  /\ Min({x, y}) \in {x, y} /\ Min({x, y}) <= x /\ Min({x, y}) <= y
         /\ Min({x, y}) = IF x <= y THEN x ELSE y
  BY DEF Min

InBooks(b, w) == Weight(b["buy"], w) + Weight(b["sell"], w)
Held(b)       == ToSet(b["buy"]) \cup ToSet(b["sell"])

LEMMA SidesAre ==
  ASSUME NEW s, s \in Side, NEW b
  PROVE  /\ Opposite(s) \in Side /\ Opposite(s) # s
         /\ Held(b) = ToSet(b[s]) \cup ToSet(b[Opposite(s)])
         /\ b \in [Side -> Seq(Resting)] =>
              \A w \in [Resting -> Nat] :
                 /\ InBooks(b, w) = Weight(b[s], w) + Weight(b[Opposite(s)], w)
                 /\ Weight(b[s], w) \in Nat /\ Weight(b[Opposite(s)], w) \in Nat
                 /\ InBooks(b, w) \in Nat
  <1>1. /\ Opposite(s) \in Side /\ Opposite(s) # s
        /\ (s = "buy" /\ Opposite(s) = "sell") \/ (s = "sell" /\ Opposite(s) = "buy")
    BY DEF Side, Opposite
  <1>2. Held(b) = ToSet(b[s]) \cup ToSet(b[Opposite(s)])
    BY <1>1 DEF Held
  <1>3. ASSUME b \in [Side -> Seq(Resting)], NEW w \in [Resting -> Nat]
        PROVE  /\ InBooks(b, w) = Weight(b[s], w) + Weight(b[Opposite(s)], w)
               /\ Weight(b[s], w) \in Nat /\ Weight(b[Opposite(s)], w) \in Nat
               /\ InBooks(b, w) \in Nat
    <2>1. b[s] \in Seq(Resting) /\ b[Opposite(s)] \in Seq(Resting)
      BY <1>1, <1>3
    <2>2. Weight(b[s], w) \in Nat /\ Weight(b[Opposite(s)], w) \in Nat
      BY <2>1, WeightType
    <2>3. InBooks(b, w) = Weight(b[s], w) + Weight(b[Opposite(s)], w)
      BY <1>1, <2>2 DEF InBooks
    <2> QED
      BY <2>2, <2>3
  <1> QED
    BY <1>1, <1>2, <1>3

(* A round in which the order trades takes as many shares off the order as   *)
(* off the first one of the other side, at the price of that one.            *)
Meets(e, o, n) ==
  /\ o \in Held(e.book)
  /\ n <= e.left /\ n <= o.open
  /\ e.limit # 0 /\ e.side = "buy" => o.price <= e.limit
  /\ Meet(e) \in Engine
  /\ Meet(e).side = e.side /\ Meet(e).id = e.id /\ Meet(e).limit = e.limit
  /\ Meet(e).stops = e.stops /\ Meet(e).left = e.left - n
  /\ Meet(e).trades = Append(e.trades, [maker |-> o.id, taker |-> e.id,
                                        price |-> o.price, qty |-> n])
  /\ \A x \in Held(Meet(e).book) : x \in Held(e.book) \/ (x.id = o.id /\ x.side = o.side)
  /\ \/ /\ n = o.open
        /\ \A w \in [Resting -> Nat] : InBooks(Meet(e).book, w) + w[o] = InBooks(e.book, w)
     \/ /\ n < o.open
        /\ [o EXCEPT !.open = o.open - n] \in Resting
        /\ \A w \in [Resting -> Nat] :
             InBooks(Meet(e).book, w) + w[o]
               = InBooks(e.book, w) + w[[o EXCEPT !.open = o.open - n]]

LEMMA MeetIs ==
  ASSUME NEW e \in Engine, Crosses(e)
  PROVE  \E o \in Resting, n \in Nat \ {0} : Meets(e, o, n)
  <1> DEFINE s == Opposite(e.side)
             q == e.book[s]
             o == Head(q)
             n == Min({e.left, o.open})
             p == [o EXCEPT !.open = o.open - n]
             g == [q EXCEPT ![1] = p]
             new == IF n = o.open THEN Tail(q) ELSE g
             t == [maker |-> o.id, taker |-> e.id, price |-> o.price, qty |-> n]
             r == Meet(e)
  <1>1. /\ e.book \in [Side -> Seq(Resting)] /\ e.trades \in Seq(Fill) /\ e.side \in Side
        /\ e.left \in Nat /\ e.id \in Ids \cup Quotes /\ e.limit \in Prices \cup {0}
        /\ e.left > 0
    BY DEF Engine, Crosses
  <1>2. s \in Side /\ s # e.side
    BY <1>1, SidesAre
  <1>3. q \in Seq(Resting) /\ q # <<>> /\ o \in Resting /\ o \in ToSet(q)
    <2>1. q \in Seq(Resting) /\ q # <<>>
      BY <1>1, <1>2 DEF Crosses, Opposing
    <2> QED
      BY <2>1, TailHolds
  <1>4. o.open \in Nat \ {0} /\ o.price \in Prices /\ o.id \in Ids \cup Quotes
    BY <1>3 DEF Resting
  <1>5. n \in Nat \ {0} /\ n <= e.left /\ n <= o.open
    <2>1. o.open \in Int /\ e.left \in Int
      BY <1>1, <1>4
    <2> HIDE DEF o
    <2>2. n \in {e.left, o.open} /\ n <= e.left /\ n <= o.open
      BY <2>1, MinIs
    <2> QED
      BY <2>2, <1>1, <1>4
  <1>6. n < o.open => p \in Resting /\ p.id = o.id /\ p.side = o.side
    BY <1>3, <1>4, <1>5, SMTT(30) DEF Resting
  <1>7. t \in Fill
    BY <1>1, <1>4, <1>5 DEF Fill
  <1>8. e.limit # 0 /\ e.side = "buy" => o.price <= e.limit
    BY DEF Crosses, Opposing, AsGood
  <1>9. /\ new \in Seq(Resting)
        /\ \A x \in ToSet(new) : x \in ToSet(q) \/ (x.id = o.id /\ x.side = o.side)
        /\ \/ n = o.open /\ \A w \in [Resting -> Nat] : Weight(new, w) + w[o] = Weight(q, w)
           \/ n < o.open /\ \A w \in [Resting -> Nat] : Weight(new, w) + w[o] = Weight(q, w) + w[p]
    <2> HIDE DEF o, n, p
    <2>0. Tail(q) \in Seq(Resting) /\ o = Head(q) /\ \A x \in ToSet(Tail(q)) : x \in ToSet(q)
      BY <1>3, TailHolds DEF o
    <2>1. \A w \in [Resting -> Nat] : /\ Weight(q, w) = w[o] + Weight(Tail(q), w)
                                       /\ w[o] \in Nat /\ Weight(Tail(q), w) \in Nat
      <3> SUFFICES ASSUME NEW w \in [Resting -> Nat]
                   PROVE  /\ Weight(q, w) = w[o] + Weight(Tail(q), w)
                          /\ w[o] \in Nat /\ Weight(Tail(q), w) \in Nat
        OBVIOUS
      <3> HIDE DEF q
      <3>1. Weight(q, w) = w[Head(q)] + Weight(Tail(q), w)
        BY <1>3, WeightOfTail
      <3>2. Weight(Tail(q), w) \in Nat
        BY <2>0, WeightType
      <3> QED
        BY <1>3, <2>0, <3>1, <3>2
    <2>2. CASE n = o.open
      <3>1. new = Tail(q)
        BY <2>2
      <3> HIDE DEF new, q
      <3> QED
        BY <2>0, <2>1, <2>2, <3>1
    <2>3. CASE n # o.open
      <3>1. new = g /\ n < o.open
        BY <2>3, <1>4, <1>5
      <3>2. p \in Resting /\ p.id = o.id /\ p.side = o.side
        BY <3>1, <1>6
      <3> HIDE DEF new, q
      <3>3. /\ g \in Seq(Resting) /\ g # <<>> /\ Head(g) = p /\ Tail(g) = Tail(q)
            /\ \A x \in ToSet(g) : x = p \/ x \in ToSet(q)
        BY <1>3, <3>2, HeadChanged
      <3> HIDE DEF g
      <3>4. ASSUME NEW w \in [Resting -> Nat]
            PROVE  Weight(g, w) + w[o] = Weight(q, w) + w[p]
        <4>1. Weight(g, w) = w[p] + Weight(Tail(q), w)
          BY <3>3, WeightOfTail
        <4>2. w[p] \in Nat
          BY <3>2
        <4> QED
          BY <2>1, <4>1, <4>2
      <3> QED
        BY <3>1, <3>2, <3>3, <3>4
    <2> QED
      BY <2>2, <2>3
  <1>10. /\ r.side = e.side /\ r.id = e.id /\ r.limit = e.limit /\ r.stops = e.stops
         /\ r.left = e.left - n /\ r.trades = Append(e.trades, t) /\ r.stage = e.stage
         /\ r.book = [e.book EXCEPT ![s] = new]
         /\ r = [book |-> r.book, stops |-> r.stops, trades |-> r.trades, stage |-> r.stage,
                 id |-> r.id, side |-> r.side, limit |-> r.limit, left |-> r.left]
    <2>1. e = [book |-> e.book, stops |-> e.stops, trades |-> e.trades, stage |-> e.stage,
               id |-> e.id, side |-> e.side, limit |-> e.limit, left |-> e.left]
      BY DEF Engine
    <2>2. r = [e EXCEPT !.left = e.left - n, !.trades = Append(e.trades, t),
                        !.book = [e.book EXCEPT ![s] = new]]
      <3>1. /\ e.book[Opposite(e.side)] = q /\ Opposing(e) = q
        BY DEF Opposing
      <3> QED
        BY <3>1, <2>1 DEF Meet
    <2> HIDE DEF r, new, t, n, s
    <2> QED
      BY <2>1, <2>2
  <1> HIDE DEF o, n, p, g, new, t, q
  <1>11. r.book \in [Side -> Seq(Resting)] /\ r.book[s] = new /\ r.book[e.side] = e.book[e.side]
    <2> HIDE DEF s, r
    <2> QED
      BY <1>1, <1>2, <1>9, <1>10
  <1>12. r \in Engine
    <2>1. r.left \in Nat
      BY <1>1, <1>5, <1>10
    <2>2. r.trades \in Seq(Fill)
      BY <1>1, <1>7, <1>10
    <2>3. e.stops \in Seq(Waiting) /\ e.stage \in {"order", "stops", "over"}
      BY DEF Engine
    <2> HIDE DEF r, s
    <2> QED
      BY <1>1, <1>10, <1>11, <2>1, <2>2, <2>3 DEF Engine
  <1> HIDE DEF r
  <1>13. \A x \in Held(r.book) : x \in Held(e.book) \/ (x.id = o.id /\ x.side = o.side)
    <2>1. Held(r.book) = ToSet(e.book[e.side]) \cup ToSet(new) /\ Held(e.book) = ToSet(e.book[e.side]) \cup ToSet(q)
      BY <1>1, <1>11, SidesAre DEF q
    <2> QED
      BY <1>9, <2>1
  <1>14. o \in Held(e.book)
    BY <1>1, <1>3, SidesAre DEF q
  <1>15. ASSUME NEW w \in [Resting -> Nat]
         PROVE  /\ InBooks(r.book, w) = Weight(new, w) + Weight(e.book[e.side], w)
                /\ InBooks(e.book, w) = Weight(q, w) + Weight(e.book[e.side], w)
                /\ Weight(new, w) \in Nat /\ Weight(q, w) \in Nat /\ Weight(e.book[e.side], w) \in Nat
                /\ w[o] \in Nat
    <2>1. /\ InBooks(r.book, w) = Weight(e.book[e.side], w) + Weight(new, w)
          /\ Weight(new, w) \in Nat
      BY <1>1, <1>11, SidesAre
    <2>2. /\ InBooks(e.book, w) = Weight(e.book[e.side], w) + Weight(q, w)
          /\ Weight(q, w) \in Nat /\ Weight(e.book[e.side], w) \in Nat
      BY <1>1, SidesAre DEF q
    <2> QED
      BY <1>3, <2>1, <2>2
  <1>16. \/ n = o.open /\ \A w \in [Resting -> Nat] : InBooks(r.book, w) + w[o] = InBooks(e.book, w)
         \/ n < o.open /\ \A w \in [Resting -> Nat] : InBooks(r.book, w) + w[o] = InBooks(e.book, w) + w[p]
    <2>1. CASE n = o.open
      <3>1. \A w \in [Resting -> Nat] : Weight(new, w) + w[o] = Weight(q, w)
        BY <1>4, <1>5, <1>9, <2>1
      <3> QED
        BY <2>1, <1>15, <3>1
    <2>2. CASE n # o.open
      <3>1. n < o.open /\ \A w \in [Resting -> Nat] : Weight(new, w) + w[o] = Weight(q, w) + w[p]
        BY <1>4, <1>5, <1>9, <2>2
      <3>2. p \in Resting
        BY <1>6, <3>1
      <3>3. \A w \in [Resting -> Nat] : w[p] \in Nat
        BY <3>2
      <3> QED
        BY <1>15, <3>1, <3>3
    <2> QED
      BY <2>1, <2>2
  <1>17. r = Meet(e)
    BY DEF r
  <1>18. p = [o EXCEPT !.open = o.open - n] /\ t = [maker |-> o.id, taker |-> e.id, price |-> o.price, qty |-> n]
    BY DEF p, t
  <1>19. \/ n = o.open /\ \A w \in [Resting -> Nat] : InBooks(Meet(e).book, w) + w[o] = InBooks(e.book, w)
         \/ /\ n < o.open /\ [o EXCEPT !.open = o.open - n] \in Resting
            /\ \A w \in [Resting -> Nat] :
                 InBooks(Meet(e).book, w) + w[o] = InBooks(e.book, w) + w[[o EXCEPT !.open = o.open - n]]
    BY ONLY <1>6, <1>16, <1>17, <1>18
  <1>20. /\ Meet(e) \in Engine
         /\ Meet(e).side = e.side /\ Meet(e).id = e.id /\ Meet(e).limit = e.limit
         /\ Meet(e).stops = e.stops /\ Meet(e).left = e.left - n
         /\ Meet(e).trades = Append(e.trades, [maker |-> o.id, taker |-> e.id,
                                               price |-> o.price, qty |-> n])
         /\ \A x \in Held(Meet(e).book) : x \in Held(e.book) \/ (x.id = o.id /\ x.side = o.side)
    BY ONLY <1>10, <1>12, <1>13, <1>17, <1>18
  <1>21. o \in Resting /\ n \in Nat \ {0} /\ n <= e.left /\ n <= o.open
    BY <1>3, <1>5
  <1> QED
    BY ONLY <1>8, <1>14, <1>19, <1>20, <1>21 DEF Meets

LEMMA InsertedIs ==
  ASSUME NEW q, q \in Seq(Resting), NEW o, o \in Resting
  PROVE  /\ Inserted(q, o) \in Seq(Resting)
         /\ \A w \in [Resting -> Nat] : Weight(Inserted(q, o), w) = Weight(q, w) + w[o]
         /\ \A x \in ToSet(Inserted(q, o)) : x = o \/ x \in ToSet(q)
  <1> DEFINE ahead == {k \in DOMAIN q : AsGood(Opposite(o.side), q[k].price, o.price)}
             i == Cardinality(ahead) + 1
  <1>1. DOMAIN q = 1..Len(q) /\ Len(q) \in Nat
    OBVIOUS
  <1>2. ahead \subseteq 1..Len(q)
    BY <1>1
  <1> HIDE DEF ahead
  <1>3. Cardinality(ahead) <= Len(q) /\ Cardinality(ahead) \in Nat
    <2> DEFINE n == Len(q)
    <2>1. IsFiniteSet(1..n) /\ Cardinality(1..n) = n
      <3>1. n \in Nat
        BY <1>1
      <3> HIDE DEF n
      <3>2. Cardinality(1..n) = IF 1 > n THEN 0 ELSE n - 1 + 1
        BY <3>1, FS_Interval
      <3> QED
        BY <3>1, <3>2, FS_Interval
    <2>2. IsFiniteSet(ahead) /\ Cardinality(ahead) <= Cardinality(1..n)
      BY <1>2, <2>1, FS_Subset
    <2> QED
      BY <2>1, <2>2, FS_CardinalityType
  <1>4. i \in 1..(Len(q) + 1)
    BY <1>1, <1>3
  <1>5. Inserted(q, o) = InsertAt(q, i, o)
    BY DEF Inserted, ahead
  <1> HIDE DEF i
  <1>6. InsertAt(q, i, o) \in Seq(Resting)
    BY <1>4, InsertAtIs
  <1>7. \A w \in [Resting -> Nat] : Weight(InsertAt(q, i, o), w) = Weight(q, w) + w[o]
    BY <1>4, WeightOfInsert
  <1>8. \A x \in ToSet(InsertAt(q, i, o)) : x = o \/ x \in ToSet(q)
    BY <1>4, InsertAtHolds
  <1> QED
    BY <1>5, <1>6, <1>7, <1>8

(* A book with an order put into one of its sides *)
PutIn(b, s, o) == [b EXCEPT ![s] = Inserted(@, o)]
LEMMA InsertedInBook ==
  ASSUME NEW b, b \in [Side -> Seq(Resting)], NEW s, s \in Side, NEW o, o \in Resting,
         NEW c, c = PutIn(b, s, o)
  PROVE  /\ c \in [Side -> Seq(Resting)]
         /\ \A w \in [Resting -> Nat] : InBooks(c, w) = InBooks(b, w) + w[o]
         /\ \A x \in Held(c) : x = o \/ x \in Held(b)
  <1> DEFINE q == b[s]
             g == Inserted(q, o)
  <1>1. q \in Seq(Resting)
    OBVIOUS
  <1>2. /\ g \in Seq(Resting)
        /\ \A w \in [Resting -> Nat] : Weight(g, w) = Weight(q, w) + w[o]
        /\ \A x \in ToSet(g) : x = o \/ x \in ToSet(q)
    BY <1>1, InsertedIs
  <1>3. Opposite(s) \in Side /\ Opposite(s) # s
    BY SidesAre
  <1>0. c = [b EXCEPT ![s] = g]
    BY DEF PutIn
  <1> HIDE DEF g
  <1>4. c \in [Side -> Seq(Resting)] /\ c[s] = g /\ c[Opposite(s)] = b[Opposite(s)]
    BY <1>0, <1>2, <1>3
  <1>5. \A x \in Held(c) : x = o \/ x \in Held(b)
    <2>1. Held(c) = ToSet(g) \cup ToSet(b[Opposite(s)]) /\ Held(b) = ToSet(q) \cup ToSet(b[Opposite(s)])
      BY <1>4, SidesAre
    <2> QED
      BY <1>2, <2>1
  <1>6. ASSUME NEW w \in [Resting -> Nat]
        PROVE  InBooks(c, w) = InBooks(b, w) + w[o]
    <2>1. InBooks(c, w) = Weight(g, w) + Weight(b[Opposite(s)], w)
      BY <1>4, SidesAre
    <2>2. /\ InBooks(b, w) = Weight(q, w) + Weight(b[Opposite(s)], w)
          /\ Weight(q, w) \in Nat /\ Weight(b[Opposite(s)], w) \in Nat
      BY SidesAre
    <2>3. w[o] \in Nat /\ Weight(g, w) = Weight(q, w) + w[o]
      BY <1>2
    <2> HIDE DEF q
    <2> QED
      BY <2>1, <2>2, <2>3
  <1> QED
    BY <1>4, <1>5, <1>6

(* A round in which the order comes to rest *)
LEMMA RestIs ==
  ASSUME NEW e \in Engine, e.left > 0, e.limit # 0
  PROVE  LET o == [id |-> e.id, side |-> e.side, price |-> e.limit, open |-> e.left]
         IN  /\ o \in Resting
             /\ Rest(e) \in Engine
             /\ Rest(e).side = e.side /\ Rest(e).id = e.id /\ Rest(e).limit = e.limit
             /\ Rest(e).stops = e.stops /\ Rest(e).left = 0 /\ Rest(e).trades = e.trades
             /\ \A x \in Held(Rest(e).book) : x = o \/ x \in Held(e.book)
             /\ \A w \in [Resting -> Nat] : InBooks(Rest(e).book, w) = InBooks(e.book, w) + w[o]
  <1> DEFINE o == [id |-> e.id, side |-> e.side, price |-> e.limit, open |-> e.left]
             c == PutIn(e.book, e.side, o)
             r == Rest(e)
  <1>1. /\ e.book \in [Side -> Seq(Resting)] /\ e.trades \in Seq(Fill) /\ e.side \in Side
        /\ e.left \in Nat /\ e.id \in Ids \cup Quotes /\ e.limit \in Prices \cup {0}
        /\ e.stops \in Seq(Waiting) /\ e.stage \in {"order", "stops", "over"}
    BY DEF Engine
  <1>2. o \in Resting
    BY <1>1 DEF Resting
  <1>3. /\ c \in [Side -> Seq(Resting)]
        /\ \A w \in [Resting -> Nat] : InBooks(c, w) = InBooks(e.book, w) + w[o]
        /\ \A x \in Held(c) : x = o \/ x \in Held(e.book)
    <2> HIDE DEF o
    <2> QED
      BY <1>1, <1>2, InsertedInBook
  <1>4. r = [book |-> c, stops |-> e.stops, trades |-> e.trades,
             stage |-> IF e.stage = "order" THEN "over" ELSE e.stage,
             id |-> e.id, side |-> e.side, limit |-> e.limit, left |-> 0]
    <2>1. e = [book |-> e.book, stops |-> e.stops, trades |-> e.trades, stage |-> e.stage,
               id |-> e.id, side |-> e.side, limit |-> e.limit, left |-> e.left]
      BY DEF Engine
    <2>2. r = [e EXCEPT !.book = c, !.left = 0, !.stage = IF e.stage = "order" THEN "over" ELSE e.stage]
      BY <2>1 DEF Rest, PutIn
    <2> HIDE DEF r, c
    <2> QED
      BY <2>1, <2>2
  <1> HIDE DEF r, c, o
  <1>5. r \in Engine
    BY <1>1, <1>3, <1>4 DEF Engine
  <1>6. /\ r.side = e.side /\ r.id = e.id /\ r.limit = e.limit /\ r.book = c
        /\ r.stops = e.stops /\ r.left = 0 /\ r.trades = e.trades
    BY <1>4
  <1> QED
    BY <1>2, <1>3, <1>5, <1>6 DEF r, o

LEMMA LeastNumber ==
  ASSUME NEW S \in SUBSET Nat, S # {}
  PROVE  Min(S) \in S /\ \A m \in S : Min(S) <= m
  <1> DEFINE R == OpToRel(<, Nat)
  <1>1. \A x, y \in Nat : <<x, y>> \in R <=> x < y
    BY DEF OpToRel
  <1>2. IsWellFoundedOn(R, Nat)
    BY NatLessThanWellFounded
  <1> HIDE DEF R
  <1>3. PICK n \in S : \A m \in S : ~ (<<m, n>> \in R)
    BY <1>2, WFMin
  <1>4. \A m \in S : m \in Nat /\ n \in Nat /\ ~(m < n)
    BY <1>1, <1>3
  <1>5. \E x \in S : \A y \in S : x <= y
    BY <1>4
  <1> QED
    BY <1>5 DEF Min

(* A round in which a stop order leaves the stop book *)
LEMMA FireIs ==
  ASSUME NEW e \in Engine, Due(e) # {}
  PROVE  \E w \in Waiting :
           /\ w \in ToSet(e.stops)
           /\ FireStop(e) \in Engine
           /\ FireStop(e).side = e.side /\ FireStop(e).id = w.id /\ FireStop(e).limit = w.limit
           /\ FireStop(e).left = w.open /\ FireStop(e).trades = e.trades /\ FireStop(e).book = e.book
           /\ \A x \in ToSet(FireStop(e).stops) : x \in ToSet(e.stops)
           /\ \A v \in [Waiting -> Nat] : Weight(e.stops, v) = Weight(FireStop(e).stops, v) + v[w]
  <1> DEFINE k == Min(Due(e))
             q == e.stops
             w == q[k]
             p == RemoveAt(q, k)
             r == FireStop(e)
  <1>1. /\ e.book \in [Side -> Seq(Resting)] /\ e.trades \in Seq(Fill) /\ e.side \in Side
        /\ q \in Seq(Waiting)
    BY DEF Engine
  <1>2. k \in DOMAIN q
    <2>1. Due(e) \subseteq DOMAIN q
      BY DEF Due
    <2>2. DOMAIN q \subseteq Nat
      BY <1>1
    <2>3. k \in Due(e)
      BY <2>1, <2>2, LeastNumber
    <2> QED
      BY <2>1, <2>3
  <1> HIDE DEF k
  <1>3. w \in Waiting /\ w \in ToSet(q)
    BY <1>1, <1>2 DEF ToSet
  <1>4. /\ p \in Seq(Waiting)
        /\ \A x \in ToSet(p) : x \in ToSet(q)
    <2> HIDE DEF q
    <2>1. p \in Seq(Waiting)
      BY <1>1, <1>2, RemoveAtIs
    <2>2. \A x \in ToSet(p) : x \in ToSet(q)
      BY <1>1, <1>2, RemoveAtHolds
    <2> QED
      BY <2>1, <2>2
  <1>5. \A v \in [Waiting -> Nat] : Weight(q, v) = Weight(p, v) + v[w]
    <2> SUFFICES ASSUME NEW v, v \in [Waiting -> Nat]
                 PROVE  Weight(q, v) = Weight(p, v) + v[w]
      OBVIOUS
    <2>1. q \in Seq(Waiting)
      BY <1>1
    <2> HIDE DEF q
    <2>2. Weight(q, v) = Weight(RemoveAt(q, k), v) + v[q[k]]
      BY ONLY <1>2, <2>1, v \in [Waiting -> Nat], WeightOfRemove
    <2> QED
      BY <2>2
  <1>6. r = [book |-> e.book, stops |-> p, trades |-> e.trades, stage |-> "stops",
             id |-> w.id, side |-> e.side, limit |-> w.limit, left |-> w.open]
    <2>1. e = [book |-> e.book, stops |-> e.stops, trades |-> e.trades, stage |-> e.stage,
               id |-> e.id, side |-> e.side, limit |-> e.limit, left |-> e.left]
      BY DEF Engine
    <2>2. r = [e EXCEPT !.stops = p, !.stage = "stops", !.id = w.id, !.limit = w.limit, !.left = w.open]
      BY <2>1 DEF FireStop, k
    <2> HIDE DEF r, p, w
    <2> QED
      BY <2>1, <2>2
  <1> HIDE DEF w, r, p, q
  <1>7. w.id \in Ids /\ w.limit \in Prices \cup {0} /\ w.open \in Nat
    BY <1>3 DEF Waiting
  <1>8. r \in Engine
    BY <1>1, <1>4, <1>6, <1>7 DEF Engine
  <1>9. /\ r.side = e.side /\ r.id = w.id /\ r.limit = w.limit /\ r.left = w.open
        /\ r.trades = e.trades /\ r.book = e.book /\ r.stops = p
    BY <1>6
  <1> QED
    BY <1>3, <1>4, <1>5, <1>8, <1>9 DEF r, q

-----------------------------------------------------------------------------
(* What a call of the engine does *)

(* The places, the shares and the worth of order i in a list of resting orders *)
OneOf(i)    == [o \in Resting |-> IF o.id = i THEN 1 ELSE 0]
OpenOf(i)   == [o \in Resting |-> IF o.id = i THEN o.open ELSE 0]
WorthOf(i)  == [o \in Resting |-> IF o.id = i THEN o.price * o.open ELSE 0]
(* ... its places in the stop book *)
WaitOf(i)   == [x \in Waiting |-> IF x.id = i THEN 1 ELSE 0]
(* ... the shares and the money of the trades it makes or takes *)
MadeBy(i)   == [t \in Fill |-> IF t.maker = i THEN t.qty ELSE 0]
MadeFor(i)  == [t \in Fill |-> IF t.maker = i THEN t.price * t.qty ELSE 0]
TakenBy(i)  == [t \in Fill |-> IF t.taker = i THEN t.qty ELSE 0]
TakenFor(i) == [t \in Fill |-> IF t.taker = i THEN t.price * t.qty ELSE 0]

LEMMA PricesAreNat == Prices \subseteq Nat
  BY OrderFlowConstants

LEMMA ProductType ==
  ASSUME NEW a \in Nat, NEW b \in Nat
  PROVE  a * b \in Nat
  OBVIOUS

LEMMA WeightsAre ==
  ASSUME NEW i
  PROVE  /\ OneOf(i) \in [Resting -> Nat] /\ OpenOf(i) \in [Resting -> Nat]
         /\ WorthOf(i) \in [Resting -> Nat] /\ WaitOf(i) \in [Waiting -> Nat]
         /\ MadeBy(i) \in [Fill -> Nat] /\ MadeFor(i) \in [Fill -> Nat]
         /\ TakenBy(i) \in [Fill -> Nat] /\ TakenFor(i) \in [Fill -> Nat]
  <1>1. \A o \in Resting : o.open \in Nat /\ o.price \in Nat /\ o.price * o.open \in Nat
    <2> SUFFICES ASSUME NEW o \in Resting
                 PROVE  o.open \in Nat /\ o.price \in Nat /\ o.price * o.open \in Nat
      OBVIOUS
    <2>1. o.open \in Nat /\ o.price \in Nat
      BY PricesAreNat DEF Resting
    <2> QED
      BY <2>1, ProductType
  <1>2. \A t \in Fill : t.qty \in Nat /\ t.price \in Nat /\ t.price * t.qty \in Nat
    <2> SUFFICES ASSUME NEW t \in Fill
                 PROVE  t.qty \in Nat /\ t.price \in Nat /\ t.price * t.qty \in Nat
      OBVIOUS
    <2>1. t.qty \in Nat /\ t.price \in Nat
      BY PricesAreNat DEF Fill
    <2> QED
      BY <2>1, ProductType
  <1>3. OneOf(i) \in [Resting -> Nat] /\ OpenOf(i) \in [Resting -> Nat] /\ WorthOf(i) \in [Resting -> Nat]
    BY <1>1 DEF OneOf, OpenOf, WorthOf
  <1>4. WaitOf(i) \in [Waiting -> Nat]
    BY DEF WaitOf
  <1>5. /\ MadeBy(i) \in [Fill -> Nat] /\ MadeFor(i) \in [Fill -> Nat]
        /\ TakenBy(i) \in [Fill -> Nat] /\ TakenFor(i) \in [Fill -> Nat]
    BY <1>2 DEF MadeBy, MadeFor, TakenBy, TakenFor
  <1> QED
    BY <1>3, <1>4, <1>5

LEMMA Distributes ==
  ASSUME NEW a \in Nat, NEW b \in Nat, NEW n \in Nat, n <= b
  PROVE  a * (b - n) + a * n = a * b
  <1>1. a * ((b - n) + n) = a * (b - n) + a * n
    OBVIOUS
  <1>2. (b - n) + n = b
    OBVIOUS
  <1> QED
    BY <1>1, <1>2

LEMMA ProductBelow ==
  ASSUME NEW a \in Nat, NEW b \in Nat, NEW n \in Nat, a <= b
  PROVE  a * n <= b * n
  <1>1. (b - a) * n + a * n = ((b - a) + a) * n
    OBVIOUS
  <1>2. (b - a) + a = b /\ b - a \in Nat
    OBVIOUS
  <1>3. (b - a) * n \in Nat /\ a * n \in Nat /\ b * n \in Nat
    BY <1>2, ProductType
  <1>4. (b - a) * n + a * n = b * n
    BY <1>1, <1>2
  <1> QED
    BY <1>3, <1>4

(* An order that has traded n of its shares weighs less by them. *)
LEMMA LessOpen ==
  ASSUME NEW o \in Resting, NEW n \in Nat \ {0}, n < o.open, [o EXCEPT !.open = o.open - n] \in Resting, NEW i
  PROVE  LET p == [o EXCEPT !.open = o.open - n]
         IN  /\ OneOf(i)[p] = OneOf(i)[o]
             /\ OpenOf(i)[p] + (IF o.id = i THEN n ELSE 0) = OpenOf(i)[o]
             /\ WorthOf(i)[p] + (IF o.id = i THEN o.price * n ELSE 0) = WorthOf(i)[o]
  <1> DEFINE p == [o EXCEPT !.open = o.open - n]
  <1>1. p.id = o.id /\ p.price = o.price /\ p.open = o.open - n /\ o.open \in Nat /\ o.price \in Nat
    BY PricesAreNat DEF Resting
  <1>2. p \in Resting
    OBVIOUS
  <1> HIDE DEF p
  <1>3. /\ OneOf(i)[p] = IF p.id = i THEN 1 ELSE 0
        /\ OpenOf(i)[p] = IF p.id = i THEN p.open ELSE 0
        /\ WorthOf(i)[p] = IF p.id = i THEN p.price * p.open ELSE 0
        /\ OneOf(i)[o] = IF o.id = i THEN 1 ELSE 0
        /\ OpenOf(i)[o] = IF o.id = i THEN o.open ELSE 0
        /\ WorthOf(i)[o] = IF o.id = i THEN o.price * o.open ELSE 0
    BY <1>2 DEF OneOf, OpenOf, WorthOf
  <1>4. o.price * (o.open - n) + o.price * n = o.price * o.open
    BY <1>1, Distributes
  <1>5. OneOf(i)[p] = OneOf(i)[o]
    BY <1>1, <1>3
  <1>6. OpenOf(i)[p] + (IF o.id = i THEN n ELSE 0) = OpenOf(i)[o]
    BY <1>1, <1>3
  <1>7. WorthOf(i)[p] + (IF o.id = i THEN o.price * n ELSE 0) = WorthOf(i)[o]
    <2>1. CASE o.id = i
      <3>1. WorthOf(i)[p] = o.price * (o.open - n) /\ WorthOf(i)[o] = o.price * o.open
        BY <2>1, <1>1, <1>3
      <3> QED
        BY <2>1, <3>1, <1>4
    <2>2. CASE o.id # i
      BY <2>2, <1>1, <1>3
    <2> QED
      BY <2>1, <2>2
  <1> QED
    BY <1>5, <1>6, <1>7 DEF p

(* A round in which the order trades, in shares and money *)
Moved(e, o, n) ==
  /\ o.price \in Nat /\ o.open \in Nat /\ o.id \in Ids \cup Quotes
  /\ \A i : /\ InBooks(Meet(e).book, OneOf(i)) <= InBooks(e.book, OneOf(i))
            /\ InBooks(Meet(e).book, OpenOf(i)) + (IF o.id = i THEN n ELSE 0) = InBooks(e.book, OpenOf(i))
            /\ InBooks(Meet(e).book, WorthOf(i)) + (IF o.id = i THEN o.price * n ELSE 0)
                 = InBooks(e.book, WorthOf(i))

LEMMA BooksAreNat ==
  ASSUME NEW e \in Engine, NEW i
  PROVE  /\ InBooks(e.book, OneOf(i)) \in Nat /\ InBooks(e.book, OpenOf(i)) \in Nat
         /\ InBooks(e.book, WorthOf(i)) \in Nat /\ Weight(e.stops, WaitOf(i)) \in Nat
         /\ Weight(e.trades, MadeBy(i)) \in Nat /\ Weight(e.trades, MadeFor(i)) \in Nat
         /\ Weight(e.trades, TakenBy(i)) \in Nat /\ Weight(e.trades, TakenFor(i)) \in Nat
  <1>1. /\ e.book \in [Side -> Seq(Resting)] /\ e.trades \in Seq(Fill) /\ e.side \in Side
        /\ e.stops \in Seq(Waiting)
    BY DEF Engine
  <1>2. \A w \in [Resting -> Nat] : InBooks(e.book, w) \in Nat
    BY <1>1, SidesAre
  <1>3. \A w \in [Fill -> Nat] : Weight(e.trades, w) \in Nat
    BY <1>1, WeightType
  <1>4. \A w \in [Waiting -> Nat] : Weight(e.stops, w) \in Nat
    BY <1>1, WeightType
  <1> QED
    BY <1>2, <1>3, <1>4, WeightsAre

LEMMA MeetMoves ==
  ASSUME NEW e \in Engine, NEW o \in Resting, NEW n \in Nat \ {0}, n <= o.open, Meet(e) \in Engine,
         \/ n = o.open /\ \A w \in [Resting -> Nat] : InBooks(Meet(e).book, w) + w[o] = InBooks(e.book, w)
         \/ /\ n < o.open /\ [o EXCEPT !.open = o.open - n] \in Resting
            /\ \A w \in [Resting -> Nat] :
                 InBooks(Meet(e).book, w) + w[o] = InBooks(e.book, w) + w[[o EXCEPT !.open = o.open - n]]
  PROVE  Moved(e, o, n)
  <1>1. o.price \in Nat /\ o.open \in Nat /\ o.id \in Ids \cup Quotes
    BY PricesAreNat DEF Resting
  <1> SUFFICES ASSUME NEW i
               PROVE  /\ InBooks(Meet(e).book, OneOf(i)) <= InBooks(e.book, OneOf(i))
                      /\ InBooks(Meet(e).book, OpenOf(i)) + (IF o.id = i THEN n ELSE 0) = InBooks(e.book, OpenOf(i))
                      /\ InBooks(Meet(e).book, WorthOf(i)) + (IF o.id = i THEN o.price * n ELSE 0)
                           = InBooks(e.book, WorthOf(i))
    BY <1>1 DEF Moved
  <1> DEFINE b == Meet(e).book
             p == [o EXCEPT !.open = o.open - n]
             m == IF o.id = i THEN n ELSE 0
             c == IF o.id = i THEN o.price * n ELSE 0
  <1>2. /\ InBooks(b, OneOf(i)) \in Nat /\ InBooks(b, OpenOf(i)) \in Nat /\ InBooks(b, WorthOf(i)) \in Nat
        /\ InBooks(e.book, OneOf(i)) \in Nat /\ InBooks(e.book, OpenOf(i)) \in Nat
        /\ InBooks(e.book, WorthOf(i)) \in Nat
    BY BooksAreNat
  <1>3. /\ OneOf(i) \in [Resting -> Nat] /\ OpenOf(i) \in [Resting -> Nat] /\ WorthOf(i) \in [Resting -> Nat]
        /\ OneOf(i)[o] \in Nat /\ OpenOf(i)[o] \in Nat /\ WorthOf(i)[o] \in Nat
    BY WeightsAre
  <1>4. /\ OpenOf(i)[o] = IF o.id = i THEN o.open ELSE 0
        /\ WorthOf(i)[o] = IF o.id = i THEN o.price * o.open ELSE 0
    BY DEF OpenOf, WorthOf
  <1>5. m \in Nat /\ c \in Nat
    BY <1>1, ProductType
  <1>6. CASE n = o.open
    <2>1. \A w \in [Resting -> Nat] : InBooks(b, w) + w[o] = InBooks(e.book, w)
      BY <1>1, <1>6
    <2>2. m = OpenOf(i)[o] /\ c = WorthOf(i)[o]
      BY <1>4, <1>6
    <2> HIDE DEF b, m, c
    <2>3. /\ InBooks(b, OneOf(i)) + OneOf(i)[o] = InBooks(e.book, OneOf(i))
          /\ InBooks(b, OpenOf(i)) + OpenOf(i)[o] = InBooks(e.book, OpenOf(i))
          /\ InBooks(b, WorthOf(i)) + WorthOf(i)[o] = InBooks(e.book, WorthOf(i))
      BY <1>3, <2>1
    <2>4. /\ InBooks(b, OneOf(i)) <= InBooks(e.book, OneOf(i))
          /\ InBooks(b, OpenOf(i)) + m = InBooks(e.book, OpenOf(i))
          /\ InBooks(b, WorthOf(i)) + c = InBooks(e.book, WorthOf(i))
      BY ONLY <1>2, <1>3, <2>2, <2>3
    <2> QED
      BY <2>4 DEF b, m, c
  <1>7. CASE n # o.open
    <2>1. n < o.open /\ p \in Resting /\ \A w \in [Resting -> Nat] : InBooks(b, w) + w[o] = InBooks(e.book, w) + w[p]
      BY <1>1, <1>7
    <2>2. /\ OneOf(i)[p] = OneOf(i)[o]
          /\ OpenOf(i)[p] + m = OpenOf(i)[o]
          /\ WorthOf(i)[p] + c = WorthOf(i)[o]
      BY <2>1, LessOpen
    <2>3. OneOf(i)[p] \in Nat /\ OpenOf(i)[p] \in Nat /\ WorthOf(i)[p] \in Nat
      <3> HIDE DEF p
      <3> QED
        BY <1>3, <2>1
    <2> HIDE DEF b, m, c, p
    <2>4. /\ InBooks(b, OneOf(i)) + OneOf(i)[o] = InBooks(e.book, OneOf(i)) + OneOf(i)[p]
          /\ InBooks(b, OpenOf(i)) + OpenOf(i)[o] = InBooks(e.book, OpenOf(i)) + OpenOf(i)[p]
          /\ InBooks(b, WorthOf(i)) + WorthOf(i)[o] = InBooks(e.book, WorthOf(i)) + WorthOf(i)[p]
      BY <1>3, <2>1
    <2>5. /\ InBooks(b, OneOf(i)) <= InBooks(e.book, OneOf(i))
          /\ InBooks(b, OpenOf(i)) + m = InBooks(e.book, OpenOf(i))
          /\ InBooks(b, WorthOf(i)) + c = InBooks(e.book, WorthOf(i))
      BY ONLY <1>2, <1>3, <1>5, <2>2, <2>3, <2>4
    <2> QED
      BY <2>5 DEF b, m, c
  <1> QED
    BY <1>6, <1>7

(* e is where a call that starts at c may be after some rounds:              *)
(* - every order in it is one of c's, or the order of the call;              *)
(* - no order has more places than it had;                                   *)
(* - an order that the call does not execute has lost the shares and the     *)
(*   worth that it traded;                                                   *)
(* - the order of the call has not taken and does not offer more than it     *)
(*   came with, and a buy not for more than its limit.                       *)
StopIds(c) == {x.id : x \in ToSet(c.stops)}
Met(c)     == {o.id : o \in Held(c.book)} \cup {c.id} \cup StopIds(c)
Places(e, i) == InBooks(e.book, OneOf(i)) + Weight(e.stops, WaitOf(i))
                  + (IF e.id = i /\ e.left > 0 THEN 1 ELSE 0)

Shape(c, e) ==
  /\ e \in Engine /\ e.side = c.side
  /\ (e.id = c.id /\ e.limit = c.limit) \/ e.id \in StopIds(c)
  /\ \A x \in ToSet(e.stops) : x \in ToSet(c.stops)
  /\ \A o \in Held(e.book) : \/ \E x \in Held(c.book) : x.id = o.id /\ x.side = o.side
                             \/ o.id = c.id /\ o.side = c.side /\ c.limit # 0
                             \/ o.id \in StopIds(c)
  /\ \A t \in ToSet(e.trades) : t.maker \in Met(c) /\ t.taker \in {c.id} \cup StopIds(c)
Fewer(c, e) == \A i : Places(e, i) <= Places(c, i)
Kept(c, e) ==
  \A i : i # c.id /\ i \notin StopIds(c) =>
    /\ InBooks(e.book, OpenOf(i)) + Weight(e.trades, MadeBy(i)) = InBooks(c.book, OpenOf(i))
    /\ InBooks(e.book, WorthOf(i)) + Weight(e.trades, MadeFor(i)) = InBooks(c.book, WorthOf(i))
Own(c, e) ==
  /\ Weight(e.trades, TakenBy(c.id)) + InBooks(e.book, OpenOf(c.id)) + (IF e.id = c.id THEN e.left ELSE 0)
       <= c.left + InBooks(c.book, OpenOf(c.id))
  /\ c.side = "buy" /\ c.limit # 0 =>
       Weight(e.trades, TakenFor(c.id)) + InBooks(e.book, WorthOf(c.id))
         + (IF e.id = c.id THEN c.limit * e.left ELSE 0)
         <= c.limit * c.left + InBooks(c.book, WorthOf(c.id))
Good(c, e) == Shape(c, e) /\ Fewer(c, e) /\ Kept(c, e) /\ Own(c, e)

Call0(c) == c \in Engine /\ c.trades = <<>> /\ c.id \notin StopIds(c)

LEMMA EngineTypes ==
  ASSUME NEW e, e \in Engine
  PROVE  /\ e.book \in [Side -> Seq(Resting)] /\ e.trades \in Seq(Fill) /\ e.side \in Side
         /\ e.left \in Nat /\ e.id \in Ids \cup Quotes /\ e.limit \in Prices \cup {0}
         /\ e.stops \in Seq(Waiting) /\ e.limit \in Nat
  <1>1. /\ e.book \in [Side -> Seq(Resting)] /\ e.trades \in Seq(Fill) /\ e.side \in Side
        /\ e.left \in Nat /\ e.id \in Ids \cup Quotes /\ e.limit \in Prices \cup {0}
        /\ e.stops \in Seq(Waiting)
    BY DEF Engine
  <1>2. e.limit \in Prices \cup {0}
    BY <1>1
  <1>3. e.limit \in Nat
    <2>1. CASE e.limit \in Prices
      BY <2>1, PricesAreNat
    <2>2. CASE e.limit = 0
      BY <2>2
    <2> QED
      BY <1>2, <2>1, <2>2
  <1> QED
    BY <1>1, <1>3

LEMMA CallIsGood ==
  ASSUME NEW c, Call0(c)
  PROVE  Good(c, c)
  <1>1. c \in Engine /\ c.trades = <<>>
    BY DEF Call0
  <1>2. Shape(c, c)
    <2>1. ToSet(c.trades) = {}
      BY <1>1 DEF ToSet
    <2> QED
      BY <1>1, <2>1 DEF Shape
  <1>3. \A i : Places(c, i) \in Nat
    <2> SUFFICES ASSUME NEW i PROVE Places(c, i) \in Nat
      OBVIOUS
    <2>1. InBooks(c.book, OneOf(i)) \in Nat /\ Weight(c.stops, WaitOf(i)) \in Nat
      BY <1>1, BooksAreNat
    <2> QED
      BY <2>1 DEF Places
  <1>4. Fewer(c, c)
    BY <1>3 DEF Fewer
  <1>5. \A i : /\ Weight(c.trades, MadeBy(i)) = 0 /\ Weight(c.trades, MadeFor(i)) = 0
               /\ Weight(c.trades, TakenBy(i)) = 0 /\ Weight(c.trades, TakenFor(i)) = 0
    BY <1>1, WeightOfEmpty
  <1>6. \A i : InBooks(c.book, OpenOf(i)) \in Nat /\ InBooks(c.book, WorthOf(i)) \in Nat
    BY <1>1, BooksAreNat
  <1>7. Kept(c, c)
    BY <1>5, <1>6 DEF Kept
  <1>8. c.left \in Nat /\ c.limit \in Nat /\ c.limit * c.left \in Nat
    BY <1>1, EngineTypes, ProductType
  <1>9. Own(c, c)
    <2> DEFINE m == c.limit * c.left
    <2>1. m \in Nat
      BY <1>8
    <2> HIDE DEF m
    <2> SUFFICES /\ 0 + InBooks(c.book, OpenOf(c.id)) + c.left <= c.left + InBooks(c.book, OpenOf(c.id))
                 /\ 0 + InBooks(c.book, WorthOf(c.id)) + m <= m + InBooks(c.book, WorthOf(c.id))
      BY <1>5 DEF Own, m
    <2> QED
      BY <1>6, <1>8, <2>1
  <1> QED
    BY <1>2, <1>4, <1>7, <1>9 DEF Good

LEMMA AppendHolds ==
  ASSUME NEW S, NEW q, q \in Seq(S), NEW x, x \in S
  PROVE  Append(q, x) \in Seq(S) /\ \A y \in ToSet(Append(q, x)) : y = x \/ y \in ToSet(q)
  BY DEF ToSet

LEMMA MeetKeepsGood ==
  ASSUME NEW c, NEW e, Call0(c), Good(c, e), Crosses(e)
  PROVE  Good(c, Meet(e))
  <1> DEFINE r == Meet(e)
  <1>0. c \in Engine /\ e \in Engine /\ Shape(c, e)
    BY DEF Call0, Good, Shape
  <1>1. PICK o \in Resting, n \in Nat \ {0} : Meets(e, o, n)
    BY <1>0, MeetIs
  <1>2. Moved(e, o, n)
    BY <1>0, <1>1, MeetMoves DEF Meets
  <1> DEFINE t == [maker |-> o.id, taker |-> e.id, price |-> o.price, qty |-> n]
  <1>3. /\ e.left \in Nat /\ e.id \in Ids \cup Quotes /\ e.limit \in Prices \cup {0} /\ e.limit \in Nat
        /\ c.left \in Nat /\ c.limit \in Nat /\ e.trades \in Seq(Fill)
    BY <1>0, EngineTypes
  <1>4. t \in Fill /\ t.maker = o.id /\ t.taker = e.id /\ t.price = o.price /\ t.qty = n
    BY <1>3 DEF Fill, Resting
  <1>5. r.trades = Append(e.trades, t)
    BY <1>1 DEF Meets
  <1>6. /\ r.side = e.side /\ r.id = e.id /\ r.limit = e.limit /\ r.stops = e.stops /\ r.left = e.left - n
        /\ n \in Nat /\ n > 0 /\ n <= e.left /\ r \in Engine
    BY <1>1 DEF Meets
  <1>7. /\ o.price \in Nat /\ o.open \in Nat /\ o.id \in Ids \cup Quotes /\ o.price * n \in Nat
    <2>1. o.price \in Nat /\ o.open \in Nat /\ o.id \in Ids \cup Quotes
      BY <1>2 DEF Moved
    <2> QED
      BY <2>1, <1>6, ProductType
  <1> HIDE DEF t, r
  <1>8. Shape(c, r)
    <2>1. \A x \in Held(r.book) : \/ \E y \in Held(c.book) : y.id = x.id /\ y.side = x.side
                                  \/ x.id = c.id /\ x.side = c.side /\ c.limit # 0
                                  \/ x.id \in StopIds(c)
      BY <1>0, <1>1 DEF Shape, Meets, r
    <2>2. \A x \in ToSet(r.trades) : x = t \/ x \in ToSet(e.trades)
      BY <1>3, <1>4, <1>5, AppendHolds
    <2>3. t.maker \in Met(c)
      BY <1>0, <1>1, <1>4 DEF Shape, Met, Meets
    <2>4. t.taker \in {c.id} \cup StopIds(c)
      BY <1>0, <1>4 DEF Shape
    <2>5. \A x \in ToSet(r.trades) : x.maker \in Met(c) /\ x.taker \in {c.id} \cup StopIds(c)
      BY <1>0, <2>2, <2>3, <2>4 DEF Shape
    <2> QED
      BY <1>0, <1>6, <2>1, <2>5 DEF Shape
  <1>9. Fewer(c, r)
    <2> SUFFICES ASSUME NEW i
                 PROVE  Places(r, i) <= Places(c, i)
      BY DEF Fewer
    <2>1. Places(e, i) <= Places(c, i)
      BY DEF Good, Fewer
    <2>2. /\ InBooks(r.book, OneOf(i)) \in Nat /\ InBooks(e.book, OneOf(i)) \in Nat
          /\ InBooks(c.book, OneOf(i)) \in Nat
          /\ Weight(e.stops, WaitOf(i)) \in Nat /\ Weight(c.stops, WaitOf(i)) \in Nat
      BY <1>0, <1>6, BooksAreNat
    <2>3. InBooks(r.book, OneOf(i)) <= InBooks(e.book, OneOf(i))
      BY <1>2 DEF Moved, r
    <2>4. Places(c, i) \in Nat
      BY <2>2 DEF Places
    <2>5. Places(r, i) = InBooks(r.book, OneOf(i)) + Weight(e.stops, WaitOf(i))
                           + (IF e.id = i /\ r.left > 0 THEN 1 ELSE 0)
      BY <1>6 DEF Places
    <2>6. Places(e, i) = InBooks(e.book, OneOf(i)) + Weight(e.stops, WaitOf(i))
                           + (IF e.id = i /\ e.left > 0 THEN 1 ELSE 0)
      BY DEF Places
    <2>7. r.left > 0 => e.left > 0
      BY <1>3, <1>6
    <2> HIDE DEF Places
    <2> QED
      BY <2>1, <2>2, <2>3, <2>4, <2>5, <2>6, <2>7
  <1>10. \A i : /\ Weight(r.trades, MadeBy(i)) = Weight(e.trades, MadeBy(i)) + (IF o.id = i THEN n ELSE 0)
                /\ Weight(r.trades, MadeFor(i)) = Weight(e.trades, MadeFor(i)) + (IF o.id = i THEN o.price * n ELSE 0)
                /\ Weight(r.trades, TakenBy(i)) = Weight(e.trades, TakenBy(i)) + (IF e.id = i THEN n ELSE 0)
                /\ Weight(r.trades, TakenFor(i)) = Weight(e.trades, TakenFor(i)) + (IF e.id = i THEN o.price * n ELSE 0)
    <2> SUFFICES ASSUME NEW i
                 PROVE  /\ Weight(r.trades, MadeBy(i)) = Weight(e.trades, MadeBy(i)) + (IF o.id = i THEN n ELSE 0)
                        /\ Weight(r.trades, MadeFor(i)) = Weight(e.trades, MadeFor(i)) + (IF o.id = i THEN o.price * n ELSE 0)
                        /\ Weight(r.trades, TakenBy(i)) = Weight(e.trades, TakenBy(i)) + (IF e.id = i THEN n ELSE 0)
                        /\ Weight(r.trades, TakenFor(i)) = Weight(e.trades, TakenFor(i)) + (IF e.id = i THEN o.price * n ELSE 0)
      OBVIOUS
    <2>1. \A w \in [Fill -> Nat] : Weight(r.trades, w) = Weight(e.trades, w) + w[t]
      <3> SUFFICES ASSUME NEW w, w \in [Fill -> Nat]
                   PROVE  Weight(r.trades, w) = Weight(e.trades, w) + w[t]
        OBVIOUS
      <3>1. e.trades \in Seq(Fill) /\ t \in Fill
        BY <1>3, <1>4
      <3>2. Weight(Append(e.trades, t), w) = Weight(e.trades, w) + w[t]
        BY ONLY <3>1, w \in [Fill -> Nat], WeightOfAppend
      <3> QED
        BY <1>5, <3>2
    <2>2. /\ MadeBy(i)[t] = (IF o.id = i THEN n ELSE 0)
          /\ MadeFor(i)[t] = (IF o.id = i THEN o.price * n ELSE 0)
          /\ TakenBy(i)[t] = (IF e.id = i THEN n ELSE 0)
          /\ TakenFor(i)[t] = (IF e.id = i THEN o.price * n ELSE 0)
      BY <1>4 DEF MadeBy, MadeFor, TakenBy, TakenFor
    <2> QED
      BY <2>1, <2>2, WeightsAre
  <1>11. \A i : /\ InBooks(r.book, OpenOf(i)) + (IF o.id = i THEN n ELSE 0) = InBooks(e.book, OpenOf(i))
                /\ InBooks(r.book, WorthOf(i)) + (IF o.id = i THEN o.price * n ELSE 0) = InBooks(e.book, WorthOf(i))
    BY <1>2 DEF Moved, r
  <1>12. \A i : /\ InBooks(r.book, OpenOf(i)) \in Nat /\ InBooks(e.book, OpenOf(i)) \in Nat
                /\ InBooks(r.book, WorthOf(i)) \in Nat /\ InBooks(e.book, WorthOf(i)) \in Nat
                /\ InBooks(c.book, OpenOf(i)) \in Nat /\ InBooks(c.book, WorthOf(i)) \in Nat
                /\ Weight(e.trades, MadeBy(i)) \in Nat /\ Weight(e.trades, MadeFor(i)) \in Nat
                /\ Weight(e.trades, TakenBy(i)) \in Nat /\ Weight(e.trades, TakenFor(i)) \in Nat
    BY <1>0, <1>6, BooksAreNat
  <1>13. Kept(c, r)
    <2> SUFFICES ASSUME NEW i, i # c.id, i \notin StopIds(c)
                 PROVE  /\ InBooks(r.book, OpenOf(i)) + Weight(r.trades, MadeBy(i)) = InBooks(c.book, OpenOf(i))
                        /\ InBooks(r.book, WorthOf(i)) + Weight(r.trades, MadeFor(i)) = InBooks(c.book, WorthOf(i))
      BY DEF Kept
    <2>1. /\ InBooks(e.book, OpenOf(i)) + Weight(e.trades, MadeBy(i)) = InBooks(c.book, OpenOf(i))
          /\ InBooks(e.book, WorthOf(i)) + Weight(e.trades, MadeFor(i)) = InBooks(c.book, WorthOf(i))
      BY DEF Good, Kept
    <2> DEFINE k == o.price * n
    <2>2. k \in Nat
      BY <1>7
    <2>3. /\ Weight(r.trades, MadeBy(i)) = Weight(e.trades, MadeBy(i)) + (IF o.id = i THEN n ELSE 0)
          /\ Weight(r.trades, MadeFor(i)) = Weight(e.trades, MadeFor(i)) + (IF o.id = i THEN k ELSE 0)
          /\ InBooks(r.book, OpenOf(i)) + (IF o.id = i THEN n ELSE 0) = InBooks(e.book, OpenOf(i))
          /\ InBooks(r.book, WorthOf(i)) + (IF o.id = i THEN k ELSE 0) = InBooks(e.book, WorthOf(i))
      BY <1>10, <1>11
    <2> HIDE DEF k
    <2> QED
      BY <1>6, <1>12, <2>1, <2>2, <2>3
  <1>14. Own(c, r)
    <2> DEFINE i == c.id
               k == o.price * n
               y == IF o.id = i THEN n ELSE 0
               z == IF o.id = i THEN k ELSE 0
    <2>1. k \in Nat /\ y \in Nat /\ z \in Nat
      BY <1>6, <1>7
    <2>2. /\ Weight(r.trades, TakenBy(i)) = Weight(e.trades, TakenBy(i)) + (IF e.id = i THEN n ELSE 0)
          /\ Weight(r.trades, TakenFor(i)) = Weight(e.trades, TakenFor(i)) + (IF e.id = i THEN k ELSE 0)
          /\ InBooks(r.book, OpenOf(i)) + y = InBooks(e.book, OpenOf(i))
          /\ InBooks(r.book, WorthOf(i)) + z = InBooks(e.book, WorthOf(i))
      BY <1>10, <1>11
    <2>3. Own(c, e)
      BY DEF Good
    <2>4. Weight(r.trades, TakenBy(i)) + InBooks(r.book, OpenOf(i)) + (IF r.id = i THEN r.left ELSE 0)
            <= c.left + InBooks(c.book, OpenOf(i))
      <3>1. Weight(e.trades, TakenBy(i)) + InBooks(e.book, OpenOf(i)) + (IF e.id = i THEN e.left ELSE 0)
              <= c.left + InBooks(c.book, OpenOf(i))
        BY <2>3 DEF Own
      <3> HIDE DEF i, k, y, z
      <3>4. /\ InBooks(r.book, OpenOf(i)) \in Nat /\ InBooks(e.book, OpenOf(i)) \in Nat
            /\ InBooks(c.book, OpenOf(i)) \in Nat /\ Weight(e.trades, TakenBy(i)) \in Nat
        BY <1>12
      <3>2. CASE e.id = i
        <4>1. /\ Weight(r.trades, TakenBy(i)) = Weight(e.trades, TakenBy(i)) + n
              /\ (IF r.id = i THEN r.left ELSE 0) = e.left - n
              /\ InBooks(r.book, OpenOf(i)) + y = InBooks(e.book, OpenOf(i))
          BY <3>2, <3>4, <1>6, <2>2
        <4>2. Weight(e.trades, TakenBy(i)) + InBooks(e.book, OpenOf(i)) + e.left
                <= c.left + InBooks(c.book, OpenOf(i))
          BY <3>1, <3>2
        <4>3. n \in Nat /\ y \in Nat /\ e.left \in Nat /\ c.left \in Nat
          BY <1>3, <1>6, <2>1
        <4> QED
          BY ONLY <3>4, <4>1, <4>2, <4>3
      <3>3. CASE e.id # i
        <4>1. /\ Weight(r.trades, TakenBy(i)) = Weight(e.trades, TakenBy(i)) + 0
              /\ (IF r.id = i THEN r.left ELSE 0) = 0
              /\ InBooks(r.book, OpenOf(i)) + y = InBooks(e.book, OpenOf(i))
          BY <3>3, <3>4, <1>6, <2>2
        <4>2. Weight(e.trades, TakenBy(i)) + InBooks(e.book, OpenOf(i)) + 0
                <= c.left + InBooks(c.book, OpenOf(i))
          BY <3>1, <3>3
        <4>3. y \in Nat /\ c.left \in Nat
          BY <1>3, <2>1
        <4> QED
          BY ONLY <3>4, <4>1, <4>2, <4>3
      <3> QED
        BY <3>2, <3>3
    <2>5. ASSUME c.side = "buy" /\ c.limit # 0
          PROVE  Weight(r.trades, TakenFor(i)) + InBooks(r.book, WorthOf(i))
                   + (IF r.id = i THEN c.limit * r.left ELSE 0)
                   <= c.limit * c.left + InBooks(c.book, WorthOf(i))
      <3>1. Weight(e.trades, TakenFor(i)) + InBooks(e.book, WorthOf(i))
                   + (IF e.id = i THEN c.limit * e.left ELSE 0)
                   <= c.limit * c.left + InBooks(c.book, WorthOf(i))
        BY <2>3, <2>5 DEF Own
      <3> DEFINE a == c.limit * e.left
                 d == c.limit * r.left
                 f == c.limit * n
                 m == c.limit * c.left
      <3>2. a \in Nat /\ d \in Nat /\ f \in Nat /\ m \in Nat
        <4>1. r.left \in Nat
          BY <1>3, <1>6
        <4> QED
          BY <1>3, <1>6, <4>1, ProductType
      <3>3. d + f = a
        <4>1. c.limit * (e.left - n) + c.limit * n = c.limit * e.left
          BY <1>3, <1>6, Distributes, ZenonT(30)
        <4> QED
          BY <4>1, <1>6
      <3>4. e.id = i => k <= f
        <4> SUFFICES ASSUME e.id = i
                     PROVE  k <= f
          OBVIOUS
        <4>1. e.limit = c.limit /\ e.side = "buy"
          BY <1>0, <2>5 DEF Shape, Call0
        <4>2. o.price <= c.limit
          BY <1>1, <2>5, <4>1 DEF Meets
        <4> QED
          BY <1>3, <1>6, <1>7, <4>2, ProductBelow
      <3> HIDE DEF i, k, y, z, a, d, f, m
      <3>5. Weight(e.trades, TakenFor(i)) + InBooks(e.book, WorthOf(i)) + (IF e.id = i THEN a ELSE 0)
                   <= m + InBooks(c.book, WorthOf(i))
        BY <3>1 DEF a, m
      <3>6. Weight(r.trades, TakenFor(i)) + InBooks(r.book, WorthOf(i)) + (IF r.id = i THEN d ELSE 0)
                   <= m + InBooks(c.book, WorthOf(i))
        <4>1. CASE e.id = i
          BY <1>6, <1>12, <2>1, <2>2, <3>2, <3>3, <3>4, <3>5, <4>1
        <4>2. CASE e.id # i
          BY <1>6, <1>12, <2>1, <2>2, <3>2, <3>5, <4>2
        <4> QED
          BY <4>1, <4>2
      <3> QED
        BY <3>6 DEF d, m
    <2> QED
      BY <2>4, <2>5 DEF Own
  <1> QED
    BY <1>8, <1>9, <1>13, <1>14 DEF Good, r

LEMMA RestKeepsGood ==
  ASSUME NEW c, NEW e, Call0(c), Good(c, e), e.left > 0, e.limit # 0
  PROVE  Good(c, Rest(e))
  <1> DEFINE r == Rest(e)
             o == [id |-> e.id, side |-> e.side, price |-> e.limit, open |-> e.left]
  <1>0. c \in Engine /\ e \in Engine /\ Shape(c, e)
    BY DEF Call0, Good, Shape
  <1>1. /\ o \in Resting
        /\ r \in Engine
        /\ r.side = e.side /\ r.id = e.id /\ r.limit = e.limit
        /\ r.stops = e.stops /\ r.left = 0 /\ r.trades = e.trades
        /\ \A x \in Held(r.book) : x = o \/ x \in Held(e.book)
        /\ \A w \in [Resting -> Nat] : InBooks(r.book, w) = InBooks(e.book, w) + w[o]
    BY <1>0, RestIs
  <1>2. /\ e.left \in Nat /\ e.limit \in Nat /\ c.left \in Nat /\ c.limit \in Nat
        /\ e.limit * e.left \in Nat /\ c.limit * e.left \in Nat /\ c.limit * c.left \in Nat
    BY <1>0, EngineTypes, ProductType
  <1>3. o.id = e.id /\ o.side = e.side
    OBVIOUS
  <1>4. \A i : /\ OneOf(i)[o] = (IF e.id = i THEN 1 ELSE 0)
               /\ OpenOf(i)[o] = (IF e.id = i THEN e.left ELSE 0)
               /\ WorthOf(i)[o] = (IF e.id = i THEN e.limit * e.left ELSE 0)
    BY <1>1 DEF OneOf, OpenOf, WorthOf
  <1> HIDE DEF r, o
  <1>5. Shape(c, r)
    <2>1. (o.id = c.id /\ o.side = c.side /\ c.limit # 0) \/ o.id \in StopIds(c)
      BY <1>0, <1>3 DEF Shape
    <2>2. \A x \in Held(r.book) : \/ \E y \in Held(c.book) : y.id = x.id /\ y.side = x.side
                                  \/ x.id = c.id /\ x.side = c.side /\ c.limit # 0
                                  \/ x.id \in StopIds(c)
      BY <1>0, <1>1, <2>1 DEF Shape
    <2> QED
      BY <1>0, <1>1, <2>2 DEF Shape
  <1>6. \A i : /\ InBooks(r.book, OneOf(i)) = InBooks(e.book, OneOf(i)) + (IF e.id = i THEN 1 ELSE 0)
               /\ InBooks(r.book, OpenOf(i)) = InBooks(e.book, OpenOf(i)) + (IF e.id = i THEN e.left ELSE 0)
               /\ InBooks(r.book, WorthOf(i)) = InBooks(e.book, WorthOf(i)) + (IF e.id = i THEN e.limit * e.left ELSE 0)
    BY <1>1, <1>4, WeightsAre
  <1>7. \A i : /\ InBooks(e.book, OneOf(i)) \in Nat /\ InBooks(c.book, OneOf(i)) \in Nat
               /\ InBooks(e.book, OpenOf(i)) \in Nat /\ InBooks(e.book, WorthOf(i)) \in Nat
               /\ InBooks(c.book, OpenOf(i)) \in Nat /\ InBooks(c.book, WorthOf(i)) \in Nat
               /\ Weight(e.trades, MadeBy(i)) \in Nat /\ Weight(e.trades, MadeFor(i)) \in Nat
               /\ Weight(e.trades, TakenBy(i)) \in Nat /\ Weight(e.trades, TakenFor(i)) \in Nat
               /\ Weight(e.stops, WaitOf(i)) \in Nat
    BY <1>0, BooksAreNat
  <1>8. Fewer(c, r)
    <2> SUFFICES ASSUME NEW i
                 PROVE  Places(r, i) <= Places(c, i)
      BY DEF Fewer
    <2>1. Places(e, i) <= Places(c, i)
      BY DEF Good, Fewer
    <2>2. Places(r, i) = InBooks(e.book, OneOf(i)) + (IF e.id = i THEN 1 ELSE 0) + Weight(e.stops, WaitOf(i)) + 0
      <3>1. ~(r.left > 0)
        BY <1>1
      <3> QED
        BY <1>1, <1>6, <3>1 DEF Places
    <2>3. Places(e, i) = InBooks(e.book, OneOf(i)) + Weight(e.stops, WaitOf(i)) + (IF e.id = i THEN 1 ELSE 0)
      BY DEF Places
    <2> HIDE DEF Places
    <2>4. Places(r, i) = Places(e, i)
      BY <1>7, <2>2, <2>3
    <2> QED
      BY <2>1, <2>4
  <1>9. Kept(c, r)
    <2> SUFFICES ASSUME NEW i, i # c.id, i \notin StopIds(c)
                 PROVE  /\ InBooks(r.book, OpenOf(i)) + Weight(r.trades, MadeBy(i)) = InBooks(c.book, OpenOf(i))
                        /\ InBooks(r.book, WorthOf(i)) + Weight(r.trades, MadeFor(i)) = InBooks(c.book, WorthOf(i))
      BY DEF Kept
    <2>1. /\ InBooks(e.book, OpenOf(i)) + Weight(e.trades, MadeBy(i)) = InBooks(c.book, OpenOf(i))
          /\ InBooks(e.book, WorthOf(i)) + Weight(e.trades, MadeFor(i)) = InBooks(c.book, WorthOf(i))
      BY DEF Good, Kept
    <2>2. e.id # i
      BY <1>0 DEF Shape
    <2>3. /\ InBooks(r.book, OpenOf(i)) = InBooks(e.book, OpenOf(i)) + 0
          /\ InBooks(r.book, WorthOf(i)) = InBooks(e.book, WorthOf(i)) + 0
      BY <1>6, <2>2
    <2> QED
      BY <1>1, <1>7, <2>1, <2>3
  <1>10. Own(c, r)
    <2> DEFINE i == c.id
               m == IF e.id = i THEN e.left ELSE 0
               d == IF e.id = i THEN e.limit * e.left ELSE 0
    <2>1. m \in Nat /\ d \in Nat /\ r.trades = e.trades /\ r.left = 0
      BY <1>1, <1>2
    <2>2. /\ InBooks(r.book, OpenOf(i)) = InBooks(e.book, OpenOf(i)) + m
          /\ InBooks(r.book, WorthOf(i)) = InBooks(e.book, WorthOf(i)) + d
      BY <1>6
    <2>3. /\ InBooks(e.book, OpenOf(i)) \in Nat /\ InBooks(e.book, WorthOf(i)) \in Nat
          /\ Weight(e.trades, TakenBy(i)) \in Nat /\ Weight(e.trades, TakenFor(i)) \in Nat
      BY <1>7
    <2>4. Weight(e.trades, TakenBy(i)) + InBooks(e.book, OpenOf(i)) + m <= c.left + InBooks(c.book, OpenOf(i))
      BY DEF Good, Own
    <2>5. c.side = "buy" /\ c.limit # 0 =>
            Weight(e.trades, TakenFor(i)) + InBooks(e.book, WorthOf(i)) + d
              <= c.limit * c.left + InBooks(c.book, WorthOf(i))
      <3>1. e.id = i => e.limit = c.limit
        BY <1>0 DEF Shape, Call0
      <3> QED
        BY <3>1 DEF Good, Own
    <2>6. (IF r.id = i THEN r.left ELSE 0) = 0
      BY <2>1
    <2>7. (IF r.id = i THEN c.limit * r.left ELSE 0) = 0
      BY <2>1, <1>2
    <2> HIDE DEF m, d, i
    <2>8. Weight(e.trades, TakenBy(i)) + (InBooks(e.book, OpenOf(i)) + m) + 0 <= c.left + InBooks(c.book, OpenOf(i))
      BY <2>1, <2>3, <2>4
    <2>9. c.side = "buy" /\ c.limit # 0 =>
            Weight(e.trades, TakenFor(i)) + (InBooks(e.book, WorthOf(i)) + d) + 0
              <= c.limit * c.left + InBooks(c.book, WorthOf(i))
      BY <2>1, <2>3, <2>5
    <2> QED
      BY <2>1, <2>2, <2>6, <2>7, <2>8, <2>9 DEF Own, i
  <1> QED
    BY <1>5, <1>8, <1>9, <1>10 DEF Good, r

LEMMA FireKeepsGood ==
  ASSUME NEW c, NEW e, Call0(c), Good(c, e), Due(e) # {}
  PROVE  Good(c, FireStop(e))
  <1> DEFINE r == FireStop(e)
  <1>0. c \in Engine /\ e \in Engine /\ Shape(c, e)
    BY DEF Call0, Good, Shape
  <1>1. PICK w \in Waiting :
           /\ w \in ToSet(e.stops)
           /\ r \in Engine
           /\ r.side = e.side /\ r.id = w.id /\ r.limit = w.limit
           /\ r.left = w.open /\ r.trades = e.trades /\ r.book = e.book
           /\ \A x \in ToSet(r.stops) : x \in ToSet(e.stops)
           /\ \A v \in [Waiting -> Nat] : Weight(e.stops, v) = Weight(r.stops, v) + v[w]
    BY <1>0, FireIs
  <1>2. w.id \in StopIds(c) /\ w.id # c.id
    <2>1. w \in ToSet(c.stops)
      BY <1>0, <1>1 DEF Shape
    <2> QED
      BY <2>1 DEF StopIds, Call0
  <1> HIDE DEF r
  <1>3. Shape(c, r)
    BY <1>0, <1>1, <1>2 DEF Shape
  <1>4. \A i : /\ InBooks(e.book, OneOf(i)) \in Nat /\ InBooks(c.book, OneOf(i)) \in Nat
               /\ InBooks(e.book, OpenOf(i)) \in Nat /\ InBooks(e.book, WorthOf(i)) \in Nat
               /\ InBooks(c.book, OpenOf(i)) \in Nat /\ InBooks(c.book, WorthOf(i)) \in Nat
               /\ Weight(e.trades, TakenBy(i)) \in Nat /\ Weight(e.trades, TakenFor(i)) \in Nat
               /\ Weight(e.stops, WaitOf(i)) \in Nat /\ Weight(r.stops, WaitOf(i)) \in Nat
               /\ Weight(c.stops, WaitOf(i)) \in Nat
    BY <1>0, <1>1, BooksAreNat
  <1>5. Fewer(c, r)
    <2> SUFFICES ASSUME NEW i
                 PROVE  Places(r, i) <= Places(c, i)
      BY DEF Fewer
    <2>1. Places(e, i) <= Places(c, i)
      BY DEF Good, Fewer
    <2>2. WaitOf(i)[w] = IF w.id = i THEN 1 ELSE 0
      BY DEF WaitOf
    <2>3. Weight(e.stops, WaitOf(i)) = Weight(r.stops, WaitOf(i)) + (IF w.id = i THEN 1 ELSE 0)
      BY <1>1, <2>2, WeightsAre
    <2>4. Places(r, i) <= InBooks(e.book, OneOf(i)) + Weight(r.stops, WaitOf(i)) + (IF w.id = i THEN 1 ELSE 0)
      BY <1>1, <1>4 DEF Places
    <2>5. Places(e, i) >= InBooks(e.book, OneOf(i)) + Weight(e.stops, WaitOf(i))
      BY <1>4 DEF Places
    <2>6. Places(c, i) \in Nat /\ Places(e, i) \in Nat /\ Places(r, i) \in Nat
      BY <1>1, <1>4 DEF Places
    <2> HIDE DEF Places
    <2> QED
      BY <1>4, <2>1, <2>3, <2>4, <2>5, <2>6
  <1>6. Kept(c, r)
    BY <1>1 DEF Good, Kept
  <1>7. Own(c, r)
    <2> DEFINE i == c.id
    <2>1. r.id # i /\ r.trades = e.trades /\ r.book = e.book
      BY <1>1, <1>2
    <2>2. e.left \in Nat /\ c.limit * e.left \in Nat /\ c.left \in Nat /\ c.limit * c.left \in Nat
      BY <1>0, EngineTypes, ProductType
    <2> DEFINE m == IF e.id = i THEN e.left ELSE 0
               d == IF e.id = i THEN c.limit * e.left ELSE 0
               l == c.limit * c.left
    <2>3. m \in Nat /\ d \in Nat /\ l \in Nat
      BY <2>2
    <2>4. Weight(e.trades, TakenBy(i)) + InBooks(e.book, OpenOf(i)) + m <= c.left + InBooks(c.book, OpenOf(i))
      BY DEF Good, Own
    <2>5. c.side = "buy" /\ c.limit # 0 =>
            Weight(e.trades, TakenFor(i)) + InBooks(e.book, WorthOf(i)) + d <= l + InBooks(c.book, WorthOf(i))
      BY DEF Good, Own
    <2> HIDE DEF m, d, l
    <2>6. Weight(e.trades, TakenBy(i)) + InBooks(e.book, OpenOf(i)) + 0 <= c.left + InBooks(c.book, OpenOf(i))
      BY <1>4, <2>2, <2>3, <2>4
    <2>7. c.side = "buy" /\ c.limit # 0 =>
            Weight(e.trades, TakenFor(i)) + InBooks(e.book, WorthOf(i)) + 0 <= l + InBooks(c.book, WorthOf(i))
      BY <1>4, <2>3, <2>5
    <2> QED
      BY <2>1, <2>6, <2>7 DEF Own, l
  <1> QED
    BY <1>3, <1>5, <1>6, <1>7 DEF Good, r

LEMMA RoundKeepsGood ==
  ASSUME NEW c, NEW e, Call0(c), Good(c, e)
  PROVE  Good(c, Round[e])
  <1>1. e \in Engine
    BY DEF Good, Shape
  <1>2. Round[e] = IF Crosses(e) THEN Meet(e)
                   ELSE IF e.left > 0 /\ e.limit # 0 THEN Rest(e)
                   ELSE IF e.stage # "over" /\ Due(e) # {} THEN FireStop(e)
                   ELSE e
    BY <1>1 DEF Round
  <1> QED
    BY <1>2, MeetKeepsGood, RestKeepsGood, FireKeepsGood

(* Some rounds one after the other *)
LEMMA RoundsExist ==
  ASSUME NEW e, NEW n \in Nat
  PROVE  LET f == CHOOSE f : f = [k \in 0..n |-> IF k = 0 THEN e ELSE Round[f[k - 1]]]
         IN  f = [k \in 0..n |-> IF k = 0 THEN e ELSE Round[f[k - 1]]]
  <1> DEFINE Is(g, m) == g = [k \in 0..m |-> IF k = 0 THEN e ELSE Round[g[k - 1]]]
             None == {m \in Nat : ~\E g : Is(g, m)}
  <1>1. None = {}
    <2> SUFFICES ASSUME None # {}
                 PROVE  FALSE
      OBVIOUS
    <2> DEFINE m == Min(None)
    <2>1. m \in None /\ \A k \in None : m <= k
      <3>1. None \in SUBSET Nat
        OBVIOUS
      <3> HIDE DEF None
      <3> QED
        BY <3>1, LeastNumber
    <2> HIDE DEF m
    <2>2. m \in Nat /\ ~\E g : Is(g, m)
      BY <2>1
    <2>3. CASE m = 0
      <3> DEFINE g == [k \in 0..0 |-> e]
      <3>1. Is(g, 0)
        OBVIOUS
      <3> QED
        BY <2>2, <2>3, <3>1
    <2>4. CASE m # 0
      <3>1. m - 1 \in Nat /\ ~(m <= m - 1)
        BY <2>2, <2>4
      <3>2. m - 1 \notin None
        BY <2>1, <3>1
      <3>3. PICK g : Is(g, m - 1)
        BY <3>1, <3>2
      <3> DEFINE h == [k \in 0..m |-> IF k = m THEN Round[g[m - 1]] ELSE g[k]]
      <3>4. \A k \in 0..(m - 1) : h[k] = g[k]
        BY <2>2
      <3>5. \A k \in 0..m : h[k] = IF k = 0 THEN e ELSE Round[h[k - 1]]
        <4> SUFFICES ASSUME NEW k \in 0..m
                     PROVE  h[k] = IF k = 0 THEN e ELSE Round[h[k - 1]]
          OBVIOUS
        <4>1. CASE k = m
          <5>1. h[k] = Round[g[m - 1]] /\ h[k - 1] = g[m - 1] /\ k # 0
            BY <2>2, <2>4, <4>1, <3>4
          <5> QED
            BY <5>1
        <4>2. CASE k # m
          <5>1. k \in 0..(m - 1)
            BY <2>2, <4>2
          <5>2. h[k] = g[k] /\ g[k] = IF k = 0 THEN e ELSE Round[g[k - 1]]
            BY <3>3, <3>4, <5>1
          <5>3. k # 0 => k - 1 \in 0..(m - 1)
            BY <2>2, <5>1
          <5> QED
            BY <5>2, <5>3, <3>4
        <4> QED
          BY <4>1, <4>2
      <3>6. Is(h, m)
        BY <3>5
      <3> QED
        BY <2>2, <3>6
    <2> QED
      BY <2>3, <2>4
  <1>2. \E g : Is(g, n)
    BY <1>1
  <1> QED
    BY <1>2

LEMMA ExecutedIsGood ==
  ASSUME NEW c, Call0(c)
  PROVE  Good(c, Executed(c))
  <1> DEFINE n == Len(Opposing(c)) + 2 * Len(c.stops) + 1
             f == CHOOSE f : f = [k \in 0..n |-> IF k = 0 THEN c ELSE Round[f[k - 1]]]
  <1>1. n \in Nat
    <2>1. /\ c.book \in [Side -> Seq(Resting)] /\ c.side \in Side /\ c.stops \in Seq(Waiting)
      BY EngineTypes DEF Call0
    <2>2. Opposite(c.side) \in Side
      BY <2>1, SidesAre
    <2>3. Opposing(c) \in Seq(Resting)
      BY <2>1, <2>2 DEF Opposing
    <2> QED
      BY <2>1, <2>3
  <1>2. Executed(c) = f[n]
    BY SMTT(30) DEF Executed
  <1> HIDE DEF n
  <1>3. f = [k \in 0..n |-> IF k = 0 THEN c ELSE Round[f[k - 1]]]
    BY <1>1, RoundsExist, SMTT(30)
  <1> HIDE DEF f
  <1>4. f[0] = c /\ \A k \in 0..n : k # 0 => f[k] = Round[f[k - 1]]
    BY <1>1, <1>3
  <1> DEFINE Bad == {k \in 0..n : ~Good(c, f[k])}
  <1>5. Bad = {}
    <2> SUFFICES ASSUME Bad # {}
                 PROVE  FALSE
      OBVIOUS
    <2> DEFINE m == Min(Bad)
    <2>1. m \in Bad /\ \A k \in Bad : m <= k
      <3>1. Bad \in SUBSET Nat
        BY <1>1
      <3> HIDE DEF Bad
      <3> QED
        BY <3>1, LeastNumber
    <2> HIDE DEF m
    <2>2. m \in 0..n /\ ~Good(c, f[m])
      BY <2>1
    <2>3. m # 0
      BY <1>4, <2>2, CallIsGood
    <2>4. m - 1 \in 0..n /\ ~(m <= m - 1)
      BY <1>1, <2>2, <2>3
    <2>5. Good(c, f[m - 1])
      BY <2>1, <2>4
    <2>6. f[m] = Round[f[m - 1]]
      BY <1>4, <2>2, <2>3
    <2> QED
      BY <2>2, <2>5, <2>6, RoundKeepsGood
  <1>6. n \in 0..n
    BY <1>1
  <1> QED
    BY <1>2, <1>5, <1>6

-----------------------------------------------------------------------------
(* The parts of the inductive invariant *)

SharesOf == [t \in Fill |-> t.qty]
MoneyOf  == [t \in Fill |-> t.price * t.qty]

(* What the calls to come credit to order i, and add to the escrow of u *)
Claim(i) == [c \in Call |-> IF c.op # "release" THEN IF c.id = i THEN c.qty ELSE 0 ELSE 0]
Owed(u)  == [c \in Call |-> Pending(u, c)]
Each(w)  == [q \in Seq(Call) |-> Weight(q, w)]
Claims(i) == Weight(todo, Each(Claim(i)))

(* What a request stands for: an order yet to come, money of u reserved and  *)
(* money spent that the tracker does not know of, shares and money of the    *)
(* trades of i to be recorded, and shares of those to be tracked             *)
Placed(q)   == q.stage \in {"track", "record", "recording"}
Recorder(q) == q.stage \in {"record", "recording"}
Coming       == [q \in Request |-> IF q.stage \in {"limit", "check", "market"} THEN 1 ELSE 0]
Asked(u)     == [q \in Request |-> IF q.user = u /\ q.side = "buy" /\ q.stage \in {"limit", "track"}
                                   THEN q.price * q.qty ELSE 0]
Spent(u)     == [q \in Request |-> IF q.user = u /\ q.side = "buy" /\ Recorder(q)
                                   THEN Weight(q.trades, MoneyOf) ELSE 0]
RecShares(i) == [q \in Request |-> IF Recorder(q) /\ q.id = i THEN Weight(q.trades, SharesOf) ELSE 0]
RecMoney(i)  == [q \in Request |-> IF Recorder(q) /\ q.id = i THEN Weight(q.trades, MoneyOf) ELSE 0]
NewShares(i) == [q \in Request |-> IF q.stage = "track" /\ q.id = i THEN Weight(q.trades, SharesOf) ELSE 0]
Reserved(u)  == [o \in Tracked \cup {NoOrder} |-> IF o # NoOrder THEN IF o.user = u THEN o.reserve ELSE 0 ELSE 0]

(* The places of order i, and its shares and worth in the book *)
Here(i)  == InBooks(book, OneOf(i)) + Weight(stops, WaitOf(i))
Open(i)  == InBooks(book, OpenOf(i))
Worth(i) == InBooks(book, WorthOf(i))
Made(i)    == Weight(gen.trades, MadeBy(i))
Revenue(i) == Weight(gen.trades, MadeFor(i))

Lost     == Oddity \ {"modified"}
Sound(i) == odd[i] \cap Lost = {}

(* A request has what its stage needs. *)
RequestOK(q) ==
  /\ q.stage \in {"limit", "check", "market", "track", "record", "recording"} =>
       q.user \in Users /\ q.qty > 0
  /\ q.stage \in {"limit", "track", "record", "recording"} => q.price \in Prices
  /\ Placed(q) => q.id \in Ids /\ q.id < nextId /\ owner[q.id] = q.user
  /\ Placed(q) /\ "fired" \notin odd[q.id] => \A t \in ToSet(q.trades) : t.taker = q.id
  /\ Recorder(q) => q.trades # <<>>
  /\ q.stage = "update" => q.qty > 0 /\ (q.id \in Ids => "modified" \in odd[q.id])
  /\ q.stage \in {"remove", "update"} /\ q.id \in Ids => q.id < nextId
  /\ q.stage = "remove" /\ q.id \in Ids => Here(q.id) = 0
RequestsOK == \A r \in Threads : RequestOK(req[r])
TickOK     == /\ gen.stage \in {"reconcile", "reconciling"} <=> gen.trades # <<>>
              /\ gen.stage \in {"idle", "reconcile"} => todo[Generator] = <<>>

(* No more ids are handed out than there are requests. *)
Counted == Weight(req, Coming) + nextId - 1 <= requests

(* The shares of an order that ApplyFill has been called for *)
settled == [i \in Ids |-> credited[i] + missed[i]]
LEMMA SettledIs ==
  ASSUME TypeOK
  PROVE  settled \in [Ids -> Nat] /\ \A i \in Ids : settled[i] = credited[i] + missed[i]
  BY DEF TypeOK, settled

LEMMA SettledGrows ==
  ASSUME TypeOK, NEW i, i \in Ids, NEW n, n \in Nat,
         \/ credited' = [credited EXCEPT ![i] = @ + n] /\ missed' = missed
         \/ missed' = [missed EXCEPT ![i] = @ + n] /\ credited' = credited
  PROVE  /\ settled' = [settled EXCEPT ![i] = @ + n]
         /\ credited' \in [Ids -> Nat] /\ missed' \in [Ids -> Nat]
  <1>1. credited \in [Ids -> Nat] /\ missed \in [Ids -> Nat]
    BY DEF TypeOK
  <1>2. credited' \in [Ids -> Nat] /\ missed' \in [Ids -> Nat]
    BY <1>1
  <1>3. ASSUME NEW j \in Ids
        PROVE  credited'[j] + missed'[j] = IF j = i THEN (credited[i] + missed[i]) + n ELSE credited[j] + missed[j]
    BY <1>1
  <1> QED
    BY <1>2, <1>3 DEF settled

(* Ids from nextId on are unused, and what is about an order knows its owner. *)
UnusedId(i) == tracked[i] = NoOrder /\ owner[i] = NoUser /\ settled[i] = 0 /\ odd[i] = {} /\ Here(i) = 0
Unused      == /\ \A i \in Ids : i >= nextId => UnusedId(i)
               /\ \A i \in Quotes : i >= nextQuote => Here(i) = 0
StopsUnowned == \A x \in ToSet(stops) : owner[x.id] = NoUser
CallOK(c)    == c.op # "release" => c.id < nextId /\ owner[c.id] = c.user
CallsOK      == \A a \in Actors : \A c \in ToSet(todo[a]) : CallOK(c)
OwnersKnown  == \A i \in Ids : tracked[i] # NoOrder => owner[i] = tracked[i].user

(* An order is in one place. *)
OnePlace == \A i \in Ids \cup Quotes : Here(i) <= 1

(* What is credited, to be credited or to be reconciled has been traded. *)
Accounted(i) == settled[i] + Claims(i) + Weight(req, NewShares(i)) + Made(i)
ClaimsTraded == \A i \in Ids : "fired" \notin odd[i] => Accounted(i) <= traded[i]

BaseInv == /\ TypeOK /\ RequestsOK /\ TickOK /\ Counted /\ Unused /\ StopsUnowned /\ CallsOK /\ OwnersKnown
           /\ OnePlace /\ ClaimsTraded

(* Of an order that is being placed there is one goroutine, and what is not  *)
(* tracked yet is not credited yet; an order of a market call never is       *)
(* tracked.                                                                  *)
OnePlacement == \A r, s \in Threads : Placed(req[r]) /\ Placed(req[s]) /\ req[r].id = req[s].id => r = s
NotYet == \A r \in Threads : req[r].stage = "track" =>
             tracked[req[r].id] = NoOrder /\ settled[req[r].id] = 0 /\ Claims(req[r].id) = 0
Never  == \A a \in Actors : \A c \in ToSet(todo[a]) : c.op = "marketFill" =>
             /\ tracked[c.id] = NoOrder
             /\ \A r \in Threads : Placed(req[r]) => req[r].id # c.id

(* What a cancel or a modification in the middle of a placement leaves behind *)
Cancelling == \A r, s \in Threads : Placed(req[r]) /\ req[s].id = req[r].id /\ req[s].stage = "remove" =>
                 "cancelled" \in odd[req[r].id]
Modifying  == \A r \in Threads : Placed(req[r]) /\ "modified" \in odd[req[r].id] => "raised" \in odd[req[r].id]

(* The book, the tracker and the handler agree on the side of an order. *)
BookSides   == \A o \in Held(book) : o.id \in Ids /\ tracked[o.id] # NoOrder => o.side = tracked[o.id].side
PlacedSides == \A o \in Held(book), r \in Threads : Placed(req[r]) /\ req[r].id = o.id => o.side = req[r].side
RecordSides == \A r \in Threads : Recorder(req[r]) /\ tracked[req[r].id] # NoOrder =>
                  tracked[req[r].id].side = req[r].side

Structure == /\ OnePlacement /\ NotYet /\ Never /\ Cancelling /\ Modifying
             /\ BookSides /\ PlacedSides /\ RecordSides

(* No more of order i is open, or traded and not yet known to the tracker,   *)
(* than the order has left, and than there is money reserved for; the        *)
(* tracker counts the fills that the portfolio has seen or will see, but for *)
(* those that are being recorded; a user's order in the book is tracked or   *)
(* about to be.                                                              *)
PlacementCovered(q) ==
  /\ Open(q.id) + Made(q.id) + Weight(q.trades, SharesOf) <= q.qty
  /\ q.side = "buy" => Worth(q.id) + Revenue(q.id) + Weight(q.trades, MoneyOf) <= q.price * q.qty
SharesCovered(i) == tracked[i].filled + Open(i) + Made(i) + Weight(req, RecShares(i)) <= tracked[i].qty
MoneyCovered(i)  == Worth(i) + Revenue(i) + Weight(req, RecMoney(i)) <= tracked[i].reserve
FillsAgree(i)    == tracked[i].filled + Weight(req, RecShares(i)) = settled[i] + Claims(i)
Covered(i) ==
  /\ \A r \in Threads : req[r].stage = "track" /\ req[r].id = i /\ odd[i] = {} => PlacementCovered(req[r])
  /\ tracked[i] # NoOrder /\ odd[i] = {} => SharesCovered(i) /\ FillsAgree(i)
  /\ tracked[i] # NoOrder /\ Sound(i) /\ tracked[i].side = "buy" => MoneyCovered(i)
  /\ \A r \in Threads : Recorder(req[r]) /\ req[r].id = i /\ Sound(i) => tracked[i] # NoOrder
  /\ owner[i] # NoUser /\ odd[i] = {} /\ tracked[i] = NoOrder =>
       \A o \in Held(book) : o.id = i => \E r \in Threads : req[r].stage = "track" /\ req[r].id = i
AllCovered == \A i \in Ids : Covered(i)

-----------------------------------------------------------------------------
(* The weights *)

LEMMA FillWeights == SharesOf \in [Fill -> Nat] /\ MoneyOf \in [Fill -> Nat]
  <1>1. \A t \in Fill : t.qty \in Nat /\ t.price \in Nat /\ t.price * t.qty \in Nat
    <2> SUFFICES ASSUME NEW t \in Fill
                 PROVE  t.qty \in Nat /\ t.price \in Nat /\ t.price * t.qty \in Nat
      OBVIOUS
    <2>1. t.qty \in Nat /\ t.price \in Nat
      BY PricesAreNat DEF Fill
    <2> QED
      BY <2>1, ProductType
  <1> QED
    BY <1>1 DEF SharesOf, MoneyOf

Release1 == [op: {"release"}, user: Users, amount: Nat]
Fill1    == [op: {"limitFill", "marketFill"}, user: Users, id: Ids, side: Side, price: Prices, qty: Nat \ {0}]

LEMMA CallIs ==
  ASSUME NEW c, c \in Call
  PROVE  \/ c \in Release1 /\ c.op = "release" /\ c.user \in Users /\ c.amount \in Nat
         \/ /\ c \in Fill1 /\ c.op \in {"limitFill", "marketFill"} /\ c.op # "release" /\ c.user \in Users
            /\ c.id \in Ids /\ c.side \in Side
            /\ c.price \in Prices /\ c.price \in Nat /\ c.qty \in Nat /\ c.qty > 0 /\ c.price * c.qty \in Nat
  <1>1. c \in Release1 \/ c \in Fill1
    BY DEF Call, Release1, Fill1
  <1>2. CASE c \in Release1
    BY <1>2 DEF Release1
  <1>3. CASE c \in Fill1
    <2>1. /\ c.op \in {"limitFill", "marketFill"} /\ c.user \in Users /\ c.id \in Ids /\ c.side \in Side
          /\ c.price \in Prices /\ c.qty \in Nat /\ c.qty > 0
      BY <1>3 DEF Fill1
    <2>2. c.price \in Nat
      BY <2>1, PricesAreNat
    <2> QED
      BY <1>3, <2>1, <2>2, ProductType
  <1> QED
    BY <1>1, <1>2, <1>3

LEMMA CallWeights ==
  ASSUME NEW i
  PROVE  Claim(i) \in [Call -> Nat] /\ Owed(i) \in [Call -> Nat]
  <1>1. \A c \in Call : (IF c.op # "release" THEN IF c.id = i THEN c.qty ELSE 0 ELSE 0) \in Nat
    BY CallIs
  <1>2. \A c \in Call : Pending(i, c) \in Nat
    <2> SUFFICES ASSUME NEW c, c \in Call
                 PROVE  Pending(i, c) \in Nat
      OBVIOUS
    <2>1. (c.op = "release" /\ c.amount \in Nat) \/ (c.op # "release" /\ c.price * c.qty \in Nat)
      BY CallIs
    <2> QED
      BY <2>1 DEF Pending
  <1> QED
    BY <1>1, <1>2 DEF Claim, Owed

LEMMA EachType ==
  ASSUME NEW w, w \in [Call -> Nat]
  PROVE  /\ Each(w) \in [Seq(Call) -> Nat]
         /\ \A q \in Seq(Call) : Each(w)[q] = Weight(q, w) /\ Weight(q, w) \in Nat
  <1>1. \A q \in Seq(Call) : Weight(q, w) \in Nat
    BY WeightType
  <1> QED
    BY <1>1 DEF Each

LEMMA RequestIs ==
  ASSUME NEW q, q \in Request
  PROVE  /\ q.user \in Users \cup {NoUser} /\ q.side \in Side /\ q.qty \in Nat /\ q.price \in Nat /\ q.seen \in Int
         /\ q.id \in Ids \cup Quotes \cup {0} /\ q.trades \in Seq(Fill)
         /\ q.stage \in {"idle", "check", "market", "limit", "track", "record", "recording", "remove", "update"}
         /\ q.price * q.qty \in Nat
         /\ Weight(q.trades, SharesOf) \in Nat /\ Weight(q.trades, MoneyOf) \in Nat
  <1>1. /\ q.user \in Users \cup {NoUser} /\ q.side \in Side /\ q.qty \in Nat /\ q.price \in Nat /\ q.seen \in Int
        /\ q.id \in Ids \cup Quotes \cup {0} /\ q.trades \in Seq(Fill)
        /\ q.stage \in {"idle", "check", "market", "limit", "track", "record", "recording", "remove", "update"}
    BY DEF Request
  <1>2. Weight(q.trades, SharesOf) \in Nat /\ Weight(q.trades, MoneyOf) \in Nat
    BY <1>1, FillWeights, WeightType
  <1> QED
    BY <1>1, <1>2, ProductType

LEMMA RequestWeights ==
  ASSUME NEW i
  PROVE  /\ Coming \in [Request -> Nat] /\ Asked(i) \in [Request -> Nat] /\ Spent(i) \in [Request -> Nat]
         /\ RecShares(i) \in [Request -> Nat] /\ RecMoney(i) \in [Request -> Nat]
         /\ NewShares(i) \in [Request -> Nat]
         /\ Reserved(i) \in [Tracked \cup {NoOrder} -> Nat]
  <1>1. \A q \in Request : /\ q.price * q.qty \in Nat /\ Weight(q.trades, SharesOf) \in Nat
                           /\ Weight(q.trades, MoneyOf) \in Nat
    BY RequestIs
  <1>2. Coming \in [Request -> Nat]
    BY DEF Coming
  <1>3. Asked(i) \in [Request -> Nat] /\ Spent(i) \in [Request -> Nat]
    BY <1>1 DEF Asked, Spent
  <1>4. /\ RecShares(i) \in [Request -> Nat] /\ RecMoney(i) \in [Request -> Nat]
        /\ NewShares(i) \in [Request -> Nat]
    BY <1>1 DEF RecShares, RecMoney, NewShares
  <1>5. Reserved(i) \in [Tracked \cup {NoOrder} -> Nat]
    BY DEF Reserved, Tracked
  <1> QED
    BY <1>2, <1>3, <1>4, <1>5

LEMMA FiniteSets == IsFiniteSet(Threads) /\ IsFiniteSet(Ids) /\ IsFiniteSet(Actors) /\ Generator \notin Threads
  <1>1. IsFiniteSet(Threads) /\ Generator \notin Threads /\ MaxRequests \in Nat
    BY OrderFlowConstants
  <1>2. IsFiniteSet(Ids)
    BY <1>1, FS_Interval DEF Ids
  <1>3. IsFiniteSet({Generator})
    BY FS_Singleton
  <1>4. IsFiniteSet(Actors)
    BY <1>1, <1>3, FS_Union DEF Actors
  <1> QED
    BY <1>1, <1>2, <1>4

(* All sums that the invariant speaks of are numbers. *)
LEMMA NumbersAreNat ==
  ASSUME TypeOK, NEW i
  PROVE  /\ Here(i) \in Nat /\ Open(i) \in Nat /\ Worth(i) \in Nat /\ Made(i) \in Nat /\ Revenue(i) \in Nat
         /\ Claims(i) \in Nat /\ Weight(todo, Each(Owed(i))) \in Nat
         /\ Weight(req, Coming) \in Nat /\ Weight(req, Asked(i)) \in Nat /\ Weight(req, Spent(i)) \in Nat
         /\ Weight(req, RecShares(i)) \in Nat /\ Weight(req, RecMoney(i)) \in Nat
         /\ Weight(req, NewShares(i)) \in Nat /\ Weight(tracked, Reserved(i)) \in Nat
  <1>1. /\ book \in [Side -> Seq(Resting)] /\ stops \in Seq(Waiting) /\ gen.trades \in Seq(Fill)
        /\ req \in [Threads -> Request] /\ todo \in [Actors -> Seq(Call)]
        /\ tracked \in [Ids -> Tracked \cup {NoOrder}]
    BY DEF TypeOK, Tick
  <1>2. Open(i) \in Nat /\ Worth(i) \in Nat /\ InBooks(book, OneOf(i)) \in Nat
    <2>1. \A w \in [Resting -> Nat] : InBooks(book, w) \in Nat
      <3>1. "buy" \in Side
        BY DEF Side
      <3> QED
        BY <1>1, <3>1, SidesAre
    <2> QED
      BY <2>1, WeightsAre DEF Open, Worth
  <1>3. Weight(stops, WaitOf(i)) \in Nat
    BY <1>1, WeightsAre, WeightType
  <1>4. Here(i) \in Nat
    BY <1>2, <1>3 DEF Here
  <1>5. Made(i) \in Nat /\ Revenue(i) \in Nat
    BY <1>1, WeightsAre, WeightType DEF Made, Revenue
  <1>6. Claims(i) \in Nat /\ Weight(todo, Each(Owed(i))) \in Nat
    <2>1. Each(Claim(i)) \in [Seq(Call) -> Nat] /\ Each(Owed(i)) \in [Seq(Call) -> Nat]
      BY CallWeights, EachType
    <2> QED
      BY <1>1, <2>1, FiniteSets, WeightOnType DEF Claims
  <1>7. \A w \in [Request -> Nat] : Weight(req, w) \in Nat
    BY <1>1, FiniteSets, WeightOnType
  <1>8. Weight(tracked, Reserved(i)) \in Nat
    BY <1>1, FiniteSets, WeightOnType, RequestWeights
  <1> QED
    BY <1>2, <1>4, <1>5, <1>6, <1>7, <1>8, RequestWeights

(* What an entry of a function adds to the sum over it *)
LEMMA PartOfWeight ==
  ASSUME NEW T, IsFiniteSet(T), NEW S, NEW w, w \in [S -> Nat], NEW f, f \in [T -> S], NEW r, r \in T
  PROVE  w[f[r]] <= Weight(f, w) /\ w[f[r]] \in Nat
  <1> DEFINE a == [k \in DOMAIN f |-> w[f[k]]]
  <1>1. a \in [T -> Nat] /\ a[r] = w[f[r]] /\ w[f[r]] \in Nat
    OBVIOUS
  <1> HIDE DEF a
  <1>2. a[r] <= Total(a)
    BY ONLY <1>1, IsFiniteSet(T), r \in T, TotalHasPart
  <1> QED
    BY <1>1, <1>2 DEF Weight, a

(* The sum over a function of which every entry weighs nothing *)
LEMMA NothingWeighs ==
  ASSUME NEW T, NEW S, NEW w, w \in [S -> Nat], NEW f, f \in [T -> S], \A r \in T : w[f[r]] = 0
  PROVE  Weight(f, w) = 0
  <1> DEFINE a == [k \in DOMAIN f |-> w[f[k]]]
  <1>1. a \in [T -> Nat] /\ \A r \in T : a[r] = 0
    OBVIOUS
  <1> HIDE DEF a
  <1>2. Total(a) = 0
    BY ONLY <1>1, TotalZero
  <1> QED
    BY <1>2 DEF Weight, a

LEMMA ListWeighsNothing ==
  ASSUME NEW S, NEW w, w \in [S -> Nat], NEW q, q \in Seq(S), \A x \in ToSet(q) : w[x] = 0
  PROVE  Weight(q, w) = 0
  <1>1. q \in [1..Len(q) -> S] /\ DOMAIN q = 1..Len(q)
    BY SeqIsFunction
  <1>2. \A r \in 1..Len(q) : w[q[r]] = 0
    BY <1>1 DEF ToSet
  <1> DEFINE T == 1..Len(q)
  <1>3. q \in [T -> S] /\ \A r \in T : w[q[r]] = 0
    BY <1>1, <1>2
  <1> HIDE DEF T
  <1> QED
    BY ONLY <1>3, w \in [S -> Nat], NothingWeighs

LEMMA CostIs ==
  ASSUME NEW q, q \in Seq(Fill)
  PROVE  Cost(q) = Weight(q, MoneyOf) /\ Cost(q) \in Nat
  <1>1. \A k \in DOMAIN q : q[k] \in Fill
    OBVIOUS
  <1>2. [k \in DOMAIN q |-> q[k].price * q[k].qty] = [k \in DOMAIN q |-> MoneyOf[q[k]]]
    BY <1>1 DEF MoneyOf
  <1>3. Cost(q) = Weight(q, MoneyOf)
    BY <1>2 DEF Cost, Weight
  <1> QED
    BY <1>3, FillWeights, WeightType

(* The trades of a call, and those that its result has room for *)
LEMMA VolumeIs ==
  ASSUME NEW ts, ts \in Seq(Fill), NEW i
  PROVE  /\ Volume(ts, i) \in Nat
         /\ Weight(ts, MadeBy(i)) \in Nat /\ Weight(ts, MadeBy(i)) <= Volume(ts, i)
         /\ Weight(ts, TakenBy(i)) \in Nat /\ Weight(ts, TakenBy(i)) <= Volume(ts, i)
  <1> DEFINE w == [t \in Fill |-> IF i \in {t.maker, t.taker} THEN t.qty ELSE 0]
  <1>1. \A t \in Fill : t.qty \in Nat
    BY DEF Fill
  <1>2. w \in [Fill -> Nat] /\ MadeBy(i) \in [Fill -> Nat] /\ TakenBy(i) \in [Fill -> Nat]
    BY <1>1, WeightsAre
  <1>3. \A t \in Fill : MadeBy(i)[t] <= w[t] /\ TakenBy(i)[t] <= w[t]
    BY <1>1 DEF MadeBy, TakenBy
  <1>4. \A k \in DOMAIN ts : ts[k] \in Fill
    OBVIOUS
  <1>5. Volume(ts, i) = Weight(ts, w)
    BY <1>4 DEF Volume, Weight
  <1> HIDE DEF w
  <1>6. Len(ts) \in Nat
    OBVIOUS
  <1>7. \A k \in DOMAIN ts : /\ ts[k] = ts[k]
                            /\ MadeBy(i)[ts[k]] <= w[ts[k]] /\ TakenBy(i)[ts[k]] <= w[ts[k]]
    BY <1>3, <1>4
  <1>8. Weight(ts, MadeBy(i)) <= Weight(ts, w) /\ Weight(ts, TakenBy(i)) <= Weight(ts, w)
    <2>1. Len(ts) <= Len(ts)
      BY <1>6
    <2>2. ASSUME NEW v, v \in [Fill -> Nat], \A k \in DOMAIN ts : v[ts[k]] <= w[ts[k]]
          PROVE  Weight(ts, v) <= Weight(ts, w)
      <3>1. \A k \in DOMAIN ts : ts[k] = ts[k] /\ v[ts[k]] <= w[ts[k]]
        BY <2>2
      <3> QED
        BY ONLY <1>2, <2>1, <2>2, <3>1, ts \in Seq(Fill), WeightWithin
    <2> QED
      BY <1>2, <1>7, <2>2
  <1>9. Weight(ts, w) \in Nat /\ Weight(ts, MadeBy(i)) \in Nat /\ Weight(ts, TakenBy(i)) \in Nat
    BY <1>2, WeightType
  <1> QED
    BY <1>5, <1>8, <1>9

LEMMA ReportedIs ==
  ASSUME NEW e, e.trades \in Seq(Fill)
  PROVE  /\ Reported(e) \in Seq(Fill)
         /\ \A t \in ToSet(Reported(e)) : t \in ToSet(e.trades)
         /\ \A v, w \in [Fill -> Nat] : (\A t \in ToSet(Reported(e)) : v[t] <= w[t]) =>
              Weight(Reported(e), v) <= Weight(e.trades, w)
  <1> DEFINE q == e.trades
             n == Min({MaxReported, Len(q)})
             p == SubSeq(q, 1, n)
  <1>1. q \in Seq(Fill) /\ Len(q) \in Nat /\ MaxReported \in Nat
    BY OrderFlowConstants
  <1>2. n \in Nat /\ n <= Len(q)
    <2>1. MaxReported \in Int /\ Len(q) \in Int
      BY <1>1
    <2>2. n \in {MaxReported, Len(q)} /\ n <= Len(q)
      BY ONLY <2>1, MinIs
    <2> QED
      BY <1>1, <2>2
  <1>3. Reported(e) = p
    BY DEF Reported
  <1> HIDE DEF n, q
  <1>4. p \in Seq(Fill) /\ Len(p) = n /\ \A k \in 1..n : p[k] = q[k]
    BY <1>1, <1>2
  <1> HIDE DEF p
  <1>5. DOMAIN p = 1..n /\ DOMAIN q = 1..Len(q)
    BY <1>1, <1>2, <1>4
  <1>6. \A k \in 1..n : k \in 1..Len(q)
    BY <1>1, <1>2
  <1>7. \A t \in ToSet(p) : t \in ToSet(q)
    BY <1>4, <1>5, <1>6 DEF ToSet
  <1>8. ASSUME NEW v, v \in [Fill -> Nat], NEW w, w \in [Fill -> Nat], \A t \in ToSet(p) : v[t] <= w[t]
        PROVE  Weight(p, v) <= Weight(q, w)
    <2>1. \A k \in DOMAIN p : p[k] = q[k] /\ v[p[k]] <= w[p[k]]
      BY <1>4, <1>5, <1>8 DEF ToSet
    <2> QED
      BY ONLY <1>1, <1>2, <1>4, <1>8, <2>1, WeightWithin
  <1>9. \A v, w \in [Fill -> Nat] : (\A t \in ToSet(p) : v[t] <= w[t]) => Weight(p, v) <= Weight(q, w)
    BY <1>8
  <1> QED
    BY <1>3, <1>4, <1>7, <1>9 DEF q

(* The places of an order: one that has none is not in the book and does not wait. *)
LEMMA HereIs ==
  ASSUME TypeOK, NEW i, Here(i) = 0
  PROVE  /\ Open(i) = 0 /\ Worth(i) = 0
         /\ \A o \in Held(book) : o.id # i
         /\ \A x \in ToSet(stops) : x.id # i
  <1>1. book \in [Side -> Seq(Resting)] /\ stops \in Seq(Waiting)
    BY DEF TypeOK
  <1>2. /\ OneOf(i) \in [Resting -> Nat] /\ OpenOf(i) \in [Resting -> Nat] /\ WorthOf(i) \in [Resting -> Nat]
        /\ WaitOf(i) \in [Waiting -> Nat]
    BY WeightsAre
  <1>3. book["buy"] \in Seq(Resting) /\ book["sell"] \in Seq(Resting)
    BY <1>1 DEF Side
  <1>4. /\ Weight(book["buy"], OneOf(i)) \in Nat /\ Weight(book["sell"], OneOf(i)) \in Nat
        /\ Weight(stops, WaitOf(i)) \in Nat
    BY <1>1, <1>2, <1>3, WeightType
  <1>5. Weight(book["buy"], OneOf(i)) = 0 /\ Weight(book["sell"], OneOf(i)) = 0 /\ Weight(stops, WaitOf(i)) = 0
    BY <1>4 DEF Here, InBooks
  <1>6. \A o \in Resting : OneOf(i)[o] = 0 => o.id # i /\ OpenOf(i)[o] = 0 /\ WorthOf(i)[o] = 0
    BY DEF OneOf, OpenOf, WorthOf
  <1>7. ASSUME NEW q, q \in Seq(Resting), Weight(q, OneOf(i)) = 0
        PROVE  /\ Weight(q, OpenOf(i)) = 0 /\ Weight(q, WorthOf(i)) = 0
               /\ \A o \in ToSet(q) : o.id # i
    <2>1. Weight(q, OpenOf(i)) = 0 /\ Weight(q, WorthOf(i)) = 0
      BY <1>2, <1>6, <1>7, WeightVanishes, ZenonT(30)
    <2>2. \A k \in DOMAIN q : q[k].id # i
      <3> SUFFICES ASSUME NEW k \in DOMAIN q
                   PROVE  q[k].id # i
        OBVIOUS
      <3>1. OneOf(i)[q[k]] <= Weight(q, OneOf(i))
        BY <1>2, <1>7, WeightOfPart
      <3>2. q[k] \in Resting
        BY <1>7
      <3>3. OneOf(i)[q[k]] \in Nat
        BY <1>2, <3>2
      <3> QED
        BY <1>6, <1>7, <3>1, <3>2, <3>3
    <2> QED
      BY <2>1, <2>2 DEF ToSet
  <1>8. \A x \in ToSet(stops) : x.id # i
    <2> SUFFICES ASSUME NEW k \in DOMAIN stops
                 PROVE  stops[k].id # i
      BY DEF ToSet
    <2>1. WaitOf(i)[stops[k]] <= Weight(stops, WaitOf(i))
      BY <1>1, <1>2, WeightOfPart
    <2>2. stops[k] \in Waiting
      BY <1>1
    <2> QED
      BY <1>5, <2>1, <2>2 DEF WaitOf
  <1> QED
    BY <1>3, <1>5, <1>7, <1>8 DEF Open, Worth, Held, InBooks

(* What a request weighs, by its stage *)
LEMMA RequestWeighs ==
  ASSUME NEW q, q \in Request, NEW i
  PROVE  /\ Coming[q] = IF q.stage \in {"limit", "check", "market"} THEN 1 ELSE 0
         /\ Asked(i)[q] = IF q.user = i /\ q.side = "buy" /\ q.stage \in {"limit", "track"}
                          THEN q.price * q.qty ELSE 0
         /\ Spent(i)[q] = IF q.user = i /\ q.side = "buy" /\ Recorder(q)
                          THEN Weight(q.trades, MoneyOf) ELSE 0
         /\ RecShares(i)[q] = IF Recorder(q) /\ q.id = i THEN Weight(q.trades, SharesOf) ELSE 0
         /\ RecMoney(i)[q] = IF Recorder(q) /\ q.id = i THEN Weight(q.trades, MoneyOf) ELSE 0
         /\ NewShares(i)[q] = IF q.stage = "track" /\ q.id = i THEN Weight(q.trades, SharesOf) ELSE 0
  BY DEF Coming, Asked, Spent, RecShares, RecMoney, NewShares

(* A request that stands for no order and no money *)
Idles(q) == q.stage \in {"idle", "remove", "update"}
LEMMA IdleWeighs ==
  ASSUME NEW q, q \in Request, Idles(q), NEW i
  PROVE  /\ Coming[q] = 0 /\ Asked(i)[q] = 0 /\ Spent(i)[q] = 0
         /\ RecShares(i)[q] = 0 /\ RecMoney(i)[q] = 0 /\ NewShares(i)[q] = 0
  BY RequestWeighs DEF Idles, Recorder

LEMMA NoRequestIs == /\ NoRequest \in Request /\ Idles(NoRequest)
                     /\ NoRequest.stage = "idle" /\ ~Placed(NoRequest) /\ ~Recorder(NoRequest)
  <1>1. <<>> \in Seq(Fill)
    OBVIOUS
  <1>2. NoRequest \in Request
    BY <1>1 DEF NoRequest, Request, Side
  <1> QED
    BY <1>2 DEF NoRequest, Idles, Placed, Recorder

LEMMA ReqChanges ==
  ASSUME TypeOK, NEW r, r \in Threads, NEW x, x \in Request, req' = [req EXCEPT ![r] = x]
  PROVE  /\ req' \in [Threads -> Request] /\ req'[r] = x
         /\ \A s \in Threads : s # r => req'[s] = req[s]
         /\ \A w \in [Request -> Nat] :
              /\ Weight(req', w) + w[req[r]] = Weight(req, w) + w[x]
              /\ Weight(req', w) \in Nat /\ Weight(req, w) \in Nat /\ w[req[r]] \in Nat /\ w[x] \in Nat
              /\ w[req[r]] <= Weight(req, w)
  <1>1. req \in [Threads -> Request] /\ req[r] \in Request
    BY DEF TypeOK
  <1>2. req' \in [Threads -> Request]
    BY <1>1
  <1>3. ASSUME NEW w, w \in [Request -> Nat]
        PROVE  /\ Weight(req', w) + w[req[r]] = Weight(req, w) + w[x]
               /\ Weight(req', w) \in Nat /\ Weight(req, w) \in Nat /\ w[req[r]] <= Weight(req, w)
    <2>1. Weight(req', w) + w[req[r]] = Weight(req, w) + w[req'[r]] /\ req'[r] = x
      <3>1. (\A y \in Threads : y # r => req'[y] = req[y]) /\ req'[r] = x
        BY <1>1
      <3> QED
        BY ONLY <1>1, <1>2, <1>3, <3>1, r \in Threads, FiniteSets, WeightChanges
    <2>2. Weight(req', w) \in Nat /\ Weight(req, w) \in Nat
      BY <1>1, <1>2, <1>3, FiniteSets, WeightOnType
    <2>3. w[req[r]] <= Weight(req, w)
      BY <1>1, <1>3, FiniteSets, PartOfWeight
    <2> QED
      BY <2>1, <2>2, <2>3
  <1> QED
    BY <1>1, <1>2, <1>3

LEMMA TodoChanges ==
  ASSUME TypeOK, NEW a, a \in Actors, NEW x, x \in Seq(Call), todo' = [todo EXCEPT ![a] = x]
  PROVE  /\ todo' \in [Actors -> Seq(Call)] /\ todo'[a] = x
         /\ \A b \in Actors : b # a => todo'[b] = todo[b]
         /\ \A w \in [Call -> Nat] :
              /\ Weight(todo', Each(w)) + Weight(todo[a], w) = Weight(todo, Each(w)) + Weight(x, w)
              /\ Weight(todo', Each(w)) \in Nat /\ Weight(todo, Each(w)) \in Nat
              /\ Weight(todo[a], w) \in Nat /\ Weight(x, w) \in Nat
              /\ Weight(todo[a], w) <= Weight(todo, Each(w))
  <1>1. todo \in [Actors -> Seq(Call)] /\ todo[a] \in Seq(Call)
    BY DEF TypeOK
  <1>2. todo' \in [Actors -> Seq(Call)]
    BY <1>1
  <1>3. ASSUME NEW w, w \in [Call -> Nat]
        PROVE  /\ Weight(todo', Each(w)) + Weight(todo[a], w) = Weight(todo, Each(w)) + Weight(x, w)
               /\ Weight(todo', Each(w)) \in Nat /\ Weight(todo, Each(w)) \in Nat
               /\ Weight(todo[a], w) \in Nat /\ Weight(x, w) \in Nat
               /\ Weight(todo[a], w) <= Weight(todo, Each(w))
    <2> DEFINE v == Each(w)
    <2>1. v \in [Seq(Call) -> Nat] /\ v[todo[a]] = Weight(todo[a], w) /\ v[x] = Weight(x, w)
      BY <1>1, <1>3, EachType
    <2>2. v[todo[a]] \in Nat /\ v[x] \in Nat
      BY <1>1, <2>1
    <2> HIDE DEF v
    <2>3. Weight(todo', v) + v[todo[a]] = Weight(todo, v) + v[todo'[a]] /\ todo'[a] = x
      <3> DEFINE C == Seq(Call)
      <3>1. (\A y \in Actors : y # a => todo'[y] = todo[y]) /\ todo'[a] = x
        BY <1>1
      <3>2. todo \in [Actors -> C] /\ todo' \in [Actors -> C] /\ v \in [C -> Nat]
        BY <1>1, <1>2, <2>1
      <3> HIDE DEF C
      <3>3. Weight(todo', v) + v[todo[a]] = Weight(todo, v) + v[todo'[a]]
        BY ONLY <3>1, <3>2, a \in Actors, FiniteSets, WeightChanges
      <3> QED
        BY ONLY <3>1, <3>3
    <2>4. Weight(todo', v) \in Nat /\ Weight(todo, v) \in Nat
      BY ONLY <1>1, <1>2, <2>1, FiniteSets, WeightOnType
    <2>5. v[todo[a]] <= Weight(todo, v)
      BY ONLY <1>1, <2>1, a \in Actors, FiniteSets, PartOfWeight
    <2>6. Weight(todo', v) + v[todo[a]] = Weight(todo, v) + v[x]
      BY <2>3
    <2> QED
      BY ONLY <2>1, <2>2, <2>4, <2>5, <2>6 DEF v
  <1> QED
    BY <1>1, <1>2, <1>3

LEMMA TrackedChanges ==
  ASSUME TypeOK, NEW i, i \in Ids, NEW x, x \in Tracked \cup {NoOrder}, tracked' = [tracked EXCEPT ![i] = x]
  PROVE  /\ tracked' \in [Ids -> Tracked \cup {NoOrder}] /\ tracked'[i] = x
         /\ \A j \in Ids : j # i => tracked'[j] = tracked[j]
         /\ \A u : /\ Weight(tracked', Reserved(u)) + Reserved(u)[tracked[i]] = Weight(tracked, Reserved(u)) + Reserved(u)[x]
                   /\ Weight(tracked', Reserved(u)) \in Nat /\ Weight(tracked, Reserved(u)) \in Nat
                   /\ Reserved(u)[tracked[i]] \in Nat /\ Reserved(u)[x] \in Nat
  <1>1. tracked \in [Ids -> Tracked \cup {NoOrder}] /\ tracked[i] \in Tracked \cup {NoOrder}
    BY DEF TypeOK
  <1>2. tracked' \in [Ids -> Tracked \cup {NoOrder}] /\ tracked'[i] = x /\ \A j \in Ids : j # i => tracked'[j] = tracked[j]
    BY <1>1
  <1>3. ASSUME NEW u
        PROVE  /\ Weight(tracked', Reserved(u)) + Reserved(u)[tracked[i]] = Weight(tracked, Reserved(u)) + Reserved(u)[x]
               /\ Weight(tracked', Reserved(u)) \in Nat /\ Weight(tracked, Reserved(u)) \in Nat
               /\ Reserved(u)[tracked[i]] \in Nat /\ Reserved(u)[x] \in Nat
    <2>1. Reserved(u) \in [Tracked \cup {NoOrder} -> Nat]
      BY RequestWeights
    <2>2. Weight(tracked', Reserved(u)) + Reserved(u)[tracked[i]]
            = Weight(tracked, Reserved(u)) + Reserved(u)[tracked'[i]]
      BY ONLY <1>1, <1>2, <2>1, i \in Ids, FiniteSets, WeightChanges
    <2>3. Weight(tracked', Reserved(u)) \in Nat /\ Weight(tracked, Reserved(u)) \in Nat
      BY <1>1, <1>2, <2>1, FiniteSets, WeightOnType
    <2> QED
      BY <1>1, <1>2, <2>1, <2>2, <2>3
  <1> QED
    BY <1>2, <1>3

LEMMA ReservedIs ==
  ASSUME NEW o, o \in Tracked \cup {NoOrder}, NEW u
  PROVE  Reserved(u)[o] = IF o # NoOrder THEN IF o.user = u THEN o.reserve ELSE 0 ELSE 0
  BY DEF Reserved

LEMMA PendingIs ==
  ASSUME NEW u, NEW c
  PROVE  /\ c.user # u => Pending(u, c) = 0
         /\ c.user = u /\ c.op = "release" => Pending(u, c) = c.amount
         /\ c.user = u /\ c.op = "limitFill" /\ c.side = "buy" => Pending(u, c) = c.price * c.qty
         /\ c.op # "release" /\ ~(c.op = "limitFill" /\ c.side = "buy") => Pending(u, c) = 0
  BY DEF Pending

(* The calls d to the portfolio manager that the fills ts of the order id of *)
(* request q lead to                                                         *)
FillsOf(d, op, q, id, ts) ==
  /\ d \in Seq(Call)
  /\ \A c \in ToSet(d) : c.op = op /\ c.id = id /\ c.user = q.user
  /\ \A i : Weight(d, Claim(i)) = IF i = id THEN Weight(ts, SharesOf) ELSE 0
  /\ \A u : Weight(d, Owed(u)) = IF op = "limitFill" /\ u = q.user /\ q.side = "buy"
                                 THEN Weight(ts, MoneyOf) ELSE 0
LEMMA FillCallsAre ==
  ASSUME NEW op, op \in {"limitFill", "marketFill"}, NEW r, req[r] \in Request, req[r].user \in Users,
         NEW id, id \in Ids, NEW ts, ts \in Seq(Fill)
  PROVE  FillsOf(FillCalls(op, r, id, ts), op, req[r], id, ts)
  <1> DEFINE C(t) == [op |-> op, user |-> req[r].user, id |-> id, side |-> req[r].side,
                      price |-> t.price, qty |-> t.qty]
             q == FillCalls(op, r, id, ts)
  <1>1. /\ \A k \in DOMAIN ts : ts[k] \in Fill
        /\ Len(ts) \in Nat /\ DOMAIN ts = 1..Len(ts)
    OBVIOUS
  <1>2. req[r].side \in Side
    BY RequestIs
  <1>3. ASSUME NEW t, t \in Fill
        PROVE  /\ C(t) \in Call
               /\ \A i : Claim(i)[C(t)] = IF i = id THEN SharesOf[t] ELSE 0
               /\ \A u : Owed(u)[C(t)] = IF op = "limitFill" /\ u = req[r].user /\ req[r].side = "buy"
                                         THEN MoneyOf[t] ELSE 0
    <2>1. t.price \in Prices /\ t.qty \in Nat \ {0}
      BY <1>3 DEF Fill
    <2>2. C(t) \in Call
      BY <1>2, <2>1 DEF Call
    <2>3. \A i : Claim(i)[C(t)] = IF i = id THEN SharesOf[t] ELSE 0
      BY <1>3, <2>2 DEF Claim, SharesOf
    <2>4. ASSUME NEW u
          PROVE  Owed(u)[C(t)] = IF op = "limitFill" /\ u = req[r].user /\ req[r].side = "buy"
                                 THEN MoneyOf[t] ELSE 0
      <3>1. Owed(u)[C(t)] = Pending(u, C(t))
        BY <2>2 DEF Owed
      <3>2. MoneyOf[t] = t.price * t.qty
        BY <1>3 DEF MoneyOf
      <3>3. Pending(u, C(t)) = IF op = "limitFill" /\ u = req[r].user /\ req[r].side = "buy"
                               THEN t.price * t.qty ELSE 0
        <4>1. /\ C(t).user = req[r].user /\ C(t).op = op /\ C(t).side = req[r].side
              /\ C(t).price * C(t).qty = t.price * t.qty /\ op # "release"
          OBVIOUS
        <4> HIDE DEF C
        <4> QED
          BY <4>1, PendingIs
      <3> QED
        BY <3>1, <3>2, <3>3
    <2> QED
      BY <2>2, <2>3, <2>4
  <1>4. q = [k \in DOMAIN ts |-> C(ts[k])]
    BY DEF FillCalls
  <1> HIDE DEF C, q
  <1>5. DOMAIN q = DOMAIN ts /\ \A k \in DOMAIN ts : q[k] = C(ts[k])
    BY <1>4
  <1>6. q \in Seq(Call)
    <2>1. q \in [1..Len(ts) -> Call]
      BY <1>1, <1>3, <1>4
    <2> QED
      BY <1>1, <2>1
  <1>7. \A c \in ToSet(q) : c.op = op /\ c.id = id /\ c.user = req[r].user
    BY <1>5 DEF ToSet, C
  <1>8. ASSUME NEW w, NEW v, \A t \in Fill : w[C(t)] = v[t]
        PROVE  Weight(q, w) = Weight(ts, v)
    <2>1. [k \in DOMAIN q |-> w[q[k]]] = [k \in DOMAIN ts |-> v[ts[k]]]
      BY <1>1, <1>5, <1>8
    <2> QED
      BY <2>1 DEF Weight
  <1>9. ASSUME NEW w, w \in [Call -> Nat], \A t \in Fill : w[C(t)] = 0
        PROVE  Weight(q, w) = 0
    <2>1. \A c \in ToSet(q) : w[c] = 0
      BY <1>1, <1>5, <1>9 DEF ToSet
    <2> QED
      BY ONLY <1>6, <1>9, <2>1, ListWeighsNothing
  <1>10. ASSUME NEW i
         PROVE  Weight(q, Claim(i)) = IF i = id THEN Weight(ts, SharesOf) ELSE 0
    <2>1. CASE i = id
      BY <1>3, <1>8, <2>1
    <2>2. CASE i # id
      BY <1>3, <1>9, <2>2, CallWeights
    <2> QED
      BY <2>1, <2>2
  <1>11. ASSUME NEW u
         PROVE  Weight(q, Owed(u)) = IF op = "limitFill" /\ u = req[r].user /\ req[r].side = "buy"
                                     THEN Weight(ts, MoneyOf) ELSE 0
    <2>1. CASE op = "limitFill" /\ u = req[r].user /\ req[r].side = "buy"
      BY <1>3, <1>8, <2>1
    <2>2. CASE ~(op = "limitFill" /\ u = req[r].user /\ req[r].side = "buy")
      <3>1. \A t \in Fill : Owed(u)[C(t)] = 0
        BY <1>3, <2>2
      <3> QED
        BY <1>9, <2>2, <3>1, CallWeights
    <2> QED
      BY <2>1, <2>2
  <1> QED
    BY <1>6, <1>7, <1>10, <1>11 DEF q, FillsOf

LEMMA ReleaseCallIs ==
  ASSUME NEW u, u \in Users, NEW amount, amount \in Nat
  PROVE  LET q == ReleaseCall(u, amount)
         IN  /\ q \in Seq(Call)
             /\ \A c \in ToSet(q) : c.op = "release" /\ c.user = u
             /\ \A i : Weight(q, Claim(i)) = 0
             /\ \A v : Weight(q, Owed(v)) = IF v = u THEN amount ELSE 0
             /\ q = <<>> \/ \E c \in Call : q = <<c>> /\ c.op = "release" /\ c.user = u /\ c.amount = amount
  <1> DEFINE c == [op |-> "release", user |-> u, amount |-> amount]
             q == ReleaseCall(u, amount)
  <1>1. c \in Call
    BY DEF Call
  <1>2. \A i : Claim(i)[c] = 0
    BY <1>1 DEF Claim
  <1>3. \A v : Owed(v)[c] = IF v = u THEN amount ELSE 0
    <2>1. c.op = "release" /\ c.user = u /\ c.amount = amount
      OBVIOUS
    <2> HIDE DEF c
    <2>2. \A v : Owed(v)[c] = Pending(v, c)
      BY <1>1 DEF Owed
    <2> QED
      BY <2>1, <2>2, PendingIs
  <1>4. CASE amount = 0
    <2>1. q = <<>>
      BY <1>4 DEF ReleaseCall
    <2>2. \A w : Weight(q, w) = 0
      BY <2>1, WeightOfEmpty
    <2>3. q \in Seq(Call) /\ ToSet(q) = {}
      BY <2>1 DEF ToSet
    <2> QED
      BY <1>4, <2>1, <2>2, <2>3
  <1>5. CASE amount > 0
    <2>1. q = <<c>> /\ q = Append(<<>>, c)
      BY <1>5 DEF ReleaseCall
    <2>2. q \in Seq(Call) /\ ToSet(q) = {c} /\ <<>> \in Seq(Call)
      BY <1>1, <2>1 DEF ToSet
    <2> HIDE DEF q, c
    <2>3. ASSUME NEW w, w \in [Call -> Nat]
          PROVE  Weight(q, w) = w[c]
      <3>1. Weight(<<>>, w) = 0 /\ w[c] \in Nat
        BY <1>1, <2>3, WeightOfEmpty
      <3>2. Weight(Append(<<>>, c), w) = Weight(<<>>, w) + w[c]
        BY <1>1, <2>2, <2>3, WeightOfAppend
      <3> QED
        BY <2>1, <3>1, <3>2
    <2>4. \A i : Weight(q, Claim(i)) = 0
      BY <1>2, <2>3, CallWeights
    <2>5. \A v : Weight(q, Owed(v)) = IF v = u THEN amount ELSE 0
      BY <1>3, <2>3, CallWeights
    <2>6. c.op = "release" /\ c.user = u /\ c.amount = amount
      BY DEF c
    <2> QED
      BY <1>1, <2>1, <2>2, <2>4, <2>5, <2>6 DEF q
  <1> QED
    BY <1>4, <1>5

LEMMA NoCalls ==
  /\ <<>> \in Seq(Call) /\ \A c \in ToSet(<<>>) : FALSE
  /\ \A w : Weight(<<>>, w) = 0
  BY WeightOfEmpty DEF ToSet

(* The escrow of a user as sums of weights *)
EscrowSplits ==
  \A u \in Users :
    Escrow(u) = Weight(tracked, Reserved(u)) + Weight(req, Asked(u)) - Weight(req, Spent(u))
                  + Weight(todo, Each(Owed(u)))
LEMMA EscrowIs == TypeOK => EscrowSplits
  <1> SUFFICES ASSUME TypeOK, NEW u \in Users
               PROVE  Escrow(u) = Weight(tracked, Reserved(u)) + Weight(req, Asked(u))
                                    - Weight(req, Spent(u)) + Weight(todo, Each(Owed(u)))
    BY DEF EscrowSplits
  <1>1. /\ tracked \in [Ids -> Tracked \cup {NoOrder}] /\ req \in [Threads -> Request]
        /\ todo \in [Actors -> Seq(Call)]
    BY DEF TypeOK
  <1>2. [i \in Ids |-> IF Of(u, i) THEN tracked[i].reserve ELSE 0] = [i \in DOMAIN tracked |-> Reserved(u)[tracked[i]]]
    <2>1. \A i \in Ids : Reserved(u)[tracked[i]] = IF Of(u, i) THEN tracked[i].reserve ELSE 0
      BY <1>1, ReservedIs DEF Of
    <2> QED
      BY <1>1, <2>1
  <1>3. [r \in Threads |-> IF Holds(u, r) /\ req[r].stage \in {"limit", "track"}
                           THEN req[r].price * req[r].qty ELSE 0]
          = [r \in DOMAIN req |-> Asked(u)[req[r]]]
    <2>1. \A r \in Threads : Asked(u)[req[r]] = IF Holds(u, r) /\ req[r].stage \in {"limit", "track"}
                                                THEN req[r].price * req[r].qty ELSE 0
      BY <1>1, RequestWeighs DEF Holds
    <2> QED
      BY <1>1, <2>1
  <1>4. [r \in Threads |-> IF Holds(u, r) /\ req[r].stage \in {"record", "recording"}
                           THEN Cost(req[r].trades) ELSE 0]
          = [r \in DOMAIN req |-> Spent(u)[req[r]]]
    <2>1. ASSUME NEW r \in Threads
          PROVE  Spent(u)[req[r]] = IF Holds(u, r) /\ req[r].stage \in {"record", "recording"}
                                    THEN Cost(req[r].trades) ELSE 0
      <3>1. req[r] \in Request /\ req[r].trades \in Seq(Fill)
        BY <1>1, RequestIs
      <3>2. Cost(req[r].trades) = Weight(req[r].trades, MoneyOf)
        BY <3>1, CostIs
      <3>3. Spent(u)[req[r]] = IF req[r].user = u /\ req[r].side = "buy" /\ Recorder(req[r])
                               THEN Weight(req[r].trades, MoneyOf) ELSE 0
        BY <3>1, RequestWeighs
      <3> QED
        BY <3>2, <3>3 DEF Holds, Recorder
    <2> QED
      BY <1>1, <2>1
  <1>5. [a \in Actors |-> Total([k \in DOMAIN todo[a] |-> Pending(u, todo[a][k])])]
          = [a \in DOMAIN todo |-> Each(Owed(u))[todo[a]]]
    <2>1. ASSUME NEW a \in Actors
          PROVE  Each(Owed(u))[todo[a]] = Total([k \in DOMAIN todo[a] |-> Pending(u, todo[a][k])])
      <3> DEFINE q == todo[a]
      <3>1. q \in Seq(Call) /\ \A k \in DOMAIN q : q[k] \in Call
        BY <1>1
      <3>2. Each(Owed(u))[q] = Weight(q, Owed(u))
        BY <3>1, CallWeights, EachType
      <3>3. [k \in DOMAIN q |-> Owed(u)[q[k]]] = [k \in DOMAIN q |-> Pending(u, q[k])]
        BY <3>1 DEF Owed
      <3> QED
        BY <3>2, <3>3 DEF Weight
    <2> QED
      BY <1>1, <2>1
  <1> QED
    BY <1>2, <1>3, <1>4, <1>5 DEF Escrow, Weight

Numbers ==
  \A i : /\ Here(i) \in Nat /\ Open(i) \in Nat /\ Worth(i) \in Nat /\ Made(i) \in Nat /\ Revenue(i) \in Nat
         /\ Claims(i) \in Nat /\ Weight(todo, Each(Owed(i))) \in Nat
         /\ Weight(req, Coming) \in Nat /\ Weight(req, Asked(i)) \in Nat /\ Weight(req, Spent(i)) \in Nat
         /\ Weight(req, RecShares(i)) \in Nat /\ Weight(req, RecMoney(i)) \in Nat
         /\ Weight(req, NewShares(i)) \in Nat /\ Weight(tracked, Reserved(i)) \in Nat
LEMMA NumbersNow == TypeOK => Numbers
  BY NumbersAreNat DEF Numbers
LEMMA NumbersNext == TypeOK' => Numbers'
  BY NumbersNow, PTL

-----------------------------------------------------------------------------
(* What a call of the engine does to the books, in the sums of the invariant *)
EngineDoes(e, id, s, p, n) ==
  /\ e.book \in [Side -> Seq(Resting)] /\ e.stops \in Seq(Waiting) /\ e.trades \in Seq(Fill)
  /\ \A i : InBooks(e.book, OneOf(i)) + Weight(e.stops, WaitOf(i)) <= Here(i) + (IF i = id THEN 1 ELSE 0)
  /\ \A x \in ToSet(e.stops) : x \in ToSet(stops)
  /\ \A o \in Held(e.book) : \/ \E x \in Held(book) : x.id = o.id /\ x.side = o.side
                             \/ o.id = id /\ o.side = s /\ p # 0
                             \/ \E x \in ToSet(stops) : x.id = o.id
  /\ \A i : i # id /\ (\A x \in ToSet(stops) : x.id # i) =>
        /\ InBooks(e.book, OpenOf(i)) + Weight(e.trades, MadeBy(i)) = Open(i)
        /\ InBooks(e.book, WorthOf(i)) + Weight(e.trades, MadeFor(i)) = Worth(i)
  /\ Weight(e.trades, TakenBy(id)) + InBooks(e.book, OpenOf(id)) <= n
  /\ s = "buy" /\ p # 0 => Weight(e.trades, TakenFor(id)) + InBooks(e.book, WorthOf(id)) <= p * n
LEMMA TakenDoes ==
  ASSUME TypeOK, NEW id, id \in Ids \cup Quotes, NEW s, s \in Side, NEW p, p \in Prices \cup {0},
         NEW n, n \in Nat, n > 0, Here(id) = 0
  PROVE  EngineDoes(Taken(id, s, p, n), id, s, p, n)
  <1> DEFINE c == Called(stops, id, s, p, n)
             e == Executed(c)
  <1>1. Open(id) = 0 /\ Worth(id) = 0 /\ \A x \in ToSet(stops) : x.id # id
    BY HereIs
  <1>2. /\ c.book = book /\ c.stops = stops /\ c.trades = <<>> /\ c.id = id /\ c.side = s /\ c.limit = p /\ c.left = n
    BY DEF Called
  <1>3. c \in Engine
    BY DEF Called, Engine, TypeOK
  <1>4. Call0(c)
    BY <1>1, <1>2, <1>3 DEF Call0, StopIds
  <1> HIDE DEF c
  <1>5. Good(c, e)
    BY <1>4, ExecutedIsGood
  <1> HIDE DEF e
  <1>6. e \in Engine /\ e.left \in Nat /\ e.limit \in Nat /\ p \in Nat
    <2>1. e \in Engine
      BY <1>5 DEF Good, Shape
    <2> QED
      BY <2>1, EngineTypes, PricesAreNat
  <1>7. e.book \in [Side -> Seq(Resting)] /\ e.stops \in Seq(Waiting) /\ e.trades \in Seq(Fill)
    BY <1>6, EngineTypes
  <1>8. ASSUME NEW i
        PROVE  /\ InBooks(e.book, OneOf(i)) \in Nat /\ InBooks(e.book, OpenOf(i)) \in Nat
               /\ InBooks(e.book, WorthOf(i)) \in Nat /\ Weight(e.stops, WaitOf(i)) \in Nat
               /\ Weight(e.trades, TakenBy(i)) \in Nat /\ Weight(e.trades, TakenFor(i)) \in Nat
               /\ Here(i) \in Nat
    BY <1>6, BooksAreNat, NumbersAreNat
  <1>9. ASSUME NEW i
        PROVE  InBooks(e.book, OneOf(i)) + Weight(e.stops, WaitOf(i)) <= Here(i) + (IF i = id THEN 1 ELSE 0)
    <2>1. Places(e, i) <= Places(c, i)
      BY <1>5 DEF Good, Fewer
    <2>2. Places(c, i) = Here(i) + (IF i = id THEN 1 ELSE 0)
      BY <1>2 DEF Places, Here
    <2>3. Places(e, i) = InBooks(e.book, OneOf(i)) + Weight(e.stops, WaitOf(i))
                           + (IF e.id = i /\ e.left > 0 THEN 1 ELSE 0)
      BY DEF Places
    <2> QED
      BY ONLY <1>8, <2>1, <2>2, <2>3
  <1>10. \A x \in ToSet(e.stops) : x \in ToSet(stops)
    BY <1>2, <1>5 DEF Good, Shape
  <1>11. \A o \in Held(e.book) : \/ \E x \in Held(book) : x.id = o.id /\ x.side = o.side
                                 \/ o.id = id /\ o.side = s /\ p # 0
                                 \/ \E x \in ToSet(stops) : x.id = o.id
    <2> SUFFICES ASSUME NEW o \in Held(e.book)
                 PROVE  \/ \E x \in Held(book) : x.id = o.id /\ x.side = o.side
                        \/ o.id = id /\ o.side = s /\ p # 0
                        \/ \E x \in ToSet(stops) : x.id = o.id
      OBVIOUS
    <2>1. \/ \E x \in Held(c.book) : x.id = o.id /\ x.side = o.side
          \/ o.id = c.id /\ o.side = c.side /\ c.limit # 0
          \/ o.id \in StopIds(c)
      BY <1>5 DEF Good, Shape
    <2> QED
      BY <1>2, <2>1 DEF StopIds
  <1>12. ASSUME NEW i, i # id, \A x \in ToSet(stops) : x.id # i
         PROVE  /\ InBooks(e.book, OpenOf(i)) + Weight(e.trades, MadeBy(i)) = Open(i)
                /\ InBooks(e.book, WorthOf(i)) + Weight(e.trades, MadeFor(i)) = Worth(i)
    <2>1. i # c.id /\ i \notin StopIds(c)
      BY <1>2, <1>12 DEF StopIds
    <2>2. /\ InBooks(e.book, OpenOf(i)) + Weight(e.trades, MadeBy(i)) = InBooks(c.book, OpenOf(i))
          /\ InBooks(e.book, WorthOf(i)) + Weight(e.trades, MadeFor(i)) = InBooks(c.book, WorthOf(i))
      BY <1>5, <2>1 DEF Good, Kept
    <2> QED
      BY <1>2, <2>2 DEF Open, Worth
  <1>13. Weight(e.trades, TakenBy(id)) + InBooks(e.book, OpenOf(id)) <= n
    <2>1. Weight(e.trades, TakenBy(c.id)) + InBooks(e.book, OpenOf(c.id)) + (IF e.id = c.id THEN e.left ELSE 0)
            <= c.left + InBooks(c.book, OpenOf(c.id))
      BY <1>5 DEF Good, Own
    <2>2. Weight(e.trades, TakenBy(id)) + InBooks(e.book, OpenOf(id)) + (IF e.id = id THEN e.left ELSE 0) <= n + Open(id)
      BY <1>2, <2>1 DEF Open
    <2> QED
      BY ONLY <1>1, <1>6, <1>8, <2>2, n \in Nat
  <1>14. ASSUME s = "buy", p # 0
         PROVE  Weight(e.trades, TakenFor(id)) + InBooks(e.book, WorthOf(id)) <= p * n
    <2>1. Weight(e.trades, TakenFor(c.id)) + InBooks(e.book, WorthOf(c.id)) + (IF e.id = c.id THEN c.limit * e.left ELSE 0)
            <= c.limit * c.left + InBooks(c.book, WorthOf(c.id))
      BY <1>2, <1>5, <1>14 DEF Good, Own
    <2>2. Weight(e.trades, TakenFor(id)) + InBooks(e.book, WorthOf(id)) + (IF e.id = id THEN p * e.left ELSE 0)
            <= p * n + Worth(id)
      BY <1>2, <2>1 DEF Worth
    <2>3. p * n \in Nat /\ p * e.left \in Nat
      BY <1>6, ProductType
    <2> DEFINE a == p * n
               b == p * e.left
    <2> HIDE DEF a, b
    <2>4. Weight(e.trades, TakenFor(id)) + InBooks(e.book, WorthOf(id)) + (IF e.id = id THEN b ELSE 0) <= a + Worth(id)
      BY <2>2 DEF a, b
    <2>5. a \in Nat /\ b \in Nat
      BY <2>3 DEF a, b
    <2>6. Weight(e.trades, TakenFor(id)) + InBooks(e.book, WorthOf(id)) <= a
      BY ONLY <1>1, <1>8, <2>4, <2>5
    <2> QED
      BY <2>6 DEF a
  <1>15. EngineDoes(e, id, s, p, n)
    BY <1>7, <1>9, <1>10, <1>11, <1>12, <1>13, <1>14 DEF EngineDoes
  <1> QED
    BY <1>15 DEF Taken, e, c

(* The book after a cancel *)
LEMMA WithoutIs ==
  ASSUME TypeOK, NEW id
  PROVE  /\ Without(id) \in [Side -> Seq(Resting)]
         /\ \A w \in [Resting -> Nat] : /\ InBooks(Without(id), w) \in Nat
                                        /\ InBooks(Without(id), w) <= InBooks(book, w)
         /\ \A o \in Held(Without(id)) : o \in Held(book)
         /\ InBook(id) => InBooks(Without(id), OneOf(id)) < InBooks(book, OneOf(id))
  <1> DEFINE b == Without(id)
  <1>1. book \in [Side -> Seq(Resting)]
    BY DEF TypeOK
  <1>2. ASSUME NEW s, s \in Side
        PROVE  /\ b[s] \in Seq(Resting)
               /\ \A o \in ToSet(b[s]) : o \in ToSet(book[s])
               /\ \A w \in [Resting -> Nat] :
                    Weight(b[s], w) \in Nat /\ Weight(book[s], w) \in Nat /\ Weight(b[s], w) <= Weight(book[s], w)
               /\ (\E o \in ToSet(book[s]) : o.id = id) => Weight(b[s], OneOf(id)) < Weight(book[s], OneOf(id))
    <2> DEFINE q  == book[s]
               at == {k \in DOMAIN q : q[k].id = id}
               k  == Min(at)
    <2>1. q \in Seq(Resting)
      BY <1>1, <1>2
    <2>2. b[s] = IF at = {} THEN q ELSE RemoveAt(q, k)
      BY <1>2 DEF Without
    <2>3. \A w \in [Resting -> Nat] : Weight(q, w) \in Nat
      BY <2>1, WeightType
    <2>4. CASE at = {}
      <3>1. b[s] = q
        BY <2>2, <2>4
      <3>2. ~\E o \in ToSet(book[s]) : o.id = id
        BY <2>4 DEF ToSet
      <3> HIDE DEF b, q
      <3> QED
        BY <2>1, <2>3, <3>1, <3>2 DEF q
    <2>5. CASE at # {}
      <3>1. at \in SUBSET Nat
        BY <2>1
      <3> HIDE DEF at
      <3>2. k \in at
        BY <2>5, <3>1, LeastNumber
      <3>3. k \in DOMAIN q /\ q[k].id = id
        BY <3>2 DEF at
      <3> HIDE DEF k
      <3>4. b[s] = RemoveAt(q, k)
        BY <2>2, <2>5
      <3> HIDE DEF b, q
      <3>5. b[s] \in Seq(Resting)
        BY <2>1, <3>3, <3>4, RemoveAtIs
      <3>6. \A o \in ToSet(b[s]) : o \in ToSet(q)
        BY <2>1, <3>3, <3>4, RemoveAtHolds
      <3>7. q[k] \in Resting
        BY <2>1, <3>3
      <3>8. ASSUME NEW w, w \in [Resting -> Nat]
            PROVE  Weight(q, w) = Weight(b[s], w) + w[q[k]] /\ w[q[k]] \in Nat /\ Weight(b[s], w) \in Nat
        <4>1. Weight(q, w) = Weight(RemoveAt(q, k), w) + w[q[k]]
          BY ONLY <2>1, <3>3, <3>8, WeightOfRemove
        <4>2. Weight(b[s], w) \in Nat
          BY <3>5, <3>8, WeightType
        <4> QED
          BY <3>4, <3>7, <3>8, <4>1, <4>2
      <3>9. \A w \in [Resting -> Nat] :
               Weight(b[s], w) \in Nat /\ Weight(q, w) \in Nat /\ Weight(b[s], w) <= Weight(q, w)
        BY <3>8
      <3>10. Weight(b[s], OneOf(id)) < Weight(q, OneOf(id))
        <4>1. OneOf(id)[q[k]] = 1 /\ OneOf(id) \in [Resting -> Nat]
          BY <3>3, <3>7, WeightsAre DEF OneOf
        <4>2. Weight(q, OneOf(id)) = Weight(b[s], OneOf(id)) + OneOf(id)[q[k]] /\ Weight(b[s], OneOf(id)) \in Nat
          BY <3>8, <4>1
        <4> QED
          BY <4>1, <4>2
      <3> QED
        BY <3>5, <3>6, <3>9, <3>10 DEF q
    <2> QED
      BY <2>4, <2>5
  <1>3. b \in [Side -> Seq(Resting)]
    <2>1. b = [s \in Side |-> b[s]]
      BY DEF Without
    <2> HIDE DEF b
    <2> QED
      BY <1>2, <2>1
  <1> HIDE DEF b
  <1>4. "buy" \in Side /\ "sell" \in Side
    BY DEF Side
  <1>5. ASSUME NEW w, w \in [Resting -> Nat]
        PROVE  InBooks(b, w) \in Nat /\ InBooks(b, w) <= InBooks(book, w)
    BY <1>2, <1>4, <1>5, SMTT(30) DEF InBooks
  <1>6. \A o \in Held(b) : o \in Held(book)
    BY <1>2, <1>4 DEF Held
  <1>7. ASSUME InBook(id)
        PROVE  InBooks(b, OneOf(id)) < InBooks(book, OneOf(id))
    <2>1. (\E o \in ToSet(book["buy"]) : o.id = id) \/ (\E o \in ToSet(book["sell"]) : o.id = id)
      BY <1>7 DEF InBook, Orders
    <2>2. OneOf(id) \in [Resting -> Nat]
      BY WeightsAre
    <2>3. ASSUME NEW s, s \in Side
          PROVE  /\ Weight(b[s], OneOf(id)) \in Nat /\ Weight(book[s], OneOf(id)) \in Nat
                 /\ Weight(b[s], OneOf(id)) <= Weight(book[s], OneOf(id))
      BY <1>2, <2>2, <2>3
    <2>4. \/ Weight(b["buy"], OneOf(id)) < Weight(book["buy"], OneOf(id))
          \/ Weight(b["sell"], OneOf(id)) < Weight(book["sell"], OneOf(id))
      BY <1>2, <1>4, <2>1
    <2> QED
      BY <1>4, <2>3, <2>4 DEF InBooks
  <1> QED
    BY <1>3, <1>5, <1>6, <1>7 DEF b

-----------------------------------------------------------------------------
(* What the steps have in common *)

(* Ids are handed out, an owner stays, no oddity is forgotten, and an order  *)
(* that has no place does not get one.                                       *)
Grows == /\ nextId <= nextId' /\ nextId' \in Nat
         /\ \A i \in Ids : i < nextId => owner'[i] = owner[i] /\ (Here(i) = 0 => Here(i)' = 0)
         /\ \A i \in Ids \cup Quotes : odd[i] \subseteq odd'[i]

(* The books, the ids and what is known of the orders stay as they are. *)
Still == UNCHANGED <<book, stops, nextId, nextQuote, traded, owner, odd, restarts, before>>

LEMMA IdsAreNat ==
  ASSUME TypeOK
  PROVE  nextId \in Nat /\ Ids \subseteq Nat /\ Quotes \subseteq Nat /\ MaxRequests \in Nat /\ requests \in Nat
         /\ nextId <= MaxRequests + 1
  BY OrderFlowConstants DEF TypeOK, Ids, Quotes

LEMMA StillIs ==
  ASSUME TypeOK, Still
  PROVE  /\ Grows /\ Held(book)' = Held(book)
         /\ \A i : Here(i)' = Here(i) /\ Open(i)' = Open(i) /\ Worth(i)' = Worth(i)
  <1>1. \A i : Here(i)' = Here(i) /\ Open(i)' = Open(i) /\ Worth(i)' = Worth(i)
    BY DEF Still, Here, Open, Worth
  <1>2. Held(book)' = Held(book)
    BY DEF Still
  <1>3. nextId' = nextId /\ owner' = owner /\ odd' = odd
    BY DEF Still
  <1>4. nextId \in Nat
    BY IdsAreNat
  <1> QED
    BY <1>1, <1>2, <1>3, <1>4 DEF Grows

LEMMA RequestKept ==
  ASSUME TypeOK, Grows, NEW q, q \in Request, RequestOK(q)
  PROVE  RequestOK(q)'
  <1>1. q.id \in Ids \cup Quotes \cup {0} /\ nextId \in Nat /\ nextId' \in Nat /\ nextId <= nextId' /\ Ids \subseteq Nat
    BY RequestIs, IdsAreNat DEF Grows
  <1>2. \A i \in Ids : i < nextId => i < nextId' /\ owner'[i] = owner[i] /\ (Here(i) = 0 => Here(i)' = 0)
    <2>1. \A i \in Ids : i < nextId => i < nextId'
      BY <1>1
    <2> QED
      BY <2>1 DEF Grows
  <1>3. q.id \in Ids => odd[q.id] \subseteq odd'[q.id]
    BY DEF Grows
  <1> QED
    BY <1>2, <1>3 DEF RequestOK

LEMMA RequestsStay ==
  ASSUME TypeOK, RequestsOK, Grows, \A r \in Threads : req'[r] = req[r] \/ (RequestOK(req[r]))'
  PROVE  RequestsOK'
  <1> SUFFICES ASSUME NEW r, r \in Threads
               PROVE  RequestOK(req[r])'
    BY DEF RequestsOK
  <1>1. CASE req'[r] = req[r]
    <2>1. req[r] \in Request /\ RequestOK(req[r])
      BY DEF TypeOK, RequestsOK
    <2>2. PICK q : q = req[r]
      OBVIOUS
    <2>3. RequestOK(q)'
      BY <2>1, <2>2, RequestKept
    <2> QED
      BY <1>1, <2>2, <2>3 DEF RequestOK
  <1> QED
    BY <1>1

LEMMA CallKept ==
  ASSUME TypeOK, Grows, NEW c, c \in Call, CallOK(c)
  PROVE  CallOK(c)'
  <1>1. nextId \in Nat /\ nextId' \in Nat /\ nextId <= nextId' /\ Ids \subseteq Nat
    BY IdsAreNat DEF Grows
  <1>2. c.op # "release" => c.id \in Ids
    BY CallIs
  <1>3. \A i \in Ids : i < nextId => i < nextId' /\ owner'[i] = owner[i]
    <2>1. \A i \in Ids : i < nextId => i < nextId'
      BY <1>1
    <2> QED
      BY <2>1 DEF Grows
  <1> QED
    BY <1>2, <1>3 DEF CallOK

LEMMA CallsStay ==
  ASSUME TypeOK, CallsOK, Grows,
         \A a \in Actors : \A c \in ToSet(todo'[a]) : c \in ToSet(todo[a]) \/ CallOK(c)'
  PROVE  CallsOK'
  <1>1. ASSUME NEW a, a \in Actors, NEW c, c \in ToSet(todo'[a])
        PROVE  CallOK(c)'
    <2>1. CASE c \in ToSet(todo[a])
      <3>1. c \in Call
        BY <1>1, <2>1 DEF TypeOK, ToSet
      <3>2. CallOK(c)
        BY <1>1, <2>1 DEF CallsOK
      <3> QED
        BY <3>1, <3>2, CallKept
    <2> QED
      BY <1>1, <2>1
  <1> QED
    BY <1>1 DEF CallsOK

(* An order that has a place, or that a goroutine works on, has an id.       *)
LEMMA HeldIds ==
  ASSUME TypeOK, Unused, NEW i, i \in Ids, Here(i) # 0
  PROVE  i < nextId
  BY IdsAreNat DEF Unused, UnusedId

(* Nothing is to be credited or recorded of an order without an id. *)
LEMMA NothingOfUnused ==
  ASSUME TypeOK, RequestsOK, CallsOK, NEW i, i \in Ids, i >= nextId
  PROVE  Claims(i) = 0 /\ Weight(req, NewShares(i)) = 0
  <1>1. nextId \in Nat /\ i \in Nat
    BY IdsAreNat
  <1>2. Claims(i) = 0
    <2>1. ASSUME NEW a, a \in Actors
          PROVE  Each(Claim(i))[todo[a]] = 0
      <3>1. todo[a] \in Seq(Call)
        BY <2>1 DEF TypeOK
      <3>2. ASSUME NEW c, c \in ToSet(todo[a])
            PROVE  Claim(i)[c] = 0
        <4>1. c \in Call
          BY <3>1, <3>2 DEF ToSet
        <4>2. c.op # "release" => c.id < nextId
          BY <2>1, <3>2 DEF CallsOK, CallOK
        <4>3. c.op # "release" => c.id # i
          BY <1>1, <4>2
        <4> QED
          BY <4>1, <4>3 DEF Claim
      <3>3. Claim(i) \in [Call -> Nat]
        BY CallWeights
      <3>4. Weight(todo[a], Claim(i)) = 0
        BY ONLY <3>1, <3>2, <3>3, ListWeighsNothing
      <3> QED
        BY <3>1, <3>3, <3>4, EachType
    <2>2. Each(Claim(i)) \in [Seq(Call) -> Nat]
      BY CallWeights, EachType
    <2> DEFINE C == Seq(Call)
    <2>3. todo \in [Actors -> C] /\ Each(Claim(i)) \in [C -> Nat]
      BY <2>2 DEF TypeOK
    <2> HIDE DEF C
    <2>4. Weight(todo, Each(Claim(i))) = 0
      BY ONLY <2>1, <2>3, NothingWeighs
    <2> QED
      BY <2>4 DEF Claims
  <1>3. Weight(req, NewShares(i)) = 0
    <2>1. ASSUME NEW r, r \in Threads
          PROVE  NewShares(i)[req[r]] = 0
      <3>1. req[r] \in Request
        BY <2>1 DEF TypeOK
      <3>2. req[r].stage = "track" => req[r].id < nextId
        BY <2>1 DEF RequestsOK, RequestOK, Placed
      <3>3. req[r].stage = "track" => req[r].id # i
        BY <1>1, <3>2
      <3> QED
        BY <3>1, <3>3, RequestWeighs
    <2>2. req \in [Threads -> Request] /\ NewShares(i) \in [Request -> Nat]
      BY RequestWeights DEF TypeOK
    <2> QED
      BY ONLY <2>1, <2>2, NothingWeighs
  <1> QED
    BY <1>2, <1>3

(* A step that leaves the books as they are keeps what is known of them. *)
LEMMA StillKeeps ==
  ASSUME TypeOK, Unused, StopsUnowned, OnePlace, Still,
         \A i \in Ids : i >= nextId => tracked'[i] = tracked[i] /\ settled'[i] = settled[i]
  PROVE  Unused' /\ StopsUnowned' /\ OnePlace'
  <1>1. /\ \A i : Here(i)' = Here(i)
        /\ stops' = stops /\ owner' = owner /\ odd' = odd /\ nextId' = nextId /\ nextQuote' = nextQuote
    BY StillIs DEF Still
  <1>2. Unused'
    BY <1>1 DEF Unused, UnusedId
  <1>3. StopsUnowned'
    BY <1>1 DEF StopsUnowned
  <1>4. OnePlace'
    BY <1>1 DEF OnePlace
  <1> QED
    BY <1>2, <1>3, <1>4

LEMMA AccountedIsNat ==
  ASSUME TypeOK, NEW i, i \in Ids
  PROVE  /\ Accounted(i) = settled[i] + Claims(i) + Weight(req, NewShares(i)) + Made(i)
         /\ Accounted(i) \in Nat /\ settled[i] \in Nat /\ Claims(i) \in Nat
         /\ Weight(req, NewShares(i)) \in Nat /\ Made(i) \in Nat /\ traded[i] \in Nat
  <1>1. Claims(i) \in Nat /\ Weight(req, NewShares(i)) \in Nat /\ Made(i) \in Nat
    BY NumbersAreNat
  <1>2. settled[i] \in Nat /\ traded[i] \in Nat
    BY SettledIs DEF TypeOK
  <1> QED
    BY <1>1, <1>2 DEF Accounted

LEMMA StillTraded ==
  ASSUME TypeOK, ClaimsTraded, Still, \A i \in Ids : Accounted(i)' \in Nat /\ Accounted(i)' <= Accounted(i)
  PROVE  ClaimsTraded'
  <1> SUFFICES ASSUME NEW i \in Ids, "fired" \notin odd'[i]
               PROVE  Accounted(i)' <= traded'[i]
    BY DEF ClaimsTraded
  <1>1. odd' = odd /\ traded' = traded
    BY DEF Still
  <1>2. Accounted(i) <= traded[i] /\ Accounted(i) \in Nat /\ traded[i] \in Nat
    BY <1>1, AccountedIsNat DEF ClaimsTraded
  <1>3. Accounted(i)' \in Nat /\ Accounted(i)' <= Accounted(i)
    OBVIOUS
  <1> QED
    BY <1>1, <1>2, <1>3

(* A step of a handler that has no order in the engine yet, or none any more *)
Passes(r, x) ==
  /\ Still /\ UNCHANGED <<tracked, shares, gen, todo, credited, missed, settled>>
  /\ loaded' \subseteq Users
  /\ req' = [req EXCEPT ![r] = x]
  /\ cash' \in [Users -> Cash]
  /\ requests' \in 0..MaxRequests

LEMMA PassesKeepsBase ==
  ASSUME BaseInv, NEW r, r \in Threads, NEW x, x \in Request, Passes(r, x),
         RequestOK(x)', Coming[x] + requests <= Coming[req[r]] + requests', x.stage # "track"
  PROVE  BaseInv'
  <1>1. TypeOK /\ Still /\ UNCHANGED <<tracked, shares, gen, todo, credited, missed, settled>>
    BY DEF BaseInv, Passes
  <1>2. TypeOK'
    BY <1>1 DEF TypeOK, Passes, Still
  <1>3. /\ req' \in [Threads -> Request] /\ req'[r] = x
        /\ \A s \in Threads : s # r => req'[s] = req[s]
        /\ \A w \in [Request -> Nat] :
              /\ Weight(req', w) + w[req[r]] = Weight(req, w) + w[x]
              /\ Weight(req', w) \in Nat /\ Weight(req, w) \in Nat /\ w[req[r]] \in Nat /\ w[x] \in Nat
    BY <1>1, ReqChanges, ZenonT(30) DEF Passes
  <1>4. Grows
    BY <1>1, StillIs
  <1>5. RequestsOK'
    <2>1. (RequestOK(req[r]))'
      BY <1>3 DEF RequestOK
    <2>2. \A s \in Threads : req'[s] = req[s] \/ (RequestOK(req[s]))'
      BY <1>3, <2>1
    <2> QED
      BY <1>1, <1>4, <2>2, RequestsStay DEF BaseInv
  <1>6. TickOK'
    BY <1>1 DEF BaseInv, TickOK
  <1>7. Counted'
    <2>1. Coming \in [Request -> Nat]
      BY RequestWeights
    <2>2. /\ Weight(req', Coming) + Coming[req[r]] = Weight(req, Coming) + Coming[x]
          /\ Weight(req', Coming) \in Nat /\ Weight(req, Coming) \in Nat
          /\ Coming[req[r]] \in Nat /\ Coming[x] \in Nat
      BY <1>3, <2>1
    <2>3. nextId' = nextId /\ nextId \in Nat /\ requests \in Nat /\ requests' \in Nat
      BY <1>1, IdsAreNat DEF Still, Passes
    <2>4. Weight(req, Coming) + nextId - 1 <= requests
      BY DEF BaseInv, Counted
    <2>5. Weight(req', Coming) + nextId' - 1 <= requests'
      BY ONLY <2>2, <2>3, <2>4, Coming[x] + requests <= Coming[req[r]] + requests'
    <2> QED
      BY <2>5 DEF Counted
  <1>8. Unused' /\ StopsUnowned' /\ OnePlace'
    BY <1>1, StillKeeps DEF BaseInv
  <1>9. CallsOK'
    BY <1>1, <1>4, CallsStay DEF BaseInv
  <1>10. OwnersKnown'
    BY <1>1 DEF BaseInv, OwnersKnown, Still
  <1>11. ClaimsTraded'
    <2>1. ASSUME NEW i, i \in Ids
          PROVE  Accounted(i)' \in Nat /\ Accounted(i)' <= Accounted(i)
      <3>1. settled'[i] = settled[i] /\ Claims(i)' = Claims(i) /\ Made(i)' = Made(i)
        BY <1>1 DEF Claims, Made
      <3>2. NewShares(i) \in [Request -> Nat] /\ NewShares(i)[x] = 0
        BY RequestWeights, RequestWeighs
      <3>3. /\ Weight(req', NewShares(i)) + NewShares(i)[req[r]] = Weight(req, NewShares(i)) + NewShares(i)[x]
            /\ Weight(req', NewShares(i)) \in Nat /\ NewShares(i)[req[r]] \in Nat
        BY <1>3, <3>2
      <3>4. /\ Accounted(i) = settled[i] + Claims(i) + Weight(req, NewShares(i)) + Made(i)
            /\ settled[i] \in Nat /\ Claims(i) \in Nat /\ Weight(req, NewShares(i)) \in Nat /\ Made(i) \in Nat
        BY <1>1, <2>1, AccountedIsNat
      <3>5. Accounted(i)' = settled'[i] + Claims(i)' + Weight(req', NewShares(i)) + Made(i)'
        BY DEF Accounted
      <3> QED
        BY ONLY <3>1, <3>2, <3>3, <3>4, <3>5
    <2> QED
      BY <1>1, <2>1, StillTraded DEF BaseInv
  <1> QED
    BY <1>2, <1>5, <1>6, <1>7, <1>8, <1>9, <1>10, <1>11 DEF BaseInv

(* What a call to the portfolio manager does to the cash of a user *)
LEMMA CashIs ==
  ASSUME NEW c, c \in Cash, NEW a, a \in Nat
  PROVE  /\ c.total \in Int /\ c.available \in Int /\ c.blocked \in Nat /\ Missing(c) \in Int
         /\ Reserve(c, a) \in Cash /\ Reserve(c, a).blocked = c.blocked + a /\ Missing(Reserve(c, a)) = Missing(c)
         /\ Sell(c, a) \in Cash /\ Sell(c, a).blocked = c.blocked /\ Missing(Sell(c, a)) = Missing(c)
         /\ MarketBuy(c, a) \in Cash /\ MarketBuy(c, a).blocked = c.blocked /\ Missing(MarketBuy(c, a)) = Missing(c)
         /\ Release(c, a) \in Cash /\ Missing(Release(c, a)) = Missing(c)
         /\ LimitBuy(c, a) \in Cash
         /\ a <= c.blocked => /\ Release(c, a).blocked = c.blocked - a
                              /\ LimitBuy(c, a).blocked = c.blocked - a
                              /\ Missing(LimitBuy(c, a)) = Missing(c)
  <1>1. c.total \in Int /\ c.available \in Int /\ c.blocked \in Nat /\ a \in Int
    BY DEF Cash
  <1>2. c = [total |-> c.total, available |-> c.available, blocked |-> c.blocked]
    BY DEF Cash
  <1>3. PICK t \in Int, v \in Int, b \in Nat : c = [total |-> t, available |-> v, blocked |-> b]
    BY <1>1, <1>2
  <1> DEFINE m == Min({a, b})
  <1>4. m \in {a, b} /\ m <= a /\ m <= b /\ m = IF a <= b THEN a ELSE b
    BY <1>1, MinIs
  <1>5. b - m \in Nat /\ m \in Nat
    BY <1>4
  <1> HIDE DEF m
  <1>6. /\ Reserve(c, a) = [total |-> t, available |-> v - a, blocked |-> b + a]
        /\ Sell(c, a) = [total |-> t + a, available |-> v + a, blocked |-> b]
        /\ MarketBuy(c, a) = [total |-> t - a, available |-> v - a, blocked |-> b]
        /\ Release(c, a) = [total |-> t, available |-> v + m, blocked |-> b - m]
        /\ LimitBuy(c, a) = [total |-> t - a, available |-> v, blocked |-> b - m]
    <2>1. c.total = t /\ c.available = v /\ c.blocked = b
      BY <1>3
    <2>2. Reserve(c, a) = [total |-> t, available |-> v - a, blocked |-> b + a]
      <3>1. Reserve(c, a) = [c EXCEPT !.available = @ - a, !.blocked = @ + a]
        BY DEF Reserve
      <3> QED
        BY <1>3, <3>1
    <2>3. Sell(c, a) = [total |-> t + a, available |-> v + a, blocked |-> b]
      <3>1. Sell(c, a) = [c EXCEPT !.total = @ + a, !.available = @ + a]
        BY DEF Sell
      <3> QED
        BY <1>3, <3>1
    <2>4. MarketBuy(c, a) = [total |-> t - a, available |-> v - a, blocked |-> b]
      <3>1. MarketBuy(c, a) = [c EXCEPT !.total = @ - a, !.available = @ - a]
        BY DEF MarketBuy
      <3> QED
        BY <1>3, <3>1
    <2>5. Release(c, a) = [c EXCEPT !.blocked = @ - m, !.available = @ + m]
      BY <2>1 DEF Release, m
    <2>6. Release(c, a) = [total |-> t, available |-> v + m, blocked |-> b - m]
      BY <1>3, <2>5
    <2>7. LimitBuy(c, a) = [total |-> t - a, available |-> v, blocked |-> b - m]
      BY <2>1 DEF LimitBuy, m
    <2> QED
      BY <2>2, <2>3, <2>4, <2>6, <2>7
  <1>7. \A x \in Int, y \in Int, z \in Nat :
          LET d == [total |-> x, available |-> y, blocked |-> z]
          IN  d \in Cash /\ d.blocked = z /\ Missing(d) = y + z - x
    BY DEF Cash, Missing
  <1>8. Reserve(c, a) \in Cash /\ Reserve(c, a).blocked = b + a /\ Missing(Reserve(c, a)) = v - a + (b + a) - t
    BY <1>1, <1>6, <1>7
  <1>9. Sell(c, a) \in Cash /\ Sell(c, a).blocked = b /\ Missing(Sell(c, a)) = v + a + b - (t + a)
    BY <1>1, <1>6, <1>7
  <1>10. MarketBuy(c, a) \in Cash /\ MarketBuy(c, a).blocked = b /\ Missing(MarketBuy(c, a)) = v - a + b - (t - a)
    BY <1>1, <1>6, <1>7
  <1>11. Release(c, a) \in Cash /\ Release(c, a).blocked = b - m /\ Missing(Release(c, a)) = v + m + (b - m) - t
    BY <1>1, <1>5, <1>6, <1>7
  <1>12. LimitBuy(c, a) \in Cash /\ LimitBuy(c, a).blocked = b - m /\ Missing(LimitBuy(c, a)) = v + (b - m) - (t - a)
    BY <1>1, <1>5, <1>6, <1>7
  <1>13. Missing(c) = v + b - t /\ c.blocked = b
    BY <1>3, <1>7
  <1> QED
    BY <1>1, <1>4, <1>5, <1>8, <1>9, <1>10, <1>11, <1>12, <1>13

(* The steps that are such *)
LEMMA PlaceLimitOrderPasses ==
  ASSUME BaseInv, NEW r, r \in Threads, NEW u, u \in Users, NEW s, s \in Side, NEW q, q \in Quantities,
         NEW p, p \in Prices, Idle(r), requests < MaxRequests, PlaceLimitOrder(r, u, s, q, p), UNCHANGED run
  PROVE  \E x \in Request : /\ Passes(r, x) /\ RequestOK(x)' /\ x.stage = "limit" /\ x.user = u /\ x.side = s
                            /\ x.qty = q /\ x.price = p /\ Coming[x] + requests <= Coming[req[r]] + requests'
  <1> DEFINE x == [NoRequest EXCEPT !.stage = "limit", !.user = u, !.side = s, !.qty = q, !.price = p]
  <1>1. TypeOK /\ req[r] \in Request /\ req[r].stage = "idle" /\ cash \in [Users -> Cash] /\ requests \in 0..MaxRequests
    BY DEF BaseInv, TypeOK, Idle
  <1>2. q \in Nat /\ q > 0 /\ p \in Nat /\ MaxRequests \in Nat
    BY OrderFlowConstants
  <1>3. x \in Request
    BY <1>2, NoRequestIs DEF Request
  <1>4. /\ x.stage = "limit" /\ x.user = u /\ x.side = s /\ x.qty = q /\ x.price = p
    BY NoRequestIs DEF NoRequest
  <1>5. req' = [req EXCEPT ![r] = x] /\ requests' = requests + 1
    BY DEF PlaceLimitOrder, Arrives, settled
  <1> HIDE DEF x
  <1>6. cash' \in [Users -> Cash]
    <2>1. CASE s = "sell"
      BY <1>1, <2>1 DEF PlaceLimitOrder, settled
    <2>2. CASE s = "buy"
      <3>1. cash' = [cash EXCEPT ![u] = Reserve(@, p * q)]
        BY <2>2 DEF PlaceLimitOrder, settled
      <3>2. p * q \in Nat
        BY <1>2, ProductType
      <3>3. Reserve(cash[u], p * q) \in Cash
        BY <1>1, <3>2, CashIs
      <3> QED
        BY <1>1, <3>1, <3>3
    <2> QED
      BY <2>1, <2>2 DEF Side
  <1>11. loaded' \subseteq Users
    BY <1>1 DEF PlaceLimitOrder, TypeOK
  <1>7. Passes(r, x)
    BY <1>1, <1>2, <1>5, <1>6, <1>11 DEF Passes, Still, PlaceLimitOrder, engine, run, settled
  <1>8. RequestOK(x)'
    BY <1>2, <1>4 DEF RequestOK, Placed, Recorder
  <1>9. Coming[x] = 1 /\ Coming[req[r]] = 0
    BY <1>1, <1>3, <1>4, RequestWeighs
  <1>10. Coming[x] + requests <= Coming[req[r]] + requests'
    BY <1>1, <1>5, <1>9
  <1> QED
    BY <1>3, <1>4, <1>7, <1>8, <1>10

LEMMA MarketOrderPasses ==
  ASSUME BaseInv, NEW r, r \in Threads, NEW u, u \in Users, NEW s, s \in Side, NEW q, q \in Quantities,
         Idle(r), requests < MaxRequests, UNCHANGED run,
         PlaceMarketOrder(r, u, s, q) \/ PlaceInternalMarketOrder(r, u, s, q)
  PROVE  \E x \in Request : /\ Passes(r, x) /\ RequestOK(x)' /\ x.stage \in {"check", "market"}
                            /\ Coming[x] + requests <= Coming[req[r]] + requests' /\ cash' = cash
  <1> DEFINE seen == IF s = "buy" THEN cash[u].available ELSE shares[u]
             y == [NoRequest EXCEPT !.stage = "check", !.user = u, !.side = s, !.qty = q, !.seen = seen]
             z == [NoRequest EXCEPT !.stage = "market", !.user = u, !.side = s, !.qty = q]
  <1>1. /\ TypeOK /\ req[r] \in Request /\ req[r].stage = "idle" /\ cash \in [Users -> Cash] /\ shares \in [Users -> Int]
        /\ requests \in 0..MaxRequests
    BY DEF BaseInv, TypeOK, Idle
  <1>2. q \in Nat /\ q > 0 /\ MaxRequests \in Nat
    BY OrderFlowConstants
  <1>3. seen \in Int
    BY <1>1 DEF Cash
  <1> HIDE DEF seen
  <1>4. /\ y \in Request /\ y.stage = "check" /\ y.user = u /\ y.qty = q
        /\ z \in Request /\ z.stage = "market" /\ z.user = u /\ z.qty = q
    BY <1>2, <1>3, NoRequestIs DEF Request, NoRequest
  <1>5. /\ req' = [req EXCEPT ![r] = y] \/ req' = [req EXCEPT ![r] = z]
        /\ requests' = requests + 1
        /\ loaded' \subseteq Users /\ UNCHANGED <<engine, tracked, cash, shares, gen, todo, credited, missed, settled, owner, odd>>
    BY <1>1 DEF PlaceMarketOrder, PlaceInternalMarketOrder, Arrives, seen, settled, TypeOK
  <1> HIDE DEF y, z
  <1>6. PICK x \in Request : /\ req' = [req EXCEPT ![r] = x] /\ x.stage \in {"check", "market"}
                             /\ x.user \in Users /\ x.qty > 0
    BY <1>2, <1>4, <1>5
  <1>7. Passes(r, x)
    BY <1>1, <1>2, <1>5, <1>6 DEF Passes, Still, engine, run
  <1>8. RequestOK(x)'
    BY <1>6 DEF RequestOK, Placed, Recorder
  <1>9. Coming[x] = 1 /\ Coming[req[r]] = 0
    BY <1>1, <1>6, RequestWeighs
  <1> QED
    BY <1>1, <1>5, <1>6, <1>7, <1>8, <1>9

LEMMA GetPortfolioPasses ==
  ASSUME BaseInv, NEW r, r \in Threads, NEW u, u \in Users, Idle(r), requests < MaxRequests, GetPortfolio(r, u),
         UNCHANGED run
  PROVE  /\ NoRequest \in Request /\ Passes(r, NoRequest) /\ RequestOK(NoRequest)' /\ NoRequest.stage = "idle"
         /\ Coming[NoRequest] + requests <= Coming[req[r]] + requests' /\ cash' = cash
  <1>1. /\ TypeOK /\ req[r] \in Request /\ req[r].stage = "idle" /\ cash \in [Users -> Cash] /\ loaded \subseteq Users
        /\ requests \in 0..MaxRequests
    BY DEF BaseInv, TypeOK, Idle
  <1>2. NoRequest \in Request /\ NoRequest.stage = "idle"
    BY NoRequestIs
  <1>3. /\ req' = [req EXCEPT ![r] = NoRequest] /\ requests' = requests + 1 /\ loaded' = loaded \cup {u}
        /\ UNCHANGED <<engine, tracked, cash, shares, gen, todo, credited, missed, settled, owner, odd>>
    BY DEF GetPortfolio, Arrives, settled
  <1>4. Passes(r, NoRequest)
    BY <1>1, <1>3, OrderFlowConstants DEF Passes, Still, engine, run
  <1>5. RequestOK(NoRequest)'
    BY <1>2, NoRequestIs DEF RequestOK, Placed, Recorder
  <1>6. Coming[NoRequest] = 0 /\ Coming[req[r]] = 0
    BY <1>1, <1>2, RequestWeighs
  <1>7. Coming[NoRequest] + requests <= Coming[req[r]] + requests'
    BY <1>1, <1>3, <1>6
  <1> QED
    BY <1>2, <1>3, <1>4, <1>5, <1>7

LEMMA CheckPassesOn ==
  ASSUME BaseInv, NEW r, r \in Threads, CheckPasses(r) \/ CheckFails(r), UNCHANGED run
  PROVE  \E x \in Request : /\ Passes(r, x) /\ RequestOK(x)' /\ x.stage \in {"idle", "market"}
                            /\ req[r].stage = "check" /\ cash' = cash
                            /\ Coming[x] + requests <= Coming[req[r]] + requests'
  <1> DEFINE y == [req[r] EXCEPT !.stage = "market", !.seen = 0]
  <1>1. TypeOK /\ req[r] \in Request /\ RequestOK(req[r]) /\ cash \in [Users -> Cash] /\ requests \in 0..MaxRequests
    BY DEF BaseInv, TypeOK, RequestsOK
  <1>2. /\ req[r].stage = "check"
        /\ req' = [req EXCEPT ![r] = y] \/ req' = [req EXCEPT ![r] = NoRequest]
        /\ requests' = requests
        /\ UNCHANGED <<engine, tracked, cash, shares, loaded, gen, todo, credited, missed, settled, owner, odd>>
    BY DEF CheckPasses, CheckFails, GoesOn, settled
  <1>3. req[r].user \in Users /\ req[r].qty > 0
    BY <1>1, <1>2 DEF RequestOK
  <1>4. y \in Request /\ y.stage = "market" /\ y.user = req[r].user /\ y.qty = req[r].qty
    <2>1. PICK q \in Request : q = req[r]
      BY <1>1
    <2>2. y = [q EXCEPT !.stage = "market", !.seen = 0]
      BY <2>1
    <2> HIDE DEF y
    <2>3. y \in Request
      <3>1. y = [stage |-> "market", user |-> q.user, side |-> q.side, qty |-> q.qty, price |-> q.price,
                 seen |-> 0, id |-> q.id, trades |-> q.trades]
        BY <2>2 DEF Request
      <3>2. /\ q.user \in Users \cup {NoUser} /\ q.side \in Side /\ q.qty \in Nat /\ q.price \in Nat
            /\ q.id \in Ids \cup Quotes \cup {0} /\ q.trades \in Seq(Fill)
        BY RequestIs
      <3> HIDE DEF y
      <3> QED
        BY <3>1, <3>2 DEF Request
    <2>4. y.stage = "market" /\ y.user = q.user /\ y.qty = q.qty
      BY <2>2 DEF Request
    <2> QED
      BY <2>1, <2>3, <2>4
  <1>11. loaded' \subseteq Users
    BY <1>1, <1>2 DEF TypeOK
  <1>5. ASSUME NEW x, x \in Request, req' = [req EXCEPT ![r] = x],
               x.stage = "idle" \/ (x.stage = "market" /\ x.user \in Users /\ x.qty > 0)
        PROVE  /\ Passes(r, x) /\ RequestOK(x)' /\ x.stage \in {"idle", "market"}
               /\ Coming[x] + requests <= Coming[req[r]] + requests'
    <2>1. Passes(r, x)
      BY <1>1, <1>2, <1>5, <1>11 DEF Passes, Still, engine, run
    <2>2. RequestOK(x)'
      BY <1>5 DEF RequestOK, Placed, Recorder
    <2>3. Coming[x] \in {0, 1} /\ Coming[req[r]] = 1
      BY <1>1, <1>2, <1>5, RequestWeighs
    <2> QED
      BY <1>1, <1>2, <1>5, <2>1, <2>2, <2>3
  <1> HIDE DEF y
  <1> QED
    BY <1>2, <1>3, <1>4, <1>5, NoRequestIs

-----------------------------------------------------------------------------
(* The tracker's order after a trade: n is what the trade adds to its fills. *)
LEMMA MaxIs ==
  ASSUME NEW x \in Int, NEW y \in Int
  PROVE  Max({x, y}) = IF x >= y THEN x ELSE y
  <1> DEFINE m == IF x >= y THEN x ELSE y
  <1>1. m \in {x, y} /\ \A z \in {x, y} : m >= z
    OBVIOUS
  <1>2. \A u \in {x, y} : (\A z \in {x, y} : u >= z) => u = m
    OBVIOUS
  <1> HIDE DEF m
  <1>3. Max({x, y}) = m
    BY <1>1, <1>2 DEF Max
  <1> QED
    BY <1>3 DEF m

After(o, new, t, n) ==
  /\ n \in Nat /\ n <= t.qty /\ (o.filled + t.qty <= o.qty => n = t.qty)
  /\ new \in Tracked /\ new.user = o.user /\ new.side = o.side /\ new.qty = o.qty
  /\ new.filled = o.filled + n
  /\ n = 0 <=> new = o
  /\ n > 0 => n = Applied(o, t)
  /\ n * t.price \in Nat /\ n * t.price <= t.price * t.qty
  /\ new.reserve <= o.reserve
  /\ o.side # "buy" => new.reserve = o.reserve
  /\ o.side = "buy" => /\ o.reserve <= new.reserve + n * t.price
                       /\ n * t.price <= o.reserve => o.reserve = new.reserve + n * t.price
LEMMA AfterTradeIs ==
  ASSUME NEW o, o \in Tracked, NEW t, t \in Fill
  PROVE  \E n \in Nat : After(o, AfterTrade(o, t), t, n)
  <1>1. /\ o.filled \in Nat /\ o.qty \in Nat /\ o.qty > 0 /\ o.reserve \in Nat
        /\ t.qty \in Nat /\ t.qty > 0 /\ t.price \in Nat
    <2>1. o.filled \in Nat /\ o.qty \in Nat /\ o.qty > 0 /\ o.reserve \in Nat
      BY DEF Tracked
    <2>2. t.qty \in Nat /\ t.qty > 0 /\ t.price \in Prices
      BY DEF Fill
    <2> QED
      BY <2>1, <2>2, PricesAreNat
  <1>2. t.price * t.qty \in Nat
    BY <1>1, ProductType
  <1>3. CASE o.filled >= o.qty
    <2>1. AfterTrade(o, t) = o
      BY <1>3 DEF AfterTrade
    <2>2. 0 * t.price = 0
      BY <1>1
    <2>3. ~(o.filled + t.qty <= o.qty)
      BY <1>1, <1>3
    <2>4. After(o, AfterTrade(o, t), t, 0)
      BY <1>1, <1>2, <2>1, <2>2, <2>3 DEF After
    <2> QED
      BY <2>4
  <1>4. CASE o.filled < o.qty
    <2> DEFINE n == Applied(o, t)
               d == n * t.price
               R == IF o.side = "buy" THEN Max({0, o.reserve - d}) ELSE o.reserve
               new == AfterTrade(o, t)
    <2>1. n \in {t.qty, o.qty - o.filled} /\ n <= t.qty /\ n = IF t.qty <= o.qty - o.filled THEN t.qty ELSE o.qty - o.filled
      <3>1. t.qty \in Int /\ o.qty - o.filled \in Int
        BY <1>1
      <3> QED
        BY <3>1, MinIs DEF Applied
    <2>2. n \in Nat /\ n > 0 /\ (o.filled + t.qty <= o.qty => n = t.qty)
      BY <1>1, <1>4, <2>1
    <2>3. new = [o EXCEPT !.filled = @ + n, !.reserve = IF o.side = "buy" THEN Max({0, @ - d}) ELSE @]
      BY <1>1, <1>4 DEF AfterTrade
    <2> HIDE DEF n, new
    <2>4. d \in Nat /\ d <= t.price * t.qty
      <3>1. d \in Nat /\ t.price * n = d
        BY <1>1, <2>2, ProductType
      <3>2. n * t.price <= t.qty * t.price
        BY <1>1, <2>1, <2>2, ProductBelow
      <3>3. t.qty * t.price = t.price * t.qty
        BY <1>1
      <3> QED
        BY <3>1, <3>2, <3>3
    <2>5. /\ R \in Nat /\ R <= o.reserve
          /\ o.side # "buy" => R = o.reserve
          /\ o.side = "buy" => o.reserve <= R + d /\ (d <= o.reserve => o.reserve = R + d)
      <3> HIDE DEF d
      <3>1. Max({0, o.reserve - d}) = IF 0 >= o.reserve - d THEN 0 ELSE o.reserve - d
        BY <1>1, <2>4, MaxIs
      <3> QED
        BY <1>1, <2>4, <3>1
    <2> HIDE DEF d
    <2>6. new = [user |-> o.user, side |-> o.side, qty |-> o.qty, filled |-> o.filled + n, reserve |-> R]
      BY <2>3 DEF Tracked
    <2> HIDE DEF R
    <2>7. new.user = o.user /\ new.side = o.side /\ new.qty = o.qty /\ new.filled = o.filled + n /\ new.reserve = R
      BY <2>6
    <2>8. new \in Tracked
      BY <1>1, <2>2, <2>5, <2>6 DEF Tracked
    <2>9. new # o
      BY <1>1, <2>2, <2>7
    <2>10. After(o, new, t, n)
      <3>1. n * t.price = d
        BY DEF d
      <3>2. n = Applied(o, t)
        BY DEF n
      <3>3. n # 0 /\ n \in Nat /\ n <= t.qty
        BY <2>1, <2>2
      <3> QED
        BY <2>2, <2>4, <2>5, <2>7, <2>8, <2>9, <3>1, <3>2, <3>3 DEF After
    <2> QED
      BY <2>2, <2>10 DEF new
  <1> QED
    BY <1>1, <1>3, <1>4

-----------------------------------------------------------------------------
(* The steps of the tracker, of its callers and of the portfolio manager     *)
TracksKeeps ==
  /\ Still
  /\ \A i \in Ids : i >= nextId => tracked'[i] = tracked[i] /\ settled'[i] = settled[i]
  /\ Weight(req', Coming) = Weight(req, Coming) /\ requests' = requests
  /\ \A i \in Ids : Accounted(i)' <= Accounted(i)
LEMMA TracksKeepBase ==
  ASSUME BaseInv, TracksKeeps, TypeOK', RequestsOK', TickOK', CallsOK', OwnersKnown'
  PROVE  BaseInv'
  <1>1. TypeOK /\ Still
    BY DEF BaseInv, TracksKeeps
  <1>2. Counted'
    BY <1>1 DEF Counted, BaseInv, TracksKeeps, Still
  <1>3. Unused' /\ StopsUnowned' /\ OnePlace'
    BY <1>1, StillKeeps DEF BaseInv, TracksKeeps
  <1>4. ClaimsTraded'
    <2>1. TypeOK' => \A i \in Ids : Accounted(i)' \in Nat
      <3>1. Numbers'
        BY NumbersNext
      <3>2. \A i \in Ids : TypeOK' => settled'[i] \in Nat
        BY DEF TypeOK, settled
      <3> QED
        BY <3>1, <3>2 DEF Numbers, Accounted
    <2> QED
      BY <1>1, <2>1, StillTraded DEF BaseInv, TracksKeeps
  <1> QED
    BY <1>2, <1>3, <1>4 DEF BaseInv

LEMMA TicksKeepBase ==
  ASSUME BaseInv, NewTick \/ EndTick, UNCHANGED run
  PROVE  BaseInv' /\ Still /\ UNCHANGED <<tracked, cash, shares, loaded, req, todo, requests, credited, missed, settled>>
         /\ gen'.trades = gen.trades /\ gen.trades = <<>>
  <1>1. TypeOK /\ RequestsOK /\ TickOK /\ CallsOK /\ OwnersKnown /\ gen \in Tick
    BY DEF BaseInv, TypeOK
  <1>2. Still /\ UNCHANGED <<tracked, cash, shares, loaded, req, todo, requests, credited, missed, settled>>
    BY DEF NewTick, EndTick, Still, engine, run, settled
  <1>3. <<>> \in Seq(Fill)
    OBVIOUS
  <1>4. gen' \in Tick /\ gen'.trades = <<>> /\ gen'.stage \in {"idle", "quote"}
        /\ (gen'.stage = "idle" => todo[Generator] = <<>>) /\ gen.stage \in {"idle", "quote"}
    <2>1. CASE NewTick
      <3>1. gen' = [stage |-> "quote", side |-> "buy", bid |-> 0, trades |-> <<>>] /\ gen.stage = "idle"
        BY <2>1 DEF NewTick, NoTick, settled
      <3> QED
        BY <1>3, <3>1 DEF Tick, Side
    <2>2. CASE EndTick
      <3>1. gen' = [stage |-> "idle", side |-> "buy", bid |-> 0, trades |-> <<>>] /\ gen.stage = "quote"
            /\ todo[Generator] = <<>>
        BY <2>2 DEF EndTick, NoTick, Quoting, settled
      <3> QED
        BY <1>3, <3>1 DEF Tick, Side
    <2> QED
      BY <2>1, <2>2
  <1>5. gen.trades = <<>>
    BY <1>1, <1>4 DEF TickOK
  <1>6. TypeOK'
    BY <1>1, <1>2, <1>4 DEF TypeOK, Still
  <1>7. Grows /\ \A i : Here(i)' = Here(i)
    BY <1>1, <1>2, StillIs
  <1>8. RequestsOK'
    BY <1>1, <1>2, <1>7, RequestsStay
  <1>9. TickOK'
    BY <1>2, <1>4 DEF TickOK
  <1>10. CallsOK'
    BY <1>1, <1>2, <1>7, CallsStay
  <1>11. OwnersKnown'
    BY <1>1, <1>2 DEF OwnersKnown, Still
  <1>12. TracksKeeps
    <2>1. \A i \in Ids : Accounted(i)' = Accounted(i) /\ Accounted(i) \in Nat
      BY <1>1, <1>2, <1>4, <1>5, AccountedIsNat DEF Accounted, Claims, Made
    <2> QED
      BY <1>2, <2>1 DEF TracksKeeps
  <1> QED
    BY <1>2, <1>4, <1>5, <1>6, <1>8, <1>9, <1>10, <1>11, <1>12, TracksKeepBase

LEMMA EngineRefusesKeepsBase ==
  ASSUME BaseInv, NEW r, r \in Threads, EngineRefuses(r), UNCHANGED run
  PROVE  BaseInv'
  <1> DEFINE q == req[r]
             x == IF q.side = "sell" THEN <<>> ELSE ReleaseCall(q.user, q.price * q.qty)
  <1>1. TypeOK /\ RequestsOK /\ TickOK /\ CallsOK /\ OwnersKnown /\ Unused /\ Counted
    BY DEF BaseInv
  <1>2. /\ q \in Request /\ q.stage = "limit" /\ gen.stage = "idle" /\ todo[r] = <<>>
        /\ req' = [req EXCEPT ![r] = NoRequest] /\ todo' = [todo EXCEPT ![r] = x]
        /\ nextId' = nextId + 1
        /\ UNCHANGED <<book, stops, nextQuote, traded, tracked, cash, shares, loaded, gen, credited, missed, settled, owner, odd, requests>>
        /\ UNCHANGED <<restarts, before>>
    BY <1>1 DEF EngineRefuses, GoesOn, BookFree, TypeOK, run, settled
  <1>3. q.user \in Users /\ q.price * q.qty \in Nat /\ r \in Actors /\ r # Generator
    BY <1>1, <1>2, RequestIs, FiniteSets DEF RequestsOK, RequestOK, Actors
  <1>4. x \in Seq(Call) /\ (\A c \in ToSet(x) : c.op = "release") /\ \A i : Weight(x, Claim(i)) = 0
    BY <1>3, ReleaseCallIs, NoCalls
  <1> HIDE DEF x
  <1>5. /\ req' \in [Threads -> Request] /\ req'[r] = NoRequest
        /\ \A s \in Threads : s # r => req'[s] = req[s]
        /\ \A w \in [Request -> Nat] :
              /\ Weight(req', w) + w[q] = Weight(req, w) + w[NoRequest]
              /\ Weight(req', w) \in Nat /\ Weight(req, w) \in Nat /\ w[q] \in Nat /\ w[NoRequest] \in Nat
    BY <1>1, <1>2, NoRequestIs, ReqChanges
  <1>6. /\ todo' \in [Actors -> Seq(Call)] /\ todo'[r] = x
        /\ \A b \in Actors : b # r => todo'[b] = todo[b]
        /\ \A w \in [Call -> Nat] :
              /\ Weight(todo', Each(w)) + Weight(todo[r], w) = Weight(todo, Each(w)) + Weight(x, w)
              /\ Weight(todo', Each(w)) \in Nat /\ Weight(todo, Each(w)) \in Nat
              /\ Weight(todo[r], w) \in Nat
    <2>1. TypeOK /\ r \in Actors /\ x \in Seq(Call) /\ todo' = [todo EXCEPT ![r] = x]
      BY <1>1, <1>2, <1>3, <1>4
    <2> QED
      BY ONLY <2>1, TodoChanges
  <1>7. /\ \A i : Here(i)' = Here(i)
        /\ nextId \in Nat /\ Ids \subseteq Nat /\ requests \in Nat /\ MaxRequests \in Nat /\ requests <= MaxRequests
    BY <1>1, <1>2, IdsAreNat DEF Here, TypeOK
  <1>8. Grows
    BY <1>2, <1>7 DEF Grows
  <1>9. Counted' /\ nextId + 1 <= requests + 1
    <2>1. Coming \in [Request -> Nat] /\ Coming[q] = 1 /\ Coming[NoRequest] = 0
      BY <1>2, RequestWeights, RequestWeighs, IdleWeighs, NoRequestIs
    <2>2. /\ Weight(req', Coming) + Coming[q] = Weight(req, Coming) + Coming[NoRequest]
          /\ Weight(req', Coming) \in Nat /\ Weight(req, Coming) \in Nat
      BY <1>5, <2>1
    <2>3. Weight(req, Coming) + nextId - 1 <= requests
      BY <1>1 DEF Counted
    <2>4. Weight(req', Coming) + nextId' - 1 <= requests' /\ nextId + 1 <= requests + 1
      BY <1>2, <1>7, <2>1, <2>2, <2>3, SMTT(30)
    <2> QED
      BY <2>4 DEF Counted
  <1>10. TypeOK'
    <2>1. nextId' \in 1..(MaxRequests + 1)
      BY <1>2, <1>7, <1>9
    <2> QED
      BY <1>1, <1>2, <1>5, <1>6, <2>1 DEF TypeOK
  <1>11. RequestsOK'
    <2>1. (RequestOK(req[r]))'
      BY <1>5, NoRequestIs DEF RequestOK, Placed, Recorder
    <2> QED
      BY <1>1, <1>5, <1>8, <2>1, RequestsStay
  <1>12. TickOK'
    BY <1>1, <1>2, <1>3, <1>6 DEF TickOK, Actors
  <1>13. Unused'
    BY <1>1, <1>2, <1>7 DEF Unused, UnusedId
  <1>14. StopsUnowned' /\ OwnersKnown' /\ OnePlace'
    BY <1>2, <1>7 DEF BaseInv, StopsUnowned, OwnersKnown, OnePlace
  <1>15. CallsOK'
    <2>1. \A a \in Actors : \A c \in ToSet(todo'[a]) : c \in ToSet(todo[a]) \/ CallOK(c)'
      BY <1>4, <1>6 DEF CallOK
    <2> QED
      BY <1>1, <1>8, <2>1, CallsStay
  <1>16. ClaimsTraded'
    <2>1. ASSUME NEW i, i \in Ids
          PROVE  Accounted(i)' = Accounted(i)
      <3>1. Claims(i)' = Claims(i)
        <4>1. Claim(i) \in [Call -> Nat] /\ Weight(todo[r], Claim(i)) = 0 /\ Weight(x, Claim(i)) = 0
          BY <1>2, <1>4, CallWeights, NoCalls
        <4> QED
          BY <1>6, <4>1 DEF Claims
      <3>2. Weight(req', NewShares(i)) = Weight(req, NewShares(i))
        <4>1. NewShares(i) \in [Request -> Nat] /\ NewShares(i)[q] = 0 /\ NewShares(i)[NoRequest] = 0
          BY <1>2, RequestWeights, RequestWeighs, IdleWeighs, NoRequestIs
        <4> QED
          BY <1>5, <4>1
      <3> QED
        BY <1>2, <3>1, <3>2 DEF Accounted, Made
    <2> QED
      BY <1>2, <2>1 DEF BaseInv, ClaimsTraded
  <1> QED
    BY <1>9, <1>10, <1>11, <1>12, <1>13, <1>14, <1>15, <1>16 DEF BaseInv

(* A handler goes on from one request to x and has the calls d to make. *)
GoesTo(r, x, d) ==
  /\ Still /\ UNCHANGED <<cash, shares, loaded, gen, credited, missed, settled, requests>>
  /\ todo[r] = <<>>
  /\ req' = [req EXCEPT ![r] = x]
  /\ todo' = [todo EXCEPT ![r] = d]

LEMMA GoesToIs ==
  ASSUME TypeOK, NEW r, r \in Threads, NEW x, x \in Request, NEW d, d \in Seq(Call), GoesTo(r, x, d)
  PROVE  /\ req[r] \in Request /\ r \in Actors /\ r # Generator
         /\ req' \in [Threads -> Request] /\ req'[r] = x
         /\ \A s \in Threads : s # r => req'[s] = req[s]
         /\ \A w \in [Request -> Nat] :
              /\ Weight(req', w) + w[req[r]] = Weight(req, w) + w[x]
              /\ Weight(req', w) \in Nat /\ Weight(req, w) \in Nat /\ w[req[r]] \in Nat /\ w[x] \in Nat
              /\ w[req[r]] <= Weight(req, w)
         /\ todo' \in [Actors -> Seq(Call)] /\ todo'[r] = d
         /\ \A b \in Actors : b # r => todo'[b] = todo[b]
         /\ \A i : Claims(i)' = Claims(i) + Weight(d, Claim(i)) /\ Weight(d, Claim(i)) \in Nat
         /\ \A u : /\ Weight(todo', Each(Owed(u))) = Weight(todo, Each(Owed(u))) + Weight(d, Owed(u))
                   /\ Weight(d, Owed(u)) \in Nat
  <1>1. req[r] \in Request /\ r \in Actors /\ r # Generator
    BY FiniteSets DEF TypeOK, Actors
  <1>2. /\ req' \in [Threads -> Request] /\ req'[r] = x
        /\ \A s \in Threads : s # r => req'[s] = req[s]
        /\ \A w \in [Request -> Nat] :
              /\ Weight(req', w) + w[req[r]] = Weight(req, w) + w[x]
              /\ Weight(req', w) \in Nat /\ Weight(req, w) \in Nat /\ w[req[r]] \in Nat /\ w[x] \in Nat
              /\ w[req[r]] <= Weight(req, w)
    BY ReqChanges DEF GoesTo
  <1>3. todo' = [todo EXCEPT ![r] = d] /\ todo[r] = <<>>
    BY DEF GoesTo
  <1>4. /\ todo' \in [Actors -> Seq(Call)] /\ todo'[r] = d
        /\ \A b \in Actors : b # r => todo'[b] = todo[b]
        /\ \A w \in [Call -> Nat] :
              /\ Weight(todo', Each(w)) + Weight(todo[r], w) = Weight(todo, Each(w)) + Weight(d, w)
              /\ Weight(todo', Each(w)) \in Nat /\ Weight(todo, Each(w)) \in Nat
              /\ Weight(todo[r], w) \in Nat /\ Weight(d, w) \in Nat
    BY ONLY TypeOK, d \in Seq(Call), <1>1, <1>3, TodoChanges
  <1>5. \A w \in [Call -> Nat] : /\ Weight(todo', Each(w)) = Weight(todo, Each(w)) + Weight(d, w)
                                 /\ Weight(d, w) \in Nat
    <2>1. \A w \in [Call -> Nat] : Weight(todo[r], w) = 0
      BY <1>3, NoCalls
    <2> QED
      BY ONLY <1>4, <2>1
  <1>6. \A i : Claims(i)' = Claims(i) + Weight(d, Claim(i)) /\ Weight(d, Claim(i)) \in Nat
    BY <1>5, CallWeights DEF Claims
  <1>7. \A u : /\ Weight(todo', Each(Owed(u))) = Weight(todo, Each(Owed(u))) + Weight(d, Owed(u))
               /\ Weight(d, Owed(u)) \in Nat
    BY <1>5, CallWeights
  <1> QED
    BY <1>1, <1>2, <1>4, <1>6, <1>7

LEMMA GoesToKeepsBase ==
  ASSUME BaseInv, NEW r, r \in Threads, NEW x, x \in Request, NEW d, d \in Seq(Call), GoesTo(r, x, d),
         Coming[x] = 0, Coming[req[r]] = 0, RequestOK(x)', \A c \in ToSet(d) : CallOK(c)',
         tracked' \in [Ids -> Tracked \cup {NoOrder}], OwnersKnown',
         \A i \in Ids : i >= nextId => tracked'[i] = tracked[i],
         \A i \in Ids : Weight(d, Claim(i)) + NewShares(i)[x] <= NewShares(i)[req[r]]
  PROVE  BaseInv'
  <1>1. TypeOK /\ RequestsOK /\ TickOK /\ CallsOK /\ Still /\ UNCHANGED <<cash, shares, loaded, gen, credited, missed, settled, requests>>
    BY DEF BaseInv, GoesTo
  <1>2. /\ req[r] \in Request /\ r \in Actors /\ r # Generator
        /\ req' \in [Threads -> Request] /\ req'[r] = x
        /\ \A s \in Threads : s # r => req'[s] = req[s]
        /\ \A w \in [Request -> Nat] :
             /\ Weight(req', w) + w[req[r]] = Weight(req, w) + w[x]
             /\ Weight(req', w) \in Nat /\ Weight(req, w) \in Nat /\ w[req[r]] \in Nat /\ w[x] \in Nat
        /\ todo' \in [Actors -> Seq(Call)] /\ todo'[r] = d
        /\ \A b \in Actors : b # r => todo'[b] = todo[b]
        /\ \A i : Claims(i)' = Claims(i) + Weight(d, Claim(i)) /\ Weight(d, Claim(i)) \in Nat
    BY <1>1, GoesToIs
  <1>3. Grows
    BY <1>1, StillIs
  <1>4. TypeOK'
    BY <1>1, <1>2 DEF TypeOK, Still
  <1>5. RequestsOK'
    <2>1. (RequestOK(req[r]))'
      BY <1>2 DEF RequestOK
    <2> QED
      BY <1>1, <1>2, <1>3, <2>1, RequestsStay
  <1>6. TickOK'
    BY <1>1, <1>2 DEF TickOK, Actors
  <1>7. CallsOK'
    <2>1. \A a \in Actors : \A c \in ToSet(todo'[a]) : c \in ToSet(todo[a]) \/ CallOK(c)'
      BY <1>2
    <2> QED
      BY <1>1, <1>3, <2>1, CallsStay
  <1>8. TracksKeeps
    <2>1. Weight(req', Coming) = Weight(req, Coming)
      <3>1. Coming \in [Request -> Nat]
        BY RequestWeights
      <3>2. Weight(req', Coming) + Coming[req[r]] = Weight(req, Coming) + Coming[x] /\ Weight(req', Coming) \in Nat
            /\ Weight(req, Coming) \in Nat
        BY <1>2, <3>1
      <3> QED
        BY ONLY <3>2, Coming[x] = 0, Coming[req[r]] = 0
    <2>2. ASSUME NEW i, i \in Ids
          PROVE  Accounted(i)' <= Accounted(i)
      <3>1. NewShares(i) \in [Request -> Nat]
        BY RequestWeights
      <3>2. /\ Weight(req', NewShares(i)) + NewShares(i)[req[r]] = Weight(req, NewShares(i)) + NewShares(i)[x]
            /\ Weight(req', NewShares(i)) \in Nat /\ NewShares(i)[req[r]] \in Nat /\ NewShares(i)[x] \in Nat
        BY <1>2, <3>1
      <3>3. /\ Accounted(i) = settled[i] + Claims(i) + Weight(req, NewShares(i)) + Made(i)
            /\ settled[i] \in Nat /\ Claims(i) \in Nat /\ Weight(req, NewShares(i)) \in Nat /\ Made(i) \in Nat
        BY <1>1, <2>2, AccountedIsNat
      <3>4. Accounted(i)' = settled[i] + Claims(i)' + Weight(req', NewShares(i)) + Made(i)
        BY <1>1 DEF Accounted, Made
      <3>5. Claims(i)' = Claims(i) + Weight(d, Claim(i)) /\ Weight(d, Claim(i)) \in Nat
        BY <1>2
      <3>6. Weight(d, Claim(i)) + NewShares(i)[x] <= NewShares(i)[req[r]]
        BY <2>2
      <3> QED
        BY ONLY <3>2, <3>3, <3>4, <3>5, <3>6
    <2> QED
      BY <1>1, <2>1, <2>2 DEF TracksKeeps
  <1> QED
    BY <1>4, <1>5, <1>6, <1>7, <1>8, TracksKeepBase

(* Request q goes into the tracker as o; the handler's request is x then. *)
TracksAs(r, q, x, d, o) ==
  /\ q \in Request /\ q.stage = "track" /\ q.id \in Ids /\ q.id < nextId /\ owner[q.id] = q.user
  /\ q.user \in Users /\ q.price * q.qty \in Nat
  /\ x \in Request /\ d \in Seq(Call) /\ o \in Tracked
  /\ GoesTo(r, x, d) /\ tracked' = [tracked EXCEPT ![q.id] = o]
  /\ o.user = q.user /\ o.side = q.side /\ o.qty = q.qty /\ o.filled = 0
  /\ o.reserve = IF q.side = "buy" THEN q.price * q.qty ELSE 0
  /\ \/ q.trades = <<>> /\ x = NoRequest
     \/ /\ q.trades # <<>> /\ x.stage = "record"
        /\ x.user = q.user /\ x.side = q.side /\ x.qty = q.qty /\ x.price = q.price
        /\ x.id = q.id /\ x.trades = q.trades
  /\ FillsOf(d, "limitFill", q, q.id, q.trades)
LEMMA TrackIs ==
  ASSUME BaseInv, NEW r, r \in Threads, Track(r), UNCHANGED run
  PROVE  \E q, x, d, o : q = req[r] /\ TracksAs(r, q, x, d, o)
  <1> DEFINE q == req[r]
             x == IF q.trades = <<>> THEN NoRequest ELSE [q EXCEPT !.stage = "record"]
             d == FillCalls("limitFill", r, q.id, q.trades)
             o == [user |-> q.user, side |-> q.side, qty |-> q.qty, filled |-> 0,
                   reserve |-> IF q.side = "buy" THEN q.price * q.qty ELSE 0]
  <1>1. TypeOK /\ q \in Request /\ RequestOK(q)
    BY DEF BaseInv, TypeOK, RequestsOK
  <1>2. /\ q.stage = "track" /\ todo[r] = <<>> /\ req' = [req EXCEPT ![r] = x] /\ todo' = [todo EXCEPT ![r] = d]
        /\ tracked' = [tracked EXCEPT ![q.id] = o]
        /\ Still /\ UNCHANGED <<cash, shares, loaded, gen, credited, missed, settled, requests>>
    BY DEF Track, GoesOn, Still, engine, run, settled
  <1>3. /\ q.id \in Ids /\ q.id < nextId /\ owner[q.id] = q.user /\ q.user \in Users /\ q.qty > 0
    BY <1>1, <1>2 DEF RequestOK, Placed
  <1>4. q.trades \in Seq(Fill) /\ q.side \in Side /\ q.qty \in Nat /\ q.price * q.qty \in Nat
    BY <1>1, RequestIs
  <1>5. x \in Request /\ (\/ q.trades = <<>> /\ x = NoRequest
                          \/ /\ q.trades # <<>> /\ x.stage = "record"
                             /\ x.user = q.user /\ x.side = q.side /\ x.qty = q.qty /\ x.price = q.price
                             /\ x.id = q.id /\ x.trades = q.trades)
    <2>1. CASE q.trades = <<>>
      BY <2>1, NoRequestIs
    <2>2. CASE q.trades # <<>>
      <3>1. x = [q EXCEPT !.stage = "record"]
        BY <2>2
      <3>2. x = [stage |-> "record", user |-> q.user, side |-> q.side, qty |-> q.qty, price |-> q.price,
                 seen |-> q.seen, id |-> q.id, trades |-> q.trades]
        BY <1>1, <3>1 DEF Request
      <3>3. /\ q.user \in Users \cup {NoUser} /\ q.side \in Side /\ q.qty \in Nat /\ q.price \in Nat
            /\ q.seen \in Int /\ q.id \in Ids \cup Quotes \cup {0} /\ q.trades \in Seq(Fill)
        BY <1>1, RequestIs
      <3> HIDE DEF x, q
      <3> QED
        BY <2>2, <3>2, <3>3 DEF Request
    <2> QED
      BY <2>1, <2>2
  <1>6. o \in Tracked
    BY <1>3, <1>4 DEF Tracked
  <1>7. FillsOf(d, "limitFill", q, q.id, q.trades)
    BY <1>1, <1>3, <1>4, FillCallsAre
  <1>8. GoesTo(r, x, d)
    BY <1>2 DEF GoesTo
  <1>9. /\ o.user = q.user /\ o.side = q.side /\ o.qty = q.qty /\ o.filled = 0
        /\ o.reserve = IF q.side = "buy" THEN q.price * q.qty ELSE 0
    OBVIOUS
  <1>10. d \in Seq(Call)
    BY <1>7 DEF FillsOf
  <1> HIDE DEF x, d, o, q
  <1>11. TracksAs(r, q, x, d, o)
    BY <1>1, <1>2, <1>3, <1>4, <1>5, <1>6, <1>7, <1>8, <1>9, <1>10 DEF TracksAs
  <1> QED
    BY <1>11 DEF q

LEMMA TrackKeepsBase ==
  ASSUME BaseInv, NEW r, r \in Threads, Track(r), UNCHANGED run
  PROVE  BaseInv'
  <1>0. PICK q, x, d, o : q = req[r] /\ TracksAs(r, q, x, d, o)
    BY TrackIs
  <1>1. /\ q \in Request /\ q.stage = "track" /\ q.id \in Ids /\ q.id < nextId /\ owner[q.id] = q.user
        /\ x \in Request /\ d \in Seq(Call) /\ o \in Tracked
        /\ GoesTo(r, x, d) /\ tracked' = [tracked EXCEPT ![q.id] = o]
        /\ o.user = q.user
        /\ \/ q.trades = <<>> /\ x = NoRequest
           \/ /\ q.trades # <<>> /\ x.stage = "record"
              /\ x.user = q.user /\ x.side = q.side /\ x.qty = q.qty /\ x.price = q.price
              /\ x.id = q.id /\ x.trades = q.trades
        /\ \A c \in ToSet(d) : c.op = "limitFill" /\ c.id = q.id /\ c.user = q.user
        /\ \A i : Weight(d, Claim(i)) = IF i = q.id THEN Weight(q.trades, SharesOf) ELSE 0
    BY <1>0 DEF TracksAs, FillsOf
  <1>2. TypeOK /\ RequestOK(q) /\ nextId' = nextId /\ owner' = owner /\ odd' = odd
    BY <1>0, <1>1 DEF BaseInv, RequestsOK, GoesTo, Still, TypeOK
  <1>3. RequestOK(x)'
    <2>1. CASE x = NoRequest
      BY <2>1, NoRequestIs DEF RequestOK, Placed, Recorder
    <2>2. CASE /\ q.trades # <<>> /\ x.stage = "record"
               /\ x.user = q.user /\ x.side = q.side /\ x.qty = q.qty /\ x.price = q.price
               /\ x.id = q.id /\ x.trades = q.trades
      BY <1>1, <1>2, <2>2 DEF RequestOK, Placed, Recorder
    <2> QED
      BY <1>1, <2>1, <2>2
  <1>4. \A c \in ToSet(d) : CallOK(c)'
    BY <1>1, <1>2 DEF CallOK
  <1>5. /\ tracked' \in [Ids -> Tracked \cup {NoOrder}] /\ tracked'[q.id] = o
        /\ \A j \in Ids : j # q.id => tracked'[j] = tracked[j]
    BY <1>1, <1>2, TrackedChanges
  <1>6. OwnersKnown'
    BY <1>1, <1>2, <1>5 DEF BaseInv, OwnersKnown
  <1>7. \A i \in Ids : i >= nextId => tracked'[i] = tracked[i]
    <2>1. nextId \in Nat /\ Ids \subseteq Nat
      BY <1>2, IdsAreNat
    <2>2. \A i \in Ids : i >= nextId => i # q.id
      BY <1>1, <2>1
    <2> QED
      BY <1>5, <2>2
  <1>8. Coming[x] = 0 /\ Coming[q] = 0
    BY <1>1, RequestWeighs, IdleWeighs, NoRequestIs
  <1>9. \A i \in Ids : Weight(d, Claim(i)) + NewShares(i)[x] <= NewShares(i)[q]
    <2> SUFFICES ASSUME NEW i \in Ids
                 PROVE  Weight(d, Claim(i)) + NewShares(i)[x] <= NewShares(i)[q]
      OBVIOUS
    <2>1. NewShares(i)[x] = 0
      BY <1>1, RequestWeighs, IdleWeighs, NoRequestIs
    <2>2. NewShares(i)[q] = IF q.id = i THEN Weight(q.trades, SharesOf) ELSE 0
      BY <1>1, RequestWeighs
    <2>3. Weight(q.trades, SharesOf) \in Nat
      BY <1>1, RequestIs
    <2> QED
      BY <1>1, <2>1, <2>2, <2>3
  <1> QED
    BY <1>1, <1>3, <1>4, <1>5, <1>6, <1>7, <1>8, <1>9, <1>0, GoesToKeepsBase

(* RecordPlacementTrades *)
(* x is what is left of request q after its first trade. *)
Rests(q, x) ==
  /\ x \in Request
  /\ \/ x = NoRequest /\ Tail(q.trades) = <<>>
     \/ /\ x.stage = "recording" /\ Tail(q.trades) # <<>>
        /\ x.user = q.user /\ x.side = q.side /\ x.qty = q.qty /\ x.price = q.price
        /\ x.id = q.id /\ x.trades = Tail(q.trades)
RecordsAs(r, q, t, x, d) ==
  /\ q \in Request /\ Recorder(q) /\ q.id \in Ids /\ q.id < nextId /\ owner[q.id] = q.user /\ q.user \in Users
  /\ q.trades \in Seq(Fill) /\ q.trades # <<>> /\ t = Head(q.trades) /\ t \in Fill /\ t \in ToSet(q.trades)
  /\ x \in Request /\ d \in Seq(Call) /\ GoesTo(r, x, d)
Forgets(q, x, d) == tracked[q.id] = NoOrder /\ x = NoRequest /\ d = <<>> /\ tracked' = tracked
Records1(q, x, d, new) ==
  /\ tracked[q.id] # NoOrder /\ ~Completed(tracked[q.id], new) /\ Rests(q, x) /\ d = <<>>
  /\ tracked' = [tracked EXCEPT ![q.id] = new]
Completes(q, x, d, new) ==
  /\ tracked[q.id] # NoOrder /\ Completed(tracked[q.id], new) /\ x = NoRequest /\ d = ReleaseCall(q.user, new.reserve)
  /\ tracked' = [tracked EXCEPT ![q.id] = NoOrder]

LEMMA TailIs ==
  ASSUME NEW S, NEW q, q \in Seq(S), q # <<>>
  PROVE  /\ Len(q) \in Nat /\ Len(q) > 0 /\ Tail(q) \in Seq(S) /\ Len(Tail(q)) = Len(q) - 1
         /\ (Tail(q) = <<>>) <=> (Len(q) = 1)
  <1>1. Len(q) \in Nat /\ Len(q) # 0
    OBVIOUS
  <1>2. Tail(q) \in Seq(S) /\ Len(Tail(q)) = Len(q) - 1
    OBVIOUS
  <1>3. \A p \in Seq(S) : (p = <<>>) <=> (Len(p) = 0)
    OBVIOUS
  <1> DEFINE t == Tail(q)
             n == Len(q)
  <1>4. t \in Seq(S) /\ Len(t) = n - 1 /\ n \in Nat /\ n # 0
    BY <1>1, <1>2
  <1> HIDE DEF t, n
  <1>5. (t = <<>>) <=> (Len(t) = 0)
    BY <1>3, <1>4
  <1>6. n > 0 /\ ((t = <<>>) <=> (n = 1))
    BY ONLY <1>4, <1>5
  <1> QED
    BY <1>4, <1>6 DEF t, n

LEMMA RestOfIs ==
  ASSUME NEW q, q \in Request, Recorder(q), q.trades # <<>>
  PROVE  Rests(q, RestOf(q))
  <1>1. q.trades \in Seq(Fill)
    BY RequestIs
  <1>2. CASE Len(q.trades) = 1
    <2>1. RestOf(q) = NoRequest
      BY <1>2 DEF RestOf
    <2>2. Tail(q.trades) = <<>>
      BY <1>1, <1>2, TailIs
    <2> QED
      BY <2>1, <2>2, NoRequestIs DEF Rests
  <1>3. CASE Len(q.trades) # 1
    <2> DEFINE ts == Tail(q.trades)
    <2>1. RestOf(q) = [q EXCEPT !.stage = "recording", !.trades = ts]
      BY <1>3 DEF RestOf
    <2>2. ts # <<>> /\ ts \in Seq(Fill)
      BY <1>1, <1>3, TailIs
    <2> HIDE DEF ts
    <2>3. PICK x : x = [q EXCEPT !.stage = "recording", !.trades = ts]
      OBVIOUS
    <2>4. x = [stage |-> "recording", user |-> q.user, side |-> q.side, qty |-> q.qty, price |-> q.price,
               seen |-> q.seen, id |-> q.id, trades |-> ts]
      BY <2>3 DEF Request
    <2>5. /\ q.user \in Users \cup {NoUser} /\ q.side \in Side /\ q.qty \in Nat /\ q.price \in Nat
          /\ q.seen \in Int /\ q.id \in Ids \cup Quotes \cup {0}
      BY RequestIs
    <2>6. x \in Request
      BY <2>2, <2>4, <2>5 DEF Request
    <2>7. /\ x.stage = "recording" /\ x.user = q.user /\ x.side = q.side /\ x.qty = q.qty /\ x.price = q.price
          /\ x.id = q.id /\ x.trades = ts
      BY <2>4
    <2>8. Rests(q, x)
      BY <2>2, <2>6, <2>7 DEF Rests, ts
    <2> QED
      BY <2>1, <2>3, <2>8
  <1> QED
    BY <1>2, <1>3

LEMMA RecordIs ==
  ASSUME BaseInv, NEW r, r \in Threads, RecordPlacementTrades(r), UNCHANGED run
  PROVE  \E q, t, x, d, new :
           /\ q = req[r] /\ RecordsAs(r, q, t, x, d)
           /\ new = IF q.id \in {t.maker, t.taker} THEN AfterTrade(tracked[q.id], t) ELSE tracked[q.id]
           /\ tracked[q.id] # NoOrder => new \in Tracked /\ new.user = tracked[q.id].user
           /\ Forgets(q, x, d) \/ Records1(q, x, d, new) \/ Completes(q, x, d, new)
  <1>1. PICK q, t, new : /\ q = req[r] /\ t = Head(q.trades)
                         /\ new = IF q.id \in {t.maker, t.taker} THEN AfterTrade(tracked[q.id], t) ELSE tracked[q.id]
    OBVIOUS
  <1>2. TypeOK /\ q \in Request /\ RequestOK(q) /\ tracked \in [Ids -> Tracked \cup {NoOrder}] /\ todo \in [Actors -> Seq(Call)]
    BY <1>1 DEF BaseInv, TypeOK, RequestsOK
  <1>3. /\ Recorder(q) /\ todo[r] = <<>> /\ new = Recorded(r)
        /\ Still /\ UNCHANGED <<cash, shares, loaded, gen, credited, missed, settled, requests>>
    BY <1>1 DEF RecordPlacementTrades, Recording, Recorder, Recorded, Still, engine, run, settled
  <1>4. /\ q.id \in Ids /\ q.id < nextId /\ owner[q.id] = q.user /\ q.user \in Users /\ q.trades # <<>>
    BY <1>2, <1>3 DEF RequestOK, Placed, Recorder
  <1>5. q.trades \in Seq(Fill) /\ t \in Fill /\ t \in ToSet(q.trades)
    BY <1>1, <1>2, <1>4, RequestIs, TailHolds
  <1>6. tracked[q.id] # NoOrder => new \in Tracked /\ new.user = tracked[q.id].user
    <2> SUFFICES ASSUME tracked[q.id] # NoOrder
                 PROVE  new \in Tracked /\ new.user = tracked[q.id].user
      OBVIOUS
    <2>1. tracked[q.id] \in Tracked
      BY <1>2, <1>4
    <2>2. AfterTrade(tracked[q.id], t) \in Tracked /\ AfterTrade(tracked[q.id], t).user = tracked[q.id].user
      BY <1>5, <2>1, AfterTradeIs DEF After
    <2> QED
      BY <1>1, <2>1, <2>2
  <1>7. ASSUME NEW x, x \in Request, NEW d, d \in Seq(Call), req' = [req EXCEPT ![r] = x], todo' = [todo EXCEPT ![r] = d]
        PROVE  RecordsAs(r, q, t, x, d)
    BY <1>1, <1>2, <1>3, <1>4, <1>5, <1>7 DEF RecordsAs, GoesTo
  <1>8. r \in Actors /\ <<>> \in Seq(Call)
    BY DEF Actors
  <1>9. CASE /\ tracked[q.id] = NoOrder
             /\ req' = [req EXCEPT ![r] = NoRequest]
             /\ UNCHANGED <<tracked, todo>>
    <2>1. todo' = [todo EXCEPT ![r] = <<>>]
      BY <1>2, <1>3, <1>8, <1>9
    <2>2. RecordsAs(r, q, t, NoRequest, <<>>)
      BY <1>7, <1>8, <1>9, <2>1, NoRequestIs
    <2>3. Forgets(q, NoRequest, <<>>)
      BY <1>9 DEF Forgets
    <2> QED
      BY <1>1, <1>6, <2>2, <2>3
  <1>10. CASE /\ tracked[q.id] # NoOrder /\ ~Completed(tracked[q.id], new)
              /\ req' = [req EXCEPT ![r] = RestOf(q)]
              /\ tracked' = [tracked EXCEPT ![q.id] = new]
              /\ UNCHANGED todo
    <2>1. todo' = [todo EXCEPT ![r] = <<>>]
      BY <1>2, <1>3, <1>8, <1>10
    <2>2. Rests(q, RestOf(q)) /\ RestOf(q) \in Request
      BY <1>2, <1>3, <1>4, RestOfIs DEF Rests
    <2>3. RecordsAs(r, q, t, RestOf(q), <<>>)
      <3>1. req' = [req EXCEPT ![r] = RestOf(q)]
        BY <1>10
      <3> QED
        BY ONLY <1>7, <1>8, <2>1, <2>2, <3>1
    <2>4. Records1(q, RestOf(q), <<>>, new)
      BY <1>10, <2>2 DEF Records1
    <2> QED
      BY <1>1, <1>6, <2>3, <2>4
  <1>11. CASE /\ tracked[q.id] # NoOrder /\ Completed(tracked[q.id], new)
              /\ req' = [req EXCEPT ![r] = NoRequest]
              /\ tracked' = [tracked EXCEPT ![q.id] = NoOrder]
              /\ todo' = [todo EXCEPT ![r] = ReleaseCall(q.user, new.reserve)]
    <2>1. new.reserve \in Nat
      BY <1>6, <1>11 DEF Tracked
    <2>2. ReleaseCall(q.user, new.reserve) \in Seq(Call)
      BY <1>4, <2>1, ReleaseCallIs
    <2>3. RecordsAs(r, q, t, NoRequest, ReleaseCall(q.user, new.reserve))
      BY <1>7, <1>11, <2>2, NoRequestIs
    <2>4. Completes(q, NoRequest, ReleaseCall(q.user, new.reserve), new)
      BY <1>11 DEF Completes
    <2> QED
      BY <1>1, <1>6, <2>3, <2>4
  <1> QED
    BY <1>1, <1>3, <1>9, <1>10, <1>11 DEF RecordPlacementTrades, settled

LEMMA RecordKeepsBase ==
  ASSUME BaseInv, NEW r, r \in Threads, RecordPlacementTrades(r), UNCHANGED run
  PROVE  BaseInv'
  <1>1. PICK q, t, x, d, new :
           /\ q = req[r] /\ RecordsAs(r, q, t, x, d)
           /\ tracked[q.id] # NoOrder => new \in Tracked /\ new.user = tracked[q.id].user
           /\ Forgets(q, x, d) \/ Records1(q, x, d, new) \/ Completes(q, x, d, new)
    BY RecordIs
  <1>2. /\ q \in Request /\ Recorder(q) /\ q.id \in Ids /\ q.id < nextId /\ owner[q.id] = q.user /\ q.user \in Users
        /\ q.trades \in Seq(Fill) /\ q.trades # <<>>
        /\ x \in Request /\ d \in Seq(Call) /\ GoesTo(r, x, d)
    BY <1>1 DEF RecordsAs
  <1>3. TypeOK /\ RequestOK(q) /\ nextId' = nextId /\ owner' = owner /\ odd' = odd
    BY <1>1, <1>2 DEF BaseInv, RequestsOK, GoesTo, Still, TypeOK
  <1>4. x = NoRequest \/ Rests(q, x)
    BY <1>1 DEF Forgets, Records1, Completes
  <1>5. RequestOK(x)'
    <2>1. CASE x = NoRequest
      BY <2>1, NoRequestIs DEF RequestOK, Placed, Recorder
    <2>2. CASE /\ x.stage = "recording" /\ Tail(q.trades) # <<>>
               /\ x.user = q.user /\ x.side = q.side /\ x.qty = q.qty /\ x.price = q.price
               /\ x.id = q.id /\ x.trades = Tail(q.trades)
      <3>1. \A y \in ToSet(Tail(q.trades)) : y \in ToSet(q.trades)
        BY <1>2, TailHolds
      <3> QED
        BY <1>2, <1>3, <2>2, <3>1 DEF RequestOK, Placed, Recorder
    <2> QED
      BY <1>4, <2>1, <2>2 DEF Rests
  <1>6. \A c \in ToSet(d) : c.op = "release"
    <2>1. new \in Tracked => new.reserve \in Nat
      BY DEF Tracked
    <2> QED
      BY <1>1, <1>2, <2>1, ReleaseCallIs, NoCalls DEF Forgets, Records1, Completes
  <1>7. \A c \in ToSet(d) : CallOK(c)'
    BY <1>6 DEF CallOK
  <1>8. \A i : Weight(d, Claim(i)) = 0
    <2>1. new \in Tracked => new.reserve \in Nat
      BY DEF Tracked
    <2> QED
      BY <1>1, <1>2, <2>1, ReleaseCallIs, NoCalls DEF Forgets, Records1, Completes
  <1>9. /\ tracked' \in [Ids -> Tracked \cup {NoOrder}]
        /\ \A j \in Ids : j # q.id => tracked'[j] = tracked[j]
        /\ tracked'[q.id] # NoOrder => tracked[q.id] # NoOrder /\ tracked'[q.id].user = tracked[q.id].user
    <2>1. CASE Forgets(q, x, d)
      BY <1>3, <2>1 DEF Forgets, TypeOK
    <2>2. CASE Records1(q, x, d, new)
      <3>1. new \in Tracked /\ new.user = tracked[q.id].user /\ tracked' = [tracked EXCEPT ![q.id] = new]
            /\ tracked[q.id] # NoOrder
        BY <1>1, <2>2 DEF Records1
      <3> QED
        BY <1>2, <1>3, <3>1, TrackedChanges
    <2>3. CASE Completes(q, x, d, new)
      <3>1. tracked' = [tracked EXCEPT ![q.id] = NoOrder]
        BY <2>3 DEF Completes
      <3> QED
        BY <1>2, <1>3, <3>1, TrackedChanges
    <2> QED
      BY <1>1, <2>1, <2>2, <2>3
  <1>10. OwnersKnown'
    BY <1>2, <1>3, <1>9 DEF BaseInv, OwnersKnown
  <1>11. \A i \in Ids : i >= nextId => tracked'[i] = tracked[i]
    <2>1. nextId \in Nat /\ q.id \in Nat /\ Ids \subseteq Nat
      BY <1>2, <1>3, IdsAreNat
    <2>2. q.id < nextId
      BY <1>2
    <2>3. \A i \in Ids : i >= nextId => i # q.id
      BY ONLY <2>1, <2>2
    <2> QED
      BY <1>9, <2>3
  <1>12. Coming[x] = 0 /\ Coming[q] = 0 /\ \A i : NewShares(i)[x] = 0 /\ NewShares(i)[q] \in Nat
    BY <1>2, <1>4, RequestWeighs, IdleWeighs, NoRequestIs, RequestWeights DEF Recorder, Rests
  <1>13. \A i \in Ids : Weight(d, Claim(i)) + NewShares(i)[x] <= NewShares(i)[q]
    BY <1>8, <1>12
  <1> QED
    BY <1>1, <1>2, <1>5, <1>7, <1>9, <1>10, <1>11, <1>12, <1>13, GoesToKeepsBase

(* RemoveFromTracker and UpdateLimit *)
RemovesAs(r, q, d) ==
  /\ q \in Request /\ q.stage = "remove" /\ d \in Seq(Call) /\ GoesTo(r, NoRequest, d)
  /\ \/ (q.id \in Ids => tracked[q.id] = NoOrder) /\ tracked' = tracked /\ d = <<>>
     \/ /\ q.id \in Ids /\ tracked[q.id] # NoOrder /\ tracked[q.id] \in Tracked /\ tracked' = [tracked EXCEPT ![q.id] = NoOrder]
        /\ d = ReleaseCall(tracked[q.id].user, tracked[q.id].reserve)
LEMMA RemovesIs ==
  ASSUME BaseInv, NEW r, r \in Threads, RemoveFromTracker(r), UNCHANGED run
  PROVE  \E q, d : q = req[r] /\ RemovesAs(r, q, d)
  <1>1. PICK q, d : /\ q = req[r]
                    /\ d = IF q.id \in Ids /\ tracked[q.id] # NoOrder
                           THEN ReleaseCall(tracked[q.id].user, tracked[q.id].reserve) ELSE <<>>
    OBVIOUS
  <1>2. TypeOK /\ q \in Request /\ tracked \in [Ids -> Tracked \cup {NoOrder}]
    BY <1>1 DEF BaseInv, TypeOK
  <1>3. /\ q.stage = "remove" /\ todo[r] = <<>> /\ req' = [req EXCEPT ![r] = NoRequest]
        /\ todo' = [todo EXCEPT ![r] = d]
        /\ tracked' = IF q.id \in Ids /\ tracked[q.id] # NoOrder THEN [tracked EXCEPT ![q.id] = NoOrder] ELSE tracked
        /\ Still /\ UNCHANGED <<cash, shares, loaded, gen, credited, missed, settled, requests>>
    BY <1>1 DEF RemoveFromTracker, GoesOn, Still, engine, run, settled
  <1>4. CASE q.id \in Ids /\ tracked[q.id] # NoOrder
    <2>1. tracked[q.id] \in Tracked /\ tracked[q.id].user \in Users /\ tracked[q.id].reserve \in Nat
      BY <1>2, <1>4 DEF Tracked
    <2>2. d \in Seq(Call)
      BY <1>1, <1>4, <2>1, ReleaseCallIs
    <2> QED
      BY <1>1, <1>2, <1>3, <1>4, <2>1, <2>2 DEF RemovesAs, GoesTo
  <1>5. CASE ~(q.id \in Ids /\ tracked[q.id] # NoOrder)
    BY <1>1, <1>2, <1>3, <1>5, NoCalls DEF RemovesAs, GoesTo
  <1> QED
    BY <1>4, <1>5

LEMMA RemovesKeepsBase ==
  ASSUME BaseInv, NEW r, r \in Threads, RemoveFromTracker(r), UNCHANGED run
  PROVE  BaseInv'
  <1>1. PICK q, d : q = req[r] /\ RemovesAs(r, q, d)
    BY RemovesIs
  <1>2. q \in Request /\ q.stage = "remove" /\ d \in Seq(Call) /\ GoesTo(r, NoRequest, d)
    BY <1>1 DEF RemovesAs
  <1>3. TypeOK /\ RequestOK(q) /\ nextId' = nextId /\ owner' = owner /\ tracked \in [Ids -> Tracked \cup {NoOrder}]
    BY <1>1, <1>2 DEF BaseInv, RequestsOK, GoesTo, Still, TypeOK
  <1>4. RequestOK(NoRequest)'
    BY NoRequestIs DEF RequestOK, Placed, Recorder
  <1>5. (\A c \in ToSet(d) : c.op = "release") /\ \A i : Weight(d, Claim(i)) = 0
    <2>1. \A o \in Tracked : o.user \in Users /\ o.reserve \in Nat
      BY DEF Tracked
    <2> QED
      BY <1>1, <2>1, ReleaseCallIs, NoCalls DEF RemovesAs
  <1>6. \A c \in ToSet(d) : CallOK(c)'
    BY <1>5 DEF CallOK
  <1>7. /\ tracked' \in [Ids -> Tracked \cup {NoOrder}]
        /\ \A j \in Ids : tracked'[j] = tracked[j] \/ (tracked'[j] = NoOrder /\ j = q.id)
    BY <1>1, <1>3 DEF RemovesAs
  <1>8. OwnersKnown'
    BY <1>3, <1>7 DEF BaseInv, OwnersKnown
  <1>9. \A i \in Ids : i >= nextId => tracked'[i] = tracked[i]
    BY <1>7 DEF BaseInv, Unused, UnusedId
  <1>10. Coming[NoRequest] = 0 /\ Coming[q] = 0 /\ \A i : NewShares(i)[NoRequest] = 0 /\ NewShares(i)[q] \in Nat
    BY <1>2, NoRequestIs, IdleWeighs, RequestWeights DEF Idles
  <1>11. \A i \in Ids : Weight(d, Claim(i)) + NewShares(i)[NoRequest] <= NewShares(i)[q]
    BY <1>5, <1>10
  <1> QED
    BY <1>1, <1>2, <1>4, <1>6, <1>7, <1>8, <1>9, <1>10, <1>11, NoRequestIs, GoesToKeepsBase

UpdatesAs(r, q) ==
  /\ q \in Request /\ q.stage = "update" /\ GoesTo(r, NoRequest, <<>>)
  /\ \/ tracked' = tracked
     \/ \E n \in Tracked :
          /\ q.id \in Ids /\ tracked[q.id] # NoOrder /\ tracked[q.id] \in Tracked /\ tracked' = [tracked EXCEPT ![q.id] = n]
          /\ n.user = tracked[q.id].user /\ n.side = tracked[q.id].side /\ n.reserve = tracked[q.id].reserve
          /\ "modified" \in odd[q.id]
LEMMA UpdatesIs ==
  ASSUME BaseInv, NEW r, r \in Threads, UpdateLimit(r), UNCHANGED run
  PROVE  \E q : q = req[r] /\ UpdatesAs(r, q)
  <1>1. PICK q : q = req[r]
    OBVIOUS
  <1>2. TypeOK /\ q \in Request /\ RequestOK(q) /\ tracked \in [Ids -> Tracked \cup {NoOrder}] /\ todo \in [Actors -> Seq(Call)]
    BY <1>1 DEF BaseInv, TypeOK, RequestsOK
  <1>3. /\ q.stage = "update" /\ todo[r] = <<>> /\ req' = [req EXCEPT ![r] = NoRequest] /\ todo' = todo
        /\ tracked' = IF q.id \in Ids /\ tracked[q.id] # NoOrder THEN [tracked EXCEPT ![q.id].qty = q.qty] ELSE tracked
        /\ Still /\ UNCHANGED <<cash, shares, loaded, gen, credited, missed, settled, requests>>
    BY <1>1 DEF UpdateLimit, GoesOn, Still, engine, run, settled
  <1>4. todo' = [todo EXCEPT ![r] = <<>>]
    BY <1>2, <1>3
  <1>5. GoesTo(r, NoRequest, <<>>)
    BY <1>3, <1>4 DEF GoesTo
  <1>6. CASE q.id \in Ids /\ tracked[q.id] # NoOrder
    <2>1. PICK o : o = tracked[q.id]
      OBVIOUS
    <2>2. o \in Tracked
      BY <1>2, <1>6, <2>1
    <2>3. q.qty \in Nat \ {0} /\ "modified" \in odd[q.id]
      BY <1>2, <1>3, <1>6, RequestIs DEF RequestOK
    <2>4. PICK n : n = [o EXCEPT !.qty = q.qty]
      OBVIOUS
    <2>5. n = [user |-> o.user, side |-> o.side, qty |-> q.qty, filled |-> o.filled, reserve |-> o.reserve]
      BY <2>2, <2>4 DEF Tracked
    <2>6. n \in Tracked /\ n.user = o.user /\ n.side = o.side /\ n.reserve = o.reserve
      BY <2>2, <2>3, <2>5 DEF Tracked
    <2>7. tracked' = [tracked EXCEPT ![q.id] = n]
      BY <1>3, <1>6, <2>1, <2>4
    <2> QED
      BY <1>1, <1>2, <1>3, <1>5, <1>6, <2>1, <2>2, <2>3, <2>6, <2>7 DEF UpdatesAs
  <1>7. CASE ~(q.id \in Ids /\ tracked[q.id] # NoOrder)
    BY <1>1, <1>2, <1>3, <1>5, <1>7 DEF UpdatesAs
  <1> QED
    BY <1>6, <1>7

LEMMA UpdatesKeepsBase ==
  ASSUME BaseInv, NEW r, r \in Threads, UpdateLimit(r), UNCHANGED run
  PROVE  BaseInv'
  <1>1. PICK q : q = req[r] /\ UpdatesAs(r, q)
    BY UpdatesIs
  <1>2. q \in Request /\ q.stage = "update" /\ GoesTo(r, NoRequest, <<>>)
    BY <1>1 DEF UpdatesAs
  <1>3. TypeOK /\ RequestOK(q) /\ nextId' = nextId /\ owner' = owner /\ tracked \in [Ids -> Tracked \cup {NoOrder}]
    BY <1>1, <1>2 DEF BaseInv, RequestsOK, GoesTo, Still, TypeOK
  <1>4. RequestOK(NoRequest)'
    BY NoRequestIs DEF RequestOK, Placed, Recorder
  <1>5. /\ tracked' \in [Ids -> Tracked \cup {NoOrder}]
        /\ \A j \in Ids : tracked'[j] = tracked[j] \/ (tracked[j] # NoOrder /\ tracked'[j].user = tracked[j].user)
    BY <1>1, <1>3 DEF UpdatesAs
  <1>6. OwnersKnown'
    BY <1>3, <1>5 DEF BaseInv, OwnersKnown
  <1>7. \A i \in Ids : i >= nextId => tracked'[i] = tracked[i]
    BY <1>5 DEF BaseInv, Unused, UnusedId
  <1>8. Coming[NoRequest] = 0 /\ Coming[q] = 0 /\ \A i : NewShares(i)[NoRequest] = 0 /\ NewShares(i)[q] \in Nat
    BY <1>2, NoRequestIs, IdleWeighs, RequestWeights DEF Idles
  <1>9. \A i \in Ids : Weight(<<>>, Claim(i)) + NewShares(i)[NoRequest] <= NewShares(i)[q]
    BY <1>8, NoCalls
  <1> QED
    BY <1>1, <1>2, <1>4, <1>5, <1>6, <1>7, <1>8, <1>9, NoRequestIs, NoCalls, GoesToKeepsBase

(* CallPortfolio: the call c of actor a, which pays new to its user *)
NewCash(c, new) == /\ cash' = [cash EXCEPT ![c.user] = new]
                   /\ new \in Cash
Credits(c) == /\ c.op # "release" /\ settled' = [settled EXCEPT ![c.id] = @ + c.qty]
              /\ credited' \in [Ids -> Nat] /\ missed' \in [Ids -> Nat] /\ shares' \in [Users -> Int]
CallsAs(a, c, q) ==
  /\ c \in Call /\ c \in ToSet(todo[a]) /\ q \in Seq(Call)
  /\ todo[a] # <<>> /\ c = Head(todo[a]) /\ q = Tail(todo[a])
  /\ todo' = [todo EXCEPT ![a] = q]
  /\ Still /\ UNCHANGED <<tracked, req, gen, requests>> /\ loaded' \in SUBSET Users /\ loaded \subseteq loaded'
  /\ \/ /\ c.op = "release" /\ UNCHANGED <<shares, credited, missed, settled>>
        /\ \/ NewCash(c, Release(cash[c.user], c.amount))
           \/ c.user \notin loaded /\ cash' = cash
     \/ Credits(c) /\ c.user \notin loaded /\ cash' = cash
     \/ c.side = "sell" /\ Credits(c) /\ NewCash(c, Sell(cash[c.user], c.price * c.qty))
     \/ c.op = "limitFill" /\ c.side = "buy" /\ Credits(c) /\ NewCash(c, LimitBuy(cash[c.user], c.price * c.qty))
     \/ c.op = "marketFill" /\ c.side = "buy" /\ Credits(c) /\ NewCash(c, MarketBuy(cash[c.user], c.price * c.qty))
     \/ c.op = "marketFill" /\ c.side = "buy" /\ UNCHANGED <<cash, shares, credited, missed, settled>>
LEMMA CallIsOne ==
  ASSUME BaseInv, NEW a, a \in Actors, CallPortfolio(a), UNCHANGED run
  PROVE  \E c, q : CallsAs(a, c, q)
  <1>1. PICK c, q, u, cost, new : /\ c = Head(todo[a]) /\ q = Tail(todo[a]) /\ u = c.user
                                  /\ cost = c.price * c.qty
    OBVIOUS
  <1>2. /\ TypeOK /\ todo[a] \in Seq(Call) /\ cash \in [Users -> Cash] /\ shares \in [Users -> Int]
        /\ loaded \subseteq Users
    BY SMTT(30) DEF BaseInv, TypeOK
  <1>3. /\ todo[a] # <<>> /\ todo' = [todo EXCEPT ![a] = q]
        /\ Still /\ UNCHANGED <<tracked, req, gen, requests>>
    BY <1>1 DEF CallPortfolio, Still, engine, run
  <1>4. c \in Call /\ c \in ToSet(todo[a]) /\ q \in Seq(Call)
    BY <1>1, <1>2, <1>3, TailHolds
  <1>7. u \in Users
    BY <1>1, <1>4, CallIs
  <1>8. loaded' \in SUBSET Users /\ loaded \subseteq loaded'
    <2>1. loaded' = loaded \/ loaded' = loaded \cup {u}
      BY <1>1 DEF CallPortfolio
    <2> QED
      BY <1>2, <1>7, <2>1
  <1>5. CASE c.op = "release"
    <2>1. u \in Users /\ c.amount \in Nat
      BY <1>1, <1>4, <1>5, CallIs
    <2>2. /\ \/ cash' = [cash EXCEPT ![u] = Release(@, c.amount)]
             \/ u \notin loaded /\ cash' = cash
          /\ UNCHANGED <<shares, credited, missed>>
      BY <1>1, <1>5 DEF CallPortfolio
    <2>3. Release(cash[u], c.amount) \in Cash
      BY <1>2, <2>1, CashIs
    <2>4. NewCash(c, Release(cash[c.user], c.amount)) \/ (c.user \notin loaded /\ cash' = cash)
      BY <1>1, <1>2, <2>2, <2>3 DEF NewCash
    <2>5. settled' = settled
      BY <2>2 DEF settled
    <2> QED
      BY <1>1, <1>3, <1>4, <1>5, <1>8, <2>2, <2>4, <2>5 DEF CallsAs
  <1>6. CASE c.op # "release"
    <2>1. /\ u \in Users /\ cost \in Nat /\ c.qty \in Nat /\ c.id \in Ids /\ c.op \in {"limitFill", "marketFill"}
          /\ c.side \in {"buy", "sell"}
      BY <1>1, <1>4, <1>6, CallIs DEF Side
    <2> DEFINE Pays(x) == /\ cash' = [cash EXCEPT ![u] = x]
                          /\ credited' = [credited EXCEPT ![c.id] = @ + c.qty] /\ missed' = missed
                          /\ shares' = [shares EXCEPT ![u] = IF c.side = "buy" THEN @ + c.qty ELSE @ - c.qty]
               Misses == /\ u \notin loaded /\ missed' = [missed EXCEPT ![c.id] = @ + c.qty]
                         /\ UNCHANGED <<cash, shares, credited>>
    <2>2. \/ Misses
          \/ c.side = "sell" /\ Pays(Sell(cash[u], cost))
          \/ c.op = "limitFill" /\ c.side = "buy" /\ Pays(LimitBuy(cash[u], cost))
          \/ c.op = "marketFill" /\ c.side = "buy" /\ Pays(MarketBuy(cash[u], cost))
          \/ c.op = "marketFill" /\ c.side = "buy" /\ UNCHANGED <<cash, shares, credited, missed>>
      BY ONLY CallPortfolio(a), <1>1, <1>6, <2>1 DEF CallPortfolio
    <2>3. Sell(cash[u], cost) \in Cash /\ LimitBuy(cash[u], cost) \in Cash /\ MarketBuy(cash[u], cost) \in Cash
      BY <1>2, <2>1, CashIs
    <2>4. ASSUME NEW x, x \in Cash, Pays(x)
          PROVE  Credits(c) /\ NewCash(c, x)
      <3>1. shares' \in [Users -> Int]
        BY <1>2, <2>1, <2>4
      <3>2. /\ settled' = [settled EXCEPT ![c.id] = @ + c.qty]
            /\ credited' \in [Ids -> Nat] /\ missed' \in [Ids -> Nat]
        BY <1>2, <2>1, <2>4, SettledGrows
      <3> QED
        BY <1>1, <1>6, <2>4, <3>1, <3>2 DEF Credits, NewCash
    <2>6. ASSUME Misses
          PROVE  Credits(c) /\ c.user \notin loaded /\ cash' = cash
      <3>1. /\ settled' = [settled EXCEPT ![c.id] = @ + c.qty]
            /\ credited' \in [Ids -> Nat] /\ missed' \in [Ids -> Nat]
        BY <1>2, <2>1, <2>6, SettledGrows
      <3> QED
        BY <1>1, <1>2, <1>6, <2>6, <3>1 DEF Credits
    <2>7. UNCHANGED <<credited, missed>> => settled' = settled
      BY DEF settled
    <2> HIDE DEF Pays, Misses
    <2>5. \/ Credits(c) /\ c.user \notin loaded /\ cash' = cash
          \/ c.side = "sell" /\ Credits(c) /\ NewCash(c, Sell(cash[u], cost))
          \/ c.op = "limitFill" /\ c.side = "buy" /\ Credits(c) /\ NewCash(c, LimitBuy(cash[u], cost))
          \/ c.op = "marketFill" /\ c.side = "buy" /\ Credits(c) /\ NewCash(c, MarketBuy(cash[u], cost))
          \/ c.op = "marketFill" /\ c.side = "buy" /\ UNCHANGED <<cash, shares, credited, missed, settled>>
      BY <2>2, <2>3, <2>4, <2>6, <2>7
    <2> QED
      BY <1>1, <1>3, <1>4, <1>8, <2>5 DEF CallsAs
  <1> QED
    BY <1>5, <1>6

(* A call that is made is no longer to come. *)
LEMMA CallGone ==
  ASSUME TypeOK, NEW a, a \in Actors, NEW c, NEW q, CallsAs(a, c, q)
  PROVE  /\ todo' \in [Actors -> Seq(Call)] /\ todo'[a] = q
         /\ \A b \in Actors : b # a => todo'[b] = todo[b]
         /\ \A d \in ToSet(q) : d \in ToSet(todo[a])
         /\ \A i : Claims(i) = Claims(i)' + Claim(i)[c] /\ Claims(i)' \in Nat /\ Claim(i)[c] \in Nat
         /\ \A u : /\ Weight(todo, Each(Owed(u))) = Weight(todo', Each(Owed(u))) + Owed(u)[c]
                   /\ Weight(todo', Each(Owed(u))) \in Nat /\ Owed(u)[c] \in Nat
  <1>1. /\ todo[a] \in Seq(Call) /\ todo[a] # <<>> /\ c = Head(todo[a]) /\ q = Tail(todo[a]) /\ q \in Seq(Call) /\ c \in Call
        /\ todo' = [todo EXCEPT ![a] = q]
    BY DEF CallsAs, TypeOK
  <1>2. /\ todo' \in [Actors -> Seq(Call)] /\ todo'[a] = q
        /\ \A b \in Actors : b # a => todo'[b] = todo[b]
        /\ \A w \in [Call -> Nat] :
              /\ Weight(todo', Each(w)) + Weight(todo[a], w) = Weight(todo, Each(w)) + Weight(q, w)
              /\ Weight(todo', Each(w)) \in Nat /\ Weight(todo, Each(w)) \in Nat
              /\ Weight(todo[a], w) \in Nat /\ Weight(q, w) \in Nat
    BY ONLY TypeOK, a \in Actors, <1>1, TodoChanges
  <1>3. ASSUME NEW w, w \in [Call -> Nat]
        PROVE  /\ Weight(todo, Each(w)) = Weight(todo', Each(w)) + w[c]
               /\ Weight(todo', Each(w)) \in Nat /\ w[c] \in Nat
    <2>1. Weight(todo[a], w) = w[c] + Weight(q, w)
      <3>1. Weight(todo[a], w) = w[Head(todo[a])] + Weight(Tail(todo[a]), w)
        BY ONLY <1>1, <1>3, WeightOfTail
      <3> QED
        BY ONLY <1>1, <3>1
    <2>2. w[c] \in Nat
      BY <1>1, <1>3
    <2>3. /\ Weight(todo', Each(w)) + Weight(todo[a], w) = Weight(todo, Each(w)) + Weight(q, w)
          /\ Weight(todo', Each(w)) \in Nat /\ Weight(todo, Each(w)) \in Nat
          /\ Weight(todo[a], w) \in Nat /\ Weight(q, w) \in Nat
      BY <1>2, <1>3
    <2> QED
      BY ONLY <2>1, <2>2, <2>3
  <1>4. \A d \in ToSet(q) : d \in ToSet(todo[a])
    BY <1>1, TailHolds
  <1>5. \A i : Claims(i) = Claims(i)' + Claim(i)[c] /\ Claims(i)' \in Nat /\ Claim(i)[c] \in Nat
    BY <1>3, CallWeights DEF Claims
  <1>6. \A u : /\ Weight(todo, Each(Owed(u))) = Weight(todo', Each(Owed(u))) + Owed(u)[c]
               /\ Weight(todo', Each(Owed(u))) \in Nat /\ Owed(u)[c] \in Nat
    BY <1>3, CallWeights
  <1> QED
    BY <1>2, <1>4, <1>5, <1>6

LEMMA CallKeepsBase ==
  ASSUME BaseInv, NEW a, a \in Actors, CallPortfolio(a), UNCHANGED run
  PROVE  BaseInv'
  <1>1. PICK c, q : CallsAs(a, c, q)
    BY CallIsOne
  <1>2. /\ TypeOK /\ RequestsOK /\ TickOK /\ CallsOK /\ OwnersKnown
        /\ c \in Call /\ c \in ToSet(todo[a]) /\ q \in Seq(Call) /\ todo[a] # <<>>
        /\ Still /\ UNCHANGED <<tracked, req, gen, requests>>
    BY <1>1 DEF BaseInv, CallsAs
  <1>3. /\ todo' \in [Actors -> Seq(Call)] /\ todo'[a] = q
        /\ \A b \in Actors : b # a => todo'[b] = todo[b]
        /\ \A d \in ToSet(q) : d \in ToSet(todo[a])
        /\ \A i : Claims(i) = Claims(i)' + Claim(i)[c] /\ Claims(i)' \in Nat /\ Claim(i)[c] \in Nat
    BY <1>1, <1>2, CallGone
  <1>4. /\ cash' \in [Users -> Cash] /\ shares' \in [Users -> Int]
        /\ settled' = settled \/ Credits(c)
        /\ credited' \in [Ids -> Nat] /\ missed' \in [Ids -> Nat] /\ loaded' \subseteq Users
    <2>1. \A new \in Cash : cash' = [cash EXCEPT ![c.user] = new] => cash' \in [Users -> Cash]
      BY <1>2 DEF TypeOK
    <2>2. cash' = cash \/ \E new : NewCash(c, new)
      BY <1>1 DEF CallsAs
    <2>3. (UNCHANGED <<shares, credited, missed, settled>>) \/ Credits(c)
      BY <1>1 DEF CallsAs
    <2>4. cash' \in [Users -> Cash]
      BY <1>2, <2>1, <2>2 DEF NewCash, TypeOK
    <2>5. loaded' \subseteq Users
      BY <1>1 DEF CallsAs
    <2> QED
      BY <1>2, <2>3, <2>4, <2>5 DEF Credits, TypeOK
  <1>5. /\ settled' \in [Ids -> Nat]
        /\ \A i \in Ids : settled'[i] + Claims(i)' <= settled[i] + Claims(i)
        /\ \A i \in Ids : i >= nextId => settled'[i] = settled[i]
    <2>1. CASE settled' = settled
      <3>1. \A i \in Ids : settled'[i] = settled[i] /\ settled[i] \in Nat
        BY <1>2, <2>1, SettledIs
      <3>2. ASSUME NEW i, i \in Ids
            PROVE  settled'[i] + Claims(i)' <= settled[i] + Claims(i)
        <4>1. settled'[i] = settled[i] /\ settled[i] \in Nat
          BY <3>1, <3>2
        <4>2. Claims(i) = Claims(i)' + Claim(i)[c] /\ Claims(i)' \in Nat /\ Claim(i)[c] \in Nat
          BY <1>3
        <4> QED
          BY ONLY <4>1, <4>2
      <3> QED
        BY <1>2, <2>1, <3>1, <3>2, SettledIs
    <2>2. CASE Credits(c)
      <3>1. /\ c.op # "release" /\ settled' = [settled EXCEPT ![c.id] = @ + c.qty] /\ settled \in [Ids -> Nat]
            /\ c.id \in Ids /\ c.qty \in Nat /\ c.id < nextId
        BY <1>2, <2>2, CallIs, SettledIs DEF Credits, CallsOK, CallOK
      <3>2. \A i : Claim(i)[c] = IF c.id = i THEN c.qty ELSE 0
        BY <1>2, <3>1 DEF Claim
      <3>3. ASSUME NEW i \in Ids
            PROVE  settled'[i] = settled[i] + Claim(i)[c] /\ settled[i] \in Nat
        BY <3>1, <3>2
      <3>4. ASSUME NEW i, i \in Ids
            PROVE  settled'[i] + Claims(i)' <= settled[i] + Claims(i)
        <4>1. settled'[i] = settled[i] + Claim(i)[c] /\ settled[i] \in Nat
          BY <3>3, <3>4
        <4>2. Claims(i) = Claims(i)' + Claim(i)[c] /\ Claims(i)' \in Nat /\ Claim(i)[c] \in Nat
          BY <1>3
        <4> QED
          BY ONLY <4>1, <4>2
      <3>5. \A i \in Ids : i >= nextId => i # c.id
        <4>1. nextId \in Nat /\ Ids \subseteq Nat
          BY <1>2, IdsAreNat
        <4> QED
          BY ONLY <3>1, <4>1
      <3> QED
        BY <3>1, <3>4, <3>5
    <2> QED
      BY <1>4, <2>1, <2>2
  <1>6. TypeOK'
    BY <1>2, <1>3, <1>4, <1>5 DEF TypeOK, Still
  <1>7. Grows
    BY <1>2, StillIs
  <1>8. RequestsOK'
    BY <1>2, <1>7, RequestsStay
  <1>9. TickOK'
    <2>1. gen.stage \in {"idle", "reconcile"} => todo'[Generator] = <<>>
      <3>1. Generator \in Actors
        BY DEF Actors
      <3> QED
        BY <1>2, <1>3, <3>1 DEF TickOK
    <2> QED
      BY <1>2, <2>1 DEF TickOK
  <1>10. CallsOK'
    <2>1. \A b \in Actors : \A d \in ToSet(todo'[b]) : d \in ToSet(todo[b]) \/ CallOK(d)'
      BY <1>3
    <2> QED
      BY <1>2, <1>7, <2>1, CallsStay
  <1>11. OwnersKnown'
    BY <1>2 DEF OwnersKnown, Still
  <1>12. TracksKeeps
    <2>1. ASSUME NEW i, i \in Ids
          PROVE  Accounted(i)' <= Accounted(i)
      <3>1. /\ Accounted(i) = settled[i] + Claims(i) + Weight(req, NewShares(i)) + Made(i)
            /\ settled[i] \in Nat /\ Claims(i) \in Nat /\ Weight(req, NewShares(i)) \in Nat /\ Made(i) \in Nat
        BY <1>2, <2>1, AccountedIsNat
      <3>2. Accounted(i)' = settled'[i] + Claims(i)' + Weight(req, NewShares(i)) + Made(i)
        BY <1>2 DEF Accounted, Made
      <3>3. settled'[i] + Claims(i)' <= settled[i] + Claims(i) /\ settled'[i] \in Nat /\ Claims(i)' \in Nat
        BY <1>3, <1>5, <2>1
      <3> QED
        BY ONLY <3>1, <3>2, <3>3
    <2> QED
      BY <1>2, <1>5, <2>1 DEF TracksKeeps
  <1> QED
    BY <1>6, <1>8, <1>9, <1>10, <1>11, <1>12, TracksKeepBase

(* Reconcile: the calls d are d0, the fill of n shares of order id of u and  *)
(* perhaps the release of what is left of its reserve.                       *)
Adds(d, d0, id, u, side, n, m, rest) ==
  /\ d \in Seq(Call)
  /\ \A c \in ToSet(d) : c \in ToSet(d0) \/ c.op = "release" \/ (c.op = "limitFill" /\ c.id = id /\ c.user = u)
  /\ \A i : Weight(d, Claim(i)) = Weight(d0, Claim(i)) + (IF i = id THEN n ELSE 0)
  /\ \A v : Weight(d, Owed(v)) = Weight(d0, Owed(v)) + (IF v = u THEN (IF side = "buy" THEN m ELSE 0) + rest ELSE 0)
FillOf(o, t, n) == [op |-> "limitFill", user |-> o.user, id |-> t.maker, side |-> o.side, price |-> t.price, qty |-> n]
LEMMA FillAdds ==
  ASSUME NEW o, o \in Tracked, NEW t, t \in Fill, t.maker \in Ids, NEW n, n \in Nat, n > 0,
         NEW d0, d0 \in Seq(Call)
  PROVE  Adds(Append(d0, FillOf(o, t, n)), d0, t.maker, o.user, o.side, n, t.price * n, 0)
  <1>1. PICK f : f = FillOf(o, t, n)
    OBVIOUS
  <1>2. /\ o.user \in Users /\ o.side \in Side /\ t.price \in Prices
    BY DEF Tracked, Fill
  <1>3. /\ f \in Call /\ f.op = "limitFill" /\ f.user = o.user /\ f.id = t.maker /\ f.side = o.side
        /\ f.qty = n /\ f.price = t.price
    BY <1>1, <1>2 DEF FillOf, Call
  <1>4. PICK d : d = Append(d0, f)
    OBVIOUS
  <1>5. d \in Seq(Call) /\ \A c \in ToSet(d) : c = f \/ c \in ToSet(d0)
    BY <1>3, <1>4, AppendHolds
  <1>6. \A w \in [Call -> Nat] : Weight(d, w) = Weight(d0, w) + w[f]
    BY <1>3, <1>4, WeightOfAppend
  <1>7. ASSUME NEW i
        PROVE  Weight(d, Claim(i)) = Weight(d0, Claim(i)) + (IF i = t.maker THEN n ELSE 0)
    <2>1. Claim(i)[f] = IF i = t.maker THEN n ELSE 0
      BY <1>3 DEF Claim
    <2> QED
      BY <1>6, <2>1, CallWeights
  <1>8. ASSUME NEW v
        PROVE  Weight(d, Owed(v)) = Weight(d0, Owed(v))
                 + (IF v = o.user THEN (IF o.side = "buy" THEN t.price * n ELSE 0) + 0 ELSE 0)
    <2>1. Owed(v)[f] = Pending(v, f)
      BY <1>3 DEF Owed
    <2>2. Pending(v, f) = IF v = o.user THEN (IF o.side = "buy" THEN t.price * n ELSE 0) ELSE 0
      <3>1. "limitFill" # "release"
        OBVIOUS
      <3> QED
        BY <1>3, <3>1, PendingIs
    <2>3. t.price * n \in Nat
      BY <1>2, PricesAreNat, ProductType
    <2> QED
      BY <1>6, <2>1, <2>2, <2>3, CallWeights
  <1>9. Adds(d, d0, t.maker, o.user, o.side, n, t.price * n, 0)
    BY <1>3, <1>5, <1>7, <1>8 DEF Adds
  <1> QED
    BY <1>1, <1>4, <1>9

LEMMA ReleaseAdds ==
  ASSUME NEW id, NEW u, u \in Users, NEW side, NEW n, n \in Nat, NEW m, m \in Nat,
         NEW d0, d0 \in Seq(Call), NEW d, Adds(d, d0, id, u, side, n, m, 0), NEW rest, rest \in Nat
  PROVE  Adds(d \o ReleaseCall(u, rest), d0, id, u, side, n, m, rest)
  <1>1. PICK q, g : q = ReleaseCall(u, rest) /\ g = d \o q
    OBVIOUS
  <1>2. /\ d \in Seq(Call)
        /\ \A c \in ToSet(d) : c \in ToSet(d0) \/ c.op = "release" \/ (c.op = "limitFill" /\ c.id = id /\ c.user = u)
        /\ \A i : Weight(d, Claim(i)) = Weight(d0, Claim(i)) + (IF i = id THEN n ELSE 0)
        /\ \A v : Weight(d, Owed(v)) = Weight(d0, Owed(v)) + (IF v = u THEN (IF side = "buy" THEN m ELSE 0) + 0 ELSE 0)
    BY DEF Adds
  <1>3. /\ \A i : Weight(q, Claim(i)) = 0
        /\ \A v : Weight(q, Owed(v)) = IF v = u THEN rest ELSE 0
        /\ q = <<>> \/ \E c \in Call : q = <<c>> /\ c.op = "release"
    BY <1>1, ReleaseCallIs
  <1>4. ASSUME NEW w, w \in [Call -> Nat]
        PROVE  Weight(g, w) = Weight(d, w) + Weight(q, w) /\ Weight(d, w) \in Nat /\ Weight(d0, w) \in Nat
    <2>0. Weight(d, w) \in Nat /\ Weight(d0, w) \in Nat
      BY <1>2, <1>4, WeightType
    <2>1. CASE q = <<>>
      <3>1. g = d /\ Weight(q, w) = 0
        BY <1>1, <1>2, <2>1, WeightOfEmpty
      <3> QED
        BY <2>0, <3>1
    <2>2. CASE q # <<>>
      <3>1. PICK c \in Call : q = <<c>>
        BY <1>3, <2>2
      <3>2. g = Append(d, c) /\ q = Append(<<>>, c) /\ <<>> \in Seq(Call)
        BY <1>1, <1>2, <3>1
      <3>3. Weight(g, w) = Weight(d, w) + w[c] /\ Weight(q, w) = Weight(<<>>, w) + w[c] /\ Weight(<<>>, w) = 0
        BY <1>2, <1>4, <3>2, WeightOfAppend, WeightOfEmpty
      <3>4. w[c] \in Nat
        BY <1>4
      <3> QED
        BY ONLY <2>0, <3>3, <3>4
    <2> QED
      BY <2>1, <2>2
  <1>5. g \in Seq(Call) /\ \A c \in ToSet(g) : c \in ToSet(d) \/ c.op = "release"
    <2>1. CASE q = <<>>
      BY <1>1, <1>2, <2>1
    <2>2. CASE q # <<>>
      <3>1. PICK c \in Call : q = <<c>> /\ c.op = "release"
        BY <1>3, <2>2
      <3>2. g = Append(d, c)
        BY <1>1, <1>2, <3>1
      <3> QED
        BY <1>2, <3>1, <3>2, AppendHolds
    <2> QED
      BY <2>1, <2>2
  <1>6. ASSUME NEW i
        PROVE  Weight(g, Claim(i)) = Weight(d0, Claim(i)) + (IF i = id THEN n ELSE 0)
    <2>1. /\ Weight(g, Claim(i)) = Weight(d, Claim(i)) + Weight(q, Claim(i))
          /\ Weight(d, Claim(i)) \in Nat /\ Weight(d0, Claim(i)) \in Nat
      BY <1>4, CallWeights
    <2>2. /\ Weight(d, Claim(i)) = Weight(d0, Claim(i)) + (IF i = id THEN n ELSE 0)
          /\ Weight(q, Claim(i)) = 0
      BY <1>2, <1>3
    <2> QED
      BY ONLY <2>1, <2>2, n \in Nat
  <1>7. ASSUME NEW v
        PROVE  Weight(g, Owed(v)) = Weight(d0, Owed(v)) + (IF v = u THEN (IF side = "buy" THEN m ELSE 0) + rest ELSE 0)
    <2>1. /\ Weight(g, Owed(v)) = Weight(d, Owed(v)) + Weight(q, Owed(v))
          /\ Weight(d, Owed(v)) \in Nat /\ Weight(d0, Owed(v)) \in Nat
      BY <1>4, CallWeights
    <2>2. /\ Weight(d, Owed(v)) = Weight(d0, Owed(v)) + (IF v = u THEN (IF side = "buy" THEN m ELSE 0) + 0 ELSE 0)
          /\ Weight(q, Owed(v)) = IF v = u THEN rest ELSE 0
      BY <1>2, <1>3
    <2> QED
      BY ONLY <2>1, <2>2, m \in Nat, rest \in Nat
  <1>8. Adds(g, d0, id, u, side, n, m, rest)
    BY <1>2, <1>5, <1>6, <1>7 DEF Adds
  <1> QED
    BY <1>1, <1>8

(* The next trade of the tick is t, those after it are ts. *)
TickGoes(t, ts) ==
  /\ t \in Fill /\ ts \in Seq(Fill) /\ gen.trades # <<>> /\ gen.stage # "idle"
  /\ gen' \in Tick /\ gen'.trades = ts /\ gen'.stage \in {"quote", "reconciling"}
  /\ (gen'.stage = "quote") <=> (ts = <<>>)
  /\ \A w \in [Fill -> Nat] : /\ Weight(gen.trades, w) = w[t] + Weight(ts, w)
                              /\ w[t] \in Nat /\ Weight(ts, w) \in Nat
Misses(t) ==
  /\ UNCHANGED <<tracked, todo>>
  /\ t.maker \in Ids /\ tracked[t.maker] # NoOrder => After(tracked[t.maker], tracked[t.maker], t, 0)
Hits(t, o, new, n, d) ==
  /\ t.maker \in Ids /\ o = tracked[t.maker] /\ o \in Tracked /\ o # NoOrder
  /\ n \in Nat /\ n > 0 /\ After(o, new, t, n) /\ new \in Tracked
  /\ todo' = [todo EXCEPT ![Generator] = d]
  /\ \/ /\ ~(new.filled >= new.qty) /\ tracked' = [tracked EXCEPT ![t.maker] = new]
        /\ Adds(d, todo[Generator], t.maker, o.user, o.side, n, t.price * n, 0)
     \/ /\ new.filled >= new.qty /\ tracked' = [tracked EXCEPT ![t.maker] = NoOrder]
        /\ Adds(d, todo[Generator], t.maker, o.user, o.side, n, t.price * n, new.reserve)
ReconcilesAs(t, ts) ==
  /\ TickGoes(t, ts)
  /\ Still /\ UNCHANGED <<cash, shares, loaded, req, requests, credited, missed, settled>>
  /\ Misses(t) \/ \E o, new, n, d : Hits(t, o, new, n, d)
LEMMA ReconcileIs ==
  ASSUME BaseInv, Reconcile, UNCHANGED run
  PROVE  \E t, ts : ReconcilesAs(t, ts)
  <1>1. PICK t, ts, old, o, new :
           /\ t = Head(gen.trades) /\ ts = Tail(gen.trades) /\ old = gen.trades
           /\ o = IF t.maker \in Ids THEN tracked[t.maker] ELSE NoOrder
           /\ new = AfterTrade(o, t)
    OBVIOUS
  <1>2. /\ TypeOK /\ gen \in Tick /\ old \in Seq(Fill) /\ TickOK /\ tracked \in [Ids -> Tracked \cup {NoOrder}]
        /\ todo[Generator] \in Seq(Call) /\ Generator \in Actors
    BY <1>1 DEF BaseInv, TypeOK, Tick, Actors
  <1>3. /\ gen.stage \in {"reconcile", "reconciling"}
        /\ gen' = [gen EXCEPT !.stage = IF Len(gen.trades) = 1 THEN "quote" ELSE "reconciling", !.trades = Tail(@)]
        /\ Still /\ UNCHANGED <<cash, shares, loaded, req, requests, credited, missed, settled>>
    BY DEF Reconcile, Still, engine, run, settled
  <1>11. ReconcileTrade(t, o, new)
    BY <1>1 DEF Reconcile, settled
  <1>12. PICK fill : fill = [op |-> "limitFill", user |-> o.user, id |-> t.maker, side |-> o.side,
                             price |-> t.price, qty |-> Applied(o, t)]
    OBVIOUS
  <1>4. old # <<>>
    BY <1>1, <1>2, <1>3 DEF TickOK
  <1>5. t \in Fill /\ ts \in Seq(Fill) /\ ((ts = <<>>) <=> (Len(old) = 1))
    BY <1>1, <1>2, <1>4, TailIs, TailHolds
  <1>6. \A w \in [Fill -> Nat] : /\ Weight(old, w) = w[t] + Weight(ts, w)
                                 /\ w[t] \in Nat /\ Weight(ts, w) \in Nat
    <2> SUFFICES ASSUME NEW w, w \in [Fill -> Nat]
                 PROVE  /\ Weight(old, w) = w[t] + Weight(ts, w)
                        /\ w[t] \in Nat /\ Weight(ts, w) \in Nat
      OBVIOUS
    <2>1. Weight(old, w) = w[Head(old)] + Weight(Tail(old), w)
      BY ONLY <1>2, <1>4, w \in [Fill -> Nat], WeightOfTail
    <2>2. Weight(ts, w) \in Nat
      BY <1>5, WeightType
    <2> QED
      BY <1>1, <1>5, <2>1, <2>2
  <1>7. TickGoes(t, ts)
    <2>1. PICK s : s = IF Len(old) = 1 THEN "quote" ELSE "reconciling"
      OBVIOUS
    <2>2. gen' = [gen EXCEPT !.stage = s, !.trades = ts]
      BY <1>1, <1>3, <2>1
    <2>3. gen' = [stage |-> s, side |-> gen.side, bid |-> gen.bid, trades |-> ts]
      BY <1>2, <2>2 DEF Tick
    <2>4. gen.side \in Side /\ gen.bid \in Nat /\ s \in {"quote", "reconciling"}
      BY <1>2, <2>1 DEF Tick
    <2>5. gen' \in Tick /\ gen'.trades = ts /\ gen'.stage = s
      BY <1>5, <2>3, <2>4 DEF Tick
    <2>6. (s = "quote") <=> (ts = <<>>)
      BY <1>5, <2>1
    <2> QED
      BY <1>1, <1>3, <1>4, <1>5, <1>6, <2>4, <2>5, <2>6 DEF TickGoes
  <1>8. ASSUME o # NoOrder
        PROVE  t.maker \in Ids /\ o \in Tracked /\ o = tracked[t.maker] /\ \E n \in Nat : After(o, new, t, n)
    BY <1>1, <1>2, <1>5, <1>8, AfterTradeIs
  <1>9. CASE ~(o # NoOrder /\ new # o)
    <2>1. UNCHANGED <<tracked, todo>>
      BY ONLY <1>9, <1>11 DEF ReconcileTrade
    <2>2. t.maker \in Ids /\ tracked[t.maker] # NoOrder => After(tracked[t.maker], tracked[t.maker], t, 0)
      <3>1. SUFFICES ASSUME t.maker \in Ids, tracked[t.maker] # NoOrder
                     PROVE  After(tracked[t.maker], tracked[t.maker], t, 0)
        OBVIOUS
      <3>2. o = tracked[t.maker] /\ o # NoOrder /\ new = o
        BY <1>1, <1>9, <3>1
      <3>3. PICK n \in Nat : After(o, new, t, n)
        BY <1>8, <3>2
      <3>4. n = 0
        BY <3>2, <3>3 DEF After
      <3> QED
        BY <3>2, <3>3, <3>4
    <2> QED
      BY <1>3, <1>7, <2>1, <2>2 DEF ReconcilesAs, Misses
  <1>10. CASE o # NoOrder /\ new # o
    <2>1. PICK n \in Nat : After(o, new, t, n)
      BY <1>8, <1>10
    <2>2. n > 0 /\ n = Applied(o, t) /\ new \in Tracked
      BY <1>10, <2>1 DEF After
    <2>3. t.maker \in Ids /\ o \in Tracked /\ o = tracked[t.maker] /\ o.user \in Users
      BY <1>8, <1>10 DEF Tracked
    <2>4. PICK d0, d : d0 = todo[Generator] /\ d = Append(d0, FillOf(o, t, n))
      OBVIOUS
    <2>5. Adds(d, d0, t.maker, o.user, o.side, n, t.price * n, 0)
      BY <1>2, <1>5, <2>2, <2>3, <2>4, FillAdds
    <2>6. \/ /\ ~(new.filled >= new.qty) /\ tracked' = [tracked EXCEPT ![t.maker] = new]
             /\ todo' = [todo EXCEPT ![Generator] = d]
          \/ /\ new.filled >= new.qty /\ tracked' = [tracked EXCEPT ![t.maker] = NoOrder]
             /\ todo' = [todo EXCEPT ![Generator] = d \o ReleaseCall(o.user, new.reserve)]
      <3>1. Completed(o, new) <=> new.filled >= new.qty
        BY <1>10 DEF Completed
      <3>2. fill = FillOf(o, t, n)
        BY <1>12, <2>2 DEF FillOf
      <3>3. \/ /\ ~Completed(o, new)
               /\ tracked' = [tracked EXCEPT ![t.maker] = new]
               /\ todo' = [todo EXCEPT ![Generator] = Append(@, fill)]
            \/ /\ Completed(o, new)
               /\ tracked' = [tracked EXCEPT ![t.maker] = NoOrder]
               /\ todo' = [todo EXCEPT ![Generator] = Append(@, fill) \o ReleaseCall(o.user, new.reserve)]
        BY ONLY <1>10, <1>11, <1>12 DEF ReconcileTrade
      <3> QED
        BY ONLY <2>4, <3>1, <3>2, <3>3
    <2>7. CASE /\ ~(new.filled >= new.qty) /\ tracked' = [tracked EXCEPT ![t.maker] = new]
               /\ todo' = [todo EXCEPT ![Generator] = d]
      <3>1. Hits(t, o, new, n, d)
        BY <1>10, <2>1, <2>2, <2>3, <2>4, <2>5, <2>7 DEF Hits
      <3> QED
        BY <1>3, <1>7, <3>1 DEF ReconcilesAs
    <2>8. CASE /\ new.filled >= new.qty /\ tracked' = [tracked EXCEPT ![t.maker] = NoOrder]
               /\ todo' = [todo EXCEPT ![Generator] = d \o ReleaseCall(o.user, new.reserve)]
      <3>1. new.reserve \in Nat /\ t.price * n \in Nat
        <4>1. t.price \in Nat
          BY <1>5, PricesAreNat DEF Fill
        <4> QED
          BY <2>2, <4>1, ProductType DEF Tracked
      <3>2. PICK g : g = d \o ReleaseCall(o.user, new.reserve)
        OBVIOUS
      <3>3. Adds(g, d0, t.maker, o.user, o.side, n, t.price * n, new.reserve)
        BY <1>2, <2>3, <2>4, <2>5, <3>1, <3>2, ReleaseAdds
      <3>4. Hits(t, o, new, n, g)
        BY <1>10, <2>1, <2>2, <2>3, <2>4, <2>8, <3>2, <3>3 DEF Hits
      <3> QED
        BY <1>3, <1>7, <3>4 DEF ReconcilesAs
    <2> QED
      BY <2>6, <2>7, <2>8
  <1> QED
    BY <1>9, <1>10

(* What a reconciled trade changes in the sums *)
ReconcileSums(t, ts, m, u, side, n, cost, rest) ==
  /\ todo' \in [Actors -> Seq(Call)]
  /\ \A b \in Actors : b # Generator => todo'[b] = todo[b]
  /\ \A c \in ToSet(todo'[Generator]) :
        c \in ToSet(todo[Generator]) \/ c.op = "release" \/ (c.op = "limitFill" /\ c.id = m /\ c.user = u)
  /\ \A i : Claims(i)' = Claims(i) + (IF i = m THEN n ELSE 0)
  /\ \A v : Weight(todo', Each(Owed(v))) = Weight(todo, Each(Owed(v)))
              + (IF v = u THEN (IF side = "buy" THEN cost ELSE 0) + rest ELSE 0)
LEMMA HitsSums ==
  ASSUME TypeOK, NEW t, t \in Fill, NEW ts, NEW m, NEW u, NEW side, NEW n, n \in Nat, NEW cost, cost \in Nat,
         NEW rest, rest \in Nat, NEW d, Adds(d, todo[Generator], m, u, side, n, cost, rest),
         todo' = [todo EXCEPT ![Generator] = d]
  PROVE  ReconcileSums(t, ts, m, u, side, n, cost, rest)
  <1>1. Generator \in Actors /\ d \in Seq(Call)
    BY DEF Actors, Adds
  <1>2. /\ todo' \in [Actors -> Seq(Call)] /\ todo'[Generator] = d
        /\ \A b \in Actors : b # Generator => todo'[b] = todo[b]
        /\ \A w \in [Call -> Nat] :
              /\ Weight(todo', Each(w)) + Weight(todo[Generator], w) = Weight(todo, Each(w)) + Weight(d, w)
              /\ Weight(todo', Each(w)) \in Nat /\ Weight(todo, Each(w)) \in Nat
              /\ Weight(todo[Generator], w) \in Nat /\ Weight(d, w) \in Nat
    BY ONLY <1>1, TypeOK, todo' = [todo EXCEPT ![Generator] = d], TodoChanges
  <1>3. ASSUME NEW i
        PROVE  Claims(i)' = Claims(i) + (IF i = m THEN n ELSE 0)
    <2>1. Weight(d, Claim(i)) = Weight(todo[Generator], Claim(i)) + (IF i = m THEN n ELSE 0)
      BY DEF Adds
    <2>2. /\ Claims(i)' + Weight(todo[Generator], Claim(i)) = Claims(i) + Weight(d, Claim(i))
          /\ Claims(i)' \in Nat /\ Claims(i) \in Nat /\ Weight(todo[Generator], Claim(i)) \in Nat
      BY <1>2, CallWeights DEF Claims
    <2> QED
      BY ONLY <2>1, <2>2, n \in Nat
  <1>4. ASSUME NEW v
        PROVE  Weight(todo', Each(Owed(v))) = Weight(todo, Each(Owed(v)))
                 + (IF v = u THEN (IF side = "buy" THEN cost ELSE 0) + rest ELSE 0)
    <2>1. Weight(d, Owed(v)) = Weight(todo[Generator], Owed(v))
                                 + (IF v = u THEN (IF side = "buy" THEN cost ELSE 0) + rest ELSE 0)
      BY DEF Adds
    <2>2. /\ Weight(todo', Each(Owed(v))) + Weight(todo[Generator], Owed(v)) = Weight(todo, Each(Owed(v))) + Weight(d, Owed(v))
          /\ Weight(todo', Each(Owed(v))) \in Nat /\ Weight(todo, Each(Owed(v))) \in Nat
          /\ Weight(todo[Generator], Owed(v)) \in Nat
      BY <1>2, CallWeights
    <2> QED
      BY ONLY <2>1, <2>2, cost \in Nat, rest \in Nat
  <1>5. \A c \in ToSet(d) :
           c \in ToSet(todo[Generator]) \/ c.op = "release" \/ (c.op = "limitFill" /\ c.id = m /\ c.user = u)
    BY DEF Adds
  <1> QED
    BY <1>2, <1>3, <1>4, <1>5 DEF ReconcileSums

(* The order that a reconciled trade is about, before and after, and the     *)
(* shares the trade adds to its fills                                        *)
Reconciles(t, ts, o, new, n) ==
  /\ t.maker \in Ids /\ o = tracked[t.maker] /\ o \in Tracked /\ o # NoOrder
  /\ n \in Nat /\ n > 0 /\ After(o, new, t, n) /\ new \in Tracked /\ t.price * n \in Nat
  /\ \/ /\ ~(new.filled >= new.qty) /\ tracked' = [tracked EXCEPT ![t.maker] = new]
        /\ ReconcileSums(t, ts, t.maker, o.user, o.side, n, t.price * n, 0)
     \/ /\ new.filled >= new.qty /\ tracked' = [tracked EXCEPT ![t.maker] = NoOrder]
        /\ ReconcileSums(t, ts, t.maker, o.user, o.side, n, t.price * n, new.reserve)
LEMMA HitsReconcile ==
  ASSUME TypeOK, NEW t, t \in Fill, NEW ts, NEW o, NEW new, NEW n, NEW d, Hits(t, o, new, n, d)
  PROVE  Reconciles(t, ts, o, new, n)
  <1>1. /\ t.maker \in Ids /\ o = tracked[t.maker] /\ o \in Tracked /\ o # NoOrder
        /\ n \in Nat /\ n > 0 /\ After(o, new, t, n) /\ new \in Tracked
        /\ todo' = [todo EXCEPT ![Generator] = d]
    BY DEF Hits
  <1>2. new.reserve \in Nat /\ t.price * n \in Nat
    <2>1. t.price \in Nat
      BY PricesAreNat DEF Fill
    <2> QED
      BY <1>1, <2>1, ProductType DEF Tracked
  <1>3. CASE /\ ~(new.filled >= new.qty) /\ tracked' = [tracked EXCEPT ![t.maker] = new]
             /\ Adds(d, todo[Generator], t.maker, o.user, o.side, n, t.price * n, 0)
    <2>1. ReconcileSums(t, ts, t.maker, o.user, o.side, n, t.price * n, 0)
      BY <1>1, <1>2, <1>3, HitsSums
    <2> QED
      BY <1>1, <1>2, <1>3, <2>1 DEF Reconciles
  <1>4. CASE /\ new.filled >= new.qty /\ tracked' = [tracked EXCEPT ![t.maker] = NoOrder]
             /\ Adds(d, todo[Generator], t.maker, o.user, o.side, n, t.price * n, new.reserve)
    <2>1. ReconcileSums(t, ts, t.maker, o.user, o.side, n, t.price * n, new.reserve)
      BY <1>1, <1>2, <1>4, HitsSums
    <2> QED
      BY <1>1, <1>2, <1>4, <2>1 DEF Reconciles
  <1> QED
    BY <1>3, <1>4 DEF Hits

LEMMA MissesSums ==
  ASSUME TypeOK, NEW t, t \in Fill, NEW ts, Misses(t)
  PROVE  \A m, u, side : ReconcileSums(t, ts, m, u, side, 0, 0, 0)
  <1>1. todo' = todo /\ todo \in [Actors -> Seq(Call)]
    BY DEF Misses, TypeOK
  <1>2. \A i : Claims(i)' = Claims(i) /\ Claims(i) \in Nat
    BY <1>1, NumbersAreNat DEF Claims
  <1>3. \A i : Weight(todo', Each(Owed(i))) = Weight(todo, Each(Owed(i))) /\ Weight(todo, Each(Owed(i))) \in Nat
    BY <1>1, NumbersAreNat
  <1> QED
    BY <1>1, <1>2, <1>3 DEF ReconcileSums

LEMMA ReconcileKeepsBase ==
  ASSUME BaseInv, Reconcile, UNCHANGED run
  PROVE  BaseInv'
  <1>1. PICK t, ts : ReconcilesAs(t, ts)
    BY ReconcileIs
  <1>2. /\ TypeOK /\ RequestsOK /\ TickOK /\ CallsOK /\ OwnersKnown /\ Unused
        /\ Still /\ UNCHANGED <<cash, shares, loaded, req, requests, credited, missed, settled>>
        /\ tracked \in [Ids -> Tracked \cup {NoOrder}]
    BY <1>1 DEF BaseInv, ReconcilesAs, TypeOK
  <1>3. /\ t \in Fill /\ ts \in Seq(Fill) /\ gen' \in Tick /\ gen'.trades = ts
        /\ gen'.stage \in {"quote", "reconciling"} /\ ((gen'.stage = "quote") <=> (ts = <<>>))
        /\ \A w \in [Fill -> Nat] : /\ Weight(gen.trades, w) = w[t] + Weight(ts, w)
                                    /\ w[t] \in Nat /\ Weight(ts, w) \in Nat
    BY <1>1 DEF ReconcilesAs, TickGoes
  <1>4. PICK m, u, side, n, cost, rest :
           /\ ReconcileSums(t, ts, m, u, side, n, cost, rest) /\ n \in Nat
           /\ tracked' \in [Ids -> Tracked \cup {NoOrder}]
           /\ n > 0 => m = t.maker /\ n <= t.qty
           /\ m \in Ids /\ tracked[m] # NoOrder => u = tracked[m].user
           /\ \A i \in Ids : tracked'[i] # tracked[i] =>
                 /\ i = m /\ tracked[i] # NoOrder
                 /\ tracked'[i] # NoOrder => tracked'[i].user = tracked[i].user
           /\ (m \in Ids /\ tracked[m] # NoOrder) \/ UNCHANGED <<tracked, todo>>
    <2>1. CASE Misses(t)
      <3>1. ReconcileSums(t, ts, t.maker, IF t.maker \in Ids THEN tracked[t.maker].user ELSE 0, "buy", 0, 0, 0)
        BY <1>2, <1>3, <2>1, MissesSums
      <3>2. tracked' = tracked /\ todo' = todo
        BY <2>1 DEF Misses
      <3> QED
        BY <1>2, <3>1, <3>2
    <2>2. CASE \E o, new, k, d : Hits(t, o, new, k, d)
      <3>1. PICK o, new, k : Reconciles(t, ts, o, new, k)
        BY <1>2, <1>3, <2>2, HitsReconcile
      <3>2. /\ t.maker \in Ids /\ o = tracked[t.maker] /\ o \in Tracked /\ o # NoOrder
            /\ k \in Nat /\ new \in Tracked /\ new.user = o.user /\ k <= t.qty
            /\ tracked' = [tracked EXCEPT ![t.maker] = new] \/ tracked' = [tracked EXCEPT ![t.maker] = NoOrder]
            /\ \E rest : ReconcileSums(t, ts, t.maker, o.user, o.side, k, t.price * k, rest)
        BY <3>1 DEF Reconciles, After
      <3>3. /\ tracked' \in [Ids -> Tracked \cup {NoOrder}]
            /\ \A i \in Ids : i # t.maker => tracked'[i] = tracked[i]
            /\ tracked'[t.maker] # NoOrder => tracked'[t.maker].user = o.user
        BY <1>2, <3>2
      <3> QED
        BY <3>2, <3>3
    <2> QED
      BY <1>1, <2>1, <2>2 DEF ReconcilesAs
  <1>5. /\ todo' \in [Actors -> Seq(Call)]
        /\ \A b \in Actors : b # Generator => todo'[b] = todo[b]
        /\ \A c \in ToSet(todo'[Generator]) :
              c \in ToSet(todo[Generator]) \/ c.op = "release" \/ (c.op = "limitFill" /\ c.id = m /\ c.user = u)
        /\ \A i : Claims(i)' = Claims(i) + (IF i = m THEN n ELSE 0)
    BY <1>4 DEF ReconcileSums
  <1>6. TypeOK'
    BY <1>2, <1>3, <1>4, <1>5 DEF TypeOK, Still
  <1>7. Grows
    BY <1>2, StillIs
  <1>8. RequestsOK'
    BY <1>2, <1>7, RequestsStay
  <1>9. TickOK'
    BY <1>3 DEF TickOK
  <1>10. CallsOK'
    <2>1. CASE UNCHANGED <<tracked, todo>>
      BY <1>2, <1>7, <2>1, CallsStay
    <2>2. CASE m \in Ids /\ tracked[m] # NoOrder
      <3>1. m < nextId
        BY <1>2, <2>2, IdsAreNat DEF Unused, UnusedId
      <3>2. owner[m] = u /\ owner' = owner /\ nextId' = nextId
        BY <1>2, <1>4, <2>2 DEF OwnersKnown, Still
      <3>3. \A c : c.op = "limitFill" /\ c.id = m /\ c.user = u => CallOK(c)'
        BY <3>1, <3>2 DEF CallOK
      <3>4. \A c : c.op = "release" => CallOK(c)'
        BY DEF CallOK
      <3>5. \A a \in Actors : \A c \in ToSet(todo'[a]) : c \in ToSet(todo[a]) \/ CallOK(c)'
        BY <1>5, <3>3, <3>4
      <3> QED
        BY <1>2, <1>7, <3>5, CallsStay
    <2> QED
      BY <1>4, <2>1, <2>2
  <1>11. OwnersKnown'
    BY <1>2, <1>4 DEF OwnersKnown, Still
  <1>12. TracksKeeps
    <2>1. \A i \in Ids : i >= nextId => tracked'[i] = tracked[i]
      BY <1>2, <1>4 DEF Unused, UnusedId
    <2>2. ASSUME NEW i, i \in Ids
          PROVE  Accounted(i)' <= Accounted(i)
      <3>1. /\ Accounted(i) = settled[i] + Claims(i) + Weight(req, NewShares(i)) + Made(i)
            /\ settled[i] \in Nat /\ Claims(i) \in Nat /\ Weight(req, NewShares(i)) \in Nat /\ Made(i) \in Nat
        BY <1>2, <2>2, AccountedIsNat
      <3>2. Accounted(i)' = settled[i] + Claims(i)' + Weight(req, NewShares(i)) + Made(i)'
        BY <1>2 DEF Accounted
      <3>3. Made(i) = MadeBy(i)[t] + Made(i)' /\ Made(i)' \in Nat /\ MadeBy(i)[t] \in Nat
        BY <1>3, WeightsAre DEF Made
      <3>4. i = m /\ n > 0 => n <= MadeBy(i)[t]
        BY <1>3, <1>4 DEF MadeBy
      <3>5. Claims(i)' = Claims(i) + (IF i = m THEN n ELSE 0)
        BY <1>5
      <3> QED
        BY ONLY <1>4, <3>1, <3>2, <3>3, <3>4, <3>5
    <2> QED
      BY <1>2, <2>1, <2>2 DEF TracksKeeps
  <1> QED
    BY <1>6, <1>8, <1>9, <1>10, <1>11, <1>12, TracksKeepBase

-----------------------------------------------------------------------------
(* The calls of the engine.  Order id, of side s with limit p and n shares,  *)
(* that had no place before, is taken; e is the engine after the call.       *)
Submitted(e, id, s, p, n) ==
  /\ book' \in [Side -> Seq(Resting)] /\ stops' \in Seq(Waiting) /\ traded' \in [Ids \cup Quotes -> Nat]
  /\ e.trades \in Seq(Fill)
  /\ \A i \in Ids \cup Quotes : traded'[i] = traded[i] + Volume(e.trades, i) /\ Volume(e.trades, i) \in Nat
  /\ \A i : Here(i)' \in Nat /\ Here(i)' <= Here(i) + (IF i = id THEN 1 ELSE 0)
  /\ \A x \in ToSet(stops') : x \in ToSet(stops) /\ x.id # id
  /\ \A o \in Held(book') : \/ \E x \in Held(book) : x.id = o.id /\ x.side = o.side
                            \/ o.id = id /\ o.side = s /\ p # 0
                            \/ \E x \in ToSet(stops) : x.id = o.id
  /\ \A i : i # id /\ (\A x \in ToSet(stops) : x.id # i) =>
        /\ Open(i)' + Weight(e.trades, MadeBy(i)) = Open(i)
        /\ Worth(i)' + Weight(e.trades, MadeFor(i)) = Worth(i)
  /\ Weight(e.trades, TakenBy(id)) + InBooks(book', OpenOf(id)) <= n
  /\ s = "buy" /\ p # 0 => Weight(e.trades, TakenFor(id)) + InBooks(book', WorthOf(id)) <= p * n
LEMMA SubmitIs ==
  ASSUME TypeOK, NEW id, id \in Ids \cup Quotes, NEW s, s \in Side, NEW p, p \in Prices \cup {0},
         NEW n, n \in Nat, n > 0, Here(id) = 0, NEW e, e = Taken(id, s, p, n), Submit(e)
  PROVE  Submitted(e, id, s, p, n)
  <1>1. EngineDoes(e, id, s, p, n)
    BY TakenDoes
  <1>2. /\ book' = e.book /\ stops' = e.stops
        /\ traded' = [i \in DOMAIN traded |-> traded[i] + Volume(e.trades, i)]
        /\ traded \in [Ids \cup Quotes -> Nat]
    BY DEF Submit, TypeOK
  <1>3. /\ e.book \in [Side -> Seq(Resting)] /\ e.stops \in Seq(Waiting) /\ e.trades \in Seq(Fill)
        /\ \A i : InBooks(e.book, OneOf(i)) + Weight(e.stops, WaitOf(i)) <= Here(i) + (IF i = id THEN 1 ELSE 0)
        /\ \A x \in ToSet(e.stops) : x \in ToSet(stops)
        /\ \A o \in Held(e.book) : \/ \E x \in Held(book) : x.id = o.id /\ x.side = o.side
                                   \/ o.id = id /\ o.side = s /\ p # 0
                                   \/ \E x \in ToSet(stops) : x.id = o.id
        /\ \A i : i # id /\ (\A x \in ToSet(stops) : x.id # i) =>
              /\ InBooks(e.book, OpenOf(i)) + Weight(e.trades, MadeBy(i)) = Open(i)
              /\ InBooks(e.book, WorthOf(i)) + Weight(e.trades, MadeFor(i)) = Worth(i)
        /\ Weight(e.trades, TakenBy(id)) + InBooks(e.book, OpenOf(id)) <= n
        /\ s = "buy" /\ p # 0 => Weight(e.trades, TakenFor(id)) + InBooks(e.book, WorthOf(id)) <= p * n
    BY <1>1 DEF EngineDoes
  <1>4. \A i : Volume(e.trades, i) \in Nat
    BY <1>3, VolumeIs
  <1>5. /\ traded' \in [Ids \cup Quotes -> Nat]
        /\ \A i \in Ids \cup Quotes : traded'[i] = traded[i] + Volume(e.trades, i)
    BY <1>2, <1>4
  <1>6. \A i : Here(i)' = InBooks(e.book, OneOf(i)) + Weight(e.stops, WaitOf(i))
    BY <1>2 DEF Here
  <1>7. \A i : Here(i)' \in Nat
    <2> SUFFICES ASSUME NEW i
                 PROVE  Here(i)' \in Nat
      OBVIOUS
    <2>1. OneOf(i) \in [Resting -> Nat] /\ WaitOf(i) \in [Waiting -> Nat] /\ "buy" \in Side
      BY WeightsAre DEF Side
    <2>2. InBooks(e.book, OneOf(i)) \in Nat
      BY <1>3, <2>1, SidesAre
    <2>3. Weight(e.stops, WaitOf(i)) \in Nat
      BY <1>3, <2>1, WeightType
    <2> QED
      BY <1>6, <2>2, <2>3
  <1>8. \A i : Here(i)' <= Here(i) + (IF i = id THEN 1 ELSE 0)
    BY <1>3, <1>6
  <1>9. \A x \in ToSet(stops') : x \in ToSet(stops) /\ x.id # id
    BY <1>2, <1>3, HereIs
  <1>10. \A i : Open(i)' = InBooks(e.book, OpenOf(i)) /\ Worth(i)' = InBooks(e.book, WorthOf(i))
    BY <1>2 DEF Open, Worth
  <1>11. Held(book') = Held(e.book)
    BY <1>2
  <1> QED
    BY <1>2, <1>3, <1>4, <1>5, <1>7, <1>8, <1>9, <1>10, <1>11 DEF Submitted

(* A step that hands out the next id *)
LEMMA NewIdKeeps ==
  ASSUME BaseInv, nextId \in Ids, nextId' = nextId + 1, UNCHANGED <<nextQuote, tracked, credited, missed, settled>>,
         \A i \in Ids : i # nextId => owner'[i] = owner[i],
         \A i \in Ids \cup Quotes : i # nextId => odd'[i] = odd[i],
         \A i : Here(i)' \in Nat /\ Here(i)' <= Here(i) + (IF i = nextId THEN 1 ELSE 0),
         \A x \in ToSet(stops') : \/ x \in ToSet(stops) /\ x.id # nextId
                                  \/ x.id = nextId /\ owner'[nextId] = NoUser
  PROVE  Grows /\ Unused' /\ StopsUnowned' /\ OwnersKnown' /\ OnePlace'
  <1>1. /\ TypeOK /\ Unused /\ StopsUnowned /\ OwnersKnown /\ OnePlace
        /\ stops \in Seq(Waiting)
    BY DEF BaseInv, TypeOK
  <1>2. nextId \in Nat /\ Ids \subseteq Nat /\ Quotes \subseteq Nat
    BY <1>1, IdsAreNat
  <1>3. UnusedId(nextId)
    BY <1>1, <1>2 DEF Unused
  <1>4. \A i \in Ids : /\ i < nextId => i # nextId
                       /\ i >= nextId + 1 => i >= nextId /\ i # nextId
    BY <1>2
  <1>5. \A i : Here(i) \in Nat
    BY <1>1, NumbersAreNat
  <1>6. \A i : i # nextId => Here(i)' <= Here(i)
    BY <1>5
  <1>7. \A i : i # nextId /\ Here(i) = 0 => Here(i)' = 0
    BY <1>5, <1>6
  <1>8. Grows
    <2>1. \A i \in Ids : i < nextId => owner'[i] = owner[i] /\ (Here(i) = 0 => Here(i)' = 0)
      BY <1>4, <1>7
    <2>2. \A i \in Ids \cup Quotes : odd[i] \subseteq odd'[i]
      BY <1>3 DEF UnusedId
    <2>3. nextId <= nextId' /\ nextId' \in Nat
      BY <1>2
    <2> QED
      BY <2>1, <2>2, <2>3 DEF Grows
  <1>9. Unused'
    <2>1. ASSUME NEW i, i \in Ids, i >= nextId + 1
          PROVE  UnusedId(i)'
      <3>1. UnusedId(i) /\ i # nextId
        BY <1>1, <1>4, <2>1 DEF Unused
      <3>2. Here(i)' = 0
        BY <1>7, <3>1 DEF UnusedId
      <3> QED
        BY <2>1, <3>1, <3>2 DEF UnusedId
    <2>2. \A i \in Quotes : i >= nextQuote => Here(i)' = 0
      <3>1. \A i \in Quotes : i # nextId
        BY <1>2, OrderFlowConstants DEF Quotes, Ids
      <3> QED
        BY <1>1, <1>7, <3>1 DEF Unused
    <2> QED
      BY <2>1, <2>2 DEF Unused
  <1>10. StopsUnowned'
    <2>1. ASSUME NEW x, x \in ToSet(stops)
          PROVE  x.id \in Ids /\ owner[x.id] = NoUser
      <3>1. x \in Waiting
        BY <1>1, <2>1 DEF ToSet
      <3>2. x.id \in Ids
        BY <3>1 DEF Waiting
      <3> QED
        BY <1>1, <2>1, <3>2 DEF StopsUnowned
    <2> QED
      BY <2>1 DEF StopsUnowned
  <1>11. OwnersKnown'
    BY <1>1, <1>3 DEF OwnersKnown, UnusedId
  <1>12. OnePlace'
    <2> SUFFICES ASSUME NEW i \in Ids \cup Quotes
                 PROVE  Here(i)' <= 1
      BY DEF OnePlace
    <2>1. CASE i = nextId
      BY <1>3, <2>1 DEF UnusedId
    <2>2. CASE i # nextId
      <3>1. Here(i)' <= Here(i) /\ Here(i) <= 1 /\ Here(i)' \in Nat /\ Here(i) \in Nat
        BY <1>1, <1>5, <1>6, <2>2 DEF OnePlace
      <3> QED
        BY ONLY <3>1
    <2> QED
      BY <2>1, <2>2
  <1> QED
    BY <1>8, <1>9, <1>10, <1>11, <1>12

LEMMA OfSeq ==
  ASSUME NEW S, NEW q, q \in Seq(S), NEW x, x \in ToSet(q)
  PROVE  x \in S
  BY DEF ToSet

(* Where no stop order was triggered, what a call reports is what its order took. *)
LEMMA FiredIs ==
  ASSUME NEW e, e.trades \in Seq(Fill), NEW id
  PROVE  /\ Fired(e, id) \subseteq {"fired"}
         /\ "fired" \notin Fired(e, id) =>
              /\ Fired(e, id) = {}
              /\ \A t \in ToSet(Reported(e)) : t.taker = id
              /\ Weight(Reported(e), SharesOf) <= Weight(e.trades, TakenBy(id))
              /\ Weight(Reported(e), MoneyOf) <= Weight(e.trades, TakenFor(id))
  <1>1. Fired(e, id) \subseteq {"fired"}
    BY DEF Fired
  <1>2. ASSUME "fired" \notin Fired(e, id)
        PROVE  /\ Fired(e, id) = {}
               /\ \A t \in ToSet(Reported(e)) : t.taker = id
               /\ Weight(Reported(e), SharesOf) <= Weight(e.trades, TakenBy(id))
               /\ Weight(Reported(e), MoneyOf) <= Weight(e.trades, TakenFor(id))
    <2>1. \A t \in ToSet(e.trades) : t.taker = id
      BY <1>2 DEF Fired
    <2>2. /\ Reported(e) \in Seq(Fill)
          /\ \A t \in ToSet(Reported(e)) : t \in ToSet(e.trades)
          /\ \A v, w \in [Fill -> Nat] : (\A t \in ToSet(Reported(e)) : v[t] <= w[t]) =>
               Weight(Reported(e), v) <= Weight(e.trades, w)
      BY ReportedIs
    <2>3. ASSUME NEW t, t \in ToSet(Reported(e))
          PROVE  /\ t.taker = id /\ SharesOf[t] <= TakenBy(id)[t] /\ MoneyOf[t] <= TakenFor(id)[t]
      <3>1. t \in Fill /\ t.taker = id
        BY <2>1, <2>2, <2>3, OfSeq
      <3>2. SharesOf[t] = TakenBy(id)[t] /\ MoneyOf[t] = TakenFor(id)[t]
        BY <3>1 DEF SharesOf, MoneyOf, TakenBy, TakenFor
      <3>3. SharesOf[t] \in Nat /\ MoneyOf[t] \in Nat
        BY <3>1, FillWeights
      <3> QED
        BY <3>1, <3>2, <3>3
    <2>4. /\ SharesOf \in [Fill -> Nat] /\ TakenBy(id) \in [Fill -> Nat]
          /\ MoneyOf \in [Fill -> Nat] /\ TakenFor(id) \in [Fill -> Nat]
      BY FillWeights, WeightsAre
    <2>5. Weight(Reported(e), SharesOf) <= Weight(e.trades, TakenBy(id))
      BY <2>2, <2>3, <2>4
    <2>6. Weight(Reported(e), MoneyOf) <= Weight(e.trades, TakenFor(id))
      BY <2>2, <2>3, <2>4
    <2> QED
      BY <1>1, <1>2, <2>3, <2>5, <2>6
  <1> QED
    BY <1>1, <1>2

(* Request q of a handler is taken by the engine as order nextId of user u;  *)
(* the request is x then, and the calls d are to come.                       *)
Enters(r, u, x, d, e, s, p, n) ==
  /\ nextId \in Ids /\ nextId' = nextId + 1 /\ u \in Users /\ gen.trades = <<>>
  /\ Submitted(e, nextId, s, p, n)
  /\ todo[r] = <<>> /\ req' = [req EXCEPT ![r] = x] /\ todo' = [todo EXCEPT ![r] = d]
  /\ owner' = [owner EXCEPT ![nextId] = u]
  /\ odd' = [odd EXCEPT ![nextId] = @ \cup Fired(e, nextId)]
  /\ UNCHANGED <<nextQuote, tracked, cash, shares, loaded, gen, credited, missed, settled, requests, restarts, before>>

Entered(r, u, d, e) ==
  /\ TypeOK' /\ Grows /\ Unused' /\ StopsUnowned' /\ OwnersKnown' /\ OnePlace'
  /\ UnusedId(nextId) /\ odd'[nextId] = Fired(e, nextId) /\ owner'[nextId] = u
  /\ \A i \in Ids : i # nextId => owner'[i] = owner[i]
  /\ \A i \in Ids \cup Quotes : i # nextId => odd'[i] = odd[i]
  /\ \A i : Claims(i)' = Claims(i) + Weight(d, Claim(i)) /\ Weight(d, Claim(i)) \in Nat
  /\ todo' \in [Actors -> Seq(Call)] /\ todo'[r] = d
  /\ \A b \in Actors : b # r => todo'[b] = todo[b]
  /\ \A v : /\ Weight(todo', Each(Owed(v))) = Weight(todo, Each(Owed(v))) + Weight(d, Owed(v))
            /\ Weight(d, Owed(v)) \in Nat
LEMMA EntersIs ==
  ASSUME BaseInv, NEW r, r \in Threads, NEW u, NEW x, x \in Request, NEW d, d \in Seq(Call), NEW e, NEW s, NEW p, NEW n,
         Enters(r, u, x, d, e, s, p, n)
  PROVE  Entered(r, u, d, e)
  <1>1. /\ TypeOK /\ Unused /\ StopsUnowned /\ OwnersKnown /\ OnePlace
        /\ nextId \in Nat /\ Ids \subseteq Nat /\ MaxRequests \in Nat /\ r \in Actors
    BY IdsAreNat DEF BaseInv, Actors
  <1>2. /\ nextId \in Ids /\ nextId' = nextId + 1 /\ u \in Users
        /\ Submitted(e, nextId, s, p, n)
        /\ todo[r] = <<>> /\ req' = [req EXCEPT ![r] = x] /\ todo' = [todo EXCEPT ![r] = d]
        /\ owner' = [owner EXCEPT ![nextId] = u]
        /\ odd' = [odd EXCEPT ![nextId] = @ \cup Fired(e, nextId)]
        /\ UNCHANGED <<nextQuote, tracked, cash, shares, loaded, gen, credited, missed, settled, requests, restarts, before>>
    BY DEF Enters
  <1>3. /\ book' \in [Side -> Seq(Resting)] /\ stops' \in Seq(Waiting) /\ traded' \in [Ids \cup Quotes -> Nat]
        /\ e.trades \in Seq(Fill)
        /\ \A i : Here(i)' \in Nat /\ Here(i)' <= Here(i) + (IF i = nextId THEN 1 ELSE 0)
        /\ \A y \in ToSet(stops') : y \in ToSet(stops) /\ y.id # nextId
    BY <1>2 DEF Submitted
  <1>4. UnusedId(nextId)
    BY <1>1, <1>2 DEF Unused
  <1>5. Fired(e, nextId) \subseteq {"fired"}
    BY <1>3, FiredIs
  <1>6. odd' \in [Ids \cup Quotes -> SUBSET Oddity] /\ odd'[nextId] = Fired(e, nextId)
        /\ \A i \in Ids \cup Quotes : i # nextId => odd'[i] = odd[i]
    <2>1. odd \in [Ids \cup Quotes -> SUBSET Oddity] /\ odd[nextId] = {} /\ nextId \in Ids \cup Quotes
      BY <1>1, <1>2, <1>4 DEF TypeOK, UnusedId
    <2>2. Fired(e, nextId) \subseteq Oddity
      BY <1>5 DEF Oddity
    <2> QED
      BY <1>2, <2>1, <2>2
  <1>7. owner' \in [Ids -> Users \cup {NoUser}] /\ owner'[nextId] = u
        /\ \A i \in Ids : i # nextId => owner'[i] = owner[i]
    BY <1>1, <1>2 DEF TypeOK
  <1>8. Grows /\ Unused' /\ StopsUnowned' /\ OwnersKnown' /\ OnePlace'
    BY <1>1, <1>2, <1>3, <1>6, <1>7, NewIdKeeps
  <1>9. /\ todo' \in [Actors -> Seq(Call)] /\ todo'[r] = d
        /\ \A b \in Actors : b # r => todo'[b] = todo[b]
        /\ \A w \in [Call -> Nat] :
              /\ Weight(todo', Each(w)) + Weight(todo[r], w) = Weight(todo, Each(w)) + Weight(d, w)
              /\ Weight(todo', Each(w)) \in Nat /\ Weight(todo, Each(w)) \in Nat
              /\ Weight(todo[r], w) \in Nat /\ Weight(d, w) \in Nat
    BY ONLY <1>1, <1>2, d \in Seq(Call), TodoChanges
  <1>10. \A w \in [Call -> Nat] : /\ Weight(todo', Each(w)) = Weight(todo, Each(w)) + Weight(d, w)
                                  /\ Weight(d, w) \in Nat
    <2>1. \A w \in [Call -> Nat] : Weight(todo[r], w) = 0
      BY <1>2, NoCalls
    <2> QED
      BY ONLY <1>9, <2>1
  <1>11. \A i : Claims(i)' = Claims(i) + Weight(d, Claim(i)) /\ Weight(d, Claim(i)) \in Nat
    BY <1>10, CallWeights DEF Claims
  <1>12. \A v : /\ Weight(todo', Each(Owed(v))) = Weight(todo, Each(Owed(v))) + Weight(d, Owed(v))
                /\ Weight(d, Owed(v)) \in Nat
    BY <1>10, CallWeights
  <1>13. req' \in [Threads -> Request]
    BY <1>1, <1>2, ReqChanges
  <1>14. nextId' \in 1..(MaxRequests + 1)
    BY <1>1, <1>2 DEF Ids
  <1>15. TypeOK'
    BY <1>1, <1>2, <1>3, <1>6, <1>7, <1>9, <1>13, <1>14 DEF TypeOK
  <1> QED
    BY <1>4, <1>6, <1>7, <1>8, <1>9, <1>11, <1>12, <1>15 DEF Entered

LEMMA EntersKeepsBase ==
  ASSUME BaseInv, NEW r, r \in Threads, NEW u, NEW x, x \in Request, NEW d, d \in Seq(Call), NEW e, NEW s, NEW p, NEW n,
         Enters(r, u, x, d, e, s, p, n),
         Coming[x] = 0, Coming[req[r]] = 1, RequestOK(x)', \A c \in ToSet(d) : CallOK(c)',
         \A i \in Ids : /\ NewShares(i)[req[r]] = 0
                        /\ Weight(d, Claim(i)) + NewShares(i)[x]
                             = IF i = nextId THEN Weight(Reported(e), SharesOf) ELSE 0
  PROVE  BaseInv'
  <1>1. /\ TypeOK /\ RequestsOK /\ TickOK /\ CallsOK /\ Counted /\ ClaimsTraded
        /\ nextId \in Nat /\ Ids \subseteq Nat /\ MaxRequests \in Nat /\ r \in Actors /\ r # Generator
    BY IdsAreNat, FiniteSets DEF BaseInv, Actors
  <1>2. /\ TypeOK' /\ Grows /\ Unused' /\ StopsUnowned' /\ OwnersKnown' /\ OnePlace'
        /\ UnusedId(nextId) /\ odd'[nextId] = Fired(e, nextId)
        /\ \A i \in Ids \cup Quotes : i # nextId => odd'[i] = odd[i]
        /\ \A i : Claims(i)' = Claims(i) + Weight(d, Claim(i)) /\ Weight(d, Claim(i)) \in Nat
        /\ todo' \in [Actors -> Seq(Call)] /\ todo'[r] = d
        /\ \A b \in Actors : b # r => todo'[b] = todo[b]
    <2>1. Entered(r, u, d, e)
      BY ONLY BaseInv, r \in Threads, x \in Request, d \in Seq(Call), Enters(r, u, x, d, e, s, p, n), EntersIs
    <2> QED
      BY <2>1 DEF Entered
  <1>3. /\ nextId \in Ids /\ nextId' = nextId + 1 /\ gen.trades = <<>>
        /\ Submitted(e, nextId, s, p, n) /\ req' = [req EXCEPT ![r] = x]
        /\ UNCHANGED <<gen, credited, missed, settled, requests>>
    BY DEF Enters
  <1>4. /\ req' \in [Threads -> Request] /\ req'[r] = x
        /\ \A t \in Threads : t # r => req'[t] = req[t]
        /\ \A w \in [Request -> Nat] :
              /\ Weight(req', w) + w[req[r]] = Weight(req, w) + w[x]
              /\ Weight(req', w) \in Nat /\ Weight(req, w) \in Nat /\ w[req[r]] \in Nat /\ w[x] \in Nat
    BY ONLY <1>1, <1>3, r \in Threads, x \in Request, ReqChanges, ZenonT(30)
  <1>5. RequestsOK'
    <2>1. (RequestOK(req[r]))'
      BY <1>4 DEF RequestOK
    <2>2. \A t \in Threads : req'[t] = req[t] \/ (RequestOK(req[t]))'
      BY <1>4, <2>1
    <2> QED
      BY <1>1, <1>2, <2>2, RequestsStay
  <1>6. TickOK'
    BY <1>1, <1>2, <1>3 DEF TickOK, Actors
  <1>7. CallsOK'
    <2>1. \A a \in Actors : \A c \in ToSet(todo'[a]) : c \in ToSet(todo[a]) \/ CallOK(c)'
      BY <1>2
    <2> QED
      BY <1>1, <1>2, <2>1, CallsStay
  <1>8. Counted'
    <2>1. Coming \in [Request -> Nat]
      BY RequestWeights
    <2>2. Weight(req', Coming) + Coming[req[r]] = Weight(req, Coming) + Coming[x] /\ Weight(req', Coming) \in Nat
          /\ Weight(req, Coming) \in Nat
      BY <1>4, <2>1
    <2>3. Weight(req, Coming) + nextId - 1 <= requests
      BY <1>1 DEF Counted
    <2>4. requests \in Nat
      BY <1>1, IdsAreNat
    <2>5. Weight(req', Coming) + (nextId + 1) - 1 <= requests
      BY ONLY <1>1, <2>2, <2>3, <2>4, Coming[x] = 0, Coming[req[r]] = 1
    <2> QED
      BY <1>3, <2>5 DEF Counted
  <1>9. ClaimsTraded'
    <2> SUFFICES ASSUME NEW i, i \in Ids, "fired" \notin odd'[i]
                 PROVE  Accounted(i)' <= traded'[i]
      BY DEF ClaimsTraded
    <2>1. NewShares(i) \in [Request -> Nat]
      BY RequestWeights
    <2>2. /\ Weight(req', NewShares(i)) + NewShares(i)[req[r]] = Weight(req, NewShares(i)) + NewShares(i)[x]
          /\ Weight(req', NewShares(i)) \in Nat /\ NewShares(i)[req[r]] \in Nat /\ NewShares(i)[x] \in Nat
      BY <1>4, <2>1
    <2>3. /\ Accounted(i) = settled[i] + Claims(i) + Weight(req, NewShares(i)) + Made(i)
          /\ settled[i] \in Nat /\ Claims(i) \in Nat /\ Weight(req, NewShares(i)) \in Nat /\ Made(i) \in Nat
          /\ traded[i] \in Nat /\ Accounted(i) \in Nat
      BY <1>1, AccountedIsNat
    <2>4. Accounted(i)' = settled[i] + Claims(i)' + Weight(req', NewShares(i)) + Made(i)
      BY <1>3 DEF Accounted, Made
    <2>5. Claims(i)' = Claims(i) + Weight(d, Claim(i)) /\ Weight(d, Claim(i)) \in Nat
      BY <1>2
    <2>6. /\ NewShares(i)[req[r]] = 0
          /\ Weight(d, Claim(i)) + NewShares(i)[x] = IF i = nextId THEN Weight(Reported(e), SharesOf) ELSE 0
      OBVIOUS
    <2>7. /\ e.trades \in Seq(Fill)
          /\ traded'[i] = traded[i] + Volume(e.trades, i) /\ Volume(e.trades, i) \in Nat
      BY <1>3 DEF Submitted
    <2>8. CASE i # nextId
      <3>1. Accounted(i) <= traded[i]
        BY <1>1, <1>2, <2>8 DEF ClaimsTraded
      <3>2. Weight(d, Claim(i)) + NewShares(i)[x] = 0 /\ NewShares(i)[req[r]] = 0
        BY <2>6, <2>8
      <3>3. Weight(d, Claim(i)) = 0 /\ NewShares(i)[x] = 0
        BY ONLY <2>2, <2>5, <3>2
      <3>4. Accounted(i)' = Accounted(i)
        BY ONLY <2>2, <2>3, <2>4, <2>5, <3>2, <3>3
      <3>5. /\ traded'[i] = traded[i] + Volume(e.trades, i) /\ Volume(e.trades, i) \in Nat
            /\ traded[i] \in Nat /\ Accounted(i) \in Nat
        BY <2>3, <2>7
      <3> QED
        BY ONLY <3>1, <3>4, <3>5
    <2>9. CASE i = nextId
      <3>1. settled[i] = 0
        BY <1>2, <2>9 DEF UnusedId
      <3>2. Claims(i) = 0 /\ Weight(req, NewShares(i)) = 0
        BY <1>1, <2>9, NothingOfUnused
      <3>3. Made(i) = 0
        BY <1>3, WeightOfEmpty DEF Made
      <3>4. Weight(Reported(e), SharesOf) <= Weight(e.trades, TakenBy(i))
        BY <1>2, <2>7, <2>9, FiredIs
      <3>5. Weight(e.trades, TakenBy(i)) \in Nat /\ Weight(e.trades, TakenBy(i)) <= Volume(e.trades, i)
        BY <2>7, VolumeIs
      <3>6. Weight(d, Claim(i)) + NewShares(i)[x] = Weight(Reported(e), SharesOf)
        BY <2>6, <2>9
      <3>7. Weight(d, Claim(i)) + NewShares(i)[x] <= Volume(e.trades, i)
        BY ONLY <2>2, <2>5, <2>7, <3>4, <3>5, <3>6
      <3> QED
        BY ONLY <2>2, <2>3, <2>4, <2>5, <2>6, <2>7, <3>1, <3>2, <3>3, <3>7
    <2> QED
      BY <2>8, <2>9
  <1> QED
    BY <1>2, <1>5, <1>6, <1>7, <1>8, <1>9 DEF BaseInv

(* There is an id for an order that is yet to come. *)
LEMMA ComingHasId ==
  ASSUME BaseInv, NEW r, r \in Threads, Coming[req[r]] = 1
  PROVE  nextId \in Ids /\ Here(nextId) = 0
  <1>1. TypeOK /\ Counted /\ Unused
    BY DEF BaseInv
  <1>2. /\ nextId \in 1..(MaxRequests + 1) /\ requests \in 0..MaxRequests /\ MaxRequests \in Nat
        /\ req \in [Threads -> Request] /\ IsFiniteSet(Threads) /\ Coming \in [Request -> Nat]
    BY <1>1, FiniteSets, RequestWeights, OrderFlowConstants DEF TypeOK
  <1>3. Coming[req[r]] <= Weight(req, Coming)
    BY ONLY <1>2, r \in Threads, PartOfWeight
  <1>4. Weight(req, Coming) \in Nat /\ Weight(req, Coming) + nextId - 1 <= requests
    BY <1>1, NumbersAreNat DEF Counted
  <1>5. nextId \in Ids
    BY <1>2, <1>3, <1>4 DEF Ids
  <1> QED
    BY <1>1, <1>5, IdsAreNat DEF Unused, UnusedId

(* AddLimitAutoID and MarketAutoID *)
LimitEnters(r, q, x, e) ==
  /\ q \in Request /\ q.stage = "limit" /\ q.user \in Users /\ q.side \in Side /\ q.price \in Prices
  /\ q.qty \in Nat /\ q.qty > 0 /\ q.price * q.qty \in Nat
  /\ x \in Request /\ x.stage = "track" /\ x.user = q.user /\ x.side = q.side /\ x.qty = q.qty /\ x.price = q.price
  /\ x.id = nextId /\ x.trades = Reported(e)
  /\ Enters(r, q.user, x, <<>>, e, q.side, q.price, q.qty)

LEMMA LimitEntersIs ==
  ASSUME BaseInv, NEW r, r \in Threads, AddLimitAutoID(r), UNCHANGED run
  PROVE  \E q, x, e : q = req[r] /\ LimitEnters(r, q, x, e)
  <1>0. PICK q : q = req[r]
    OBVIOUS
  <1>1. PICK e : e = Taken(nextId, q.side, q.price, q.qty)
    OBVIOUS
  <1>2. PICK x : x = [q EXCEPT !.stage = "track", !.id = nextId, !.trades = Reported(e)]
    OBVIOUS
  <1>3. TypeOK /\ q \in Request /\ RequestOK(q) /\ TickOK
    BY <1>0 DEF BaseInv, TypeOK, RequestsOK
  <1>4. /\ gen.stage = "idle" /\ q.stage = "limit" /\ todo[r] = <<>> /\ req' = [req EXCEPT ![r] = x]
        /\ nextId' = nextId + 1 /\ Submit(e)
        /\ owner' = [owner EXCEPT ![nextId] = q.user]
        /\ odd' = [odd EXCEPT ![nextId] = @ \cup Fired(e, nextId)]
        /\ UNCHANGED <<nextQuote, tracked, cash, shares, loaded, gen, todo, credited, missed, settled, requests, restarts, before>>
    BY <1>0, <1>1, <1>2 DEF AddLimitAutoID, BookFree, GoesOn, Oddly, run, settled
  <1>5. q.user \in Users /\ q.qty > 0 /\ q.price \in Prices
    BY <1>3, <1>4 DEF RequestOK
  <1>6. /\ q.side \in Side /\ q.qty \in Nat /\ q.price * q.qty \in Nat /\ q.seen \in Int /\ q.price \in Nat
    BY <1>3, RequestIs
  <1>7. nextId \in Ids /\ Here(nextId) = 0
    <2>1. Coming[q] = 1
      BY <1>3, <1>4, RequestWeighs
    <2> QED
      BY <1>0, <2>1, ComingHasId
  <1>8. Submitted(e, nextId, q.side, q.price, q.qty)
    <2>1. nextId \in Ids \cup Quotes /\ q.price \in Prices \cup {0}
      BY <1>5, <1>7
    <2> QED
      BY ONLY <1>1, <1>3, <1>4, <1>5, <1>6, <1>7, <2>1, SubmitIs
  <1>9. Reported(e) \in Seq(Fill)
    BY <1>8, ReportedIs DEF Submitted
  <1>10. /\ x \in Request /\ x.stage = "track" /\ x.user = q.user /\ x.side = q.side /\ x.qty = q.qty
         /\ x.price = q.price /\ x.id = nextId /\ x.trades = Reported(e)
    <2>1. x = [stage |-> "track", user |-> q.user, side |-> q.side, qty |-> q.qty, price |-> q.price,
               seen |-> q.seen, id |-> nextId, trades |-> Reported(e)]
      BY <1>2, <1>3 DEF Request
    <2> QED
      BY <1>5, <1>6, <1>7, <1>9, <2>1 DEF Request
  <1>11. todo' = [todo EXCEPT ![r] = <<>>]
    BY <1>3, <1>4 DEF TypeOK
  <1>12. gen.trades = <<>>
    BY <1>3, <1>4 DEF TickOK
  <1>13. Enters(r, q.user, x, <<>>, e, q.side, q.price, q.qty)
    BY <1>4, <1>5, <1>7, <1>8, <1>11, <1>12 DEF Enters
  <1>14. LimitEnters(r, q, x, e)
    BY <1>3, <1>4, <1>5, <1>6, <1>10, <1>13 DEF LimitEnters
  <1> QED
    BY <1>0, <1>14

LEMMA LimitEntersKeepsBase ==
  ASSUME BaseInv, NEW r, r \in Threads, AddLimitAutoID(r), UNCHANGED run
  PROVE  BaseInv'
  <1>0. PICK q, x, e : q = req[r] /\ LimitEnters(r, q, x, e)
    BY LimitEntersIs
  <1>1. /\ q \in Request /\ q.stage = "limit" /\ q.user \in Users /\ q.side \in Side /\ q.price \in Prices
        /\ q.qty > 0
        /\ x \in Request /\ x.stage = "track" /\ x.user = q.user /\ x.qty = q.qty /\ x.price = q.price
        /\ x.id = nextId /\ x.trades = Reported(e)
        /\ Enters(r, q.user, x, <<>>, e, q.side, q.price, q.qty)
    BY <1>0 DEF LimitEnters
  <1>2. /\ nextId \in Ids /\ nextId' = nextId + 1 /\ e.trades \in Seq(Fill) /\ nextId \in Nat
    BY <1>1, IdsAreNat DEF Enters, Submitted, BaseInv
  <1>3. odd'[nextId] = Fired(e, nextId) /\ owner'[nextId] = q.user
    <2>1. Entered(r, q.user, <<>>, e)
      BY ONLY BaseInv, r \in Threads, <1>1, NoCalls, EntersIs
    <2> QED
      BY <2>1 DEF Entered
  <1>4. RequestOK(x)'
    <2>1. "fired" \notin odd'[nextId] => \A t \in ToSet(x.trades) : t.taker = nextId
      BY <1>1, <1>2, <1>3, FiredIs
    <2>2. nextId < nextId'
      BY <1>2
    <2> QED
      BY <1>1, <1>2, <1>3, <2>1, <2>2 DEF RequestOK, Placed, Recorder
  <1>5. Coming[x] = 0 /\ Coming[q] = 1
    BY <1>1, RequestWeighs
  <1>6. ASSUME NEW i, i \in Ids
        PROVE  /\ NewShares(i)[q] = 0
               /\ Weight(<<>>, Claim(i)) + NewShares(i)[x] = IF i = nextId THEN Weight(Reported(e), SharesOf) ELSE 0
    <2>1. NewShares(i)[q] = 0
      BY <1>1, RequestWeighs
    <2>2. NewShares(i)[x] = IF i = nextId THEN Weight(Reported(e), SharesOf) ELSE 0
      BY <1>1, RequestWeighs
    <2>3. Weight(<<>>, Claim(i)) = 0 /\ NewShares(i)[x] \in Nat
      BY <1>1, RequestWeights, NoCalls
    <2> QED
      BY <2>1, <2>2, <2>3
  <1>7. PICK d : d = <<>>
    OBVIOUS
  <1>8. /\ d \in Seq(Call) /\ (\A c \in ToSet(d) : CallOK(c)')
        /\ Enters(r, q.user, x, d, e, q.side, q.price, q.qty)
        /\ Coming[req[r]] = 1
        /\ \A i \in Ids : /\ NewShares(i)[req[r]] = 0
                          /\ Weight(d, Claim(i)) + NewShares(i)[x]
                               = IF i = nextId THEN Weight(Reported(e), SharesOf) ELSE 0
    BY <1>0, <1>1, <1>5, <1>6, <1>7, NoCalls
  <1> QED
    BY ONLY BaseInv, r \in Threads, <1>1, <1>4, <1>5, <1>8, EntersKeepsBase

MarketEnters(r, q, d, e) ==
  /\ q \in Request /\ q.stage = "market" /\ q.user \in Users /\ q.side \in Side /\ q.qty \in Nat /\ q.qty > 0
  /\ d \in Seq(Call) /\ FillsOf(d, "marketFill", q, nextId, Reported(e))
  /\ Enters(r, q.user, NoRequest, d, e, q.side, 0, q.qty)

LEMMA MarketEntersIs ==
  ASSUME BaseInv, NEW r, r \in Threads, MarketAutoID(r), UNCHANGED run
  PROVE  \E q, d, e : q = req[r] /\ MarketEnters(r, q, d, e)
  <1>0. PICK q : q = req[r]
    OBVIOUS
  <1>1. PICK e : e = Taken(nextId, q.side, 0, q.qty)
    OBVIOUS
  <1>2. PICK d : d = FillCalls("marketFill", r, nextId, Reported(e))
    OBVIOUS
  <1>3. TypeOK /\ q \in Request /\ RequestOK(q) /\ TickOK
    BY <1>0 DEF BaseInv, TypeOK, RequestsOK
  <1>4. /\ gen.stage = "idle" /\ q.stage = "market" /\ todo[r] = <<>> /\ req' = [req EXCEPT ![r] = NoRequest]
        /\ nextId' = nextId + 1 /\ Submit(e)
        /\ todo' = [todo EXCEPT ![r] = d]
        /\ owner' = [owner EXCEPT ![nextId] = q.user]
        /\ odd' = [odd EXCEPT ![nextId] = @ \cup Fired(e, nextId)]
        /\ UNCHANGED <<nextQuote, tracked, cash, shares, loaded, gen, credited, missed, settled, requests, restarts, before>>
    BY <1>0, <1>1, <1>2 DEF MarketAutoID, BookFree, GoesOn, Oddly, run, settled
  <1>5. q.user \in Users /\ q.qty > 0
    BY <1>3, <1>4 DEF RequestOK
  <1>6. q.side \in Side /\ q.qty \in Nat
    BY <1>3, RequestIs
  <1>7. nextId \in Ids /\ Here(nextId) = 0
    <2>1. Coming[q] = 1
      BY <1>3, <1>4, RequestWeighs
    <2> QED
      BY <1>0, <2>1, ComingHasId
  <1>8. Submitted(e, nextId, q.side, 0, q.qty)
    <2>1. nextId \in Ids \cup Quotes /\ 0 \in Prices \cup {0}
      BY <1>7
    <2> QED
      BY ONLY <1>1, <1>3, <1>4, <1>5, <1>6, <1>7, <2>1, SubmitIs
  <1>9. Reported(e) \in Seq(Fill)
    BY <1>8, ReportedIs DEF Submitted
  <1>10. FillsOf(d, "marketFill", q, nextId, Reported(e))
    <2>1. req[r] \in Request /\ req[r].user \in Users
      BY <1>0, <1>3, <1>5
    <2>2. FillsOf(FillCalls("marketFill", r, nextId, Reported(e)), "marketFill", req[r], nextId, Reported(e))
      BY ONLY <1>7, <1>9, <2>1, FillCallsAre
    <2> QED
      BY <1>0, <1>2, <2>2
  <1>11. d \in Seq(Call)
    BY <1>10 DEF FillsOf
  <1>12. gen.trades = <<>>
    BY <1>3, <1>4 DEF TickOK
  <1>13. Enters(r, q.user, NoRequest, d, e, q.side, 0, q.qty)
    BY <1>4, <1>5, <1>7, <1>8, <1>12 DEF Enters
  <1>14. MarketEnters(r, q, d, e)
    BY <1>3, <1>4, <1>5, <1>6, <1>10, <1>11, <1>13 DEF MarketEnters
  <1> QED
    BY <1>0, <1>14

LEMMA MarketEntersKeepsBase ==
  ASSUME BaseInv, NEW r, r \in Threads, MarketAutoID(r), UNCHANGED run
  PROVE  BaseInv'
  <1>0. PICK q, d, e : q = req[r] /\ MarketEnters(r, q, d, e)
    BY MarketEntersIs
  <1>1. /\ q \in Request /\ q.stage = "market" /\ q.user \in Users /\ d \in Seq(Call)
        /\ FillsOf(d, "marketFill", q, nextId, Reported(e))
        /\ Enters(r, q.user, NoRequest, d, e, q.side, 0, q.qty)
    BY <1>0 DEF MarketEnters
  <1>2. /\ nextId \in Ids /\ nextId' = nextId + 1 /\ e.trades \in Seq(Fill) /\ nextId \in Nat
    BY <1>1, IdsAreNat DEF Enters, Submitted, BaseInv
  <1>3. odd'[nextId] = Fired(e, nextId) /\ owner'[nextId] = q.user
    <2>1. Entered(r, q.user, d, e)
      BY ONLY BaseInv, r \in Threads, <1>1, NoRequestIs, EntersIs
    <2> QED
      BY <2>1 DEF Entered
  <1>4. NoRequest \in Request /\ RequestOK(NoRequest)' /\ Coming[NoRequest] = 0 /\ Coming[q] = 1
    BY <1>1, NoRequestIs, IdleWeighs, RequestWeighs DEF RequestOK, Placed, Recorder
  <1>5. ASSUME NEW i, i \in Ids
        PROVE  /\ NewShares(i)[q] = 0
               /\ Weight(d, Claim(i)) + NewShares(i)[NoRequest]
                    = IF i = nextId THEN Weight(Reported(e), SharesOf) ELSE 0
    <2>1. NewShares(i)[q] = 0
      BY <1>1, RequestWeighs
    <2>2. Weight(d, Claim(i)) = IF i = nextId THEN Weight(Reported(e), SharesOf) ELSE 0
      BY <1>1 DEF FillsOf
    <2>3. NewShares(i)[NoRequest] = 0
      BY <1>4, NoRequestIs, IdleWeighs
    <2>4. Weight(Reported(e), SharesOf) \in Nat
      BY <1>2, ReportedIs, FillWeights, WeightType
    <2> QED
      BY <2>1, <2>2, <2>3, <2>4
  <1>6. \A c \in ToSet(d) : CallOK(c)'
    <2>1. \A c \in ToSet(d) : c.id = nextId /\ c.user = q.user
      BY <1>1 DEF FillsOf
    <2> QED
      BY <1>2, <1>3, <2>1 DEF CallOK
  <1> QED
    BY ONLY BaseInv, r \in Threads, <1>0, <1>1, <1>4, <1>5, <1>6, EntersKeepsBase

(* A request x that only changes the books arrives at goroutine r. *)
Comes(r, x) ==
  /\ req[r].stage = "idle" /\ requests < MaxRequests /\ requests' = requests + 1 /\ gen.trades = <<>>
  /\ x \in Request /\ Idles(x) /\ req' = [req EXCEPT ![r] = x]
  /\ book' \in [Side -> Seq(Resting)] /\ stops' \in Seq(Waiting)
  /\ traded' \in [Ids \cup Quotes -> Nat] /\ odd' \in [Ids \cup Quotes -> SUBSET Oddity]
  /\ \A i \in Ids \cup Quotes : traded[i] <= traded'[i]
  /\ UNCHANGED <<nextQuote, tracked, cash, shares, loaded, gen, todo, credited, missed, settled, owner, restarts, before>>

LEMMA ComesKeepsBase ==
  ASSUME BaseInv, NEW r, r \in Threads, NEW x, Comes(r, x), RequestOK(x)',
         nextId' = nextId \/ (nextId' = nextId + 1 /\ nextId \in Ids),
         Grows, Unused', StopsUnowned', OwnersKnown', OnePlace'
  PROVE  BaseInv'
  <1>1. /\ TypeOK /\ RequestsOK /\ TickOK /\ CallsOK /\ Counted /\ ClaimsTraded
        /\ nextId \in Nat /\ Ids \subseteq Nat /\ MaxRequests \in Nat /\ requests \in Nat
    BY IdsAreNat DEF BaseInv
  <1>2. /\ req[r].stage = "idle" /\ requests < MaxRequests /\ requests' = requests + 1
        /\ x \in Request /\ Idles(x) /\ req' = [req EXCEPT ![r] = x]
        /\ book' \in [Side -> Seq(Resting)] /\ stops' \in Seq(Waiting)
        /\ traded' \in [Ids \cup Quotes -> Nat] /\ odd' \in [Ids \cup Quotes -> SUBSET Oddity]
        /\ \A i \in Ids \cup Quotes : traded[i] <= traded'[i]
        /\ UNCHANGED <<nextQuote, tracked, cash, shares, loaded, gen, todo, credited, missed, settled, owner, restarts, before>>
    BY DEF Comes
  <1>3. /\ req' \in [Threads -> Request] /\ req'[r] = x
        /\ \A t \in Threads : t # r => req'[t] = req[t]
        /\ \A w \in [Request -> Nat] :
              /\ Weight(req', w) + w[req[r]] = Weight(req, w) + w[x]
              /\ Weight(req', w) \in Nat /\ Weight(req, w) \in Nat /\ w[req[r]] \in Nat /\ w[x] \in Nat
    <2>1. TypeOK /\ x \in Request /\ req' = [req EXCEPT ![r] = x]
      BY <1>1, <1>2
    <2> QED
      BY ONLY <2>1, r \in Threads, ReqChanges
  <1>4. TypeOK'
    <2>1. nextId' \in 1..(MaxRequests + 1)
      BY <1>1 DEF TypeOK, Ids
    <2>2. requests' \in 0..MaxRequests
      BY <1>1, <1>2
    <2> QED
      BY <1>1, <1>2, <1>3, <2>1, <2>2 DEF TypeOK
  <1>5. RequestsOK'
    <2>1. (RequestOK(req[r]))'
      BY <1>3 DEF RequestOK
    <2>2. \A t \in Threads : req'[t] = req[t] \/ (RequestOK(req[t]))'
      BY <1>3, <2>1
    <2> QED
      BY <1>1, <2>2, RequestsStay
  <1>6. TickOK'
    BY <1>1, <1>2 DEF TickOK
  <1>7. CallsOK'
    BY <1>1, <1>2, CallsStay
  <1>8. req[r] \in Request /\ Idles(req[r])
    BY <1>1, <1>2 DEF TypeOK, Idles
  <1>9. Counted'
    <2>1. Coming \in [Request -> Nat] /\ Coming[req[r]] = 0 /\ Coming[x] = 0
      BY <1>2, <1>8, RequestWeights, IdleWeighs
    <2>2. Weight(req', Coming) + Coming[req[r]] = Weight(req, Coming) + Coming[x] /\ Weight(req', Coming) \in Nat
          /\ Weight(req, Coming) \in Nat
      BY <1>3, <2>1
    <2>3. Weight(req, Coming) + nextId - 1 <= requests
      BY <1>1 DEF Counted
    <2>4. nextId' <= nextId + 1 /\ nextId' \in Nat
      BY <1>1
    <2>5. Weight(req', Coming) + nextId' - 1 <= requests + 1
      BY ONLY <1>1, <2>1, <2>2, <2>3, <2>4
    <2> QED
      BY <1>2, <2>5 DEF Counted
  <1>10. ClaimsTraded'
    <2> SUFFICES ASSUME NEW i, i \in Ids, "fired" \notin odd'[i]
                 PROVE  Accounted(i)' <= traded'[i]
      BY DEF ClaimsTraded
    <2>1. NewShares(i) \in [Request -> Nat] /\ NewShares(i)[req[r]] = 0 /\ NewShares(i)[x] = 0
      BY <1>2, <1>8, RequestWeights, IdleWeighs
    <2>2. Weight(req', NewShares(i)) + NewShares(i)[req[r]] = Weight(req, NewShares(i)) + NewShares(i)[x]
          /\ Weight(req', NewShares(i)) \in Nat /\ Weight(req, NewShares(i)) \in Nat
      BY <1>3, <2>1
    <2>3. Weight(req', NewShares(i)) = Weight(req, NewShares(i))
      BY ONLY <2>1, <2>2
    <2>4. Accounted(i)' = Accounted(i)
      BY <1>2, <2>3 DEF Accounted, Made, Claims
    <2>5. Accounted(i) <= traded[i]
      BY <1>1 DEF ClaimsTraded, Grows
    <2>6. Accounted(i) \in Nat /\ traded[i] \in Nat /\ traded'[i] \in Nat /\ traded[i] <= traded'[i]
      BY <1>1, <1>2, AccountedIsNat
    <2> QED
      BY ONLY <2>4, <2>5, <2>6
  <1> QED
    BY <1>4, <1>5, <1>6, <1>7, <1>9, <1>10 DEF BaseInv

(* A step that hands out no id, and takes orders away at most *)
LEMMA SameIdsKeep ==
  ASSUME BaseInv, UNCHANGED <<nextId, nextQuote, tracked, credited, missed, settled, owner>>,
         \A i : Here(i)' \in Nat /\ Here(i)' <= Here(i),
         \A y \in ToSet(stops') : \E w \in ToSet(stops) : w.id = y.id,
         \A i \in Ids \cup Quotes : odd[i] \subseteq odd'[i] /\ (Here(i) = 0 => odd'[i] = odd[i])
  PROVE  Grows /\ Unused' /\ StopsUnowned' /\ OwnersKnown' /\ OnePlace'
  <1>1. /\ TypeOK /\ Unused /\ StopsUnowned /\ OwnersKnown /\ OnePlace
        /\ nextId \in Nat
    BY IdsAreNat DEF BaseInv
  <1>2. \A i : Here(i) \in Nat
    BY <1>1, NumbersAreNat
  <1>3. \A i : Here(i) = 0 => Here(i)' = 0
    BY <1>2
  <1>4. Grows
    BY <1>1, <1>3 DEF Grows
  <1>5. Unused'
    BY <1>1, <1>3 DEF Unused, UnusedId
  <1>6. StopsUnowned'
    BY <1>1 DEF StopsUnowned
  <1>7. OwnersKnown'
    BY <1>1 DEF OwnersKnown
  <1>8. OnePlace'
    <2> SUFFICES ASSUME NEW i \in Ids \cup Quotes
                 PROVE  Here(i)' <= 1
      BY DEF OnePlace
    <2>1. Here(i)' <= Here(i) /\ Here(i) <= 1 /\ Here(i)' \in Nat /\ Here(i) \in Nat
      BY <1>1, <1>2 DEF OnePlace
    <2> QED
      BY ONLY <2>1
  <1> QED
    BY <1>4, <1>5, <1>6, <1>7, <1>8

-----------------------------------------------------------------------------
(* CancelLimit: order id leaves the book; what is odd about it is more now. *)
Cancels(r, id, x) ==
  /\ Comes(r, x) /\ x.stage = "remove" /\ x.id = id /\ id \in Ids \cup Quotes
  /\ UNCHANGED <<stops, nextId, traded>>
  /\ \A i : Here(i)' \in Nat /\ Here(i)' <= Here(i) /\ Open(i)' <= Open(i) /\ Worth(i)' <= Worth(i)
  /\ Here(id) # 0 /\ Here(id)' = 0
  /\ \A o \in Held(book') : o \in Held(book)
  /\ odd' = [odd EXCEPT ![id] = @ \cup IF InPlacement(id) THEN {"cancelled"} ELSE {}]

LEMMA BookWeighs ==
  ASSUME NEW b, b \in [Side -> Seq(Resting)], NEW w, w \in [Resting -> Nat]
  PROVE  InBooks(b, w) \in Nat
  <1>1. "buy" \in Side
    BY DEF Side
  <1> QED
    BY <1>1, SidesAre

(* What is odd about one order changes. *)
LEMMA OddChanges ==
  ASSUME TypeOK, NEW id, id \in Ids \cup Quotes, Here(id) # 0, NEW what, what \in SUBSET Oddity,
         odd' = [odd EXCEPT ![id] = @ \cup what]
  PROVE  /\ odd' \in [Ids \cup Quotes -> SUBSET Oddity] /\ odd'[id] = odd[id] \cup what
         /\ \A i \in Ids \cup Quotes : i # id => odd'[i] = odd[i]
         /\ \A i \in Ids \cup Quotes : odd[i] \subseteq odd'[i] /\ (Here(i) = 0 => odd'[i] = odd[i])
  <1>1. odd \in [Ids \cup Quotes -> SUBSET Oddity]
    BY DEF TypeOK
  <1>2. /\ odd' \in [Ids \cup Quotes -> SUBSET Oddity] /\ odd'[id] = odd[id] \cup what
        /\ \A i \in Ids \cup Quotes : i # id => odd'[i] = odd[i]
    BY <1>1
  <1>3. \A i \in Ids \cup Quotes : Here(i) = 0 => i # id
    OBVIOUS
  <1> QED
    BY <1>2, <1>3

LEMMA CancelsIs ==
  ASSUME BaseInv, NEW r, r \in Threads, NEW id, id \in Ids \cup Quotes, Idle(r), requests < MaxRequests,
         CancelLimit(r, id), UNCHANGED run
  PROVE  \E x : Cancels(r, id, x)
  <1>2. PICK x : x = [NoRequest EXCEPT !.stage = "remove", !.id = id]
    OBVIOUS
  <1>3. /\ gen.stage = "idle" /\ InBook(id) /\ requests' = requests + 1 /\ req' = [req EXCEPT ![r] = x]
        /\ book' = Without(id)
        /\ odd' = [odd EXCEPT ![id] = @ \cup IF InPlacement(id) THEN {"cancelled"} ELSE {}]
        /\ UNCHANGED <<stops, nextId, nextQuote, traded, tracked, cash, shares, loaded, gen, todo, credited, missed, settled, owner>>
        /\ UNCHANGED <<restarts, before>>
    BY <1>2 DEF CancelLimit, BookFree, Arrives, Oddly, run, settled
  <1>4. TypeOK /\ TickOK /\ OnePlace
    BY DEF BaseInv
  <1>5. x \in Request /\ Idles(x) /\ x.stage = "remove" /\ x.id = id
    <2>1. x \in Request
      BY <1>2, NoRequestIs DEF Request
    <2>2. x.stage = "remove" /\ x.id = id
      BY <1>2, NoRequestIs DEF NoRequest
    <2> QED
      BY <2>1, <2>2 DEF Idles
  <1>6. /\ book' \in [Side -> Seq(Resting)]
        /\ \A w \in [Resting -> Nat] : InBooks(book', w) \in Nat /\ InBooks(book', w) <= InBooks(book, w)
        /\ \A o \in Held(book') : o \in Held(book)
        /\ InBooks(book', OneOf(id)) < InBooks(book, OneOf(id))
    <2>1. PICK b : b = Without(id)
      OBVIOUS
    <2>2. /\ b \in [Side -> Seq(Resting)]
          /\ \A w \in [Resting -> Nat] : InBooks(b, w) \in Nat /\ InBooks(b, w) <= InBooks(book, w)
          /\ \A o \in Held(b) : o \in Held(book)
          /\ InBooks(b, OneOf(id)) < InBooks(book, OneOf(id))
      BY <1>3, <1>4, <2>1, WithoutIs
    <2> QED
      BY <1>3, <2>1, <2>2
  <1>7. ASSUME NEW i
        PROVE  /\ Here(i)' \in Nat /\ Here(i)' <= Here(i) /\ Open(i)' <= Open(i) /\ Worth(i)' <= Worth(i)
               /\ (i = id => Here(i)' < Here(i)) /\ Here(i) \in Nat
    <2>1. OneOf(i) \in [Resting -> Nat] /\ OpenOf(i) \in [Resting -> Nat] /\ WorthOf(i) \in [Resting -> Nat]
          /\ WaitOf(i) \in [Waiting -> Nat]
      BY WeightsAre
    <2>2. Weight(stops, WaitOf(i)) \in Nat
      BY <1>4, <2>1, WeightType DEF TypeOK
    <2>3. /\ Here(i) = InBooks(book, OneOf(i)) + Weight(stops, WaitOf(i)) /\ Here(i) \in Nat
          /\ Here(i)' = InBooks(book', OneOf(i)) + Weight(stops, WaitOf(i))
          /\ Open(i) = InBooks(book, OpenOf(i)) /\ Open(i)' = InBooks(book', OpenOf(i))
          /\ Worth(i) = InBooks(book, WorthOf(i)) /\ Worth(i)' = InBooks(book', WorthOf(i))
      BY <1>3, <1>4, NumbersAreNat DEF Here, Open, Worth
    <2>4. /\ InBooks(book', OneOf(i)) \in Nat /\ InBooks(book', OneOf(i)) <= InBooks(book, OneOf(i))
          /\ InBooks(book', OpenOf(i)) <= InBooks(book, OpenOf(i))
          /\ InBooks(book', WorthOf(i)) <= InBooks(book, WorthOf(i))
      BY <1>6, <2>1
    <2>5. InBooks(book, OneOf(i)) \in Nat
      <3>1. book \in [Side -> Seq(Resting)]
        BY <1>4 DEF TypeOK
      <3> QED
        BY ONLY <2>1, <3>1, BookWeighs
    <2>6. i = id => InBooks(book', OneOf(i)) < InBooks(book, OneOf(i))
      BY <1>6
    <2>7. Here(i)' \in Nat /\ Here(i)' <= Here(i)
      BY ONLY <2>2, <2>3, <2>4, <2>5
    <2>8. i = id => Here(i)' < Here(i)
      BY ONLY <2>2, <2>3, <2>4, <2>5, <2>6
    <2> QED
      BY <2>3, <2>4, <2>7, <2>8
  <1>8. Here(id) # 0 /\ Here(id)' = 0
    <2>1. Here(id) <= 1
      BY <1>4 DEF OnePlace
    <2>2. Here(id)' < Here(id) /\ Here(id)' \in Nat /\ Here(id) \in Nat
      BY <1>7
    <2> QED
      BY <2>1, <2>2
  <1>9. odd' \in [Ids \cup Quotes -> SUBSET Oddity]
    <2>1. (IF InPlacement(id) THEN {"cancelled"} ELSE {}) \in SUBSET Oddity
      BY DEF Oddity
    <2> QED
      BY <1>3, <1>4, <1>8, <2>1, OddChanges
  <1>10. Comes(r, x)
    <2>1. req[r].stage = "idle" /\ gen.trades = <<>>
      BY <1>3, <1>4 DEF Idle, TickOK
    <2>2. \A i \in Ids \cup Quotes : traded[i] <= traded[i]
      BY <1>4 DEF TypeOK
    <2> QED
      BY <1>3, <1>4, <1>5, <1>6, <1>9, <2>1, <2>2 DEF Comes, TypeOK
  <1>11. Cancels(r, id, x)
    BY <1>3, <1>5, <1>6, <1>7, <1>8, <1>10 DEF Cancels
  <1> QED
    BY <1>11

LEMMA CancelsKeepsBase ==
  ASSUME BaseInv, NEW r, r \in Threads, NEW id, NEW x, Cancels(r, id, x)
  PROVE  BaseInv' /\ Grows
  <1>1. /\ Comes(r, x) /\ x.stage = "remove" /\ x.id = id /\ id \in Ids \cup Quotes
        /\ UNCHANGED <<stops, nextId>>
        /\ \A i : Here(i)' \in Nat /\ Here(i)' <= Here(i)
        /\ Here(id) # 0 /\ Here(id)' = 0
        /\ odd' = [odd EXCEPT ![id] = @ \cup IF InPlacement(id) THEN {"cancelled"} ELSE {}]
    BY DEF Cancels
  <1>2. UNCHANGED <<nextQuote, tracked, credited, missed, settled, owner>> /\ x \in Request
    BY <1>1 DEF Comes
  <1>3. TypeOK /\ Unused
    BY DEF BaseInv
  <1>4. \A i \in Ids \cup Quotes : odd[i] \subseteq odd'[i] /\ (Here(i) = 0 => odd'[i] = odd[i])
    <2>1. (IF InPlacement(id) THEN {"cancelled"} ELSE {}) \in SUBSET Oddity
      BY DEF Oddity
    <2> QED
      BY <1>1, <1>3, <2>1, OddChanges
  <1>5. Grows /\ Unused' /\ StopsUnowned' /\ OwnersKnown' /\ OnePlace'
    BY ONLY BaseInv, <1>1, <1>2, <1>4, SameIdsKeep
  <1>6. RequestOK(x)'
    <2>1. id \in Ids => id < nextId
      BY <1>1, <1>3, HeldIds
    <2> QED
      BY <1>1, <1>2, <2>1 DEF RequestOK, Placed, Recorder
  <1> QED
    BY <1>1, <1>5, <1>6, ComesKeepsBase

(* ModifyLimit: order id is in the book with n shares for p each. *)
Modifies(r, id, x, n, p) ==
  /\ Comes(r, x) /\ x.stage = "update" /\ x.id = id /\ id \in Ids \cup Quotes /\ x.qty = n
  /\ n \in Nat /\ n > 0 /\ p \in Prices /\ p * n \in Nat
  /\ UNCHANGED <<stops, nextId, traded>>
  /\ \A i : Here(i)' \in Nat /\ Here(i)' <= Here(i)
  /\ \A i : i # id => Open(i)' <= Open(i) /\ Worth(i)' <= Worth(i)
  /\ Here(id) # 0 /\ Open(id)' <= n /\ Worth(id)' <= p * n
  /\ \E side \in Side :
       /\ \E o \in Held(book) : o.id = id /\ o.side = side
       /\ \A o \in Held(book') : o \in Held(book) \/ (o.id = id /\ o.side = side)
       /\ odd' = [odd EXCEPT ![id] = @ \cup ({"modified"} \cup
                    IF Raises(id, side, n * p) \/ InPlacement(id) THEN {"raised"} ELSE {})]

LEMMA OnlyPlace ==
  ASSUME TypeOK, NEW b, b \in [Side -> Seq(Resting)], NEW id, InBooks(b, OneOf(id)) = 0
  PROVE  InBooks(b, OpenOf(id)) = 0 /\ InBooks(b, WorthOf(id)) = 0
  <1>1. "buy" \in Side /\ Opposite("buy") = "sell" /\ "sell" \in Side
    BY DEF Side, Opposite
  <1>2. /\ OneOf(id) \in [Resting -> Nat] /\ OpenOf(id) \in [Resting -> Nat] /\ WorthOf(id) \in [Resting -> Nat]
    BY WeightsAre
  <1>3. \A x \in Resting : OneOf(id)[x] = 0 => OpenOf(id)[x] = 0 /\ WorthOf(id)[x] = 0
    BY DEF OneOf, OpenOf, WorthOf
  <1>4. \A w \in [Resting -> Nat] : Weight(b["buy"], w) \in Nat /\ Weight(b["sell"], w) \in Nat
    BY <1>1, SidesAre
  <1>5. Weight(b["buy"], OneOf(id)) = 0 /\ Weight(b["sell"], OneOf(id)) = 0
    <2>1. Weight(b["buy"], OneOf(id)) + Weight(b["sell"], OneOf(id)) = 0
      BY DEF InBooks
    <2>2. Weight(b["buy"], OneOf(id)) \in Nat /\ Weight(b["sell"], OneOf(id)) \in Nat
      BY <1>2, <1>4
    <2> QED
      BY ONLY <2>1, <2>2
  <1>6. b["buy"] \in Seq(Resting) /\ b["sell"] \in Seq(Resting)
    BY <1>1
  <1>7. Weight(b["buy"], OpenOf(id)) = 0 /\ Weight(b["sell"], OpenOf(id)) = 0
    BY <1>2, <1>3, <1>5, <1>6, WeightVanishes
  <1>8. Weight(b["buy"], WorthOf(id)) = 0 /\ Weight(b["sell"], WorthOf(id)) = 0
    BY <1>2, <1>3, <1>5, <1>6, WeightVanishes
  <1> QED
    BY <1>7, <1>8 DEF InBooks

LEMMA ModifiesIs ==
  ASSUME BaseInv, NEW r, r \in Threads, NEW id, id \in Ids \cup Quotes, NEW n, n \in Quantities, NEW p, p \in Prices,
         Idle(r), requests < MaxRequests, ModifyLimit(r, id, n, p), UNCHANGED run
  PROVE  \E x : Modifies(r, id, x, n, p)
  <1>1. PICK x : x = [NoRequest EXCEPT !.stage = "update", !.id = id, !.qty = n]
    OBVIOUS
  <1>2. PICK m : m = CHOOSE o \in Orders : o.id = id
    OBVIOUS
  <1>3. PICK side : side = m.side
    OBVIOUS
  <1>4. PICK o : o = [id |-> id, side |-> side, price |-> p, open |-> n]
    OBVIOUS
  <1>5. PICK b : b = Without(id)
    OBVIOUS
  <1>6. /\ gen.stage = "idle" /\ InBook(id) /\ requests' = requests + 1 /\ req' = [req EXCEPT ![r] = x]
        /\ book' = [b EXCEPT ![side] = Inserted(@, o)]
        /\ odd' = [odd EXCEPT ![id] = @ \cup ({"modified"} \cup
                     IF Raises(id, side, n * p) \/ InPlacement(id) THEN {"raised"} ELSE {})]
        /\ UNCHANGED <<stops, nextId, nextQuote, traded, tracked, cash, shares, loaded, gen, todo, credited, missed, settled, owner>>
        /\ UNCHANGED <<restarts, before>>
    BY <1>1, <1>2, <1>3, <1>4, <1>5 DEF ModifyLimit, BookFree, Arrives, Oddly, run, settled
  <1>7. TypeOK /\ TickOK /\ OnePlace /\ book \in [Side -> Seq(Resting)]
    BY DEF BaseInv, TypeOK
  <1>8. n \in Nat /\ n > 0 /\ p \in Nat /\ p * n \in Nat
    BY OrderFlowConstants, PricesAreNat, ProductType
  <1>9. x \in Request /\ Idles(x) /\ x.stage = "update" /\ x.id = id /\ x.qty = n
    <2>1. x \in Request
      BY <1>1, <1>8, NoRequestIs DEF Request
    <2>2. x.stage = "update" /\ x.id = id /\ x.qty = n
      BY <1>1, NoRequestIs DEF NoRequest
    <2> QED
      BY <2>1, <2>2 DEF Idles
  <1>10. m \in Held(book) /\ m.id = id /\ side \in Side
    <2>1. m \in Held(book) /\ m.id = id
      BY <1>2, <1>6 DEF InBook, Orders, Held
    <2>2. m \in Resting
      BY <1>7, <2>1 DEF Held, ToSet, Side
    <2> QED
      BY <1>3, <2>1, <2>2 DEF Resting
  <1>11. o \in Resting /\ o.id = id /\ o.side = side /\ o.price = p /\ o.open = n
    BY <1>4, <1>8, <1>10 DEF Resting
  <1>12. /\ b \in [Side -> Seq(Resting)]
         /\ \A w \in [Resting -> Nat] : InBooks(b, w) \in Nat /\ InBooks(b, w) <= InBooks(book, w)
         /\ \A y \in Held(b) : y \in Held(book)
         /\ InBooks(b, OneOf(id)) < InBooks(book, OneOf(id))
    BY <1>5, <1>6, <1>7, WithoutIs
  <1>13. /\ book' \in [Side -> Seq(Resting)]
         /\ \A w \in [Resting -> Nat] : InBooks(book', w) = InBooks(b, w) + w[o]
         /\ \A y \in Held(book') : y = o \/ y \in Held(b)
    <2>1. PICK c : c = PutIn(b, side, o)
      OBVIOUS
    <2>2. /\ c \in [Side -> Seq(Resting)]
          /\ \A w \in [Resting -> Nat] : InBooks(c, w) = InBooks(b, w) + w[o]
          /\ \A y \in Held(c) : y = o \/ y \in Held(b)
      <3>1. o \in Resting /\ side \in Side /\ b \in [Side -> Seq(Resting)]
        BY <1>10, <1>11, <1>12
      <3> QED
        BY ONLY <2>1, <3>1, InsertedInBook
    <2> QED
      BY <1>6, <2>1, <2>2 DEF PutIn
  <1>14. ASSUME NEW i
         PROVE  /\ OneOf(i)[o] = (IF i = id THEN 1 ELSE 0) /\ OpenOf(i)[o] = (IF i = id THEN n ELSE 0)
                /\ WorthOf(i)[o] = (IF i = id THEN p * n ELSE 0)
    BY <1>11 DEF OneOf, OpenOf, WorthOf
  <1>15. ASSUME NEW i
         PROVE  /\ OneOf(i) \in [Resting -> Nat] /\ OpenOf(i) \in [Resting -> Nat] /\ WorthOf(i) \in [Resting -> Nat]
                /\ Weight(stops, WaitOf(i)) \in Nat
                /\ Here(i) = InBooks(book, OneOf(i)) + Weight(stops, WaitOf(i)) /\ Here(i) \in Nat
                /\ Here(i)' = InBooks(book', OneOf(i)) + Weight(stops, WaitOf(i))
                /\ Open(i) = InBooks(book, OpenOf(i)) /\ Open(i)' = InBooks(book', OpenOf(i))
                /\ Worth(i) = InBooks(book, WorthOf(i)) /\ Worth(i)' = InBooks(book', WorthOf(i))
    <2>1. OneOf(i) \in [Resting -> Nat] /\ OpenOf(i) \in [Resting -> Nat] /\ WorthOf(i) \in [Resting -> Nat]
          /\ WaitOf(i) \in [Waiting -> Nat]
      BY WeightsAre
    <2>2. Weight(stops, WaitOf(i)) \in Nat
      BY <1>7, <2>1, WeightType DEF TypeOK
    <2> QED
      BY <1>6, <1>7, <2>1, <2>2, NumbersAreNat DEF Here, Open, Worth
  <1>16. ASSUME NEW i, i # id
         PROVE  Here(i)' \in Nat /\ Here(i)' <= Here(i) /\ Open(i)' <= Open(i) /\ Worth(i)' <= Worth(i)
    <2>1. OneOf(i)[o] = 0 /\ OpenOf(i)[o] = 0 /\ WorthOf(i)[o] = 0
      BY <1>14, <1>16
    <2>2. /\ InBooks(book', OneOf(i)) = InBooks(b, OneOf(i)) + OneOf(i)[o]
          /\ InBooks(book', OpenOf(i)) = InBooks(b, OpenOf(i)) + OpenOf(i)[o]
          /\ InBooks(book', WorthOf(i)) = InBooks(b, WorthOf(i)) + WorthOf(i)[o]
      BY <1>13, <1>15
    <2>3. /\ InBooks(b, OneOf(i)) \in Nat /\ InBooks(b, OneOf(i)) <= InBooks(book, OneOf(i))
          /\ InBooks(b, OpenOf(i)) \in Nat /\ InBooks(b, OpenOf(i)) <= InBooks(book, OpenOf(i))
          /\ InBooks(b, WorthOf(i)) \in Nat /\ InBooks(b, WorthOf(i)) <= InBooks(book, WorthOf(i))
      BY <1>12, <1>15
    <2>4. InBooks(book, OneOf(i)) \in Nat
      BY ONLY <1>7, <1>15, BookWeighs
    <2>5. Here(i)' \in Nat /\ Here(i)' <= Here(i)
      <3>1. /\ Here(i) = InBooks(book, OneOf(i)) + Weight(stops, WaitOf(i))
            /\ Here(i)' = InBooks(book', OneOf(i)) + Weight(stops, WaitOf(i)) /\ Weight(stops, WaitOf(i)) \in Nat
        BY <1>15
      <3> QED
        BY ONLY <2>1, <2>2, <2>3, <2>4, <3>1
    <2>6. Open(i)' <= Open(i) /\ Worth(i)' <= Worth(i)
      <3>1. /\ Open(i) = InBooks(book, OpenOf(i)) /\ Open(i)' = InBooks(book', OpenOf(i))
            /\ Worth(i) = InBooks(book, WorthOf(i)) /\ Worth(i)' = InBooks(book', WorthOf(i))
        BY <1>15
      <3> QED
        BY ONLY <2>1, <2>2, <2>3, <3>1
    <2> QED
      BY <2>5, <2>6
  <1>17. /\ Here(id)' \in Nat /\ Here(id)' <= Here(id) /\ Here(id) # 0
         /\ Open(id)' <= n /\ Worth(id)' <= p * n
    <2>1. Here(id) <= 1
      BY <1>7 DEF OnePlace
    <2>2. OneOf(id)[o] = 1 /\ OpenOf(id)[o] = n /\ WorthOf(id)[o] = p * n
      BY <1>14
    <2>3. /\ InBooks(book', OneOf(id)) = InBooks(b, OneOf(id)) + OneOf(id)[o]
          /\ InBooks(book', OpenOf(id)) = InBooks(b, OpenOf(id)) + OpenOf(id)[o]
          /\ InBooks(book', WorthOf(id)) = InBooks(b, WorthOf(id)) + WorthOf(id)[o]
      BY <1>13, <1>15
    <2>4. InBooks(b, OneOf(id)) \in Nat /\ InBooks(b, OneOf(id)) < InBooks(book, OneOf(id))
      BY <1>12, <1>15
    <2>5. InBooks(book, OneOf(id)) \in Nat
      BY ONLY <1>7, <1>15, BookWeighs
    <2>6. /\ Here(id) = InBooks(book, OneOf(id)) + Weight(stops, WaitOf(id))
          /\ Here(id)' = InBooks(book', OneOf(id)) + Weight(stops, WaitOf(id)) /\ Weight(stops, WaitOf(id)) \in Nat
      BY <1>15
    <2>7. InBooks(b, OneOf(id)) = 0 /\ Here(id)' \in Nat /\ Here(id)' <= Here(id) /\ Here(id) # 0
      BY ONLY <2>1, <2>2, <2>3, <2>4, <2>5, <2>6
    <2>8. InBooks(b, OpenOf(id)) = 0 /\ InBooks(b, WorthOf(id)) = 0
      BY <1>7, <1>12, <2>7, OnlyPlace
    <2>9. Open(id)' = InBooks(book', OpenOf(id)) /\ Worth(id)' = InBooks(book', WorthOf(id))
      BY <1>15
    <2>10. Open(id)' <= n /\ Worth(id)' <= p * n
      BY ONLY <1>8, <2>2, <2>3, <2>8, <2>9
    <2> QED
      BY <2>7, <2>10
  <1>18. odd' \in [Ids \cup Quotes -> SUBSET Oddity]
    <2>1. PICK what : what = {"modified"} \cup IF Raises(id, side, n * p) \/ InPlacement(id) THEN {"raised"} ELSE {}
      OBVIOUS
    <2>2. what \in SUBSET Oddity
      BY <2>1 DEF Oddity
    <2>3. odd' = [odd EXCEPT ![id] = @ \cup what]
      BY <1>6, <2>1
    <2> QED
      BY ONLY <1>7, <1>17, <2>2, <2>3, id \in Ids \cup Quotes, OddChanges
  <1>19. Comes(r, x)
    <2>1. req[r].stage = "idle" /\ gen.trades = <<>>
      BY <1>6, <1>7 DEF Idle, TickOK
    <2>2. \A i \in Ids \cup Quotes : traded[i] <= traded[i]
      BY <1>7 DEF TypeOK
    <2> QED
      BY <1>6, <1>7, <1>9, <1>13, <1>18, <2>1, <2>2 DEF Comes, TypeOK
  <1>20. /\ \A i : Here(i)' \in Nat /\ Here(i)' <= Here(i)
         /\ \A i : i # id => Open(i)' <= Open(i) /\ Worth(i)' <= Worth(i)
    BY <1>16, <1>17
  <1>21. \E s \in Side :
           /\ \E y \in Held(book) : y.id = id /\ y.side = s
           /\ \A y \in Held(book') : y \in Held(book) \/ (y.id = id /\ y.side = s)
           /\ odd' = [odd EXCEPT ![id] = @ \cup ({"modified"} \cup
                        IF Raises(id, s, n * p) \/ InPlacement(id) THEN {"raised"} ELSE {})]
    <2>1. \A y \in Held(book') : y \in Held(book) \/ (y.id = id /\ y.side = side)
      BY <1>11, <1>12, <1>13
    <2>2. \E y \in Held(book) : y.id = id /\ y.side = side
      BY <1>3, <1>10
    <2> QED
      BY <1>6, <1>10, <2>1, <2>2
  <1>22. Modifies(r, id, x, n, p)
    BY <1>6, <1>8, <1>9, <1>17, <1>19, <1>20, <1>21 DEF Modifies
  <1> QED
    BY <1>22

LEMMA ModifiesKeepsBase ==
  ASSUME BaseInv, NEW r, r \in Threads, NEW id, NEW x, NEW n, NEW p, Modifies(r, id, x, n, p)
  PROVE  BaseInv' /\ Grows
  <1>1. /\ Comes(r, x) /\ x.stage = "update" /\ x.id = id /\ id \in Ids \cup Quotes /\ x.qty = n /\ n > 0
        /\ UNCHANGED <<stops, nextId>>
        /\ \A i : Here(i)' \in Nat /\ Here(i)' <= Here(i)
        /\ Here(id) # 0
    BY DEF Modifies
  <1>2. PICK what : what \in SUBSET Oddity /\ "modified" \in what /\ odd' = [odd EXCEPT ![id] = @ \cup what]
    <2>1. PICK side \in Side : odd' = [odd EXCEPT ![id] = @ \cup ({"modified"} \cup
                        IF Raises(id, side, n * p) \/ InPlacement(id) THEN {"raised"} ELSE {})]
      BY DEF Modifies
    <2>2. PICK what : what = {"modified"} \cup IF Raises(id, side, n * p) \/ InPlacement(id) THEN {"raised"} ELSE {}
      OBVIOUS
    <2>3. what \in SUBSET Oddity /\ "modified" \in what
      BY <2>2 DEF Oddity
    <2> QED
      BY <2>1, <2>2, <2>3
  <1>3. UNCHANGED <<nextQuote, tracked, credited, missed, settled, owner>> /\ x \in Request
    BY <1>1 DEF Comes
  <1>4. TypeOK /\ Unused
    BY DEF BaseInv
  <1>5. /\ \A i \in Ids \cup Quotes : odd[i] \subseteq odd'[i] /\ (Here(i) = 0 => odd'[i] = odd[i])
        /\ odd'[id] = odd[id] \cup what
    BY ONLY <1>1, <1>2, <1>4, OddChanges
  <1>6. Grows /\ Unused' /\ StopsUnowned' /\ OwnersKnown' /\ OnePlace'
    BY ONLY BaseInv, <1>1, <1>3, <1>5, SameIdsKeep
  <1>7. RequestOK(x)'
    <2>1. id \in Ids => id < nextId
      BY <1>1, <1>4, HeldIds
    <2> QED
      BY <1>1, <1>2, <1>3, <1>5, <2>1 DEF RequestOK, Placed, Recorder
  <1> QED
    BY <1>1, <1>6, <1>7, ComesKeepsBase

-----------------------------------------------------------------------------
(* Order i loses shares of the book to the trades of the tick, or altogether. *)
Shrinks(i) ==
  /\ Open(i)' + Made(i)' <= Open(i) + Made(i)
  /\ Worth(i)' + Revenue(i)' <= Worth(i) + Revenue(i)
  /\ \A o \in Held(book') : o.id = i => \E y \in Held(book) : y.id = i /\ y.side = o.side

(* A call of a handler about a stop order takes no share of an order that    *)
(* has an owner into the book; x is NoRequest.                               *)
StopRequest(r, x) ==
  /\ Comes(r, x) /\ x = NoRequest /\ UNCHANGED odd
  /\ nextId' = nextId \/ (nextId' = nextId + 1 /\ nextId \in Ids)
  /\ Grows /\ Unused' /\ StopsUnowned' /\ OwnersKnown' /\ OnePlace'
  /\ \A i \in Ids : owner[i] # NoUser => Shrinks(i)

LEMMA TreeIs ==
  ASSUME NEW q, q \in Seq(Waiting), NEW s, s \in Side, NEW stop
  PROVE  Tree(q, s, stop) \in Side
  <1> DEFINE Level == {w \in ToSet(q) : w.stop = stop}
  <1>1. CASE Level = {}
    BY <1>1 DEF Tree
  <1>2. CASE Level # {}
    <2>1. PICK w : w = CHOOSE v \in Level : TRUE
      OBVIOUS
    <2>2. w \in Level
      BY <1>2, <2>1
    <2>3. w \in Waiting
      BY <2>2, OfSeq
    <2>4. Tree(q, s, stop) = w.tree
      BY <1>2, <2>1 DEF Tree
    <2> QED
      BY <2>3, <2>4 DEF Waiting
  <1> QED
    BY <1>1, <1>2

(* The frame of such a call *)
LEMMA StopCallIs ==
  ASSUME BaseInv, NEW r, r \in Threads, Idle(r), requests < MaxRequests, StopCall(r), UNCHANGED run,
         NEW x, x = NoRequest, book' \in [Side -> Seq(Resting)], stops' \in Seq(Waiting),
         traded' \in [Ids \cup Quotes -> Nat], \A i \in Ids \cup Quotes : traded[i] <= traded'[i]
  PROVE  Comes(r, x) /\ UNCHANGED <<gen, odd, nextQuote, tracked, credited, missed, settled, owner>>
  <1>1. TypeOK /\ TickOK
    BY DEF BaseInv
  <1>2. /\ gen.stage = "idle" /\ requests' = requests + 1 /\ req' = [req EXCEPT ![r] = x]
        /\ UNCHANGED <<nextQuote, tracked, cash, shares, loaded, gen, todo, credited, missed, settled, owner, odd, restarts, before>>
    BY DEF StopCall, BookFree, Arrives, run, settled
  <1>3. req[r].stage = "idle" /\ gen.trades = <<>>
    BY <1>1, <1>2 DEF Idle, TickOK
  <1>4. x \in Request /\ Idles(x)
    BY NoRequestIs
  <1>5. odd' \in [Ids \cup Quotes -> SUBSET Oddity]
    BY <1>1, <1>2 DEF TypeOK
  <1> QED
    BY <1>2, <1>3, <1>4, <1>5 DEF Comes

(* Where the book of orders stays as it is *)
LEMMA SameBookShrinks ==
  ASSUME TypeOK, UNCHANGED <<book, gen>>
  PROVE  \A i : Shrinks(i) /\ InBooks(book', OneOf(i)) = InBooks(book, OneOf(i))
  <1> SUFFICES ASSUME NEW i
               PROVE  Shrinks(i)
    OBVIOUS
  <1>1. Open(i)' = Open(i) /\ Worth(i)' = Worth(i) /\ Made(i)' = Made(i) /\ Revenue(i)' = Revenue(i)
    BY DEF Open, Worth, Made, Revenue
  <1>2. Open(i) \in Nat /\ Worth(i) \in Nat /\ Made(i) \in Nat /\ Revenue(i) \in Nat
    BY NumbersAreNat
  <1> QED
    BY <1>1, <1>2 DEF Shrinks

LEMMA CancelStopIs ==
  ASSUME BaseInv, NEW r, r \in Threads, NEW k, k \in DOMAIN stops, Idle(r), requests < MaxRequests,
         CancelStop(r, k), UNCHANGED run, NEW x, x = NoRequest
  PROVE  StopRequest(r, x)
  <1>1. TypeOK /\ stops \in Seq(Waiting) /\ book \in [Side -> Seq(Resting)] /\ traded \in [Ids \cup Quotes -> Nat]
        /\ nextId \in Nat
    BY IdsAreNat DEF BaseInv, TypeOK
  <1>2. StopCall(r) /\ stops' = RemoveAt(stops, k) /\ UNCHANGED <<book, nextId, traded>>
    BY DEF CancelStop, settled
  <1>3. stops' \in Seq(Waiting) /\ \A y \in ToSet(stops') : y \in ToSet(stops)
    BY <1>1, <1>2, RemoveAtIs, RemoveAtHolds
  <1>4. Comes(r, x) /\ UNCHANGED <<gen, odd, nextQuote, tracked, credited, missed, settled, owner>>
    <2>1. book' \in [Side -> Seq(Resting)] /\ traded' \in [Ids \cup Quotes -> Nat]
          /\ \A i \in Ids \cup Quotes : traded[i] <= traded'[i]
      BY <1>1, <1>2
    <2> QED
      BY <1>2, <1>3, <2>1, StopCallIs
  <1>5. \A i : Shrinks(i) /\ InBooks(book', OneOf(i)) = InBooks(book, OneOf(i))
    BY <1>1, <1>2, <1>4, SameBookShrinks
  <1>6. ASSUME NEW i
        PROVE  Here(i)' \in Nat /\ Here(i)' <= Here(i)
    <2>1. WaitOf(i) \in [Waiting -> Nat] /\ stops[k] \in Waiting /\ OneOf(i) \in [Resting -> Nat]
      BY <1>1, WeightsAre
    <2>2. Weight(stops, WaitOf(i)) = Weight(stops', WaitOf(i)) + WaitOf(i)[stops[k]]
      BY <1>1, <1>2, <2>1, WeightOfRemove
    <2>3. Weight(stops', WaitOf(i)) \in Nat /\ WaitOf(i)[stops[k]] \in Nat
      BY <1>3, <2>1, WeightType
    <2>4. InBooks(book, OneOf(i)) \in Nat
      BY ONLY <1>1, <2>1, BookWeighs
    <2>5. Here(i) = InBooks(book, OneOf(i)) + Weight(stops, WaitOf(i))
          /\ Here(i)' = InBooks(book, OneOf(i)) + Weight(stops', WaitOf(i))
      BY <1>5 DEF Here
    <2> QED
      BY ONLY <2>2, <2>3, <2>4, <2>5
  <1>7. Grows /\ Unused' /\ StopsUnowned' /\ OwnersKnown' /\ OnePlace'
    <2>1. UNCHANGED <<nextId, nextQuote, tracked, credited, missed, settled, owner>>
      BY <1>2, <1>4
    <2>2. \A i : Here(i)' \in Nat /\ Here(i)' <= Here(i)
      BY <1>6
    <2>3. \A y \in ToSet(stops') : \E w \in ToSet(stops) : w.id = y.id
      BY <1>3
    <2>4. \A i \in Ids \cup Quotes : odd[i] \subseteq odd'[i] /\ (Here(i) = 0 => odd'[i] = odd[i])
      BY <1>4
    <2> QED
      BY ONLY BaseInv, <2>1, <2>2, <2>3, <2>4, SameIdsKeep
  <1> QED
    BY <1>2, <1>4, <1>5, <1>7 DEF StopRequest

LEMMA ModifyStopIs ==
  ASSUME BaseInv, NEW r, r \in Threads, NEW k, k \in DOMAIN stops, Idle(r), requests < MaxRequests,
         NEW q, q \in Quantities, NEW limit, limit \in Prices \cup {0}, NEW stop, stop \in Prices,
         ModifyStop(r, k, q, limit, stop), UNCHANGED run, NEW x, x = NoRequest
  PROVE  StopRequest(r, x)
  <1>1. TypeOK /\ stops \in Seq(Waiting) /\ book \in [Side -> Seq(Resting)] /\ traded \in [Ids \cup Quotes -> Nat]
        /\ nextId \in Nat
    BY IdsAreNat DEF BaseInv, TypeOK
  <1>2. PICK others : others = RemoveAt(stops, k)
    OBVIOUS
  <1>3. PICK w : w = stops[k]
    OBVIOUS
  <1>4. PICK t : t = Tree(others, w.side, stop)
    OBVIOUS
  <1>5. PICK y : y = [w EXCEPT !.open = q, !.limit = limit, !.stop = stop, !.tree = t]
    OBVIOUS
  <1>6. StopCall(r) /\ stops' = Append(others, y) /\ UNCHANGED <<book, nextId, traded>>
    BY <1>2, <1>3, <1>4, <1>5 DEF ModifyStop, settled
  <1>7. /\ others \in Seq(Waiting) /\ w \in Waiting /\ w \in ToSet(stops)
        /\ \A v \in ToSet(others) : v \in ToSet(stops)
    <2>1. others \in Seq(Waiting) /\ \A v \in ToSet(others) : v \in ToSet(stops)
      BY <1>1, <1>2, RemoveAtIs, RemoveAtHolds
    <2>2. w \in Waiting /\ w \in ToSet(stops)
      BY <1>1, <1>3 DEF ToSet
    <2> QED
      BY <2>1, <2>2
  <1>8. y \in Waiting /\ y.id = w.id
    <2>1. t \in Side
      <3>1. w.side \in Side
        BY <1>7 DEF Waiting
      <3> QED
        BY <1>4, <1>7, <3>1, TreeIs
    <2>2. q \in Nat \ {0}
      BY OrderFlowConstants
    <2> QED
      BY <1>5, <1>7, <2>1, <2>2 DEF Waiting
  <1>9. stops' \in Seq(Waiting) /\ \A v \in ToSet(stops') : v = y \/ v \in ToSet(others)
    BY <1>6, <1>7, <1>8, AppendHolds
  <1>10. Comes(r, x) /\ UNCHANGED <<gen, odd, nextQuote, tracked, credited, missed, settled, owner>>
    <2>1. book' \in [Side -> Seq(Resting)] /\ traded' \in [Ids \cup Quotes -> Nat]
          /\ \A i \in Ids \cup Quotes : traded[i] <= traded'[i]
      BY <1>1, <1>6
    <2> QED
      BY <1>6, <1>9, <2>1, StopCallIs
  <1>11. \A i : Shrinks(i) /\ InBooks(book', OneOf(i)) = InBooks(book, OneOf(i))
    BY <1>1, <1>6, <1>10, SameBookShrinks
  <1>12. ASSUME NEW i
         PROVE  Here(i)' \in Nat /\ Here(i)' <= Here(i)
    <2>1. WaitOf(i) \in [Waiting -> Nat] /\ OneOf(i) \in [Resting -> Nat]
      BY WeightsAre
    <2>2. Weight(stops, WaitOf(i)) = Weight(others, WaitOf(i)) + WaitOf(i)[w]
      BY <1>1, <1>2, <1>3, <2>1, WeightOfRemove
    <2>3. Weight(stops', WaitOf(i)) = Weight(others, WaitOf(i)) + WaitOf(i)[y]
      BY <1>6, <1>7, <1>8, <2>1, WeightOfAppend
    <2>4. Weight(others, WaitOf(i)) \in Nat /\ WaitOf(i)[w] \in Nat /\ WaitOf(i)[y] \in Nat
      BY <1>7, <1>8, <2>1, WeightType
    <2>5. WaitOf(i)[y] = WaitOf(i)[w]
      BY <1>7, <1>8 DEF WaitOf
    <2>6. InBooks(book, OneOf(i)) \in Nat
      BY ONLY <1>1, <2>1, BookWeighs
    <2>7. Here(i) = InBooks(book, OneOf(i)) + Weight(stops, WaitOf(i))
          /\ Here(i)' = InBooks(book, OneOf(i)) + Weight(stops', WaitOf(i))
      BY <1>11 DEF Here
    <2> QED
      BY ONLY <2>2, <2>3, <2>4, <2>5, <2>6, <2>7
  <1>13. Grows /\ Unused' /\ StopsUnowned' /\ OwnersKnown' /\ OnePlace'
    <2>1. UNCHANGED <<nextId, nextQuote, tracked, credited, missed, settled, owner>>
      BY <1>6, <1>10
    <2>2. \A i : Here(i)' \in Nat /\ Here(i)' <= Here(i)
      BY <1>12
    <2>3. \A v \in ToSet(stops') : \E u \in ToSet(stops) : u.id = v.id
      BY <1>7, <1>8, <1>9
    <2>4. \A i \in Ids \cup Quotes : odd[i] \subseteq odd'[i] /\ (Here(i) = 0 => odd'[i] = odd[i])
      BY <1>10
    <2> QED
      BY ONLY BaseInv, <2>1, <2>2, <2>3, <2>4, SameIdsKeep
  <1> QED
    BY <1>6, <1>10, <1>11, <1>13 DEF StopRequest

LEMMA AddStopIs ==
  ASSUME BaseInv, NEW r, r \in Threads, Idle(r), requests < MaxRequests, NEW s, s \in Side,
         NEW q, q \in Quantities, NEW limit, limit \in Prices \cup {0}, NEW stop, stop \in Prices,
         AddStop(r, s, q, limit, stop), UNCHANGED run, NEW x, x = NoRequest
  PROVE  StopRequest(r, x)
  <1>1. /\ TypeOK /\ Unused /\ Counted /\ stops \in Seq(Waiting) /\ book \in [Side -> Seq(Resting)]
        /\ traded \in [Ids \cup Quotes -> Nat] /\ nextId \in Nat /\ requests \in Nat /\ MaxRequests \in Nat
        /\ StopsUnowned
    BY IdsAreNat DEF BaseInv, TypeOK
  <1>2. nextId \in Ids
    <2>1. Weight(req, Coming) \in Nat /\ Weight(req, Coming) + nextId - 1 <= requests
      BY <1>1, NumbersAreNat DEF Counted
    <2>2. nextId <= MaxRequests
      BY ONLY <1>1, <2>1, requests < MaxRequests
    <2> QED
      BY <1>1, <2>2 DEF TypeOK, Ids
  <1>3. Here(nextId) = 0 /\ owner[nextId] = NoUser
    BY <1>1, <1>2 DEF Unused, UnusedId
  <1>4. StopCall(r) /\ nextId' = nextId + 1
    BY DEF AddStop, settled
  <1>5. q \in Nat /\ q > 0 /\ q \in Nat \ {0}
    BY OrderFlowConstants
  <1>6. /\ book' \in [Side -> Seq(Resting)] /\ stops' \in Seq(Waiting) /\ traded' \in [Ids \cup Quotes -> Nat]
        /\ \A i \in Ids \cup Quotes : traded[i] <= traded'[i]
        /\ \A i : Here(i)' \in Nat /\ Here(i)' <= Here(i) + (IF i = nextId THEN 1 ELSE 0)
        /\ \A y \in ToSet(stops') : \/ y \in ToSet(stops) /\ y.id # nextId
                                    \/ y.id = nextId
        /\ UNCHANGED gen => \A i \in Ids : owner[i] # NoUser => Shrinks(i)
    <2>1. CASE Submit(Taken(nextId, s, limit, q))
      <3>1. PICK e : e = Taken(nextId, s, limit, q)
        OBVIOUS
      <3>2. Submitted(e, nextId, s, limit, q)
        <4>1. nextId \in Ids \cup Quotes /\ Submit(e)
          BY <1>2, <2>1, <3>1
        <4> QED
          BY ONLY <1>1, <1>3, <1>5, <3>1, <4>1, s \in Side, limit \in Prices \cup {0}, SubmitIs
      <3>3. /\ book' \in [Side -> Seq(Resting)] /\ stops' \in Seq(Waiting) /\ traded' \in [Ids \cup Quotes -> Nat]
            /\ e.trades \in Seq(Fill)
            /\ \A i \in Ids \cup Quotes : traded'[i] = traded[i] + Volume(e.trades, i) /\ Volume(e.trades, i) \in Nat
            /\ \A i : Here(i)' \in Nat /\ Here(i)' <= Here(i) + (IF i = nextId THEN 1 ELSE 0)
            /\ \A y \in ToSet(stops') : y \in ToSet(stops) /\ y.id # nextId
            /\ \A o \in Held(book') : \/ \E y \in Held(book) : y.id = o.id /\ y.side = o.side
                                      \/ o.id = nextId
                                      \/ \E y \in ToSet(stops) : y.id = o.id
            /\ \A i : i # nextId /\ (\A y \in ToSet(stops) : y.id # i) =>
                  /\ Open(i)' + Weight(e.trades, MadeBy(i)) = Open(i)
                  /\ Worth(i)' + Weight(e.trades, MadeFor(i)) = Worth(i)
        BY <3>2 DEF Submitted
      <3>4. \A i \in Ids \cup Quotes : traded[i] <= traded'[i]
        BY <1>1, <3>3
      <3>5. ASSUME NEW i, i \in Ids, owner[i] # NoUser, UNCHANGED gen
            PROVE  Shrinks(i)
        <4>1. i # nextId /\ \A y \in ToSet(stops) : y.id # i
          BY <1>1, <1>3, <3>5 DEF StopsUnowned
        <4>2. /\ Open(i)' + Weight(e.trades, MadeBy(i)) = Open(i)
              /\ Worth(i)' + Weight(e.trades, MadeFor(i)) = Worth(i)
          BY <3>3, <4>1
        <4>3. Made(i)' = Made(i) /\ Revenue(i)' = Revenue(i)
          BY <3>5 DEF Made, Revenue
        <4>4. /\ Made(i) \in Nat /\ Revenue(i) \in Nat /\ Open(i) \in Nat /\ Worth(i) \in Nat
              /\ Weight(e.trades, MadeBy(i)) \in Nat /\ Weight(e.trades, MadeFor(i)) \in Nat
          BY <1>1, <3>3, NumbersAreNat, WeightsAre, WeightType
        <4>5. Open(i)' \in Nat /\ Worth(i)' \in Nat
          <5>1. OpenOf(i) \in [Resting -> Nat] /\ WorthOf(i) \in [Resting -> Nat]
            BY WeightsAre
          <5>2. InBooks(book', OpenOf(i)) \in Nat /\ InBooks(book', WorthOf(i)) \in Nat
            BY ONLY <3>3, <5>1, BookWeighs
          <5> QED
            BY <5>2 DEF Open, Worth
        <4>6. Open(i)' + Made(i)' <= Open(i) + Made(i) /\ Worth(i)' + Revenue(i)' <= Worth(i) + Revenue(i)
          BY ONLY <4>2, <4>3, <4>4, <4>5
        <4>7. \A o \in Held(book') : o.id = i => \E y \in Held(book) : y.id = i /\ y.side = o.side
          BY <3>3, <4>1
        <4> QED
          BY <4>6, <4>7 DEF Shrinks
      <3> QED
        BY <3>3, <3>4, <3>5
    <2>2. CASE /\ stops' = Append(stops, [id |-> nextId, side |-> s, stop |-> stop, limit |-> limit, open |-> q,
                                          tree |-> Tree(stops, s, stop)])
               /\ UNCHANGED <<book, traded>>
      <3>1. PICK t : t = Tree(stops, s, stop)
        OBVIOUS
      <3>2. PICK y : y = [id |-> nextId, side |-> s, stop |-> stop, limit |-> limit, open |-> q, tree |-> t]
        OBVIOUS
      <3>3. stops' = Append(stops, y)
        BY <2>2, <3>1, <3>2
      <3>4. y \in Waiting /\ y.id = nextId
        <4>1. t \in Side
          BY <1>1, <3>1, TreeIs
        <4> QED
          BY <1>2, <1>5, <3>2, <4>1 DEF Waiting
      <3>5. stops' \in Seq(Waiting) /\ \A v \in ToSet(stops') : v = y \/ v \in ToSet(stops)
        BY <1>1, <3>3, <3>4, AppendHolds
      <3>6. \A v \in ToSet(stops) : v.id # nextId
        BY <1>1, <1>3, HereIs
      <3>7. \A i \in Ids \cup Quotes : traded[i] <= traded'[i]
        BY <1>1, <2>2
      <3>8. ASSUME NEW i
            PROVE  Here(i)' \in Nat /\ Here(i)' <= Here(i) + (IF i = nextId THEN 1 ELSE 0)
        <4>1. WaitOf(i) \in [Waiting -> Nat] /\ OneOf(i) \in [Resting -> Nat]
          BY WeightsAre
        <4>2. Weight(stops', WaitOf(i)) = Weight(stops, WaitOf(i)) + WaitOf(i)[y]
          <5>1. PICK z : z = stops
            OBVIOUS
          <5>2. z \in Seq(Waiting) /\ y \in Waiting
            BY <1>1, <3>4, <5>1
          <5>3. Weight(Append(z, y), WaitOf(i)) = Weight(z, WaitOf(i)) + WaitOf(i)[y]
            BY ONLY <4>1, <5>2, WeightOfAppend
          <5> QED
            BY <3>3, <5>1, <5>3
        <4>3. WaitOf(i)[y] = (IF i = nextId THEN 1 ELSE 0)
          BY <3>4 DEF WaitOf
        <4>4. Weight(stops, WaitOf(i)) \in Nat
          BY <1>1, <4>1, WeightType
        <4>5. InBooks(book, OneOf(i)) \in Nat
          BY ONLY <1>1, <4>1, BookWeighs
        <4>6. Here(i) = InBooks(book, OneOf(i)) + Weight(stops, WaitOf(i))
              /\ Here(i)' = InBooks(book, OneOf(i)) + Weight(stops', WaitOf(i))
          BY <2>2 DEF Here
        <4> QED
          BY ONLY <4>2, <4>3, <4>4, <4>5, <4>6
      <3>9. UNCHANGED gen => \A i : Shrinks(i)
        BY <1>1, <2>2, SameBookShrinks
      <3> QED
        BY <1>1, <2>2, <3>4, <3>5, <3>6, <3>7, <3>8, <3>9
    <2> QED
      BY <2>1, <2>2 DEF AddStop, settled
  <1>7. Comes(r, x) /\ UNCHANGED <<gen, odd, nextQuote, tracked, credited, missed, settled, owner>>
    BY <1>4, <1>6, StopCallIs
  <1>8. Grows /\ Unused' /\ StopsUnowned' /\ OwnersKnown' /\ OnePlace'
    <2>1. /\ UNCHANGED <<nextQuote, tracked, credited, missed, settled>> /\ nextId' = nextId + 1
          /\ \A i \in Ids : i # nextId => owner'[i] = owner[i]
          /\ \A i \in Ids \cup Quotes : i # nextId => odd'[i] = odd[i]
          /\ \A y \in ToSet(stops') : \/ y \in ToSet(stops) /\ y.id # nextId
                                      \/ y.id = nextId /\ owner'[nextId] = NoUser
      BY <1>3, <1>4, <1>6, <1>7
    <2> QED
      BY ONLY BaseInv, <1>2, <1>6, <2>1, NewIdKeeps
  <1>9. \A i \in Ids : owner[i] # NoUser => Shrinks(i)
    BY <1>6, <1>7
  <1> QED
    BY <1>2, <1>4, <1>7, <1>8, <1>9 DEF StopRequest

LEMMA StopRequestKeepsBase ==
  ASSUME BaseInv, NEW r, r \in Threads, NEW x, StopRequest(r, x)
  PROVE  BaseInv'
  <1>1. /\ Comes(r, x) /\ x = NoRequest
        /\ nextId' = nextId \/ (nextId' = nextId + 1 /\ nextId \in Ids)
        /\ Grows /\ Unused' /\ StopsUnowned' /\ OwnersKnown' /\ OnePlace'
    BY DEF StopRequest
  <1>2. RequestOK(x)'
    BY <1>1, NoRequestIs DEF RequestOK, Placed, Recorder
  <1> QED
    BY <1>1, <1>2, ComesKeepsBase

-----------------------------------------------------------------------------
(* Quote: the generator's order nextQuote; what it trades is to be reconciled. *)
Quotes1(e, s, p, q) ==
  /\ nextQuote \in Quotes /\ nextQuote' = nextQuote + 1 /\ gen.trades = <<>>
  /\ todo[Generator] = <<>>
  /\ Submitted(e, nextQuote, s, p, q)
  /\ gen' \in Tick /\ gen'.trades = Reported(e)
  /\ gen'.stage = IF Reported(e) = <<>> THEN "quote" ELSE "reconcile"
  /\ UNCHANGED <<nextId, tracked, cash, shares, loaded, req, todo, requests, credited, missed, settled, owner, odd, restarts, before>>

LEMMA QuoteIs ==
  ASSUME BaseInv, NEW s, s \in Side, NEW p, p \in Prices, NEW q, q \in QuoteSizes, Quote(s, p, q), UNCHANGED run
  PROVE  \E e : Quotes1(e, s, p, q)
  <1>1. PICK e : e = Taken(nextQuote, s, p, q)
    OBVIOUS
  <1>2. PICK ts : ts = Reported(e)
    OBVIOUS
  <1>3. PICK b : b = IF s = "buy" THEN Max({p, gen.bid}) ELSE gen.bid
    OBVIOUS
  <1>4. /\ gen.stage = "quote" /\ todo[Generator] = <<>> /\ nextQuote \in Quotes /\ nextQuote' = nextQuote + 1
        /\ Submit(e)
        /\ gen' = [stage |-> IF ts = <<>> THEN "quote" ELSE "reconcile", side |-> s, bid |-> b, trades |-> ts]
        /\ UNCHANGED <<nextId, tracked, cash, shares, loaded, req, todo, requests, credited, missed, settled, owner, odd, restarts, before>>
    BY <1>1, <1>2, <1>3 DEF Quote, Quoting, run, settled
  <1>5. TypeOK /\ TickOK /\ Unused
    BY DEF BaseInv
  <1>6. gen.trades = <<>>
    BY <1>4, <1>5 DEF TickOK
  <1>7. q \in Nat /\ q > 0 /\ p \in Nat /\ p \in Prices \cup {0}
    BY OrderFlowConstants
  <1>8. Here(nextQuote) = 0 /\ nextQuote \in Ids \cup Quotes
    <2>1. nextQuote \in Nat
      BY <1>4, <1>5, IdsAreNat
    <2> QED
      BY <1>4, <1>5, <2>1 DEF Unused
  <1>9. Submitted(e, nextQuote, s, p, q)
    BY ONLY <1>1, <1>4, <1>5, <1>7, <1>8, s \in Side, SubmitIs
  <1>10. ts \in Seq(Fill)
    BY <1>2, <1>9, ReportedIs DEF Submitted
  <1>11. b \in Nat
    <2>1. gen.bid \in Nat
      BY <1>5 DEF TypeOK, Tick
    <2>2. Max({p, gen.bid}) \in Nat
      BY <1>7, <2>1, MaxIs
    <2> QED
      BY <1>3, <2>1, <2>2
  <1>12. gen' \in Tick /\ gen'.trades = ts /\ gen'.stage = IF ts = <<>> THEN "quote" ELSE "reconcile"
    BY <1>4, <1>10, <1>11 DEF Tick
  <1>13. Quotes1(e, s, p, q)
    BY <1>2, <1>4, <1>6, <1>9, <1>12 DEF Quotes1
  <1> QED
    BY <1>13

LEMMA QuoteShrinks ==
  ASSUME BaseInv, NEW e, NEW s, NEW p, NEW q, Quotes1(e, s, p, q), NEW i, i \in Ids
  PROVE  /\ Made(i) = 0 /\ Made(i)' \in Nat /\ Made(i)' <= Volume(e.trades, i) /\ Volume(e.trades, i) \in Nat
         /\ owner[i] # NoUser => Shrinks(i)
  <1>1. TypeOK /\ StopsUnowned /\ Ids \subseteq Nat /\ nextQuote \in Nat /\ i # nextQuote
    <2>1. TypeOK /\ StopsUnowned /\ nextQuote \in Quotes
      BY DEF BaseInv, Quotes1
    <2>2. i # nextQuote
      BY <2>1, OrderFlowConstants DEF Ids, Quotes
    <2> QED
      BY <2>1, <2>2, IdsAreNat
  <1>2. /\ gen.trades = <<>> /\ gen'.trades = Reported(e) /\ e.trades \in Seq(Fill)
        /\ book' \in [Side -> Seq(Resting)]
        /\ \A o \in Held(book') : \/ \E y \in Held(book) : y.id = o.id /\ y.side = o.side
                                  \/ o.id = nextQuote
                                  \/ \E y \in ToSet(stops) : y.id = o.id
        /\ \A j : j # nextQuote /\ (\A y \in ToSet(stops) : y.id # j) =>
              /\ Open(j)' + Weight(e.trades, MadeBy(j)) = Open(j)
              /\ Worth(j)' + Weight(e.trades, MadeFor(j)) = Worth(j)
    BY DEF Quotes1, Submitted
  <1>3. Made(i) = 0 /\ Revenue(i) = 0
    BY <1>2, WeightOfEmpty DEF Made, Revenue
  <1>4. Made(i)' = Weight(Reported(e), MadeBy(i)) /\ Revenue(i)' = Weight(Reported(e), MadeFor(i))
    BY <1>2 DEF Made, Revenue
  <1>5. MadeBy(i) \in [Fill -> Nat] /\ MadeFor(i) \in [Fill -> Nat]
    BY WeightsAre
  <1>6. /\ Reported(e) \in Seq(Fill)
        /\ \A v, w \in [Fill -> Nat] : (\A t \in ToSet(Reported(e)) : v[t] <= w[t]) =>
             Weight(Reported(e), v) <= Weight(e.trades, w)
    BY <1>2, ReportedIs
  <1>7. Weight(Reported(e), MadeBy(i)) <= Weight(e.trades, MadeBy(i))
        /\ Weight(Reported(e), MadeFor(i)) <= Weight(e.trades, MadeFor(i))
    <2>1. ASSUME NEW t, t \in ToSet(Reported(e))
          PROVE  MadeBy(i)[t] <= MadeBy(i)[t] /\ MadeFor(i)[t] <= MadeFor(i)[t]
      <3>1. t \in Fill
        BY <1>6, <2>1, OfSeq
      <3> QED
        BY <1>5, <3>1
    <2> QED
      BY <1>5, <1>6, <2>1
  <1>8. /\ Weight(e.trades, MadeBy(i)) \in Nat /\ Weight(e.trades, MadeFor(i)) \in Nat
        /\ Weight(Reported(e), MadeBy(i)) \in Nat /\ Weight(Reported(e), MadeFor(i)) \in Nat
    BY <1>2, <1>5, <1>6, WeightType
  <1>9. Volume(e.trades, i) \in Nat /\ Weight(e.trades, MadeBy(i)) <= Volume(e.trades, i)
    BY <1>2, VolumeIs
  <1>10. Made(i)' \in Nat /\ Made(i)' <= Volume(e.trades, i)
    BY ONLY <1>4, <1>7, <1>8, <1>9
  <1>11. ASSUME owner[i] # NoUser
         PROVE  Shrinks(i)
    <2>1. \A y \in ToSet(stops) : y.id # i
      BY <1>1, <1>11 DEF StopsUnowned
    <2>2. /\ Open(i)' + Weight(e.trades, MadeBy(i)) = Open(i)
          /\ Worth(i)' + Weight(e.trades, MadeFor(i)) = Worth(i)
      BY <1>1, <1>2, <2>1
    <2>3. Open(i)' \in Nat /\ Worth(i)' \in Nat
      <3>1. OpenOf(i) \in [Resting -> Nat] /\ WorthOf(i) \in [Resting -> Nat]
        BY WeightsAre
      <3>2. InBooks(book', OpenOf(i)) \in Nat /\ InBooks(book', WorthOf(i)) \in Nat
        BY ONLY <1>2, <3>1, BookWeighs
      <3> QED
        BY <3>2 DEF Open, Worth
    <2>4. Open(i) \in Nat /\ Worth(i) \in Nat
      BY <1>1, NumbersAreNat
    <2>5. Open(i)' + Made(i)' <= Open(i) + Made(i) /\ Worth(i)' + Revenue(i)' <= Worth(i) + Revenue(i)
      BY ONLY <1>3, <1>4, <1>7, <1>8, <2>2, <2>3, <2>4
    <2>6. \A o \in Held(book') : o.id = i => \E y \in Held(book) : y.id = i /\ y.side = o.side
      BY <1>1, <1>2, <2>1
    <2> QED
      BY <2>5, <2>6 DEF Shrinks
  <1> QED
    BY <1>3, <1>9, <1>10, <1>11

LEMMA QuoteKeepsBase ==
  ASSUME BaseInv, NEW e, NEW s, NEW p, NEW q, Quotes1(e, s, p, q)
  PROVE  BaseInv' /\ Grows
  <1>1. /\ TypeOK /\ RequestsOK /\ TickOK /\ CallsOK /\ Counted /\ ClaimsTraded /\ Unused /\ StopsUnowned
        /\ OwnersKnown /\ OnePlace
        /\ nextId \in Nat /\ Ids \subseteq Nat /\ Quotes \subseteq Nat /\ MaxRequests \in Nat
    BY IdsAreNat DEF BaseInv
  <1>2. /\ nextQuote \in Quotes /\ nextQuote' = nextQuote + 1 /\ gen.trades = <<>> /\ todo[Generator] = <<>>
        /\ Submitted(e, nextQuote, s, p, q)
        /\ gen' \in Tick /\ gen'.trades = Reported(e)
        /\ gen'.stage = IF Reported(e) = <<>> THEN "quote" ELSE "reconcile"
        /\ UNCHANGED <<nextId, tracked, cash, shares, loaded, req, todo, requests, credited, missed, settled, owner, odd, restarts, before>>
    BY DEF Quotes1
  <1>3. /\ book' \in [Side -> Seq(Resting)] /\ stops' \in Seq(Waiting) /\ traded' \in [Ids \cup Quotes -> Nat]
        /\ e.trades \in Seq(Fill)
        /\ \A i \in Ids \cup Quotes : traded'[i] = traded[i] + Volume(e.trades, i) /\ Volume(e.trades, i) \in Nat
        /\ \A i : Here(i)' \in Nat /\ Here(i)' <= Here(i) + (IF i = nextQuote THEN 1 ELSE 0)
        /\ \A y \in ToSet(stops') : y \in ToSet(stops)
    BY <1>2 DEF Submitted
  <1>4. nextQuote \in Nat /\ (\A i \in Ids : i # nextQuote) /\ Here(nextQuote) = 0
    <2>1. \A i \in Ids : i # nextQuote
      BY <1>2, OrderFlowConstants DEF Ids, Quotes
    <2> QED
      BY <1>1, <1>2, <2>1 DEF Unused
  <1>5. TypeOK'
    <2>1. nextQuote' \in Quotes \cup {MaxRequests + MaxQuotes + 1}
      BY <1>2, OrderFlowConstants DEF Quotes
    <2> QED
      BY <1>1, <1>2, <1>3, <2>1 DEF TypeOK
  <1>6. \A i : Here(i) \in Nat
    BY <1>1, NumbersAreNat
  <1>7. \A i : i # nextQuote => Here(i)' <= Here(i) /\ (Here(i) = 0 => Here(i)' = 0)
    <2> SUFFICES ASSUME NEW i, i # nextQuote
                 PROVE  Here(i)' <= Here(i) /\ (Here(i) = 0 => Here(i)' = 0)
      OBVIOUS
    <2>1. Here(i)' \in Nat /\ Here(i)' <= Here(i) + 0 /\ Here(i) \in Nat
      BY <1>3, <1>6
    <2> QED
      BY ONLY <2>1
  <1>8. Grows
    BY <1>1, <1>2, <1>4, <1>7 DEF Grows
  <1>9. RequestsOK'
    BY <1>1, <1>2, <1>8, RequestsStay
  <1>10. CallsOK'
    BY <1>1, <1>2, <1>8, CallsStay
  <1>11. TickOK'
    BY <1>2 DEF TickOK
  <1>12. Counted'
    BY <1>1, <1>2 DEF Counted
  <1>13. Unused'
    <2>1. \A i \in Ids : i >= nextId => UnusedId(i)'
      BY <1>1, <1>2, <1>4, <1>7 DEF Unused, UnusedId
    <2>2. ASSUME NEW i, i \in Quotes, i >= nextQuote + 1
          PROVE  Here(i)' = 0
      <3>1. i >= nextQuote /\ i # nextQuote
        BY <1>1, <1>4, <2>2
      <3> QED
        BY <1>1, <1>7, <2>2, <3>1 DEF Unused
    <2> QED
      BY <1>2, <2>1, <2>2 DEF Unused
  <1>14. StopsUnowned' /\ OwnersKnown'
    BY <1>1, <1>2, <1>3 DEF StopsUnowned, OwnersKnown
  <1>15. OnePlace'
    <2> SUFFICES ASSUME NEW i \in Ids \cup Quotes
                 PROVE  Here(i)' <= 1
      BY DEF OnePlace
    <2>1. CASE i = nextQuote
      <3>1. Here(i)' <= Here(i) + 1 /\ Here(i) = 0
        BY <1>3, <1>4, <2>1
      <3> QED
        BY <3>1
    <2>2. CASE i # nextQuote
      <3>1. Here(i)' <= Here(i) /\ Here(i) <= 1 /\ Here(i)' \in Nat /\ Here(i) \in Nat
        BY <1>1, <1>3, <1>6, <1>7, <2>2 DEF OnePlace
      <3> QED
        BY ONLY <3>1
    <2> QED
      BY <2>1, <2>2
  <1>16. ClaimsTraded'
    <2> SUFFICES ASSUME NEW i, i \in Ids, "fired" \notin odd'[i]
                 PROVE  Accounted(i)' <= traded'[i]
      BY DEF ClaimsTraded
    <2>1. Made(i) = 0 /\ Made(i)' \in Nat /\ Made(i)' <= Volume(e.trades, i) /\ Volume(e.trades, i) \in Nat
      BY QuoteShrinks
    <2>2. /\ Accounted(i) = settled[i] + Claims(i) + Weight(req, NewShares(i)) + Made(i)
          /\ settled[i] \in Nat /\ Claims(i) \in Nat /\ Weight(req, NewShares(i)) \in Nat
          /\ traded[i] \in Nat /\ Accounted(i) \in Nat
      BY <1>1, AccountedIsNat
    <2>3. Accounted(i)' = settled[i] + Claims(i) + Weight(req, NewShares(i)) + Made(i)'
      BY <1>2 DEF Accounted, Claims
    <2>4. Accounted(i) <= traded[i] /\ traded'[i] = traded[i] + Volume(e.trades, i)
      BY <1>1, <1>2, <1>3 DEF ClaimsTraded
    <2> QED
      BY ONLY <2>1, <2>2, <2>3, <2>4
  <1> QED
    BY <1>5, <1>8, <1>9, <1>10, <1>11, <1>12, <1>13, <1>14, <1>15, <1>16 DEF BaseInv

(* The server has just been started. *)
Fresh ==
  /\ book = [s \in Side |-> <<>>] /\ stops = <<>> /\ nextId = 1 /\ nextQuote = MaxRequests + 1
  /\ tracked = [id \in Ids |-> NoOrder] /\ req = [r \in Threads |-> NoRequest] /\ gen = NoTick
  /\ todo = [a \in Actors |-> <<>>] /\ traded = [id \in Ids \cup Quotes |-> 0]
  /\ credited = [id \in Ids |-> 0] /\ missed = [id \in Ids |-> 0] /\ settled = [id \in Ids |-> 0]
  /\ owner = [id \in Ids |-> NoUser] /\ loaded = {}
  /\ odd = [id \in Ids \cup Quotes |-> {}]
  /\ cash \in [Users -> Cash] /\ shares \in [Users -> Int] /\ before = cash
  /\ requests \in 0..MaxRequests /\ restarts \in 0..MaxRestarts

LEMMA FreshSums ==
  ASSUME Fresh
  PROVE  /\ TypeOK
         /\ \A i : Here(i) = 0 /\ Made(i) = 0 /\ Revenue(i) = 0 /\ Claims(i) = 0
         /\ \A i : Weight(todo, Each(Owed(i))) = 0 /\ Weight(tracked, Reserved(i)) = 0
         /\ \A r \in Threads : req[r] = NoRequest
         /\ \A i : /\ Weight(req, Coming) = 0 /\ Weight(req, NewShares(i)) = 0
                   /\ Weight(req, Asked(i)) = 0 /\ Weight(req, Spent(i)) = 0
  <1>1. TypeOK
    <2>1. <<>> \in Seq(Resting) /\ <<>> \in Seq(Waiting) /\ <<>> \in Seq(Call)
      OBVIOUS
    <2>2. NoRequest \in Request
      BY NoRequestIs
    <2>3. NoTick \in Tick
      BY DEF NoTick, Tick, Side
    <2>4. 1 \in 1..(MaxRequests + 1) /\ MaxRequests + 1 \in Quotes \cup {MaxRequests + MaxQuotes + 1}
      BY OrderFlowConstants DEF Quotes
    <2> QED
      BY <2>1, <2>2, <2>3, <2>4 DEF Fresh, TypeOK
  <1>2. ASSUME NEW i
        PROVE  Here(i) = 0 /\ Made(i) = 0 /\ Revenue(i) = 0
    <2>1. book["buy"] = <<>> /\ book["sell"] = <<>> /\ stops = <<>> /\ gen.trades = <<>>
      BY DEF Fresh, Side, NoTick
    <2> QED
      BY <2>1, WeightOfEmpty DEF Here, InBooks, Made, Revenue
  <1>3. ASSUME NEW w, w \in [Call -> Nat]
        PROVE  Weight(todo, Each(w)) = 0
    <2> DEFINE C == Seq(Call)
    <2>1. /\ Each(w) \in [C -> Nat] /\ todo \in [Actors -> C]
          /\ \A a \in Actors : Each(w)[todo[a]] = 0
      <3>1. \A a \in Actors : todo[a] = <<>>
        BY DEF Fresh
      <3>2. Each(w)[<<>>] = Weight(<<>>, w) /\ Weight(<<>>, w) = 0
        BY <1>3, EachType, NoCalls
      <3> QED
        BY <1>1, <1>3, <3>1, <3>2, EachType DEF TypeOK
    <2> HIDE DEF C
    <2> QED
      BY ONLY <2>1, NothingWeighs
  <1>4. ASSUME NEW i
        PROVE  Claims(i) = 0 /\ Weight(todo, Each(Owed(i))) = 0
    BY <1>3, CallWeights DEF Claims
  <1>5. \A r \in Threads : req[r] = NoRequest
    BY DEF Fresh
  <1>6. ASSUME NEW w, w \in [Request -> Nat], w[NoRequest] = 0
        PROVE  Weight(req, w) = 0
    <2>1. req \in [Threads -> Request] /\ \A r \in Threads : w[req[r]] = 0
      BY <1>1, <1>5, <1>6 DEF TypeOK
    <2> QED
      BY ONLY <1>6, <2>1, NothingWeighs
  <1>7. ASSUME NEW i
        PROVE  /\ Weight(req, Coming) = 0 /\ Weight(req, NewShares(i)) = 0
               /\ Weight(req, Asked(i)) = 0 /\ Weight(req, Spent(i)) = 0
    <2>1. /\ Coming[NoRequest] = 0 /\ NewShares(i)[NoRequest] = 0 /\ Asked(i)[NoRequest] = 0
          /\ Spent(i)[NoRequest] = 0
      BY NoRequestIs, IdleWeighs
    <2> QED
      BY <1>6, <2>1, RequestWeights
  <1>8. ASSUME NEW i
        PROVE  Weight(tracked, Reserved(i)) = 0
    <2>1. /\ tracked \in [Ids -> Tracked \cup {NoOrder}] /\ Reserved(i) \in [Tracked \cup {NoOrder} -> Nat]
          /\ \A j \in Ids : Reserved(i)[tracked[j]] = 0
      <3>1. \A j \in Ids : tracked[j] = NoOrder
        BY DEF Fresh
      <3>2. Reserved(i)[NoOrder] = 0
        BY DEF Reserved
      <3> QED
        BY <1>1, <3>1, <3>2, RequestWeights DEF TypeOK
    <2> QED
      BY ONLY <2>1, NothingWeighs
  <1> QED
    BY <1>1, <1>2, <1>4, <1>5, <1>7, <1>8

LEMMA FreshBase == Fresh => BaseInv
  <1> SUFFICES ASSUME Fresh
               PROVE  BaseInv
    OBVIOUS
  <1>1. /\ TypeOK
        /\ \A i : Here(i) = 0 /\ Made(i) = 0 /\ Claims(i) = 0
        /\ \A r \in Threads : req[r] = NoRequest
        /\ Weight(req, Coming) = 0
        /\ \A i : Weight(req, NewShares(i)) = 0
    BY FreshSums
  <1>2. RequestsOK
    BY <1>1, NoRequestIs DEF RequestsOK, RequestOK, Placed, Recorder
  <1>3. TickOK
    BY DEF Fresh, TickOK, NoTick, Actors
  <1>4. Counted
    BY <1>1 DEF Counted, Fresh
  <1>5. Unused
    BY <1>1 DEF Unused, UnusedId, Fresh
  <1>6. StopsUnowned /\ CallsOK
    BY NoCalls DEF StopsUnowned, CallsOK, Fresh
  <1>7. OwnersKnown
    BY DEF OwnersKnown, Fresh
  <1>8. OnePlace
    BY <1>1 DEF OnePlace
  <1>9. ClaimsTraded
    BY <1>1 DEF ClaimsTraded, Accounted, Fresh
  <1> QED
    BY <1>1, <1>2, <1>3, <1>4, <1>5, <1>6, <1>7, <1>8, <1>9 DEF BaseInv

LEMMA InitIsFresh == Init => Fresh
  <1>1. Deposit \in Nat /\ MaxRequests \in Nat /\ MaxRestarts \in Nat
    BY OrderFlowConstants
  <1>2. Init => cash \in [Users -> Cash] /\ shares \in [Users -> Int]
    BY <1>1 DEF Init, Cash, settled
  <1> QED
    BY <1>1, <1>2 DEF Init, Fresh, settled

LEMMA RestartIsFresh == TypeOK /\ Restart => Fresh'
  <1> SUFFICES ASSUME TypeOK, Restart
               PROVE  Fresh'
    OBVIOUS
  <1>1. restarts' \in 0..MaxRestarts
    BY OrderFlowConstants DEF Restart, TypeOK, settled
  <1> QED
    BY <1>1 DEF Restart, Fresh, TypeOK, settled

(* Every step keeps the invariant. *)
LEMMA NewRequestKeepsBase ==
  ASSUME BaseInv, NEW r, r \in Threads, NewRequest(r), UNCHANGED run
  PROVE  BaseInv'
  <1>1. Idle(r) /\ requests < MaxRequests
    BY DEF NewRequest
  <1>2. ASSUME NEW u, u \in Users, NEW s, s \in Side, NEW q, q \in Quantities, NEW p, p \in Prices,
               PlaceLimitOrder(r, u, s, q, p)
        PROVE  BaseInv'
    <2>1. PICK x \in Request : /\ Passes(r, x) /\ RequestOK(x)' /\ x.stage = "limit"
                               /\ Coming[x] + requests <= Coming[req[r]] + requests'
      BY ONLY BaseInv, r \in Threads, <1>1, <1>2, UNCHANGED run, PlaceLimitOrderPasses
    <2>2. x.stage # "track"
      BY <2>1
    <2> QED
      BY ONLY BaseInv, r \in Threads, <2>1, <2>2, PassesKeepsBase
  <1>3. ASSUME NEW u, u \in Users, NEW s, s \in Side, NEW q, q \in Quantities,
               PlaceMarketOrder(r, u, s, q) \/ PlaceInternalMarketOrder(r, u, s, q)
        PROVE  BaseInv'
    <2>1. PICK x \in Request : /\ Passes(r, x) /\ RequestOK(x)' /\ x.stage \in {"check", "market"}
                               /\ Coming[x] + requests <= Coming[req[r]] + requests' /\ cash' = cash
      BY ONLY BaseInv, r \in Threads, <1>1, <1>3, UNCHANGED run, MarketOrderPasses
    <2>2. x.stage # "track"
      BY <2>1
    <2> QED
      BY ONLY BaseInv, r \in Threads, <2>1, <2>2, PassesKeepsBase
  <1>10. ASSUME NEW u, u \in Users, GetPortfolio(r, u)
         PROVE  BaseInv'
    <2>1. PICK x \in Request : /\ Passes(r, x) /\ RequestOK(x)' /\ x.stage = "idle"
                               /\ Coming[x] + requests <= Coming[req[r]] + requests'
      BY ONLY BaseInv, r \in Threads, <1>1, <1>10, UNCHANGED run, GetPortfolioPasses
    <2>2. x.stage # "track"
      BY <2>1
    <2> QED
      BY ONLY BaseInv, r \in Threads, <2>1, <2>2, PassesKeepsBase
  <1>4. PICK x : x = NoRequest
    OBVIOUS
  <1>5. ASSUME NEW s, s \in Side, NEW q, q \in Quantities, NEW limit, limit \in Prices \cup {0},
               NEW stop, stop \in Prices, AddStop(r, s, q, limit, stop)
        PROVE  BaseInv'
    <2>1. StopRequest(r, x)
      BY ONLY BaseInv, r \in Threads, <1>1, <1>4, <1>5, UNCHANGED run, AddStopIs
    <2> QED
      BY ONLY BaseInv, r \in Threads, <2>1, StopRequestKeepsBase
  <1>6. ASSUME NEW k, k \in DOMAIN stops, NEW q, q \in Quantities, NEW limit, limit \in Prices \cup {0},
               NEW stop, stop \in Prices, ModifyStop(r, k, q, limit, stop)
        PROVE  BaseInv'
    <2>1. StopRequest(r, x)
      BY ONLY BaseInv, r \in Threads, <1>1, <1>4, <1>6, UNCHANGED run, ModifyStopIs
    <2> QED
      BY ONLY BaseInv, r \in Threads, <2>1, StopRequestKeepsBase
  <1>7. ASSUME NEW k, k \in DOMAIN stops, CancelStop(r, k)
        PROVE  BaseInv'
    <2>1. StopRequest(r, x)
      BY ONLY BaseInv, r \in Threads, <1>1, <1>4, <1>7, UNCHANGED run, CancelStopIs
    <2> QED
      BY ONLY BaseInv, r \in Threads, <2>1, StopRequestKeepsBase
  <1>8. ASSUME NEW id, id \in Ids \cup Quotes, CancelLimit(r, id)
        PROVE  BaseInv'
    <2>1. PICK y : Cancels(r, id, y)
      BY ONLY BaseInv, r \in Threads, <1>1, <1>8, UNCHANGED run, CancelsIs
    <2> QED
      BY ONLY BaseInv, r \in Threads, <2>1, CancelsKeepsBase
  <1>9. ASSUME NEW id, id \in Ids \cup Quotes, NEW q, q \in Quantities, NEW p, p \in Prices,
               ModifyLimit(r, id, q, p)
        PROVE  BaseInv'
    <2>1. PICK y : Modifies(r, id, y, q, p)
      BY ONLY BaseInv, r \in Threads, <1>1, <1>9, UNCHANGED run, ModifiesIs
    <2> QED
      BY ONLY BaseInv, r \in Threads, <2>1, ModifiesKeepsBase
  <1> QED
    BY <1>2, <1>3, <1>5, <1>6, <1>7, <1>8, <1>9, <1>10 DEF NewRequest

LEMMA WaitsKeepsBase ==
  ASSUME BaseInv, NEW r, r \in Threads, Waits(r), UNCHANGED run
  PROVE  BaseInv'
  BY LimitEntersKeepsBase, EngineRefusesKeepsBase, MarketEntersKeepsBase DEF Waits

LEMMA HandlesKeepsBase ==
  ASSUME BaseInv, NEW r, r \in Threads, Handles(r), UNCHANGED run
  PROVE  BaseInv'
  <1>1. CASE CheckPasses(r) \/ CheckFails(r)
    <2>1. PICK x \in Request : /\ Passes(r, x) /\ RequestOK(x)' /\ x.stage \in {"idle", "market"}
                               /\ Coming[x] + requests <= Coming[req[r]] + requests'
      BY ONLY BaseInv, r \in Threads, <1>1, UNCHANGED run, CheckPassesOn
    <2>2. x.stage # "track"
      BY <2>1
    <2> QED
      BY ONLY BaseInv, r \in Threads, <2>1, <2>2, PassesKeepsBase
  <1>2. CASE CallPortfolio(r)
    <2>1. r \in Actors
      BY DEF Actors
    <2> QED
      BY ONLY BaseInv, <2>1, <1>2, UNCHANGED run, CallKeepsBase
  <1> QED
    BY <1>1, <1>2, TrackKeepsBase, RecordKeepsBase, RemovesKeepsBase, UpdatesKeepsBase DEF Handles

LEMMA GeneratesKeepsBase ==
  ASSUME BaseInv, Generates, UNCHANGED run
  PROVE  BaseInv'
  <1>1. ASSUME NEW s, s \in Side, NEW p, p \in Prices, NEW q, q \in QuoteSizes, Quote(s, p, q)
        PROVE  BaseInv'
    <2>1. PICK e : Quotes1(e, s, p, q)
      BY ONLY BaseInv, <1>1, UNCHANGED run, QuoteIs
    <2> QED
      BY ONLY BaseInv, <2>1, QuoteKeepsBase
  <1>2. CASE CallPortfolio(Generator)
    <2>1. Generator \in Actors
      BY DEF Actors
    <2> QED
      BY ONLY BaseInv, <2>1, <1>2, UNCHANGED run, CallKeepsBase
  <1>3. CASE EndTick
    BY ONLY BaseInv, <1>3, UNCHANGED run, TicksKeepBase
  <1> QED
    BY <1>1, <1>2, <1>3, ReconcileKeepsBase DEF Generates

LEMMA ServesKeepsBase ==
  ASSUME BaseInv, Serves, UNCHANGED run
  PROVE  BaseInv'
  <1>1. CASE NewTick
    BY ONLY BaseInv, <1>1, UNCHANGED run, TicksKeepBase
  <1> QED
    BY <1>1, NewRequestKeepsBase, WaitsKeepsBase, HandlesKeepsBase, GeneratesKeepsBase DEF Serves

LEMMA StutterKeepsBase ==
  ASSUME BaseInv, UNCHANGED vars
  PROVE  BaseInv'
  <1>1. TypeOK /\ RequestsOK /\ TickOK /\ Counted /\ CallsOK /\ OwnersKnown /\ ClaimsTraded
        /\ Unused /\ StopsUnowned /\ OnePlace
    BY DEF BaseInv
  <1>2. Still /\ UNCHANGED <<tracked, cash, shares, loaded, req, gen, todo, requests, credited, missed, settled>>
    BY DEF vars, engine, run, Still, settled
  <1>3. TypeOK'
    BY <1>1, <1>2 DEF TypeOK, Still
  <1>4. Grows /\ \A i : Here(i)' = Here(i)
    BY <1>1, <1>2, StillIs
  <1>5. RequestsOK'
    BY <1>1, <1>2, <1>4, RequestsStay
  <1>6. TickOK'
    BY <1>1, <1>2 DEF TickOK
  <1>7. CallsOK'
    BY <1>1, <1>2, <1>4, CallsStay
  <1>8. OwnersKnown'
    BY <1>1, <1>2 DEF OwnersKnown, Still
  <1>9. TracksKeeps
    <2>1. \A i \in Ids : Accounted(i)' = Accounted(i) /\ Accounted(i) \in Nat
      BY <1>1, <1>2, AccountedIsNat DEF Accounted, Claims, Made
    <2> QED
      BY <1>2, <2>1 DEF TracksKeeps
  <1> QED
    BY <1>3, <1>5, <1>6, <1>7, <1>8, <1>9, TracksKeepBase

LEMMA InitBase == Init => BaseInv
  BY InitIsFresh, FreshBase

LEMMA BaseNext == BaseInv /\ [Next]_vars => BaseInv'
  <1>1. ASSUME BaseInv, Restart
        PROVE  BaseInv'
    <2>1. TypeOK
      BY <1>1 DEF BaseInv
    <2>2. Fresh'
      BY <1>1, <2>1, RestartIsFresh
    <2> QED
      BY <2>2, FreshBase, PTL
  <1>2. ASSUME BaseInv, Serves, UNCHANGED run
        PROVE  BaseInv'
    BY <1>2, ServesKeepsBase
  <1>3. ASSUME BaseInv, UNCHANGED vars
        PROVE  BaseInv'
    BY <1>3, StutterKeepsBase
  <1> QED
    BY <1>1, <1>2, <1>3 DEF Next

(* The inductive invariant holds of every state that is reached. *)
LEMMA BaseHolds == Spec => []BaseInv
  BY InitBase, BaseNext, PTL DEF Spec

(* Every variable keeps the shape the code gives it; escrow and reserves are *)
(* never negative.                                                           *)
THEOREM FlowTypeOK == Spec => []TypeOK
  <1>1. BaseInv => TypeOK
    BY DEF BaseInv
  <1> QED
    BY <1>1, BaseHolds, PTL

(* No order is credited more shares than the engine has traded of it,        *)
(* whatever placements, reconciliations, cancels and modifications run in    *)
(* between (unless its placement triggered stop orders).                     *)
THEOREM CreditedOnce == Spec => []NeverCreditedTwice
  <1>1. ASSUME BaseInv, NEW i, i \in Ids, "fired" \notin odd[i]
        PROVE  credited[i] + missed[i] <= traded[i]
    <2>1. TypeOK /\ ClaimsTraded
      BY <1>1 DEF BaseInv
    <2>2. Accounted(i) <= traded[i]
      BY <1>1, <2>1 DEF ClaimsTraded
    <2>3. /\ settled[i] \in Nat /\ traded[i] \in Nat /\ Claims(i) \in Nat
          /\ Weight(req, NewShares(i)) \in Nat /\ Made(i) \in Nat
      BY <1>1, <2>1, NumbersNow, NumbersAreNat, SettledIs DEF TypeOK
    <2>4. Accounted(i) = settled[i] + Claims(i) + Weight(req, NewShares(i)) + Made(i)
      BY DEF Accounted
    <2>5. settled[i] = credited[i] + missed[i]
      BY <1>1, <2>1, SettledIs
    <2> QED
      BY ONLY <2>2, <2>3, <2>4, <2>5
  <1>2. BaseInv => NeverCreditedTwice
    BY <1>1 DEF NeverCreditedTwice
  <1> QED
    BY <1>2, BaseHolds, PTL
=============================================================================
