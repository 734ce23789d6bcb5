------------------------------ MODULE LevelTree ------------------------------
(***************************************************************************)
(* One price-level tree of the matching engine's Book: the AVL tree of     *)
(* Limit nodes (buyTree, sellTree, stopBuyTree or stopSellTree), the map   *)
(* from prices to levels beside it, and the edge pointer that matching     *)
(* reads instead of searching the tree (highestBuy, lowestSell,            *)
(* lowestStopBuy, highestStopSell).                                        *)
(*                                                                         *)
(* The code writes the tree operations twice, once for the limit trees and *)
(* once for the stop trees, and mirrors them by side; highIsBest says      *)
(* which mirror image a behaviour is about.  A node is <<price, left,      *)
(* right>>; its parent pointer is the last node but one on its Path.       *)
(***************************************************************************)
EXTENDS Integers, FiniteSets, SequencesExt

CONSTANTS Prices,   \* the prices at which levels may open
          NoLevel   \* the null edge pointer

ASSUME PricesArePositive == Prices \subseteq Nat \ {0} /\ NoLevel \notin Nat

VARIABLES
  highIsBest, \* TRUE for buyTree and stopSellTree, FALSE for sellTree and stopBuyTree
  tree,       \* the tree below the root pointer
  edge,       \* price of the level the edge pointer names, or NoLevel
  levels,     \* domain of limitBuyMap, limitSellMap or stopMap
  offEdge,    \* history: a level other than the edge has been removed
  crashed     \* the null edge pointer has been dereferenced

vars == <<highIsBest, tree, edge, levels, offEdge, crashed>>

-----------------------------------------------------------------------------
(* The tree *)

Null == <<>>
Node(p, l, r) == <<p, l, r>>
Price(t) == t[1]
Left(t)  == t[2]
Right(t) == t[3]

RECURSIVE LimitHeight(_)
LimitHeight(t) ==
  IF t = Null THEN 0
  ELSE LET l == LimitHeight(Left(t))  r == LimitHeight(Right(t))
       IN  1 + IF l > r THEN l ELSE r

HeightDifference(t) == LimitHeight(Left(t)) - LimitHeight(Right(t))

LLRotate(t) == LET n == Left(t)
               IN  Node(Price(n), Left(n), Node(Price(t), Right(n), Right(t)))
RRRotate(t) == LET n == Right(t)
               IN  Node(Price(n), Node(Price(t), Left(t), Left(n)), Right(n))
LRRotate(t) == LLRotate(Node(Price(t), RRRotate(Left(t)), Right(t)))
RLRotate(t) == RRRotate(Node(Price(t), Left(t), LLRotate(Right(t))))

(* One rotation at most, chosen by the heights as they are now. *)
Balance(t) ==
  CASE HeightDifference(t) > 1  -> IF HeightDifference(Left(t)) >= 0
                                   THEN LLRotate(t) ELSE LRRotate(t)
    [] HeightDifference(t) < -1 -> IF HeightDifference(Right(t)) > 0
                                   THEN RLRotate(t) ELSE RRRotate(t)
    [] OTHER -> t

RECURSIVE Insert(_, _)
Insert(t, p) ==
  IF t = Null THEN Node(p, Null, Null)
  ELSE IF p < Price(t)
       THEN Balance(Node(Price(t), Insert(Left(t), p), Right(t)))
       ELSE Balance(Node(Price(t), Left(t), Insert(Right(t), p)))

RECURSIVE LeftMost(_)
LeftMost(t) == IF Left(t) = Null THEN Price(t) ELSE LeftMost(Left(t))

RECURSIVE DropLeftMost(_)
DropLeftMost(t) == IF Left(t) = Null THEN Right(t)
                   ELSE Node(Price(t), DropLeftMost(Left(t)), Right(t))

\* Mutant of Splice: the successor is copied up but not unlinked from below.
SpliceKeepingSuccessor(t) ==
  IF Left(t) = Null THEN Right(t)
  ELSE IF Right(t) = Null THEN Left(t)
  ELSE Node(LeftMost(Right(t)), Left(t), Right(t))

(* What ~Limit leaves in the place of the node it deletes.  The in-order   *)
(* successor moves up; nothing below that place is rebalanced.             *)
Splice(t) ==
  IF Left(t) = Null THEN Right(t)
  ELSE IF Right(t) = Null THEN Left(t)
  ELSE Node(LeftMost(Right(t)), Left(t), DropLeftMost(Right(t)))

\* Mutant of RemoveNode: the ancestors are not balanced.
RECURSIVE RemoveNodeOnly(_, _)
RemoveNodeOnly(t, p) ==
  IF p = Price(t) THEN Splice(t)
  ELSE IF p < Price(t)
       THEN Node(Price(t), RemoveNodeOnly(Left(t), p), Right(t))
       ELSE Node(Price(t), Left(t), RemoveNodeOnly(Right(t), p))

(* deleteLimit: splice the node out, then balance its ancestors only. *)
RECURSIVE RemoveNode(_, _)
RemoveNode(t, p) ==
  IF p = Price(t) THEN Splice(t)
  ELSE IF p < Price(t)
       THEN Balance(Node(Price(t), RemoveNode(Left(t), p), Right(t)))
       ELSE Balance(Node(Price(t), Left(t), RemoveNode(Right(t), p)))

(* The nodes from the root down to price p. *)
RECURSIVE Path(_, _)
Path(t, p) ==
  IF p = Price(t) THEN <<t>>
  ELSE <<t>> \o Path(IF p < Price(t) THEN Left(t) ELSE Right(t), p)

RECURSIVE InOrder(_)
InOrder(t) == IF t = Null THEN <<>>
              ELSE InOrder(Left(t)) \o <<Price(t)>> \o InOrder(Right(t))

-----------------------------------------------------------------------------
(* The edge pointer *)

Better(p, q) == IF highIsBest THEN p > q ELSE p < q

\* Mutants of EdgeAfterRemoval: the pointer is left on the freed level; the
\* inward child is forgotten.
EdgeStays(p) == edge
EdgeTakesParent(p) ==
  LET path == Path(tree, p)
  IN  IF p # edge THEN edge
      ELSE IF Len(path) = 1 THEN NoLevel
      ELSE Price(path[Len(path) - 1])

(* The edge takes over the inward child of the emptied edge level, else its *)
(* parent; for an edge at the root with no such child it becomes null.      *)
EdgeAfterRemoval(p) ==
  LET path  == Path(tree, p)
      node  == Last(path)
      inner == IF highIsBest THEN Left(node) ELSE Right(node)
  IN  IF p # edge THEN edge
      ELSE IF inner # Null THEN Price(inner)
      ELSE IF Len(path) = 1 THEN NoLevel
      ELSE Price(path[Len(path) - 1])

-----------------------------------------------------------------------------
Init == /\ highIsBest \in BOOLEAN
        /\ tree = Null
        /\ edge = NoLevel
        /\ levels = {}
        /\ offEdge = FALSE
        /\ crashed = FALSE

(* The first order at a price opens its level. *)
AddLevel(p) ==
  /\ ~crashed
  /\ p \notin levels
  /\ levels' = levels \cup {p}
  /\ tree' = Insert(tree, p)
  /\ edge' = IF tree = Null \/ (edge # NoLevel /\ Better(p, edge)) THEN p ELSE edge
  /\ crashed' = (tree # Null /\ edge = NoLevel)
  /\ UNCHANGED <<highIsBest, offEdge>>

DeleteLevel(p) ==
  /\ ~crashed
  /\ p \in levels
  /\ edge' = EdgeAfterRemoval(p)
  /\ levels' = levels \ {p}
  /\ tree' = RemoveNode(tree, p)
  /\ UNCHANGED <<highIsBest, crashed>>

(* Matching, or a cancel at the best price, empties the edge level. *)
DeleteEdgeLevel == /\ edge # NoLevel
                   /\ DeleteLevel(edge)
                   /\ UNCHANGED offEdge

(* A cancel or a modify empties a level behind the edge. *)
DeleteInnerLevel(p) == /\ p # edge
                       /\ DeleteLevel(p)
                       /\ offEdge' = TRUE

Next == \/ \E p \in Prices : AddLevel(p)
        \/ DeleteEdgeLevel
        \/ \E p \in Prices : DeleteInnerLevel(p)

Spec == Init /\ [][Next]_vars

-----------------------------------------------------------------------------
(* Properties *)

(* Every variable has the type its declaration in Book.hpp gives it, and    *)
(* the edge never points at a level that has been freed.                    *)
TypeOK == /\ highIsBest \in BOOLEAN
          /\ levels \subseteq Prices
          /\ edge \in levels \cup {NoLevel}
          /\ offEdge \in BOOLEAN
          /\ crashed \in BOOLEAN

Best(S) == IF S = {} THEN NoLevel
           ELSE CHOOSE p \in S : \A q \in S \ {p} : Better(p, q)

RECURSIVE Balanced(_)
Balanced(t) == t # Null => /\ HeightDifference(t) \in -1..1
                           /\ Balanced(Left(t))
                           /\ Balanced(Right(t))

(* Whatever rotations, splices and successor moves have happened, an        *)
(* in-order walk of the tree (engine_get_depth) visits exactly the levels   *)
(* of the price map, once each, in price order.                             *)
DepthIsLevels == InOrder(tree) = SetToSortSeq(levels, <)

(* The edge pointer names the best of the levels: what readme-matching-     *)
(* engine.md says of highestBuy and lowestSell.                             *)
EdgeIsBest == edge = Best(levels)

(* As long as levels are only emptied at the edge, as matching does, the    *)
(* tree stays an AVL tree and the edge is the best level.                   *)
EdgeIsBestUntilInnerRemoval == ~offEdge => EdgeIsBest /\ Balanced(tree)

(* The O(1) edge updates rely on balance and on nothing else: no operation  *)
(* moves a right edge of a balanced tree to a wrong level, removals behind  *)
(* the edge included.                                                       *)
EdgeRightWhileBalanced ==
  [][Balanced(tree) /\ EdgeIsBest => EdgeIsBest']_vars
=============================================================================
