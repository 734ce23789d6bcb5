------------------------------ MODULE OrderLedger ------------------------------
(***************************************************************************)
(* What an order book promises the owners of its orders, without prices,   *)
(* levels and sides: an order is open for some shares from its submission  *)
(* until they are traded or withdrawn, a trade takes the same number of    *)
(* shares off two different open orders, and an order that is closed stays *)
(* closed.                                                                 *)
(***************************************************************************)
EXTENDS Integers

CONSTANTS Ids, Quantities

VARIABLES submitted, \* ids that have been used
          open,      \* id -> shares that are still to be traded
          traded     \* id -> shares that have been, since it was last amended

vars == <<submitted, open, traded>>

Init == /\ submitted = {}
        /\ open = [id \in Ids |-> 0]
        /\ traded = [id \in Ids |-> 0]

Submit(id, q) == /\ id \notin submitted
                 /\ submitted' = submitted \cup {id}
                 /\ open' = [open EXCEPT ![id] = q]
                 /\ UNCHANGED traded

Trade(taker, maker, q) == /\ taker # maker
                          /\ q <= open[taker] /\ q <= open[maker]
                          /\ open' = [open EXCEPT ![taker] = @ - q, ![maker] = @ - q]
                          /\ traded' = [traded EXCEPT ![taker] = @ + q, ![maker] = @ + q]
                          /\ UNCHANGED submitted

Amend(id, q) == /\ open[id] > 0
                /\ open' = [open EXCEPT ![id] = q]
                /\ traded' = [traded EXCEPT ![id] = 0]
                /\ UNCHANGED submitted

Withdraw(id) == /\ open[id] > 0
                /\ open' = [open EXCEPT ![id] = 0]
                /\ UNCHANGED <<submitted, traded>>

Next == \E id \in Ids :
          \/ \E q \in Quantities : Submit(id, q) \/ Amend(id, q)
          \/ \E other \in Ids : \E q \in 1..open[id] : Trade(id, other, q)
          \/ Withdraw(id)

Spec == Init /\ [][Next]_vars
================================================================================
