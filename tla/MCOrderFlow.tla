------------------------------ MODULE MCOrderFlow ------------------------------
(* OrderFlow for TLC: users and goroutines are interchangeable. *)
EXTENDS OrderFlow, TLC
Symmetry == Permutations(Users) \cup Permutations(Threads)
MCSpec == Init /\ [][Next]_vars
================================================================================
