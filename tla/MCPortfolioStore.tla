---------------------------- MODULE MCPortfolioStore ----------------------------
(* PortfolioStore up to the names of requests: they are numbers, and a new   *)
(* one takes the least that is free.                                         *)
EXTENDS PortfolioStore

LeastIdle == Min({t \in Requests : At(t, "idle")})

MCNext == \/ /\ \E t \in Requests : At(t, "idle")
             /\ \E u \in Users, call \in Calls : Begin(LeastIdle, u, call)
          \/ \E t \in Requests : Request(t)
          \/ Worker
          \/ Stop
          \/ Restart

MCSpec == Init /\ [][MCNext]_vars /\ Fairness

=============================================================================
