---------------------------- MODULE MCMatchingBook ---------------------------
(* MatchingBook up to its mirror image: exchanging the sides and reversing  *)
(* the prices maps behaviours to behaviours, so the first order may be      *)
(* taken to be a sell.  What every call asks for comes first, for speed.    *)
EXTENDS MatchingBook

MCNext == \/ calls = 0 /\ SubmitOn({"sell"})
          \/ /\ calls \in 1..(MaxCalls - 1) /\ call.stage = "idle"
             /\ SubmitOn(Side) \/ Cancel \/ Modify
          \/ EngineStep

MCSpec == Init /\ [][MCNext]_vars /\ WF_vars(EngineStep)
=============================================================================
