----------------------------- MODULE MCCommandFlow -----------------------------
(* CommandFlow for TLC: assignments of merge strategies to a few clients.   *)
EXTENDS CommandFlow, TLC

CONSTANTS c1, c2, c3

AllCommutative == [c \in Client |-> "COMMUTATIVE"]
StrictFirst == [c \in Client |-> IF c = c1 THEN "STRICT" ELSE "COMMUTATIVE"]
Mixed == (c1 :> "STRICT") @@ (c2 :> "COMMUTATIVE") @@ (c3 :> "AGGREGATE_HANDLES")
===============================================================================
