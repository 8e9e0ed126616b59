------------------------- MODULE MCProcessManagerBase -------------------------
(* ProcessManagerBase for TLC: two input triggers, and two output domains    *)
(* with a root each.                                                         *)
EXTENDS ProcessManagerBase, TLC

CONSTANTS t1, t2, r1, r2, d1, d2

OneRootEach == (r1 :> d1) @@ (r2 :> d2)
===============================================================================
