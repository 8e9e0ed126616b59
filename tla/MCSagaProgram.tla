----------------------------- MODULE MCSagaProgram ----------------------------
(* SagaProgram for TLC: a type the saga handles and one it does not, two     *)
(* domains, a few registration calls.                                        *)
EXTENDS SagaProgram

CONSTANTS c1, c2, handled, other, simpleHandled, simpleOther, d1, d2

MCShortName == handled :> simpleHandled @@ other :> simpleOther
===============================================================================
