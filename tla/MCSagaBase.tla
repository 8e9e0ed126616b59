------------------------------ MODULE MCSagaBase ------------------------------
(* SagaBase for TLC: a few calls, a page with a handler and one without.     *)
EXTENDS SagaBase

CONSTANTS c1, c2, c3, handled, other
===============================================================================
