------------------------------ MODULE MCReadSide ------------------------------
(* ReadSide for TLC: an old and a current version of one type, a type that   *)
(* is only published under its simple name, and pages without an event.      *)
EXTENDS ReadSide, TLC

CONSTANTS createdV1, created, shipped, Created, Shipped

SimpleNames == createdV1 :> Created @@ created :> Created @@ shipped :> Shipped
UpcastV1 == createdV1 :> created
===============================================================================
