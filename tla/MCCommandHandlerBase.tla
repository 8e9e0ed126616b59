------------------------- MODULE MCCommandHandlerBase -------------------------
(* CommandHandlerBase for TLC: a payload with an applier, one without, and   *)
(* one that cannot be packed.                                                *)
EXTENDS CommandHandlerBase

CONSTANTS known, unknown, broken
===============================================================================
