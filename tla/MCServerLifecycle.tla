--------------------------- MODULE MCServerLifecycle ---------------------------
(* ServerLifecycle for TLC: three processes of one component.               *)
EXTENDS ServerLifecycle

CONSTANTS p1, p2, p3

\* Every deployment on TCP, and on a Unix socket one process after the other
\* with CreateServer.
Sound ==
  [transport : {"tcp"}, runServer : BOOLEAN, overlap : BOOLEAN]
    \cup {[transport |-> "uds", runServer |-> FALSE, overlap |-> FALSE]}

RunServerOnSocket == {[transport |-> "uds", runServer |-> TRUE, overlap |-> FALSE]}
===============================================================================
