------------------------------- MODULE EventLog -------------------------------
(***************************************************************************)
(* What the event log of one aggregate root promises, whoever writes it:   *)
(* events come in batches, each batch was decided by a handler that had    *)
(* seen every event before it, the batch is appended whole, and the events *)
(* are numbered by their place in the log.                                 *)
(***************************************************************************)
EXTENDS Naturals, Sequences

CONSTANTS
  Client,    \* whose commands are processed
  MaxBatch   \* bound on the events of one command

VARIABLE log

\* n events by c, numbered from a sequence, decided on the first basis events.
Batch(c, n, from, basis) ==
  [i \in 1..n |-> [seq |-> from + i - 1, by |-> c, basis |-> basis]]

Init == log = << >>

Commit(c, n) == log' = log \o Batch(c, n, Len(log), Len(log))

Next == \E c \in Client, n \in 1..MaxBatch : Commit(c, n)

Spec == Init /\ [][Next]_log
===============================================================================
