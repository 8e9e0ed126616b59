------------------------------ MODULE EventBooks ------------------------------
(***************************************************************************)
(* Event books as the command-handler side of the client sees them: pages  *)
(* numbered by the framework, a precomputed next sequence, and the rebuild *)
(* of an aggregate's state by applying pages in order.                     *)
(*                                                                         *)
(* The Go state S is whatever the registered appliers make of it.  It is   *)
(* represented here by the list of effects the pages had on it, in order:  *)
(* the payload when an applier ran, Ignored when none did.  Two lists that *)
(* differ only in Ignored entries stand for the same Go value; what the    *)
(* properties need is that order, omission and repetition can be seen.     *)
(***************************************************************************)
EXTENDS Naturals, Sequences, SequencesExt

CONSTANTS
  Event,    \* payloads that an event page can carry
  Applied,  \* the payloads some applier is registered for and decodes
  Ignored   \* the effect of any other payload on the state

ASSUME EventBooksAssumption == Applied \subseteq Event /\ Ignored \notin Event

Page == [seq : Nat, event : Event]

State == Seq(Applied \cup {Ignored})

\* What the state factory returns.
Fresh == << >>

\* Appliers are looked up by type name.  A payload of an unknown type, one
\* that does not decode, and a page that carries no event leave the state
\* alone without an error.
Effect(e) == IF e \in Applied THEN e ELSE Ignored

ApplyPages(st, pages) == st \o [i \in DOMAIN pages |-> Effect(pages[i].event)]

\* Pages for events, numbered consecutively from a start sequence.
Numbered(from, events) ==
  [i \in DOMAIN events |-> [seq |-> from + i - 1, event |-> events[i]]]

\* The framework fills in NextSequence; len(Pages) may be smaller, because a
\* snapshot replaces the oldest pages.
NextSequence(book) == book.next
===============================================================================
