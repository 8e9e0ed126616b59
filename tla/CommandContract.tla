--------------------------- MODULE CommandContract ---------------------------
(***************************************************************************)
(* What a command handler promises for the command it is asked to process, *)
(* with nothing said about how it rebuilds state, which struct carries its *)
(* input and its output, or when it counts sequence numbers:               *)
(*                                                                         *)
(*  - an accepted command adds a batch of events to those the handler has  *)
(*    produced for this aggregate, and the reply carries exactly the       *)
(*    produced events, numbered from the length of the aggregate's history;*)
(*  - a refused or failed command produces no event;                       *)
(*  - a rejection notification adds a batch of compensation events, or     *)
(*    none; the reply carries the produced events, delegates to the        *)
(*    framework, or is one of the rejection handler's own making.          *)
(***************************************************************************)
EXTENDS EventBooks

CONSTANTS
  Histories,  \* the event histories an aggregate may have
  Batches,    \* the batches of events one command may produce
  Codes       \* status codes of a failed call

VARIABLES
  history,    \* events of the aggregate, as the framework stored them
  produced,   \* events produced for the current request
  reply       \* the last reply

contractVars == <<history, produced, reply>>

NoReply == [kind |-> "none"]
EventsReply(pages) == [kind |-> "events", pages |-> pages]
ErrorReply(code) == [kind |-> "error", code |-> code]
DelegateReply == [kind |-> "delegate"]
OwnReply == [kind |-> "own"]

IsReply(r) ==
  \/ r \in {NoReply, DelegateReply, OwnReply} \cup {ErrorReply(c) : c \in Codes}
  \/ "pages" \in DOMAIN r /\ r = EventsReply(r.pages) /\ r.pages \in Seq(Page)

Init ==
  /\ history \in Histories
  /\ produced = << >>
  /\ reply = NoReply

Begin ==
  /\ history' \in Histories
  /\ produced' = << >>
  /\ reply' = NoReply

Accept == \E batch \in Batches :
  /\ produced' = produced \o batch
  /\ reply' = EventsReply(Numbered(Len(history), produced'))
  /\ UNCHANGED history

Refuse == \E code \in Codes :
  /\ reply' = ErrorReply(code)
  /\ UNCHANGED <<history, produced>>

Compensate == \E batch \in Batches :
  /\ produced' = produced \o batch
  /\ reply' \in {EventsReply(Numbered(Len(history), produced')),
                 DelegateReply, OwnReply}
  /\ UNCHANGED history

Next == Begin \/ Accept \/ Refuse \/ Compensate

Spec == Init /\ [][Next]_contractVars
===============================================================================
