------------------------------- MODULE SagaBase -------------------------------
(***************************************************************************)
(* One SagaBase instance (saga_oo.go) behind OOSagaHandler (handler.go).   *)
(* The gRPC server runs each call in a goroutine of its own; all of them   *)
(* share the one saga and with it the slice s.events, in which EmitFact    *)
(* accumulates the facts of "the" current call.                            *)
(*                                                                         *)
(* A Go slice is a header [array, len] into an array of the heap: append   *)
(* writes behind the last element when the array has room and copies to an *)
(* array of twice the size when it has none, so two headers can share an   *)
(* array.  append loads the header in one step and stores cell and header  *)
(* in another; other calls run in between.  (A load that tears the header  *)
(* of a racing store is left out.)                                         *)
(***************************************************************************)
EXTENDS Naturals, Sequences, SequencesExt

CONSTANTS
  Call,        \* calls of Handle
  Page,        \* kinds of event pages
  Handled,     \* those whose type some handler is registered for
  Serialised,  \* does the caller wait for one call before the next?
  MaxPages,    \* bound on the pages of a source book
  MaxFacts     \* bound on the facts one call emits

ASSUME SagaAssumption ==
  /\ Handled \subseteq Page
  /\ Serialised \in BOOLEAN
  /\ MaxPages \in Nat /\ MaxFacts \in Nat

VARIABLES
  heap,      \* the arrays allocated so far
  events,    \* s.events
  pc,        \* where each call is
  source,    \* its book's pages
  next,      \* the page it is at
  commands,  \* its commands so far
  loaded,    \* the header its append has loaded
  visited,   \* the pages its handlers were called for
  emitted,   \* the facts its handlers passed to EmitFact
  reply      \* its response

shared == <<heap, events>>
vars == <<heap, events, pc, source, next, commands, loaded, visited, emitted, reply>>

Fact == Call \X (1..MaxFacts)
Unset == << >>        \* an array cell behind every slice
Nil == [array |-> 0, len |-> 0]

Header == [array : 0..Len(heap), len : Nat]

\* What a reader of a slice sees.
Elements(h) == IF h.array = 0 THEN << >> ELSE SubSeq(heap[h.array], 1, h.len)

NoReply == [kind |-> "none"]
ErrorReply == [kind |-> "error"]
OkReply(cmds, facts) == [kind |-> "ok", commands |-> cmds, facts |-> facts]

Steps == {"new", "running", "handling", "appending", "done"}
Sources == BoundedSeq(Page, MaxPages)

TypeOK ==
  /\ \A i \in DOMAIN heap : \A j \in DOMAIN heap[i] : heap[i][j] \in Fact \cup {Unset}
  /\ events \in Header
  /\ pc \in [Call -> Steps]
  /\ source \in [Call -> Sources]
  /\ next \in [Call -> 1..MaxPages + 1]
  /\ loaded \in [Call -> Header]
  /\ \A c \in Call : commands[c] \in Seq(1..MaxPages) /\ visited[c] \in Seq(1..MaxPages)
  /\ \A c \in Call : emitted[c] \in BoundedSeq(Fact, MaxFacts)
  /\ \A c \in Call : reply[c] \in {NoReply, ErrorReply} \/ reply[c].facts \in Header

Init ==
  /\ heap = << >>
  /\ events = Nil
  /\ pc = [c \in Call |-> "new"]
  /\ source = [c \in Call |-> << >>]
  /\ next = [c \in Call |-> 1]
  /\ commands = [c \in Call |-> << >>]
  /\ loaded = [c \in Call |-> Nil]
  /\ visited = [c \in Call |-> << >>]
  /\ emitted = [c \in Call |-> << >>]
  /\ reply = [c \in Call |-> NoReply]

-------------------------------------------------------------------------------

Active == {c \in Call : pc[c] \notin {"new", "done"}}

\* Faulty variant of ClearEvents: s.events = s.events[:0] keeps the array.
TruncateEvents == events' = [events EXCEPT !.len = 0]

ClearEvents == events' = Nil

\* A nil source or one without pages is answered before anything is cleared.
HandleEmpty(c) ==
  /\ pc[c] = "new"
  /\ Serialised => Active = {}
  /\ pc' = [pc EXCEPT ![c] = "done"]
  /\ reply' = [reply EXCEPT ![c] = OkReply(<< >>, Nil)]
  /\ UNCHANGED <<shared, source, next, commands, loaded, visited, emitted>>

Handle(c) == \E pages \in Sources \ {<< >>} :
  /\ pc[c] = "new"
  /\ Serialised => Active = {}
  /\ pc' = [pc EXCEPT ![c] = "running"]
  /\ source' = [source EXCEPT ![c] = pages]
  /\ ClearEvents
  /\ UNCHANGED <<heap, next, commands, loaded, visited, emitted, reply>>

AtPage(c) == pc[c] = "running" /\ next[c] <= Len(source[c])

\* Faulty variant of SkipPage: the first page nobody handles ends the loop.
StopAtPage(c) ==
  /\ AtPage(c)
  /\ source[c][next[c]] \notin Handled
  /\ next' = [next EXCEPT ![c] = Len(source[c]) + 1]
  /\ UNCHANGED <<shared, pc, source, commands, loaded, visited, emitted, reply>>

\* A page without an event, or of a type without a handler (a Notification
\* is one), is skipped.
SkipPage(c) ==
  /\ AtPage(c)
  /\ source[c][next[c]] \notin Handled
  /\ next' = [next EXCEPT ![c] = @ + 1]
  /\ UNCHANGED <<shared, pc, source, commands, loaded, visited, emitted, reply>>

CallHandler(c) ==
  /\ AtPage(c)
  /\ source[c][next[c]] \in Handled
  /\ pc' = [pc EXCEPT ![c] = "handling"]
  /\ visited' = [visited EXCEPT ![c] = Append(@, next[c])]
  /\ UNCHANGED <<shared, source, next, commands, loaded, emitted, reply>>

\* The user's handler calls EmitFact: append loads s.events ...
EmitFact(c) ==
  /\ pc[c] = "handling"
  /\ Len(emitted[c]) < MaxFacts
  /\ pc' = [pc EXCEPT ![c] = "appending"]
  /\ loaded' = [loaded EXCEPT ![c] = events]
  /\ emitted' = [emitted EXCEPT ![c] = Append(@, <<c, Len(@) + 1>>)]
  /\ UNCHANGED <<shared, source, next, commands, visited, reply>>

\* ... and stores the new cell and the new header.
StoreFact(c) ==
  LET h == loaded[c]
      fact == Last(emitted[c])
      capacity == IF h.array = 0 THEN 0 ELSE Len(heap[h.array])
      grown == [i \in 1..(IF capacity = 0 THEN 1 ELSE 2 * capacity) |->
                  IF i <= h.len THEN heap[h.array][i]
                  ELSE IF i = h.len + 1 THEN fact ELSE Unset]
  IN  /\ pc[c] = "appending"
      /\ pc' = [pc EXCEPT ![c] = "handling"]
      /\ \/ /\ h.len < capacity
            /\ heap' = [heap EXCEPT ![h.array][h.len + 1] = fact]
            /\ events' = [h EXCEPT !.len = @ + 1]
         \/ /\ h.len = capacity
            /\ heap' = Append(heap, grown)
            /\ events' = [array |-> Len(heap) + 1, len |-> h.len + 1]
      /\ UNCHANGED <<source, next, commands, loaded, visited, emitted, reply>>

\* No command, one (Handles), or several (HandlesMulti) for this page.
HandlerReturns(c) == \E n \in 0..2 :
  /\ pc[c] = "handling"
  /\ pc' = [pc EXCEPT ![c] = "running"]
  /\ next' = [next EXCEPT ![c] = @ + 1]
  /\ commands' = [commands EXCEPT ![c] = @ \o [i \in 1..n |-> next[c]]]
  /\ UNCHANGED <<shared, source, loaded, visited, emitted, reply>>

\* An error (of the handler, or an event that does not unmarshal) ends the
\* call: the commands so far are dropped, the facts so far stay in s.events.
HandlerFails(c) ==
  /\ pc[c] = "handling"
  /\ pc' = [pc EXCEPT ![c] = "done"]
  /\ reply' = [reply EXCEPT ![c] = ErrorReply]
  /\ UNCHANGED <<shared, source, next, commands, loaded, visited, emitted>>

\* The response carries the header of s.events as it is now.
Return(c) ==
  /\ pc[c] = "running" /\ next[c] > Len(source[c])
  /\ pc' = [pc EXCEPT ![c] = "done"]
  /\ reply' = [reply EXCEPT ![c] = OkReply(commands[c], events)]
  /\ UNCHANGED <<shared, source, next, commands, loaded, visited, emitted>>

Next == \E c \in Call :
  \/ HandleEmpty(c) \/ Handle(c)
  \/ SkipPage(c) \/ CallHandler(c)
  \/ EmitFact(c) \/ StoreFact(c) \/ HandlerReturns(c) \/ HandlerFails(c)
  \/ Return(c)

Spec == Init /\ [][Next]_vars

-------------------------------------------------------------------------------
(* Properties *)

Succeeded(c) == reply[c].kind = "ok"

\* EmitFact: "The events will be included in the SagaHandlerResponse"
\* (saga_oo.go:247-248), those of this call and no others, in the order in
\* which they were emitted, and they stay there whatever later calls do.
ReplyCarriesOwnFacts == \A c \in Call :
  Succeeded(c) => Elements(reply[c].facts) = emitted[c]

\* A response answers for the whole source book: under every interleaving
\* the handlers ran once for each page somebody handles, in page order, and
\* the commands follow that order.
ResponseCoversSource == \A c \in Call : Succeeded(c) =>
  LET cmds == reply[c].commands
  IN  /\ {visited[c][k] : k \in DOMAIN visited[c]}
           = {i \in DOMAIN source[c] : source[c][i] \in Handled}
      /\ \A k, l \in DOMAIN visited[c] : k < l => visited[c][k] < visited[c][l]
      /\ \A i, j \in DOMAIN cmds : i < j => cmds[i] <= cmds[j]
===============================================================================
