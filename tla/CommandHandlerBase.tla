-------------------------- MODULE CommandHandlerBase --------------------------
(***************************************************************************)
(* One CommandHandlerBase[S] instance (aggregate_oo.go) behind             *)
(* OOCommandHandlerGrpc (handler.go).  The instance keeps one EventBook    *)
(* that is input until rebuild() and output afterwards, a state that is    *)
(* built on first use, and the counter that numbers new events.            *)
(*                                                                         *)
(* The business handler is user code: between the call to it and its       *)
(* return it may read State() and Exists(), and it ends by returning       *)
(* events, a rejection, or another error.  Dispatch may be called again on *)
(* the same instance, as tests and embedding code do; the gRPC layer makes *)
(* a new instance per request (Discard, then Serve).                       *)
(***************************************************************************)
EXTENDS EventBooks

CONSTANTS
  Unpackable,    \* payloads anypb.New cannot marshal
  NoState,       \* the nil *S
  MaxHistory,    \* bound on the events an aggregate has before the request
  MaxBatch,      \* bound on the events one handler returns
  MaxCalls,      \* bound on the calls to one instance
  Snapshots      \* may the framework replace old pages by a snapshot?

ASSUME HandlerAssumption ==
  /\ Unpackable \subseteq Event
  /\ MaxHistory \in Nat /\ MaxBatch \in Nat /\ MaxCalls \in Nat
  /\ Snapshots \in BOOLEAN
  /\ NoState \notin State

VARIABLES
  eventBook,  \* a.eventBook: [pages, next]
  state,      \* a.state; NoState stands for stateSet = false
  nextSeq,    \* a.nextSeq
  pc,         \* where the current request is
  calls,      \* calls made to this instance
  exists,     \* what Exists() last returned
  reply,      \* the last reply
  history,    \* the aggregate's full history (the framework's store)
  handed,     \* pages the framework passed to Init
  recorded    \* events that handlers returned and that could be packed

vars == <<eventBook, state, nextSeq, pc, calls, exists, reply,
          history, handed, recorded>>

ghosts == <<history, handed, recorded>>

\* What reached the store was packed once.
Histories == BoundedSeq(Event \ Unpackable, MaxHistory)
Batches == BoundedSeq(Event, MaxBatch)
Codes == {"INVALID_ARGUMENT", "FAILED_PRECONDITION"}

NewEvents == IF state = NoState THEN << >> ELSE
             [i \in DOMAIN eventBook.pages |-> eventBook.pages[i].event]

Contract == INSTANCE CommandContract WITH produced <- NewEvents

Book == [pages : Seq(Page), next : Nat]

TypeOK ==
  /\ eventBook \in Book
  /\ state \in State \cup {NoState}
  /\ nextSeq \in Nat
  /\ pc \in {"idle", "ready", "handling", "rejecting"}
  /\ calls \in Nat
  /\ exists \in {"unasked", "yes", "no"}
  /\ Contract!IsReply(reply)
  /\ history \in Histories
  /\ handed \in Seq(Page)
  /\ recorded \in Seq(Event)

-------------------------------------------------------------------------------
(* Rebuild *)

\* Faulty variants of Rebuild: the last sequence taken for the next one, and
\* the consumed pages left in the book.
RebuildFromLast ==
  IF state # NoState
  THEN UNCHANGED <<eventBook, state, nextSeq>>
  ELSE /\ state' = ApplyPages(Fresh, eventBook.pages)
       /\ nextSeq' = NextSequence(eventBook) - 1
       /\ eventBook' = [eventBook EXCEPT !.pages = << >>]

RebuildWithoutClear ==
  IF state # NoState
  THEN UNCHANGED <<eventBook, state, nextSeq>>
  ELSE /\ state' = ApplyPages(Fresh, eventBook.pages)
       /\ nextSeq' = NextSequence(eventBook)
       /\ UNCHANGED eventBook

\* State(): rebuild once.  The pages are applied, the next sequence is
\* captured, and the pages are cleared so that the book can carry output.
Rebuild ==
  IF state # NoState
  THEN UNCHANGED <<eventBook, state, nextSeq>>
  ELSE /\ state' = ApplyPages(Fresh, eventBook.pages)
       /\ nextSeq' = NextSequence(eventBook)
       /\ eventBook' = [eventBook EXCEPT !.pages = << >>]

\* Faulty variant of Record: the events are recorded but not applied.
RecordWithoutApply(events) ==
  /\ nextSeq' = nextSeq + Len(events)
  /\ eventBook' = [eventBook EXCEPT !.pages = @ \o Numbered(nextSeq, events)]
  /\ UNCHANGED state

\* applyAndRecord() for each packed event, in order: apply to the cached
\* state (if there is one), number, append to the book.
Record(events) ==
  LET pages == Numbered(nextSeq, events)
  IN  /\ state' = IF state = NoState THEN NoState ELSE ApplyPages(state, pages)
      /\ nextSeq' = nextSeq + Len(events)
      /\ eventBook' = [eventBook EXCEPT !.pages = @ \o pages]

\* anypb.New fails for these and applyAndRecord returns without a word.
Packed(events) == SelectSeq(events, LAMBDA e : e \notin Unpackable)

-------------------------------------------------------------------------------
(* The request *)

\* OOCommandHandlerGrpc.dispatch makes an instance with the prior events and
\* the factory calls Init.  The framework's book holds the pages after the
\* last snapshot and the precomputed next sequence.
Serve == \E h \in Histories : \E k \in 0..(IF Snapshots THEN Len(h) ELSE 0) :
  /\ pc = "idle"
  /\ pc' = "ready"
  /\ history' = h
  /\ handed' = SubSeq(Numbered(0, h), k + 1, Len(h))
  /\ eventBook' = [pages |-> handed', next |-> Len(h)]
  /\ state' = NoState
  /\ nextSeq' = 0
  /\ calls' = 0
  /\ exists' = "unasked"
  /\ reply' = Contract!NoReply
  /\ recorded' = << >>

\* A request without a command is refused before any instance is made.
ServeNothing ==
  /\ pc = "idle"
  /\ reply' = Contract!ErrorReply("INVALID_ARGUMENT")
  /\ UNCHANGED <<eventBook, state, nextSeq, pc, calls, exists, ghosts>>

\* Embedding code, a rejection handler or a business handler reads State().
ReadState ==
  /\ pc # "idle"
  /\ Rebuild
  /\ UNCHANGED <<pc, calls, exists, reply, ghosts>>

\* Exists() rebuilds and then looks whether the book holds pages.
AskExists ==
  /\ pc # "idle"
  /\ Rebuild
  /\ exists' = IF eventBook'.pages # << >> THEN "yes" ELSE "no"
  /\ UNCHANGED <<pc, calls, reply, ghosts>>

Call == pc = "ready" /\ calls < MaxCalls /\ calls' = calls + 1

\* No pages, no command in the first page, an unknown command type, or a
\* Notification that does not unmarshal: an error before State() is called.
HandleMalformed ==
  /\ Call
  /\ reply' = Contract!ErrorReply("INVALID_ARGUMENT")
  /\ UNCHANGED <<eventBook, state, nextSeq, pc, exists, ghosts>>

\* Faulty variant of HandleCommand: the handler runs before State() was called.
HandleCommandWithoutState ==
  /\ Call
  /\ pc' = "handling"
  /\ UNCHANGED <<eventBook, state, nextSeq, exists, reply, ghosts>>

\* The type name matches a registered handler.
HandleCommand ==
  /\ Call
  /\ Rebuild
  /\ pc' = "handling"
  /\ UNCHANGED <<exists, reply, ghosts>>

\* A rejection for which a handler is registered under domain/command.
HandleRejection ==
  /\ Call
  /\ Rebuild
  /\ pc' = "rejecting"
  /\ UNCHANGED <<exists, reply, ghosts>>

\* A rejection nobody registered for goes back to the framework.
DelegateRejection ==
  /\ Call
  /\ reply' = Contract!DelegateReply
  /\ UNCHANGED <<eventBook, state, nextSeq, pc, exists, ghosts>>

-------------------------------------------------------------------------------
(* The user's handler returns *)

\* At most one event from a handler registered with Handles, any number from
\* one registered with HandlesMulti.
HandlerReturns == \E returned, packed \in Batches :
  /\ pc = "handling"
  /\ packed = Packed(returned)
  /\ Record(packed)
  /\ pc' = "ready"
  /\ reply' = Contract!EventsReply(eventBook'.pages)
  /\ recorded' = recorded \o packed
  /\ UNCHANGED <<calls, exists, history, handed>>

\* Faulty variant of HandlerFails: events that came with the error are kept.
HandlerFailsPartway == \E batch \in Batches, code \in Codes :
  /\ pc = "handling"
  /\ Record(batch)
  /\ pc' = "ready"
  /\ reply' = Contract!ErrorReply(code)
  /\ UNCHANGED <<calls, exists, ghosts>>

\* An error discards whatever events came with it.  The gRPC layer maps a
\* CommandRejectedError to FAILED_PRECONDITION, anything else (a command
\* that does not unmarshal, for one) to INVALID_ARGUMENT.
HandlerFails == \E code \in Codes :
  /\ pc = "handling"
  /\ pc' = "ready"
  /\ reply' = Contract!ErrorReply(code)
  /\ UNCHANGED <<eventBook, state, nextSeq, calls, exists, ghosts>>

\* A rejection handler may record compensation events with applyAndRecord and
\* returns EmitCompensationEvents(a.EventBook()), DelegateToFramework(...) or
\* a response of its own (other flags, a book it made itself, nil): dispatch
\* passes it on as it is.
RejectionReturns == \E emitted, packed \in Batches :
  /\ pc = "rejecting"
  /\ packed = Packed(emitted)
  /\ Record(packed)
  /\ pc' = "ready"
  /\ reply' \in {Contract!EventsReply(eventBook'.pages),
                 Contract!DelegateReply, Contract!OwnReply}
  /\ recorded' = recorded \o packed
  /\ UNCHANGED <<calls, exists, history, handed>>

\* The request is answered and the instance is dropped.
Discard ==
  /\ pc = "ready"
  /\ calls > 0
  /\ pc' = "idle"
  /\ UNCHANGED <<eventBook, state, nextSeq, calls, exists, reply, ghosts>>

Init ==
  /\ pc = "idle"
  /\ history = << >>
  /\ handed = << >>
  /\ eventBook = [pages |-> << >>, next |-> 0]
  /\ state = NoState
  /\ nextSeq = 0
  /\ calls = 0
  /\ exists = "unasked"
  /\ reply = Contract!NoReply
  /\ recorded = << >>

Next ==
  \/ Serve \/ ServeNothing \/ Discard
  \/ ReadState \/ AskExists
  \/ HandleMalformed \/ HandleCommand \/ HandleRejection \/ DelegateRejection
  \/ HandlerReturns \/ HandlerFails \/ RejectionReturns

Spec == Init /\ [][Next]_vars

-------------------------------------------------------------------------------
(* Properties *)

\* The book is input until the state is built and output afterwards: never
\* both.  As output it holds exactly the events that handlers of this
\* instance returned and that could be packed, in order, numbered from the
\* length of the aggregate's history, whatever was called in between and
\* whether or not the framework replaced old pages by a snapshot.
BookHoldsNewEventsOnly ==
  eventBook.pages = IF state = NoState THEN handed
                    ELSE Numbered(Len(history), recorded)

\* The cached state has seen each page the framework handed over and then
\* each new event, once and in order: the incremental application of new
\* events and a rebuild from the persisted pages agree.
StateReflectsBook ==
  state # NoState =>
    state = ApplyPages(ApplyPages(Fresh, handed), eventBook.pages)

\* A business handler or rejection handler never runs on a state that was
\* not built from the pages of its own request.
HandlerSeesPriorEvents ==
  pc \in {"handling", "rejecting"} =>
    /\ state # NoState
    /\ IsPrefix(ApplyPages(Fresh, handed), state)

\* The lazy rebuild, the shared input/output book and the counter implement
\* the contract: replies number exactly the produced events from the end of
\* the history, and an error produces nothing.
ContractImplemented == Contract!Spec

\* Exists() "returns true if this command handler has prior events"
\* (aggregate_oo.go:373).
ExistsWithPriorEvents == exists # "unasked" /\ handed # << >> => exists = "yes"

\* State() "returns the current state, rebuilding from events if needed"
\* (aggregate_oo.go:365), also when the book holds only the pages after a
\* snapshot (helpers.go:196-197): it has seen every event of the aggregate.
StateIsCurrent ==
  state # NoState =>
    state = ApplyPages(ApplyPages(Fresh, Numbered(0, history)), eventBook.pages)
===============================================================================
