-------------------------------- MODULE ReadSide --------------------------------
(***************************************************************************)
(* The events of one root after they are stored.  A projector gets them in *)
(* books from the framework and runs the user's handlers on them; a client *)
(* copies them through queries and rebuilds state from its copy.  Events   *)
(* of old versions are upcast on both ways.                                *)
(*                                                                         *)
(* The framework and the store are external.  The framework gives the      *)
(* projector the events it has not been answered for, in any number, again *)
(* after an error, and publishes the cloud events of an answer when it     *)
(* takes the answer.  Its books have a cover.  The upcaster is a service   *)
(* of its own, which the pages pass before they reach a projector.  The    *)
(* store answers a query with the pages selected.  A client asks for what  *)
(* follows its copy.                                                       *)
(***************************************************************************)
EXTENDS Naturals, Sequences, FiniteSets

CONSTANTS
  Type,         \* full names of event types
  Simple,       \* the simple name of each
  Absent,       \* a page whose payload is not an event
  Old,          \* the types an upcaster is registered for
  Upcaster,     \* the type each of them becomes
  Projected,    \* the types the projector has a handler for
  Explicit,     \* those whose handler can return a projection of its own
  Exact,        \* the types registered with CloudEventsRouter.On
  Suffix,       \* the simple names registered with OnSuffix
  Withholding,  \* the types whose publishing handlers can return nothing
  MaxEvents,    \* bound on the root's events
  MaxAttempts,  \* of the retry policy
  MaxFailures   \* bound on failures and on speculative calls

ASSUME ReadAssumption ==
  /\ Absent \notin Type
  /\ Old \subseteq Type /\ Upcaster \in [Old -> Type \ Old]
  /\ Projected \subseteq Type \ Old /\ Explicit \subseteq Projected
  /\ Exact \subseteq Type \ Old /\ Withholding \subseteq Type
  /\ MaxEvents \in Nat \ {0} /\ MaxAttempts \in Nat \ {0} /\ MaxFailures \in Nat

\* The projectors that walk through a book themselves.
Projectors == {"ProjectorBase", "CloudEventsRouter"}

VARIABLES
  log,        \* the types of the root's events
  projector,  \* which one is registered
  next,       \* the first event the framework has no answer for
  book,       \* the event book under way: where its loop stops, and whether a
              \* handler returned a projection of its own
  cursor,     \* the next of its pages; past the stop, the answer is ready
  lastSeq,    \* its last page so far that holds an event, or the root's first
  withheld,   \* its pages so far whose handlers made no cloud event
  effects,    \* the pages handlers ran on, and the cloud events published
  response,   \* the pages cloud events were made from, not yet published
  skipped,    \* the pages an explicit projection kept from their handlers, and
              \* those answered with withheld
  reported,   \* the last sequence a default projection reported, if any
  conn,       \* the client's connection
  attempt,    \* attempts of the retry policy to make it
  copy,       \* the pages the client has
  extra,      \* what makes handlers run again: speculative calls, and calls of
              \* the others that were interrupted
  failures

projection == <<next, book, cursor, lastSeq, withheld, effects, response, skipped, reported, extra>>
reader == <<conn, attempt, copy>>
vars == <<log, projector, projection, reader, failures>>

Idle == [first |-> 1, last |-> 0, stop |-> 0, own |-> FALSE, speculative |-> FALSE]

Page(i) == [at |-> i, type |-> log[i]]

Init ==
  /\ log = << >> /\ projector \in Projectors
  /\ next = 1 /\ book = Idle /\ cursor = 1 /\ lastSeq = 1 /\ withheld = {}
  /\ effects = << >> /\ response = << >> /\ skipped = {} /\ reported = 0 /\ extra = 0
  /\ conn = "none" /\ attempt = 0 /\ copy = << >>
  /\ failures = 0

\* The store accepts events while everybody reads.
Store(type) ==
  /\ Len(log) < MaxEvents
  /\ log' = log \o <<type>>
  /\ UNCHANGED <<projector, projection, reader, failures>>

\* A failure of any kind uses up the bound.
Failure == failures < MaxFailures /\ failures' = failures + 1

-------------------------------------------------------------------------------
(* Upcasting: one transformation per page, the header is kept *)

\* Faulty variant of UpcastPage: a page without a handler loses its event.
UpcastOrDrop(page) ==
  [page EXCEPT !.type = IF page.type \in Old THEN Upcaster[page.type] ELSE Absent]

\* UpcasterRouter.Upcast
UpcastPage(page) ==
  [page EXCEPT !.type = IF page.type \in Old THEN Upcaster[page.type] ELSE page.type]

-------------------------------------------------------------------------------
(* The projector *)

\* The framework calls Handle with a book it has no answer for, or
\* HandleSpeculative, which is no different, with any pages of the root.
Deliver(first, last, speculative) ==
  /\ book = Idle
  /\ first \in 1..next /\ last \in first..Len(log)
  /\ IF speculative THEN Failure ELSE first = next /\ UNCHANGED failures
  /\ book' = [first |-> first, last |-> last, stop |-> last, own |-> FALSE,
              speculative |-> speculative]
  /\ cursor' = first /\ lastSeq' = 1 /\ withheld' = {}
  /\ response' = << >>
  /\ extra' = IF speculative THEN extra + 1 ELSE extra
  /\ UNCHANGED <<log, projector, next, effects, skipped, reported, reader>>

Ran(page) == effects' = effects \o <<page>>

\* CloudEventsRouter.Project looks in its map by the full name, and then again
\* by the simple name.
Publications(type) ==
  {n \in {"exact", "suffix"} :
     (n = "exact" /\ type \in Exact) \/ (n = "suffix" /\ Simple[type] \in Suffix)}

\* Those that make a cloud event.
Made(type) == IF type \in Withholding THEN SUBSET Publications(type) ELSE {Publications(type)}

Handles(type) ==
  /\ type # Absent
  /\ IF projector = "CloudEventsRouter" THEN Publications(type) # {} ELSE type \in Projected

\* Faulty variant of HandlePage: cloud events are published page by page.
PublishAtOnce(page) ==
  /\ Ran(page)
  /\ UNCHANGED <<book, withheld, response>>

\* A page with a handler.  One of CloudEventsRouter makes a cloud event or
\* withholds it; the handler of ProjectorBase has its effects at once, and when
\* it returns a projection, the loop ends there.
HandlePage(page) ==
  \/ /\ projector = "CloudEventsRouter"
     /\ \E made \in Made(page.type) :
          /\ response' = response \o [n \in 1..Cardinality(made) |-> page]
          /\ withheld' = IF made = {} THEN withheld \cup {cursor} ELSE withheld
     /\ UNCHANGED <<book, effects>>
  \/ /\ projector = "ProjectorBase"
     /\ Ran(page)
     /\ UNCHANGED <<book, withheld, response>>
  \/ /\ projector = "ProjectorBase" /\ page.type \in Explicit
     /\ Ran(page)
     /\ book' = [book EXCEPT !.stop = cursor, !.own = TRUE]
     /\ UNCHANGED <<withheld, response>>

\* Faulty variant of LastSequence: the pages are counted.
PageCount(page) == cursor - book.first + 1

\* The sequence a default projection reports is that of the last page with an
\* event; it is 0, as on the root's first page, when there is none.
LastSequence(page) == IF page.type # Absent THEN page.at ELSE lastSeq

\* No event, or an event of a type nobody registered.
PassPage == UNCHANGED <<book, withheld, effects, response>>

Step ==
  LET page == UpcastPage(Page(cursor))
  IN  /\ cursor <= book.stop
      /\ IF Handles(page.type) THEN HandlePage(page) ELSE PassPage
      /\ cursor' = cursor + 1 /\ lastSeq' = LastSequence(page)
      /\ UNCHANGED <<log, projector, next, skipped, reported, extra, reader, failures>>

\* The answer reaches the framework, which keeps nothing of a speculative one.
Answer ==
  /\ book # Idle /\ cursor = book.stop + 1
  /\ \/ /\ book.speculative
        /\ UNCHANGED <<next, effects, skipped, reported>>
     \/ /\ ~book.speculative
        /\ next' = book.last + 1
        /\ effects' = effects \o response
        /\ skipped' = skipped \cup (cursor..book.last) \cup withheld
        /\ reported' = IF projector = "ProjectorBase" /\ ~book.own THEN lastSeq ELSE reported
  /\ book' = Idle /\ cursor' = 1 /\ lastSeq' = 1 /\ withheld' = {} /\ response' = << >>
  /\ UNCHANGED <<log, projector, extra, reader, failures>>

\* The projector's process ends in the middle of a book, its handler returns
\* an error, or the answer is lost.
Interrupted ==
  /\ book # Idle /\ Failure
  /\ book' = Idle /\ cursor' = 1 /\ lastSeq' = 1 /\ withheld' = {} /\ response' = << >>
  /\ extra' = IF book.speculative THEN extra ELSE extra + 1
  /\ UNCHANGED <<log, projector, next, effects, skipped, reported, reader>>

-------------------------------------------------------------------------------
(* The client's connection *)

\* Faulty variant of DialFails: the attempts are not bounded.
DialForever ==
  /\ conn = "none" /\ Failure
  /\ attempt' = attempt + 1
  /\ UNCHANGED <<log, projector, projection, conn, copy>>

\* NewQueryClientWithRetry under ExponentialBackoffRetry.Execute.
DialFails ==
  /\ conn = "none" /\ Failure
  /\ attempt' = attempt + 1
  /\ conn' = IF attempt' < MaxAttempts THEN "none" ELSE "gaveUp"
  /\ UNCHANGED <<log, projector, projection, copy>>

Dial ==
  /\ conn = "none"
  /\ conn' = "open" /\ attempt' = 0
  /\ UNCHANGED <<log, projector, projection, copy, failures>>

\* Close of a client that shares the connection.
CloseShared ==
  /\ conn = "open" /\ Failure
  /\ conn' = "closed"
  /\ UNCHANGED <<log, projector, projection, attempt, copy>>

-------------------------------------------------------------------------------
(* Queries.  Sequences count from 0, places in the log from 1. *)

\* QueryBuilder: the selections set so far.
NewQuery == [range |-> << >>, temporal |-> << >>]
RangeFrom(b, lower) == [b EXCEPT !.range = <<lower>>]
RangeTo(b, lower, upper) == [b EXCEPT !.range = <<lower, upper>>]
AsOfSequence(b, seq) == [b EXCEPT !.temporal = <<seq>>]

\* Ways to ask for what follows the first n events.
Queries(n) ==
  {RangeFrom(NewQuery, n), RangeTo(NewQuery, n, n), AsOfSequence(RangeFrom(NewQuery, n), n),
   RangeTo(AsOfSequence(NewQuery, n), n, n + 1)}
    \cup IF n = 0 THEN {NewQuery, AsOfSequence(NewQuery, 0)} ELSE {}

\* Faulty variant of Lower: a point in time goes before a range.
LowerUnlessTemporal(b) == IF b.temporal # << >> \/ b.range = << >> THEN 0 ELSE b.range[1]

\* Build lets a range go before a point in time; both bounds are inclusive.
Lower(b) == IF b.range # << >> THEN b.range[1] ELSE 0

Upper(b) ==
  CASE Len(b.range) = 2 -> b.range[2]
    [] b.range = << >> /\ b.temporal # << >> -> b.temporal[1]
    [] OTHER -> Len(log)

Selected(b) ==
  LET from == Lower(b)
      to == IF Upper(b) < Len(log) THEN Upper(b) + 1 ELSE Len(log)
  IN  [n \in 1..(to - from) |-> Page(from + n)]

\* GetEventBook, GetPages, or GetEvents of a whole stream.
Poll(b) ==
  /\ conn = "open"
  /\ copy' = copy \o Selected(b)
  /\ UNCHANGED <<log, projector, projection, conn, attempt, failures>>

\* GetEvents of a stream that breaks before the root's book: no page, no error.
PollBroken ==
  /\ conn = "open" /\ Failure
  /\ UNCHANGED <<log, projector, projection, reader>>

\* Faulty variant of PollFails: the client keeps its connection.
KeepConnection ==
  /\ conn = "closed"
  /\ UNCHANGED vars

\* The call ends in a GRPCError: a new client is made.
PollFails ==
  /\ conn = "closed"
  /\ conn' = "none" /\ attempt' = 0
  /\ UNCHANGED <<log, projector, projection, copy, failures>>

Deliveries == \E last \in 1..Len(log) : Deliver(next, last, FALSE)
Speculate == \E first, last \in 1..Len(log) : Deliver(first, last, TRUE)
Project == Deliveries \/ Step \/ Answer
Read == Dial \/ PollFails \/ (Len(copy) < Len(log) /\ \E b \in Queries(Len(copy)) : Poll(b))

Next ==
  \/ \E type \in Type \cup {Absent} : Store(type)
  \/ Project \/ Speculate \/ Interrupted
  \/ Read \/ DialFails \/ CloseShared \/ PollBroken

\* The framework delivers, a client asks again; events need not come, and
\* nothing needs to fail.
Spec == Init /\ [][Next]_vars /\ WF_vars(Project) /\ WF_vars(Read)

-------------------------------------------------------------------------------
(* Properties *)

Pages == [at : 1..MaxEvents, type : Type \cup {Absent}]

TypeOK ==
  /\ log \in Seq(Type \cup {Absent}) /\ Len(log) <= MaxEvents
  /\ projector \in Projectors
  /\ next \in 1..Len(log) + 1 /\ cursor \in 1..Len(log) + 1
  /\ book \in [first : 1..MaxEvents, last : 0..Len(log), stop : 0..Len(log),
              own : BOOLEAN, speculative : BOOLEAN]
  /\ lastSeq \in 1..MaxEvents
  /\ effects \in Seq(Pages) /\ response \in Seq(Pages)
  /\ withheld \subseteq DOMAIN log /\ skipped \subseteq DOMAIN log
  /\ reported \in 0..MaxEvents
  /\ conn \in {"none", "open", "closed", "gaveUp"}
  /\ attempt \in 0..MaxAttempts /\ (conn = "gaveUp" <=> attempt = MaxAttempts)
  /\ copy \in Seq(Pages)
  /\ failures \in 0..MaxFailures /\ extra \in 0..failures

CurrentType(i) == IF log[i] \in Old THEN Upcaster[log[i]] ELSE log[i]

Current(i) == [at |-> i, type |-> CurrentType(i)]

Happened == {effects[n] : n \in DOMAIN effects}

\* However the log was cut into books, and whatever was interrupted or run
\* speculatively in between: each event the framework has an answer for has
\* reached its handler in its current version, unless a handler returned a
\* projection of its own for an earlier page of the same book, or withheld the
\* cloud event.
ProjectedAtLeastOnce ==
  \A i \in 1..next - 1 : Handles(CurrentType(i)) =>
                           Current(i) \in Happened \/ i \in skipped

\* Nothing else has an effect: only an event of the log, in its current version
\* and with a handler.  One that the framework has no answer for is of the book
\* under way, of a speculative call or of one that was interrupted; a cloud
\* event never is.
OnlyProjected ==
  \A page \in Happened :
    /\ page.at \in DOMAIN log /\ page = Current(page.at) /\ Handles(page.type)
    /\ page.at < next \/ /\ projector # "CloudEventsRouter"
                         /\ extra > 0 \/ (book # Idle /\ page.at < cursor)

\* The projection is made from what happened, all of it and nothing but that.
ProjectionFaithful == ProjectedAtLeastOnce /\ OnlyProjected

Times(i) == Cardinality({n \in DOMAIN effects : effects[n].at = i})

\* How often an event has effects.  Cloud events leave with the answer: each
\* registered name an event fits publishes it once at most, and in the order of
\* the log, whatever is interrupted or run speculatively.  A type registered
\* by its full and by its simple name is published twice.  Handlers of
\* ProjectorBase have their effects once more for each call that was
\* interrupted or speculative, and in order as long as there was none.
RepetitionsBounded ==
  /\ \A i \in DOMAIN log : Handles(CurrentType(i)) =>
       Times(i) <= IF projector = "CloudEventsRouter"
                   THEN Cardinality(Publications(CurrentType(i))) ELSE 1 + extra
  /\ projector = "CloudEventsRouter" \/ extra = 0 =>
       \A m, n \in DOMAIN effects : m < n => effects[m].at <= effects[n].at

\* What a client has put together from its queries is the beginning of the
\* log, without gaps or repetitions, whichever way it asked, across
\* connections and broken streams.
CopyIsPrefix ==
  Len(copy) <= Len(log) /\ \A i \in DOMAIN copy : copy[i] = Page(i)

Events(from, to) == {i \in from..to : log[i] # Absent}

\* The sequence of a default projection goes back only when the book holds no
\* event at all (it is 0 then).
ReportsAdvance ==
  [][reported' < reported => reported' = 1 /\ Events(book.first, book.last) = {}]_vars

\* StateRouter.WithEvents of the upcast copy, for a state that keeps what was
\* applied, with the types the projector handles registered.
Rebuilt ==
  {UpcastPage(copy[i]) : i \in {j \in DOMAIN copy : Handles(UpcastPage(copy[j]).type)}}

\* A client's state is rebuilt from exactly the events the projection was made
\* from.
Agreement ==
  /\ Happened \subseteq Rebuilt
  /\ \A page \in Rebuilt : page \in Happened \/ page.at \in skipped

\* In the end a client that still has a connection agrees with the projection.
ReadersAgree == <>[](conn # "gaveUp" => Agreement)
===============================================================================
