-------------------------- MODULE CommandHandlerProofs --------------------------
(***************************************************************************)
(* Proofs about CommandHandlerBase for every set of payloads and every     *)
(* bound: its type invariant, the invariant that separates input from      *)
(* output in the shared event book, and that it implements                 *)
(* CommandContract.                                                        *)
(***************************************************************************)
EXTENDS CommandHandlerBase, SequenceTheorems, TLAPS

(***************************************************************************)
(* Lemmas about event books.                                               *)
(***************************************************************************)

\* Numbered yields one page per event.
LEMMA NumberedType ==
  ASSUME NEW from \in Nat, NEW events \in Seq(Event)
  PROVE  /\ Numbered(from, events) \in Seq(Page)
         /\ Len(Numbered(from, events)) = Len(events)
         /\ \A i \in 1..Len(events) :
              Numbered(from, events)[i] = [seq |-> from + i - 1, event |-> events[i]]
<1>1. \A i \in 1..Len(events) :
        [seq |-> from + i - 1, event |-> events[i]] \in Page
  BY DEF Page
<1>2. Numbered(from, events) =
        [i \in 1..Len(events) |-> [seq |-> from + i - 1, event |-> events[i]]]
  BY DEF Numbered
<1>3. Numbered(from, events) \in [1..Len(events) -> Page]
  BY <1>1, <1>2
<1>4. Numbered(from, events) \in Seq(Page) /\ Len(Numbered(from, events)) = Len(events)
  BY <1>3
<1> QED
  BY <1>2, <1>4

\* Numbering a concatenation continues the numbers of its first part.
LEMMA NumberedConcat ==
  ASSUME NEW from \in Nat, NEW a \in Seq(Event), NEW b \in Seq(Event)
  PROVE  Numbered(from, a \o b) = Numbered(from, a) \o Numbered(from + Len(a), b)
<1> DEFINE l == Numbered(from, a \o b)
           p == Numbered(from, a)
           q == Numbered(from + Len(a), b)
<1>1. a \o b \in Seq(Event) /\ Len(a \o b) = Len(a) + Len(b)
  OBVIOUS
<1>2. /\ l \in Seq(Page) /\ Len(l) = Len(a) + Len(b)
      /\ \A i \in 1..Len(l) : l[i] = [seq |-> from + i - 1, event |-> (a \o b)[i]]
  BY <1>1, NumberedType
<1>3. /\ p \in Seq(Page) /\ Len(p) = Len(a)
      /\ \A i \in 1..Len(a) : p[i] = [seq |-> from + i - 1, event |-> a[i]]
  BY NumberedType
<1>4. /\ q \in Seq(Page) /\ Len(q) = Len(b)
      /\ \A i \in 1..Len(b) :
           q[i] = [seq |-> from + Len(a) + i - 1, event |-> b[i]]
  <2>1. from + Len(a) \in Nat
    OBVIOUS
  <2> QED
    BY <2>1, NumberedType
<1> HIDE DEF l, p, q
<1>5. p \o q \in Seq(Page) /\ Len(p \o q) = Len(l)
  <2>1. p \in Seq(Page) /\ q \in Seq(Page)
    BY <1>3, <1>4
  <2>2. p \o q \in Seq(Page) /\ Len(p \o q) = Len(p) + Len(q)
    BY <2>1, ConcatProperties
  <2> QED
    BY <2>2, <1>2, <1>3, <1>4
<1>6. ASSUME NEW i \in 1..Len(l) PROVE l[i] = (p \o q)[i]
  <2>1. CASE i <= Len(a)
    BY <2>1, <1>2, <1>3, <1>4
  <2>2. CASE i > Len(a)
    <3>1. i - Len(a) \in 1..Len(b)
      BY <2>2, <1>2
    <3>2. (a \o b)[i] = b[i - Len(a)] /\ (p \o q)[i] = q[i - Len(a)]
      BY <2>2, <3>1, <1>2, <1>3, <1>4
    <3>3. q[i - Len(a)] = [seq |-> from + i - 1, event |-> b[i - Len(a)]]
      <4>1. from + Len(a) + (i - Len(a)) - 1 = from + i - 1
        BY <1>2
      <4> QED
        BY <3>1, <1>4, <4>1
    <3> QED
      BY <1>2, <3>2, <3>3
  <2>3. i <= Len(a) \/ i > Len(a)
    <3>1. i \in Int /\ Len(a) \in Int
      BY <1>2
    <3> QED
      BY <3>1
  <2> QED
    BY <2>1, <2>2, <2>3
<1>7. l = p \o q
  BY <1>2, <1>5, <1>6, SeqEqual
<1> QED
  BY <1>7 DEF l, p, q

\* Applying pages yields a state.
LEMMA ApplyPagesType ==
  ASSUME NEW st \in State, NEW pages \in Seq(Page)
  PROVE  /\ ApplyPages(st, pages) \in State
         /\ Len(ApplyPages(st, pages)) = Len(st) + Len(pages)
<1> DEFINE effects == [i \in DOMAIN pages |-> Effect(pages[i].event)]
<1>1. \A i \in DOMAIN pages : Effect(pages[i].event) \in Applied \cup {Ignored}
  BY DEF Effect
<1>2. effects \in [1..Len(pages) -> Applied \cup {Ignored}]
  BY <1>1
<1>3. effects \in State /\ Len(effects) = Len(pages)
  BY <1>2 DEF State
<1> QED
  BY <1>3 DEF ApplyPages, State

\* Applying two lists of pages one after the other is applying their
\* concatenation: an incremental apply and a rebuild agree.
LEMMA ApplyPagesConcat ==
  ASSUME NEW st \in State, NEW p \in Seq(Page), NEW q \in Seq(Page)
  PROVE  ApplyPages(st, p \o q) = ApplyPages(ApplyPages(st, p), q)
<1> DEFINE eff(s) == [i \in DOMAIN s |-> Effect(s[i].event)]
           T == Applied \cup {Ignored}
<1>1. \A s \in Seq(Page) : eff(s) \in Seq(T) /\ Len(eff(s)) = Len(s)
  <2> SUFFICES ASSUME NEW s \in Seq(Page)
               PROVE  eff(s) \in Seq(T) /\ Len(eff(s)) = Len(s)
    OBVIOUS
  <2>1. \A i \in DOMAIN s : Effect(s[i].event) \in T
    BY DEF Effect
  <2>2. eff(s) \in [1..Len(s) -> T]
    BY <2>1
  <2> QED
    BY <2>2
<1>2. p \o q \in Seq(Page) /\ Len(p \o q) = Len(p) + Len(q)
  OBVIOUS
<1>3. eff(p \o q) = eff(p) \o eff(q)
  <2>1. eff(p) \o eff(q) \in Seq(T) /\ Len(eff(p) \o eff(q)) = Len(p) + Len(q)
    <3>1. /\ eff(p) \in Seq(T) /\ Len(eff(p)) = Len(p)
          /\ eff(q) \in Seq(T) /\ Len(eff(q)) = Len(q)
      BY <1>1
    <3>2. ASSUME NEW x \in Seq(T), NEW y \in Seq(T)
          PROVE  x \o y \in Seq(T) /\ Len(x \o y) = Len(x) + Len(y)
      BY ConcatProperties
    <3> HIDE DEF eff, T
    <3>3. eff(p) \o eff(q) \in Seq(T) /\ Len(eff(p) \o eff(q)) = Len(eff(p)) + Len(eff(q))
      BY <3>1, <3>2
    <3> QED
      BY <3>1, <3>3
  <2>2. eff(p \o q) \in Seq(T) /\ Len(eff(p \o q)) = Len(p) + Len(q)
    BY <1>1, <1>2
  <2>3. ASSUME NEW i \in 1..(Len(p) + Len(q))
        PROVE  eff(p \o q)[i] = (eff(p) \o eff(q))[i]
    <3>1. eff(p \o q)[i] = Effect((p \o q)[i].event)
      BY <1>2
    <3>2. CASE i <= Len(p)
      BY <3>1, <3>2, <1>1
    <3>3. CASE i > Len(p)
      BY <3>1, <3>3, <1>1
    <3> QED
      BY <3>2, <3>3
  <2> QED
    BY <2>1, <2>2, <2>3, SeqEqual
<1>4. ApplyPages(st, p \o q) = st \o (eff(p) \o eff(q))
  BY <1>3 DEF ApplyPages
<1>5. ApplyPages(ApplyPages(st, p), q) = (st \o eff(p)) \o eff(q)
  BY DEF ApplyPages
<1> QED
  BY <1>1, <1>4, <1>5, ConcatAssociative, SMTT(30) DEF State

-------------------------------------------------------------------------------
(***************************************************************************)
(* The inductive invariant.  BookHoldsNewEventsOnly and StateReflectsBook  *)
(* are not inductive alone: a rebuild that has not happened yet must find  *)
(* the framework's pages and next sequence still in the book, and the      *)
(* counter must stand just behind the last recorded event.                 *)
(***************************************************************************)
CounterFollowsBook ==
  /\ state = NoState => recorded = << >> /\ eventBook.next = Len(history)
  /\ state # NoState => nextSeq = Len(history) + Len(recorded)

Safe ==
  /\ TypeOK
  /\ BookHoldsNewEventsOnly
  /\ StateReflectsBook
  /\ CounterFollowsBook
  /\ pc \in {"handling", "rejecting"} => state # NoState

LEMMA BoundedSeqIsSeq ==
  ASSUME NEW S, NEW n \in Nat, NEW s \in BoundedSeq(S, n)
  PROVE  s \in Seq(S) /\ Len(s) \in Nat
BY DEF BoundedSeq, SeqOf

LEMMA BatchType == \A b \in Batches : b \in Seq(Event)
BY BoundedSeqIsSeq, HandlerAssumption DEF Batches

LEMMA HistoryType == \A h \in Histories : h \in Seq(Event) /\ Len(h) \in Nat
<1>1. \A h \in Histories : h \in Seq(Event \ Unpackable)
  BY BoundedSeqIsSeq, HandlerAssumption DEF Histories
<1> QED
  BY <1>1

\* A reply that carries pages is a reply.
LEMMA EventsReplyType ==
  ASSUME NEW pages \in Seq(Page)
  PROVE  Contract!IsReply(Contract!EventsReply(pages))
<1> DEFINE r == [kind |-> "events", pages |-> pages]
<1>1. DOMAIN r = {"kind", "pages"} /\ r.pages = pages
  OBVIOUS
<1>2. "pages" \in DOMAIN r /\ r.pages \in Seq(Page)
  BY <1>1
<1>3. r = Contract!EventsReply(r.pages)
  BY <1>1 DEF Contract!EventsReply
<1> HIDE DEF r
<1>4. Contract!IsReply(r)
  BY <1>2, <1>3 DEF Contract!IsReply, Contract!Page, Page
<1> QED
  BY <1>4 DEF Contract!EventsReply, r

\* The initial state is safe.
LEMMA InitSafe == Init => Safe
<1> SUFFICES ASSUME Init PROVE Safe
  OBVIOUS
<1>1. << >> \in Histories
  BY HandlerAssumption DEF Histories, BoundedSeq, SeqOf
<1>2. TypeOK
  BY <1>1 DEF Init, TypeOK, Book, Contract!IsReply, Contract!NoReply
<1> QED
  BY <1>2 DEF Init, Safe, BookHoldsNewEventsOnly, StateReflectsBook, CounterFollowsBook

\* Whether or not the state was there, Rebuild leaves a safe book, counter
\* and state behind.
LEMMA RebuildSafe ==
  ASSUME Safe, Rebuild, UNCHANGED ghosts
  PROVE  /\ eventBook' \in Book /\ state' \in State /\ nextSeq' \in Nat
         /\ state' # NoState
         /\ BookHoldsNewEventsOnly' /\ StateReflectsBook' /\ CounterFollowsBook'
<1> USE HandlerAssumption
<1>1. CASE state # NoState
  BY <1>1 DEF Safe, Rebuild, ghosts, TypeOK, BookHoldsNewEventsOnly,
              StateReflectsBook, CounterFollowsBook
<1>2. CASE state = NoState
  <2>1. eventBook \in Book /\ handed \in Seq(Page) /\ eventBook.pages = handed
        /\ recorded = << >> /\ eventBook.next = Len(history) /\ history \in Seq(Event)
    BY <1>2, HistoryType DEF Safe, TypeOK, BookHoldsNewEventsOnly, CounterFollowsBook
  <2>2. /\ state' = ApplyPages(Fresh, handed)
        /\ nextSeq' = Len(history)
        /\ eventBook' = [eventBook EXCEPT !.pages = << >>]
    BY <1>2, <2>1 DEF Rebuild, NextSequence
  <2>3. Fresh \in State
    BY DEF Fresh, State
  <2>4. state' \in State
    BY <2>1, <2>2, <2>3, ApplyPagesType
  <2>5. eventBook' \in Book /\ eventBook'.pages = << >> /\ nextSeq' \in Nat
    <3>1. << >> \in Seq(Page) /\ Len(history) \in Nat
      BY <2>1
    <3> QED
      BY <2>1, <2>2, <3>1 DEF Book
  <2>6. BookHoldsNewEventsOnly'
    BY <2>1, <2>4, <2>5 DEF BookHoldsNewEventsOnly, Numbered, ghosts
  <2>7. ApplyPages(state', << >>) = state'
    BY <2>4 DEF ApplyPages, State
  <2>8. StateReflectsBook'
    BY <2>2, <2>5, <2>7 DEF StateReflectsBook, ghosts
  <2>9. CounterFollowsBook'
    BY <2>1, <2>2, <2>4 DEF CounterFollowsBook, ghosts
  <2> QED
    BY <2>4, <2>5, <2>6, <2>8, <2>9
<1> QED
  BY <1>1, <1>2

\* Recording a batch extends the book, the counter and the state alike.
LEMMA RecordSafe ==
  ASSUME Safe, state # NoState, NEW batch \in Seq(Event), Record(batch),
         recorded' = recorded \o batch, UNCHANGED <<history, handed>>
  PROVE  /\ eventBook' \in Book /\ state' \in State /\ nextSeq' \in Nat
         /\ recorded' \in Seq(Event)
         /\ state' # NoState
         /\ BookHoldsNewEventsOnly' /\ StateReflectsBook' /\ CounterFollowsBook'
<1> DEFINE new == Numbered(nextSeq, batch)
<1>1. /\ eventBook \in Book /\ state \in State /\ nextSeq \in Nat
      /\ handed \in Seq(Page) /\ recorded \in Seq(Event)
      /\ nextSeq = Len(history) + Len(recorded)
      /\ history \in Seq(Event) /\ Len(history) \in Nat
      /\ eventBook.pages = Numbered(Len(history), recorded)
      /\ state = ApplyPages(ApplyPages(Fresh, handed), eventBook.pages)
  BY HistoryType DEF Safe, TypeOK, BookHoldsNewEventsOnly, StateReflectsBook,
                     CounterFollowsBook
<1>2. new \in Seq(Page)
  BY <1>1, NumberedType
<1>3. eventBook.pages \in Seq(Page)
  BY <1>1 DEF Book
<1>4. /\ state' = ApplyPages(state, new)
      /\ nextSeq' = nextSeq + Len(batch)
      /\ eventBook' = [eventBook EXCEPT !.pages = @ \o new]
  BY DEF Record
<1> HIDE DEF new
<1>5. state' \in State /\ state' # NoState
  BY <1>1, <1>2, <1>4, ApplyPagesType, HandlerAssumption
<1>6. nextSeq' \in Nat /\ recorded' \in Seq(Event)
      /\ Len(recorded') = Len(recorded) + Len(batch)
  BY <1>1, <1>4
<1>7. eventBook.pages \o new \in Seq(Page)
  BY <1>2, <1>3, ConcatProperties
<1>8. eventBook' \in Book /\ eventBook'.pages = eventBook.pages \o new
      /\ eventBook'.next = eventBook.next
  BY <1>1, <1>4, <1>7 DEF Book
<1>9. BookHoldsNewEventsOnly'
  <2>1. Numbered(Len(history), recorded \o batch)
          = Numbered(Len(history), recorded) \o new
    BY <1>1, NumberedConcat DEF new
  <2> QED
    BY <2>1, <1>1, <1>5, <1>8 DEF BookHoldsNewEventsOnly
<1>10. StateReflectsBook'
  <2>1. Fresh \in State
    BY DEF Fresh, State
  <2>2. ApplyPages(Fresh, handed) \in State
    BY <2>1, <1>1, ApplyPagesType
  <2>3. ApplyPages(ApplyPages(Fresh, handed), eventBook.pages \o new)
          = ApplyPages(state, new)
    BY <2>2, <1>1, <1>2, <1>3, ApplyPagesConcat
  <2> QED
    BY <2>3, <1>4, <1>8 DEF StateReflectsBook
<1>11. CounterFollowsBook'
  BY <1>1, <1>4, <1>5, <1>6 DEF CounterFollowsBook
<1> QED
  BY <1>5, <1>6, <1>8, <1>9, <1>10, <1>11

\* Every step keeps the invariant.
LEMMA StepSafe == Safe /\ [Next]_vars => Safe'
<1> SUFFICES ASSUME Safe, [Next]_vars PROVE Safe'
  OBVIOUS
<1> USE HandlerAssumption
<1>1. CASE Serve
  <2>h. PICK h \in Histories : \E k \in 0..(IF Snapshots THEN Len(h) ELSE 0) :
          /\ pc' = "ready" /\ history' = h
          /\ handed' = SubSeq(Numbered(0, h), k + 1, Len(h))
          /\ eventBook' = [pages |-> handed', next |-> Len(h)]
          /\ state' = NoState /\ nextSeq' = 0 /\ calls' = 0
          /\ exists' = "unasked" /\ reply' = Contract!NoReply
          /\ recorded' = << >>
    BY <1>1 DEF Serve
  <2>1. PICK k \in 0..(IF Snapshots THEN Len(h) ELSE 0) :
          /\ pc' = "ready" /\ history' = h
          /\ handed' = SubSeq(Numbered(0, h), k + 1, Len(h))
          /\ eventBook' = [pages |-> handed', next |-> Len(h)]
          /\ state' = NoState /\ nextSeq' = 0 /\ calls' = 0
          /\ exists' = "unasked" /\ reply' = Contract!NoReply
          /\ recorded' = << >>
    BY <2>h
  <2>2. h \in Seq(Event) /\ Len(h) \in Nat
    BY HistoryType
  <2>3. Numbered(0, h) \in Seq(Page) /\ Len(Numbered(0, h)) = Len(h)
    BY <2>2, NumberedType
  <2>4. k + 1 \in 1..(Len(h) + 1)
    BY <2>2
  <2>5. handed' \in Seq(Page)
    BY <2>1, <2>2, <2>3, <2>4, SubSeqProperties, ElementOfSeq
  <2>6. TypeOK'
    BY <2>1, <2>2, <2>5 DEF TypeOK, Book, Contract!IsReply
  <2> QED
    BY <2>1, <2>6 DEF Safe, BookHoldsNewEventsOnly, StateReflectsBook, CounterFollowsBook
<1>2. CASE ServeNothing
  BY <1>2 DEF ServeNothing, Safe, TypeOK, BookHoldsNewEventsOnly, StateReflectsBook,
    CounterFollowsBook, ghosts, Contract!IsReply, Codes
<1>3. CASE ReadState
  <2>1. UNCHANGED ghosts /\ Rebuild /\ UNCHANGED <<pc, calls, exists, reply>>
    BY <1>3 DEF ReadState
  <2> QED
    BY <2>1, RebuildSafe DEF Safe, TypeOK, ghosts
<1>4. CASE AskExists
  <2>1. UNCHANGED ghosts /\ Rebuild /\ UNCHANGED <<pc, calls, reply>>
        /\ exists' \in {"unasked", "yes", "no"}
    BY <1>4 DEF AskExists
  <2> QED
    BY <2>1, RebuildSafe DEF Safe, TypeOK, ghosts
<1>5. CASE HandleMalformed
  BY <1>5 DEF HandleMalformed, Call, Safe, TypeOK, BookHoldsNewEventsOnly,
    StateReflectsBook, CounterFollowsBook, ghosts, Contract!IsReply, Codes
<1>6. CASE HandleCommand
  <2>1. UNCHANGED ghosts /\ Rebuild /\ UNCHANGED <<exists, reply>>
        /\ pc' = "handling" /\ calls' = calls + 1
    BY <1>6 DEF HandleCommand, Call
  <2> QED
    BY <2>1, RebuildSafe DEF Safe, TypeOK, ghosts
<1>7. CASE HandleRejection
  <2>1. UNCHANGED ghosts /\ Rebuild /\ UNCHANGED <<exists, reply>>
        /\ pc' = "rejecting" /\ calls' = calls + 1
    BY <1>7 DEF HandleRejection, Call
  <2> QED
    BY <2>1, RebuildSafe DEF Safe, TypeOK, ghosts
<1>8. CASE DelegateRejection
  BY <1>8 DEF DelegateRejection, Call, Safe, TypeOK, BookHoldsNewEventsOnly,
    StateReflectsBook, CounterFollowsBook, ghosts, Contract!IsReply
<1>9. CASE HandlerReturns
  <2>1. PICK returned \in Batches, packed \in Batches :
          /\ pc = "handling" /\ Record(packed) /\ pc' = "ready"
          /\ reply' = Contract!EventsReply(eventBook'.pages)
          /\ recorded' = recorded \o packed
          /\ UNCHANGED <<calls, exists, history, handed>>
    BY <1>9 DEF HandlerReturns
  <2>2. returned \in Seq(Event) /\ packed \in Seq(Event) /\ state # NoState
    BY <2>1, BatchType DEF Safe
  <2>3. /\ eventBook' \in Book /\ state' \in State /\ nextSeq' \in Nat
        /\ recorded' \in Seq(Event) /\ state' # NoState
        /\ BookHoldsNewEventsOnly' /\ StateReflectsBook' /\ CounterFollowsBook'
    BY <2>1, <2>2, RecordSafe
  <2>4. Contract!IsReply(reply')
    <3>1. eventBook'.pages \in Seq(Page)
      BY <2>3 DEF Book
    <3> QED
      BY <2>1, <3>1, EventsReplyType
  <2> QED
    BY <2>1, <2>3, <2>4 DEF Safe, TypeOK
<1>10. CASE HandlerFails
  BY <1>10 DEF HandlerFails, Safe, TypeOK, BookHoldsNewEventsOnly, StateReflectsBook,
    CounterFollowsBook, ghosts, Contract!IsReply
<1>11. CASE RejectionReturns
  <2>1. PICK emitted \in Batches, packed \in Batches :
          /\ pc = "rejecting" /\ Record(packed) /\ pc' = "ready"
          /\ reply' \in {Contract!EventsReply(eventBook'.pages),
                         Contract!DelegateReply, Contract!OwnReply}
          /\ recorded' = recorded \o packed
          /\ UNCHANGED <<calls, exists, history, handed>>
    BY <1>11 DEF RejectionReturns
  <2>2. packed \in Seq(Event) /\ state # NoState
    BY <2>1, BatchType DEF Safe
  <2>3. /\ eventBook' \in Book /\ state' \in State /\ nextSeq' \in Nat
        /\ recorded' \in Seq(Event) /\ state' # NoState
        /\ BookHoldsNewEventsOnly' /\ StateReflectsBook' /\ CounterFollowsBook'
    BY <2>1, <2>2, RecordSafe
  <2>4. Contract!IsReply(reply')
    <3>1. eventBook'.pages \in Seq(Page)
      BY <2>3 DEF Book
    <3>2. Contract!IsReply(Contract!DelegateReply)
          /\ Contract!IsReply(Contract!OwnReply)
      BY DEF Contract!IsReply
    <3> QED
      BY <2>1, <3>1, <3>2, EventsReplyType
  <2> QED
    BY <2>1, <2>3, <2>4 DEF Safe, TypeOK
<1>12. CASE Discard
  BY <1>12 DEF Discard, Safe, TypeOK, BookHoldsNewEventsOnly, StateReflectsBook,
    CounterFollowsBook, ghosts
<1>13. CASE UNCHANGED vars
  BY <1>13 DEF vars, Safe, TypeOK, BookHoldsNewEventsOnly, StateReflectsBook,
    CounterFollowsBook
<1> QED
  BY <1>1, <1>2, <1>3, <1>4, <1>5, <1>6, <1>7, <1>8, <1>9, <1>10, <1>11, <1>12,
     <1>13 DEF Next

\* Every reachable state satisfies the inductive invariant.
LEMMA AlwaysSafe == Spec => []Safe
BY InitSafe, StepSafe, PTL DEF Spec

(***************************************************************************)
(* What follows from it.                                                   *)
(***************************************************************************)

\* Every variable of the instance and of its surroundings keeps its type,
\* for every set of payloads and every bound.
THEOREM TypeCorrect == Spec => []TypeOK
<1>1. Safe => TypeOK
  BY DEF Safe
<1> QED
  BY <1>1, AlwaysSafe, PTL

\* The event book never mixes the prior events of the request with the new
\* ones: once the state is built it holds exactly the new events, numbered
\* from the end of the aggregate's history.
THEOREM BookSafe == Spec => []BookHoldsNewEventsOnly
<1>1. Safe => BookHoldsNewEventsOnly
  BY DEF Safe
<1> QED
  BY <1>1, AlwaysSafe, PTL

\* Applying each new event as it is recorded gives the state that a rebuild
\* from all pages would give.
THEOREM StateSafe == Spec => []StateReflectsBook
<1>1. Safe => StateReflectsBook
  BY DEF Safe
<1> QED
  BY <1>1, AlwaysSafe, PTL

\* What is appended to a sequence leaves it as a prefix.
LEMMA PrefixOfConcat ==
  ASSUME NEW T, NEW s \in Seq(T), NEW t \in Seq(T)
  PROVE  IsPrefix(s, s \o t)
<1>1. s \o t \in Seq(T) /\ Len(s \o t) = Len(s) + Len(t) /\ Len(s) \in Nat /\ Len(t) \in Nat
  BY ConcatProperties
<1>2. \A i \in 1..Len(s) : (s \o t)[i] = s[i]
  BY ConcatProperties
<1>3. /\ SubSeq(s, 1, Len(s)) = [i \in 1..Len(s) |-> s[i]]
      /\ SubSeq(s \o t, 1, Len(s)) = [i \in 1..Len(s) |-> (s \o t)[i]]
  BY <1>1
<1>4. SubSeq(s, 1, Len(s)) = SubSeq(s \o t, 1, Len(s))
  BY <1>2, <1>3
<1> QED
  BY <1>1, <1>4 DEF IsPrefix

\* A business handler or rejection handler only ever runs on a state built
\* from the pages of its own request.
THEOREM HandlersSafe == Spec => []HandlerSeesPriorEvents
<1>1. Safe => HandlerSeesPriorEvents
  <2> SUFFICES ASSUME Safe, pc \in {"handling", "rejecting"}
               PROVE  state # NoState /\ IsPrefix(ApplyPages(Fresh, handed), state)
    BY DEF HandlerSeesPriorEvents
  <2> DEFINE prior == ApplyPages(Fresh, handed)
             pages == eventBook.pages
  <2>1. /\ state # NoState /\ state = ApplyPages(prior, pages)
        /\ handed \in Seq(Page) /\ pages \in Seq(Page)
    BY DEF Safe, TypeOK, Book, StateReflectsBook
  <2>2. prior \in State
    <3>1. Fresh \in State
      BY SMTT(30) DEF Fresh, State
    <3> QED
      BY <2>1, <3>1, ApplyPagesType
  <2>3. \E t \in State : state = prior \o t
    <3> DEFINE t == [i \in DOMAIN pages |-> Effect(pages[i].event)]
    <3>1. \A i \in DOMAIN pages : Effect(pages[i].event) \in Applied \cup {Ignored}
      BY DEF Effect
    <3>2. t \in State
      BY <2>1, <3>1 DEF State
    <3> QED
      BY <2>1, <3>2 DEF ApplyPages
  <2> HIDE DEF prior
  <2>4. IsPrefix(prior, state)
    BY <2>2, <2>3, PrefixOfConcat DEF State
  <2> QED
    BY <2>1, <2>4 DEF prior
<1> QED
  BY <1>1, AlwaysSafe, PTL

(***************************************************************************)
(* The refinement.                                                         *)
(***************************************************************************)

\* The events that the refinement mapping reads off the book are those that
\* were recorded.
LEMMA NewEventsAreRecorded ==
  Safe => /\ NewEvents = recorded
          /\ state # NoState => eventBook.pages = Numbered(Len(history), NewEvents)
<1> SUFFICES ASSUME Safe
             PROVE  /\ NewEvents = recorded
                    /\ state # NoState =>
                         eventBook.pages = Numbered(Len(history), NewEvents)
  OBVIOUS
<1>1. /\ recorded \in Seq(Event) /\ Len(history) \in Nat
      /\ state = NoState => recorded = << >>
      /\ state # NoState => eventBook.pages = Numbered(Len(history), recorded)
  BY HistoryType DEF Safe, TypeOK, BookHoldsNewEventsOnly, CounterFollowsBook
<1>2. CASE state = NoState
  BY <1>1, <1>2 DEF NewEvents
<1>3. CASE state # NoState
  <2>1. eventBook.pages \in Seq(Page) /\ Len(eventBook.pages) = Len(recorded)
        /\ \A i \in 1..Len(recorded) : eventBook.pages[i].event = recorded[i]
    <3> DEFINE n == Numbered(Len(history), recorded)
    <3>1. /\ n \in Seq(Page) /\ Len(n) = Len(recorded)
          /\ \A i \in 1..Len(recorded) :
               n[i] = [seq |-> Len(history) + i - 1, event |-> recorded[i]]
      BY <1>1, NumberedType
    <3> HIDE DEF n
    <3>2. eventBook.pages = n
      BY <1>1, <1>3 DEF n
    <3>3. ASSUME NEW i \in 1..Len(recorded) PROVE n[i].event = recorded[i]
      <4>1. n[i] = [seq |-> Len(history) + i - 1, event |-> recorded[i]]
        BY <3>1
      <4> QED
        BY <4>1
    <3> QED
      BY <3>1, <3>2, <3>3
  <2>2. NewEvents = [i \in 1..Len(recorded) |-> recorded[i]]
    BY <1>3, <2>1 DEF NewEvents
  <2>3. NewEvents = recorded
    BY <1>1, <2>2
  <2> QED
    BY <1>1, <1>3, <2>3
<1> QED
  BY <1>2, <1>3

\* The instance of the contract numbers events as this module does.
LEMMA SameNumbering ==
  \A from, events : Contract!Numbered(from, events) = Numbered(from, events)
BY DEF Contract!Numbered, Numbered

\* The initial state maps to an initial state of the contract.
LEMMA ContractInit == Init => Contract!Init
<1>1. << >> \in Histories
  BY HandlerAssumption DEF Histories, BoundedSeq, SeqOf
<1> QED
  BY <1>1 DEF Init, Contract!Init, NewEvents

\* Building the state does not change what was produced.
LEMMA RebuildProducesNothing == Safe /\ Rebuild => NewEvents' = NewEvents
<1> SUFFICES ASSUME Safe, Rebuild PROVE NewEvents' = NewEvents
  OBVIOUS
<1>1. CASE state # NoState
  BY <1>1 DEF Rebuild, NewEvents
<1>2. CASE state = NoState
  <2>1. eventBook \in Book /\ eventBook'.pages = << >>
    BY <1>2 DEF Rebuild, Safe, TypeOK, Book
  <2> QED
    BY <1>2, <2>1 DEF NewEvents
<1> QED
  BY <1>1, <1>2

\* Every step maps to a step of the contract or to a stutter.
LEMMA ContractStep ==
  Safe /\ Safe' /\ [Next]_vars => [Contract!Next]_(Contract!contractVars)
<1> SUFFICES ASSUME Safe, Safe', [Next]_vars
             PROVE  Contract!Next \/ UNCHANGED <<history, NewEvents, reply>>
  BY DEF Contract!contractVars
<1>1. CASE Serve
  <2>1. history' \in Histories /\ state' = NoState /\ reply' = Contract!NoReply
    BY <1>1 DEF Serve
  <2> QED
    BY <2>1 DEF Contract!Next, Contract!Begin, NewEvents
<1>2. CASE ServeNothing \/ HandleMalformed \/ HandlerFails
  <2>1. \E code \in Codes : reply' = Contract!ErrorReply(code)
    BY <1>2 DEF ServeNothing, HandleMalformed, HandlerFails, Codes
  <2>2. UNCHANGED <<history, eventBook, state>>
    BY <1>2 DEF ServeNothing, HandleMalformed, HandlerFails, ghosts
  <2>3. UNCHANGED <<history, NewEvents>>
    BY <2>2 DEF NewEvents
  <2> QED
    BY <2>1, <2>3 DEF Contract!Next, Contract!Refuse
<1>3. CASE ReadState \/ AskExists \/ HandleCommand \/ HandleRejection
  <2>1. Rebuild /\ UNCHANGED <<history, reply>>
    BY <1>3 DEF ReadState, AskExists, HandleCommand, HandleRejection, ghosts
  <2> QED
    BY <2>1, RebuildProducesNothing
<1>4. CASE DelegateRejection
  <2>1. UNCHANGED <<history, eventBook, state>> /\ reply' = Contract!DelegateReply
    BY <1>4 DEF DelegateRejection, ghosts
  <2>2. NewEvents' = NewEvents
    BY <2>1 DEF NewEvents
  <2>3. NewEvents = recorded /\ recorded \in Seq(Event)
    BY NewEventsAreRecorded DEF Safe, TypeOK
  <2>4. << >> \in Batches /\ NewEvents' = NewEvents \o << >>
    BY <2>2, <2>3, HandlerAssumption DEF Batches, BoundedSeq, SeqOf
  <2> QED
    BY <2>1, <2>4 DEF Contract!Next, Contract!Compensate
<1>5. CASE HandlerReturns \/ RejectionReturns
  <2>1. PICK packed \in Batches :
          /\ pc \in {"handling", "rejecting"}
          /\ Record(packed)
          /\ \/ reply' = Contract!EventsReply(eventBook'.pages)
             \/ /\ RejectionReturns
                /\ reply' \in {Contract!DelegateReply, Contract!OwnReply}
          /\ recorded' = recorded \o packed
          /\ UNCHANGED history
    <3>1. CASE HandlerReturns
      BY <3>1 DEF HandlerReturns
    <3>2. CASE RejectionReturns
      BY <3>2 DEF RejectionReturns
    <3> QED
      BY <1>5, <3>1, <3>2
  <2>2. state' # NoState
    <3>1. state # NoState /\ state \in State /\ nextSeq \in Nat
      BY <2>1 DEF Safe, TypeOK
    <3>2. packed \in Seq(Event)
      BY BatchType
    <3>3. Numbered(nextSeq, packed) \in Seq(Page)
      BY <3>1, <3>2, NumberedType
    <3>4. state' = ApplyPages(state, Numbered(nextSeq, packed))
      BY <2>1, <3>1 DEF Record
    <3> QED
      BY <3>1, <3>3, <3>4, ApplyPagesType, HandlerAssumption
  <2>3. NewEvents = recorded /\ NewEvents' = recorded'
        /\ eventBook'.pages = Numbered(Len(history'), NewEvents')
    <3>1. (Safe => /\ NewEvents = recorded
                   /\ state # NoState =>
                        eventBook.pages = Numbered(Len(history), NewEvents))'
      BY NewEventsAreRecorded, PTL
    <3> QED
      BY <2>2, <3>1, NewEventsAreRecorded
  <2>4. NewEvents' = NewEvents \o packed
        /\ Contract!EventsReply(eventBook'.pages)
             = Contract!EventsReply(Contract!Numbered(Len(history), NewEvents'))
    BY <2>1, <2>3, SameNumbering
  <2>5. CASE reply' = Contract!EventsReply(eventBook'.pages)
    BY <2>1, <2>4, <2>5 DEF Contract!Next, Contract!Accept
  <2>6. CASE reply' \in {Contract!DelegateReply, Contract!OwnReply}
    BY <2>1, <2>4, <2>6 DEF Contract!Next, Contract!Compensate
  <2> QED
    BY <2>1, <2>5, <2>6
<1>6. CASE Discard \/ UNCHANGED vars
  BY <1>6 DEF Discard, vars, ghosts, NewEvents
<1> QED
  BY <1>1, <1>2, <1>3, <1>4, <1>5, <1>6 DEF Next

\* The handler implements its contract: each step of it is one of the
\* contract or changes nothing the contract speaks of.
THEOREM Implements == Spec => ContractImplemented
<1>1. Spec => []Safe
  BY AlwaysSafe
<1> QED
  BY <1>1, ContractInit, ContractStep, PTL
     DEF Spec, ContractImplemented, Contract!Spec
===============================================================================
