---------------------------- MODULE ReadSideProofs ----------------------------
(***************************************************************************)
(* Proofs about ReadSide for any number of events, failures and attempts,  *)
(* any registration of handlers and any way the framework cuts the log     *)
(* into books: its type invariant, that a projector misses no event and    *)
(* makes none up, that nothing is repeated without a cause, that a client's *)
(* copy is the beginning of the log, that the sequence a projection        *)
(* reports does not go back, and that readers who caught up agree.         *)
(***************************************************************************)
EXTENDS ReadSide, SequenceTheorems, FiniteSetTheorems, TLAPS

\* The book under way is one of the root's, read up to the cursor.
BookUnderWay ==
  /\ book = Idle => cursor = 1 /\ response = << >> /\ withheld = {}
  /\ book # Idle => /\ book.first <= cursor /\ cursor <= book.stop + 1
                    /\ book.stop <= book.last
                    /\ ~book.speculative => book.first = next

Answered == {response[n] : n \in DOMAIN response}

\* The pages behind the cursor have had their effect, or will when the answer
\* is taken, or their handlers withheld it.
NoneMissed ==
  /\ ProjectedAtLeastOnce
  /\ book # Idle => \A i \in book.first..cursor - 1 :
       Handles(CurrentType(i)) => Current(i) \in Happened \cup Answered \/ i \in withheld

Ordered(pages) == \A m, n \in DOMAIN pages : m < n => pages[m].at <= pages[n].at

(***************************************************************************)
(* Cloud events wait in the response, those published are of events before *)
(* the book.  The effects of ProjectorBase follow the cursor, as long as   *)
(* nothing is interrupted or speculative.                                  *)
(***************************************************************************)
InOrder ==
  /\ projector = "ProjectorBase" => response = << >>
  /\ extra = 0 => ~book.speculative
  /\ projector = "CloudEventsRouter" =>
       /\ Ordered(effects) /\ Ordered(response)
       /\ \A n \in DOMAIN effects : effects[n].at < next
       /\ \A n \in DOMAIN response : response[n].at \in book.first..cursor - 1
  /\ projector = "ProjectorBase" /\ extra = 0 =>
       /\ Ordered(effects)
       /\ \A n \in DOMAIN effects : effects[n].at < IF book = Idle THEN next ELSE cursor

\* How often the event at i is in a sequence of pages.
Count(pages, i) == Cardinality({n \in DOMAIN pages : pages[n].at = i})

Names(i) == Cardinality(Publications(CurrentType(i)))

\* The runs of the handler of the event at i that are accounted for: the one
\* that is answered or will be, and one for each call that is not.  That of a
\* speculative call under way is still to come for the pages ahead.
Due(i) == IF i < next \/ (book # Idle /\ ~book.speculative /\ i < cursor) THEN 1 ELSE 0
Ahead(i) == IF book # Idle /\ book.speculative /\ i >= cursor THEN 1 ELSE 0

Accounted ==
  /\ \A n \in DOMAIN effects : effects[n].at \in DOMAIN log
  /\ \A n \in DOMAIN response : response[n].at \in DOMAIN log
  /\ projector = "CloudEventsRouter" =>
       \A i \in DOMAIN log : Handles(CurrentType(i)) =>
         Count(effects, i) <= Names(i) /\ Count(response, i) <= Names(i)
  /\ projector = "ProjectorBase" =>
       \A i \in DOMAIN log : Count(effects, i) + Ahead(i) <= extra + Due(i)

ReadInv == TypeOK /\ BookUnderWay /\ NoneMissed /\ InOrder /\ Accounted /\ CopyIsPrefix

-------------------------------------------------------------------------------
(* Sequences *)

\* What is in a concatenation, and where.
LEMMA Concat ==
  ASSUME NEW S, NEW s \in Seq(S), NEW t \in Seq(S)
  PROVE  /\ s \o t \in Seq(S) /\ Len(s \o t) = Len(s) + Len(t)
         /\ \A i \in DOMAIN s : i \in DOMAIN (s \o t) /\ (s \o t)[i] = s[i]
         /\ \A i \in DOMAIN t : Len(s) + i \in DOMAIN (s \o t) /\ (s \o t)[Len(s) + i] = t[i]
         /\ \A i \in DOMAIN (s \o t) :
              \/ i \in DOMAIN s /\ (s \o t)[i] = s[i]
              \/ i > Len(s) /\ i - Len(s) \in DOMAIN t /\ (s \o t)[i] = t[i - Len(s)]
<1>1. /\ s \o t \in Seq(S) /\ Len(s \o t) = Len(s) + Len(t)
      /\ \A i \in 1..Len(s) + Len(t) : (s \o t)[i] = IF i <= Len(s) THEN s[i] ELSE t[i - Len(s)]
  BY ConcatProperties
<1>2. /\ Len(s) \in Nat /\ Len(t) \in Nat
      /\ DOMAIN s = 1..Len(s) /\ DOMAIN t = 1..Len(t)
      /\ DOMAIN (s \o t) = 1..Len(s) + Len(t)
  BY <1>1
<1> QED
  BY <1>1, <1>2

\* Pages in order, followed by later pages in order, are in order.
LEMMA ConcatOrdered ==
  ASSUME NEW s \in Seq(Pages), NEW t \in Seq(Pages), Ordered(s), Ordered(t),
         \A m \in DOMAIN s, n \in DOMAIN t : s[m].at <= t[n].at
  PROVE  Ordered(s \o t)
<1> SUFFICES ASSUME NEW m \in DOMAIN (s \o t), NEW n \in DOMAIN (s \o t), m < n
             PROVE  (s \o t)[m].at <= (s \o t)[n].at
  BY DEF Ordered
<1>1. /\ \/ m \in DOMAIN s /\ (s \o t)[m] = s[m]
         \/ m > Len(s) /\ m - Len(s) \in DOMAIN t /\ (s \o t)[m] = t[m - Len(s)]
      /\ \/ n \in DOMAIN s /\ (s \o t)[n] = s[n]
         \/ n > Len(s) /\ n - Len(s) \in DOMAIN t /\ (s \o t)[n] = t[n - Len(s)]
  BY Concat
<1>2. /\ m \in Nat /\ n \in Nat /\ Len(s) \in Nat /\ DOMAIN s = 1..Len(s)
      /\ Len(t) \in Nat /\ DOMAIN t = 1..Len(t)
  <2>1. s \o t \in Seq(Pages)
    BY Concat
  <2> QED
    BY <2>1
<1>3. CASE n \in DOMAIN s /\ (s \o t)[n] = s[n]
  <2>1. m \in DOMAIN s /\ (s \o t)[m] = s[m]
    BY <1>1, <1>2, <1>3
  <2> QED
    BY <1>3, <2>1 DEF Ordered
<1>4. CASE n - Len(s) \in DOMAIN t /\ (s \o t)[n] = t[n - Len(s)]
  <2>1. CASE m \in DOMAIN s /\ (s \o t)[m] = s[m]
    BY <1>4, <2>1
  <2>2. CASE m - Len(s) \in DOMAIN t /\ (s \o t)[m] = t[m - Len(s)]
    <3>1. m - Len(s) < n - Len(s)
      BY <1>2
    <3> QED
      BY <1>4, <2>2, <3>1 DEF Ordered
  <2> QED
    BY <1>1, <2>1, <2>2
<1> QED
  BY <1>1, <1>3, <1>4

\* The elements of a concatenation.
LEMMA ConcatElements ==
  ASSUME NEW s \in Seq(Pages), NEW t \in Seq(Pages)
  PROVE  {(s \o t)[n] : n \in DOMAIN (s \o t)}
           = {s[n] : n \in DOMAIN s} \cup {t[n] : n \in DOMAIN t}
<1>1. ASSUME NEW i \in DOMAIN (s \o t)
      PROVE  (s \o t)[i] \in {s[n] : n \in DOMAIN s} \cup {t[n] : n \in DOMAIN t}
  <2>1. \/ i \in DOMAIN s /\ (s \o t)[i] = s[i]
        \/ i > Len(s) /\ i - Len(s) \in DOMAIN t /\ (s \o t)[i] = t[i - Len(s)]
    BY Concat
  <2> QED
    BY <2>1
<1>2. ASSUME NEW i \in DOMAIN s
      PROVE  s[i] \in {(s \o t)[n] : n \in DOMAIN (s \o t)}
  <2>1. i \in DOMAIN (s \o t) /\ (s \o t)[i] = s[i]
    BY Concat
  <2> QED
    BY <2>1
<1>3. ASSUME NEW i \in DOMAIN t
      PROVE  t[i] \in {(s \o t)[n] : n \in DOMAIN (s \o t)}
  <2>1. Len(s) + i \in DOMAIN (s \o t) /\ (s \o t)[Len(s) + i] = t[i]
    BY Concat
  <2> QED
    BY <2>1
<1> QED
  BY <1>1, <1>2, <1>3

\* The copies of a page.
LEMMA Copies ==
  ASSUME NEW page \in Pages, NEW k \in Nat
  PROVE  LET t == [n \in 1..k |-> page]
         IN  /\ t \in Seq(Pages) /\ DOMAIN t = 1..k /\ Ordered(t)
             /\ \A n \in DOMAIN t : t[n] = page
             /\ \A i : Count(t, i) = IF page.at = i THEN k ELSE 0
<1> DEFINE t == [n \in 1..k |-> page]
<1>1. t \in Seq(Pages) /\ DOMAIN t = 1..k /\ \A n \in DOMAIN t : t[n] = page
  OBVIOUS
<1>2. Ordered(t)
  <2>1. page.at <= page.at
    BY ReadAssumption DEF Pages
  <2> QED
    BY <1>1, <2>1 DEF Ordered
<1> HIDE DEF t
<1>3. ASSUME NEW i PROVE Count(t, i) = IF page.at = i THEN k ELSE 0
  <2>1. {n \in DOMAIN t : t[n].at = i} = IF page.at = i THEN 1..k ELSE {}
    BY <1>1
  <2>2. Cardinality(1..k) = k /\ Cardinality({}) = 0
    BY FS_Interval, FS_EmptySet
  <2> QED
    BY <2>1, <2>2 DEF Count
<1> QED
  BY <1>1, <1>2, <1>3 DEF t

LEMMA CountFinite ==
  ASSUME NEW s \in Seq(Pages), NEW i
  PROVE  IsFiniteSet({n \in DOMAIN s : s[n].at = i})
<1>1. DOMAIN s = 1..Len(s) /\ Len(s) \in Nat
  OBVIOUS
<1>2. IsFiniteSet(DOMAIN s)
  BY <1>1, FS_Interval
<1> QED
  BY <1>2, FS_Subset

LEMMA CountIsNat ==
  ASSUME NEW s \in Seq(Pages), NEW i
  PROVE  Count(s, i) \in Nat
BY CountFinite, FS_CardinalityType DEF Count

LEMMA CountIsZero ==
  ASSUME NEW s, NEW i, \A n \in DOMAIN s : s[n].at # i
  PROVE  Count(s, i) = 0
<1>1. {n \in DOMAIN s : s[n].at = i} = {}
  OBVIOUS
<1> QED
  BY <1>1, FS_EmptySet DEF Count

\* A concatenation has the pages of both parts.
LEMMA CountConcat ==
  ASSUME NEW s \in Seq(Pages), NEW t \in Seq(Pages), NEW i
  PROVE  Count(s \o t, i) = Count(s, i) + Count(t, i)
<1> DEFINE A == {n \in DOMAIN s : s[n].at = i}
           B == {n \in DOMAIN t : t[n].at = i}
           C == {n \in DOMAIN (s \o t) : (s \o t)[n].at = i}
           shift == [n \in B |-> Len(s) + n]
           D == {Len(s) + n : n \in B}
<1>1. /\ Len(s) \in Nat /\ DOMAIN s = 1..Len(s) /\ Len(t) \in Nat /\ DOMAIN t = 1..Len(t)
  OBVIOUS
<1>2. /\ IsFiniteSet(A) /\ IsFiniteSet(B)
      /\ Cardinality(A) = Count(s, i) /\ Cardinality(B) = Count(t, i)
      /\ Cardinality(C) = Count(s \o t, i)
      /\ Count(s, i) \in Nat /\ Count(t, i) \in Nat
  BY CountFinite, CountIsNat DEF Count
<1>3. C = A \cup D
  <2>1. ASSUME NEW n \in C PROVE n \in A \cup D
    <3>1. \/ n \in DOMAIN s /\ (s \o t)[n] = s[n]
          \/ n > Len(s) /\ n - Len(s) \in DOMAIN t /\ (s \o t)[n] = t[n - Len(s)]
      BY Concat
    <3>2. CASE n \in DOMAIN s /\ (s \o t)[n] = s[n]
      BY <3>2
    <3>3. CASE n - Len(s) \in DOMAIN t /\ (s \o t)[n] = t[n - Len(s)]
      <4>1. n - Len(s) \in B
        BY <3>3
      <4>2. Len(s) + (n - Len(s)) = n
        <5>1. s \o t \in Seq(Pages)
          BY Concat
        <5>2. n \in Nat
          BY <5>1
        <5> QED
          BY <1>1, <5>2
      <4> QED
        BY <4>1, <4>2
    <3> QED
      BY <3>1, <3>2, <3>3
  <2>2. ASSUME NEW n \in A PROVE n \in C
    BY Concat
  <2>3. ASSUME NEW n \in B PROVE Len(s) + n \in C
    BY Concat
  <2> QED
    BY <2>1, <2>2, <2>3
<1>4. A \cap D = {}
  BY <1>1
<1>5. shift \in Bijection(B, D)
  <2>1. \A m, n \in B : m # n => Len(s) + m # Len(s) + n
    BY <1>1
  <2> QED
    BY <2>1 DEF Bijection, Injection, Surjection, IsInjective
<1>6. IsFiniteSet(D) /\ Cardinality(D) = Cardinality(B)
  <2>1. ExistsBijection(B, D)
    BY <1>5 DEF ExistsBijection
  <2> QED
    BY <1>2, <2>1, FS_Bijection
<1>7. Cardinality(A \cup D) = Cardinality(A) + Cardinality(D) - Cardinality(A \cap D)
  BY <1>2, <1>6, FS_Union
<1>8. Cardinality(A \cap D) = 0
  BY <1>4, FS_EmptySet
<1> HIDE DEF A, B, C, D
<1> QED
  BY <1>2, <1>3, <1>6, <1>7, <1>8

-------------------------------------------------------------------------------
(* Pages *)

\* A page of the log, upcast.
LEMMA PageTyped ==
  ASSUME TypeOK, NEW i \in DOMAIN log
  PROVE  /\ Page(i) \in Pages /\ Current(i) \in Pages /\ UpcastPage(Page(i)) = Current(i)
         /\ Current(i).at = i /\ Current(i).type = CurrentType(i)
         /\ i \in 1..Len(log) /\ i \in 1..MaxEvents
<1>1. /\ log[i] \in Type \cup {Absent} /\ i \in 1..Len(log) /\ i \in 1..MaxEvents
  BY ReadAssumption DEF TypeOK
<1>2. CurrentType(i) \in Type \cup {Absent}
  BY <1>1, ReadAssumption DEF CurrentType
<1> QED
  BY <1>1, <1>2 DEF Page, Pages, Current, UpcastPage, CurrentType

\* An event is published at most once for each name it is registered by.
LEMMA PublicationsFinite ==
  ASSUME NEW type
  PROVE  IsFiniteSet(Publications(type)) /\ Cardinality(Publications(type)) \in Nat
<1>1. {"exact", "suffix"} = {"exact"} \cup {"suffix"}
  OBVIOUS
<1>2. IsFiniteSet({"exact"}) /\ IsFiniteSet({"suffix"})
  BY FS_Singleton
<1>3. IsFiniteSet({"exact", "suffix"})
  BY <1>1, <1>2, FS_Union
<1>4. Publications(type) \in SUBSET {"exact", "suffix"}
  BY DEF Publications
<1> QED
  BY <1>3, <1>4, FS_Subset, FS_CardinalityType

LEMMA PublicationCount ==
  ASSUME NEW type, NEW made \in Made(type)
  PROVE  /\ Cardinality(made) \in Nat
         /\ Cardinality(made) <= Cardinality(Publications(type))
         /\ Cardinality(made) = 0 <=> made = {}
<1>1. made \in SUBSET Publications(type)
  BY DEF Made
<1>2. IsFiniteSet(made) /\ Cardinality(made) <= Cardinality(Publications(type))
  BY <1>1, PublicationsFinite, FS_Subset
<1>3. Cardinality(made) \in Nat /\ (Cardinality(made) = 0 <=> made = {})
  BY <1>2, FS_CardinalityType, FS_EmptySet
<1> QED
  BY <1>2, <1>3

(***************************************************************************)
(* What a step of the projector's loop does: copies of the page have their *)
(* effect, or are put in the response, if it is handled.                   *)
(***************************************************************************)
LEMMA StepShape ==
  ASSUME TypeOK, Step
  PROVE  /\ cursor \in DOMAIN log /\ cursor <= book.stop
         /\ cursor' = cursor + 1 /\ lastSeq' \in {cursor, lastSeq}
         /\ book' \in {book, [book EXCEPT !.stop = cursor, !.own = TRUE]}
         /\ UNCHANGED <<log, projector, next, skipped, reported, extra, reader, failures>>
         /\ LET page == Current(cursor)
            IN  \/ ~Handles(page.type) /\ UNCHANGED <<effects, response, withheld>>
                \/ /\ Handles(page.type)
                   /\ \E k \in Nat :
                        \/ /\ projector = "CloudEventsRouter" /\ k <= Names(cursor)
                           /\ effects' = effects /\ response' = response \o [n \in 1..k |-> page]
                           /\ withheld' = IF k = 0 THEN withheld \cup {cursor} ELSE withheld
                        \/ /\ projector = "ProjectorBase" /\ k = 1
                           /\ effects' = effects \o [n \in 1..k |-> page] /\ response' = response
                           /\ withheld' = withheld
<1> DEFINE page == Current(cursor)
<1>1. /\ cursor <= book.stop /\ cursor \in Nat \ {0} /\ book.stop \in 0..Len(log)
      /\ projector \in {"ProjectorBase", "CloudEventsRouter"}
  BY DEF Step, TypeOK, Projectors
<1>2. cursor \in DOMAIN log
  BY <1>1 DEF TypeOK
<1>3. /\ page = UpcastPage(Page(cursor)) /\ page.at = cursor /\ page \in Pages
      /\ page.type = CurrentType(cursor)
  BY <1>2, PageTyped
<1> HIDE DEF page
<1>4. /\ IF Handles(page.type) THEN HandlePage(page) ELSE PassPage
      /\ cursor' = cursor + 1 /\ lastSeq' = LastSequence(page)
      /\ UNCHANGED <<log, projector, next, skipped, reported, extra, reader, failures>>
  BY <1>3 DEF Step
<1>5. CASE ~Handles(page.type)
  BY <1>1, <1>2, <1>3, <1>4, <1>5 DEF PassPage, LastSequence, page
<1>6. CASE Handles(page.type)
  <2>1. CASE projector = "CloudEventsRouter"
    <3>1. PICK made \in Made(page.type) :
            /\ response' = response \o [n \in 1..Cardinality(made) |-> page]
            /\ withheld' = IF made = {} THEN withheld \cup {cursor} ELSE withheld
            /\ UNCHANGED <<book, effects>>
      BY <1>4, <1>6, <2>1 DEF HandlePage
    <3>2. /\ Cardinality(made) \in Nat /\ Cardinality(made) <= Names(cursor)
          /\ Cardinality(made) = 0 <=> made = {}
      <4>1. /\ Cardinality(made) \in Nat
            /\ Cardinality(made) <= Cardinality(Publications(page.type))
            /\ Cardinality(made) = 0 <=> made = {}
        BY PublicationCount
      <4>2. Names(cursor) = Cardinality(Publications(page.type))
        BY <1>3 DEF Names
      <4> QED
        BY <4>1, <4>2
    <3> QED
      BY <1>1, <1>2, <1>3, <1>4, <1>6, <2>1, <3>1, <3>2 DEF LastSequence, page
  <2>2. CASE projector = "ProjectorBase"
    <3>1. /\ effects' = effects \o <<page>> /\ response' = response /\ withheld' = withheld
          /\ book' \in {book, [book EXCEPT !.stop = cursor, !.own = TRUE]}
      BY <1>4, <1>6, <2>2 DEF HandlePage, Ran
    <3>2. <<page>> = [n \in 1..1 |-> page] /\ 1 \in Nat
      OBVIOUS
    <3> QED
      BY <1>1, <1>2, <1>3, <1>4, <1>6, <2>2, <3>1, <3>2 DEF LastSequence, page
  <2> QED
    BY <1>1, <2>1, <2>2
<1> QED
  BY <1>5, <1>6

-------------------------------------------------------------------------------
(* The steps *)

LEMMA InitRead == Init => ReadInv
<1> SUFFICES ASSUME Init PROVE ReadInv
  OBVIOUS
<1>1. TypeOK
  BY ReadAssumption DEF Init, TypeOK, Idle, Projectors
<1> QED
  BY <1>1 DEF Init, ReadInv, BookUnderWay, NoneMissed, ProjectedAtLeastOnce, InOrder,
              Accounted, Ordered, CopyIsPrefix, Idle

\* The log only grows: what was there keeps its place and type.
LEMMA StoreRead ==
  ASSUME ReadInv, NEW type \in Type \cup {Absent}, Store(type)
  PROVE  ReadInv'
<1> USE ReadAssumption
<1>1. /\ TypeOK /\ log \in Seq(Type \cup {Absent}) /\ Len(log) < MaxEvents
      /\ log' = log \o <<type>>
      /\ UNCHANGED <<projector, next, book, cursor, lastSeq, withheld, effects, response, skipped,
                     reported, extra, conn, attempt, copy, failures>>
  BY DEF Store, projection, reader, ReadInv, TypeOK
<1>2. /\ log' \in Seq(Type \cup {Absent}) /\ Len(log') = Len(log) + 1
      /\ \A i \in DOMAIN log : i \in DOMAIN log' /\ log'[i] = log[i]
      /\ Len(log) \in Nat /\ DOMAIN log = 1..Len(log)
  <2>1. <<type>> \in Seq(Type \cup {Absent}) /\ Len(<<type>>) = 1
    OBVIOUS
  <2>2. /\ log' \in Seq(Type \cup {Absent}) /\ Len(log') = Len(log) + 1
        /\ \A i \in DOMAIN log : i \in DOMAIN log' /\ log'[i] = log[i]
    BY <1>1, <2>1, Concat
  <2> QED
    BY <1>1, <2>2
<1>3. TypeOK'
  BY <1>1, <1>2 DEF TypeOK
<1>4. BookUnderWay' /\ InOrder'
  BY <1>1 DEF ReadInv, BookUnderWay, InOrder
<1>5. \A i \in DOMAIN log : CurrentType(i)' = CurrentType(i) /\ Current(i)' = Current(i)
  BY <1>2 DEF CurrentType, Current
<1>6. \A x : Handles(x)' = Handles(x)
  BY <1>1 DEF Handles
<1>7. /\ \A i \in 1..next - 1 : i \in DOMAIN log
      /\ book # Idle => \A i \in book.first..cursor - 1 : i \in DOMAIN log
  <2>1. /\ next \in 1..Len(log) + 1 /\ cursor \in 1..Len(log) + 1
        /\ book.first \in 1..MaxEvents
    BY <1>1 DEF TypeOK
  <2> QED
    BY <1>2, <2>1
<1>8. NoneMissed'
  BY <1>1, <1>5, <1>6, <1>7 DEF ReadInv, NoneMissed, ProjectedAtLeastOnce, Happened, Answered
<1>9. CopyIsPrefix'
  <2>1. \A i \in DOMAIN copy : i \in DOMAIN log
    BY <1>1, <1>2 DEF ReadInv, CopyIsPrefix, TypeOK
  <2> QED
    BY <1>1, <1>2, <2>1 DEF ReadInv, CopyIsPrefix, Page
<1>10. Accounted'
  <2>1. /\ \A i \in DOMAIN log' : i \in DOMAIN log \/ i = Len(log) + 1
        /\ Len(log) + 1 \notin DOMAIN log /\ next < Len(log) + 2
        /\ effects \in Seq(Pages) /\ response \in Seq(Pages) /\ extra \in Nat
    <3>1. next \in 1..Len(log) + 1 /\ failures \in 0..MaxFailures /\ extra \in 0..failures
      BY <1>1 DEF TypeOK
    <3>2. effects \in Seq(Pages) /\ response \in Seq(Pages)
      BY <1>1 DEF TypeOK
    <3>3. DOMAIN log' = 1..Len(log) + 1
      BY <1>2
    <3> QED
      BY <1>2, <3>1, <3>2, <3>3
  <2>2. \A i \in DOMAIN log : Names(i)' = Names(i)
    BY <1>5 DEF Names, Publications
  <2>3. Count(effects, Len(log) + 1) = 0 /\ Count(response, Len(log) + 1) = 0
    <3>1. /\ \A n \in DOMAIN effects : effects[n].at # Len(log) + 1
          /\ \A n \in DOMAIN response : response[n].at # Len(log) + 1
      BY <2>1 DEF ReadInv, Accounted
    <3> QED
      BY <3>1, CountIsZero
  <2>4. \A i : /\ Count(effects, i)' = Count(effects, i) /\ Count(response, i)' = Count(response, i)
               /\ Ahead(i)' = Ahead(i) /\ Due(i)' = Due(i)
    BY <1>1 DEF Count, Ahead, Due
  <2>5. \A i : Names(i)' \in Nat
    <3>1. \A t : Cardinality(Publications(t)) \in Nat
      BY PublicationsFinite
    <3> QED
      BY <3>1 DEF Names, Publications
  <2>6. CASE projector = "CloudEventsRouter"
    <3> SUFFICES ASSUME NEW i \in DOMAIN log', Handles(CurrentType(i))'
                 PROVE  Count(effects, i)' <= Names(i)' /\ Count(response, i)' <= Names(i)'
      BY <1>1, <1>2, <2>6 DEF ReadInv, Accounted
    <3>1. CASE i \in DOMAIN log
      BY <1>5, <1>6, <2>2, <2>4, <2>6, <3>1 DEF ReadInv, Accounted
    <3>2. CASE i = Len(log) + 1
      BY <2>3, <2>4, <2>5, <3>2
    <3> QED
      BY <2>1, <3>1, <3>2
  <2>7. CASE projector # "CloudEventsRouter"
    <3> SUFFICES ASSUME NEW i \in DOMAIN log', projector = "ProjectorBase"
                 PROVE  Count(effects, i)' + Ahead(i)' <= extra + Due(i)'
      BY <1>1, <1>2, <2>7 DEF ReadInv, Accounted
    <3>1. CASE i \in DOMAIN log
      BY <2>4, <3>1 DEF ReadInv, Accounted
    <3>2. CASE i = Len(log) + 1
      <4>1. Ahead(i) <= extra /\ Due(i) \in Nat /\ Ahead(i) \in Nat
        BY <2>1 DEF ReadInv, InOrder, Ahead, Due
      <4>2. extra \in Nat /\ Count(effects, i)' = 0 /\ Ahead(i)' = Ahead(i) /\ Due(i)' = Due(i)
        BY <2>1, <2>3, <2>4, <3>2
      <4>3. Due(i) >= 0 /\ 0 + Ahead(i) <= extra + Due(i)
        BY <4>1, <4>2
      <4> QED
        BY <4>2, <4>3
    <3> QED
      BY <2>1, <3>1, <3>2
  <2> QED
    BY <2>6, <2>7
<1> QED
  BY <1>3, <1>4, <1>8, <1>9, <1>10 DEF ReadInv

\* What only the log, the projector, the effects and the copy can change.
LEMMA SameView ==
  ASSUME UNCHANGED <<log, projector>>
  PROVE  /\ \A i : CurrentType(i)' = CurrentType(i) /\ Current(i)' = Current(i)
         /\ \A i : Page(i)' = Page(i) /\ UpcastPage(Page(i))' = UpcastPage(Page(i))
         /\ \A x : Handles(x)' = Handles(x)
         /\ \A i : Names(i)' = Names(i) /\ Names(i) \in Nat
<1>1. \A type : Cardinality(Publications(type)) \in Nat
  BY PublicationsFinite
<1> QED
  BY <1>1 DEF CurrentType, Current, Page, UpcastPage, Handles, Names

\* What nobody's handler is called for.
LEMMA SameCounts ==
  ASSUME UNCHANGED effects
  PROVE  \A i : Count(effects, i)' = Count(effects, i)
BY DEF Count

\* An empty answer.
LEMMA NoCounts ==
  ASSUME response' = << >>
  PROVE  /\ \A i : Count(response, i)' = 0
         /\ DOMAIN response' = {}
<1>1. DOMAIN << >> = {}
  OBVIOUS
<1> QED
  BY <1>1, FS_EmptySet DEF Count

\* The framework gives the projector a book, or pages to speculate on.
LEMMA DeliverRead ==
  ASSUME ReadInv, NEW first \in 1..Len(log) + 1, NEW last \in 1..Len(log),
         NEW speculative \in BOOLEAN, Deliver(first, last, speculative)
  PROVE  ReadInv'
<1> USE ReadAssumption
<1> DEFINE new == [first |-> first, last |-> last, stop |-> last, own |-> FALSE,
                   speculative |-> speculative]
<1>1. /\ TypeOK /\ book = Idle
      /\ first \in 1..next /\ last \in first..Len(log)
      /\ book' = new /\ cursor' = first /\ lastSeq' = 1 /\ response' = << >> /\ withheld' = {}
      /\ UNCHANGED <<log, projector, next, effects, skipped, reported, conn, attempt, copy>>
      /\ \/ /\ speculative /\ failures' = failures + 1 /\ failures < MaxFailures
            /\ extra' = extra + 1
         \/ /\ ~speculative /\ first = next /\ failures' = failures
            /\ extra' = extra
  BY DEF Deliver, Failure, reader, ReadInv
<1>2. /\ new.first = first /\ new.last = last /\ new.stop = last
      /\ new.speculative = speculative /\ new # Idle
      /\ Len(log) \in Nat /\ Len(log) <= MaxEvents /\ next \in 1..Len(log) + 1
      /\ failures \in 0..MaxFailures /\ extra \in 0..failures
  BY <1>1 DEF Idle, TypeOK
<1>3. TypeOK'
  <2>1. new \in [first : 1..MaxEvents, last : 0..Len(log), stop : 0..Len(log),
                 own : BOOLEAN, speculative : BOOLEAN]
    BY <1>1, <1>2
  <2> QED
    BY <1>1, <1>2, <2>1, SMTT(30) DEF TypeOK
<1> HIDE DEF new
<1>4. BookUnderWay'
  BY <1>1, <1>2 DEF BookUnderWay
<1>5. NoneMissed'
  BY <1>1, <1>2, SameView DEF ReadInv, NoneMissed, ProjectedAtLeastOnce, Happened
<1>6. InOrder'
  BY <1>1, <1>2 DEF ReadInv, InOrder, Ordered
<1>7. CopyIsPrefix'
  BY <1>1, SameView DEF ReadInv, CopyIsPrefix
<1>8. Accounted'
  <2>1. CASE projector = "CloudEventsRouter"
    BY <1>1, <2>1, SameView, SameCounts, NoCounts DEF ReadInv, Accounted
  <2>2. CASE projector # "CloudEventsRouter"
    <3> SUFFICES ASSUME NEW i \in DOMAIN log, projector = "ProjectorBase"
                 PROVE  Count(effects, i) + Ahead(i)' <= extra' + Due(i)'
      BY <1>1, <2>2, SameCounts, NoCounts DEF ReadInv, Accounted
    <3>1. Count(effects, i) + Ahead(i) <= extra + Due(i) /\ Ahead(i) = 0
      BY <1>1 DEF ReadInv, Accounted, Ahead
    <3>2. Count(effects, i) \in Nat /\ extra \in Nat /\ Due(i) \in Nat
      <4>1. effects \in Seq(Pages) /\ failures \in Nat /\ extra \in 0..failures
        BY <1>1, <1>2 DEF TypeOK
      <4> QED
        BY <4>1, CountIsNat DEF Due
    <3>3. CASE speculative
      <4>1. Due(i)' = Due(i) /\ Ahead(i)' \in {0, 1}
        BY <1>1, <1>2, <3>3 DEF Due, Ahead
      <4> QED
        BY <1>1, <3>1, <3>2, <3>3, <4>1
    <3>4. CASE ~speculative
      <4>1. Due(i)' = Due(i) /\ Ahead(i)' = 0
        BY <1>1, <1>2, <3>4 DEF Due, Ahead
      <4> QED
        BY <1>1, <3>1, <3>2, <3>4, <4>1
    <3> QED
      BY <3>3, <3>4
  <2> QED
    BY <2>1, <2>2
<1> QED
  BY <1>3, <1>4, <1>5, <1>6, <1>7, <1>8 DEF ReadInv

\* The projector's loop goes on by one page.
LEMMA StepRead ==
  ASSUME ReadInv, Step
  PROVE  ReadInv'
<1> USE ReadAssumption
<1> DEFINE page == Current(cursor)
<1>1. /\ TypeOK
      /\ cursor \in DOMAIN log /\ cursor <= book.stop
      /\ cursor' = cursor + 1 /\ lastSeq' \in {cursor, lastSeq}
      /\ book' \in {book, [book EXCEPT !.stop = cursor, !.own = TRUE]}
      /\ UNCHANGED <<log, projector, next, skipped, reported, extra, conn, attempt, copy, failures>>
  BY StepShape DEF ReadInv, reader
<1>2. PICK k \in Nat :
        \/ ~Handles(page.type) /\ UNCHANGED <<effects, response, withheld>>
        \/ /\ projector = "CloudEventsRouter" /\ k <= Names(cursor)
           /\ effects' = effects /\ response' = response \o [n \in 1..k |-> page]
           /\ withheld' = IF k = 0 THEN withheld \cup {cursor} ELSE withheld
        \/ /\ projector = "ProjectorBase" /\ k = 1
           /\ effects' = effects \o [n \in 1..k |-> page] /\ response' = response
           /\ withheld' = withheld
  <2>1. 0 \in Nat
    OBVIOUS
  <2> QED
    BY <2>1, StepShape DEF ReadInv
<1> DEFINE t == [n \in 1..k |-> page]
<1>2a. /\ page \in Pages /\ page.at = cursor /\ page.type = CurrentType(cursor)
       /\ cursor \in 1..Len(log) /\ cursor \in 1..MaxEvents
       /\ effects \in Seq(Pages) /\ response \in Seq(Pages)
       /\ Len(log) \in Nat /\ next \in 1..Len(log) + 1
       /\ withheld \subseteq DOMAIN log
  <2>1. /\ page \in Pages /\ page.at = cursor /\ page.type = CurrentType(cursor)
        /\ cursor \in 1..Len(log) /\ cursor \in 1..MaxEvents
    BY <1>1, PageTyped
  <2>2. /\ effects \in Seq(Pages) /\ response \in Seq(Pages)
        /\ log \in Seq(Type \cup {Absent}) /\ next \in 1..Len(log) + 1
        /\ withheld \subseteq DOMAIN log
    BY <1>1 DEF TypeOK
  <2> HIDE DEF page
  <2> QED
    BY <2>1, <2>2
<1> HIDE DEF page
<1>2b. /\ t \in Seq(Pages) /\ DOMAIN t = 1..k /\ Ordered(t)
       /\ \A n \in DOMAIN t : t[n] = page
       /\ \A i : Count(t, i) = IF cursor = i THEN k ELSE 0
  BY <1>2a, Copies
<1>2c. \/ ~Handles(page.type) /\ effects' = effects /\ response' = response /\ withheld' = withheld
       \/ /\ projector = "CloudEventsRouter" /\ k <= Names(cursor)
          /\ effects' = effects /\ response' = response \o t
          /\ withheld' = IF k = 0 THEN withheld \cup {cursor} ELSE withheld
       \/ /\ projector = "ProjectorBase" /\ k = 1
          /\ effects' = effects \o t /\ response' = response /\ withheld' = withheld
  BY <1>2
<1> HIDE DEF t
<1> DEFINE Book == [first : 1..MaxEvents, last : 0..Len(log), stop : 0..Len(log),
                    own : BOOLEAN, speculative : BOOLEAN]
<1>3. /\ book \in Book /\ book' \in Book
      /\ book'.first = book.first /\ book'.last = book.last
      /\ book'.speculative = book.speculative
      /\ book'.stop \in {book.stop, cursor}
  <2>1. book \in Book
    BY <1>1 DEF TypeOK
  <2>2. CASE book' = book
    BY <2>1, <2>2
  <2>3. CASE book' = [book EXCEPT !.stop = cursor, !.own = TRUE]
    <3>1. cursor \in 0..Len(log)
      BY <1>2a
    <3>2. book' = [book EXCEPT !.stop = cursor, !.own = TRUE]
      BY <2>3
    <3>3. /\ book'.first = book.first /\ book'.last = book.last
          /\ book'.speculative = book.speculative /\ book'.stop = cursor
      BY <2>1, <3>2
    <3>4. book' \in Book
      BY <2>1, <3>1, <3>2
    <3> QED
      BY <2>1, <3>3, <3>4
  <2> QED
    BY <1>1, <2>2, <2>3
<1>4. book # Idle /\ book' # Idle
  <2>1. book.stop \in 0..Len(log)
    BY <1>3
  <2>2. cursor > 0 /\ cursor \in Nat /\ Len(log) \in Nat
    BY <1>2a
  <2>3. book.stop > 0
    BY <1>1, <2>1, <2>2
  <2>4. book'.stop > 0
    BY <1>3, <2>2, <2>3
  <2>5. Idle.stop = 0
    BY DEF Idle
  <2> QED
    BY <2>3, <2>4, <2>5
<1>5. effects' \in Seq(Pages) /\ response' \in Seq(Pages) /\ withheld' \subseteq DOMAIN log
  <2>1. effects \o t \in Seq(Pages) /\ response \o t \in Seq(Pages)
    BY <1>2a, <1>2b, Concat
  <2> QED
    BY <1>1, <1>2a, <1>2c, <2>1
<1>6. TypeOK'
  <2>1. cursor' \in 1..Len(log) + 1 /\ lastSeq' \in 1..MaxEvents
    <3>1. lastSeq \in 1..MaxEvents
      BY <1>1 DEF TypeOK
    <3> QED
      BY <1>1, <1>2a, <3>1, SMTT(30)
  <2> QED
    BY <1>1, <1>2a, <1>3, <1>5, <2>1 DEF TypeOK
<1>7. BookUnderWay'
  <2>1. /\ book.first <= cursor /\ book.stop <= book.last
        /\ ~book.speculative => book.first = next
    BY <1>4 DEF ReadInv, BookUnderWay
  <2>2. book'.first <= cursor' /\ cursor' <= book'.stop + 1 /\ book'.stop <= book'.last
    BY <1>1, <1>2a, <1>3, <2>1, SMTT(30)
  <2> QED
    BY <1>1, <1>3, <1>4, <2>1, <2>2 DEF BookUnderWay
<1>8. /\ Happened \subseteq Happened' /\ Answered \subseteq Answered' /\ withheld \subseteq withheld'
      /\ Handles(page.type) => page \in Happened' \cup Answered' \/ cursor \in withheld'
  <2>1. k # 0 => page \in {t[n] : n \in DOMAIN t}
    <3>1. k # 0 => 1 \in DOMAIN t
      BY <1>2b
    <3> QED
      BY <1>2b, <3>1
  <2>3. {(effects \o t)[n] : n \in DOMAIN (effects \o t)} = Happened \cup {t[n] : n \in DOMAIN t}
    BY <1>2a, <1>2b, ConcatElements DEF Happened
  <2>4. {(response \o t)[n] : n \in DOMAIN (response \o t)} = Answered \cup {t[n] : n \in DOMAIN t}
    BY <1>2a, <1>2b, ConcatElements DEF Answered
  <2>5. CASE ~Handles(page.type) /\ effects' = effects /\ response' = response /\ withheld' = withheld
    BY <2>5 DEF Happened, Answered
  <2>6. CASE k = 1 /\ effects' = effects \o t /\ response' = response /\ withheld' = withheld
    <3>1. page \in {t[n] : n \in DOMAIN t}
      BY <2>1, <2>6
    <3> QED
      BY <2>3, <2>6, <3>1, ZenonT(30) DEF Happened, Answered
  <2>7. CASE /\ effects' = effects /\ response' = response \o t
             /\ withheld' = IF k = 0 THEN withheld \cup {cursor} ELSE withheld
    <3>1. Happened' = Happened /\ Answered' = Answered \cup {t[n] : n \in DOMAIN t}
      BY <2>4, <2>7, ZenonT(30) DEF Happened, Answered
    <3> QED
      BY <2>1, <2>7, <3>1
  <2> QED
    BY <1>2c, <2>5, <2>6, <2>7
<1>9. NoneMissed'
  <2>1. ProjectedAtLeastOnce'
    BY <1>1, <1>8, SameView DEF ReadInv, NoneMissed, ProjectedAtLeastOnce
  <2>2. ASSUME NEW i \in book.first..cursor, Handles(CurrentType(i))
        PROVE  Current(i) \in Happened' \cup Answered' \/ i \in withheld'
    <3>1. CASE i = cursor
      BY <1>2a, <1>8, <2>2, <3>1 DEF page
    <3>2. CASE i # cursor
      <4>1. i \in book.first..cursor - 1
        BY <1>2a, <1>3, <3>2
      <4> QED
        BY <1>4, <1>8, <2>2, <4>1 DEF ReadInv, NoneMissed
    <3> QED
      BY <3>1, <3>2
  <2>3. cursor' - 1 = cursor
    BY <1>1, <1>2a
  <2> QED
    BY <1>1, <1>3, <2>1, <2>2, <2>3, SameView DEF NoneMissed
<1>10. /\ book.first \in Nat /\ cursor \in Nat /\ book.first <= cursor
       /\ book'.first = book.first /\ cursor' = cursor + 1 /\ cursor' - 1 = cursor
       /\ \A n \in DOMAIN t : t[n].at = cursor
  <2>1. book.first <= cursor
    BY <1>4 DEF ReadInv, BookUnderWay
  <2>2. cursor \in Nat /\ book.first \in 1..MaxEvents
    BY <1>2a, <1>3
  <2>3. \A n \in DOMAIN t : t[n].at = cursor
    BY <1>2a, <1>2b
  <2> QED
    BY <1>1, <1>3, <2>1, <2>2, <2>3
<1>11. InOrder'
  <2>1. CASE projector = "CloudEventsRouter"
    <3>1. effects' = effects /\ (response' = response \/ response' = response \o t)
      BY <1>2c, <2>1
    <3>2. /\ Ordered(response)
          /\ \A n \in DOMAIN response : response[n].at \in book.first..cursor - 1
      BY <2>1 DEF ReadInv, InOrder
    <3>3. \A m \in DOMAIN response, n \in DOMAIN t : response[m].at <= t[n].at
      BY <1>10, <3>2
    <3>4. Ordered(response \o t)
      BY <1>2a, <1>2b, <3>2, <3>3, ConcatOrdered
    <3>5. \A n \in DOMAIN response' : response'[n].at \in book.first..cursor
      <4>1. CASE response' = response
        BY <1>10, <3>2, <4>1
      <4>2. CASE response' = response \o t
        <5> SUFFICES ASSUME NEW n \in DOMAIN response'
                     PROVE  response'[n].at \in book.first..cursor
          OBVIOUS
        <5>1. \/ n \in DOMAIN response /\ response'[n] = response[n]
              \/ n - Len(response) \in DOMAIN t /\ response'[n] = t[n - Len(response)]
          BY <1>2a, <1>2b, <4>2, Concat
        <5>2. CASE n \in DOMAIN response /\ response'[n] = response[n]
          BY <1>10, <3>2, <5>2
        <5>3. CASE n - Len(response) \in DOMAIN t /\ response'[n] = t[n - Len(response)]
          BY <1>10, <5>3
        <5> QED
          BY <5>1, <5>2, <5>3
      <4> QED
        BY <3>1, <4>1, <4>2
    <3> QED
      BY <1>1, <1>10, <1>3, <2>1, <3>1, <3>2, <3>4, <3>5 DEF ReadInv, InOrder
  <2>2. CASE projector # "CloudEventsRouter"
    <3>1. /\ projector = "ProjectorBase" /\ response' = << >>
          /\ (effects' = effects \/ effects' = effects \o t)
          /\ extra = 0 => ~book.speculative
      BY <1>1, <1>2c, <2>2 DEF ReadInv, InOrder, TypeOK, Projectors
    <3>2. ASSUME extra = 0
          PROVE  /\ Ordered(effects')
                 /\ \A n \in DOMAIN effects' : effects'[n].at < cursor'
      <4>1. Ordered(effects) /\ (\A n \in DOMAIN effects : effects[n].at < cursor)
        BY <1>4, <3>1, <3>2 DEF ReadInv, InOrder
      <4>2. \A n \in DOMAIN effects : effects[n].at \in Nat
        <5>1. \A n \in DOMAIN effects : effects[n] \in Pages
          BY <1>2a
        <5> QED
          BY <5>1, ReadAssumption DEF Pages
      <4>3. \A m \in DOMAIN effects, n \in DOMAIN t : effects[m].at <= t[n].at
        BY <1>10, <4>1, <4>2
      <4>4. Ordered(effects \o t)
        BY <1>2a, <1>2b, <4>1, <4>3, ConcatOrdered
      <4>5. ASSUME NEW n \in DOMAIN (effects \o t)
            PROVE  (effects \o t)[n].at < cursor + 1
        <5>1. \/ n \in DOMAIN effects /\ (effects \o t)[n] = effects[n]
              \/ n - Len(effects) \in DOMAIN t /\ (effects \o t)[n] = t[n - Len(effects)]
          BY <1>2a, <1>2b, Concat
        <5>2. CASE n \in DOMAIN effects /\ (effects \o t)[n] = effects[n]
          BY <1>10, <4>1, <4>2, <5>2
        <5>3. CASE n - Len(effects) \in DOMAIN t /\ (effects \o t)[n] = t[n - Len(effects)]
          BY <1>10, <5>3
        <5> QED
          BY <5>1, <5>2, <5>3
      <4> QED
        <5>1. \A n \in DOMAIN effects : effects[n].at < cursor + 1
          BY <1>10, <4>1, <4>2
        <5> QED
          BY <1>1, <3>1, <4>1, <4>4, <4>5, <5>1
    <3>3. Ordered(effects)' = Ordered(effects')
      BY DEF Ordered
    <3> QED
      BY <1>1, <1>3, <1>4, <2>2, <3>1, <3>2, <3>3 DEF InOrder
  <2> QED
    BY <2>1, <2>2
<1>12. CopyIsPrefix'
  BY <1>1, SameView DEF ReadInv, CopyIsPrefix
<1>13. Accounted'
  <2>1. /\ \A n \in DOMAIN effects : effects[n].at \in DOMAIN log
        /\ \A n \in DOMAIN response : response[n].at \in DOMAIN log
    BY DEF ReadInv, Accounted
  <2>2. /\ \A n \in DOMAIN (effects \o t) : (effects \o t)[n].at \in DOMAIN log
        /\ \A n \in DOMAIN (response \o t) : (response \o t)[n].at \in DOMAIN log
    <3>1. ASSUME NEW s \in Seq(Pages), \A n \in DOMAIN s : s[n].at \in DOMAIN log,
                 NEW n \in DOMAIN (s \o t)
          PROVE  (s \o t)[n].at \in DOMAIN log
      <4>1. \/ n \in DOMAIN s /\ (s \o t)[n] = s[n]
            \/ n - Len(s) \in DOMAIN t /\ (s \o t)[n] = t[n - Len(s)]
        BY <1>2b, Concat
      <4> QED
        BY <1>1, <1>10, <3>1, <4>1
    <3> QED
      BY <1>2a, <2>1, <3>1
  <2>3. /\ \A n \in DOMAIN effects' : effects'[n].at \in DOMAIN log
        /\ \A n \in DOMAIN response' : response'[n].at \in DOMAIN log
    BY <1>2c, <2>1, <2>2
  <2>4. \A i : /\ Count(effects \o t, i) = Count(effects, i) + (IF cursor = i THEN k ELSE 0)
               /\ Count(response \o t, i) = Count(response, i) + (IF cursor = i THEN k ELSE 0)
               /\ Count(effects, i) \in Nat /\ Count(response, i) \in Nat
    <3> TAKE i
    <3>1. /\ Count(effects \o t, i) = Count(effects, i) + Count(t, i)
          /\ Count(response \o t, i) = Count(response, i) + Count(t, i)
      BY <1>2a, <1>2b, CountConcat
    <3>2. Count(effects, i) \in Nat /\ Count(response, i) \in Nat
      BY <1>2a, CountIsNat
    <3> QED
      BY <1>2b, <3>1, <3>2
  <2>5. CASE projector = "CloudEventsRouter"
    <3>1. effects' = effects /\ (response' = response \/ (response' = response \o t /\ k <= Names(cursor)))
      BY <1>2c, <2>5
    <3>2. Count(response, cursor) = 0
      <4>1. \A n \in DOMAIN response : response[n].at \in book.first..cursor - 1
        BY <2>5 DEF ReadInv, InOrder
      <4>2. \A n \in DOMAIN response : response[n].at # cursor
        BY <1>10, <4>1
      <4> QED
        BY <4>2, CountIsZero
    <3>3. ASSUME NEW i \in DOMAIN log, Handles(CurrentType(i))
          PROVE  Count(effects', i) <= Names(i) /\ Count(response', i) <= Names(i)
      <4>1. Count(effects, i) <= Names(i) /\ Count(response, i) <= Names(i)
        BY <2>5, <3>3 DEF ReadInv, Accounted
      <4>2. CASE response' = response
        BY <3>1, <4>1, <4>2
      <4>3. CASE response' = response \o t /\ k <= Names(cursor)
        BY <2>4, <3>1, <3>2, <4>1, <4>3
      <4> QED
        BY <3>1, <4>2, <4>3
    <3>4. \A i : Count(effects, i)' = Count(effects', i) /\ Count(response, i)' = Count(response', i)
      BY DEF Count
    <3> QED
      BY <1>1, <2>3, <2>5, <3>3, <3>4, SameView DEF Accounted
  <2>6. CASE projector # "CloudEventsRouter"
    <3>1. effects' = effects \/ (effects' = effects \o t /\ k = 1)
      BY <1>2c, <2>6
    <3>2. ASSUME NEW i \in DOMAIN log, projector = "ProjectorBase"
          PROVE  Count(effects', i) + Ahead(i)' <= extra + Due(i)'
      <4>1. Count(effects, i) + Ahead(i) <= extra + Due(i)
        BY <3>2 DEF ReadInv, Accounted
      <4>2. Count(effects', i) \in {Count(effects, i), Count(effects, i) + (IF cursor = i THEN 1 ELSE 0)}
        BY <2>4, <3>1
      <4>3. Count(effects', i) <= Count(effects, i) + (IF cursor = i THEN 1 ELSE 0)
        BY <2>4, <4>2
      <4>4. /\ extra \in Nat /\ Count(effects, i) \in Nat /\ i \in Nat
            /\ Ahead(i) \in Nat /\ Due(i) \in Nat /\ Ahead(i)' \in Nat /\ Due(i)' \in Nat
            /\ Count(effects', i) \in Nat
        <5>1. failures \in Nat /\ extra \in Nat
          BY <1>1, ReadAssumption DEF TypeOK
        <5>2. i \in Nat
          <6>1. log \in Seq(Type \cup {Absent})
            BY <1>1 DEF TypeOK
          <6> QED
            BY <6>1
        <5>3. /\ Ahead(i) \in Nat /\ Due(i) \in Nat /\ Ahead(i)' \in Nat /\ Due(i)' \in Nat
          BY DEF Ahead, Due
        <5>4. Count(effects, i) \in Nat /\ Count(effects', i) \in Nat
          BY <2>4, <4>2
        <5> QED
          BY <5>1, <5>2, <5>3, <5>4
      <4>5. Ahead(i)' + Due(i) + (IF cursor = i THEN 1 ELSE 0) <= Ahead(i) + Due(i)'
        <5>1. /\ book' # Idle /\ book # Idle /\ book'.speculative = book.speculative
              /\ cursor' = cursor + 1 /\ next' = next /\ next \in Nat /\ i \in Nat
              /\ ~book.speculative => next <= cursor
          <6>1. ~book.speculative => book.first = next
            BY <1>4 DEF ReadInv, BookUnderWay
          <6>2. next \in Nat
            BY <1>2a
          <6> QED
            BY <1>1, <1>10, <1>3, <1>4, <4>4, <6>1, <6>2
        <5>2. CASE book.speculative
          BY <1>10, <5>1, <5>2 DEF Ahead, Due
        <5>3. CASE ~book.speculative
          BY <1>10, <5>1, <5>3 DEF Ahead, Due
        <5> QED
          BY <5>2, <5>3
      <4> QED
        <5>1. ASSUME NEW c \in Nat, NEW d \in Nat, NEW a \in Nat, NEW u \in Nat, NEW e \in Nat,
                     NEW a1 \in Nat, NEW u1 \in Nat, NEW j \in Nat,
                     c + a <= e + u, d <= c + j, a1 + u + j <= a + u1
              PROVE  d + a1 <= e + u1
          BY <5>1
        <5> QED
          BY <4>1, <4>3, <4>4, <4>5, <5>1
    <3>3. \A i : Count(effects, i)' = Count(effects', i)
      BY DEF Count
    <3> QED
      BY <1>1, <2>3, <2>6, <3>2, <3>3 DEF Accounted
  <2> QED
    BY <2>5, <2>6
<1> QED
  BY <1>6, <1>7, <1>9, <1>11, <1>12, <1>13 DEF ReadInv

\* The framework takes the answer: what was in it happens now.
LEMMA AnswerRead ==
  ASSUME ReadInv, Answer
  PROVE  ReadInv'
<1> USE ReadAssumption
<1>1. /\ TypeOK /\ book # Idle /\ cursor = book.stop + 1
      /\ book' = Idle /\ cursor' = 1 /\ lastSeq' = 1 /\ withheld' = {} /\ response' = << >>
      /\ UNCHANGED <<log, projector, extra, conn, attempt, copy, failures>>
      /\ \/ book.speculative /\ UNCHANGED <<next, effects, skipped, reported>>
         \/ /\ ~book.speculative /\ next' = book.last + 1 /\ effects' = effects \o response
            /\ skipped' = skipped \cup (cursor..book.last) \cup withheld
            /\ reported' \in {lastSeq, reported}
  BY DEF Answer, reader, ReadInv
<1>2. /\ book.first \in 1..MaxEvents /\ book.last \in 0..Len(log) /\ book.stop \in 0..Len(log)
      /\ cursor \in 1..Len(log) + 1 /\ next \in 1..Len(log) + 1 /\ Len(log) \in Nat
      /\ DOMAIN log = 1..Len(log) /\ Len(log) <= MaxEvents /\ lastSeq \in 1..MaxEvents
      /\ effects \in Seq(Pages) /\ response \in Seq(Pages) /\ reported \in 0..MaxEvents
      /\ skipped \subseteq DOMAIN log /\ withheld \subseteq DOMAIN log /\ extra \in Nat
      /\ projector \in {"ProjectorBase", "CloudEventsRouter"}
  BY <1>1 DEF TypeOK, Projectors
<1>3. /\ book.first <= cursor /\ book.stop <= book.last
      /\ ~book.speculative => book.first = next
  BY <1>1 DEF ReadInv, BookUnderWay
<1>4. /\ effects' \in Seq(Pages) /\ response' \in Seq(Pages)
      /\ next' \in 1..Len(log) + 1 /\ skipped' \subseteq DOMAIN log /\ reported' \in 0..MaxEvents
  <2>1. effects \o response \in Seq(Pages) /\ << >> \in Seq(Pages)
    BY <1>2, Concat
  <2>2. CASE book.speculative
    BY <1>1, <1>2, <2>1, <2>2
  <2>3. CASE ~book.speculative
    <3>1. book.last + 1 \in 1..Len(log) + 1 /\ cursor..book.last \subseteq DOMAIN log
      BY <1>2
    <3>2. next' \in 1..Len(log) + 1 /\ skipped' \subseteq DOMAIN log
      BY <1>1, <1>2, <2>3, <3>1
    <3>3. effects' \in Seq(Pages) /\ response' \in Seq(Pages)
      BY <1>1, <2>1, <2>3
    <3>4. reported' \in 0..MaxEvents
      BY <1>1, <1>2, <2>3
    <3> QED
      BY <3>2, <3>3, <3>4
  <2> QED
    BY <2>2, <2>3
<1>5. Idle \in [first : 1..MaxEvents, last : 0..Len(log), stop : 0..Len(log),
                own : BOOLEAN, speculative : BOOLEAN]
  BY <1>2 DEF Idle
<1>6. TypeOK'
  <2>1. cursor' \in 1..Len(log) + 1 /\ lastSeq' \in 1..MaxEvents
    BY <1>1, <1>2
  <2> QED
    BY <1>1, <1>2, <1>4, <1>5, <2>1 DEF TypeOK
<1>7. BookUnderWay'
  BY <1>1 DEF BookUnderWay
<1>8. NoneMissed'
  <2>1. ProjectedAtLeastOnce'
    <3>1. CASE book.speculative
      BY <1>1, <3>1, SameView DEF ReadInv, NoneMissed, ProjectedAtLeastOnce, Happened
    <3>2. CASE ~book.speculative
      <4>1. Happened' = Happened \cup Answered
        <5>1. {(effects \o response)[n] : n \in DOMAIN (effects \o response)}
                = {effects[n] : n \in DOMAIN effects} \cup {response[n] : n \in DOMAIN response}
          BY <1>2, ConcatElements
        <5>2. effects' = effects \o response
          BY <1>1, <3>2
        <5> QED
          BY <5>1, <5>2 DEF Happened, Answered
      <4>2. ASSUME NEW i \in 1..book.last, Handles(CurrentType(i))
            PROVE  Current(i) \in Happened' \/ i \in skipped'
        <5>1. CASE i \in 1..next - 1
          BY <1>1, <3>2, <4>1, <4>2, <5>1 DEF ReadInv, NoneMissed, ProjectedAtLeastOnce
        <5>2. CASE i \in book.first..cursor - 1
          BY <1>1, <3>2, <4>1, <4>2, <5>2 DEF ReadInv, NoneMissed
        <5>3. CASE i \in cursor..book.last
          BY <1>1, <3>2, <5>3
        <5>4. i \in 1..next - 1 \/ i \in book.first..cursor - 1 \/ i \in cursor..book.last
          BY <1>2, <1>3, <3>2
        <5> QED
          BY <5>1, <5>2, <5>3, <5>4
      <4>3. next' - 1 = book.last
        BY <1>1, <1>2, <3>2
      <4> QED
        BY <1>1, <4>2, <4>3, SameView DEF ProjectedAtLeastOnce
    <3> QED
      BY <3>1, <3>2
  <2> QED
    BY <1>1, <2>1 DEF NoneMissed
<1>9. InOrder'
  <2>1. /\ response' = << >> /\ Ordered(response)' /\ ~book'.speculative
        /\ UNCHANGED <<projector, extra>>
    BY <1>1 DEF Ordered, Idle
  <2>2. \A n \in DOMAIN effects : effects[n].at \in Nat
    <3>1. \A n \in DOMAIN effects : effects[n] \in Pages
      BY <1>2
    <3> QED
      BY <3>1 DEF Pages
  <2>3. CASE projector = "CloudEventsRouter"
    <3>1. /\ Ordered(effects) /\ Ordered(response)
          /\ \A n \in DOMAIN effects : effects[n].at < next
          /\ \A n \in DOMAIN response : response[n].at \in book.first..cursor - 1
      BY <2>3 DEF ReadInv, InOrder
    <3>2. Ordered(effects') /\ \A n \in DOMAIN effects' : effects'[n].at < next'
      <4>1. CASE book.speculative
        BY <1>1, <3>1, <4>1
      <4>2. CASE ~book.speculative
        <5>1. \A m \in DOMAIN effects, n \in DOMAIN response : effects[m].at <= response[n].at
          BY <1>2, <1>3, <2>2, <3>1, <4>2, SMTT(30)
        <5>2. Ordered(effects \o response)
          BY <1>2, <3>1, <5>1, ConcatOrdered
        <5>3. ASSUME NEW n \in DOMAIN (effects \o response)
              PROVE  (effects \o response)[n].at < book.last + 1
          <6>1. \/ n \in DOMAIN effects /\ (effects \o response)[n] = effects[n]
                \/ /\ n - Len(effects) \in DOMAIN response
                   /\ (effects \o response)[n] = response[n - Len(effects)]
            BY <1>2, Concat, SMTT(30)
          <6>2. next <= book.last + 1 /\ cursor <= book.last + 1
            BY <1>1, <1>2, <1>3, <4>2, SMTT(30)
          <6>3. CASE n \in DOMAIN effects /\ (effects \o response)[n] = effects[n]
            BY <1>2, <2>2, <3>1, <6>2, <6>3, SMTT(30)
          <6>4. CASE /\ n - Len(effects) \in DOMAIN response
                     /\ (effects \o response)[n] = response[n - Len(effects)]
            <7>1. response[n - Len(effects)].at \in book.first..cursor - 1
              BY <3>1, <6>4
            <7>2. PICK at : at = response[n - Len(effects)].at
              OBVIOUS
            <7>3. at < book.last + 1
              <8>1. book.first \in Nat /\ cursor \in Nat /\ book.last \in Nat
                BY <1>2
              <8>2. at \in Nat /\ at <= cursor - 1
                BY <7>1, <7>2, <8>1
              <8> QED
                BY <6>2, <8>1, <8>2
            <7> QED
              BY <6>4, <7>2, <7>3
          <6> QED
            BY <6>1, <6>3, <6>4
        <5> QED
          BY <1>1, <4>2, <5>2, <5>3
      <4> QED
        BY <4>1, <4>2
    <3>3. Ordered(effects)' = Ordered(effects')
      BY DEF Ordered
    <3> QED
      BY <2>1, <2>3, <3>2, <3>3 DEF InOrder
  <2>4. CASE projector # "CloudEventsRouter"
    <3>1. /\ response = << >> /\ effects \o << >> = effects /\ projector = "ProjectorBase"
          /\ extra = 0 => ~book.speculative
      BY <1>2, <2>4 DEF ReadInv, InOrder
    <3>2. effects' = effects
      BY <1>1, <3>1
    <3>3. ASSUME extra = 0
          PROVE  Ordered(effects) /\ \A n \in DOMAIN effects : effects[n].at < next'
      <4>1. Ordered(effects) /\ \A n \in DOMAIN effects : effects[n].at < cursor
        BY <1>1, <3>1, <3>3 DEF ReadInv, InOrder
      <4>2. next' = book.last + 1 /\ cursor <= book.last + 1
        BY <1>1, <1>2, <1>3, <3>1, <3>3, SMTT(30)
      <4> QED
        BY <1>2, <2>2, <4>1, <4>2
    <3> QED
      BY <1>1, <2>1, <2>4, <3>2, <3>3 DEF InOrder, Ordered
  <2> QED
    BY <2>3, <2>4
<1>10. CopyIsPrefix'
  BY <1>1, SameView DEF ReadInv, CopyIsPrefix
<1>11. Accounted'
  <2>1. \A i : /\ Count(effects \o response, i) = Count(effects, i) + Count(response, i)
               /\ Count(effects, i) \in Nat /\ Count(response, i) \in Nat
    <3> TAKE i
    <3>1. Count(effects \o response, i) = Count(effects, i) + Count(response, i)
      BY <1>2, CountConcat
    <3>2. Count(effects, i) \in Nat /\ Count(response, i) \in Nat
      BY <1>2, CountIsNat
    <3> QED
      BY <3>1, <3>2
  <2>2. \A i : Count(effects, i)' = Count(effects', i)
    BY DEF Count
  <2>3. /\ \A n \in DOMAIN effects' : effects'[n].at \in DOMAIN log
        /\ DOMAIN response' = {} /\ \A i : Count(response, i)' = 0
    <3>1. ASSUME NEW n \in DOMAIN (effects \o response)
          PROVE  (effects \o response)[n].at \in DOMAIN log
      <4>1. \/ n \in DOMAIN effects /\ (effects \o response)[n] = effects[n]
            \/ /\ n - Len(effects) \in DOMAIN response
               /\ (effects \o response)[n] = response[n - Len(effects)]
        BY <1>2, Concat
      <4> QED
        BY <4>1 DEF ReadInv, Accounted
    <3> QED
      BY <1>1, <3>1, NoCounts DEF ReadInv, Accounted
  <2>4. CASE projector = "CloudEventsRouter"
    <3>1. /\ \A n \in DOMAIN effects : effects[n].at < next
          /\ \A n \in DOMAIN response : response[n].at \in book.first..cursor - 1
      BY <2>4 DEF ReadInv, InOrder
    <3>2. ASSUME NEW i \in DOMAIN log, Handles(CurrentType(i))
          PROVE  Count(effects', i) <= Names(i)
      <4>1. Count(effects, i) <= Names(i) /\ Count(response, i) <= Names(i)
        BY <2>4, <3>2 DEF ReadInv, Accounted
      <4>2. CASE effects' = effects
        BY <4>1, <4>2
      <4>3. CASE effects' = effects \o response /\ book.first = next
        <5>1. CASE i < next
          <6>1. \A n \in DOMAIN response : response[n].at # i
            BY <1>2, <3>1, <4>3, <5>1
          <6>2. Count(response, i) = 0
            BY <6>1, CountIsZero
          <6> QED
            BY <2>1, <4>1, <4>3, <6>2
        <5>2. CASE ~(i < next)
          <6>1. \A n \in DOMAIN effects : effects[n].at # i
            BY <3>1, <5>2
          <6>2. Count(effects, i) = 0
            BY <6>1, CountIsZero
          <6> QED
            BY <2>1, <4>1, <4>3, <6>2
        <5> QED
          BY <5>1, <5>2
      <4> QED
        BY <1>1, <1>3, <4>2, <4>3
    <3> QED
      BY <1>1, <2>2, <2>3, <2>4, <3>2, SameView DEF Accounted
  <2>5. CASE projector # "CloudEventsRouter"
    <3>1. effects \o << >> = effects
      BY <1>2
    <3>2. effects' = effects
      BY <1>1, <1>2, <2>5, <3>1 DEF ReadInv, InOrder
    <3>3. ASSUME NEW i \in DOMAIN log
          PROVE  Count(effects, i) + Ahead(i)' <= extra + Due(i)'
      <4>1. Count(effects, i) + Ahead(i) <= extra + Due(i)
        BY <1>2, <2>5 DEF ReadInv, Accounted
      <4>2. Ahead(i) \in Nat /\ Ahead(i)' = 0 /\ Due(i) <= Due(i)' /\ Due(i) \in Nat /\ Due(i)' \in Nat
        <5>1. i \in Nat
          BY <1>2
        <5>2. CASE book.speculative
          BY <1>1, <5>1, <5>2 DEF Ahead, Due
        <5>3. CASE ~book.speculative
          <6>1. next <= next' /\ cursor <= next' /\ next' \in Nat
            <7>1. next' = book.last + 1 /\ next = book.first /\ cursor = book.stop + 1
              BY <1>1, <1>3, <5>3
            <7>2. book.last \in Nat /\ book.stop \in Nat /\ cursor \in Nat /\ next \in Nat
              BY <1>2
            <7> QED
              BY <1>3, <7>1, <7>2
          <6> QED
            BY <1>1, <1>2, <5>1, <5>3, <6>1 DEF Ahead, Due
        <5> QED
          BY <5>2, <5>3
      <4> QED
        BY <1>2, <2>1, <4>1, <4>2
    <3> QED
      BY <1>1, <2>3, <2>5, <3>2, <3>3, SameCounts DEF Accounted
  <2> QED
    BY <2>4, <2>5
<1> QED
  BY <1>6, <1>7, <1>8, <1>9, <1>10, <1>11 DEF ReadInv

\* A book whose answer never arrives is given to the projector again.
LEMMA InterruptedRead ==
  ASSUME ReadInv, Interrupted
  PROVE  ReadInv'
<1> USE ReadAssumption
<1>1. /\ TypeOK
      /\ book # Idle /\ book' = Idle /\ cursor' = 1 /\ lastSeq' = 1
      /\ withheld' = {} /\ response' = << >>
      /\ failures' = failures + 1 /\ failures < MaxFailures /\ failures \in Nat
      /\ extra \in 0..failures /\ extra' = IF book.speculative THEN extra ELSE extra + 1
      /\ UNCHANGED <<log, projector, next, effects, skipped, reported, conn, attempt, copy>>
  BY DEF Interrupted, Failure, reader, ReadInv, TypeOK
<1>2. TypeOK'
  <2>1. Len(log) \in Nat
    BY <1>1 DEF TypeOK
  <2>2. Idle \in [first : 1..MaxEvents, last : 0..Len(log), stop : 0..Len(log),
                  own : BOOLEAN, speculative : BOOLEAN]
    BY <2>1 DEF Idle
  <2> QED
    BY <1>1, <2>1, <2>2 DEF TypeOK
<1>3. BookUnderWay'
  BY <1>1 DEF BookUnderWay
<1>4. NoneMissed'
  BY <1>1, SameView DEF ReadInv, NoneMissed, ProjectedAtLeastOnce, Happened
<1>5. InOrder'
  <2>1. extra' = 0 => book.speculative /\ extra = 0
    BY <1>1
  <2>2. extra' # 0
    BY <2>1 DEF ReadInv, InOrder
  <2> QED
    BY <1>1, <2>2 DEF ReadInv, InOrder, Ordered, Idle
<1>6. CopyIsPrefix'
  BY <1>1, SameView DEF ReadInv, CopyIsPrefix
<1>7. Accounted'
  <2>1. CASE projector = "CloudEventsRouter"
    BY <1>1, <2>1, SameView, SameCounts, NoCounts DEF ReadInv, Accounted
  <2>2. CASE projector # "CloudEventsRouter"
    <3> SUFFICES ASSUME NEW i \in DOMAIN log, projector = "ProjectorBase"
                 PROVE  Count(effects, i) + Ahead(i)' <= extra' + Due(i)'
      BY <1>1, <2>2, SameCounts, NoCounts DEF ReadInv, Accounted
    <3>1. Count(effects, i) + Ahead(i) <= extra + Due(i)
      BY DEF ReadInv, Accounted
    <3>2. effects \in Seq(Pages) /\ i \in Nat /\ next \in Nat
      BY <1>1 DEF TypeOK
    <3>3. Count(effects, i) \in Nat /\ extra \in Nat /\ extra' \in Nat
      <4>1. Count(effects, i) \in Nat
        BY <3>2, CountIsNat
      <4> QED
        BY <1>1, <4>1
    <3>4. Ahead(i)' = 0 /\ Ahead(i) \in Nat /\ Due(i) \in Nat /\ Due(i)' \in Nat
      BY <1>1 DEF Ahead, Due
    <3>5. extra + Due(i) <= extra' + Due(i)'
      BY <1>1, <3>2, <3>3 DEF Due
    <3> QED
      BY <3>1, <3>3, <3>4, <3>5
  <2> QED
    BY <2>1, <2>2
<1> QED
  BY <1>2, <1>3, <1>4, <1>5, <1>6, <1>7 DEF ReadInv

\* A query for what follows the copy selects it, however it was built.
LEMMA QuerySelects ==
  ASSUME ReadInv, Len(copy) < Len(log), NEW b \in Queries(Len(copy))
  PROVE  \E to \in Len(copy)..Len(log) :
           Selected(b) = [n \in 1..(to - Len(copy)) |-> Page(Len(copy) + n)]
<1>1. Len(copy) \in Nat /\ Len(log) \in Nat
  BY DEF ReadInv, TypeOK
<1>2. Lower(b) = Len(copy) /\ (Upper(b) = Len(log) \/ Upper(b) \in {Len(copy), Len(copy) + 1})
  <2> DEFINE n == Len(copy)
  <2>1. \/ b = [range |-> <<n>>, temporal |-> << >>]
        \/ b = [range |-> <<n, n>>, temporal |-> << >>]
        \/ b = [range |-> <<n>>, temporal |-> <<n>>]
        \/ b = [range |-> <<n, n + 1>>, temporal |-> <<n>>]
        \/ n = 0 /\ b = [range |-> << >>, temporal |-> << >>]
        \/ n = 0 /\ b = [range |-> << >>, temporal |-> <<0>>]
    <3>1. /\ RangeFrom(NewQuery, n) = [range |-> <<n>>, temporal |-> << >>]
          /\ RangeTo(NewQuery, n, n) = [range |-> <<n, n>>, temporal |-> << >>]
      BY DEF RangeFrom, RangeTo, NewQuery
    <3>2. \A k : AsOfSequence(NewQuery, k) = [range |-> << >>, temporal |-> <<k>>]
      BY DEF AsOfSequence, NewQuery
    <3>3. AsOfSequence(RangeFrom(NewQuery, n), n) = [range |-> <<n>>, temporal |-> <<n>>]
      BY <3>1 DEF AsOfSequence
    <3>4. RangeTo(AsOfSequence(NewQuery, n), n, n + 1) = [range |-> <<n, n + 1>>, temporal |-> <<n>>]
      BY <3>2 DEF RangeTo
    <3>5. NewQuery = [range |-> << >>, temporal |-> << >>]
      BY DEF NewQuery
    <3> QED
      BY <3>1, <3>2, <3>3, <3>4, <3>5 DEF Queries
  <2>2. /\ <<n>> # << >> /\ Len(<<n>>) = 1 /\ <<n>>[1] = n
        /\ <<n, n>> # << >> /\ Len(<<n, n>>) = 2 /\ <<n, n>>[1] = n /\ <<n, n>>[2] = n
        /\ <<n, n + 1>> # << >> /\ Len(<<n, n + 1>>) = 2 /\ <<n, n + 1>>[1] = n
        /\ <<n, n + 1>>[2] = n + 1
        /\ <<0>> # << >> /\ <<0>>[1] = 0
    OBVIOUS
  <2>3. CASE b = [range |-> <<n>>, temporal |-> << >>] \/ b = [range |-> <<n>>, temporal |-> <<n>>]
    BY <2>2, <2>3 DEF Lower, Upper
  <2>4. CASE b = [range |-> <<n, n>>, temporal |-> << >>]
    BY <2>2, <2>4 DEF Lower, Upper
  <2>5. CASE b = [range |-> <<n, n + 1>>, temporal |-> <<n>>]
    BY <2>2, <2>5 DEF Lower, Upper
  <2>6. CASE n = 0 /\ b = [range |-> << >>, temporal |-> << >>]
    BY <2>2, <2>6 DEF Lower, Upper
  <2>7. CASE n = 0 /\ b = [range |-> << >>, temporal |-> <<0>>]
    BY <2>2, <2>7 DEF Lower, Upper
  <2> QED
    BY <2>1, <2>3, <2>4, <2>5, <2>6, <2>7
<1> DEFINE to == IF Upper(b) < Len(log) THEN Upper(b) + 1 ELSE Len(log)
<1>3. to \in Len(copy)..Len(log)
  BY <1>1, <1>2
<1>4. Selected(b) = [n \in 1..(to - Len(copy)) |-> Page(Len(copy) + n)]
  BY <1>2 DEF Selected
<1> QED
  BY <1>3, <1>4

\* What the client does leaves the projector alone, and its copy only grows by
\* the pages that follow it.
LEMMA ReaderRead ==
  ASSUME ReadInv, Read \/ DialFails \/ CloseShared \/ PollBroken
  PROVE  ReadInv'
<1> USE ReadAssumption
<1>1. TypeOK /\ UNCHANGED <<log, projector, next, book, cursor, lastSeq, withheld, effects,
                            response, skipped, reported, extra>>
  BY DEF Read, Dial, PollFails, Poll, DialFails, CloseShared, PollBroken, projection, ReadInv
<1>2. /\ conn' \in {"none", "open", "closed", "gaveUp"} /\ attempt' \in 0..MaxAttempts
      /\ (conn' = "gaveUp" <=> attempt' = MaxAttempts)
      /\ failures' \in 0..MaxFailures /\ extra \in 0..failures'
  <2>1. /\ conn \in {"none", "open", "closed", "gaveUp"} /\ attempt \in 0..MaxAttempts
        /\ (conn = "gaveUp" <=> attempt = MaxAttempts) /\ failures \in 0..MaxFailures
        /\ extra \in 0..failures
        /\ MaxAttempts \in Nat \ {0} /\ MaxFailures \in Nat
    BY <1>1 DEF TypeOK
  <2>2. CASE Dial \/ PollFails
    BY <2>1, <2>2 DEF Dial, PollFails
  <2>3. CASE DialFails
    BY <2>1, <2>3 DEF DialFails, Failure
  <2>4. CASE CloseShared
    BY <2>1, <2>4 DEF CloseShared, Failure
  <2>5. CASE PollBroken
    BY <2>1, <2>5 DEF PollBroken, Failure, reader
  <2>6. ASSUME NEW b, Poll(b)
        PROVE  UNCHANGED <<conn, attempt, failures>>
    BY <2>6 DEF Poll
  <2> QED
    BY <2>1, <2>2, <2>3, <2>4, <2>5, <2>6 DEF Read
<1>3. copy' \in Seq(Pages) /\ CopyIsPrefix'
  <2>1. CASE copy' = copy
    BY <1>1, <2>1, SameView DEF ReadInv, CopyIsPrefix, TypeOK
  <2>2. CASE copy' # copy
    <3>1. PICK b \in Queries(Len(copy)) : Len(copy) < Len(log) /\ copy' = copy \o Selected(b)
      BY <2>2 DEF Read, Dial, PollFails, Poll, DialFails, CloseShared, PollBroken, reader
    <3>2. PICK to \in Len(copy)..Len(log) :
            Selected(b) = [n \in 1..(to - Len(copy)) |-> Page(Len(copy) + n)]
      BY <3>1, QuerySelects
    <3> DEFINE answer == [n \in 1..(to - Len(copy)) |-> Page(Len(copy) + n)]
    <3>3. /\ copy \in Seq(Pages) /\ Len(copy) \in Nat /\ Len(log) \in Nat
          /\ to \in Nat /\ to <= Len(log) /\ to - Len(copy) \in Nat
          /\ DOMAIN log = 1..Len(log) /\ DOMAIN copy = 1..Len(copy)
      BY <1>1 DEF TypeOK
    <3>4. \A n \in 1..(to - Len(copy)) : Page(Len(copy) + n) \in Pages
      BY <1>1, <3>3, PageTyped
    <3>5. /\ answer \in Seq(Pages) /\ Len(answer) = to - Len(copy)
          /\ \A n \in DOMAIN answer : answer[n] = Page(Len(copy) + n)
      BY <3>3, <3>4
    <3> HIDE DEF answer
    <3>6. copy' = copy \o answer
      BY <3>1, <3>2 DEF answer
    <3>7. /\ copy' \in Seq(Pages) /\ Len(copy') = to
          /\ \A i \in DOMAIN copy' :
               \/ i \in DOMAIN copy /\ copy'[i] = copy[i]
               \/ i > Len(copy) /\ i - Len(copy) \in DOMAIN answer /\ copy'[i] = answer[i - Len(copy)]
      <4>1. /\ copy \o answer \in Seq(Pages) /\ Len(copy \o answer) = Len(copy) + Len(answer)
            /\ \A i \in DOMAIN (copy \o answer) :
                 \/ i \in DOMAIN copy /\ (copy \o answer)[i] = copy[i]
                 \/ /\ i > Len(copy) /\ i - Len(copy) \in DOMAIN answer
                    /\ (copy \o answer)[i] = answer[i - Len(copy)]
        BY <3>3, <3>5, Concat
      <4> QED
        BY <3>3, <3>5, <3>6, <4>1
    <3>8. ASSUME NEW i \in DOMAIN copy'
          PROVE  copy'[i] = Page(i)
      <4>1. CASE i \in DOMAIN copy /\ copy'[i] = copy[i]
        BY <4>1 DEF ReadInv, CopyIsPrefix
      <4>2. CASE i > Len(copy) /\ i - Len(copy) \in DOMAIN answer /\ copy'[i] = answer[i - Len(copy)]
        <5>1. Len(copy) + (i - Len(copy)) = i
          BY <3>3, <3>7
        <5> QED
          BY <3>5, <4>2, <5>1
      <4> QED
        BY <3>7, <4>1, <4>2
    <3> QED
      BY <1>1, <3>3, <3>7, <3>8, SameView DEF CopyIsPrefix
  <2> QED
    BY <2>1, <2>2
<1>4. TypeOK'
  BY <1>1, <1>2, <1>3 DEF TypeOK
<1>5. BookUnderWay' /\ NoneMissed'
  BY <1>1, SameView DEF ReadInv, BookUnderWay, NoneMissed, ProjectedAtLeastOnce, Happened, Answered
<1>6. InOrder'
  BY <1>1 DEF ReadInv, InOrder, Ordered
<1>7. Accounted'
  BY <1>1, SameView DEF ReadInv, Accounted, Count, Ahead, Due
<1> QED
  BY <1>3, <1>4, <1>5, <1>6, <1>7 DEF ReadInv

LEMMA ReadStep == ReadInv /\ [Next]_vars => ReadInv'
<1> SUFFICES ASSUME ReadInv, [Next]_vars PROVE ReadInv'
  OBVIOUS
<1>1. CASE UNCHANGED vars
  <2>1. UNCHANGED <<log, projector, next, book, cursor, lastSeq, withheld, effects, response,
                    skipped, reported, extra, conn, attempt, copy, failures>>
    BY <1>1 DEF vars, projection, reader
  <2>2. ReadInv'
    <3>1. TypeOK'
      BY <2>1 DEF ReadInv, TypeOK
    <3>2. BookUnderWay' /\ InOrder'
      BY <2>1 DEF ReadInv, BookUnderWay, InOrder, Ordered
    <3>3. NoneMissed' /\ CopyIsPrefix'
      BY <2>1, SameView DEF ReadInv, NoneMissed, ProjectedAtLeastOnce, Happened, Answered,
         CopyIsPrefix
    <3>4. Accounted'
      BY <2>1, SameView DEF ReadInv, Accounted, Count, Ahead, Due
    <3> QED
      BY <3>1, <3>2, <3>3, <3>4 DEF ReadInv
  <2> QED
    BY <2>2
<1>2. CASE Deliveries
  <2>1. PICK last \in 1..Len(log) : Deliver(next, last, FALSE)
    BY <1>2 DEF Deliveries
  <2>2. next \in 1..Len(log) + 1
    BY DEF ReadInv, TypeOK
  <2> QED
    BY <2>1, <2>2, DeliverRead
<1>3. CASE Speculate
  <2>1. PICK first \in 1..Len(log), last \in 1..Len(log) : Deliver(first, last, TRUE)
    BY <1>3 DEF Speculate
  <2>2. first \in 1..Len(log) + 1
    BY DEF ReadInv, TypeOK
  <2> QED
    BY <2>1, <2>2, DeliverRead
<1> QED
  BY <1>1, <1>2, <1>3, StoreRead, StepRead, AnswerRead, InterruptedRead, ReaderRead
     DEF Next, Project

LEMMA AlwaysRead == Spec => []ReadInv
BY InitRead, ReadStep, PTL DEF Spec

-------------------------------------------------------------------------------
(* Nothing but what happened *)

\* A page of the log, upcast, that has a handler.
Genuine(page) == page.at \in DOMAIN log /\ page = Current(page.at) /\ Handles(page.type)

AllGenuine == \A page \in Happened \cup Answered : Genuine(page)

\* The log only grows, and nobody is registered or replaced.
LEMMA StaysGenuine ==
  ASSUME TypeOK, [Next]_vars, NEW page, Genuine(page)
  PROVE  Genuine(page)'
<1>1. /\ projector' = projector
      /\ \/ log' = log
         \/ \E type \in Type \cup {Absent} : log' = log \o <<type>>
  BY DEF Next, vars, Store, Project, Deliveries, Speculate, Deliver, Step, Answer, Interrupted,
         Read, Dial, PollFails, Poll, DialFails, CloseShared, PollBroken
<1>2. \A i \in DOMAIN log : i \in DOMAIN log' /\ log'[i] = log[i]
  <2>1. ASSUME NEW type \in Type \cup {Absent}, log' = log \o <<type>>, NEW i \in DOMAIN log
        PROVE  i \in DOMAIN log' /\ log'[i] = log[i]
    <3>1. log \in Seq(Type \cup {Absent}) /\ <<type>> \in Seq(Type \cup {Absent})
      BY DEF TypeOK
    <3> QED
      BY <2>1, <3>1, Concat
  <2> QED
    BY <1>1, <2>1
<1> QED
  BY <1>1, <1>2 DEF Genuine, Current, CurrentType, Handles

\* What a step adds to the effects and to the answer is the page at the cursor,
\* if it is handled, or what was in the answer.
LEMMA NothingInvented ==
  ASSUME ReadInv, [Next]_vars
  PROVE  Happened' \cup Answered' \subseteq
           (Happened \cup Answered) \cup {page \in {Current(cursor)} : Genuine(page)}
<1>1. TypeOK /\ effects \in Seq(Pages) /\ response \in Seq(Pages)
  BY DEF ReadInv, TypeOK
<1>2. CASE Step
  <2> DEFINE page == Current(cursor)
  <2>1. cursor \in DOMAIN log
    BY <1>1, <1>2, StepShape
  <2>2. page \in Pages /\ page.at = cursor
    BY <1>1, <2>1, PageTyped
  <2>3. Handles(page.type) => Genuine(page)
    BY <2>1, <2>2 DEF Genuine
  <2>4. CASE UNCHANGED <<effects, response>>
    BY <2>4 DEF Happened, Answered
  <2>5. CASE ~UNCHANGED <<effects, response>>
    <3>1. PICK k \in Nat :
            /\ Handles(page.type)
            /\ \/ effects' = effects /\ response' = response \o [n \in 1..k |-> page]
               \/ effects' = effects \o [n \in 1..k |-> page] /\ response' = response
      BY <1>1, <1>2, <2>5, StepShape
    <3> DEFINE t == [n \in 1..k |-> page]
    <3> HIDE DEF page
    <3>2. t \in Seq(Pages) /\ {t[n] : n \in DOMAIN t} \subseteq {page}
      BY <2>2, Copies
    <3>3. /\ Handles(page.type)
          /\ \/ effects' = effects /\ response' = response \o t
             \/ effects' = effects \o t /\ response' = response
      BY <3>1
    <3> HIDE DEF t
    <3>4. /\ {(effects \o t)[n] : n \in DOMAIN (effects \o t)} = Happened \cup {t[n] : n \in DOMAIN t}
          /\ {(response \o t)[n] : n \in DOMAIN (response \o t)} = Answered \cup {t[n] : n \in DOMAIN t}
      BY <1>1, <3>2, ConcatElements DEF Happened, Answered
    <3>5. \/ Happened' = Happened /\ Answered' = Answered \cup {t[n] : n \in DOMAIN t}
          \/ Happened' = Happened \cup {t[n] : n \in DOMAIN t} /\ Answered' = Answered
      BY <3>3, <3>4, ZenonT(30) DEF Happened, Answered
    <3> QED
      BY <2>3, <3>2, <3>3, <3>5 DEF page
  <2> QED
    BY <2>4, <2>5
<1>3. CASE Answer
  <2>1. response' = << >> /\ (effects' = effects \/ effects' = effects \o response)
    BY <1>3 DEF Answer
  <2>2. {(effects \o response)[n] : n \in DOMAIN (effects \o response)} = Happened \cup Answered
    BY <1>1, ConcatElements DEF Happened, Answered
  <2>3. Answered' = {}
    BY <2>1 DEF Answered
  <2>4. Happened' = Happened \/ Happened' = Happened \cup Answered
    BY <2>1, <2>2, Zenon DEF Happened
  <2> QED
    BY <2>3, <2>4
<1>4. CASE ~(Step \/ Answer)
  <2>1. effects' = effects /\ (response' = response \/ response' = << >>)
    BY <1>4 DEF Next, vars, projection, Store, Project, Deliveries, Speculate, Deliver, Interrupted,
                Read, Dial, PollFails, Poll, DialFails, CloseShared, PollBroken
  <2> QED
    BY <2>1 DEF Happened, Answered
<1> QED
  BY <1>2, <1>3, <1>4

LEMMA AlwaysGenuine == Spec => []AllGenuine
<1>1. Init => AllGenuine
  BY DEF Init, AllGenuine, Happened, Answered
<1>2. ReadInv /\ AllGenuine /\ [Next]_vars => AllGenuine'
  <2> SUFFICES ASSUME ReadInv, AllGenuine, [Next]_vars, NEW page \in Happened' \cup Answered'
               PROVE  Genuine(page)'
    BY DEF AllGenuine
  <2>1. Genuine(page)
    BY NothingInvented DEF AllGenuine
  <2> QED
    BY <2>1, StaysGenuine DEF ReadInv
<1> QED
  BY <1>1, <1>2, AlwaysRead, PTL DEF Spec

-------------------------------------------------------------------------------
(* The theorems *)

\* The state of the read side keeps its types.
THEOREM ReadTypeCorrect == Spec => []TypeOK
<1>1. ReadInv => TypeOK
  BY DEF ReadInv
<1> QED
  BY <1>1, AlwaysRead, PTL

\* Every event the framework has an answer for went through its handler in its
\* current version, for every projector, however the log was cut into books
\* and however often calls were interrupted; only a projection of the
\* handler's own keeps the pages after it from theirs.  Nothing else has an
\* effect, and only a failure leaves effects without an answer.
THEOREM ProjectionsFaithful == Spec => []ProjectionFaithful
<1>1. ReadInv /\ AllGenuine => ProjectionFaithful
  <2> SUFFICES ASSUME ReadInv, AllGenuine PROVE OnlyProjected
    BY DEF ReadInv, NoneMissed, ProjectionFaithful
  <2> SUFFICES ASSUME NEW page \in Happened
               PROVE  page.at < next \/ /\ projector # "CloudEventsRouter"
                                        /\ extra > 0 \/ (book # Idle /\ page.at < cursor)
    BY DEF AllGenuine, Genuine, OnlyProjected
  <2>1. PICK n \in DOMAIN effects : page = effects[n]
    BY DEF Happened
  <2>2. CASE projector = "CloudEventsRouter"
    BY <2>1, <2>2 DEF ReadInv, InOrder
  <2>3. CASE projector # "CloudEventsRouter" /\ extra = 0
    BY <2>1, <2>3 DEF ReadInv, InOrder, TypeOK, Projectors
  <2>4. extra \in Nat
    BY ReadAssumption DEF ReadInv, TypeOK
  <2> QED
    BY <2>2, <2>3, <2>4
<1> QED
  BY <1>1, AlwaysRead, AlwaysGenuine, PTL

\* Once the framework has an answer for every event and a client has copied
\* them all, the state the client rebuilds agrees with the projection,
\* whatever failed on the way to either.
THEOREM CaughtUpAgree ==
  Spec => [](next = Len(log) + 1 /\ Len(copy) = Len(log) => Agreement)
<1>1. ReadInv /\ AllGenuine => (next = Len(log) + 1 /\ Len(copy) = Len(log) => Agreement)
  <2> SUFFICES ASSUME ReadInv, AllGenuine, next = Len(log) + 1, Len(copy) = Len(log)
               PROVE  Agreement
    OBVIOUS
  <2>1. /\ Len(log) \in Nat /\ DOMAIN log = 1..Len(log) /\ DOMAIN copy = DOMAIN log
        /\ 1..next - 1 = DOMAIN log
    BY DEF ReadInv, TypeOK
  <2>2. \A i \in DOMAIN log : /\ UpcastPage(copy[i]) = Current(i)
                              /\ Current(i).at = i /\ Current(i).type = CurrentType(i)
    BY <2>1, PageTyped DEF ReadInv, CopyIsPrefix
  <2>3. ASSUME NEW page \in Happened PROVE page \in Rebuilt
    <3>1. page.at \in DOMAIN log /\ page = Current(page.at) /\ Handles(page.type)
      BY DEF AllGenuine, Genuine
    <3>2. UpcastPage(copy[page.at]) = page
      BY <2>2, <3>1
    <3> QED
      BY <2>1, <3>1, <3>2 DEF Rebuilt
  <2>4. ASSUME NEW page \in Rebuilt PROVE page \in Happened \/ page.at \in skipped
    <3>1. PICK i \in DOMAIN copy : page = UpcastPage(copy[i]) /\ Handles(UpcastPage(copy[i]).type)
      BY DEF Rebuilt
    <3>2. page = Current(i) /\ page.at = i /\ Handles(CurrentType(i))
      BY <2>1, <2>2, <3>1
    <3> QED
      BY <2>1, <3>1, <3>2 DEF ReadInv, NoneMissed, ProjectedAtLeastOnce
  <2> QED
    BY <2>3, <2>4 DEF Agreement
<1> QED
  BY <1>1, AlwaysRead, AlwaysGenuine, PTL

\* How often anything happens is accounted for, for any registration of
\* handlers, any failures and any speculative calls: a cloud event is published
\* in the order of the log and at most once for each name its type is
\* registered by, whether the full one, the simple one or both; the handler of
\* a projector runs at most once more for each call of it that was speculative
\* or interrupted, and in order as long as there was none.
THEOREM RepetitionsAccounted == Spec => []RepetitionsBounded
<1>1. ReadInv => RepetitionsBounded
  <2> SUFFICES ASSUME ReadInv PROVE RepetitionsBounded
    OBVIOUS
  <2>1. /\ extra \in Nat /\ projector \in {"ProjectorBase", "CloudEventsRouter"}
        /\ effects \in Seq(Pages)
    BY ReadAssumption DEF ReadInv, TypeOK, Projectors
  <2>2. \A i : Times(i) = Count(effects, i)
    BY DEF Times, Count
  <2>3. CASE projector = "CloudEventsRouter"
    <3>1. \A i \in DOMAIN log : Handles(CurrentType(i)) => Times(i) <= Names(i)
      BY <2>2, <2>3 DEF ReadInv, Accounted
    <3>2. Ordered(effects)
      BY <2>3 DEF ReadInv, InOrder
    <3> QED
      BY <2>3, <3>1, <3>2 DEF RepetitionsBounded, Names, Ordered
  <2>4. CASE projector = "ProjectorBase"
    <3>1. ASSUME NEW i \in DOMAIN log PROVE Times(i) <= 1 + extra
      <4>1. Count(effects, i) + Ahead(i) <= extra + Due(i)
        BY <2>4 DEF ReadInv, Accounted
      <4>2. Ahead(i) \in {0, 1} /\ Due(i) \in {0, 1} /\ Count(effects, i) \in Nat
        BY <2>1, CountIsNat DEF Ahead, Due
      <4> QED
        BY <2>1, <2>2, <4>1, <4>2
    <3>2. extra = 0 => Ordered(effects)
      BY <2>4 DEF ReadInv, InOrder
    <3> QED
      BY <2>4, <3>1, <3>2 DEF RepetitionsBounded, Ordered
  <2> QED
    BY <2>1, <2>3, <2>4
<1> QED
  BY <1>1, AlwaysRead, PTL

\* A client's copy is the beginning of the log, for any sequence of queries,
\* reconnections and broken streams.
THEOREM CopyFaithful == Spec => []CopyIsPrefix
<1>1. ReadInv => CopyIsPrefix
  BY DEF ReadInv
<1> QED
  BY <1>1, AlwaysRead, PTL

-------------------------------------------------------------------------------
(* What default projections report *)

(***************************************************************************)
(* The sequence of the loop is that of the last event behind the cursor;   *)
(* what was reported lies before the first event without an answer.        *)
(***************************************************************************)
LastEventSeen ==
  /\ reported < next
  /\ book # Idle =>
       /\ book.first <= book.last
       /\ ~book.own => book.stop = book.last
       /\ \/ lastSeq \in Events(book.first, cursor - 1)
          \/ lastSeq = 1 /\ Events(book.first, cursor - 1) = {}

\* Upcasting makes an event of an event, and of no other page.
LEMMA UpcastKeepsEvents ==
  ASSUME TypeOK, NEW i \in DOMAIN log
  PROVE  CurrentType(i) = Absent <=> log[i] = Absent
<1>1. log[i] \in Type \cup {Absent}
  BY DEF TypeOK
<1> QED
  BY <1>1, ReadAssumption DEF CurrentType

\* One page further, an event is the last one seen, anything else is not.
LEMMA StepSees ==
  ASSUME ReadInv, LastEventSeen, Step
  PROVE  LastEventSeen'
<1>1. /\ TypeOK /\ cursor \in DOMAIN log /\ cursor <= book.stop /\ cursor' = cursor + 1
      /\ book' \in {book, [book EXCEPT !.stop = cursor, !.own = TRUE]}
      /\ UNCHANGED <<log, next, reported>>
  BY StepShape DEF ReadInv
<1>2. /\ cursor \in Nat /\ book.first \in Nat /\ book.stop \in Nat
      /\ book \in [first : 1..MaxEvents, last : 0..Len(log), stop : 0..Len(log),
                   own : BOOLEAN, speculative : BOOLEAN]
  <2>1. /\ cursor \in 1..Len(log) + 1 /\ Len(log) \in Nat
        /\ book \in [first : 1..MaxEvents, last : 0..Len(log), stop : 0..Len(log),
                     own : BOOLEAN, speculative : BOOLEAN]
    BY <1>1 DEF TypeOK
  <2>2. book.first \in 1..MaxEvents /\ book.stop \in 0..Len(log)
    BY <2>1
  <2> QED
    BY <2>1, <2>2
<1>3. book # Idle
  <2>1. book.stop > 0
    BY <1>1, <1>2
  <2> QED
    BY <2>1 DEF Idle
<1>4. lastSeq' = IF log[cursor] # Absent THEN cursor ELSE lastSeq
  <2>1. /\ UpcastPage(Page(cursor)) = Current(cursor)
        /\ Current(cursor).at = cursor /\ Current(cursor).type = CurrentType(cursor)
    BY <1>1, PageTyped
  <2>2. lastSeq' = LastSequence(UpcastPage(Page(cursor)))
    BY DEF Step
  <2>3. CurrentType(cursor) = Absent <=> log[cursor] = Absent
    BY <1>1, UpcastKeepsEvents
  <2> QED
    BY <2>1, <2>2, <2>3 DEF LastSequence
<1>5. /\ book'.first = book.first /\ book'.last = book.last
      /\ ~book'.own => book' = book
  <2>1. CASE book' = book
    BY <2>1
  <2>2. CASE book' = [book EXCEPT !.stop = cursor, !.own = TRUE]
    <3>1. book'.first = book.first /\ book'.last = book.last /\ book'.own = TRUE
      BY <1>2, <2>2
    <3> QED
      BY <3>1
  <2> QED
    BY <1>1, <2>1, <2>2
<1>6. book.first <= cursor
  BY <1>3 DEF ReadInv, BookUnderWay
<1>7. /\ log[cursor] # Absent => cursor \in Events(book.first, cursor)
      /\ log[cursor] = Absent => Events(book.first, cursor) = Events(book.first, cursor - 1)
  <2>1. \A i : i \in book.first..cursor <=> i \in book.first..cursor - 1 \/ i = cursor
    BY <1>2, <1>6
  <2> QED
    BY <2>1 DEF Events
<1>8. Events(book.first, cursor - 1)' = Events(book.first, cursor)
  <2>1. cursor' - 1 = cursor
    BY <1>1, <1>2
  <2> QED
    BY <1>1, <1>5, <2>1 DEF Events
<1>9. \/ lastSeq' \in Events(book.first, cursor)
      \/ lastSeq' = 1 /\ Events(book.first, cursor) = {}
  <2>1. \/ lastSeq \in Events(book.first, cursor - 1)
        \/ lastSeq = 1 /\ Events(book.first, cursor - 1) = {}
    BY <1>3 DEF LastEventSeen
  <2>2. CASE log[cursor] # Absent
    BY <1>4, <1>7, <2>2
  <2>3. CASE log[cursor] = Absent
    BY <1>4, <1>7, <2>1, <2>3
  <2> QED
    BY <2>2, <2>3
<1> QED
  BY <1>1, <1>3, <1>5, <1>8, <1>9 DEF LastEventSeen

\* What an answer reports lies in its book, or there was no event in it.
LEMMA AnswerReports ==
  ASSUME ReadInv, LastEventSeen, Answer
  PROVE  /\ LastEventSeen'
         /\ reported' < reported => reported' = 1 /\ Events(book.first, book.last) = {}
<1>1. /\ TypeOK /\ book # Idle /\ cursor = book.stop + 1 /\ book' = Idle
      /\ UNCHANGED log
      /\ \/ book.speculative /\ UNCHANGED <<next, reported>>
         \/ ~book.speculative /\ next' = book.last + 1 /\ reported' = reported
         \/ /\ ~book.speculative /\ next' = book.last + 1 /\ reported' = lastSeq
            /\ ~book.own
  BY DEF Answer, ReadInv
<1>2. /\ book.first \in Nat \ {0} /\ book.last \in Nat /\ book.stop \in Nat /\ next \in Nat
      /\ cursor \in Nat /\ reported \in Nat
      /\ reported < next /\ book.first <= book.last
      /\ ~book.speculative => book.first = next
  <2>1. /\ book.first \in Nat \ {0} /\ book.last \in Nat /\ book.stop \in Nat /\ next \in Nat
        /\ cursor \in Nat /\ reported \in Nat
    BY <1>1, ReadAssumption DEF TypeOK
  <2> QED
    BY <1>1, <2>1 DEF LastEventSeen, ReadInv, BookUnderWay
<1>3. CASE reported' = reported
  BY <1>1, <1>2, <1>3 DEF LastEventSeen
<1>4. CASE /\ ~book.speculative /\ next' = book.last + 1 /\ reported' = lastSeq /\ ~book.own
  <2>1. cursor - 1 = book.last
    BY <1>1, <1>2, <1>4 DEF LastEventSeen
  <2>2. \/ lastSeq \in Events(book.first, book.last)
        \/ lastSeq = 1 /\ Events(book.first, book.last) = {}
    BY <1>1, <2>1 DEF LastEventSeen
  <2>3. CASE lastSeq \in Events(book.first, book.last)
    <3>1. lastSeq \in book.first..book.last
      BY <2>3 DEF Events
    <3>2. lastSeq \in Nat /\ book.first <= lastSeq /\ lastSeq <= book.last
      BY <1>2, <3>1
    <3>3. reported < lastSeq /\ lastSeq < book.last + 1
      BY <1>2, <1>4, <3>2
    <3> QED
      BY <1>1, <1>2, <1>4, <3>2, <3>3 DEF LastEventSeen
  <2>4. CASE lastSeq = 1 /\ Events(book.first, book.last) = {}
    BY <1>1, <1>2, <1>4, <2>4 DEF LastEventSeen
  <2> QED
    BY <2>2, <2>3, <2>4
<1> QED
  BY <1>1, <1>3, <1>4

\* A new book has no page behind the cursor.
LEMMA DeliverSees ==
  ASSUME ReadInv, LastEventSeen, NEW first \in Nat, NEW last \in Nat,
         NEW speculative \in BOOLEAN, Deliver(first, last, speculative)
  PROVE  LastEventSeen'
<1> DEFINE new == [first |-> first, last |-> last, stop |-> last, own |-> FALSE,
                   speculative |-> speculative]
<1>1. /\ book' = new /\ cursor' = first /\ lastSeq' = 1 /\ last \in first..Len(log)
      /\ UNCHANGED <<next, reported, log>> /\ Len(log) \in Nat
  BY DEF Deliver, ReadInv, TypeOK
<1>2. new.first = first /\ new.last = last /\ new.stop = last
  OBVIOUS
<1> HIDE DEF new
<1>3. first..first - 1 = {}
  OBVIOUS
<1>4. Events(book.first, cursor - 1)' = {}
  BY <1>1, <1>2, <1>3 DEF Events
<1>5. first <= last
  BY <1>1
<1> QED
  BY <1>1, <1>2, <1>4, <1>5 DEF LastEventSeen

\* Pages behind the cursor stay as they are when the log grows.
LEMMA StoreSees ==
  ASSUME ReadInv, LastEventSeen, NEW type \in Type \cup {Absent}, Store(type)
  PROVE  LastEventSeen'
<1>1. /\ log' = log \o <<type>> /\ log \in Seq(Type \cup {Absent})
      /\ UNCHANGED <<next, book, cursor, lastSeq, reported>>
      /\ cursor \in 1..Len(log) + 1 /\ book.first \in 1..MaxEvents
  BY DEF Store, projection, ReadInv, TypeOK
<1>2. \A i \in DOMAIN log : log'[i] = log[i]
  <2>1. <<type>> \in Seq(Type \cup {Absent})
    OBVIOUS
  <2> QED
    BY <1>1, <2>1, Concat
<1>3. \A i \in book.first..cursor - 1 : i \in DOMAIN log
  BY <1>1, ReadAssumption
<1>4. Events(book.first, cursor - 1)' = Events(book.first, cursor - 1)
  BY <1>1, <1>2, <1>3 DEF Events
<1> QED
  BY <1>1, <1>4 DEF LastEventSeen

LEMMA ReportStep ==
  ASSUME ReadInv, LastEventSeen, [Next]_vars
  PROVE  /\ LastEventSeen'
         /\ reported' < reported => reported' = 1 /\ Events(book.first, book.last) = {}
<1>1. reported \in Nat /\ next \in Nat
  BY ReadAssumption DEF ReadInv, TypeOK
<1>2. CASE Answer
  BY <1>2, AnswerReports
<1>3. CASE UNCHANGED <<log, next, book, cursor, lastSeq, reported>>
  BY <1>1, <1>3 DEF LastEventSeen, Events
<1>4. CASE \E type \in Type \cup {Absent} : Store(type)
  <2>1. UNCHANGED reported
    BY <1>4 DEF Store, projection
  <2> QED
    BY <1>1, <1>4, <2>1, StoreSees
<1>5. CASE Step
  <2>1. UNCHANGED reported
    BY <1>5 DEF Step
  <2> QED
    BY <1>1, <1>5, <2>1, StepSees
<1>6. CASE Interrupted
  BY <1>1, <1>6 DEF Interrupted, LastEventSeen
<1>7. CASE Deliveries \/ Speculate
  <2>1. PICK first \in Nat, last \in Nat, speculative \in BOOLEAN : Deliver(first, last, speculative)
    <3>1. 1..Len(log) \subseteq Nat /\ TRUE \in BOOLEAN /\ FALSE \in BOOLEAN
      BY DEF ReadInv, TypeOK
    <3>2. CASE Deliveries
      <4>1. PICK last \in 1..Len(log) : Deliver(next, last, FALSE)
        BY <3>2 DEF Deliveries
      <4> QED
        BY <1>1, <3>1, <4>1
    <3>3. CASE Speculate
      <4>1. PICK first \in 1..Len(log), last \in 1..Len(log) : Deliver(first, last, TRUE)
        BY <3>3 DEF Speculate
      <4> QED
        BY <3>1, <4>1
    <3> QED
      BY <1>7, <3>2, <3>3
  <2>2. UNCHANGED reported
    BY <2>1 DEF Deliver
  <2> QED
    BY <1>1, <2>1, <2>2, DeliverSees
<1>8. CASE UNCHANGED vars \/ Read \/ DialFails \/ CloseShared \/ PollBroken
  BY <1>3, <1>8 DEF vars, projection, Read, Dial, PollFails, Poll, DialFails, CloseShared, PollBroken
<1> QED
  BY <1>2, <1>4, <1>5, <1>6, <1>7, <1>8 DEF Next, Project

\* The sequence of a default projection goes back only for a book without any
\* event, however the log is cut into books and whatever is interrupted.
THEOREM ReportsGoOn == Spec => ReportsAdvance
<1>1. Init => LastEventSeen
  BY DEF Init, LastEventSeen
<1>2. ReadInv /\ LastEventSeen /\ [Next]_vars => LastEventSeen'
  BY ReportStep
<1>3. ReadInv /\ LastEventSeen /\ [Next]_vars =>
        [reported' < reported => reported' = 1 /\ Events(book.first, book.last) = {}]_vars
  BY ReportStep
<1> QED
  BY <1>1, <1>2, <1>3, AlwaysRead, PTL DEF Spec, ReportsAdvance
===============================================================================
