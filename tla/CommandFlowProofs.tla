--------------------------- MODULE CommandFlowProofs ---------------------------
(***************************************************************************)
(* Proofs about CommandFlow for any number of clients, attempts and losses *)
(* and any assignment of merge strategies: its type invariant, that the    *)
(* log it writes is an EventLog, what clients are told, and how often      *)
(* their commands take effect.                                             *)
(***************************************************************************)
EXTENDS CommandFlow, SequenceTheorems, FiniteSetTheorems, TLAPS

(***************************************************************************)
(* The inductive invariant.  A decided batch is numbered from the book it  *)
(* was decided on; that the store compares the first number with the end   *)
(* of the log then says that the book was the whole log.                   *)
(***************************************************************************)
BatchFollowsBook(call) ==
  /\ call.phase = "decided" =>
       \E n \in 0..MaxBatch :
         call.batch = Log!Batch(call.client, n, call.book.next, call.book.next)
  /\ Len(call.batch) <= MaxBatch

AttemptsLeft ==
  \A c \in Client : pc[c] \in {"idle", "ready"} => attempt[c] < MaxAttempts

FlowInv ==
  /\ TypeOK
  /\ AttemptsLeft
  /\ \A call \in flight : BatchFollowsBook(call)

\* A batch has the entries it says it has.
LEMMA BatchType ==
  \A c \in Client, n, from, basis \in Nat :
    /\ Log!Batch(c, n, from, basis) \in Seq(Entry)
    /\ Len(Log!Batch(c, n, from, basis)) = n
    /\ n > 0 => Log!Batch(c, n, from, basis)[1].seq = from
<1> TAKE c \in Client, n, from, basis \in Nat
<1> DEFINE b == [i \in 1..n |-> [seq |-> from + i - 1, by |-> c, basis |-> basis]]
<1>1. \A i \in 1..n : [seq |-> from + i - 1, by |-> c, basis |-> basis] \in Entry
  BY DEF Entry
<1>2. b \in [1..n -> Entry]
  BY <1>1
<1>3. b \in Seq(Entry) /\ Len(b) = n
  BY <1>2
<1>4. n > 0 => b[1].seq = from
  OBVIOUS
<1> QED
  BY <1>3, <1>4 DEF Log!Batch

\* The next sequence of a book of n events is n.
LEMMA BookType ==
  ASSUME NEW n \in Nat, NEW book \in Books(n)
  PROVE  book.next = n /\ book \in [pages : Nat, next : Nat]
BY DEF Books

LEMMA InitFlow == Init => FlowInv
BY FlowAssumption DEF Init, FlowInv, TypeOK, AttemptsLeft

\* Replacing a call by one that is as good keeps the calls in flight good.
LEMMA BecomesGood ==
  ASSUME FlowInv, NEW call \in flight, NEW changed \in Call,
         Becomes(call, changed), BatchFollowsBook(changed)
  PROVE  flight' \subseteq Call /\ \A x \in flight' : BatchFollowsBook(x)
BY DEF FlowInv, TypeOK, Becomes

\* A call that fails keeps its batch, which is not looked at any more.
LEMMA FailsGood ==
  ASSUME FlowInv, NEW call \in flight, NEW code \in Codes, Fails(call, code)
  PROVE  flight' \subseteq Call /\ \A x \in flight' : BatchFollowsBook(x)
<1> DEFINE changed == [call EXCEPT !.phase = "answered", !.code = code]
<1>1. call \in Call /\ BatchFollowsBook(call)
  BY DEF FlowInv, TypeOK
<1>2. /\ changed \in Call
      /\ changed.phase = "answered" /\ changed.batch = call.batch
  BY <1>1 DEF Call
<1>3. BatchFollowsBook(changed)
  BY <1>1, <1>2 DEF BatchFollowsBook
<1>4. Becomes(call, changed)
  BY DEF Fails
<1> QED
  BY <1>2, <1>3, <1>4, BecomesGood

\* A step of a client keeps the invariant.
LEMMA ClientStep ==
  ASSUME FlowInv, NEW c \in Client,
         Fetch(c) \/ Submit(c) \/ BuildFails(c) \/ Answer(c) \/ FetchBroken(c) \/ Lose(c)
  PROVE  FlowInv'
<1> USE FlowAssumption
<1>1. CASE Fetch(c)
  <2>1. PICK book \in Books(Len(log)) :
          /\ pc[c] = "idle"
          /\ pc' = [pc EXCEPT ![c] = "ready"]
          /\ seq' = [seq EXCEPT ![c] = NextSequence(book)]
          /\ UNCHANGED <<log, attempt, produced, flight, losses>>
    BY <1>1 DEF Fetch
  <2>2. NextSequence(book) \in Nat
    BY BookType DEF NextSequence, FlowInv, TypeOK
  <2> QED
    BY <2>1, <2>2 DEF FlowInv, TypeOK, AttemptsLeft, BatchFollowsBook
<1>2. CASE Submit(c)
  <2> DEFINE new == [client |-> c, attempt |-> attempt'[c], seq |-> seq[c],
                     phase |-> "sent", book |-> NoBook, batch |-> << >>, code |-> "OK"]
  <2>1. /\ pc[c] = "ready" /\ pc' = [pc EXCEPT ![c] = "waiting"]
        /\ attempt' = [attempt EXCEPT ![c] = @ + 1]
        /\ flight' = flight \cup {new}
        /\ UNCHANGED <<log, seq, produced, losses>>
    BY <1>2 DEF Submit
  <2>2. attempt'[c] \in 1..MaxAttempts /\ attempt' \in [Client -> 0..MaxAttempts]
    BY <2>1 DEF FlowInv, TypeOK, AttemptsLeft
  <2>3. new \in Call
    BY <2>2 DEF Call, NoBook, Codes, FlowInv, TypeOK
  <2>4. BatchFollowsBook(new)
    BY DEF BatchFollowsBook
  <2> HIDE DEF new
  <2> QED
    BY <2>1, <2>2, <2>3, <2>4 DEF FlowInv, TypeOK, AttemptsLeft, BatchFollowsBook
<1>3. CASE Answer(c)
  <2>1. PICK call \in flight :
          /\ pc[c] = "waiting"
          /\ flight' = flight \ {call}
          /\ \/ /\ pc' = [pc EXCEPT ![c] = "done"]
                /\ produced' = [produced EXCEPT ![c] = Len(call.batch)]
             \/ AfterFailure(c, call.code) /\ UNCHANGED produced
          /\ UNCHANGED <<log, seq, attempt, losses>>
    BY <1>3 DEF Answer, Reported
  <2>2. Len(call.batch) \in 0..MaxBatch
    BY DEF FlowInv, TypeOK, Call, BatchFollowsBook
  <2>3. pc' = [pc EXCEPT ![c] = "done"] \/ \E p \in {"idle", "failed"} : pc' = [pc EXCEPT ![c] = p]
    BY <2>1 DEF AfterFailure
  <2>4. attempt[c] < MaxAttempts \/ pc' # [pc EXCEPT ![c] = "idle"]
    BY <2>1 DEF AfterFailure, FlowInv, TypeOK
  <2>5. TypeOK'
    BY <2>1, <2>2, <2>3 DEF FlowInv, TypeOK
  <2>6. AttemptsLeft'
    BY <2>1, <2>3, <2>4 DEF FlowInv, TypeOK, AttemptsLeft
  <2>7. \A k \in flight' : BatchFollowsBook(k)
    BY <2>1 DEF FlowInv
  <2> QED
    BY <2>5, <2>6, <2>7 DEF FlowInv, BatchFollowsBook
<1>4. CASE Lose(c)
  BY <1>4 DEF Lose, FlowInv, TypeOK, AttemptsLeft, BatchFollowsBook
<1>5. CASE FetchBroken(c)
  BY <1>5 DEF FetchBroken, NextSequence, NoBook, FlowInv, TypeOK, AttemptsLeft, BatchFollowsBook
<1>6. CASE BuildFails(c)
  BY <1>6 DEF BuildFails, FlowInv, TypeOK, AttemptsLeft, BatchFollowsBook
<1> QED
  BY <1>1, <1>2, <1>3, <1>4, <1>5, <1>6

\* A step of the coordinator or the handler keeps the invariant.
LEMMA ProcessStep ==
  ASSUME FlowInv, NEW call \in flight,
         Load(call) \/ Decide(call) \/ Persist(call) \/ Discard(call)
  PROVE  FlowInv'
<1> USE FlowAssumption
<1>1. /\ call \in Call /\ BatchFollowsBook(call)
      /\ log \in Seq(Entry) /\ Len(log) \in Nat
  BY DEF FlowInv, TypeOK
<1>2. ASSUME flight' \subseteq Call, \A x \in flight' : BatchFollowsBook(x),
             log' \in Seq(Entry), UNCHANGED <<client, losses>>
      PROVE  FlowInv'
  BY <1>2 DEF FlowInv, TypeOK, AttemptsLeft, client, BatchFollowsBook
<1>3. MismatchCode(call.client) \in Codes /\ RejectionCode \in Codes
  BY DEF MismatchCode, RejectionCode, Codes
<1>8. "INVALID_ARGUMENT" \in Codes
  BY DEF Codes
<1>4. CASE Load(call)
  <2>1. PICK book \in Books(Len(log)) :
          /\ \/ Becomes(call, [call EXCEPT !.phase = "loaded", !.book = book])
             \/ Fails(call, MismatchCode(call.client))
          /\ UNCHANGED <<log, client, losses>>
    BY <1>4 DEF Load
  <2> DEFINE changed == [call EXCEPT !.phase = "loaded", !.book = book]
  <2>2. /\ changed \in Call
        /\ changed.phase = "loaded" /\ changed.batch = call.batch
    BY <1>1, BookType DEF Call
  <2>3. BatchFollowsBook(changed)
    BY <1>1, <2>2 DEF BatchFollowsBook
  <2>4. flight' \subseteq Call /\ \A x \in flight' : BatchFollowsBook(x)
    BY <1>3, <2>1, <2>2, <2>3, BecomesGood, FailsGood
  <2> QED
    BY <1>1, <1>2, <2>1, <2>4
<1>5. CASE Decide(call)
  <2>1. CASE \E n \in 0..MaxBatch :
               Becomes(call, [call EXCEPT !.phase = "decided", !.batch = EventsFrom(call, n)])
    <3>1. PICK n \in 0..MaxBatch :
            Becomes(call, [call EXCEPT !.phase = "decided", !.batch = EventsFrom(call, n)])
      BY <2>1
    <3> DEFINE batch == Log!Batch(call.client, n, call.book.next, call.book.next)
               changed == [call EXCEPT !.phase = "decided", !.batch = batch]
    <3>2. EventsFrom(call, n) = batch
      BY DEF EventsFrom, NextSequence
    <3>3. call.client \in Client /\ call.book.next \in Nat /\ n \in Nat
      BY <1>1 DEF Call
    <3>4. batch \in Seq(Entry) /\ Len(batch) = n
      <4>1. PICK c \in Client, m \in Nat : c = call.client /\ m = call.book.next
        BY <3>3
      <4>2. n \in Nat
        BY <3>3
      <4>3. Log!Batch(c, n, m, m) \in Seq(Entry) /\ Len(Log!Batch(c, n, m, m)) = n
        BY <4>2, BatchType
      <4> QED
        BY <4>1, <4>3
    <3> HIDE DEF batch
    <3>5. /\ changed \in Call
          /\ changed.batch = batch /\ changed.client = call.client
          /\ changed.book = call.book
      BY <1>1, <3>4 DEF Call
    <3>6. BatchFollowsBook(changed)
      BY <3>4, <3>5 DEF BatchFollowsBook, batch
    <3>7. Becomes(call, changed)
      BY <3>1, <3>2
    <3>8. flight' \subseteq Call /\ \A x \in flight' : BatchFollowsBook(x)
      BY <3>5, <3>6, <3>7, BecomesGood
    <3> QED
      BY <1>1, <1>2, <1>5, <3>8 DEF Decide
  <2>2. CASE Fails(call, RejectionCode)
    <3>1. flight' \subseteq Call /\ \A x \in flight' : BatchFollowsBook(x)
      BY <1>3, <2>2, FailsGood
    <3> QED
      BY <1>1, <1>2, <1>5, <3>1 DEF Decide
  <2>3. CASE Fails(call, "INVALID_ARGUMENT")
    <3>1. flight' \subseteq Call /\ \A x \in flight' : BatchFollowsBook(x)
      BY <1>8, <2>3, FailsGood
    <3> QED
      BY <1>1, <1>2, <1>5, <3>1 DEF Decide
  <2> QED
    BY <1>5, <2>1, <2>2, <2>3 DEF Decide
<1>6. CASE Persist(call)
  <2> DEFINE changed == [call EXCEPT !.phase = "answered"]
  <2>1. /\ changed \in Call
        /\ changed.phase = "answered" /\ changed.batch = call.batch
    BY <1>1 DEF Call
  <2>2. BatchFollowsBook(changed)
    BY <1>1, <2>1 DEF BatchFollowsBook
  <2>3. \/ log' = log \o call.batch /\ Becomes(call, changed)
        \/ UNCHANGED log /\ Fails(call, MismatchCode(call.client))
    BY <1>6 DEF Persist
  <2>4. flight' \subseteq Call /\ \A x \in flight' : BatchFollowsBook(x)
    BY <1>3, <2>1, <2>2, <2>3, BecomesGood, FailsGood
  <2>5. log \o call.batch \in Seq(Entry)
    BY <1>1, ConcatProperties DEF Call
  <2> QED
    BY <1>1, <1>2, <1>6, <2>3, <2>4, <2>5 DEF Persist
<1>7. CASE Discard(call)
  BY <1>1, <1>2, <1>7 DEF Discard, FlowInv, TypeOK
<1> QED
  BY <1>4, <1>5, <1>6, <1>7

LEMMA FlowStep == FlowInv /\ [Next]_vars => FlowInv'
<1> SUFFICES ASSUME FlowInv, [Next]_vars PROVE FlowInv'
  OBVIOUS
<1>1. CASE UNCHANGED vars
  BY <1>1 DEF vars, client, FlowInv, TypeOK, AttemptsLeft, BatchFollowsBook
<1>2. CASE Next
  BY <1>2, ClientStep, ProcessStep DEF Next, Process
<1> QED
  BY <1>1, <1>2

LEMMA AlwaysFlowInv == Spec => []FlowInv
BY InitFlow, FlowStep, PTL DEF Spec

\* Log, clients and calls in flight keep their types, whatever the number of
\* clients and however they interleave.
THEOREM FlowTypeCorrect == Spec => []TypeOK
<1>1. FlowInv => TypeOK
  BY DEF FlowInv
<1> QED
  BY <1>1, AlwaysFlowInv, PTL

\* Each step appends one batch that was decided on the whole log, or leaves
\* the log alone.
LEMMA SerialStep == FlowInv /\ [Next]_vars => [Log!Next]_log
<1> SUFFICES ASSUME FlowInv, [Next]_vars, log' # log PROVE Log!Next
  OBVIOUS
<1>1. PICK call \in flight : Persist(call)
  BY DEF Next, Process, Fetch, FetchBroken, Submit, BuildFails, Answer, Reported, Lose, Load, Decide, Discard, vars
<1>2. /\ call \in Call /\ BatchFollowsBook(call) /\ log \in Seq(Entry)
      /\ call.phase = "decided" /\ log' = log \o call.batch
      /\ call.batch = << >> \/ call.batch[1].seq = Len(log)
  BY <1>1 DEF Persist, FlowInv, TypeOK
<1>3. PICK n \in 0..MaxBatch :
        call.batch = Log!Batch(call.client, n, call.book.next, call.book.next)
  BY <1>2 DEF BatchFollowsBook
<1>4. PICK c \in Client, m \in Nat : c = call.client /\ m = call.book.next
  BY <1>2 DEF Call
<1>5. n \in Nat /\ call.batch = Log!Batch(c, n, m, m)
  BY <1>3, <1>4, FlowAssumption
<1>6. /\ call.batch \in Seq(Entry) /\ Len(call.batch) = n
      /\ n > 0 => call.batch[1].seq = m
  BY <1>5, BatchType
<1>7. n # 0
  <2>1. log \o << >> = log
    BY <1>2
  <2>2. n = 0 => call.batch = << >>
    BY <1>6, EmptySeq
  <2> QED
    BY <1>2, <2>1, <2>2
<1>8. m = Len(log)
  BY <1>2, <1>5, <1>6, <1>7
<1>9. Log!Commit(c, n)
  BY <1>2, <1>5, <1>8 DEF Log!Commit
<1> QED
  BY <1>5, <1>7, <1>9, FlowAssumption DEF Log!Next

\* The log of the root is serial: every batch was decided on everything
\* before it and carries its place, for any number of clients, calls in
\* flight, lost answers and any mixture of merge strategies.
THEOREM Serial == Spec => LogIsSerial
<1>1. Init => Log!Init
  BY DEF Init, Log!Init
<1> QED
  BY <1>1, AlwaysFlowInv, SerialStep, PTL DEF Spec, LogIsSerial, Log!Spec

-------------------------------------------------------------------------------
(* Verdicts, the optimistic lock, and commands that are sent again *)

Locking(c) == Strategy[c] # "AGGREGATE_HANDLES"

\* The clients that never fetch a second time: FAILED_PRECONDITION is no failure
\* of theirs, and all others are final.
FetchesOnce(c) == Strategy[c] = "STRICT" /\ c \notin Rejected \cup BadInput

(***************************************************************************)
(* A call has failed only once it is answered, and unless validation is    *)
(* bypassed it decides on the book its sequence stands for.                *)
(***************************************************************************)
CallsUnderWay == \A call \in flight :
  /\ call.phase # "answered" => call.code = "OK"
  /\ call.phase \in {"loaded", "decided"} /\ Locking(call.client) => call.book.next = call.seq

\* The log holds n events by c, all of one commit, made where its sequence
\* says if it locks.
Wrote(c, n) ==
  /\ Cardinality(By(c)) = n
  /\ \E basis \in Nat : Commits(c) \subseteq {basis}
  /\ Locking(c) => Commits(c) \subseteq {seq[c]}

(***************************************************************************)
(* As long as nothing was lost, a client waits for its only call, and its  *)
(* events are in the log from the commit of that call on.                  *)
(***************************************************************************)
NothingLost == losses = 0 =>
  /\ \A call \in flight :
       /\ pc[call.client] = "waiting"
       /\ call.seq = seq[call.client] /\ call.attempt = attempt[call.client]
  /\ \A x, y \in flight : x.client = y.client => x = y
  /\ \A c \in Client : By(c) # {} =>
       \/ pc[c] = "done"
       \/ \E call \in flight : call.client = c /\ call.phase = "answered" /\ call.code = "OK"
  /\ \A call \in flight :
       call.phase = "answered" /\ call.code = "OK" => Wrote(call.client, Len(call.batch))
  /\ \A c \in Client : pc[c] = "done" => Wrote(c, produced[c])

(***************************************************************************)
(* With losses: all calls of a client that fetches once carry the same     *)
(* sequence, so the first one that commits an event shuts out the others.  *)
(***************************************************************************)
OneSequence == \A c \in Client : FetchesOnce(c) =>
  /\ Commits(c) \subseteq {seq[c]}
  /\ pc[c] = "idle" => By(c) = {}
  /\ \A call \in flight : call.client = c =>
       pc[c] # "idle" /\ call.seq = seq[c] /\ call.code # "FAILED_PRECONDITION"

VerdictInv == FlowInv /\ CallsUnderWay /\ NothingLost /\ OneSequence

-------------------------------------------------------------------------------
(* How the log changes *)

\* A step that leaves the log alone leaves what each client wrote alone.
LEMMA SameLog ==
  ASSUME UNCHANGED log
  PROVE  \A c \in Client : By(c)' = By(c) /\ Commits(c)' = Commits(c)
BY DEF By, Commits

\* A client that wrote nothing committed nothing.
LEMMA NothingWritten ==
  ASSUME NEW c \in Client, By(c) = {}
  PROVE  Commits(c) = {}
BY DEF Commits

\* Appending a decided batch adds its events to what its client wrote, with
\* the decision's basis, and nothing to what the others wrote.
LEMMA AppendBatch ==
  ASSUME log \in Seq(Entry), NEW c \in Client, NEW n \in Nat, NEW basis \in Nat,
         log' = log \o Log!Batch(c, n, basis, basis)
  PROVE  /\ By(c)' = By(c) \cup ((Len(log) + 1)..(Len(log) + n))
         /\ Commits(c)' \subseteq Commits(c) \cup {basis}
         /\ \A d \in Client \ {c} : By(d)' = By(d) /\ Commits(d)' = Commits(d)
<1> DEFINE batch == Log!Batch(c, n, basis, basis)
<1>1. batch \in Seq(Entry) /\ Len(batch) = n
  BY BatchType
<1>2. \A i \in 1..n : batch[i].by = c /\ batch[i].basis = basis
  BY DEF Log!Batch
<1> HIDE DEF batch
<1>3. /\ log' = log \o batch /\ Len(log') = Len(log) + n
      /\ \A i \in 1..Len(log) : log'[i] = log[i]
      /\ \A i \in 1..n : log'[Len(log) + i] = batch[i]
  <2>1. log' = log \o batch
    BY DEF batch
  <2>2. /\ Len(log \o batch) = Len(log) + Len(batch)
        /\ \A i \in 1..Len(log) + Len(batch) :
             (log \o batch)[i] = IF i <= Len(log) THEN log[i] ELSE batch[i - Len(log)]
    BY <1>1, ConcatProperties
  <2>3. Len(log) \in Nat
    OBVIOUS
  <2>4. \A i \in 1..Len(log) : log'[i] = log[i]
    BY <1>1, <2>1, <2>2, <2>3
  <2>5. \A i \in 1..n : log'[Len(log) + i] = batch[i]
    BY <1>1, <2>1, <2>2, <2>3
  <2> QED
    BY <1>1, <2>1, <2>2, <2>4, <2>5
<1>4. /\ DOMAIN log = 1..Len(log) /\ DOMAIN log' = 1..(Len(log) + n)
      /\ Len(log) \in Nat
  <2>1. log' \in Seq(Entry)
    BY <1>1, <1>3, ConcatProperties
  <2> QED
    BY <1>3, <2>1
<1>5. \A i \in (Len(log) + 1)..(Len(log) + n) : log'[i].by = c /\ log'[i].basis = basis
  <2> TAKE i \in (Len(log) + 1)..(Len(log) + n)
  <2>1. i - Len(log) \in 1..n /\ i = Len(log) + (i - Len(log))
    BY <1>4
  <2> QED
    BY <1>2, <1>3, <2>1
<1>6. \A d \in Client : By(d)' = IF d = c THEN By(d) \cup ((Len(log) + 1)..(Len(log) + n)) ELSE By(d)
  BY <1>3, <1>4, <1>5 DEF By
<1>7. \A d \in Client : By(d) \subseteq 1..Len(log)
  BY <1>4 DEF By
<1>8. Commits(c)' \subseteq Commits(c) \cup {basis}
  BY <1>3, <1>5, <1>6, <1>7 DEF Commits
<1>9. \A d \in Client \ {c} : Commits(d)' = Commits(d)
  BY <1>3, <1>6, <1>7 DEF Commits
<1> QED
  BY <1>6, <1>8, <1>9

LEMMA InitVerdict == Init => VerdictInv
<1> SUFFICES ASSUME Init PROVE VerdictInv
  OBVIOUS
<1>1. \A c \in Client : By(c) = {} /\ Commits(c) = {}
  BY DEF Init, By, Commits
<1> QED
  BY <1>1, InitFlow DEF Init, VerdictInv, CallsUnderWay, NothingLost, OneSequence

-------------------------------------------------------------------------------
(* Clients *)

LEMMA FetchVerdict ==
  ASSUME VerdictInv, NEW c \in Client, Fetch(c) \/ FetchBroken(c)
  PROVE  CallsUnderWay' /\ NothingLost' /\ OneSequence'
<1>1. PICK s : /\ pc[c] = "idle" /\ pc' = [pc EXCEPT ![c] = "ready"]
               /\ seq' = [seq EXCEPT ![c] = s]
               /\ UNCHANGED <<log, attempt, produced, flight>>
               /\ losses' = losses \/ losses' = losses + 1
  BY DEF Fetch, FetchBroken
<1>2. TypeOK
  BY DEF VerdictInv, FlowInv
<1>3. CallsUnderWay'
  BY <1>1 DEF VerdictInv, CallsUnderWay, Locking
<1>4. \A d \in Client : By(d)' = By(d) /\ Commits(d)' = Commits(d)
  BY <1>1, SameLog
<1>5. NothingLost'
  <2> SUFFICES ASSUME losses' = 0 PROVE NothingLost'
    BY DEF NothingLost
  <2>1. losses = 0
    BY <1>1, <1>2 DEF TypeOK
  <2>2. \A call \in flight : call.client # c /\ call.client \in Client
    BY <1>1, <1>2, <2>1 DEF VerdictInv, NothingLost, TypeOK, Call
  <2>3. \A d \in Client \ {c} : \A n : Wrote(d, n) => Wrote(d, n)'
    BY <1>1, <1>2, <1>4 DEF Wrote, Locking, TypeOK
  <2> QED
    BY <1>1, <1>2, <1>4, <2>1, <2>2, <2>3 DEF VerdictInv, NothingLost, TypeOK
<1>6. OneSequence'
  <2> SUFFICES ASSUME NEW d \in Client, FetchesOnce(d)
               PROVE  (/\ Commits(d) \subseteq {seq[d]}
                       /\ pc[d] = "idle" => By(d) = {}
                       /\ \A call \in flight : call.client = d =>
                            /\ pc[d] # "idle" /\ call.seq = seq[d]
                            /\ call.code # "FAILED_PRECONDITION")'
    BY DEF OneSequence, FetchesOnce
  <2>1. CASE d = c
    <3>1. By(c) = {} /\ (\A call \in flight : call.client # c)
      BY <1>1, <2>1 DEF VerdictInv, OneSequence
    <3>2. Commits(c) = {}
      BY <3>1, NothingWritten
    <3>3. Commits(c)' = {} /\ By(c)' = {}
      BY <1>4, <3>1, <3>2
    <3> QED
      BY <1>1, <2>1, <3>1, <3>3
  <2>2. CASE d # c
    BY <1>1, <1>2, <1>4, <2>2 DEF VerdictInv, OneSequence, TypeOK
  <2> QED
    BY <2>1, <2>2
<1> QED
  BY <1>3, <1>5, <1>6

LEMMA SubmitVerdict ==
  ASSUME VerdictInv, NEW c \in Client, Submit(c)
  PROVE  CallsUnderWay' /\ NothingLost' /\ OneSequence'
<1> DEFINE new == [client |-> c, attempt |-> attempt'[c], seq |-> seq[c],
                   phase |-> "sent", book |-> NoBook, batch |-> << >>, code |-> "OK"]
<1>1. /\ pc[c] = "ready" /\ pc' = [pc EXCEPT ![c] = "waiting"]
      /\ attempt' = [attempt EXCEPT ![c] = @ + 1]
      /\ flight' = flight \cup {new}
      /\ UNCHANGED <<log, seq, produced, losses>>
  BY DEF Submit
<1>2. TypeOK
  BY DEF VerdictInv, FlowInv
<1>3. /\ new.client = c /\ new.phase = "sent" /\ new.seq = seq[c]
      /\ new.attempt = attempt'[c] /\ new.code = "OK"
  OBVIOUS
<1> HIDE DEF new
<1>4. CallsUnderWay'
  BY <1>1, <1>3 DEF VerdictInv, CallsUnderWay, Locking
<1>5. \A d \in Client : By(d)' = By(d) /\ Commits(d)' = Commits(d)
  BY <1>1, SameLog
<1>6. NothingLost'
  <2> SUFFICES ASSUME losses = 0 PROVE NothingLost'
    BY <1>1 DEF NothingLost
  <2>1. \A call \in flight : call.client # c /\ call.client \in Client
    BY <1>1, <1>2 DEF VerdictInv, NothingLost, TypeOK, Call
  <2>2. \A d \in Client : \A n : Wrote(d, n) => Wrote(d, n)'
    BY <1>1, <1>5 DEF Wrote, Locking
  <2>3. By(c) = {}
    BY <1>1, <2>1 DEF VerdictInv, NothingLost
  <2>4. (/\ \A call \in flight :
              /\ pc[call.client] = "waiting"
              /\ call.seq = seq[call.client] /\ call.attempt = attempt[call.client]
         /\ \A x, y \in flight : x.client = y.client => x = y)'
    BY <1>1, <1>2, <1>3, <2>1 DEF VerdictInv, NothingLost, TypeOK
  <2>5. (\A d \in Client : By(d) # {} =>
           \/ pc[d] = "done"
           \/ \E call \in flight :
                call.client = d /\ call.phase = "answered" /\ call.code = "OK")'
    <3> SUFFICES ASSUME NEW d \in Client, By(d)' # {}
                 PROVE  \/ pc'[d] = "done"
                        \/ \E call \in flight' :
                             call.client = d /\ call.phase = "answered" /\ call.code = "OK"
      OBVIOUS
    <3>1. d # c /\ By(d) # {}
      BY <1>5, <2>3
    <3>2. pc'[d] = pc[d] /\ flight \subseteq flight'
      BY <1>1, <1>2, <3>1 DEF TypeOK
    <3> QED
      BY <3>1, <3>2 DEF VerdictInv, NothingLost
  <2>6. (/\ \A call \in flight :
              call.phase = "answered" /\ call.code = "OK" => Wrote(call.client, Len(call.batch))
         /\ \A d \in Client : pc[d] = "done" => Wrote(d, produced[d]))'
    BY <1>1, <1>2, <1>3, <2>1, <2>2 DEF VerdictInv, NothingLost, TypeOK
  <2> QED
    BY <2>4, <2>5, <2>6 DEF NothingLost
<1>7. OneSequence'
  BY <1>1, <1>2, <1>3, <1>5 DEF VerdictInv, OneSequence, FetchesOnce, TypeOK
<1> QED
  BY <1>4, <1>6, <1>7

LEMMA BuildFailsVerdict ==
  ASSUME VerdictInv, NEW c \in Client, BuildFails(c)
  PROVE  CallsUnderWay' /\ NothingLost' /\ OneSequence'
<1>1. TypeOK
  BY DEF VerdictInv, FlowInv
<1>2. /\ pc[c] = "ready" /\ pc' = [pc EXCEPT ![c] = "failed"]
      /\ UNCHANGED <<log, seq, attempt, produced, flight, losses>>
  BY DEF BuildFails
<1>3. \A d \in Client : By(d)' = By(d) /\ Commits(d)' = Commits(d)
  BY <1>2, SameLog
<1>4. CallsUnderWay' /\ OneSequence'
  BY <1>1, <1>2, <1>3 DEF VerdictInv, CallsUnderWay, Locking, OneSequence, FetchesOnce, TypeOK
<1>5. NothingLost'
  <2> SUFFICES ASSUME losses = 0 PROVE NothingLost'
    BY <1>2 DEF NothingLost
  <2>1. \A call \in flight : call.client # c /\ call.client \in Client
    BY <1>1, <1>2 DEF VerdictInv, NothingLost, TypeOK, Call
  <2>2. \A d \in Client : \A n : Wrote(d, n) => Wrote(d, n)'
    BY <1>2, <1>3 DEF Wrote, Locking
  <2>3. \A d \in Client : pc'[d] = IF d = c THEN "failed" ELSE pc[d]
    BY <1>1, <1>2 DEF TypeOK
  <2> QED
    BY <1>2, <1>3, <2>1, <2>2, <2>3 DEF VerdictInv, NothingLost
<1> QED
  BY <1>4, <1>5

LEMMA AnswerVerdict ==
  ASSUME VerdictInv, NEW c \in Client, Answer(c)
  PROVE  CallsUnderWay' /\ NothingLost' /\ OneSequence'
<1>1. PICK call \in flight :
        /\ call.client = c /\ call.phase = "answered" /\ pc[c] = "waiting"
        /\ flight' = flight \ {call}
        /\ \/ /\ call.code = "OK" /\ pc' = [pc EXCEPT ![c] = "done"]
              /\ produced' = [produced EXCEPT ![c] = Len(call.batch)]
           \/ call.code # "OK" /\ AfterFailure(c, call.code) /\ UNCHANGED produced
        /\ UNCHANGED <<log, seq, attempt, losses>>
  BY DEF Answer, Reported
<1>2. TypeOK
  BY DEF VerdictInv, FlowInv
<1>3. CallsUnderWay'
  BY <1>1 DEF VerdictInv, CallsUnderWay, Locking
<1>4. \A d \in Client : By(d)' = By(d) /\ Commits(d)' = Commits(d)
  BY <1>1, SameLog
<1>5. /\ \A d \in Client \ {c} : pc'[d] = pc[d] /\ produced'[d] = produced[d]
      /\ call.code = "OK" => pc'[c] = "done" /\ produced'[c] = Len(call.batch)
      /\ call.code # "OK" => pc'[c] \in {"idle", "failed"}
      /\ pc'[c] = "idle" => call.code = "FAILED_PRECONDITION"
  BY <1>1, <1>2 DEF AfterFailure, TypeOK
<1>6. NothingLost'
  <2> SUFFICES ASSUME losses = 0 PROVE NothingLost'
    BY <1>1 DEF NothingLost
  <2>1. \A x \in flight' : x \in flight /\ x.client # c /\ x.client \in Client
    BY <1>1, <1>2 DEF VerdictInv, NothingLost, TypeOK, Call
  <2>2. \A d \in Client : \A n : Wrote(d, n) => Wrote(d, n)'
    BY <1>1, <1>4 DEF Wrote, Locking
  <2>3. (/\ \A x \in flight :
              /\ pc[x.client] = "waiting"
              /\ x.seq = seq[x.client] /\ x.attempt = attempt[x.client]
         /\ \A x, y \in flight : x.client = y.client => x = y)'
    BY <1>1, <1>5, <2>1 DEF VerdictInv, NothingLost
  <2>4. call.code # "OK" => By(c) = {}
    BY <1>1 DEF VerdictInv, NothingLost
  <2>5. (\A d \in Client : By(d) # {} =>
           \/ pc[d] = "done"
           \/ \E x \in flight : x.client = d /\ x.phase = "answered" /\ x.code = "OK")'
    BY <1>1, <1>4, <1>5, <2>4 DEF VerdictInv, NothingLost
  <2>6. (\A x \in flight :
           x.phase = "answered" /\ x.code = "OK" => Wrote(x.client, Len(x.batch)))'
    BY <2>1, <2>2 DEF VerdictInv, NothingLost
  <2>7. (\A d \in Client : pc[d] = "done" => Wrote(d, produced[d]))'
    BY <1>1, <1>5, <2>2 DEF VerdictInv, NothingLost
  <2> QED
    BY <2>3, <2>5, <2>6, <2>7 DEF NothingLost
<1>7. OneSequence'
  BY <1>1, <1>4, <1>5 DEF VerdictInv, OneSequence, FetchesOnce
<1> QED
  BY <1>3, <1>6, <1>7

LEMMA LoseVerdict ==
  ASSUME VerdictInv, NEW c \in Client, Lose(c)
  PROVE  CallsUnderWay' /\ NothingLost' /\ OneSequence'
<1>1. TypeOK
  BY DEF VerdictInv, FlowInv
<1>2. /\ losses' = losses + 1 /\ losses \in Nat
      /\ UNCHANGED <<log, seq, attempt, produced, flight>>
      /\ pc[c] = "waiting" /\ pc' = [pc EXCEPT ![c] = pc'[c]] /\ pc'[c] # "idle"
  BY <1>1 DEF Lose, TypeOK
<1>3. NothingLost'
  BY <1>2 DEF NothingLost
<1>4. CallsUnderWay'
  BY <1>2 DEF VerdictInv, CallsUnderWay, Locking
<1>5. \A d \in Client : By(d)' = By(d) /\ Commits(d)' = Commits(d)
  BY <1>2, SameLog
<1>6. OneSequence'
  BY <1>1, <1>2, <1>5 DEF VerdictInv, OneSequence, FetchesOnce, TypeOK
<1> QED
  BY <1>3, <1>4, <1>6

-------------------------------------------------------------------------------
(* Calls *)

(***************************************************************************)
(* A call goes on without touching the log: it is not yet answered with    *)
(* OK, what it decides on is what its sequence stands for, and it fails    *)
(* finally if its client fetches once.                                     *)
(***************************************************************************)
GoesOn(call, changed) ==
  /\ changed.client = call.client /\ changed.seq = call.seq
  /\ changed.attempt = call.attempt
  /\ changed.phase = "answered" <=> changed.code # "OK"
  /\ changed.phase \in {"loaded", "decided"} /\ Locking(call.client) =>
       changed.book.next = changed.seq
  /\ FetchesOnce(call.client) => changed.code # "FAILED_PRECONDITION"

LEMMA GoesOnVerdict ==
  ASSUME VerdictInv, NEW call \in flight, NEW changed,
         call.phase # "answered", GoesOn(call, changed), Becomes(call, changed),
         UNCHANGED <<log, client, losses>>
  PROVE  CallsUnderWay' /\ NothingLost' /\ OneSequence'
<1>1. /\ flight' = (flight \ {call}) \cup {changed}
      /\ UNCHANGED <<log, pc, seq, attempt, produced, losses>>
  BY DEF Becomes, client
<1>2. call.client \in Client
  BY DEF VerdictInv, FlowInv, TypeOK, Call
<1>3. CallsUnderWay'
  BY <1>1 DEF VerdictInv, CallsUnderWay, Locking, GoesOn
<1>4. \A d \in Client : By(d)' = By(d) /\ Commits(d)' = Commits(d)
  BY <1>1, SameLog
<1>5. NothingLost'
  <2> SUFFICES ASSUME losses = 0 PROVE NothingLost'
    BY <1>1 DEF NothingLost
  <2>1. \A d \in Client : \A n : Wrote(d, n) => Wrote(d, n)'
    BY <1>1, <1>4 DEF Wrote, Locking
  <2>2. (/\ \A x \in flight :
              /\ pc[x.client] = "waiting"
              /\ x.seq = seq[x.client] /\ x.attempt = attempt[x.client]
         /\ \A x, y \in flight : x.client = y.client => x = y)'
    BY <1>1 DEF VerdictInv, NothingLost, GoesOn
  <2>3. (\A d \in Client : By(d) # {} =>
           \/ pc[d] = "done"
           \/ \E x \in flight : x.client = d /\ x.phase = "answered" /\ x.code = "OK")'
    <3> SUFFICES ASSUME NEW d \in Client, By(d)' # {}, pc'[d] # "done"
                 PROVE  \E x \in flight' :
                          x.client = d /\ x.phase = "answered" /\ x.code = "OK"
      OBVIOUS
    <3>1. PICK x \in flight : x.client = d /\ x.phase = "answered" /\ x.code = "OK"
      BY <1>1, <1>4 DEF VerdictInv, NothingLost
    <3> QED
      BY <1>1, <3>1
  <2>4. (\A x \in flight :
           x.phase = "answered" /\ x.code = "OK" => Wrote(x.client, Len(x.batch)))'
    <3> SUFFICES ASSUME NEW x \in flight', x.phase = "answered", x.code = "OK"
                 PROVE  Wrote(x.client, Len(x.batch))'
      OBVIOUS
    <3>1. x \in flight
      BY <1>1 DEF GoesOn
    <3>2. Wrote(x.client, Len(x.batch)) /\ x.client \in Client
      BY <3>1 DEF VerdictInv, NothingLost, FlowInv, TypeOK, Call
    <3> QED
      BY <2>1, <3>2
  <2>5. (\A d \in Client : pc[d] = "done" => Wrote(d, produced[d]))'
    BY <1>1, <2>1 DEF VerdictInv, NothingLost
  <2> QED
    BY <2>2, <2>3, <2>4, <2>5 DEF NothingLost
<1>6. OneSequence'
  BY <1>1, <1>4 DEF VerdictInv, OneSequence, FetchesOnce, GoesOn
<1> QED
  BY <1>3, <1>5, <1>6

\* Losing the race is reported as ABORTED or FAILED_PRECONDITION, business
\* rules only fail commands they may reject, and other errors are final.
LEMMA FailsVerdict ==
  ASSUME VerdictInv, NEW call \in flight, call.phase # "answered",
         NEW code \in Codes, code # "OK",
         FetchesOnce(call.client) => code # "FAILED_PRECONDITION",
         Fails(call, code), UNCHANGED <<log, client, losses>>
  PROVE  CallsUnderWay' /\ NothingLost' /\ OneSequence'
<1> DEFINE changed == [call EXCEPT !.phase = "answered", !.code = code]
<1>1. call \in Call
  BY DEF VerdictInv, FlowInv, TypeOK
<1>2. /\ changed.client = call.client /\ changed.seq = call.seq
      /\ changed.attempt = call.attempt
      /\ changed.phase = "answered" /\ changed.code = code
  BY <1>1 DEF Call
<1>3. Becomes(call, changed)
  BY DEF Fails
<1> HIDE DEF changed
<1>4. GoesOn(call, changed)
  BY <1>2 DEF GoesOn
<1> QED
  BY <1>3, <1>4, GoesOnVerdict

LEMMA MismatchVerdict ==
  \A c \in Client : /\ MismatchCode(c) \in Codes /\ MismatchCode(c) # "OK"
                    /\ FetchesOnce(c) => MismatchCode(c) = "ABORTED"
BY DEF MismatchCode, Codes, FetchesOnce

LEMMA LoadVerdict ==
  ASSUME VerdictInv, NEW call \in flight, Load(call)
  PROVE  CallsUnderWay' /\ NothingLost' /\ OneSequence'
<1>1. PICK book \in Books(Len(log)) :
        /\ call.phase = "sent"
        /\ IF Validated(call, book)
           THEN Becomes(call, [call EXCEPT !.phase = "loaded", !.book = book])
           ELSE Fails(call, MismatchCode(call.client))
        /\ UNCHANGED <<log, client, losses>>
  BY DEF Load
<1>2. call \in Call /\ call.client \in Client
  BY DEF VerdictInv, FlowInv, TypeOK, Call
<1>3. CASE Validated(call, book)
  <2> DEFINE changed == [call EXCEPT !.phase = "loaded", !.book = book]
  <2>1. /\ changed.client = call.client /\ changed.seq = call.seq
        /\ changed.attempt = call.attempt /\ changed.phase = "loaded"
        /\ changed.book = book /\ changed.code = call.code
    BY <1>2 DEF Call
  <2>2. Becomes(call, changed)
    BY <1>1, <1>3
  <2> HIDE DEF changed
  <2>3. call.code = "OK"
    BY <1>1 DEF VerdictInv, CallsUnderWay
  <2>4. GoesOn(call, changed)
    BY <1>3, <2>1, <2>3 DEF GoesOn, Validated, Locking
  <2> QED
    BY <1>1, <2>2, <2>4, GoesOnVerdict
<1>4. CASE ~Validated(call, book)
  BY <1>1, <1>2, <1>4, MismatchVerdict, FailsVerdict
<1> QED
  BY <1>3, <1>4

LEMMA DecideVerdict ==
  ASSUME VerdictInv, NEW call \in flight, Decide(call)
  PROVE  CallsUnderWay' /\ NothingLost' /\ OneSequence'
<1>1. call.phase = "loaded" /\ UNCHANGED <<log, client, losses>>
  BY DEF Decide
<1>2. call \in Call /\ call.client \in Client
  BY DEF VerdictInv, FlowInv, TypeOK, Call
<1>3. ASSUME NEW n \in 0..MaxBatch,
             Becomes(call, [call EXCEPT !.phase = "decided", !.batch = EventsFrom(call, n)])
      PROVE  CallsUnderWay' /\ NothingLost' /\ OneSequence'
  <2> DEFINE changed == [call EXCEPT !.phase = "decided", !.batch = EventsFrom(call, n)]
  <2>1. /\ changed.client = call.client /\ changed.seq = call.seq
        /\ changed.attempt = call.attempt /\ changed.phase = "decided"
        /\ changed.book = call.book /\ changed.code = call.code
    BY <1>2 DEF Call
  <2>2. Becomes(call, changed)
    BY <1>3
  <2> HIDE DEF changed
  <2>3. call.code = "OK" /\ (Locking(call.client) => call.book.next = call.seq)
    BY <1>1 DEF VerdictInv, CallsUnderWay
  <2>4. GoesOn(call, changed)
    BY <2>1, <2>3 DEF GoesOn
  <2> QED
    BY <1>1, <2>2, <2>4, GoesOnVerdict
<1>4. ASSUME call.client \in Rejected \cup BadInput, Fails(call, RejectionCode)
      PROVE  CallsUnderWay' /\ NothingLost' /\ OneSequence'
  BY <1>1, <1>4, FailsVerdict DEF RejectionCode, Codes, FetchesOnce
<1>5. ASSUME Fails(call, "INVALID_ARGUMENT")
      PROVE  CallsUnderWay' /\ NothingLost' /\ OneSequence'
  BY <1>1, <1>5, FailsVerdict DEF Codes
<1> QED
  BY <1>3, <1>4, <1>5 DEF Decide

\* Committing: the events are the first ones of their client when nothing was
\* lost, and in any case they are decided on the book its sequence stands for.
LEMMA CommitVerdict ==
  ASSUME VerdictInv, NEW call \in flight, call.phase = "decided",
         call.batch = << >> \/ call.batch[1].seq = Len(log),
         log' = log \o call.batch, Becomes(call, [call EXCEPT !.phase = "answered"]),
         UNCHANGED <<client, losses>>
  PROVE  CallsUnderWay' /\ NothingLost' /\ OneSequence'
<1> DEFINE changed == [call EXCEPT !.phase = "answered"]
<1>1. /\ call \in Call /\ call.client \in Client /\ BatchFollowsBook(call)
      /\ log \in Seq(Entry) /\ Len(log) \in Nat
  BY DEF VerdictInv, FlowInv, TypeOK, Call
<1>2. /\ changed.client = call.client /\ changed.seq = call.seq
      /\ changed.attempt = call.attempt /\ changed.phase = "answered"
      /\ changed.batch = call.batch /\ changed.code = call.code
  BY <1>1 DEF Call
<1>3. /\ flight' = (flight \ {call}) \cup {changed}
      /\ UNCHANGED <<pc, seq, attempt, produced, losses>>
  BY DEF Becomes, client
<1> HIDE DEF changed
<1>4. PICK c \in Client, m \in Nat : c = call.client /\ m = call.book.next
  BY <1>1 DEF Call
<1>5. PICK n \in 0..MaxBatch : call.batch = Log!Batch(c, n, m, m)
  BY <1>1, <1>4 DEF BatchFollowsBook
<1>6. n \in Nat
  BY <1>5, FlowAssumption
<1>7. call.code = "OK" /\ (Locking(c) => m = call.seq)
  BY <1>4 DEF VerdictInv, CallsUnderWay
<1>8. /\ By(c)' = By(c) \cup ((Len(log) + 1)..(Len(log) + n))
      /\ Commits(c)' \subseteq Commits(c) \cup {m}
      /\ \A d \in Client \ {c} : By(d)' = By(d) /\ Commits(d)' = Commits(d)
  <2>1. log' = log \o Log!Batch(c, n, m, m)
    BY <1>5
  <2> QED
    BY <1>1, <1>6, <2>1, AppendBatch
<1>9. Len(call.batch) = n
  BY <1>4, <1>5, <1>6, BatchType
<1>10. CallsUnderWay'
  BY <1>2, <1>3 DEF VerdictInv, CallsUnderWay, Locking
<1>11. NothingLost'
  <2> SUFFICES ASSUME losses = 0 PROVE NothingLost'
    BY <1>3 DEF NothingLost
  <2>1. /\ pc[c] = "waiting" /\ call.seq = seq[c]
        /\ \A x \in flight : x # call => x.client # c
    BY <1>4 DEF VerdictInv, NothingLost
  <2>2. By(c) = {} /\ Commits(c) = {}
    <3>1. By(c) = {}
      BY <1>4, <2>1 DEF VerdictInv, NothingLost
    <3> QED
      BY <3>1, NothingWritten
  <2>3. By(c)' = (Len(log) + 1)..(Len(log) + n) /\ Commits(c)' \subseteq {m}
    BY <1>8, <2>2
  <2>4. Cardinality(By(c)') = n
    <3>1. Cardinality((Len(log) + 1)..(Len(log) + n)) = n
      <4>1. PICK a, b \in Int : a = Len(log) + 1 /\ b = Len(log) + n
        BY <1>1, <1>6
      <4>2. Cardinality(a..b) = IF a > b THEN 0 ELSE b - a + 1
        BY FS_Interval
      <4>3. (IF a > b THEN 0 ELSE b - a + 1) = n
        <5>1. CASE n = 0
          BY <1>1, <4>1, <5>1
        <5>2. CASE n > 0
          BY <1>1, <1>6, <4>1, <5>2
        <5> QED
          BY <1>6, <5>1, <5>2
      <4> QED
        BY <4>1, <4>2, <4>3
    <3> QED
      BY <2>3, <3>1
  <2>5. Wrote(c, n)'
    BY <1>3, <1>4, <1>7, <2>1, <2>3, <2>4 DEF Wrote, Locking
  <2>6. \A d \in Client \ {c} : \A k : Wrote(d, k) => Wrote(d, k)'
    BY <1>3, <1>8 DEF Wrote, Locking
  <2>7. (/\ \A x \in flight :
              /\ pc[x.client] = "waiting"
              /\ x.seq = seq[x.client] /\ x.attempt = attempt[x.client]
         /\ \A x, y \in flight : x.client = y.client => x = y)'
    BY <1>2, <1>3 DEF VerdictInv, NothingLost
  <2>8. (\A d \in Client : By(d) # {} =>
           \/ pc[d] = "done"
           \/ \E x \in flight : x.client = d /\ x.phase = "answered" /\ x.code = "OK")'
    <3> SUFFICES ASSUME NEW d \in Client, By(d)' # {}, pc'[d] # "done"
                 PROVE  \E x \in flight' :
                          x.client = d /\ x.phase = "answered" /\ x.code = "OK"
      OBVIOUS
    <3>1. CASE d = c
      BY <1>2, <1>3, <1>4, <1>7, <3>1
    <3>2. CASE d # c
      <4>1. PICK x \in flight : x.client = d /\ x.phase = "answered" /\ x.code = "OK"
        BY <1>3, <1>8, <3>2 DEF VerdictInv, NothingLost
      <4> QED
        BY <1>3, <1>4, <3>2, <4>1
    <3> QED
      BY <3>1, <3>2
  <2>9. (\A x \in flight :
           x.phase = "answered" /\ x.code = "OK" => Wrote(x.client, Len(x.batch)))'
    <3> SUFFICES ASSUME NEW x \in flight', x.phase = "answered", x.code = "OK"
                 PROVE  Wrote(x.client, Len(x.batch))'
      OBVIOUS
    <3>1. CASE x = changed
      BY <1>2, <1>4, <1>9, <2>5, <3>1
    <3>2. CASE x # changed
      <4>1. x \in flight /\ x.client # c /\ x.client \in Client
        BY <1>3, <2>1, <3>2 DEF VerdictInv, FlowInv, TypeOK, Call
      <4>2. Wrote(x.client, Len(x.batch))
        BY <4>1 DEF VerdictInv, NothingLost
      <4> QED
        BY <2>6, <4>1, <4>2
    <3> QED
      BY <3>1, <3>2
  <2>10. (\A d \in Client : pc[d] = "done" => Wrote(d, produced[d]))'
    BY <1>3, <2>1, <2>6 DEF VerdictInv, NothingLost
  <2> QED
    BY <2>7, <2>8, <2>9, <2>10 DEF NothingLost
<1>12. OneSequence'
  <2> SUFFICES ASSUME NEW d \in Client, FetchesOnce(d)
               PROVE  (/\ Commits(d) \subseteq {seq[d]}
                       /\ pc[d] = "idle" => By(d) = {}
                       /\ \A x \in flight : x.client = d =>
                            /\ pc[d] # "idle" /\ x.seq = seq[d]
                            /\ x.code # "FAILED_PRECONDITION")'
    BY DEF OneSequence, FetchesOnce
  <2>1. CASE d = c
    <3>1. pc[c] # "idle" /\ call.seq = seq[c] /\ Commits(c) \subseteq {seq[c]}
      BY <1>4, <2>1 DEF VerdictInv, OneSequence
    <3>2. m = seq[c]
      BY <1>7, <2>1, <3>1 DEF Locking, FetchesOnce
    <3> QED
      BY <1>2, <1>3, <1>8, <2>1, <3>1, <3>2 DEF VerdictInv, OneSequence
  <2>2. CASE d # c
    BY <1>2, <1>3, <1>4, <1>8, <2>2 DEF VerdictInv, OneSequence
  <2> QED
    BY <2>1, <2>2
<1> QED
  BY <1>10, <1>11, <1>12

LEMMA PersistVerdict ==
  ASSUME VerdictInv, NEW call \in flight, Persist(call)
  PROVE  CallsUnderWay' /\ NothingLost' /\ OneSequence'
<1>1. call.phase = "decided" /\ UNCHANGED <<client, losses>> /\ call.client \in Client
  BY DEF Persist, VerdictInv, FlowInv, TypeOK, Call
<1>2. CASE call.batch = << >> \/ call.batch[1].seq = Len(log)
  BY <1>1, <1>2, CommitVerdict DEF Persist
<1>3. CASE ~(call.batch = << >> \/ call.batch[1].seq = Len(log))
  BY <1>1, <1>3, MismatchVerdict, FailsVerdict DEF Persist
<1> QED
  BY <1>2, <1>3

\* Only answers to earlier attempts are discarded, and there are none as long
\* as nothing was lost.
LEMMA DiscardVerdict ==
  ASSUME VerdictInv, NEW call \in flight, Discard(call)
  PROVE  CallsUnderWay' /\ NothingLost' /\ OneSequence'
<1>1. /\ call.attempt # attempt[call.client] /\ flight' = flight \ {call}
      /\ UNCHANGED <<log, pc, seq, attempt, produced, losses>>
  BY DEF Discard, client
<1>2. \A d \in Client : By(d)' = By(d) /\ Commits(d)' = Commits(d)
  BY <1>1, SameLog
<1>3. CallsUnderWay' /\ OneSequence'
  BY <1>1, <1>2 DEF VerdictInv, CallsUnderWay, OneSequence, Locking, FetchesOnce
<1>4. losses # 0
  BY <1>1 DEF VerdictInv, NothingLost
<1> QED
  BY <1>1, <1>3, <1>4 DEF NothingLost

LEMMA VerdictStep == VerdictInv /\ [Next]_vars => VerdictInv'
<1> SUFFICES ASSUME VerdictInv, [Next]_vars PROVE VerdictInv'
  OBVIOUS
<1>1. FlowInv'
  BY FlowStep DEF VerdictInv
<1>2. CASE UNCHANGED vars
  <2>1. UNCHANGED <<log, pc, seq, attempt, produced, flight, losses>>
    BY <1>2 DEF vars, client
  <2>2. \A d \in Client : By(d)' = By(d) /\ Commits(d)' = Commits(d)
    BY <2>1, SameLog
  <2>3. CallsUnderWay' /\ OneSequence'
    BY <2>1, <2>2 DEF VerdictInv, CallsUnderWay, OneSequence, Locking, FetchesOnce
  <2>4. NothingLost'
    <3>1. \A d \in Client : \A n : Wrote(d, n) => Wrote(d, n)'
      BY <2>1, <2>2 DEF Wrote, Locking
    <3>2. \A call \in flight : call.client \in Client
      BY DEF VerdictInv, FlowInv, TypeOK, Call
    <3> QED
      BY <2>1, <2>2, <3>1, <3>2 DEF VerdictInv, NothingLost
  <2> QED
    BY <1>1, <2>3, <2>4 DEF VerdictInv
<1>3. ASSUME NEW c \in Client,
             \/ Fetch(c) \/ FetchBroken(c) \/ Submit(c)
             \/ BuildFails(c) \/ Answer(c) \/ Lose(c)
      PROVE  VerdictInv'
  BY <1>1, <1>3, FetchVerdict, SubmitVerdict, BuildFailsVerdict, AnswerVerdict, LoseVerdict
     DEF VerdictInv
<1>4. ASSUME NEW call \in flight, Load(call) \/ Decide(call) \/ Persist(call) \/ Discard(call)
      PROVE  VerdictInv'
  BY <1>1, <1>4, LoadVerdict, DecideVerdict, PersistVerdict, DiscardVerdict DEF VerdictInv
<1> QED
  BY <1>2, <1>3, <1>4 DEF Next, Process

LEMMA AlwaysVerdict == Spec => []VerdictInv
BY InitVerdict, VerdictStep, PTL DEF Spec

-------------------------------------------------------------------------------
(* The theorems *)

\* As long as no answer is lost a client's success reports exactly the events
\* that are in the log, and its failure that none of its own is: for any
\* number of clients and attempts and any mixture of merge strategies.
THEOREM VerdictIsTrue == Spec => []VerdictMatchesLog
<1>1. VerdictInv => VerdictMatchesLog
  BY DEF VerdictInv, NothingLost, VerdictMatchesLog, Wrote
<1> QED
  BY <1>1, AlwaysVerdict, PTL

\* No event came between the fetch of a client whose command locks and its
\* commit, unless an answer was lost and the client fetched again.
THEOREM LockHolds == Spec => []OptimisticLock
<1>1. VerdictInv => OptimisticLock
  BY DEF VerdictInv, NothingLost, OneSequence, OptimisticLock, Certain, Wrote, Locking,
         FetchesOnce
<1> QED
  BY <1>1, AlwaysVerdict, PTL

\* A command takes effect at most once: always as long as no answer is lost,
\* and a STRICT one that nobody rejects however often it is sent.
THEOREM AppliedOnce == Spec => []AtMostOnce
<1>1. ASSUME VerdictInv, NEW c \in Client, Certain(c)
      PROVE  Cardinality(Commits(c)) <= 1
  <2>1. \E basis : Commits(c) \subseteq {basis}
    <3>1. CASE losses = 0 /\ By(c) = {}
      BY <3>1, NothingWritten
    <3>2. CASE losses = 0 /\ By(c) # {}
      <4>1. PICK n : Wrote(c, n)
        BY <1>1, <3>2 DEF VerdictInv, NothingLost
      <4> QED
        BY <4>1 DEF Wrote
    <3>3. CASE FetchesOnce(c)
      BY <1>1, <3>3 DEF VerdictInv, OneSequence
    <3> QED
      BY <1>1, <3>1, <3>2, <3>3 DEF Certain, FetchesOnce
  <2>2. PICK basis : Commits(c) \subseteq {basis}
    BY <2>1
  <2>3. IsFiniteSet({basis}) /\ Cardinality({basis}) = 1
    BY FS_Singleton
  <2>4. Cardinality(Commits(c)) <= Cardinality({basis})
    BY <2>2, <2>3, FS_Subset
  <2> QED
    BY <2>3, <2>4
<1>2. VerdictInv => AtMostOnce
  BY <1>1 DEF AtMostOnce
<1> QED
  BY <1>2, AlwaysVerdict, PTL
===============================================================================
