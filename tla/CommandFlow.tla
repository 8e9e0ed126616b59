------------------------------ MODULE CommandFlow ------------------------------
(***************************************************************************)
(* The path of a command to one aggregate root, from end to end.  A client *)
(* fetches the root's event book, takes the sequence of its command from   *)
(* NextSequence, and calls the coordinator; the coordinator loads the book *)
(* and validates the sequence under the command's merge strategy; the      *)
(* command handler decides and numbers its events; the coordinator appends *)
(* them to the log if they continue it; the client classifies the answer   *)
(* and fetches again, sends again, or gives up.  Calls of several clients  *)
(* interleave at every one of these steps.                                 *)
(*                                                                         *)
(* Client side and handler are code of this repository.  The coordinator   *)
(* is not: its validation is the one the feature steps state, its store is *)
(* taken to accept pages that continue the log and to refuse all others.   *)
(***************************************************************************)
EXTENDS Naturals, Sequences, FiniteSets

CONSTANTS
  Client,       \* each has one command for the root
  Strategy,     \* the merge strategy each gives its command
  Rejected,     \* the clients whose command business rules may reject
  BadInput,     \* the clients whose command fails input validation
  Faulty,       \* the clients whose command the handler may fail on otherwise
  Malformed,    \* the clients whose builder may lack a part of the command
  Unlucky,      \* the clients whose answers can be lost
  Snapshots,    \* may the store replace old pages by a snapshot?
  MaxBatch,     \* bound on the events one command produces
  MaxAttempts,  \* the client's bound on attempts
  MaxLosses     \* bound on the answers that never arrive, or not whole

ASSUME FlowAssumption ==
  /\ Strategy \in [Client -> {"COMMUTATIVE", "STRICT", "AGGREGATE_HANDLES"}]
  /\ Rejected \subseteq Client /\ BadInput \subseteq Client /\ Faulty \subseteq Client
  /\ Malformed \subseteq Client /\ Unlucky \subseteq Client
  /\ Snapshots \in BOOLEAN
  /\ MaxBatch \in Nat /\ MaxAttempts \in Nat \ {0} /\ MaxLosses \in Nat

VARIABLES
  log,       \* the root's events
  pc,        \* where each client is
  seq,       \* the sequence its command carries
  attempt,   \* its attempts so far
  produced,  \* the number of events its final answer reports
  flight,    \* calls under way
  losses     \* answers lost or cut short so far

client == <<pc, seq, attempt, produced>>
vars == <<log, client, flight, losses>>

Log == INSTANCE EventLog

Codes == {"OK", "ABORTED", "FAILED_PRECONDITION", "INVALID_ARGUMENT"}

\* The book of a root with n events, all of them pages or, once there is a
\* snapshot, none.
Books(n) == [pages : IF Snapshots THEN {0, n} ELSE {n}, next : {n}]
NoBook == [pages |-> 0, next |-> 0]

NextSequence(book) == book.next

Entry == [seq : Nat, by : Client, basis : Nat]

Call == [client : Client, attempt : 1..MaxAttempts, seq : Nat,
         phase : {"sent", "loaded", "decided", "answered"},
         book : [pages : Nat, next : Nat], batch : Seq(Entry), code : Codes]

TypeOK ==
  /\ log \in Seq(Entry)
  /\ pc \in [Client -> {"idle", "ready", "waiting", "done", "failed"}]
  /\ seq \in [Client -> Nat]
  /\ attempt \in [Client -> 0..MaxAttempts]
  /\ produced \in [Client -> 0..MaxBatch]
  /\ flight \subseteq Call
  /\ losses \in 0..MaxLosses

Init ==
  /\ log = << >>
  /\ pc = [c \in Client |-> "idle"]
  /\ seq = [c \in Client |-> 0]
  /\ attempt = [c \in Client |-> 0]
  /\ produced = [c \in Client |-> 0]
  /\ flight = {}
  /\ losses = 0

-------------------------------------------------------------------------------
(* The client *)

\* QueryClient.GetEventBook, and NextSequence of the book for WithSequence.
Fetch(c) == \E book \in Books(Len(log)) :
  /\ pc[c] = "idle"
  /\ pc' = [pc EXCEPT ![c] = "ready"]
  /\ seq' = [seq EXCEPT ![c] = NextSequence(book)]
  /\ UNCHANGED <<log, attempt, produced, flight, losses>>

\* QueryClient.GetEvents on a stream that breaks before the root's book: no
\* book and no error, and NextSequence of no book is 0.
FetchBroken(c) ==
  /\ c \in Unlucky /\ pc[c] = "idle" /\ losses < MaxLosses
  /\ losses' = losses + 1
  /\ pc' = [pc EXCEPT ![c] = "ready"]
  /\ seq' = [seq EXCEPT ![c] = NextSequence(NoBook)]
  /\ UNCHANGED <<log, attempt, produced, flight>>

\* CommandBuilder.Execute: build the book and call HandleCommand.
Submit(c) ==
  /\ pc[c] = "ready"
  /\ pc' = [pc EXCEPT ![c] = "waiting"]
  /\ attempt' = [attempt EXCEPT ![c] = @ + 1]
  /\ flight' = flight \cup {[client |-> c, attempt |-> attempt'[c], seq |-> seq[c],
                             phase |-> "sent", book |-> NoBook, batch |-> << >>,
                             code |-> "OK"]}
  /\ UNCHANGED <<log, seq, produced, losses>>

\* Build finds that the type, the payload or the sequence was not set, or keeps
\* the error of WithCommand: Execute returns it and calls nobody.
BuildFails(c) ==
  /\ c \in Malformed /\ pc[c] = "ready"
  /\ pc' = [pc EXCEPT ![c] = "failed"]
  /\ UNCHANGED <<log, seq, attempt, produced, flight, losses>>

\* Faulty variants of AfterFailure: attempts are not counted, every failure is
\* final, and a failure that cannot be retried is not noticed.
RetryForever(c, code) ==
  pc' = [pc EXCEPT ![c] = IF code = "FAILED_PRECONDITION" THEN "idle" ELSE "failed"]

NeverRetry(c, code) == pc' = [pc EXCEPT ![c] = "failed"]

NoticeRetryableOnly(c, code) ==
  pc' = [pc EXCEPT ![c] = IF code # "FAILED_PRECONDITION" THEN @
                          ELSE IF attempt[c] < MaxAttempts THEN "idle" ELSE "failed"]

\* IsPreconditionFailed: fetch again and retry.  ABORTED and
\* INVALID_ARGUMENT are final.
AfterFailure(c, code) ==
  pc' = [pc EXCEPT ![c] = IF code = "FAILED_PRECONDITION" /\ attempt[c] < MaxAttempts
                          THEN "idle" ELSE "failed"]

\* CommandResponseW.Events: the pages of the response's book, the handler's.
Reported(call) == Len(call.batch)

\* The answer to the current attempt arrives.
Answer(c) == \E call \in flight :
  /\ call.client = c /\ call.attempt = attempt[c] /\ call.phase = "answered"
  /\ pc[c] = "waiting"
  /\ flight' = flight \ {call}
  /\ \/ /\ call.code = "OK"
        /\ pc' = [pc EXCEPT ![c] = "done"]
        /\ produced' = [produced EXCEPT ![c] = Reported(call)]
     \/ /\ call.code # "OK"
        /\ AfterFailure(c, call.code)
        /\ UNCHANGED produced
  /\ UNCHANGED <<log, seq, attempt, losses>>

\* The connection breaks or the deadline passes (not a gRPC answer of the
\* handler): the same command is sent again.  The call itself goes on.
Lose(c) ==
  /\ c \in Unlucky /\ pc[c] = "waiting" /\ losses < MaxLosses
  /\ losses' = losses + 1
  /\ pc' = [pc EXCEPT ![c] = IF attempt[c] < MaxAttempts THEN "ready" ELSE "failed"]
  /\ UNCHANGED <<log, seq, attempt, produced, flight>>

-------------------------------------------------------------------------------
(* The coordinator and the handler *)

\* A call goes on to its next phase.
Becomes(call, changed) == flight' = (flight \ {call}) \cup {changed}

Fails(call, code) == Becomes(call, [call EXCEPT !.phase = "answered", !.code = code])

MismatchCode(c) == IF Strategy[c] = "STRICT" THEN "ABORTED" ELSE "FAILED_PRECONDITION"

\* Faulty variant of Validated: no strategy validates the sequence.
NothingValidated(call, book) == TRUE

\* AGGREGATE_HANDLES bypasses the validation.
Validated(call, book) ==
  Strategy[call.client] = "AGGREGATE_HANDLES" \/ call.seq = book.next

Load(call) == \E book \in Books(Len(log)) :
  /\ call.phase = "sent"
  /\ IF Validated(call, book)
     THEN Becomes(call, [call EXCEPT !.phase = "loaded", !.book = book])
     ELSE Fails(call, MismatchCode(call.client))
  /\ UNCHANGED <<log, client, losses>>

\* Faulty variant of EventsFrom: the number is asked for when the events are
\* made, not taken from the book the decision was based on.
EventsFromCurrent(call, n) ==
  Log!Batch(call.client, n, Len(log), call.book.next)

\* The handler numbers its events from the book it was given.
EventsFrom(call, n) ==
  Log!Batch(call.client, n, NextSequence(call.book), call.book.next)

\* dispatch reports each CommandRejectedError as FAILED_PRECONDITION, the
\* ones made by NewInvalidArgumentError too, and any other error of the handler
\* as INVALID_ARGUMENT.
RejectionCode == "FAILED_PRECONDITION"

\* Faulty variant of Decide: the events that came with a rejection go on.
DecideKeepingEvents(call) ==
  LET code == IF call.client \in Rejected THEN RejectionCode ELSE "OK"
  IN  /\ call.phase = "loaded"
      /\ \E n \in 0..MaxBatch :
           Becomes(call, [call EXCEPT !.phase = "decided", !.batch = EventsFrom(call, n),
                                      !.code = code])
      /\ UNCHANGED <<log, client, losses>>

Decide(call) ==
  /\ call.phase = "loaded"
  /\ \/ /\ call.client \notin BadInput
        /\ \E n \in 0..MaxBatch :
             Becomes(call, [call EXCEPT !.phase = "decided", !.batch = EventsFrom(call, n)])
     \/ /\ call.client \in Rejected \cup BadInput
        /\ Fails(call, RejectionCode)
     \/ /\ call.client \in Faulty
        /\ Fails(call, "INVALID_ARGUMENT")
  /\ UNCHANGED <<log, client, losses>>

\* Pages that continue the log are appended in one step.
Persist(call) ==
  /\ call.phase = "decided"
  /\ IF call.batch = << >> \/ call.batch[1].seq = Len(log)
     THEN /\ log' = log \o call.batch
          /\ Becomes(call, [call EXCEPT !.phase = "answered"])
     ELSE /\ Fails(call, MismatchCode(call.client))
          /\ UNCHANGED log
  /\ UNCHANGED <<client, losses>>

\* An answer nobody waits for any more.
Discard(call) ==
  /\ call.phase = "answered" /\ call.attempt # attempt[call.client]
  /\ flight' = flight \ {call}
  /\ UNCHANGED <<log, client, losses>>

Process == \E call \in flight :
  Load(call) \/ Decide(call) \/ Persist(call) \/ Discard(call)

Next ==
  \/ \E c \in Client : Fetch(c) \/ Submit(c) \/ BuildFails(c) \/ Answer(c)
  \/ \E c \in Client : FetchBroken(c) \/ Lose(c)
  \/ Process

\* Clients go on with what they started, and each call that arrived is
\* processed to its end; losing an answer is never required.
Fairness ==
  /\ \A c \in Client : WF_vars(Fetch(c) \/ Submit(c) \/ BuildFails(c) \/ Answer(c))
  /\ WF_vars(Process)

Spec == Init /\ [][Next]_vars /\ Fairness

-------------------------------------------------------------------------------
(* Properties *)

By(c) == {i \in DOMAIN log : log[i].by = c}

Commits(c) == {log[i].basis : i \in By(c)}

\* Every batch in the log was decided on the whole log before it, was
\* appended in one piece and carries its own place in the log, under every
\* interleaving and every mixture of strategies.
LogIsSerial == Log!Spec

\* An answer that is lost does not tell whether the command took effect: the
\* client can then apply it again, unless every later attempt is ABORTED.  A
\* rejection is no such answer, it makes the client fetch again.
Certain(c) == losses = 0 \/ (Strategy[c] = "STRICT" /\ c \notin Rejected \cup BadInput)

\* Optimistic locking from end to end: unless the strategy gives it up, no
\* event came between the client's fetch and the commit of its command, even
\* when the fetch was cut short.
OptimisticLock == \A c \in Client :
  pc[c] = "done" /\ Strategy[c] # "AGGREGATE_HANDLES" /\ Certain(c) => Commits(c) \subseteq {seq[c]}

\* As long as no answer is lost, what a client is told is what happened:
\* success reports the events that are in the log, failure means none is.
VerdictMatchesLog == losses = 0 => \A c \in Client :
  /\ pc[c] = "done" => Cardinality(By(c)) = produced[c]
  /\ pc[c] # "done" /\ By(c) # {} => pc[c] = "waiting"

\* A command is applied at most once: without lost answers always; with STRICT
\* and no rejection also when it is sent again after an answer was lost.
AtMostOnce == \A c \in Client : Certain(c) => Cardinality(Commits(c)) <= 1

\* With as many attempts as there are clients, a command that is not STRICT
\* and that neither the builder nor the handler fails commits in the end,
\* whatever strategies the others use: each failed attempt is paid for by
\* another's commit, or by a loss.
EveryClientCommits == \A c \in Client \ (Rejected \cup BadInput \cup Faulty \cup Malformed) :
  Strategy[c] # "STRICT" => <>(pc[c] = "done" \/ losses > 0)

\* No client waits forever.
EveryClientIsAnswered == \A c \in Client : <>(pc[c] \in {"done", "failed"})

\* INVALID_ARGUMENT stands for "bad input, don't retry" (handler.go:20), and
\* NewInvalidArgumentError is said to create it (handler.go:39): a command
\* with bad input is not sent a second time.
InvalidInputNotRetried == \A c \in BadInput : attempt[c] <= 1
===============================================================================
