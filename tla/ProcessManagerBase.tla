-------------------------- MODULE ProcessManagerBase --------------------------
(***************************************************************************)
(* One process manager (pm_oo.go) behind OOProcessManagerHandler           *)
(* (handler.go), with what it is connected to: triggers from its input     *)
(* domains, its own event book, the roots its commands go to, and the      *)
(* rejections that come back as Notifications.                             *)
(*                                                                         *)
(* Each call of Handle runs in a goroutine of its own on a process book    *)
(* and on destination sequences that were loaded before it started; what   *)
(* it returns takes effect when it is answered.  Commands are stamped      *)
(* with the sequence of their DOMAIN (destinations.go).                    *)
(*                                                                         *)
(* The framework is external: it loads, appends a reply's process events   *)
(* and sends its commands together, accepts a command whose sequence is    *)
(* its root's next one, and returns any other as a Notification.  An       *)
(* accepted command stands for one event of its root.                      *)
(*                                                                         *)
(* Whether an OnRejected handler records anything depends here on the      *)
(* domain alone: Compensated has the domains whose handler returns an      *)
(* event book, and the pages of that book, appended together, are one      *)
(* compensation event.  A handler that returns nil or a Notification only  *)
(* leaves the process book as it is, as no handler does.  The Notification *)
(* a handler may return goes no further than the gRPC adapter and is left  *)
(* out.                                                                    *)
(***************************************************************************)
EXTENDS Naturals, Sequences, SequencesExt, FiniteSetsExt

CONSTANTS
  Trigger,      \* event books of the input domains
  Root, Domain,
  Home,         \* the domain of each root
  Output,       \* the domains in destination_sequences
  Compensated,  \* the domains whose OnRejected handler records events
  MaxPages,     \* bound on the pages of a trigger
  MaxCommands,  \* bound on the commands for one page
  MaxNotices    \* bound on the Notifications in one trigger

ASSUME ProcessManagerAssumption ==
  /\ Home \in [Root -> Domain]
  /\ Output \subseteq Domain /\ Compensated \subseteq Domain
  /\ \A d \in Output : \E r \in Root : Home[r] = d
  /\ MaxPages \in Nat /\ MaxCommands \in Nat /\ MaxNotices \in Nat

VARIABLES
  fresh,     \* triggers not delivered yet
  calls,     \* calls of Handle under way
  process,   \* the process manager's own events
  sent,      \* commands under way
  log,       \* the commands each root accepted
  returned,  \* rejected commands whose Notification is not delivered yet
  rejected,  \* all rejected commands
  failed,    \* triggers whose call ended in an error
  answered,  \* the others that are done
  made       \* what event handlers returned: commands and process events

world == <<process, sent, log, returned, rejected>>
ghosts == <<failed, answered, made>>
vars == <<fresh, calls, world, ghosts>>

EventPage(t, i, kind) == [kind |-> kind, trigger |-> t, page |-> i]
NoticePage(c) == [kind |-> "notice", command |-> c]

Step(page) == [kind |-> "step", trigger |-> page.trigger, page |-> page.page]
Compensation(c) == [kind |-> "compensation", command |-> c]

NextSequence(r) == Len(log[r])

Init ==
  /\ fresh = Trigger
  /\ calls = {}
  /\ process = << >>
  /\ sent = {}
  /\ log = [r \in Root |-> << >>]
  /\ returned = {} /\ rejected = {}
  /\ failed = {} /\ answered = {} /\ made = {}

-------------------------------------------------------------------------------
(* A call *)

\* Faulty variant of RebuildState: the book is ignored.
FactoryState == 0

\* The state handlers see is rebuilt from the whole process book; it is
\* represented by the number of events it has seen.
RebuildState == Len(process)

\* One sequence for each output domain: that of one of its roots.
DestinationSequences ==
  {[d \in Output |-> NextSequence(of[d])] :
     of \in {f \in [Output -> Root] : \A d \in Output : Home[f[d]] = d}}

Handle(pages) == \E sequences \in DestinationSequences :
  calls' = calls \cup {[pages |-> pages, at |-> 1, state |-> RebuildState,
                        sequences |-> sequences, basis |-> [r \in Root |-> NextSequence(r)],
                        commands |-> << >>, events |-> << >>]}

Deliver(t) == \E kinds \in BoundedSeq({"handled", "other"}, MaxPages) \ {<< >>} :
  /\ t \in fresh
  /\ fresh' = fresh \ {t}
  /\ Handle([i \in DOMAIN kinds |-> EventPage(t, i, kinds[i])])
  /\ UNCHANGED <<world, ghosts>>

\* Rejected commands come back in triggers of their own, in any order.
Notify == \E cs \in SUBSET returned :
  /\ cs # {} /\ Cardinality(cs) <= MaxNotices
  /\ returned' = returned \ cs
  /\ \E order \in SetToSeqs(cs) : Handle([i \in DOMAIN order |-> NoticePage(order[i])])
  /\ UNCHANGED <<fresh, process, sent, log, rejected, ghosts>>

At(call, kind) == call.at <= Len(call.pages) /\ call.pages[call.at].kind = kind

Goes(call, changed) == calls' = (calls \ {call}) \cup {changed}

\* The rejection is one a handler is found for and records events for.
Records(c) == Home[c.root] \in Compensated

\* Faulty variant of SkipPage: the next page is passed over with it.
SkipTwoPages(call) ==
  /\ \/ At(call, "other")
     \/ At(call, "notice") /\ ~Records(call.pages[call.at].command)
  /\ Goes(call, [call EXCEPT !.at = @ + 2])
  /\ UNCHANGED <<fresh, world, ghosts>>

\* A page without an event, of a type nobody handles, or a Notification for
\* which no handler is found or nothing is recorded is passed over.  So would
\* be one that does not decode, which the framework does not send.
SkipPage(call) ==
  /\ \/ At(call, "other")
     \/ At(call, "notice") /\ ~Records(call.pages[call.at].command)
  /\ Goes(call, [call EXCEPT !.at = @ + 1])
  /\ UNCHANGED <<fresh, world, ghosts>>

\* Faulty variant of Stamp: the sequence of some output domain.
StampAny(call, r) == call.sequences[CHOOSE d \in Output : TRUE]

Stamp(call, r) == call.sequences[Home[r]]

Commands(call, targets) ==
  LET page == call.pages[call.at]
  IN  [n \in DOMAIN targets |->
         [kind |-> "command", trigger |-> page.trigger, page |-> page.page, n |-> n, root |-> targets[n],
          seq |-> Stamp(call, targets[n]), basis |-> call.basis[targets[n]]]]

\* Faulty variant of HandlePage: what a page gave is put before the rest.
HandlePageBefore(call) ==
  \E targets \in BoundedSeq({r \in Root : Home[r] \in Output}, MaxCommands) :
    LET step == Step(call.pages[call.at])
        commands == Commands(call, targets)
    IN  /\ At(call, "handled")
        /\ Goes(call, [call EXCEPT !.at = @ + 1, !.commands = commands \o @,
                                   !.events = <<step>> \o @])
        /\ made' = made \cup ToSet(commands) \cup {step}
        /\ UNCHANGED <<fresh, world, failed, answered>>

\* A user's handler stamps commands for output domains and may record an
\* event; both are appended to what the pages before it gave.
HandlePage(call) ==
  \E targets \in BoundedSeq({r \in Root : Home[r] \in Output}, MaxCommands) :
  \E records \in BOOLEAN :
    LET steps == IF records THEN <<Step(call.pages[call.at])>> ELSE << >>
        commands == Commands(call, targets)
    IN  /\ At(call, "handled")
        /\ Goes(call, [call EXCEPT !.at = @ + 1, !.commands = @ \o commands,
                                   !.events = @ \o steps])
        /\ made' = made \cup ToSet(commands) \cup ToSet(steps)
        /\ UNCHANGED <<fresh, world, failed, answered>>

\* Faulty variant of HandlerFails: the call is answered with what there is.
AnswerPartially(call) ==
  /\ At(call, "handled")
  /\ calls' = calls \ {call}
  /\ process' = process \o call.events
  /\ sent' = sent \cup ToSet(call.commands)
  /\ failed' = failed \cup {call.pages[1].trigger}
  /\ UNCHANGED <<fresh, log, returned, rejected, answered, made>>

\* The handler's own error, an event that does not unmarshal, or StampCommand
\* for a domain that is not in destination_sequences: Handle returns the error
\* and nothing else.
HandlerFails(call) ==
  /\ At(call, "handled")
  /\ calls' = calls \ {call}
  /\ failed' = failed \cup {call.pages[1].trigger}
  /\ UNCHANGED <<fresh, world, answered, made>>

\* Faulty variant of HandleRejection: the call ends with the first Notification.
HandleFirstRejection(call) ==
  /\ At(call, "notice") /\ Records(call.pages[call.at].command)
  /\ Goes(call, [call EXCEPT !.at = Len(call.pages) + 1,
                             !.events = Append(@, Compensation(call.pages[call.at].command))])
  /\ UNCHANGED <<fresh, world, ghosts>>

\* Faulty variant of HandleRejection: the handler runs once for each of two keys.
HandleRejectionTwice(call) ==
  /\ At(call, "notice") /\ Records(call.pages[call.at].command)
  /\ LET compensation == Compensation(call.pages[call.at].command)
     IN  Goes(call, [call EXCEPT !.at = @ + 1, !.events = @ \o <<compensation, compensation>>])
  /\ UNCHANGED <<fresh, world, ghosts>>

\* handleNotification finds the OnRejected handler by domain and command, and
\* Handle appends the pages it returns.
HandleRejection(call) ==
  /\ At(call, "notice") /\ Records(call.pages[call.at].command)
  /\ Goes(call, [call EXCEPT !.at = @ + 1,
                             !.events = Append(@, Compensation(call.pages[call.at].command))])
  /\ UNCHANGED <<fresh, world, ghosts>>

\* The reply: process events are appended and commands are sent.
Return(call) ==
  /\ call.at > Len(call.pages)
  /\ calls' = calls \ {call}
  /\ process' = process \o call.events
  /\ sent' = sent \cup ToSet(call.commands)
  /\ answered' = answered \cup {p.trigger : p \in {q \in ToSet(call.pages) : q.kind # "notice"}}
  /\ UNCHANGED <<fresh, log, returned, rejected, failed, made>>

-------------------------------------------------------------------------------
(* The roots the commands go to *)

Accept(c) ==
  /\ c.seq = NextSequence(c.root)
  /\ log' = [log EXCEPT ![c.root] = Append(@, c)]
  /\ sent' = sent \ {c}
  /\ UNCHANGED <<fresh, calls, process, returned, rejected, ghosts>>

Reject(c) ==
  /\ c.seq # NextSequence(c.root)
  /\ sent' = sent \ {c}
  /\ rejected' = rejected \cup {c}
  /\ returned' = returned \cup {c}
  /\ UNCHANGED <<fresh, calls, process, log, ghosts>>

Proceed == \E call \in calls :
  SkipPage(call) \/ HandlePage(call) \/ HandlerFails(call) \/ HandleRejection(call) \/ Return(call)

Receive == \E c \in sent : Accept(c) \/ Reject(c)

Next == (\E t \in Trigger : Deliver(t)) \/ Notify \/ Proceed \/ Receive

\* Each call runs to its end, and commands and Notifications arrive.
Spec == Init /\ [][Next]_vars /\ WF_vars(Proceed) /\ WF_vars(Receive) /\ WF_vars(Notify)

-------------------------------------------------------------------------------
(* Properties *)

Command == [kind : {"command"}, trigger : Trigger, page : 1..MaxPages, n : 1..MaxCommands, root : Root,
            seq : Nat, basis : Nat]

TypeOK ==
  /\ fresh \subseteq Trigger
  /\ \A r \in Root : log[r] \in Seq(Command)
  /\ sent \subseteq Command
  /\ returned \subseteq rejected /\ rejected \subseteq Command
  /\ \A call \in calls :
       /\ call.at \in 1..Len(call.pages) + 1
       /\ call.commands \in Seq(Command)
       /\ call.state \in 0..Len(process)
  /\ failed \cup answered \subseteq Trigger \ fresh

Of(t, things) == {x \in things : x.trigger = t}

\* What came of event pages: commands, wherever they are by now, and events.
Outcome == sent \cup rejected \cup (UNION {ToSet(log[r]) : r \in Root})
             \cup {e \in ToSet(process) : e.kind = "step"}

\* A trigger is handled as a whole: when its call is answered, each command
\* and event that a handler returned for any of its pages has gone out, and
\* when a handler failed, none has.  Before that nothing is to be seen of it.
WholeOrNothing == \A t \in Trigger :
  Of(t, Outcome) = IF t \in answered THEN Of(t, made) ELSE {}

\* The process book tells the story of each trigger in the order of its pages,
\* whatever other calls were answered in between.
EventsFollowPages == \A i, j \in DOMAIN process :
  LET e == process[i]  f == process[j]
  IN  i < j /\ e.kind = "step" /\ f.kind = "step" /\ e.trigger = f.trigger => e.page < f.page

\* The only root of its domain.
Alone(r) == \A s \in Root : Home[s] = Home[r] => s = r

\* Optimistic locking as far as process managers go, whose stamps are by
\* domain: a root that is the only one of its domain accepts a command only if
\* it has not changed since the command's call was given the sequences.
StampsLock ==
  \A r \in Root : Alone(r) => \A i \in DOMAIN log[r] : log[r][i].basis = i - 1

\* A rejection handler runs on a state that has seen what the process manager
\* recorded together with the command that was rejected.
RejectionSeesItsCause == \A call \in calls : At(call, "notice") =>
  LET cause == call.pages[call.at].command
  IN  \A i \in DOMAIN process :
        process[i].kind = "step" /\ process[i].trigger = cause.trigger => i <= call.state

Compensations(c) == {i \in DOMAIN process : process[i] = Compensation(c)}

\* The Notification is delivered, and what its handlers give is not recorded.
Taken(c) == \E call \in calls : NoticePage(c) \in ToSet(call.pages)

\* The process book compensates a rejected command at most once, whatever
\* Notifications come together and in whatever order, and not before its
\* Notification has been handled: what is rejected, handled, and neither
\* on its way back nor in a call, and nothing else.
CompensatedOnce ==
  /\ \A c \in rejected : Cardinality(Compensations(c)) =
       IF Records(c) /\ c \notin returned /\ ~Taken(c) THEN 1 ELSE 0
  /\ \A i \in DOMAIN process :
       process[i].kind = "compensation" => process[i].command \in rejected

\* In the end each rejected command whose handler records events has been
\* compensated exactly once, and no other command has.
RejectedAreCompensated == <>[](
  /\ \A c \in rejected : Cardinality(Compensations(c)) = IF Records(c) THEN 1 ELSE 0
  /\ \A i \in DOMAIN process :
       process[i].kind = "compensation" => process[i].command \in rejected)
===============================================================================
