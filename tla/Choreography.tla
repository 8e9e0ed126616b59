----------------------------- MODULE Choreography -----------------------------
(***************************************************************************)
(* A source aggregate, an issuer that turns its events into commands, and  *)
(* the aggregates those commands go to, wired with the functional and the  *)
(* trait routers of router.go behind the adapters of handler.go.  A        *)
(* rejected command comes back as a Notification, to the issuer and to the *)
(* source aggregate.                                                       *)
(*                                                                         *)
(* The framework is external.  It appends the events of a reply to the     *)
(* source's log, calls the issuer again after an error, and sends          *)
(* the commands of a reply.  To an issuer that reads whole books it gives  *)
(* each event once; to one that reads the last page it gives each event    *)
(* once as the last page, with any of the earlier ones before it.          *)
(* Notifications reach the issuer under a domain it is registered for.     *)
(***************************************************************************)
EXTENDS Routers, FiniteSets, FiniteSetsExt, SequencesExt

CONSTANTS
  Request,       \* payloads sent to the source aggregate
  CommandType,   \* the command types the source aggregate registers with On
  EventType,     \* the types of the source's events
  Translated,    \* those the issuer registers
  Target,        \* the commands it can issue: domain and type
  Compensated,   \* the keys the source aggregate registers with OnRejected
  NoCommand,
  MaxEvents,     \* bound on the events that commands add to the source's log
  MaxCommands,   \* bound on the commands for one event
  MaxBeforeFollowUp,  \* bound on the commands there are when one is sent in
                 \* reply to a Notification
  MaxFailures    \* bound on dispatches that end in an error

ASSUME ChoreographyAssumption ==
  /\ Request \subseteq {p \in Payload : p.type # Notification} \cup {Absent}
  /\ Absent \notin Payload /\ NoCommand \notin [src : Nat, n : Nat, key : Key]
  /\ CommandType \subseteq Type
  /\ EventType \subseteq Type \ NotificationLike /\ Translated \subseteq EventType
  /\ Target \subseteq Key /\ Compensated \subseteq Key
  /\ MaxEvents \in Nat /\ MaxCommands \in Nat
  /\ MaxBeforeFollowUp \in Nat /\ MaxFailures \in Nat

Fronts == {"CommandRouter", "CommandHandlerRouter"}
Issuers == {"EventRouter", "SagaRouter", "ProcessManagerRouter", "ProcessManagerHandler"}
WholeBook == {"EventRouter", "ProcessManagerHandler"}

VARIABLES
  front,      \* the router of the source aggregate
  issuer,     \* the router of the saga or process manager
  log,        \* the source's events
  next,       \* the first of them the issuer has not answered for
  sent,       \* commands under way
  accepted,   \* commands their aggregates accepted
  refused,    \* commands they rejected
  atIssuer,   \* rejected commands whose Notification is due at the issuer
  atSource,   \* rejected commands whose Notification is due at the source
  recorded,   \* what the issuer's rejection handlers recorded
  delegated,  \* rejected commands the source left to the framework
  forwarded,  \* rejected commands the source sent a Notification upstream for
  asked,      \* those its handler wanted one for
  handled,    \* how often each event went through the issuer's handler
  failures

target == <<sent, accepted, refused, atIssuer, atSource>>
source == <<log, delegated, forwarded, asked>>
vars == <<front, issuer, source, next, target, recorded, handled, failures>>

Event(type, cause, by) == [type |-> type, cause |-> cause, by |-> by]
Command(i, n, key) == [src |-> i, n |-> n, key |-> key]

Init ==
  /\ front \in Fronts /\ issuer \in Issuers
  /\ log = << >> /\ next = 1
  /\ sent = {} /\ accepted = {} /\ refused = {}
  /\ atIssuer = {} /\ atSource = {} /\ recorded = {}
  /\ delegated = {} /\ forwarded = {} /\ asked = {}
  /\ handled = << >>
  /\ failures = 0

-------------------------------------------------------------------------------
(* The source aggregate *)

SourceReplies(p) ==
  IF front = "CommandRouter" THEN CommandRouterDispatch(p, CommandType, Compensated)
                             ELSE CommandHandlerRouterDispatch(p)

\* The framework persists events, of any type the aggregate has.
Persist(reply, types, cause) ==
  IF reply.kind = "events"
    THEN \E type \in types : /\ log' = Append(log, Event(type, cause, reply.by))
                             /\ handled' = Append(handled, 0)
    ELSE UNCHANGED <<log, handled>>

Handle(p) == \E reply \in SourceReplies(p) :
  /\ Len(SelectSeq(log, LAMBDA e : e.cause = NoCommand)) < MaxEvents
  /\ Persist(reply, EventType, NoCommand)
  /\ UNCHANGED <<front, issuer, next, target, recorded, delegated, forwarded, asked, failures>>

NotificationOf(c) == [type |-> Notification, key |-> c.key]

\* The answer to a Notification settles it, unless it is an error.
Settle(c) == \E reply \in SourceReplies(NotificationOf(c)) :
  /\ c \in atSource
  /\ reply.kind \in {"events", "revocation", "notification"}
  /\ atSource' = atSource \ {c}
  /\ Persist(reply, EventType \ Translated, c)
  /\ delegated' = IF reply.kind = "revocation" THEN delegated \cup {c} ELSE delegated
  /\ forwarded' = IF reply.kind = "notification" THEN forwarded \cup {c} ELSE forwarded
  /\ asked' = IF reply.asks THEN asked \cup {c} ELSE asked
  /\ UNCHANGED <<front, issuer, next, sent, accepted, refused, atIssuer, recorded, failures>>

SettleFails(c) == \E reply \in SourceReplies(NotificationOf(c)) :
  /\ c \in atSource /\ failures < MaxFailures
  /\ reply.kind \in {"FailedPrecondition", "InvalidArgument"}
  /\ failures' = failures + 1
  /\ UNCHANGED <<front, issuer, source, next, target, recorded, handled>>

-------------------------------------------------------------------------------
(* The issuer *)

Pages(book) ==
  IF issuer \in WholeBook THEN EventRouterPages(book, Translated) ELSE TriggerPage(book)

Issue(pages, targets) ==
  UNION {{Command(i, n, targets[i][n]) : n \in DOMAIN targets[i]} : i \in pages}

\* The handlers of some pages return commands; EventRouter puts those of the
\* book together, the others have one page.
Deliver(from, to) ==
  LET pages == {from + i - 1 : i \in Pages(SubSeq(log, from, to))}
  IN  /\ from \in 1..next /\ to \in next..Len(log)
      /\ IF issuer \in WholeBook THEN from = next ELSE to = next
      /\ \E targets \in [pages -> BoundedSeq(Target, MaxCommands)] :
           /\ \A i \in pages : log[i].type \notin Translated => targets[i] = << >>
           /\ sent' = sent \cup Issue(pages, targets)
      /\ next' = to + 1
      /\ handled' = [i \in DOMAIN log |-> IF i \in pages THEN handled[i] + 1 ELSE handled[i]]
      /\ UNCHANGED <<front, issuer, source, accepted, refused, atIssuer, atSource, recorded, failures>>

\* Faulty variant of DeliverFails: the commands of the first page are sent.
DeliverPartly ==
  /\ next <= Len(log) /\ failures < MaxFailures
  /\ failures' = failures + 1
  /\ \E key \in Target : sent' = sent \cup {Command(next, 1, key)}
  /\ UNCHANGED <<front, issuer, source, next, accepted, refused, atIssuer, atSource, recorded, handled>>

\* A handler's error, a command that cannot be stamped, or a reply that is
\* lost: the framework has nothing of this dispatch.
DeliverFails ==
  /\ next <= Len(log) /\ failures < MaxFailures
  /\ failures' = failures + 1
  /\ UNCHANGED <<front, issuer, source, next, target, recorded, handled>>

Compensations(c) ==
  CASE issuer = "EventRouter" -> IgnoredNotification
    [] issuer = "ProcessManagerHandler" -> HandledNotification
    [] OTHER -> RoutedNotification(c.key)

\* A function's reply to a Notification may hold a command of its own.
FollowUp(c) == Command(c.src, MaxCommands + c.n, c.key)

Outcome == sent \cup accepted \cup refused

NotifyIssuer(c) == \E r \in Compensations(c) :
  /\ c \in atIssuer
  /\ r.commands => c.n <= MaxCommands /\ Cardinality(Outcome) <= MaxBeforeFollowUp
  /\ atIssuer' = atIssuer \ {c}
  /\ recorded' = IF r.events THEN recorded \cup {[cause |-> c, by |-> r.by]} ELSE recorded
  /\ sent' = IF r.commands THEN sent \cup {FollowUp(c)} ELSE sent
  /\ UNCHANGED <<front, issuer, source, next, accepted, refused, atSource, handled, failures>>

-------------------------------------------------------------------------------
(* The aggregates the commands go to *)

Accept(c) ==
  /\ c \in sent
  /\ sent' = sent \ {c} /\ accepted' = accepted \cup {c}
  /\ UNCHANGED <<front, issuer, source, next, refused, atIssuer, atSource, recorded, handled, failures>>

\* FAILED_PRECONDITION or INVALID_ARGUMENT, a type nobody registered included.
Refuse(c) ==
  /\ c \in sent
  /\ sent' = sent \ {c} /\ refused' = refused \cup {c}
  /\ atIssuer' = atIssuer \cup {c} /\ atSource' = atSource \cup {c}
  /\ UNCHANGED <<front, issuer, source, next, accepted, recorded, handled, failures>>

Requests == \E p \in Request : Handle(p)
Deliveries == \E from, to \in 1..Len(log) : Deliver(from, to)
Receive == \E c \in sent : Accept(c) \/ Refuse(c)
Notify == \E c \in atIssuer : NotifyIssuer(c)
Compensate == \E c \in atSource : Settle(c)
Fail == DeliverFails \/ \E c \in atSource : SettleFails(c)

Next == Requests \/ Deliveries \/ Receive \/ Notify \/ Compensate \/ Fail

\* The framework delivers what is due and retries; requests need not come.
Spec == /\ Init /\ [][Next]_vars
        /\ WF_vars(Deliveries) /\ WF_vars(Receive) /\ WF_vars(Notify) /\ WF_vars(Compensate)

-------------------------------------------------------------------------------
(* Properties *)

CommandOK(c) ==
  /\ c.src \in DOMAIN log /\ log[c.src].type \in Translated
  /\ c.n \in 1..2 * MaxCommands /\ c.key \in Target

TypeOK ==
  /\ front \in Fronts /\ issuer \in Issuers
  /\ next \in 1..Len(log) + 1
  /\ DOMAIN handled = DOMAIN log
  /\ \A c \in sent \cup accepted \cup refused : CommandOK(c)
  /\ atIssuer \subseteq refused /\ atSource \subseteq refused
  /\ delegated \cup forwarded \cup asked \subseteq refused
  /\ failures \in 0..MaxFailures

\* Each event of a registered type is translated exactly once, however the
\* framework cuts the log into books, whichever router reads them, and
\* whatever dispatches failed before: the events up to next have been through
\* the handler once, and of no other is there a command anywhere.
TranslatedOnce ==
  /\ \A i \in DOMAIN log : log[i].type \in Translated => handled[i] = IF i < next THEN 1 ELSE 0
  /\ \A c \in Outcome : c.src < next

SourceFits ==
  /\ \A i \in DOMAIN log :
       LET e == log[i]
       IN  /\ e.cause # NoCommand => e.cause \in refused /\ e.by = e.cause.key
           /\ e.cause = NoCommand /\ front = "CommandRouter" => e.by \in CommandType
  /\ front = "CommandRouter" => \A p \in Request : \A reply \in SourceReplies(p) :
                                   reply.kind \notin {"revocation", "notification"}

IssuerFits == \A r \in recorded :
  /\ r.cause \in refused
  /\ issuer # "ProcessManagerHandler" => r.by = r.cause.key

\* A compensation answers a rejection, and the handler that made it is the one
\* for the rejected command, its domain and its type: at the source, where
\* CommandRouter takes no business command for a Notification, whatever it is
\* called (a trait router can), and at the issuer, where a router tells its
\* handler the key.
CompensationFits == SourceFits /\ IssuerFits

Answers(c) ==
  Cardinality({i \in DOMAIN log : log[i].cause = c})
    + (IF c \in delegated THEN 1 ELSE 0) + (IF c \in forwarded THEN 1 ELSE 0)

\* A rejected command is answered for at its source at most once, however often
\* the answer failed before and whatever follow-ups the issuer sent: not at all
\* as long as its Notification is due, in exactly one way from then on.  A
\* functional router without a handler for it delegates.  A Notification leaves
\* a router only when the rejection handler asked for one, and one it asked for
\* is lost only in the trait router and only behind the events that came with
\* it.
AnsweredOnce ==
  /\ \A c \in refused :
       /\ Answers(c) = IF c \in atSource THEN 0 ELSE 1
       /\ c \notin atSource /\ front = "CommandRouter" /\ c.key \notin Compensated
            => c \in delegated
  /\ forwarded \subseteq asked
  /\ \A c \in asked \ forwarded :
       front = "CommandHandlerRouter" /\ \E i \in DOMAIN log : log[i].cause = c

\* In the end every rejected command has been answered for at its source in
\* exactly one way: with events, by delegating to the framework, or with a
\* Notification.  A functional router without a handler for it delegates.
RejectionsSettle == <>[](
  \A c \in refused : /\ Answers(c) = 1
                     /\ front = "CommandRouter" /\ c.key \notin Compensated => c \in delegated)
===============================================================================
