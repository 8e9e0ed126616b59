-------------------------- MODULE ChoreographyProofs --------------------------
(***************************************************************************)
(* Proofs about Choreography, for every router in the place of the source  *)
(* and of the issuer, any registration of handlers, and any number of      *)
(* events, commands and failures: its type invariant, that each event is   *)
(* translated once, that rejections reach the handlers they are for, and   *)
(* are answered once.  At the end, about Envelopes: what messages say of   *)
(* themselves does not depend on who reads them.                           *)
(***************************************************************************)
EXTENDS Choreography, Envelopes, SequenceTheorems, FiniteSetTheorems, TLAPS

Issued == [src : Nat, n : Nat, key : Key]

\* Events are of the source's types; each knows its cause.
LogTyped ==
  /\ log \in Seq([type : EventType, cause : Issued \cup {NoCommand}, by : Type \cup Key \cup {NoKey}])
  /\ handled \in Seq(Nat)

\* A command names the event it is for, its number and its key.
CommandsTyped == Outcome \subseteq Issued

ChoreographyInv ==
  TypeOK /\ LogTyped /\ CommandsTyped /\ TranslatedOnce /\ SourceFits /\ IssuerFits

-------------------------------------------------------------------------------
(* Replies *)

\* The source's events in reply to a Notification come from the handler of the
\* rejected command.  A Notification is the reply of a handler that wants one
\* sent upstream, or the trait router drops it behind events.
LEMMA NotificationReplies ==
  ASSUME NEW key \in Key, front \in Fronts,
         NEW reply \in SourceReplies([type |-> Notification, key |-> key])
  PROVE  /\ reply.kind = "events" => reply.by = key
         /\ reply.kind = "notification" => reply.asks
         /\ reply.asks => \/ reply.kind = "notification"
                          \/ reply.kind = "events" /\ front = "CommandHandlerRouter"
<1> DEFINE p == [type |-> Notification, key |-> key]
<1>1. /\ p.type = Notification /\ p.key = key /\ p # Absent /\ key # Garbled
      /\ Notification \in NotificationLike
  BY RoutersAssumption, ChoreographyAssumption DEF Payload
<1> HIDE DEF p
<1>2. CASE front = "CommandRouter"
  <2>1. reply \in DispatchRejection(key, Compensated)
    BY <1>1, <1>2 DEF SourceReplies, CommandRouterDispatch, p
  <2>2. reply \in RevocationReplies(key) \cup {DelegateToFramework}
    BY <1>1, <2>1 DEF DispatchRejection
  <2> QED
    BY <2>2 DEF RevocationReplies, DelegateToFramework, Reply
<1>3. CASE front # "CommandRouter"
  <2>4. front = "CommandHandlerRouter"
    BY <1>3 DEF Fronts
  <2>1. reply \in {OnRejectedReply(r, key) : r \in RejectionHandlerResponse} \cup Errors
    BY <1>1, <1>3 DEF SourceReplies, CommandHandlerRouterDispatch, p
  <2>2. CASE reply \in Errors
    BY <2>2 DEF Errors, StatusOf, InvalidArgument, FailedPrecondition, Reply
  <2>3. CASE reply \notin Errors
    <3>1. PICK r \in RejectionHandlerResponse : reply = OnRejectedReply(r, key)
      BY <2>1, <2>3
    <3>2. r.events \in BOOLEAN /\ r.notification \in BOOLEAN
      BY <3>1 DEF RejectionHandlerResponse
    <3> QED
      BY <2>4, <3>1, <3>2 DEF OnRejectedReply, Reply
  <2> QED
    BY <2>2, <2>3
<1> QED
  BY <1>2, <1>3

\* CommandRouter takes no request for a Notification, whatever its name.
LEMMA RequestReplies ==
  ASSUME NEW p \in Request, NEW reply \in SourceReplies(p), front = "CommandRouter"
  PROVE  /\ reply.kind \notin {"revocation", "notification"}
         /\ reply.kind = "events" => reply.by \in CommandType
<1>1. p = Absent \/ (p # Absent /\ p.type # Notification)
  BY ChoreographyAssumption
<1>2. reply = InvalidArgument \/ (p # Absent /\ p.type \in CommandType /\ reply \in HandlerReplies(p.type))
  BY <1>1 DEF SourceReplies, CommandRouterDispatch
<1> QED
  BY <1>2 DEF HandlerReplies, Errors, StatusOf, InvalidArgument, FailedPrecondition, Reply

\* The handler a reply names, in the types that occur.
LEMMA ReplyTyped ==
  ASSUME front \in Fronts,
         NEW p \in Payload \cup {Absent}, NEW reply \in SourceReplies(p), reply.kind = "events"
  PROVE  reply.by \in Type \cup Key \cup {NoKey}
<1>1. CASE p = Absent
  BY <1>1 DEF SourceReplies, CommandRouterDispatch, CommandHandlerRouterDispatch, InvalidArgument, Reply
<1>2. CASE p # Absent
  <2>1. p \in Payload /\ p.type \in Type /\ p.key \in Key \cup {NoKey, Garbled}
    BY <1>2 DEF Payload
  <2>2. CASE front = "CommandRouter"
    <3>1. CASE p.type = Notification
      <4>1. reply \in DispatchRejection(p.key, Compensated)
        BY <1>2, <2>2, <3>1 DEF SourceReplies, CommandRouterDispatch
      <4>2. \/ reply \in {InvalidArgument, DelegateToFramework}
            \/ p.key # Garbled /\ reply \in RevocationReplies(p.key)
        BY <4>1, RoutersAssumption, ChoreographyAssumption DEF DispatchRejection
      <4> QED
        BY <2>1, <4>2 DEF RevocationReplies, DelegateToFramework, InvalidArgument, Reply
    <3>2. CASE p.type # Notification
      <4>1. reply \in HandlerReplies(p.type) \cup {InvalidArgument}
        BY <1>2, <2>2, <3>2 DEF SourceReplies, CommandRouterDispatch
      <4> QED
        BY <2>1, <4>1 DEF HandlerReplies, Errors, StatusOf, InvalidArgument, FailedPrecondition, Reply
    <3> QED
      BY <3>1, <3>2
  <2>3. CASE front # "CommandRouter"
    BY <1>2, <2>1, <2>3, RoutersAssumption
       DEF SourceReplies, CommandHandlerRouterDispatch, OnRejectedReply, HandlerReplies, Errors,
           StatusOf, InvalidArgument, FailedPrecondition, Reply, RejectionHandlerResponse
  <2> QED
    BY <2>2, <2>3
<1> QED
  BY <1>1, <1>2

-------------------------------------------------------------------------------
(* The source's log *)

\* Appending keeps what is there and adds one entry at the end.
LEMMA Appended ==
  ASSUME NEW S, NEW s \in Seq(S), NEW e \in S
  PROVE  /\ Append(s, e) \in Seq(S)
         /\ DOMAIN s = 1..Len(s) /\ DOMAIN Append(s, e) = 1..Len(s) + 1 /\ Len(s) \in Nat
         /\ Len(Append(s, e)) = Len(s) + 1
         /\ \A i \in DOMAIN s : Append(s, e)[i] = s[i]
         /\ Append(s, e)[Len(s) + 1] = e
BY AppendProperties

(***************************************************************************)
(* Persisting a reply of the source adds at most one event, not yet        *)
(* handled, with the cause and the handler given.                          *)
(***************************************************************************)
LEMMA PersistShape ==
  ASSUME ChoreographyInv, NEW reply, NEW types \in SUBSET EventType,
         NEW cause \in Issued \cup {NoCommand},
         reply.kind = "events" => reply.by \in Type \cup Key \cup {NoKey},
         Persist(reply, types, cause)
  PROVE  /\ LogTyped' /\ DOMAIN handled' = DOMAIN log'
         /\ DOMAIN log = 1..Len(log) /\ Len(log) \in Nat
         /\ DOMAIN log \subseteq DOMAIN log' /\ Len(log) <= Len(log')
         /\ DOMAIN log' = 1..Len(log')
         /\ \A i \in DOMAIN log : log'[i] = log[i] /\ handled'[i] = handled[i]
         /\ \A i \in DOMAIN log' \ DOMAIN log :
              /\ i > Len(log) /\ handled'[i] = 0 /\ reply.kind = "events"
              /\ log'[i].type \in types /\ log'[i].cause = cause /\ log'[i].by = reply.by
<1> DEFINE E == [type : EventType, cause : Issued \cup {NoCommand}, by : Type \cup Key \cup {NoKey}]
<1>1. log \in Seq(E) /\ handled \in Seq(Nat) /\ DOMAIN handled = DOMAIN log
  BY DEF ChoreographyInv, LogTyped, TypeOK
<1>2. DOMAIN log = 1..Len(log) /\ Len(log) \in Nat /\ Len(handled) = Len(log)
  BY <1>1
<1>3. CASE reply.kind = "events"
  <2>1. PICK type \in types : /\ log' = Append(log, Event(type, cause, reply.by))
                              /\ handled' = Append(handled, 0)
    BY <1>3 DEF Persist
  <2> DEFINE e == Event(type, cause, reply.by)
  <2>2. e \in E /\ e.type = type /\ e.cause = cause /\ e.by = reply.by
    BY <1>3, <2>1 DEF Event
  <2> HIDE DEF e, E
  <2>3. /\ log' \in Seq(E) /\ DOMAIN log' = 1..Len(log) + 1 /\ Len(log') = Len(log) + 1
        /\ \A i \in DOMAIN log : log'[i] = log[i]
        /\ log'[Len(log) + 1] = e
    BY <1>1, <2>1, <2>2, Appended DEF e
  <2>4. /\ handled' \in Seq(Nat) /\ DOMAIN handled' = 1..Len(log) + 1
        /\ \A i \in DOMAIN log : handled'[i] = handled[i]
        /\ handled'[Len(log) + 1] = 0
    BY <1>1, <1>2, <2>1, Appended
  <2>5. \A i \in DOMAIN log' \ DOMAIN log : i = Len(log) + 1
    BY <1>2, <2>3
  <2>6. LogTyped'
    BY <2>3, <2>4 DEF LogTyped, E
  <2> QED
    BY <1>2, <1>3, <2>1, <2>2, <2>3, <2>4, <2>5, <2>6
<1>4. CASE reply.kind # "events"
  BY <1>1, <1>2, <1>4 DEF Persist, LogTyped
<1> QED
  BY <1>3, <1>4

\* What a longer log leaves true of commands and of what was handled.
LEMMA LongerLog ==
  ASSUME ChoreographyInv, Len(log) \in Nat, DOMAIN log = 1..Len(log),
         DOMAIN log \subseteq DOMAIN log', DOMAIN log' = 1..Len(log'), Len(log') \in Nat,
         \A i \in DOMAIN log : log'[i] = log[i] /\ handled'[i] = handled[i],
         \A i \in DOMAIN log' \ DOMAIN log : i > Len(log) /\ handled'[i] = 0,
         UNCHANGED <<next, sent, accepted, refused>>
  PROVE  /\ \A c \in Outcome : CommandOK(c)'
         /\ Outcome' = Outcome /\ TranslatedOnce' /\ next' \in 1..Len(log') + 1
<1>1. next \in 1..Len(log) + 1 /\ Len(log) <= Len(log')
  <2>1. next \in 1..Len(log) + 1
    BY DEF ChoreographyInv, TypeOK
  <2>2. Len(log) <= Len(log')
    <3>1. CASE Len(log) = 0
      BY <3>1
    <3>2. CASE Len(log) > 0
      <4>1. Len(log) \in DOMAIN log'
        BY <3>2
      <4> QED
        BY <4>1
    <3> QED
      BY <3>1, <3>2
  <2> QED
    BY <2>1, <2>2
<1>2. \A c \in Outcome : CommandOK(c)'
  BY DEF ChoreographyInv, TypeOK, CommandOK, Outcome
<1>3. Outcome' = Outcome
  BY DEF Outcome
<1>4. TranslatedOnce'
  BY <1>1, <1>3 DEF ChoreographyInv, TranslatedOnce
<1> QED
  BY <1>1, <1>2, <1>3, <1>4

-------------------------------------------------------------------------------
(* The steps *)

LEMMA InitChoreography == Init => ChoreographyInv
<1> SUFFICES ASSUME Init PROVE ChoreographyInv
  OBVIOUS
<1>1. log = << >> /\ handled = << >> /\ DOMAIN log = {} /\ Len(log) = 0
  BY DEF Init
<1>2. TypeOK /\ LogTyped /\ CommandsTyped /\ TranslatedOnce /\ IssuerFits
  BY <1>1, ChoreographyAssumption DEF Init, TypeOK, LogTyped, CommandsTyped, TranslatedOnce, Outcome, IssuerFits, Fronts, Issuers
<1>3. SourceFits
  <2>1. front = "CommandRouter" => \A p \in Request : \A reply \in SourceReplies(p) :
          reply.kind \notin {"revocation", "notification"}
    BY RequestReplies
  <2> QED
    BY <1>1, <2>1 DEF SourceFits
<1> QED
  BY <1>2, <1>3 DEF ChoreographyInv

\* A command of the source is handled, or refused with an error.
LEMMA HandleStep ==
  ASSUME ChoreographyInv, NEW p \in Request, Handle(p)
  PROVE  ChoreographyInv'
<1>1. PICK reply \in SourceReplies(p) :
        /\ Persist(reply, EventType, NoCommand)
        /\ UNCHANGED <<front, issuer, next, sent, accepted, refused, atIssuer, atSource, recorded,
                       delegated, forwarded, asked, failures>>
  BY DEF Handle, target
<1>2. reply.kind = "events" => reply.by \in Type \cup Key \cup {NoKey}
  BY ReplyTyped, ChoreographyAssumption DEF ChoreographyInv, TypeOK
<1>3. /\ LogTyped' /\ DOMAIN handled' = DOMAIN log'
      /\ DOMAIN log = 1..Len(log) /\ Len(log) \in Nat
      /\ DOMAIN log \subseteq DOMAIN log' /\ DOMAIN log' = 1..Len(log')
      /\ \A i \in DOMAIN log : log'[i] = log[i] /\ handled'[i] = handled[i]
      /\ \A i \in DOMAIN log' \ DOMAIN log :
           /\ i > Len(log) /\ handled'[i] = 0 /\ reply.kind = "events"
           /\ log'[i].cause = NoCommand /\ log'[i].by = reply.by
  <2>1. EventType \in SUBSET EventType /\ NoCommand \in Issued \cup {NoCommand}
    OBVIOUS
  <2>3. /\ LogTyped' /\ DOMAIN handled' = DOMAIN log'
        /\ DOMAIN log = 1..Len(log) /\ Len(log) \in Nat
        /\ DOMAIN log \subseteq DOMAIN log' /\ Len(log) <= Len(log')
        /\ DOMAIN log' = 1..Len(log')
        /\ \A i \in DOMAIN log : log'[i] = log[i] /\ handled'[i] = handled[i]
        /\ \A i \in DOMAIN log' \ DOMAIN log :
             /\ i > Len(log) /\ handled'[i] = 0 /\ reply.kind = "events"
             /\ log'[i].type \in EventType /\ log'[i].cause = NoCommand /\ log'[i].by = reply.by
    BY <1>1, <1>2, <2>1, PersistShape
  <2> QED
    BY <2>3
<1>4. Len(log') \in Nat
  BY <1>3 DEF LogTyped
<1>5. /\ \A c \in Outcome : CommandOK(c)'
      /\ TranslatedOnce' /\ next' \in 1..Len(log') + 1
  BY <1>1, <1>3, <1>4, LongerLog
<1>6. TypeOK'
  BY <1>1, <1>3, <1>5 DEF ChoreographyInv, TypeOK, Outcome
<1>7. SourceFits'
  <2>1. front = "CommandRouter" /\ reply.kind = "events" => reply.by \in CommandType
    BY RequestReplies
  <2>2. SourceReplies(p)' = SourceReplies(p) /\ \A q : SourceReplies(q)' = SourceReplies(q)
    BY <1>1 DEF SourceReplies
  <2> QED
    BY <1>1, <1>3, <2>1, <2>2 DEF ChoreographyInv, SourceFits
<1>8. IssuerFits' /\ CommandsTyped'
  BY <1>1 DEF ChoreographyInv, CommandsTyped, Outcome, IssuerFits
<1> QED
  BY <1>3, <1>5, <1>6, <1>7, <1>8 DEF ChoreographyInv


\* The source settles a rejection with an event of the handler it is for, or
\* leaves it to the framework, or to who is upstream.
LEMMA SettleStep ==
  ASSUME ChoreographyInv, NEW c \in atSource, Settle(c)
  PROVE  ChoreographyInv'
<1>1. PICK reply \in SourceReplies(NotificationOf(c)) :
        /\ atSource' = atSource \ {c}
        /\ Persist(reply, EventType \ Translated, c)
        /\ delegated' \in {delegated, delegated \cup {c}}
        /\ forwarded' = IF reply.kind = "notification" THEN forwarded \cup {c} ELSE forwarded
        /\ asked' = IF reply.asks THEN asked \cup {c} ELSE asked
        /\ UNCHANGED <<front, issuer, next, sent, accepted, refused, atIssuer, recorded, failures>>
  BY DEF Settle
<1>2. c \in refused /\ c \in Issued /\ c.key \in Key /\ front \in Fronts /\ c # NoCommand
  BY ChoreographyAssumption
     DEF ChoreographyInv, CommandsTyped, Outcome, TypeOK, Issued
<1>3. reply.kind = "events" => reply.by = c.key
  BY <1>1, <1>2, NotificationReplies DEF NotificationOf
<1>4. /\ LogTyped' /\ DOMAIN handled' = DOMAIN log'
      /\ DOMAIN log = 1..Len(log) /\ Len(log) \in Nat
      /\ DOMAIN log \subseteq DOMAIN log' /\ DOMAIN log' = 1..Len(log')
      /\ \A i \in DOMAIN log : log'[i] = log[i] /\ handled'[i] = handled[i]
      /\ \A i \in DOMAIN log' \ DOMAIN log :
           /\ i > Len(log) /\ handled'[i] = 0 /\ reply.kind = "events"
           /\ log'[i].cause = c /\ log'[i].by = reply.by
  <2>1. EventType \ Translated \in SUBSET EventType /\ c \in Issued \cup {NoCommand}
    BY <1>2
  <2>2. reply.kind = "events" => reply.by \in Type \cup Key \cup {NoKey}
    BY <1>2, <1>3
  <2>3. /\ LogTyped' /\ DOMAIN handled' = DOMAIN log'
        /\ DOMAIN log = 1..Len(log) /\ Len(log) \in Nat
        /\ DOMAIN log \subseteq DOMAIN log' /\ Len(log) <= Len(log')
        /\ DOMAIN log' = 1..Len(log')
        /\ \A i \in DOMAIN log : log'[i] = log[i] /\ handled'[i] = handled[i]
        /\ \A i \in DOMAIN log' \ DOMAIN log :
             /\ i > Len(log) /\ handled'[i] = 0 /\ reply.kind = "events"
             /\ log'[i].type \in (EventType \ Translated) /\ log'[i].cause = c /\ log'[i].by = reply.by
    BY <1>1, <2>1, <2>2, PersistShape
  <2> QED
    BY <2>3
<1>5. Len(log') \in Nat
  BY <1>4 DEF LogTyped
<1>6. /\ \A x \in Outcome : CommandOK(x)'
      /\ TranslatedOnce' /\ next' \in 1..Len(log') + 1
  BY <1>1, <1>4, <1>5, LongerLog
<1>7. TypeOK'
  BY <1>1, <1>2, <1>4, <1>6 DEF ChoreographyInv, TypeOK, Outcome
<1>8. SourceFits'
  <2>1. \A q : SourceReplies(q)' = SourceReplies(q)
    BY <1>1 DEF SourceReplies
  <2> QED
    BY <1>1, <1>2, <1>3, <1>4, <2>1 DEF ChoreographyInv, SourceFits
<1>9. IssuerFits' /\ CommandsTyped'
  BY <1>1, <1>3 DEF ChoreographyInv, IssuerFits, CommandsTyped, Outcome
<1> QED
  BY <1>4, <1>6, <1>7, <1>8, <1>9 DEF ChoreographyInv

(***************************************************************************)
(* The pages an issuer goes through: of those delivered, one that reads    *)
(* whole books takes each one of a registered type, the others the last.   *)
(***************************************************************************)
LEMMA DeliveredPages ==
  ASSUME ChoreographyInv, NEW from \in 1..Len(log), NEW to \in 1..Len(log),
         from \in 1..next, to \in next..Len(log),
         IF issuer \in WholeBook THEN from = next ELSE to = next
  PROVE  LET pages == {from + i - 1 : i \in Pages(SubSeq(log, from, to))}
         IN  IF issuer \in WholeBook
             THEN pages = {i \in next..to : log[i].type \in Translated}
             ELSE pages = {next} /\ to = next
<1> DEFINE book == SubSeq(log, from, to)
<1>1. /\ DOMAIN log = 1..Len(log) /\ Len(log) \in Nat /\ from \in Nat /\ to \in Nat
      /\ next \in Nat /\ from <= to /\ 1 <= from /\ to <= Len(log)
  BY DEF ChoreographyInv, LogTyped, TypeOK
<1>2. /\ Len(book) = to - from + 1 /\ DOMAIN book = 1..(to - from + 1)
      /\ \A i \in 1..(to - from + 1) : book[i] = log[from + i - 1]
  <2>1. PICK m \in Int, n \in Int : m = from /\ n = to
    BY <1>1
  <2>2. PICK S : log \in Seq(S)
    BY DEF ChoreographyInv, LogTyped
  <2>3. \A i \in m..n : log[i] \in S
    BY <1>1, <2>1, <2>2
  <2>4. /\ SubSeq(log, m, n) \in Seq(S)
        /\ Len(SubSeq(log, m, n)) = IF m <= n THEN n - m + 1 ELSE 0
        /\ \A i \in 1..n - m + 1 : SubSeq(log, m, n)[i] = log[m + i - 1]
    BY <2>3, SubSeqProperties
  <2> QED
    BY <1>1, <2>1, <2>4
<1> HIDE DEF book
<1>3. CASE issuer \in WholeBook
  <2>1. Pages(book) = {i \in 1..(to - from + 1) : log[from + i - 1].type \in Translated}
    BY <1>2, <1>3 DEF Pages, EventRouterPages
  <2>2. ASSUME NEW j \in next..to, log[j].type \in Translated
        PROVE  j \in {from + i - 1 : i \in Pages(book)}
    <3>1. j - from + 1 \in 1..(to - from + 1) /\ from + (j - from + 1) - 1 = j
      BY <1>1, <1>3
    <3>2. j - from + 1 \in Pages(book)
      BY <2>1, <2>2, <3>1
    <3> QED
      BY <3>1, <3>2
  <2>3. ASSUME NEW i \in Pages(book)
        PROVE  from + i - 1 \in next..to /\ log[from + i - 1].type \in Translated
    BY <1>1, <1>3, <2>1, <2>3
  <2> QED
    BY <1>3, <2>2, <2>3 DEF book
<1>4. CASE issuer \notin WholeBook
  <2>1. Pages(book) = {to - from + 1} /\ from + (to - from + 1) - 1 = next /\ to = next
    BY <1>1, <1>2, <1>4 DEF Pages, TriggerPage
  <2> QED
    BY <1>4, <2>1 DEF book
<1> QED
  BY <1>3, <1>4

\* A dispatch gives every event in the book to its handler, whose commands go
\* out together.
LEMMA DeliverStep ==
  ASSUME ChoreographyInv, NEW from \in 1..Len(log), NEW to \in 1..Len(log), Deliver(from, to)
  PROVE  ChoreographyInv'
<1> USE ChoreographyAssumption
<1> DEFINE pages == {from + i - 1 : i \in Pages(SubSeq(log, from, to))}
<1>1. /\ from \in 1..next /\ to \in next..Len(log)
      /\ IF issuer \in WholeBook THEN from = next ELSE to = next
      /\ \E targets \in [pages -> BoundedSeq(Target, MaxCommands)] :
           /\ \A i \in pages : log[i].type \notin Translated => targets[i] = << >>
           /\ sent' = sent \cup Issue(pages, targets)
      /\ next' = to + 1
      /\ handled' = [i \in DOMAIN log |-> IF i \in pages THEN handled[i] + 1 ELSE handled[i]]
      /\ UNCHANGED <<front, issuer, log, delegated, forwarded, asked, accepted, refused, atIssuer,
                     atSource, recorded, failures>>
  BY DEF Deliver, source
<1>2. IF issuer \in WholeBook
      THEN pages = {i \in next..to : log[i].type \in Translated}
      ELSE pages = {next} /\ to = next
  BY <1>1, DeliveredPages
<1> HIDE DEF pages
<1>3. /\ DOMAIN log = 1..Len(log) /\ Len(log) \in Nat /\ next \in 1..Len(log) + 1
      /\ DOMAIN handled = DOMAIN log /\ handled \in Seq(Nat)
      /\ \A i \in DOMAIN handled : handled[i] \in Nat
  BY DEF ChoreographyInv, LogTyped, TypeOK
<1>4. /\ pages \subseteq next..to /\ pages \subseteq DOMAIN log /\ next \in Nat /\ to \in Nat
      /\ \A i \in next..to : log[i].type \in Translated => i \in pages
  <2>1. next \in Nat /\ to \in Nat /\ next <= to /\ next..to \subseteq DOMAIN log
    BY <1>1, <1>3
  <2>2. CASE issuer \in WholeBook
    BY <1>2, <2>1, <2>2
  <2>3. CASE issuer \notin WholeBook
    BY <1>2, <2>1, <2>3
  <2> QED
    BY <2>2, <2>3
<1>5. PICK targets \in [pages -> BoundedSeq(Target, MaxCommands)] :
        /\ \A i \in pages : log[i].type \notin Translated => targets[i] = << >>
        /\ sent' = sent \cup Issue(pages, targets)
  BY <1>1
<1>6. ASSUME NEW c \in Issue(pages, targets)
      PROVE  c \in Issued /\ CommandOK(c) /\ c.src \in next..to
  <2>1. PICK i \in pages : c \in {Command(i, n, targets[i][n]) : n \in DOMAIN targets[i]}
    BY <1>6 DEF Issue
  <2>2. PICK n \in DOMAIN targets[i] : c = Command(i, n, targets[i][n])
    BY <2>1
  <2>3. PICK m \in 0..MaxCommands : targets[i] \in [1..m -> Target]
    BY <1>5, <2>1 DEF BoundedSeq, SeqOf
  <2>4. n \in 1..m /\ n \in Nat /\ n <= MaxCommands /\ targets[i][n] \in Target
    BY <2>2, <2>3
  <2>5. targets[i] # << >>
    BY <2>2
  <2>6. log[i].type \in Translated /\ i \in DOMAIN log /\ i \in next..to /\ i \in Nat
    BY <1>3, <1>4, <1>5, <2>1, <2>5
  <2>7. c.src = i /\ c.n = n /\ c.key = targets[i][n] /\ c \in Issued
    BY <2>2, <2>4, <2>6 DEF Command, Issued
  <2>8. n \in 1..2 * MaxCommands
    BY <2>4
  <2> QED
    BY <2>4, <2>6, <2>7, <2>8 DEF CommandOK
<1>7. Outcome' \subseteq Outcome \cup Issue(pages, targets)
  BY <1>1, <1>5 DEF Outcome
<1>8. \A c \in Outcome' : CommandOK(c)' /\ c \in Issued
  BY <1>1, <1>6, <1>7 DEF ChoreographyInv, TypeOK, Outcome, CommandOK, CommandsTyped
<1>9. TypeOK' /\ CommandsTyped'
  <2>1. next' \in 1..Len(log) + 1
    BY <1>1, <1>3, <1>4
  <2>2. (\A c \in sent \cup accepted \cup refused : CommandOK(c))'
    BY <1>8 DEF Outcome
  <2> QED
    BY <1>1, <1>3, <1>8, <2>1, <2>2, SMTT(30) DEF ChoreographyInv, TypeOK, CommandsTyped
<1>10. LogTyped'
  <2>1. \A i \in 1..Len(log) : handled'[i] \in Nat
    BY <1>1, <1>3
  <2>2. handled' \in [1..Len(log) -> Nat]
    BY <1>1, <1>3, <2>1
  <2>3. handled' \in Seq(Nat)
    <3>1. PICK n \in Nat : n = Len(log)
      BY <1>3
    <3> QED
      BY <2>2, <3>1
  <2> QED
    BY <1>1, <2>3 DEF ChoreographyInv, LogTyped
<1>11. TranslatedOnce'
  <2>1. ASSUME NEW i \in DOMAIN log, log[i].type \in Translated
        PROVE  handled'[i] = IF i < next' THEN 1 ELSE 0
    <3>1. handled[i] = IF i < next THEN 1 ELSE 0
      BY <2>1 DEF ChoreographyInv, TranslatedOnce
    <3>2. i \in Nat /\ (i \in pages <=> next <= i /\ i <= to)
      BY <1>3, <1>4, <2>1
    <3>3. handled'[i] = IF i \in pages THEN handled[i] + 1 ELSE handled[i]
      BY <1>1
    <3> QED
      BY <1>1, <1>4, <3>1, <3>2, <3>3
  <2>2. ASSUME NEW c \in Outcome'
        PROVE  c.src < next'
    <3>1. CASE c \in Outcome
      <4>1. c.src < next /\ c.src \in Nat
        BY <3>1 DEF ChoreographyInv, TranslatedOnce, CommandsTyped, Issued
      <4> QED
        BY <1>1, <1>4, <4>1
    <3>2. CASE c \in Issue(pages, targets)
      BY <1>1, <1>4, <1>6, <3>2
    <3> QED
      BY <1>7, <3>1, <3>2
  <2> QED
    BY <1>1, <2>1, <2>2 DEF TranslatedOnce
<1>12. SourceFits' /\ IssuerFits'
  BY <1>1 DEF ChoreographyInv, SourceFits, IssuerFits, SourceReplies
<1> QED
  BY <1>9, <1>10, <1>11, <1>12 DEF ChoreographyInv

\* A step that leaves the log, the source and the issuer alone needs a look at
\* the commands only.
LEMMA CommandsMove ==
  ASSUME ChoreographyInv,
         UNCHANGED <<front, issuer, log, delegated, forwarded, asked, next, handled>>,
         failures' \in 0..MaxFailures, refused \subseteq refused',
         atIssuer' \subseteq refused', atSource' \subseteq refused',
         \A c \in Outcome' : CommandOK(c) /\ c \in Issued /\ c.src < next,
         IssuerFits'
  PROVE  ChoreographyInv'
<1>1. TypeOK'
  <2>1. (\A c \in sent \cup accepted \cup refused : CommandOK(c))'
    BY DEF Outcome, CommandOK
  <2> QED
    BY <2>1 DEF ChoreographyInv, TypeOK
<1>2. LogTyped' /\ CommandsTyped'
  BY DEF ChoreographyInv, LogTyped, CommandsTyped
<1>3. TranslatedOnce'
  BY DEF ChoreographyInv, TranslatedOnce
<1>4. SourceFits'
  BY DEF ChoreographyInv, SourceFits, SourceReplies
<1> QED
  BY <1>1, <1>2, <1>3, <1>4 DEF ChoreographyInv

\* The commands there are, as the invariant knows them.
LEMMA OutcomeKnown ==
  ASSUME ChoreographyInv, NEW c \in Outcome
  PROVE  CommandOK(c) /\ c \in Issued /\ c.src < next
BY DEF ChoreographyInv, TypeOK, TranslatedOnce, CommandsTyped, Outcome

\* A Notification reaches the issuer: its router tells the handler the key.
LEMMA NotifyStep ==
  ASSUME ChoreographyInv, NEW c \in atIssuer, NotifyIssuer(c)
  PROVE  ChoreographyInv'
<1>1. PICK r \in Compensations(c) :
        /\ r.commands => c.n <= MaxCommands
        /\ atIssuer' = atIssuer \ {c}
        /\ recorded' = IF r.events THEN recorded \cup {[cause |-> c, by |-> r.by]} ELSE recorded
        /\ sent' = IF r.commands THEN sent \cup {FollowUp(c)} ELSE sent
        /\ UNCHANGED <<front, issuer, log, delegated, forwarded, asked, next, accepted, refused,
                       atSource, handled, failures>>
  BY DEF NotifyIssuer, source
<1>2. c \in refused /\ c \in Outcome
  BY DEF ChoreographyInv, TypeOK, Outcome
<1>3. CommandOK(c) /\ c \in Issued /\ c.src < next
  BY <1>2, OutcomeKnown
<1>4. c.n <= MaxCommands => CommandOK(FollowUp(c)) /\ FollowUp(c) \in Issued /\ FollowUp(c).src < next
  <2>1. /\ FollowUp(c).src = c.src /\ FollowUp(c).n = MaxCommands + c.n /\ FollowUp(c).key = c.key
    BY DEF FollowUp, Command
  <2>2. MaxCommands \in Nat /\ c.n \in Nat /\ c.n >= 1 /\ c.src \in Nat /\ c.key \in Key
    BY <1>3, ChoreographyAssumption DEF Issued, CommandOK
  <2>3. FollowUp(c) \in Issued
    BY <2>2 DEF FollowUp, Command, Issued
  <2> QED
    BY <1>3, <2>1, <2>2, <2>3 DEF CommandOK
<1>5. \A x \in Outcome' : CommandOK(x) /\ x \in Issued /\ x.src < next
  BY <1>1, <1>4, OutcomeKnown DEF Outcome
<1>6. r.events /\ issuer # "ProcessManagerHandler" => r.by = c.key
  BY <1>1 DEF Compensations, IgnoredNotification, RoutedNotification, Compensation
<1>7. IssuerFits'
  <2>1. CASE recorded' = recorded
    BY <1>1, <2>1 DEF ChoreographyInv, IssuerFits
  <2>2. CASE r.events /\ recorded' = recorded \cup {[cause |-> c, by |-> r.by]}
    BY <1>1, <1>2, <1>6, <2>2 DEF ChoreographyInv, IssuerFits
  <2> QED
    BY <1>1, <2>1, <2>2
<1>8. failures' \in 0..MaxFailures /\ atIssuer' \subseteq refused' /\ atSource' \subseteq refused'
  BY <1>1 DEF ChoreographyInv, TypeOK
<1> QED
  BY <1>1, <1>5, <1>7, <1>8, CommandsMove

\* A command is accepted or refused by the aggregate it is for.
LEMMA ReceiveStep ==
  ASSUME ChoreographyInv, NEW c \in sent, Accept(c) \/ Refuse(c)
  PROVE  ChoreographyInv'
<1>1. /\ UNCHANGED <<front, issuer, log, delegated, forwarded, asked, next, recorded, handled,
                     failures>>
      /\ sent' = sent \ {c} /\ accepted' \subseteq accepted \cup {c}
      /\ \/ UNCHANGED <<refused, atIssuer, atSource>>
         \/ /\ refused' = refused \cup {c}
            /\ atIssuer' = atIssuer \cup {c} /\ atSource' = atSource \cup {c}
  BY DEF Accept, Refuse, source
<1>2. Outcome' \subseteq Outcome
  BY <1>1 DEF Outcome
<1>3. \A x \in Outcome' : CommandOK(x) /\ x \in Issued /\ x.src < next
  BY <1>2, OutcomeKnown
<1>4. /\ failures' \in 0..MaxFailures /\ refused \subseteq refused'
      /\ atIssuer' \subseteq refused' /\ atSource' \subseteq refused'
  BY <1>1 DEF ChoreographyInv, TypeOK
<1>5. IssuerFits'
  BY <1>1, <1>4 DEF ChoreographyInv, IssuerFits
<1> QED
  BY <1>1, <1>3, <1>4, <1>5, CommandsMove

LEMMA ChoreographyStep == ChoreographyInv /\ [Next]_vars => ChoreographyInv'
<1> SUFFICES ASSUME ChoreographyInv, [Next]_vars PROVE ChoreographyInv'
  OBVIOUS
<1>1. CASE \/ UNCHANGED vars \/ Fail
  <2>1. /\ UNCHANGED <<front, issuer, log, delegated, forwarded, asked, next, sent, accepted,
                       refused, atIssuer, atSource, recorded, handled>>
        /\ failures' = failures \/ (failures' = failures + 1 /\ failures < MaxFailures)
    BY <1>1 DEF vars, source, target, Fail, DeliverFails, SettleFails
  <2>2. failures' \in 0..MaxFailures /\ atIssuer' \subseteq refused' /\ atSource' \subseteq refused'
    BY <2>1, ChoreographyAssumption DEF ChoreographyInv, TypeOK
  <2>3. \A x \in Outcome' : CommandOK(x) /\ x \in Issued /\ x.src < next
    BY <2>1, OutcomeKnown DEF Outcome
  <2>4. IssuerFits'
    BY <2>1 DEF ChoreographyInv, IssuerFits
  <2> QED
    BY <2>1, <2>2, <2>3, <2>4, CommandsMove
<1>2. CASE Next /\ ~Fail
  BY <1>2, HandleStep, SettleStep, DeliverStep, NotifyStep, ReceiveStep
     DEF Next, Requests, Deliveries, Receive, Notify, Compensate
<1> QED
  BY <1>1, <1>2

LEMMA AlwaysChoreography == Spec => []ChoreographyInv
BY InitChoreography, ChoreographyStep, PTL DEF Spec

-------------------------------------------------------------------------------
(* One answer for each rejection *)

\* The events of the source that answer for a command.
Causes(c) == {i \in DOMAIN log : log[i].cause = c}

\* A command is sent once: what is under way has not been rejected before, and
\* a follow-up answers a Notification that is no longer due.
SentOnce ==
  /\ sent \cap refused = {}
  /\ \A x \in Outcome : x.n > MaxCommands =>
       Command(x.src, x.n - MaxCommands, x.key) \in refused \ atIssuer

AnsweredInv == SentOnce /\ AnsweredOnce

\* Counting answers: none means no event and no decision.
LEMMA Counting ==
  ASSUME ChoreographyInv, NEW c
  PROVE  /\ IsFiniteSet(Causes(c)) /\ Cardinality(Causes(c)) \in Nat
         /\ Answers(c) = Cardinality(Causes(c)) + (IF c \in delegated THEN 1 ELSE 0)
                                                + (IF c \in forwarded THEN 1 ELSE 0)
         /\ Answers(c) = 0 <=> Causes(c) = {} /\ c \notin delegated /\ c \notin forwarded
<1>1. Len(log) \in Nat /\ DOMAIN log = 1..Len(log)
  BY DEF ChoreographyInv, LogTyped
<1>2. IsFiniteSet(1..Len(log)) /\ Causes(c) \in SUBSET (1..Len(log))
  BY <1>1, FS_Interval DEF Causes
<1>3. IsFiniteSet(Causes(c)) /\ Cardinality(Causes(c)) \in Nat
  BY <1>2, FS_Subset, FS_CardinalityType
<1>4. Cardinality(Causes(c)) = 0 <=> Causes(c) = {}
  BY <1>3, FS_EmptySet
<1>5. Answers(c) = Cardinality(Causes(c)) + (IF c \in delegated THEN 1 ELSE 0)
                                         + (IF c \in forwarded THEN 1 ELSE 0)
  BY DEF Answers, Causes
<1> QED
  BY <1>3, <1>4, <1>5

\* Commands nobody has rejected have no answer.
LEMMA NoAnswerYet ==
  ASSUME ChoreographyInv, NEW c \in Outcome, c \notin refused
  PROVE  Answers(c) = 0
<1>1. c # NoCommand
  BY ChoreographyAssumption DEF ChoreographyInv, CommandsTyped, Issued
<1>2. Causes(c) = {} /\ c \notin delegated /\ c \notin forwarded
  BY <1>1 DEF ChoreographyInv, SourceFits, TypeOK, Causes
<1> QED
  BY <1>2, Counting

\* What persisting adds to the answers for a command.
LEMMA Extended ==
  ASSUME ChoreographyInv, NEW reply, NEW types, NEW cause, Persist(reply, types, cause)
  PROVE  /\ \A x : x # cause => Causes(x)' = Causes(x)
         /\ Causes(cause)' = IF reply.kind = "events" THEN Causes(cause) \cup {Len(log) + 1}
                                                      ELSE Causes(cause)
<1>1. PICK S : log \in Seq(S)
  BY DEF ChoreographyInv, LogTyped
<1>2. Len(log) \in Nat /\ DOMAIN log = 1..Len(log)
  BY <1>1
<1>3. CASE reply.kind = "events"
  <2>1. PICK type \in types : log' = Append(log, Event(type, cause, reply.by))
    BY <1>3 DEF Persist
  <2> DEFINE e == Event(type, cause, reply.by)
  <2>2. e.cause = cause
    BY DEF Event
  <2> HIDE DEF e
  <2>3. log \in Seq(S \cup {e}) /\ e \in S \cup {e}
    BY <1>1
  <2>4. /\ DOMAIN log' = 1..Len(log) + 1 /\ \A i \in DOMAIN log : log'[i] = log[i]
        /\ log'[Len(log) + 1] = e
    BY <2>1, <2>3, Appended DEF e
  <2>5. DOMAIN log' = DOMAIN log \cup {Len(log) + 1} /\ Len(log) + 1 \notin DOMAIN log
    BY <1>2, <2>4
  <2> QED
    BY <1>3, <2>2, <2>4, <2>5 DEF Causes
<1>4. CASE reply.kind # "events"
  BY <1>4 DEF Persist, Causes
<1> QED
  BY <1>3, <1>4

\* A functional router without a handler for the key leaves a rejection to the
\* framework, or says that it cannot read it.
LEMMA UnregisteredDelegates ==
  ASSUME NEW key \in Key, front = "CommandRouter", key \notin Compensated,
         NEW reply \in SourceReplies([type |-> Notification, key |-> key]),
         reply.kind \in {"events", "revocation", "notification"}
  PROVE  reply.kind = "revocation"
<1> DEFINE p == [type |-> Notification, key |-> key]
<1>1. p.type = Notification /\ p.key = key /\ p # Absent /\ key # Garbled
  BY RoutersAssumption, ChoreographyAssumption DEF Payload
<1> HIDE DEF p
<1>2. reply \in DispatchRejection(key, Compensated)
  BY <1>1 DEF SourceReplies, CommandRouterDispatch, p
<1>3. reply = DelegateToFramework
  BY <1>1, <1>2 DEF DispatchRejection
<1> QED
  BY <1>3 DEF DelegateToFramework, Reply

\* A step that leaves the source alone, the set of rejections included.
LEMMA SourceAlone ==
  ASSUME ChoreographyInv, AnsweredOnce,
         UNCHANGED <<front, log, delegated, forwarded, asked>>,
         refused \subseteq refused', atSource' \subseteq atSource \cup (refused' \ refused),
         atSource \subseteq atSource', refused' \ refused \subseteq atSource' \cap Outcome
  PROVE  AnsweredOnce'
<1>1. \A c : Answers(c)' = Answers(c)
  BY DEF Answers
<1>2. ASSUME NEW c \in refused'
      PROVE  /\ Answers(c)' = IF c \in atSource' THEN 0 ELSE 1
             /\ c \notin atSource' /\ front' = "CommandRouter" /\ c.key \notin Compensated
                  => c \in delegated'
  <2>1. CASE c \in refused
    <3>1. c \in atSource <=> c \in atSource'
      BY <2>1
    <3> QED
      BY <1>1, <2>1, <3>1 DEF AnsweredOnce
  <2>2. CASE c \notin refused
    <3>1. c \in Outcome /\ c \in atSource'
      BY <1>2, <2>2
    <3>2. Answers(c) = 0
      BY <2>2, <3>1, NoAnswerYet
    <3> QED
      BY <1>1, <3>1, <3>2
  <2> QED
    BY <2>1, <2>2
<1> QED
  BY <1>2 DEF AnsweredOnce

\* A Notification that is lost is lost behind an event: in terms of causes.
LEMMA LostBehindEvents ==
  AnsweredOnce =>
    \A x \in asked \ forwarded : front = "CommandHandlerRouter" /\ Causes(x) # {}
BY DEF AnsweredOnce, Causes

\* A step of the source that answers for nothing.
LEMMA HandleAnswers ==
  ASSUME ChoreographyInv, AnsweredInv, NEW p \in Request, Handle(p)
  PROVE  AnsweredInv'
<1>1. PICK reply \in SourceReplies(p) :
        /\ Persist(reply, EventType, NoCommand)
        /\ UNCHANGED <<front, issuer, next, sent, accepted, refused, atIssuer, atSource, recorded,
                       delegated, forwarded, asked, failures>>
  BY DEF Handle, target
<1>2. ASSUME NEW c \in refused
      PROVE  Answers(c)' = Answers(c)
  <2>1. c # NoCommand
    BY <1>2, ChoreographyAssumption DEF ChoreographyInv, CommandsTyped, Outcome, Issued
  <2>2. Causes(c)' = Causes(c)
    BY <1>1, <2>1, Extended
  <2> QED
    BY <1>1, <2>2 DEF Answers, Causes
<1>3. ASSUME NEW x \in asked' \ forwarded'
      PROVE  front' = "CommandHandlerRouter" /\ \E i \in DOMAIN log' : log'[i].cause = x
  <2>1. x \in refused /\ x # NoCommand /\ x \in asked \ forwarded
    BY <1>1, <1>3, ChoreographyAssumption
       DEF ChoreographyInv, TypeOK, CommandsTyped, Outcome, Issued
  <2>2. Causes(x)' = Causes(x)
    BY <1>1, <2>1, Extended
  <2>3. front = "CommandHandlerRouter" /\ Causes(x) # {}
    BY <2>1, LostBehindEvents DEF AnsweredInv
  <2> QED
    BY <1>1, <2>2, <2>3 DEF Causes
<1>4. AnsweredOnce'
  BY <1>1, <1>2, <1>3 DEF AnsweredInv, AnsweredOnce
<1>5. SentOnce'
  BY <1>1 DEF AnsweredInv, SentOnce, Outcome
<1> QED
  BY <1>4, <1>5 DEF AnsweredInv

\* The answer to a Notification is the only one there is.
LEMMA SettleAnswers ==
  ASSUME ChoreographyInv, AnsweredInv, NEW c \in atSource, Settle(c)
  PROVE  AnsweredInv'
<1>1. PICK reply \in SourceReplies(NotificationOf(c)) :
        /\ reply.kind \in {"events", "revocation", "notification"}
        /\ atSource' = atSource \ {c}
        /\ Persist(reply, EventType \ Translated, c)
        /\ delegated' = IF reply.kind = "revocation" THEN delegated \cup {c} ELSE delegated
        /\ forwarded' = IF reply.kind = "notification" THEN forwarded \cup {c} ELSE forwarded
        /\ asked' = IF reply.asks THEN asked \cup {c} ELSE asked
        /\ UNCHANGED <<front, issuer, next, sent, accepted, refused, atIssuer, recorded, failures>>
  BY DEF Settle
<1>2. c \in refused /\ c \in Issued /\ c.key \in Key /\ front \in Fronts /\ c # NoCommand
  BY ChoreographyAssumption
     DEF ChoreographyInv, CommandsTyped, Outcome, TypeOK, Issued
<1>3. Causes(c) = {} /\ c \notin delegated /\ c \notin forwarded
  BY <1>2, Counting DEF AnsweredInv, AnsweredOnce
<1>4. \A x : x # c => Answers(x)' = Answers(x)
  <2>1. \A x : x # c => Causes(x)' = Causes(x)
    BY <1>1, Extended
  <2> QED
    BY <1>1, <2>1 DEF Answers, Causes
<1>5. Answers(c)' = 1
  <2>1. Cardinality(Causes(c)') = IF reply.kind = "events" THEN 1 ELSE 0
    <3>1. Causes(c)' = IF reply.kind = "events" THEN Causes(c) \cup {Len(log) + 1} ELSE Causes(c)
      BY <1>1, Extended
    <3>2. CASE reply.kind = "events"
      <4>1. Causes(c)' = {Len(log) + 1}
        BY <1>3, <3>1, <3>2
      <4>2. Cardinality({Len(log) + 1}) = 1
        BY FS_Singleton
      <4> QED
        BY <3>2, <4>1, <4>2
    <3>3. CASE reply.kind # "events"
      BY <1>3, <3>1, <3>3, FS_EmptySet
    <3> QED
      BY <3>2, <3>3
  <2>2. Answers(c)' = Cardinality(Causes(c)') + (IF c \in delegated' THEN 1 ELSE 0)
                                              + (IF c \in forwarded' THEN 1 ELSE 0)
    BY DEF Answers, Causes
  <2>3. /\ c \in delegated' <=> reply.kind = "revocation"
        /\ c \in forwarded' <=> reply.kind = "notification"
    BY <1>1, <1>3
  <2> QED
    BY <1>1, <2>1, <2>2, <2>3
<1>6. front = "CommandRouter" /\ c.key \notin Compensated => c \in delegated'
  BY <1>1, <1>2, UnregisteredDelegates DEF NotificationOf
<1>7. /\ forwarded' \subseteq asked'
      /\ \A x \in asked' \ forwarded' :
           front' = "CommandHandlerRouter" /\ \E i \in DOMAIN log' : log'[i].cause = x
  <2>1. /\ reply.kind = "notification" => reply.asks
        /\ reply.asks => \/ reply.kind = "notification"
                         \/ reply.kind = "events" /\ front = "CommandHandlerRouter"
    BY <1>1, <1>2, NotificationReplies DEF NotificationOf
  <2>2. forwarded' \subseteq asked'
    BY <1>1, <2>1 DEF AnsweredInv, AnsweredOnce
  <2>3. ASSUME NEW x \in asked' \ forwarded'
        PROVE  front = "CommandHandlerRouter" /\ Causes(x)' # {}
    <3>1. CASE x \in asked
      <4>1. x \in asked \ forwarded
        BY <1>1, <2>3, <3>1
      <4>2. front = "CommandHandlerRouter" /\ Causes(x) # {}
        BY <4>1, LostBehindEvents DEF AnsweredInv
      <4>3. x # c
        BY <1>3, <4>2
      <4>4. Causes(x)' = Causes(x)
        BY <1>1, <4>3, Extended
      <4> QED
        BY <4>2, <4>4
    <3>2. CASE x \notin asked
      <4>1. x = c /\ reply.asks
        BY <1>1, <2>3, <3>2
      <4>2. reply.kind = "events" /\ front = "CommandHandlerRouter"
        BY <1>1, <2>1, <2>3, <4>1
      <4>3. Causes(c)' = Causes(c) \cup {Len(log) + 1}
        BY <1>1, <4>2, Extended
      <4> QED
        BY <4>1, <4>2, <4>3
    <3> QED
      BY <3>1, <3>2
  <2>4. ASSUME NEW x \in asked' \ forwarded'
        PROVE  front' = "CommandHandlerRouter" /\ \E i \in DOMAIN log' : log'[i].cause = x
    BY <1>1, <2>3, <2>4 DEF Causes
  <2> QED
    BY <2>2, <2>4
<1>8. AnsweredOnce'
  <2>1. ASSUME NEW x \in refused'
        PROVE  /\ Answers(x)' = IF x \in atSource' THEN 0 ELSE 1
               /\ x \notin atSource' /\ front' = "CommandRouter" /\ x.key \notin Compensated
                    => x \in delegated'
    <3>1. CASE x = c
      BY <1>1, <1>5, <1>6, <3>1
    <3>2. CASE x # c
      <4>1. x \in refused /\ (x \in atSource <=> x \in atSource') /\ Answers(x)' = Answers(x)
        BY <1>1, <1>4, <2>1, <3>2
      <4>2. x \in delegated => x \in delegated'
        BY <1>1
      <4> QED
        BY <1>1, <4>1, <4>2 DEF AnsweredInv, AnsweredOnce
    <3> QED
      BY <3>1, <3>2
  <2> QED
    BY <1>7, <2>1 DEF AnsweredOnce
<1>9. SentOnce'
  BY <1>1 DEF AnsweredInv, SentOnce, Outcome
<1> QED
  BY <1>8, <1>9 DEF AnsweredInv

\* The commands of a dispatch are new: they are for events without commands.
LEMMA DeliverAnswers ==
  ASSUME ChoreographyInv, AnsweredInv,
         NEW from \in 1..Len(log), NEW to \in 1..Len(log), Deliver(from, to)
  PROVE  AnsweredInv'
<1> DEFINE pages == {from + i - 1 : i \in Pages(SubSeq(log, from, to))}
<1>1. /\ from \in 1..next /\ to \in next..Len(log)
      /\ IF issuer \in WholeBook THEN from = next ELSE to = next
      /\ \E targets \in [pages -> BoundedSeq(Target, MaxCommands)] :
           sent' = sent \cup Issue(pages, targets)
      /\ UNCHANGED <<front, log, delegated, forwarded, asked, accepted, refused, atIssuer, atSource>>
  BY DEF Deliver, source
<1>2. IF issuer \in WholeBook
      THEN pages = {i \in next..to : log[i].type \in Translated}
      ELSE pages = {next} /\ to = next
  BY <1>1, DeliveredPages
<1> HIDE DEF pages
<1>3. next \in Nat /\ \A i \in pages : i \in Nat /\ i >= next
  <2>1. next \in Nat
    BY DEF ChoreographyInv, LogTyped, TypeOK
  <2> QED
    BY <1>2, <2>1
<1>4. PICK targets \in [pages -> BoundedSeq(Target, MaxCommands)] :
        sent' = sent \cup Issue(pages, targets)
  BY <1>1
<1>5. ASSUME NEW c \in Issue(pages, targets)
      PROVE  c.src \in Nat /\ c.src >= next /\ c.n \in Nat /\ c.n <= MaxCommands
  <2>1. PICK i \in pages : c \in {Command(i, n, targets[i][n]) : n \in DOMAIN targets[i]}
    BY <1>5 DEF Issue
  <2>2. PICK n \in DOMAIN targets[i] : c = Command(i, n, targets[i][n])
    BY <2>1
  <2>3. PICK m \in 0..MaxCommands : targets[i] \in [1..m -> Target]
    BY <1>4, <2>1 DEF BoundedSeq, SeqOf
  <2>4. n \in 1..m /\ n \in Nat /\ n <= MaxCommands
    BY <2>2, <2>3, ChoreographyAssumption
  <2> QED
    BY <1>3, <2>1, <2>2, <2>4 DEF Command
<1>6. \A c \in Outcome : c.src \in Nat /\ c.src < next
  BY DEF ChoreographyInv, TranslatedOnce, CommandsTyped, Issued
<1>7. sent' \cap refused' = {}
  <2>1. \A c \in Issue(pages, targets) : c \notin Outcome
    BY <1>3, <1>5, <1>6
  <2> QED
    BY <1>1, <1>4, <2>1 DEF AnsweredInv, SentOnce, Outcome
<1>8. SentOnce'
  <2>1. ASSUME NEW x \in Outcome', x.n > MaxCommands
        PROVE  x \in Outcome
    <3>1. x \notin Issue(pages, targets)
      BY <1>5, <2>1, ChoreographyAssumption
    <3> QED
      BY <1>1, <1>4, <2>1, <3>1 DEF Outcome
  <2> QED
    BY <1>1, <1>7, <2>1 DEF AnsweredInv, SentOnce
<1>9. AnsweredOnce'
  BY <1>1, SourceAlone DEF AnsweredInv
<1> QED
  BY <1>8, <1>9 DEF AnsweredInv

\* A command is its event, its number and its key.
LEMMA SameCommand ==
  ASSUME NEW c \in Issued
  PROVE  Command(c.src, c.n, c.key) = c
BY DEF Command, Issued

\* The follow-up to a Notification that was due has not been sent before.
LEMMA NotifyAnswers ==
  ASSUME ChoreographyInv, AnsweredInv, NEW c \in atIssuer, NotifyIssuer(c)
  PROVE  AnsweredInv'
<1>1. PICK r \in Compensations(c) :
        /\ atIssuer' = atIssuer \ {c}
        /\ sent' = IF r.commands THEN sent \cup {FollowUp(c)} ELSE sent
        /\ UNCHANGED <<front, issuer, log, delegated, forwarded, asked, next, accepted, refused, atSource>>
  BY DEF NotifyIssuer, source
<1>2. c \in refused /\ c \in Issued /\ CommandOK(c)
  BY OutcomeKnown DEF ChoreographyInv, TypeOK, Outcome
<1>3. c.n \in Nat /\ c.n >= 1 /\ MaxCommands \in Nat
  BY <1>2, ChoreographyAssumption DEF CommandOK
<1>4. /\ FollowUp(c).src = c.src /\ FollowUp(c).n = MaxCommands + c.n /\ FollowUp(c).key = c.key
      /\ FollowUp(c).n > MaxCommands
      /\ Command(FollowUp(c).src, FollowUp(c).n - MaxCommands, FollowUp(c).key) = c
  <2>1. FollowUp(c).src = c.src /\ FollowUp(c).n = MaxCommands + c.n /\ FollowUp(c).key = c.key
    BY DEF FollowUp, Command
  <2>2. FollowUp(c).n - MaxCommands = c.n /\ FollowUp(c).n > MaxCommands
    BY <1>3, <2>1
  <2>3. Command(FollowUp(c).src, FollowUp(c).n - MaxCommands, FollowUp(c).key)
          = Command(c.src, c.n, c.key)
    BY <2>1, <2>2
  <2> QED
    BY <1>2, <2>1, <2>2, <2>3, SameCommand
<1>5. FollowUp(c) \notin Outcome
  BY <1>4 DEF AnsweredInv, SentOnce
<1>6. \A x \in Outcome' : x \in Outcome \/ x = FollowUp(c)
  BY <1>1 DEF Outcome
<1>7. ASSUME NEW x \in Outcome', x.n > MaxCommands
      PROVE  Command(x.src, x.n - MaxCommands, x.key) \in refused' \ atIssuer'
  <2>1. CASE x \in Outcome
    BY <1>1, <1>7, <2>1 DEF AnsweredInv, SentOnce
  <2>2. CASE x = FollowUp(c)
    BY <1>1, <1>2, <1>4, <2>2
  <2> QED
    BY <1>6, <2>1, <2>2
<1>8. sent' \cap refused' = {}
  BY <1>1, <1>5 DEF AnsweredInv, SentOnce, Outcome
<1>9. SentOnce'
  BY <1>7, <1>8 DEF SentOnce
<1>10. AnsweredOnce'
  BY <1>1, SourceAlone DEF AnsweredInv
<1> QED
  BY <1>9, <1>10 DEF AnsweredInv

\* A rejection is due at the source from the moment it happens.
LEMMA ReceiveAnswers ==
  ASSUME ChoreographyInv, AnsweredInv, NEW c \in sent, Accept(c) \/ Refuse(c)
  PROVE  AnsweredInv'
<1>1. /\ UNCHANGED <<front, issuer, log, delegated, forwarded, asked, next>>
      /\ sent' = sent \ {c}
      /\ \/ accepted' = accepted \cup {c} /\ UNCHANGED <<refused, atIssuer, atSource>>
         \/ /\ accepted' = accepted /\ refused' = refused \cup {c}
            /\ atIssuer' = atIssuer \cup {c} /\ atSource' = atSource \cup {c}
  BY DEF Accept, Refuse, source
<1>2. c \notin refused /\ c \in Outcome /\ Outcome' = Outcome
  BY <1>1 DEF AnsweredInv, SentOnce, Outcome
<1>3. SentOnce'
  <2>1. ASSUME NEW x \in Outcome, x.n > MaxCommands
        PROVE  Command(x.src, x.n - MaxCommands, x.key) \in refused' \ atIssuer'
    <3>1. Command(x.src, x.n - MaxCommands, x.key) \in refused \ atIssuer
      BY <2>1 DEF AnsweredInv, SentOnce
    <3> QED
      BY <1>1, <1>2, <3>1
  <2> QED
    BY <1>1, <1>2, <2>1 DEF AnsweredInv, SentOnce
<1>4. AnsweredOnce'
  <2>1. /\ refused \subseteq refused' /\ atSource \subseteq atSource'
        /\ atSource' \subseteq atSource \cup (refused' \ refused)
        /\ refused' \ refused \subseteq atSource' \cap Outcome
    BY <1>1, <1>2
  <2> QED
    BY <1>1, <2>1, SourceAlone DEF AnsweredInv
<1> QED
  BY <1>3, <1>4 DEF AnsweredInv

LEMMA InitAnswered == Init => AnsweredInv
BY DEF Init, AnsweredInv, SentOnce, AnsweredOnce, Outcome

LEMMA AnsweredStep == ChoreographyInv /\ AnsweredInv /\ [Next]_vars => AnsweredInv'
<1> SUFFICES ASSUME ChoreographyInv, AnsweredInv, [Next]_vars PROVE AnsweredInv'
  OBVIOUS
<1>1. CASE \/ UNCHANGED vars \/ Fail
  <2>1. UNCHANGED <<front, log, delegated, forwarded, asked, sent, accepted, refused, atIssuer, atSource>>
    BY <1>1 DEF vars, source, target, Fail, DeliverFails, SettleFails
  <2>2. SentOnce'
    BY <2>1 DEF AnsweredInv, SentOnce, Outcome
  <2>3. AnsweredOnce'
    BY <2>1, SourceAlone DEF AnsweredInv
  <2> QED
    BY <2>2, <2>3 DEF AnsweredInv
<1>2. CASE Next /\ ~Fail
  BY <1>2, HandleAnswers, SettleAnswers, DeliverAnswers, NotifyAnswers, ReceiveAnswers
     DEF Next, Requests, Deliveries, Receive, Notify, Compensate
<1> QED
  BY <1>1, <1>2

-------------------------------------------------------------------------------
(* The theorems *)

\* Commands, Notifications and events keep their types.
THEOREM ChoreographyTypeCorrect == Spec => []TypeOK
<1>1. ChoreographyInv => TypeOK
  BY DEF ChoreographyInv
<1> QED
  BY <1>1, AlwaysChoreography, PTL

\* Whichever router reads the log and however it is cut into books, each event
\* of a registered type is translated once, and no other event into commands.
THEOREM EventsTranslatedOnce == Spec => []TranslatedOnce
<1>1. ChoreographyInv => TranslatedOnce
  BY DEF ChoreographyInv
<1> QED
  BY <1>1, AlwaysChoreography, PTL

\* A compensation event of the source is made by the handler of the command
\* that was rejected, and so is what an issuer behind a router records.
THEOREM HandlersFit == Spec => []CompensationFits
<1>1. ChoreographyInv => CompensationFits
  BY DEF ChoreographyInv, CompensationFits
<1> QED
  BY <1>1, AlwaysChoreography, PTL

\* A rejection is answered for at its source once, however often the answer
\* failed before, and not at all before it happened.
THEOREM RejectionsAnsweredOnce == Spec => []AnsweredOnce
<1>1. Spec => []AnsweredInv
  BY AlwaysChoreography, InitAnswered, AnsweredStep, PTL DEF Spec
<1>2. AnsweredInv => AnsweredOnce
  BY DEF AnsweredInv
<1> QED
  BY <1>1, <1>2, PTL

-------------------------------------------------------------------------------
(* Envelopes: what holds of every message *)

\* A wrapper around a cover, or around nothing, says what the functions say
\* of that cover.
LEMMA CoverSays ==
  ASSUME NEW c \in Cover \cup {Nil}
  PROVE  /\ IF c = Nil \/ c.domain = NoName THEN DomainIn(c) = UnknownDomain
                                           ELSE DomainIn(c) = c.domain
         /\ CorrelationID(c) = IF c = Nil THEN NoName ELSE c.correlation
         /\ RootUUID(c) = IF c = Nil \/ c.root \notin UUIDs THEN Nil ELSE c.root
         /\ RootIDHex(c) = IF c = Nil \/ c.root = Nil THEN NoName ELSE Hex(c.root)
         /\ EditionOf(c) = IF c = Nil \/ c.edition \in {Nil, NoName} THEN Nil ELSE c.edition
<1>1. Nil \notin UUIDs
  BY EnvelopesAssumption
<1> QED
  BY <1>1 DEF DomainIn, CorrelationID, RootUUID, RootIDHex, EditionOf, HasRoot

\* A wrapper and the accessor functions agree on every message.
THEOREM WrappersAgree == \A v \in Envelope : WrapperAgrees(v)
<1> SUFFICES ASSUME NEW v \in Envelope
             PROVE  WrapperAgrees(v)
  OBVIOUS
<1>1. CASE v.type = "Cover"
  <2>1. CoverOf(v) = v.to /\ v.to \in Cover \cup {Nil}
    BY <1>1 DEF CoverOf, Envelope
  <2>2. WrapperSays(v) = CoverWSays(v)
    BY <1>1 DEF WrapperSays
  <2>3. CoverWSays(v) = AccessorsSay(v)
    BY <2>1, CoverSays DEF CoverWSays, AccessorsSay, CacheKey
  <2> QED
    BY <1>1, <2>2, <2>3 DEF WrapperAgrees
<1>2. CASE v.type # "Cover"
  <2>1. CoverOf(v) = BookCoverW(v) /\ CoverOf(v) \in Cover \cup {Nil}
    BY <1>2 DEF CoverOf, BookCoverW, Envelope, Book
  <2>2. \A field \in DOMAIN WrapperSays(v) : WrapperSays(v)[field] = AccessorsSay(v)[field]
    <3>1. CASE v.type = "EventBook"
      <4>1. WrapperSays(v) = EventBookWSays(v)
        BY <3>1 DEF WrapperSays
      <4>2. EventBookWSays(v) = AccessorsSay(v)
        BY <2>1, CoverSays DEF EventBookWSays, AccessorsSay, CacheKey
      <4> QED
        BY <4>1, <4>2
    <3>2. CASE v.type = "CommandBook"
      <4>1. WrapperSays(v) = CommandBookWSays(v)
        BY <3>2 DEF WrapperSays
      <4>2. /\ DOMAIN CommandBookWSays(v) = {"domain", "key", "correlation", "uuid"}
            /\ CommandBookWSays(v).domain = AccessorsSay(v).domain
            /\ CommandBookWSays(v).key = AccessorsSay(v).key
            /\ CommandBookWSays(v).correlation = AccessorsSay(v).correlation
            /\ CommandBookWSays(v).uuid = AccessorsSay(v).uuid
        BY <2>1, CoverSays DEF CommandBookWSays, AccessorsSay, CacheKey
      <4> QED
        BY <4>1, <4>2
    <3>3. CASE v.type = "Query"
      <4>1. WrapperSays(v) = QueryWSays(v)
        BY <3>3 DEF WrapperSays
      <4>2. /\ DOMAIN QueryWSays(v) = {"domain", "correlation", "uuid"}
            /\ QueryWSays(v).domain = AccessorsSay(v).domain
            /\ QueryWSays(v).correlation = AccessorsSay(v).correlation
            /\ QueryWSays(v).uuid = AccessorsSay(v).uuid
        BY <2>1, CoverSays DEF QueryWSays, AccessorsSay
      <4> QED
        BY <4>1, <4>2
    <3> QED
      BY <1>2, <3>1, <3>2, <3>3 DEF Envelope
  <2>3. CoverWSays(CoverWrapper(v)) = AccessorsSay(v)
    <3>1. EmptyCover # Nil /\ Nil \notin UUIDs
      <4>1. EmptyCover \in Cover
        BY EnvelopesAssumption DEF EmptyCover, Cover
      <4> QED
        BY <4>1, EnvelopesAssumption, PointersAssumption
    <3>2. CASE CoverOf(v) = Nil
      <4>1. CoverWrapper(v).to = EmptyCover
        BY <2>1, <3>2 DEF CoverWrapper
      <4>2. CoverWSays(CoverWrapper(v)) = [domain |-> UnknownDomain, hex |-> NoName,
              key |-> <<UnknownDomain, NoName>>, correlation |-> NoName, uuid |-> Nil, edition |-> Nil]
        BY <3>1, <4>1 DEF CoverWSays, EmptyCover
      <4> QED
        BY <2>1, <3>2, <4>2, CoverSays DEF AccessorsSay, CacheKey
    <3>3. CASE CoverOf(v) # Nil
      <4>1. CoverWrapper(v).to = CoverOf(v)
        BY <2>1, <3>3 DEF CoverWrapper
      <4> QED
        BY <2>1, <3>3, <4>1, CoverSays DEF CoverWSays, AccessorsSay, CacheKey
    <3> QED
      BY <3>2, <3>3
  <2> QED
    BY <2>2, <2>3 DEF WrapperAgrees
<1> QED
  BY <1>1, <1>2

\* A cache key, and the text of an id, stand for one root of one domain.
THEOREM CacheKeysApart ==
  \A v, w \in Envelope : Addressed(v) /\ Addressed(w) => CacheKeysTell(v, w)
<1> SUFFICES ASSUME NEW v \in Envelope, NEW w \in Envelope, Addressed(v), Addressed(w)
             PROVE  CacheKeysTell(v, w)
  OBVIOUS
<1>1. ASSUME NEW u, Addressed(u)
      PROVE  /\ CacheKey(u) = <<CoverOf(u).domain, CoverOf(u).root>>
             /\ RootIDText(CoverOf(u)) = IF CoverOf(u).root \in UUIDs THEN <<"uuid", CoverOf(u).root>>
                                                                   ELSE <<"hex", CoverOf(u).root>>
  <2>1. HasRoot(CoverOf(u)) /\ CoverOf(u) # Nil /\ CoverOf(u).root # NoBytes /\ CoverOf(u).domain # NoName
    BY <1>1 DEF Addressed, HasRoot
  <2>2. RootIDHex(CoverOf(u)) = CoverOf(u).root
    BY <2>1 DEF RootIDHex, Hex
  <2>3. DomainIn(CoverOf(u)) = CoverOf(u).domain
    BY <2>1 DEF DomainIn
  <2> QED
    BY <2>1, <2>2, <2>3 DEF CacheKey, RootIDText
<1>2. /\ CacheKey(v) = <<CoverOf(v).domain, CoverOf(v).root>>
      /\ CacheKey(w) = <<CoverOf(w).domain, CoverOf(w).root>>
  BY <1>1
<1>3. RootIDText(CoverOf(v)) = RootIDText(CoverOf(w)) <=> CoverOf(v).root = CoverOf(w).root
  <2>1. "uuid" # "hex"
    OBVIOUS
  <2> QED
    BY <1>1, <2>1
<1> QED
  BY <1>2, <1>3 DEF CacheKeysTell

\* A map from domains to sequences, or nil Destinations.
SequenceMap == {Nil} \cup UNION {[S -> Nat] : S \in SUBSET Domain}

LEMMA StampedPages ==
  ASSUME NEW book \in CommandBook, NEW n \in Nat,
         NEW stamped, stamped = [book EXCEPT !.pages = [i \in DOMAIN book.pages |->
                                   [book.pages[i] EXCEPT !.header = SequenceHeader(n)]]]
  PROVE  /\ stamped \in CommandBook /\ stamped.cover = book.cover
         /\ DOMAIN stamped.pages = DOMAIN book.pages
         /\ \A i \in DOMAIN book.pages : /\ stamped.pages[i].header = SequenceHeader(n)
                                         /\ stamped.pages[i].command = book.pages[i].command
<1>1. /\ book = [cover |-> book.cover, pages |-> book.pages]
      /\ book.cover \in Cover \cup {Nil} /\ book.pages \in Seq(CommandPage)
  BY DEF CommandBook
<1>2. \A i \in DOMAIN book.pages : book.pages[i] \in CommandPage
  BY <1>1
<1>3. SequenceHeader(n) \in Header
  BY DEF SequenceHeader, Header
<1> DEFINE pages == [i \in DOMAIN book.pages |-> [book.pages[i] EXCEPT !.header = SequenceHeader(n)]]
<1>4. \A i \in DOMAIN book.pages : /\ pages[i] \in CommandPage
                                   /\ pages[i].header = SequenceHeader(n)
                                   /\ pages[i].command = book.pages[i].command
  BY <1>2, <1>3 DEF CommandPage
<1>5. pages \in Seq(CommandPage) /\ DOMAIN pages = DOMAIN book.pages
  <2>1. PICK k \in Nat : DOMAIN book.pages = 1..k
    BY <1>1
  <2>2. pages \in [1..k -> CommandPage]
    BY <2>1, <1>4
  <2> QED
    BY <2>1, <2>2, SeqDef, Zenon
<1>6. stamped = [cover |-> book.cover, pages |-> pages]
  BY <1>1
<1> HIDE DEF pages
<1> QED
  BY <1>1, <1>4, <1>5, <1>6 DEF CommandBook

\* Stamping is all or nothing, and the two stamps are one.
THEOREM StampedAsKnown ==
  \A s \in SequenceMap, b \in CommandBook, d \in Domain : StampsAll(s, b, d)
<1> SUFFICES ASSUME NEW s \in SequenceMap, NEW b \in CommandBook, NEW d \in Domain
             PROVE  StampsAll(s, b, d)
  OBVIOUS
<1> DEFINE done == StampCommand(s, b, d)
<1>1. CASE s = Nil \/ d \notin DOMAIN s
  <2>1. done = Stamping(b, TRUE)
    BY <1>1 DEF StampCommand
  <2>2. done.error /\ done.book = b
    BY <2>1 DEF Stamping
  <2>3. s # Nil => StampInContext(s, b, d) = done
    BY DEF StampInContext
  <2> HIDE DEF done
  <2> QED
    BY <2>2, <2>3 DEF StampsAll, done
<1>2. CASE s # Nil /\ d \in DOMAIN s
  <2>1. s[d] \in Nat
    BY <1>2 DEF SequenceMap
  <2>2. ~done.error /\ done.book = [b EXCEPT !.pages = [i \in DOMAIN b.pages |->
                                      [b.pages[i] EXCEPT !.header = SequenceHeader(s[d])]]]
    BY <1>2 DEF StampCommand, Stamping
  <2>3. StampInContext(s, b, d) = done
    BY <1>2 DEF StampInContext
  <2> HIDE DEF done
  <2>4. /\ done.book.cover = b.cover /\ DOMAIN done.book.pages = DOMAIN b.pages
        /\ \A i \in DOMAIN b.pages : /\ done.book.pages[i].header = SequenceHeader(s[d])
                                     /\ done.book.pages[i].command = b.pages[i].command
    BY <2>1, <2>2, StampedPages
  <2>5. SequenceHeader(s[d]) # Nil
    BY <2>1, PointersAssumption DEF SequenceHeader, Header
  <2>6. \A i \in DOMAIN b.pages : PageSequence(done.book.pages[i]) = s[d]
    BY <2>4, <2>5 DEF PageSequence, SequenceHeader
  <2> QED
    BY <2>2, <2>3, <2>4, <2>6 DEF StampsAll, done
<1> QED
  BY <1>1, <1>2

\* Whoever reads a rejected command finds the key that the others find.
THEOREM RejectionsReadAlike ==
  \A p \in RejectionPayload \cup {Nil} : KeysAgree(p)
<1> SUFFICES ASSUME NEW p \in RejectionPayload \cup {Nil}
             PROVE  KeysAgree(p)
  OBVIOUS
<1> DEFINE book == LenientRejection(p)
<1>1. StrictRejection(p) \in {Garbled, book}
  BY DEF StrictRejection, LenientRejection
<1>2. ASSUME book # Garbled
      PROVE  InlineRejectionKey(book) = ExtractRejectionKey(book)
               <=> (book = Nil \/ book.pages # << >> \/ RawDomain(book) = NoName)
  <2> HIDE DEF book
  <2>1. CASE book = Nil
    BY <2>1 DEF InlineRejectionKey, ExtractRejectionKey
  <2>2. CASE book # Nil /\ book.pages = << >>
    BY <2>2 DEF InlineRejectionKey, ExtractRejectionKey, FirstCommand
  <2>3. CASE book # Nil /\ book.pages # << >>
    BY <2>3 DEF InlineRejectionKey, ExtractRejectionKey
  <2> QED
    BY <2>1, <2>2, <2>3
<1>3. ASSUME book # Garbled
      PROVE  RejectedCommandType(CompensationContext(p)) = ExtractRejectionKey(book)[2]
  <2>1. CompensationContext(p).command = book
    BY <1>3 DEF CompensationContext
  <2> HIDE DEF book
  <2> QED
    BY <2>1 DEF RejectedCommandType, ExtractRejectionKey
<1> HIDE DEF book
<1> QED
  BY <1>1, <1>2, <1>3 DEF KeysAgree, book

\* The source of a command does not survive its stamp.
THEOREM StampsHideOrigin ==
  \A s \in SequenceMap \ {Nil}, b \in CommandBook, d \in Domain : StampsHideSource(s, b, d)
<1> SUFFICES ASSUME NEW s \in SequenceMap \ {Nil}, NEW b \in CommandBook, NEW d \in Domain,
                    d \in DOMAIN s
             PROVE  LET stamped == StampCommand(s, b, d).book
                        p == [typed |-> TRUE, decodes |-> TRUE, rejected |-> stamped]
                    IN  /\ CompensationContext(p).source = Nil /\ CompensationContext(p).sequence = 0
                        /\ ExtractRejectionKey(stamped) = ExtractRejectionKey(b)
  BY DEF StampsHideSource
<1> DEFINE stamped == StampCommand(s, b, d).book
           p == [typed |-> TRUE, decodes |-> TRUE, rejected |-> stamped]
<1>1. s[d] \in Nat
  BY DEF SequenceMap
<1>2. stamped = [b EXCEPT !.pages = [i \in DOMAIN b.pages |->
                   [b.pages[i] EXCEPT !.header = SequenceHeader(s[d])]]]
  BY DEF StampCommand, Stamping
<1> HIDE DEF stamped
<1>3. /\ stamped \in CommandBook /\ stamped.cover = b.cover
      /\ DOMAIN stamped.pages = DOMAIN b.pages
      /\ \A i \in DOMAIN b.pages : /\ stamped.pages[i].header = SequenceHeader(s[d])
                                   /\ stamped.pages[i].command = b.pages[i].command
  BY <1>1, <1>2, StampedPages
<1>4. b.pages \in Seq(CommandPage) /\ stamped.pages \in Seq(CommandPage)
  BY <1>3 DEF CommandBook
<1>5. stamped.pages = << >> <=> b.pages = << >>
  BY <1>3, <1>4, EmptySeq
<1>6. b.pages # << >> => 1 \in DOMAIN b.pages
  BY <1>4
<1>7. LenientRejection(p) = stamped
  <2>1. p.decodes /\ p.rejected = stamped
    OBVIOUS
  <2>2. p \in RejectionPayload
    BY <1>3 DEF RejectionPayload
  <2> HIDE DEF p
  <2>3. p # Nil
    BY <2>2, PointersAssumption
  <2> QED
    BY <2>1, <2>3 DEF LenientRejection
<1> HIDE DEF p
<1>8. CompensationContext(p).source = Nil /\ CompensationContext(p).sequence = 0
  BY <1>3, <1>6, <1>7 DEF CompensationContext, SequenceHeader
<1>9. ExtractRejectionKey(stamped) = ExtractRejectionKey(b)
  BY <1>3, <1>5, <1>6, PointersAssumption DEF ExtractRejectionKey, RawDomain, FirstCommand
<1> QED
  BY <1>8, <1>9 DEF stamped, p
===============================================================================
