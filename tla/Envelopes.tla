-------------------------------- MODULE Envelopes --------------------------------
(***************************************************************************)
(* What messages say about themselves: the accessors of helpers.go and     *)
(* their copies in wrappers.go, the stamps of destinations.go and          *)
(* saga_context.go, and the ways a rejected command is read back from the  *)
(* Notification about it, of which the code has three.                     *)
(*                                                                         *)
(* A pointer is Nil or what it points to; NoName is the empty string.  The *)
(* bytes of an id are one value, so hex and UUID text, which are injective,*)
(* give that value; only the hex of no bytes is the empty string.          *)
(***************************************************************************)
EXTENDS Routers

CONSTANTS
  Nil,
  NoName,         \* the empty string
  UnknownDomain,  \* "unknown", which a domain may also be called
  Bytes,          \* values of a root's id
  NoBytes,        \* the empty one
  UUIDs,          \* those of 16 bytes
  Name            \* correlation ids and names of editions

ASSUME EnvelopesAssumption ==
  /\ Nil \notin Domain \cup Type \cup Bytes \cup Name \cup {NoName}
  /\ NoName \notin Domain \cup Type \cup Bytes \cup Name \cup {UnknownDomain}
  /\ NoBytes \in Bytes /\ UUIDs \subseteq Bytes \ {NoBytes}

\* An edition is its name; its divergences are left out.
Cover == [domain : Domain \cup {NoName}, root : Bytes \cup {Nil},
          correlation : Name \cup {NoName}, edition : Name \cup {NoName, Nil}]

-------------------------------------------------------------------------------
(* Accessors.  An envelope is a pointer to a Cover, or to an EventBook,       *)
(* CommandBook or Query that has one.                                         *)

Book == [cover : Cover \cup {Nil}]

Envelope == [type : {"Cover"}, to : Cover \cup {Nil}]
              \cup [type : {"EventBook", "CommandBook", "Query"}, to : Book \cup {Nil}]

CoverOf(v) ==
  CASE v.type = "Cover" -> v.to
    [] v.type # "Cover" /\ v.to = Nil -> Nil
    [] OTHER -> v.to.cover

\* Domain, and RoutingKey
DomainIn(c) == IF c = Nil \/ c.domain = NoName THEN UnknownDomain ELSE c.domain

CorrelationID(c) == IF c = Nil THEN NoName ELSE c.correlation

HasRoot(c) == c # Nil /\ c.root # Nil

RootUUID(c) == IF HasRoot(c) /\ c.root \in UUIDs THEN c.root ELSE Nil

Hex(bytes) == IF bytes = NoBytes THEN NoName ELSE bytes

RootIDHex(c) == IF HasRoot(c) THEN Hex(c.root) ELSE NoName

\* RootIDText: 16 bytes are written as a UUID.
RootIDText(c) ==
  IF HasRoot(c) /\ c.root \in UUIDs THEN <<"uuid", c.root>> ELSE <<"hex", RootIDHex(c)>>

EditionOf(c) == IF c = Nil \/ c.edition = NoName THEN Nil ELSE c.edition

\* "domain:hex": hex has no colon.
CacheKey(v) == <<DomainIn(CoverOf(v)), RootIDHex(CoverOf(v))>>

\* What the functions say.
AccessorsSay(v) ==
  LET c == CoverOf(v)
  IN  [domain |-> DomainIn(c), correlation |-> CorrelationID(c), uuid |-> RootUUID(c),
       hex |-> RootIDHex(c), edition |-> EditionOf(c), key |-> CacheKey(v)]

-------------------------------------------------------------------------------
(* Wrappers.  Each has methods of its own, which look for nil on their own;   *)
(* not all wrappers have all of them.                                         *)

\* CoverW: methods on the embedded pointer.
CoverWSays(w) ==
  LET domain == IF w.to = Nil \/ w.to.domain = NoName THEN UnknownDomain ELSE w.to.domain
      hex == IF w.to = Nil \/ w.to.root = Nil THEN NoName ELSE Hex(w.to.root)
  IN  [domain |-> domain, hex |-> hex, key |-> <<domain, hex>>,
       correlation |-> IF w.to = Nil THEN NoName ELSE w.to.correlation,
       uuid |-> IF w.to = Nil \/ w.to.root \notin UUIDs THEN Nil ELSE w.to.root,
       edition |-> IF w.to = Nil \/ w.to.edition \in {Nil, NoName} THEN Nil ELSE w.to.edition]

\* cover() of EventBookW, CommandBookW and QueryW
BookCoverW(w) == IF w.to = Nil THEN Nil ELSE w.to.cover

EventBookWSays(w) ==
  LET c == BookCoverW(w)
      domain == IF c = Nil \/ c.domain = NoName THEN UnknownDomain ELSE c.domain
      hex == IF c = Nil \/ c.root = Nil THEN NoName ELSE Hex(c.root)
  IN  [domain |-> domain, hex |-> hex, key |-> <<domain, hex>>,
       correlation |-> IF c = Nil THEN NoName ELSE c.correlation,
       uuid |-> IF c = Nil \/ c.root \notin UUIDs THEN Nil ELSE c.root,
       edition |-> IF c = Nil \/ c.edition \in {Nil, NoName} THEN Nil ELSE c.edition]

\* CommandBookW: its CacheKey has a case for a missing root.
CommandBookWSays(w) ==
  LET c == BookCoverW(w)
      domain == IF c = Nil \/ c.domain = NoName THEN UnknownDomain ELSE c.domain
  IN  [domain |-> domain,
       key |-> IF c = Nil \/ c.root = Nil THEN <<domain, NoName>> ELSE <<domain, Hex(c.root)>>,
       correlation |-> IF c = Nil THEN NoName ELSE c.correlation,
       uuid |-> IF c = Nil \/ c.root \notin UUIDs THEN Nil ELSE c.root]

QueryWSays(w) ==
  LET c == BookCoverW(w)
  IN  [domain |-> IF c = Nil \/ c.domain = NoName THEN UnknownDomain ELSE c.domain,
       correlation |-> IF c = Nil THEN NoName ELSE c.correlation,
       uuid |-> IF c = Nil \/ c.root \notin UUIDs THEN Nil ELSE c.root]

WrapperSays(w) ==
  CASE w.type = "Cover" -> CoverWSays(w)
    [] w.type = "EventBook" -> EventBookWSays(w)
    [] w.type = "CommandBook" -> CommandBookWSays(w)
    [] w.type = "Query" -> QueryWSays(w)

\* CoverWrapper: never around nil.
EmptyCover == [domain |-> NoName, root |-> Nil, correlation |-> NoName, edition |-> Nil]

CoverWrapper(w) ==
  [type |-> "Cover", to |-> IF BookCoverW(w) = Nil THEN EmptyCover ELSE BookCoverW(w)]

-------------------------------------------------------------------------------
(* Commands and their stamps *)

Header == [kind : {"sequence", "deferred"}, sequence : Nat, source : Cover \cup {Nil}]
CommandPage == [header : Header \cup {Nil}, command : Type \cup {Nil}]
CommandBook == [cover : Cover \cup {Nil}, pages : Seq(CommandPage)]

SequenceHeader(n) == [kind |-> "sequence", sequence |-> n, source |-> Nil]

\* CommandPageW.Sequence: 0 for a page that has none.
PageSequence(p) == IF p.header # Nil /\ p.header.kind = "sequence" THEN p.header.sequence ELSE 0

Stamping(book, error) == [book |-> book, error |-> error]

\* Destinations.StampCommand.  sequences is a map, or Nil for nil Destinations.
StampCommand(sequences, book, domain) ==
  IF sequences = Nil \/ domain \notin DOMAIN sequences THEN Stamping(book, TRUE)
  ELSE Stamping([book EXCEPT !.pages = [i \in DOMAIN book.pages |->
                  [book.pages[i] EXCEPT !.header = SequenceHeader(sequences[domain])]]], FALSE)

\* SagaContext.StampCommand: a nil context reports no error.
StampInContext(sequences, book, domain) ==
  IF sequences = Nil THEN Stamping(book, FALSE) ELSE StampCommand(sequences, book, domain)

-------------------------------------------------------------------------------
(* A rejected command, as read from a Notification's payload.  rejected is    *)
(* what decoding finds, whatever the payload's type says it is.               *)

RejectionPayload ==
  [typed : BOOLEAN, decodes : BOOLEAN, rejected : CommandBook \cup {Nil}]

ASSUME PointersAssumption == Nil \notin Cover \cup Header \cup CommandBook \cup RejectionPayload

\* UnmarshalTo, of CommandRouter and CommandHandlerBase, wants the type.
StrictRejection(p) ==
  IF p = Nil THEN Nil ELSE IF p.typed /\ p.decodes THEN p.rejected ELSE Garbled

\* proto.Unmarshal, of everybody else.
LenientRejection(p) ==
  IF p = Nil THEN Nil ELSE IF p.decodes THEN p.rejected ELSE Garbled

RawDomain(book) == IF book.cover = Nil THEN NoName ELSE book.cover.domain

FirstCommand(book) ==
  IF book.pages = << >> \/ book.pages[1].command = Nil THEN NoName ELSE book.pages[1].command

\* CommandRouter and CommandHandlerBase: dispatchRejection
InlineRejectionKey(book) ==
  IF book = Nil \/ book.pages = << >> THEN <<NoName, NoName>>
                                     ELSE <<RawDomain(book), FirstCommand(book)>>

\* Trait routers and ProcessManagerBase: extractRejectionKey
ExtractRejectionKey(book) ==
  IF book = Nil THEN <<NoName, NoName>> ELSE <<RawDomain(book), FirstCommand(book)>>

\* NewCompensationContext: what does not decode leaves the context empty.
CompensationContext(p) ==
  LET book == LenientRejection(p)
      told == IF book \in {Nil, Garbled} THEN Nil ELSE book
      header == IF told = Nil \/ told.pages = << >> THEN Nil ELSE told.pages[1].header
      deferred == header # Nil /\ header.kind = "deferred"
  IN  [command |-> told,
       source |-> IF deferred THEN header.source ELSE Nil,
       sequence |-> IF deferred THEN header.sequence ELSE 0]

RejectedCommandType(context) == IF context.command = Nil THEN NoName ELSE FirstCommand(context.command)

-------------------------------------------------------------------------------
(* Properties *)

\* A wrapper says of a message what the accessor functions say, as far as it
\* says anything, for every message and every nil on the way to its cover; and
\* so does the wrapper it gives for its cover.
WrapperAgrees(v) ==
  /\ \A field \in DOMAIN WrapperSays(v) : WrapperSays(v)[field] = AccessorsSay(v)[field]
  /\ v.type # "Cover" => CoverWSays(CoverWrapper(v)) = AccessorsSay(v)

\* Two addressed messages share a cache key only if they are about the same
\* root of the same domain, and their text says the same root; editions and
\* correlation ids do not tell them apart.
Addressed(v) ==
  HasRoot(CoverOf(v)) /\ CoverOf(v).root # NoBytes /\ CoverOf(v).domain # NoName

CacheKeysTell(v, w) ==
  /\ CacheKey(v) = CacheKey(w) <=>
       CoverOf(v).domain = CoverOf(w).domain /\ CoverOf(v).root = CoverOf(w).root
  /\ RootIDText(CoverOf(v)) = RootIDText(CoverOf(w)) <=> CoverOf(v).root = CoverOf(w).root

\* A stamp is put on every page, with the sequence the framework gave for the
\* domain, or on none and the caller is told; it changes nothing else.
StampsAll(sequences, book, domain) ==
  LET done == StampCommand(sequences, book, domain)
  IN  /\ done.error => done.book = book
      /\ ~done.error =>
           /\ done.book.cover = book.cover /\ DOMAIN done.book.pages = DOMAIN book.pages
           /\ \A i \in DOMAIN book.pages :
                /\ PageSequence(done.book.pages[i]) = sequences[domain]
                /\ done.book.pages[i].command = book.pages[i].command
      /\ sequences # Nil => StampInContext(sequences, book, domain) = done

\* The three ways to read a rejected command find the same key, unless it has
\* a domain and no page; and whatever the strict way accepts, the others read
\* the same.
KeysAgree(p) ==
  LET book == LenientRejection(p)
  IN  /\ StrictRejection(p) \in {Garbled, book}
      /\ book # Garbled =>
           /\ InlineRejectionKey(book) = ExtractRejectionKey(book)
                <=> (book = Nil \/ book.pages # << >> \/ RawDomain(book) = NoName)
           /\ RejectedCommandType(CompensationContext(p)) = ExtractRejectionKey(book)[2]

\* A command that was stamped does not tell where it came from: the context of
\* its rejection has a source only if nobody stamped it.
StampsHideSource(sequences, book, domain) ==
  LET stamped == StampCommand(sequences, book, domain).book
      p == [typed |-> TRUE, decodes |-> TRUE, rejected |-> stamped]
  IN  domain \in DOMAIN sequences =>
        /\ CompensationContext(p).source = Nil /\ CompensationContext(p).sequence = 0
        /\ ExtractRejectionKey(stamped) = ExtractRejectionKey(book)
===============================================================================
