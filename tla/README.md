# TLA+ for the Angzarr Go client

The repository is the Go client library of the Angzarr event-sourcing framework. A program that
uses it writes business handlers (commands, events, projections); the library rebuilds state
from event books, dispatches to the handlers, numbers the events they return, serves them over
gRPC, and gives callers clients to fetch books and send commands. The framework itself (the
coordinator, the event store, the bus) lives elsewhere and is reached by gRPC.

This directory models the parts of the library whose behaviour depends on the *order* of things:
calls, reads, appends, crashes, retries. TLC checks small instances; TLAPS proves the most
important results for every value of the constants.

## 1. The system

| component | source | state it keeps | operations |
|---|---|---|---|
| OO command handler | `aggregate_oo.go`, `handler.go` | one `EventBook` (input, then output), cached state, `nextSeq` | `Init`, `State`, `Exists`, `Handle`, `Dispatch`, `dispatchRejection`, `applyAndRecord`, `rebuild` |
| OO saga | `saga_oo.go`, `handler.go` | `s.events`, shared by all calls | `Handle`, `EmitFact`, `ClearEvents` |
| OO process manager | `pm_oo.go`, `handler.go` | none across calls; each is given the process book | `Handle`, `RebuildState`, `handleNotification` |
| Functional and trait routers | `router.go`, `traits.go`, `handler.go` | registration tables, built before serving, as the bases' are | `On`, `OnRejected`, `Domain`, `Subscriptions`; `Dispatch` of six routers, rejection routing, `StateRouter` |
| OO projector, CloudEvents | `projector_oo.go`, `cloudevents.go`, `handler.go` | none across calls | `Handle`, `HandleSpeculative`, `Project` |
| Upcaster | `upcaster.go` | registered transforms | `Upcast` |
| Destinations, saga context | `destinations.go`, `saga_context.go` | next sequence per destination domain | stamping of commands |
| Compensation | `compensation.go` | none | delegate, emit compensation events, read a rejected command back |
| Client, command path | `client.go`, `builder.go`, `errors.go` | a builder per command | fetch, `Execute`, error predicates |
| Client, query path | `client.go`, `builder.go`, `retry.go` | connections, some of them shared; a builder per query | dial with retries, selections, single books and streams, `Close` |
| Event book helpers | `helpers.go`, `wrappers.go`, `validation.go` | none | sequences, covers, predicates |
| Server | `server.go` | listener, socket file, environment | `GetTransportConfig`, `CreateServer`, `RunServer` |
| Code generator | `cmd/angzarr-gen` | none at run time | |

How they interact. A client fetches an event book (`QueryClient`), takes the next sequence from
it, builds a command (`CommandBuilder`) and sends it to the coordinator (`CommandHandlerClient`).
The coordinator loads the aggregate's book, validates the command's sequence under its merge
strategy, and calls the command-handler server with command and book; a handler instance or a
router replies with new event pages or an error, and the coordinator appends the pages and
answers the client. Committed books reach sagas, process managers and projectors the same way.
Sagas and process managers reply with commands for other domains, whose rejections return as
notifications, to the issuer and to the aggregate whose event was at the root of it. Every
server is started by `server.go` and serves each call in a goroutine of its own.

What is hard in it, by component (each is a hazard in `PROJECT.json`, with its line):

- *command handler*: one struct carries input and output; the state is built lazily by whichever
  of `State`, `Exists`, `Handle` comes first; sequence numbers survive snapshots only if taken
  from `NextSequence` before the pages are dropped; a handler may fail after it made events.
- *saga*: `EmitFact` appends to a slice of the shared saga from concurrent calls, and a response
  shares the slice's array.
- *command path*: a sequence is stale the moment it is fetched, or wrong when the stream broke; books are
  loaded, decided on and persisted in separate steps; answers get lost and commands are sent again;
  clients that retry compete.
- *process manager*: calls overlap, each on a book and on sequences loaded before it; a handler
  fails on a later page of a trigger; rejections come back in any order and several at a time;
  stamps are per domain while locks are per root.
- *registration*: some tables are slices, in which the first registration counts, some are maps, in which the last does;
  `EventRouter` files a handler under the domain named last; a component's subscriptions are made from
  the same tables by other code.
- *envelopes*: accessors and wrappers are two copies of the same nil checks; a rejected command is read back in three
  places by three pieces of code; a stamp replaces the header that says where a command came from.
- *routers*: some handle all pages of a book, some the last; a rejection is told by the full name
  of its message in one router and by the end of the name in another; responses carry events,
  commands and notifications of which each adapter lets other parts through.
- *read side*: a projector can end a book early, be interrupted, or be run speculatively; two
  lookups find one publisher; old and current event versions mix; two selections of a query
  exclude each other silently; clients share a connection that any of them may close.
- *server*: a socket file outlives a crash; it is removed by path and by several parties; a
  function named `Get...` has a side effect.

What makes each correct: the handler numbers exactly the events it produced from the end of the
history and applies each once; a saga response belongs to its call; a trigger of a process manager
takes effect as a whole and every rejected command is compensated once; each event is translated
once whatever the router, and each rejection is answered for once, by the handler made for it;
what readers made of a log is what is in it; the log of a root is serial and the optimistic lock
holds end to end; a client is told the truth and gets an answer; a started server is reachable.

## 2. Modules

| module | models | composed of |
|---|---|---|
| `EventBooks` | pages, numbering, `NextSequence`, application of pages to state | |
| `CommandContract` | what a command handler promises (abstract) | `EventBooks` |
| `CommandHandlerBase` | one `CommandHandlerBase` behind `OOCommandHandlerGrpc` | `EventBooks`, refines `CommandContract` |
| `SagaBase` | one `SagaBase` behind `OOSagaHandler`, concurrent calls | |
| `Registration` | the registration calls of a program, for every router and base, and the lookups they lead to | |
| `SagaProgram` | a program that registers and then serves a saga | `SagaBase`, `Registration` |
| `ProcessManagerBase` | one `ProcessManagerBase` behind `OOProcessManagerHandler`, overlapping calls, stamping, rejections | |
| `Routers` | the dispatch of each router and adapter, as the set of replies it can give | |
| `Envelopes` | covers, accessors and wrappers, command stamps, rejected commands read back from Notifications | `Routers` |
| `Choreography` | source aggregate, issuer and targets wired with these routers, rejections and their way back | `Routers` |
| `ReadSide` | projectors of two kinds, upcasting, and a querying client, on one growing log | |
| `ServerLifecycle` | processes of one component sharing an address | |
| `EventLog` | what the log of a root promises (abstract) | |
| `CommandFlow` | clients, coordinator, handler, log of one root | refines `EventLog` |
| `...Proofs` | the theorems of section 4 | the module they are about |
| `MC...` | model values and assignments for TLC | |

Definitions whose comment begins "Faulty variant" are not part of any specification: each is a
plausible bug in the operation it precedes, kept to show that the property aimed at it fails when
the operation is replaced by it.

### Correspondence with the code

**CommandHandlerBase.** `eventBook`, `state`, `nextSeq` are the struct's fields (`state = NoState`
is `stateSet == false`); `pc` says whether the user's handler is running. `Serve` is the factory
call of `dispatch` (`handler.go`) with `Init`; `Rebuild` is `State()`/`rebuild()`: apply, capture the
next sequence, clear the pages. `HandleCommand`/`HandleRejection`/`DelegateRejection`/
`HandleMalformed` are the branches of `Handle` and `dispatchRejection` up to the call of user code;
`HandlerReturns`, `HandlerFails`, `RejectionReturns` are user code coming back, with
`applyAndRecord` for each event: a rejection handler too may record compensation events and return the
book, as the example of `HandlesRejection` does, or delegate, or return a response of its own
(`OwnReply`), which `dispatch` passes on as it is. In between, user code may call `State()` and `Exists()`.
The Go state is abstracted to the list of effects its pages had, so that an omitted, repeated or
reordered application is visible. `history`, `handed`, `recorded` are history
variables: they appear in no guard.

**SagaBase.** The base's `Handle(source)` is not the method `OOSaga` asks for (`handler.go:674`, with
destinations); a program serves it through a type that embeds the base and passes the call on, and that is
the component modelled. `heap` and `events` give `s.events` Go's slice semantics: a header into an array,
append in place when there is room, a copy of twice the size when there is none. `EmitFact` is
split at the load and the store of the header, the points between which another goroutine may run.
Everything else of a call is a local variable of the goroutine. A load that sees half of another
goroutine's store of the three-word header is left out: the run already shows the race with whole
headers.

**Registration.** `calls` is what the program has called so far, `slice` the `handlers` slice of a functional router, `table`
the maps of everything else, keyed by use (`handle`, `multi`, `apply`, `reject`, `domain`) and key, `current` is
`EventRouter.currentDomain`. `On`, `SetDomain` (`EventRouter.Domain`), `Handles` (with `Projects` and the `On` of
`CloudEventsRouter`), `HandlesMulti`, `OnSuffix`, `Applies`, `OnRejected` and `AddDomain` (`Domain` of the trait routers) are
the calls, `OnPanics` is `On` before `Domain`, `Ready` the call of a `Run...Server`. A handler is the number of the
call that registered it, so two handlers of one type can be told apart. `FirstInSlice`, `HandlerOf`, `PublishersOf`,
`DomainHandlerOf` are the lookups at dispatch; `SliceSubscriptions`, `HandlerTypes`, `TraitSubscriptions` what the framework
is told. `calls` is a history variable but for its length. `SagaProgram` lets `SagaBase` serve when the
table of the saga that was put together holds just the types `Handled` names.

**Envelopes.** No state: the accessors of `helpers.go` (`CoverOf` to `CacheKey`), what the methods of each
wrapper of `wrappers.go` say, nil checks of their own included (`CoverWSays`, `EventBookWSays`, `CommandBookWSays`, `QueryWSays`),
and the wrapper around a message's cover (`CoverWrapper`), `StampCommand` of `Destinations` and of
`SagaContext`, and the readings of a rejected command: `StrictRejection` with `InlineRejectionKey` (command routers
and bases), `LenientRejection` with `ExtractRejectionKey` (everybody else), and `CompensationContext`. A pointer is `Nil`
or what it points to. Bytes are one value, and so is their hex or UUID text; a type URL is its full name.

**ProcessManagerBase.** Each element of `calls` is one run of `Handle`: `at` is the page loop, `state` the
rebuilt state (how many process events it has seen), `commands` and `events` the slices that
accumulate, `sequences` the `Destinations` of the request. `SkipPage`, `HandlePage`, `HandlerFails`,
`HandleRejection` are the branches of the loop, `Return` is the adapter's response. `Stamp` is
`StampCommand`'s lookup by domain. The framework is **external**: it loads, appends a reply's
events and sends its commands together, accepts a command with its root's next sequence, and
returns any other in a `Notification`. `Compensated` are the domains whose rejection
handler records an event book (its pages, appended together, count as one event); a handler that returns nil or a
Notification only, no handler, and a Notification that does not decode all leave the loop where `SkipPage` does. The
notification returned besides events is dropped by the adapter. `basis` and `made` are history variables.

**Routers.** A router does not change after registration, so a dispatch is an operator of the message
and of what is registered, and its value is the set of replies the user's handlers can bring about.
`CommandRouterDispatch` and `CommandHandlerRouterDispatch` are the two command routers behind
`CommandHandlerGrpc` and `TraitCommandHandlerGrpc`, error mapping included (`StatusOf`);
`EventRouterPages` and `TriggerPage` say which pages of a book have their handler run;
`IgnoredNotification`, `RoutedNotification`, `HandledNotification` are what a Notification can lead to in
`EventRouter`, in the saga and process-manager routers, and in `ProcessManagerHandler`. What
matters of a payload is its full name and what `extractRejectionKey` finds in it. `OnRejectedReply` keeps both
what the handler asked for and what leaves the router: a Notification returned together with events is dropped.

**Choreography.** `front` and `issuer` are chosen once: which router serves the source aggregate and which
the saga or process manager. `Handle` and `Settle` are the source aggregate on a command and on a
Notification, `Deliver` is the issuer's dispatch on a book, `NotifyIssuer` on a Notification; a dispatch that fails
is `DeliverFails` or `SettleFails`. The framework is **external**: it persists, redelivers after an error,
and brings a rejection to the issuer and to the source. `handled`, `asked` and the `cause` and
`by` of events are history variables. Stamping is `ProcessManagerBase`'s subject and left out here.

**ReadSide.** `book`, `cursor`, `lastSeq`, `response` are the local variables of one `Handle` or `Project`: the
pages, the loop, the last sequence seen and the cloud events collected; `withheld` are the pages whose publishers
returned nil (`Made`). `HandlePage` has one disjunct per
kind of projector; the third is `ProjectorBase`'s early return. The upcaster is a service of its own that pages pass
before the projector sees them, so `Step` reads the current version. `skipped` and `extra` are history variables: the
pages answered for without their handler's effect, and the calls that make effects happen again. `Answer` is the adapter's reply,
`Interrupted` a call that ends without one. `Publications` is `Project`'s map lookup by full name and then by simple name.
`DialFails` and `Dial` are `Execute` around the dialling, `CloseShared` another client closing the connection, `Poll`
any of the query calls. `RangeFrom`, `RangeTo`, `AsOfSequence`, `Lower`, `Upper` are the query
builder's setters and the precedence in `Build`; the store's reading of a selection is **external**
and follows `features/query_client.go`. `Rebuilt` is `StateRouter.WithEvents` of the copy.

**ServerLifecycle.** `address` is what is at the socket path or port: whose listener made it, or
nothing. `Configure` is `CreateServer` up to the first `GetTransportConfig` with its removal of the file,
`Listen`/`ListenFails` are `net.Listen` and the panic. `usable` says whether the file system lets the process make,
remove and bind the path (`Surroundings` changes it), and `denied` remembers who met it when it did not: the errors of `MkdirAll` and
`Remove` are ignored and surface in `net.Listen`. `Announce` is the second
`GetTransportConfig` of `RunServer`, `Signal`, `CloseListener`, `Cleanup` are the shutdown path;
`Crash` is a life that ends without deferred calls. That closing a Unix listener unlinks its path
is Go's `net` package. `deployed` fixes transport, `RunServer` and overlap for a whole behaviour.

**CommandFlow.** `Fetch`, `FetchBroken`, `Submit`, `Answer` are a program using `QueryClient`, `NextSequence`,
`CommandBuilder.Execute` and the predicates of `errors.go`; `FetchBroken` is `GetEvents` on a stream
that broke, which returns no book and no error. The retry loop around them is the
caller's, in the form the predicates are documented for: `IsPreconditionFailed` means fetch and try
again. `BuildFails` is a builder that lacks a part of the command (`Malformed`). `Decide` is the command handler as
`CommandContract` describes it, with `dispatch`'s mapping of rejections and, for any other error (`Faulty`), `INVALID_ARGUMENT`. `Load` and `Persist` are the coordinator and are **external**: `Validated` and
`MismatchCode` follow the validation written out in `features/merge_strategy.go:307-342`, and the
store is assumed to accept pages that continue the log and to refuse others atomically. `basis`
in a log entry is a history variable: how many events the deciding handler had seen.

## 3. Runs

| run | question | bounds | states |
|---|---|---|---|
| `handler` | does every order of calls, reads and outcomes on one instance implement the contract? | 3 payloads, history and batch up to 2, 2 calls | 16,883 |
| `saga_serialised` | does a program get what it registered, whatever the component and the order of its calls, and if it is a saga, does each response, without overlap, cover its source and keep its own facts? | 4 registration calls, 2 types, 2 domains; 2 calls, 2 pages, 4 facts | 381,997 |
| `server_restart` | after any crashes, does a start succeed and end reachable (TCP in every deployment; UDS with `CreateServer`, no overlap)? | 3 processes, 2 starts each | 62,242 |
| `process_manager` | do triggers take effect whole, stamps lock, rejections get compensated? | 2 triggers of up to 2 pages, 1 command a page, 2 domains with a root each, 2 notifications a trigger | 326,166 |
| `choreography` | with either command router and each of four event routers: is each event translated once and each rejection answered for once? | 2 commands' events, 1 command an event to one of 2 types, follow-ups while there is at most 1 command, 1 failure | 788,956 |
| `read_side` | do projectors, publishers and a client that copies make the same of a log? | 3 events of 3 types, or none, 2 attempts, 2 failures | 1,434,730 |
| `flow_mixed` | STRICT, COMMUTATIVE and AGGREGATE_HANDLES compete: serial log, lock, true verdicts, progress, and what of that survives a lost answer or a broken fetch? | 3 clients, one of them unlucky and with an incomplete builder, one rejected and failing, 3 attempts, 1 loss, batch 1, snapshots | 544,150 |
| `exists`, `snapshot`, `saga_facts`, `server_uds`, `flow_bad_input` | each refutes one sentence of the repository's comments (section 6) | as above | |

Why the bounds are enough. *handler*: two calls are the least that show what the first leaves for
the second; two history pages and a snapshot at 0, 1 or 2 give every relation of pages to next
sequence; batches of two show order and numbering inside a batch. *saga*: four facts in one call
take the slice through arrays of 1, 2 and 4 cells with a spare cell, which is where aliasing would
show; two calls give an earlier response something to be overwritten by. *registration*: four calls go to a domain, to another,
and back, with a handler on the way, or give one key three registrations; two types and two domains
tell a wrong key from a right one. *server*: each clash is
between a process and its predecessor or successor; the third process is there to inherit from a
pair, and two starts let a process meet its own leftovers. *process manager*: two pages give a
later page to fail and two commands to different roots from one call; a second trigger is the one to
change a root or the process book in between; two rejected commands can share a trigger of
notifications; one of the two domains has a rejection handler and one has none. *choreography*: the two
requests are a type that ends in `Notification` and one that does not, with and without a payload that decodes
as one; the two targets are of one domain, one with a handler and one without, so that a lookup by domain alone goes
wrong; two events and their compensations give every way to cut a log into books; one failure
allows a second delivery of each. *read side*: three events are the least with a book that ends early
in its middle; the types are an old version, its current one, which is
published by full name and by suffix, and one that only a suffix publishes, whose publisher may return nothing; two
failures let an interrupted book meet a speculative call or a closed connection, and exhaust the two
attempts. *flow*: two competitors can each cost a
client one attempt, so three clients with three attempts are the least instance in which the last
attempt counts; one loss makes one resend race the first sending. One event per command is enough here
because numbering inside a batch is the handler's question, and the proofs cover any batch size and
any number of losses.

Deadlock is not checked where the system legitimately stops: every call answered, every client
done or out of attempts, all starts used up, the bound on events reached (`CHECK_DEADLOCK FALSE`). The handler
instance never stops, and its pass run checks for deadlock.

### Properties

- `BookHoldsNewEventsOnly`, `StateReflectsBook`, `HandlerSeesPriorEvents`, `ContractImplemented`:
  the shared book, the lazy rebuild and the counter together behave like the three-line contract.
- `ReplyCarriesOwnFacts`, `ResponseCoversSource`: a response is about its own call and all of it.
- `RegistrationsCount`: what runs for a message is what the program asked for, read off its calls alone, and what a
  component subscribes to is what it has a handler for.
- `ServingIsReachable`, `StartNeverPanics`, `OnlyCrashesLeaveSockets`, `StartIsCompleted`: a start gets past what
  earlier processes left and ends reachable; `OnlyStaleSocketsRemoved`, which `server_uds` refutes, says whose socket
  file may be removed.
- `WholeOrNothing`, `EventsFollowPages`: of a trigger everything goes out or nothing does, in page order.
- `StampsLock`: a root that is alone in its domain accepts a command of a process manager only if it has not changed
  since the command was decided on.
- `RejectionSeesItsCause`, `CompensatedOnce`, `RejectedAreCompensated`: compensation knows what it compensates, happens
  once at most however rejections are cut into Notifications, and does happen (liveness).
- `TranslatedOnce`: however a log is cut into books, and whatever failed before, each event goes
  through its translation once.
- `CompensationFits`, `AnsweredOnce`: a rejection finds the handler made for it, at the source and at the issuer; the
  source answers it once, with events or a notice of its own, and loses a Notification its handler asked for only behind
  that handler's events.
- `RejectionsSettle`: every rejection is answered for at its source in exactly one way (liveness).
- `ProjectionFaithful`, `RepetitionsBounded`: a projection misses no event and holds nothing the log does not, and an
  event is published once for each way its type is registered, or has its handler's effects once more for each call that
  was interrupted or speculative.
- `CopyIsPrefix`: whichever way a client asks for what follows its copy, the copy stays the beginning of the log.
- `ReportsAdvance`: the sequence of a default projection goes back only for a book without events.
- `ReadersAgree`: client and projection end with the same events (liveness).
- `LogIsSerial`: each batch was decided on exactly the log before it, with any mix of strategies.
- `OptimisticLock`: nothing was committed between a client's fetch and its own commit.
- `VerdictMatchesLog`: without losses, success and failure are the truth.
- `AtMostOnce`: a STRICT command that is sent again after a lost answer is applied once at most.
- `EveryClientCommits`, `EveryClientIsAnswered`: progress (liveness).

The module of the `choreography` run also has TLC evaluate the properties of `Envelopes` on small messages of every shape:
`WrapperAgrees`, `CacheKeysTell`, `StampsAll`, `KeysAgree`, `StampsHideSource` (the `ASSUME`s of `MCChoreography`).
They have no behaviour to check; section 4 proves them for all messages.

### Fairness

`ServerLifecycle` assumes weak fairness of each process's own next step: the runtime schedules the
main goroutine. Starting, signalling, crashing and accept errors are never forced. `CommandFlow`
assumes weak fairness of each client's step (a program between two library calls goes on) and of
the processing of calls under way (gRPC runs each in its goroutine; `Execute` waits for the answer).
`ProcessManagerBase` assumes that calls under way proceed and that commands and
notifications sent arrive. `Choreography` assumes that the framework delivers events, commands and Notifications
that are due, and does so again after an error; `ReadSide` that it delivers books, that the loop over one goes on,
and that a client that is behind dials and asks again. Losing an answer, failing a handler or
breaking a connection is never forced, so no liveness result depends on a failure happening. The
saga and handler specifications state safety only.

## 4. Proofs

All theorems but those about `Envelopes` are of the form `Spec => ...`, all of them for every value of the constants that meets the
assumptions named in the modules (`EventBooksAssumption`, `HandlerAssumption`, `FlowAssumption`,
`SagaAssumption`, `ServerAssumption`, `ProcessManagerAssumption`, `RoutersAssumption`, `ChoreographyAssumption`, `ReadAssumption`,
`RegistrationAssumption`, `ProgramAssumption`, `EnvelopesAssumption`, `PointersAssumption`), all of which TLC evaluates.
Fairness is not used. None of the invariants below is inductive alone; each module proves one
stronger invariant and draws the theorems from it.

**`CommandHandlerProofs`**: `TypeCorrect`, `BookSafe`, `StateSafe`, `HandlersSafe` (the four
invariants of the `handler` run) and `Implements`, the refinement of `CommandContract`. Recording an
event keeps the book right only if the counter equals the history plus what was recorded, and that
counter is captured in `Rebuild` from a book that is still input. The inductive invariant `Safe`
joins the type invariant, the two readings of the book (before and after the state is built), the
agreement of state and book, the counter (`CounterFollowsBook`), and that user code runs only once
the state is built. The work is in three lemmas about sequences: numbering and applying distribute
over concatenation (`NumberedConcat`, `ApplyPagesConcat`), and each of `Rebuild` and `Record` keeps
`Safe`; every action is one of these or leaves the fields alone. `Implements` maps `Rebuild` to a
stutter because `NewEvents` is empty until the state exists.

**`CommandFlowProofs`**: `FlowTypeCorrect`, `Serial` (`Spec => LogIsSerial`), `VerdictIsTrue`, `LockHolds` and
`AppliedOnce`. `FlowInv` adds to
the types that a call that has decided carries a batch numbered from, and based on, the next sequence of
one book (`BatchFollowsBook`). The store's acceptance test then makes that number the length of the
log, so the step is a `Commit` of `EventLog`; an empty batch is a stutter. For the last three theorems three conjuncts
join `FlowInv`: `CallsUnderWay` (a validated call decides on the book its sequence stands for),
`NothingLost` (until the first loss a client has one call under way, and its events are in the log
from that call's commit on, with the number its answer reports), and `OneSequence` (with losses, all
calls of a STRICT client carry one sequence, so the first to commit an event shuts out the rest).
The lemma `AppendBatch` says what a commit adds to the events of each client.

**`ServerLifecycleProofs`**: `ServerTypeCorrect`, `StartsSafe`, `SocketsSafe`, and under `SoundDeployment` (no
`RunServer` and no overlap on a Unix socket) `ReachableSafe`. What is at the address has an
open listener, or one that crashed or could not remove it (`AddressHasOwner`); without overlap one process is up and
nothing is at the address while it is about to listen (`OneAtATime`); and in a sound deployment a
listener keeps its address (`ListenerKeepsAddress`).

**`SagaProofs`**: `SagaTypeCorrect` and `SourceCovered` for any overlap of calls, `OwnFacts` if `Serialised`. For
the first two each call's invariant says how far it is (`CallTyped`, `HeadersTyped`) and that up to that page the
handlers ran once for each page somebody handles (`Walked`). `OwnFacts` is about slices: the header `append` stores
shows what the loaded one showed and the fact, and no other header's cells change but the one behind the loaded
header (`StoreShape`); `FactsInv` adds that one call is active, that `s.events` shows its facts, and that no response
in the same array reaches beyond `s.events`, so what is appended lies behind it. With `Serialised` false `saga_facts`
shows that this fails.

**`RegistrationProofs`**: of registration alone `DispatchMeant` and `SubscriptionsMeant`, of the program that registers and
serves `RegistrationsCounted` and `ProgramAnswers` (the results about `SagaBase` hold of the saga it put together, by
`ProgramIsBoth`). `RegistrationsCount` compares what a lookup finds with the whole list of calls, and a step changes both, so
the invariant `RegistrationInv` says what the tables are: each map holds for each key the last call with that use and key
and no others (`MapsFollowCalls`), the slice is the `On` calls in their order, each under the last domain named before it
(`SlicesFollowCalls`), and `current` is that domain now. One lemma per kind of step keeps it (`MapKeeps`, `OnKeeps`,
`SetDomainKeeps`); `MapFindsLast` and `SliceFindsFirst` read the lookups off it.

**`ProcessManagerProofs`**: `ManagerTypeCorrect`, `TriggersWhole`, `EventsOrdered`, `RejectionsSeeTheirCause`,
`StampsAreLocks`, `CompensationsOnce`. The invariant says what a call holds in the middle
of its work: exactly what was made for its trigger while that is under way (`Delivers`, `Holds`), or for Notifications a
book with all that was recorded along with the rejected commands (`ForNotices`); and that each trigger has one call
(`OneCallEach`). The lemmas `CallGoesOn` and `StillSound` show that a step of one call leaves what the others hold
true. `StampsAreLocks` adds `Stamped`: a command under way to a root that is alone in its domain carries what that root's
sequence was when the call was given it; no assumption on the other domains is needed. `CompensationsOnce` adds
`CompensatedInv`: two calls share no Notification, a call has decided once on each page it passed and on no other
(`Settles`), and the process book holds the decisions of the calls that were answered and nothing else. The step that
counts is a rejection handler: a book lists a Notification once, so the page it decides on has not been decided on before.

**`ChoreographyProofs`**: `ChoreographyTypeCorrect`, `EventsTranslatedOnce`, `HandlersFit`, `RejectionsAnsweredOnce`. What the routers can reply is settled in lemmas about the operators of `Routers`
(`NotificationReplies`, `RequestReplies`, `ReplyTyped`), so most of the invariant is types beside the properties
themselves (`LogTyped`, `CommandsTyped`). In `EventsTranslatedOnce` the step that counts is `Deliver`, where the pages of
a book have to be exactly the events from `next` on. `RejectionsAnsweredOnce` is a count over two sets, the events and
the notices an answer can be; it is inductive only with `SentOnce`: a command under way was not
rejected before, and a follow-up answers a rejection that is no longer due, so a new rejection is of a command without answers.
That a Notification asked for is lost in one case only is `LostBehindEvents`, read off the replies of `OnRejectedReply`.
The last part is about `Envelopes`, for every message: `WrappersAgree` (the methods of each wrapper
and of the wrapper around its cover against the accessors), `CacheKeysApart`, `StampedAsKnown` (a stamp is put on
every page or on none), `RejectionsReadAlike` (who reads a rejected command finds the same handler key, unless the command
has a domain and no page) and `StampsHideOrigin` (a stamped command does not say where it came from).

**`ReadSideProofs`**: `ReadTypeCorrect`, `ProjectionsFaithful`, `RepetitionsAccounted`, `CopyFaithful`, `ReportsGoOn`, and
`CaughtUpAgree`. Beside the types the invariant says what is true in the middle of a book: where the loop is
(`BookUnderWay`), that each page behind the cursor has had its effect or is in the response
(`NoneMissed`), and that the response, the effects and the rest of the log follow each other
(`InOrder`), and how often each event has had its effects or is in the response (`Accounted`: once if it is
answered for or behind the cursor, and once for each call that was cut short or speculative). `ProjectionsFaithful` needs both directions: nothing missed from `NoneMissed`, nothing invented from
`AllGenuine`, since what a loop does it does to a page of its book and books are parts of the log. `CopyIsPrefix` is kept
because every query a client can build for what follows its copy selects pages from there on without a gap.
`ReportsGoOn` adds `LastEventSeen`: the sequence the loop carries is that of the last event behind the cursor, and what
was reported lies before `next`. `CaughtUpAgree` is the safety half of `ReadersAgree`: whenever projection and copy have
both reached the end of the log they hold the same events.

Only model-checked: liveness, which is out of the prover's reach (`StartIsCompleted`, `RejectedAreCompensated`,
`RejectionsSettle`, `ReadersAgree`, `EveryClientCommits`, `EveryClientIsAnswered`). Every other property of a passing
run is a theorem; `SagaTypeCorrect` is the one theorem about a type invariant (`TypeOK` of `SagaBase`) that no run repeats. Two theorems have a hypothesis that TLC's runs also have: `OwnFacts` needs `Serialised`, without which
`saga_facts` refutes it, and `ReachableSafe` needs `SoundDeployment`, without which `server_uds` (a live socket file is
removed) and a rolling restart on a Unix socket (section 5) refute it.

## 5. Limits the models make visible

These are consequences of the code and its environment, or cases that the models exclude by a named assumption. Where a
comment or a test of the repository says otherwise, the case is in section 6 instead.

Command path and handlers:

- A COMMUTATIVE command sent again after a lost answer, with a fresh sequence, may be applied twice
  (`AtMostOnce` speaks of STRICT). A STRICT client in that case may be told of failure although
  its first command was applied (`VerdictMatchesLog` requires no loss).
- `GetEvents` returns what it has when the stream breaks, without an error (`client.go:157`). `NextSequence` of no
  book is 0, so the command is refused or, on a new root, right by chance (`FetchBroken`).
- An event that cannot be packed (`aggregate_oo.go:440`) is missing from the reply of an accepted command
  (`Packed` in `HandlerReturns`).
- A second `Handle` on one handler instance replies with the events of both calls, and the earlier
  reply shares its book with the later one. The gRPC layer makes an instance per request.

Process managers and stamping:

- Stamps are by domain: when a domain has two roots, a command can carry the sequence of the other one,
  and commands of one call to the same root carry the same sequence, so all but one are
  rejected. `StampsLock` speaks of the roots that are alone in their domain.
- A handler of a later page runs on the process state from before the first page.
- A rejected command whose domain and type nobody registered for is dropped by a process manager without a trace.
- `StampCommand` overwrites the page header of a command, so a source noted there before is lost to `CompensationContext`
  (`StampsHideOrigin`). Through a nil `SagaContext` it stamps nothing and reports no error (`StampInContext`).

Routers:

- `SagaRouter` and `ProcessManagerRouter` drop the Notification of a rejection handler's response
  (`router.go:819`), and the latter the `Facts` of a response. `AnsweredOnce` is about the source aggregate.
- `SagaRouter` and `ProcessManagerRouter` read the last page of a book only, `EventRouter` all of them; `TranslatedOnce` assumes a
  framework that gives each its events accordingly.
- `CommandHandlerRouter` takes a command whose type name ends in `Notification` for a rejection (`router.go:666`).
- A rejected command with a domain and no page has the key `/` in a command router and the key `domain/` everywhere else; a payload
  under another type name is an error in a command router and read all the same elsewhere (`KeysAgree`).
- The cloud event of a type without a package is published twice: its full name is its simple name (`PublishersOf`).
- `EventRouter` passes over books of domains nobody registered. `HandleFact` and `Prepare` (`traits.go:80-86`) have no caller.
- `StateRouter.WithEventBook` ignores the snapshot (`router.go:481`), as `rebuild()` does.

Read side:

- A projection returned for a page keeps the later pages of the book from their handlers (`skipped`).
- An upcaster makes one step of a version chain; `ReadAssumption` takes the result to be current.
- A time that does not parse is left out of the queries.
- With `MaxAttempts` 0 the retry policy reports success without a connection (`ReadAssumption` excludes it);
  `grpc.NewClient` is lazy, so in practice an attempt fails on the target's form only.
- Sequence 0 is reported for a book without events (`ReportsAdvance` says so).

Server:

- On a Unix socket a rolling restart is unsafe: the old process's cleanup removes the new one's
  file (`server_restart` has overlap on TCP only).
- `CreateServer` stores its default port in the environment, where a second server of the process finds it; deployments here have one server a process.

Assumed of the framework: an issuer that reads whole books gets each event once, one that reads last pages gets
each event once as a last page, with any earlier ones before it; Notifications reach an issuer under a domain
it is registered for; compensation events are of types the issuer does not translate; a
command's request is never itself a Notification; an answer counts only when it arrives.

## 6. Findings

Each is a violation run whose one property is a sentence of the repository; `PROJECT.json` has the
quotation.

- `exists`: `Exists()` denies prior events once `rebuild()` has cleared the pages (`aggregate_oo.go:377`).
- `snapshot`: `rebuild()` ignores the book's snapshot (`aggregate_oo.go:489`).
- `saga_facts`: concurrent calls lose or swap facts (`saga_oo.go:289`).
- `server_uds`: `RunServer` removes the socket it has just opened (`server.go:153`).
- `flow_bad_input`: invalid input is reported with the code that asks for a retry (`handler.go:638`).

More places where code and comment differ, plain from the code and without a run of their own. The models do what the
code does:

- `WithRevocationHandler` (`handler.go:513-521`) is said to be called when a command of the process manager is rejected;
  `ProcessManagerHandler.Handle` never calls it. The Notification goes to the ordinary handle function, whose commands are
  sent (`HandledNotification`, `FollowUp`). `CompensationFits` leaves this adapter out at the issuer.
- `HandleSpeculative` "processes events without side effects" (`handler.go:392`, `447`) but is `Handle`: the projector's handlers
  have theirs. `RepetitionsBounded` counts one repetition for each speculative call.
- "Try exact match first" and "Fall back to suffix matching" (`cloudevents.go:190`, `200`): the second lookup runs after a hit of the
  first, so a type registered with `On` and `OnSuffix` is published twice. `RepetitionsBounded` allows as many publications
  as there are lookups that find it; `created` in the `read_side` run is such a type.
- A rejection handler may return "events (compensation), notification (upstream propagation), or both"
  (`compensation.go:133`); of both, `router.go:706-714` sends the events and drops the Notification. `AnsweredOnce` names
  this as the only way to lose one.
- The examples of `OnRejected` and `HandlesRejection` register `ProcessPayment` (`router.go:61`, `119`, `aggregate_oo.go:294`,
  `compensation.go:11`, `pm_oo.go:284`); the lookup is by full name (`router.go:190`), so such a handler is not found. In the
  models it is a key without a handler.
- A step of the query tests wants the selection set last (`features/query_builder.go:544`); `Build` lets a range hide a point in
  time whatever the order (`builder.go:213`). The clients of `ReadSide` know that a range goes first (`Lower`).
- The example of `HandlesRejection` calls `applyAndRecord` (`aggregate_oo.go:303`), which is not exported: a handler in
  another package cannot. The model has the example's behaviour.

## 7. Not modelled

- A nil response of a command handler, and what a user's `ProjectorDomainHandler` does with the book `ProjectorRouter` hands it.
- `validation.go`, decoding and unpacking of events, the divergences of editions: predicates over one message.
- Queries by time, by correlation and by edition, speculative command calls, `Replay`, the upcaster's
  gRPC adapter: each selects or passes through like an operation that is modelled, and changes nothing.
- Protobuf encoding, dialling and TLS (grpc-go), the reflection by which registration finds a handler's type and the panics
  for handlers of another signature, logging.
- `cmd/angzarr-gen`: text generation without run-time behaviour.
- `features/`: more than half of the repository's Go lines are test steps with in-memory stand-ins,
  many of them empty. They are read for what they say of the coordinator and the store
  (`merge_strategy.go`, `query_client.go`), and are no part of the program, so the models cover the
  library's own code and not them.

What could follow: a `CommandFlow` with a process manager as a client (its stamps against the merge
strategies), several servers in one process.
