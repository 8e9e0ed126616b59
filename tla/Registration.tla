----------------------------- MODULE Registration -----------------------------
(***************************************************************************)
(* How a component is put together before it serves: the program calls     *)
(* On, Handles, Applies, OnRejected, Domain and their like in some order,  *)
(* and each call fills one of the component's tables.  The functional      *)
(* routers keep slices, in which a lookup finds the first registration;    *)
(* everything else is a Go map, in which the last one stays.  Dispatch is  *)
(* what a lookup finds afterwards, Subscriptions what the component tells  *)
(* the framework it wants to be sent.                                      *)
(*                                                                         *)
(* A handler is represented by the number of the call that registered it.  *)
(* That a handler has the signature its registration asks for is left to   *)
(* the program: otherwise the call panics before anything is served.       *)
(***************************************************************************)
EXTENDS Naturals, Sequences

CONSTANTS
  Type,       \* full names of message types
  ShortName,  \* the simple name of each: what follows its last dot
  Domain,
  NoDomain,   \* the empty string
  MaxCalls    \* bound on the registration calls of a program

ASSUME RegistrationAssumption ==
  /\ DOMAIN ShortName = Type
  /\ NoDomain \notin Domain
  /\ MaxCalls \in Nat

Short == {ShortName[t] : t \in Type}

Sliced == {"CommandRouter", "EventRouter", "StateRouter"}
Bases == {"CommandHandlerBase", "SagaBase", "ProcessManagerBase", "ProjectorBase"}
\* One domain, fixed by the constructor, and any number of them.
OneDomain == {"CommandHandlerRouter", "SagaRouter"}
ManyDomains == {"ProcessManagerRouter", "ProjectorRouter"}
Kinds == Sliced \cup Bases \cup {"CloudEventsRouter"} \cup OneDomain \cup ManyDomains

VARIABLES
  kind,     \* which component the program builds
  calls,    \* the registration calls it has made
  current,  \* EventRouter.currentDomain
  slice,    \* the slice of registrations, of all domains
  table,    \* the maps, by use and key
  phase     \* "registering", "panicked" or "ready"

registration == <<kind, calls, current, slice, table, phase>>

\* types: what EventTypes or CommandTypes of a domain handler returns.
RegistrationCall(use, key, types) == [use |-> use, key |-> key, types |-> types]

\* m[k] = v
Put(map, k, v) == [x \in DOMAIN map \cup {k} |-> IF x = k THEN v ELSE map[x]]

\* NewEventRouter may be given a domain, for which it calls Domain; the trait
\* routers of one domain are given it with the handler.
RegistrationInit ==
  /\ kind \in Kinds
  /\ \/ kind \notin OneDomain
        /\ calls = << >> /\ current = NoDomain /\ table = << >>
     \/ kind = "EventRouter"
        /\ \E d \in Domain : calls = <<RegistrationCall("current", d, {})>> /\ current = d
        /\ table = << >>
     \/ kind \in OneDomain
        /\ \E d \in Domain, types \in SUBSET Type :
             /\ calls = <<RegistrationCall("domain", d, types)>>
             /\ table = Put(<< >>, <<"domain", d>>, 1)
        /\ current = NoDomain
  /\ slice = << >>
  /\ phase = "registering"

-------------------------------------------------------------------------------
(* Registration calls *)

Register(use, key, types) ==
  /\ phase = "registering" /\ Len(calls) < MaxCalls
  /\ calls' = Append(calls, RegistrationCall(use, key, types))
  /\ UNCHANGED <<kind, phase>>

\* Faulty variant of SetDomain: coming back to a domain starts it afresh.
SetDomainAfresh(d) ==
  /\ kind = "EventRouter"
  /\ Register("current", d, {})
  /\ current' = d
  /\ slice' = SelectSeq(slice, LAMBDA r : r.domain # d)
  /\ UNCHANGED table

\* EventRouter.Domain: the domain of the calls that follow.
SetDomain(d) ==
  /\ kind = "EventRouter"
  /\ Register("current", d, {})
  /\ current' = d
  /\ UNCHANGED <<slice, table>>

\* On, OnType, OnEvent of the functional routers: r.handlers = append(...)
On(t) ==
  /\ kind \in Sliced /\ (kind = "EventRouter" => current # NoDomain)
  /\ Register("handle", t, {})
  /\ slice' = Append(slice, [domain |-> current, name |-> t, by |-> Len(calls) + 1])
  /\ UNCHANGED <<current, table>>

\* "Must call Domain() before On()"
OnPanics ==
  /\ kind = "EventRouter" /\ current = NoDomain /\ phase = "registering"
  /\ phase' = "panicked"
  /\ UNCHANGED <<kind, calls, current, slice, table>>

RegisterInMap(use, key, types) ==
  /\ Register(use, key, types)
  /\ table' = Put(table, <<use, key>>, Len(calls) + 1)
  /\ UNCHANGED <<current, slice>>

\* Handles of the bases (HandlesMulti of SagaBase fills the same map),
\* Projects of ProjectorBase, On of CloudEventsRouter.
Handles(t) ==
  /\ kind \in Bases \cup {"CloudEventsRouter"}
  /\ RegisterInMap("handle", t, {})

\* HandlesMulti of CommandHandlerBase has a map of its own.
HandlesMulti(t) == kind = "CommandHandlerBase" /\ RegisterInMap("multi", t, {})

\* OnSuffix of CloudEventsRouter: a simple name among the full ones.
OnSuffix(s) == kind = "CloudEventsRouter" /\ RegisterInMap("handle", s, {})

Applies(t) ==
  /\ kind \in {"CommandHandlerBase", "ProcessManagerBase"}
  /\ RegisterInMap("apply", t, {})

\* OnRejected, HandlesRejection: "domain/command"
OnRejected(d, t) ==
  /\ kind \in {"CommandRouter", "CommandHandlerBase", "ProcessManagerBase"}
  /\ RegisterInMap("reject", <<d, t>>, {})

\* Domain of ProcessManagerRouter and ProjectorRouter.
AddDomain(d, types) == kind \in ManyDomains /\ RegisterInMap("domain", d, types)

\* RunServer and its callers: the tables do not change any more.
Ready ==
  /\ phase = "registering"
  /\ phase' = "ready"
  /\ UNCHANGED <<kind, calls, current, slice, table>>

RegistrationNext ==
  \/ \E d \in Domain : SetDomain(d) \/ \E types \in SUBSET Type : AddDomain(d, types)
  \/ \E t \in Type : \/ On(t) \/ Handles(t) \/ HandlesMulti(t) \/ Applies(t)
                     \/ \E d \in Domain : OnRejected(d, t)
  \/ \E s \in Short : OnSuffix(s)
  \/ OnPanics \/ Ready

RegistrationSpec == RegistrationInit /\ [][RegistrationNext]_registration

-------------------------------------------------------------------------------
(* Lookups.  A handler that runs is the number of its call. *)

Fits(r, d, t) == r.name = t /\ (kind = "EventRouter" => r.domain = d)

\* for _, reg := range handlers { if ... { ...; break } }
FirstInSlice(d, t) ==
  {slice[m].by : m \in {m \in DOMAIN slice :
     Fits(slice[m], d, t) /\ \A l \in 1..m-1 : ~Fits(slice[l], d, t)}}

InMap(use, key) == IF <<use, key>> \in DOMAIN table THEN {table[<<use, key>>]} ELSE {}

\* Single-event handlers first.
HandlerOf(t) ==
  IF InMap("handle", t) = {} /\ kind = "CommandHandlerBase" THEN InMap("multi", t)
                                                            ELSE InMap("handle", t)

\* The full name and then the simple name; both may run.  A type without a
\* package has one name for both, and its handler runs twice.
PublishersOf(t) == InMap("handle", t) \cup InMap("handle", ShortName[t])

\* The trait routers leave the type to the handler, and those of one domain
\* the domain too.
DomainHandlerOf(d) ==
  IF kind \in OneDomain THEN UNION {InMap("domain", e) : e \in Domain} ELSE InMap("domain", d)

\* The handlers that run for a message of type t from domain d.
Dispatch(d, t) ==
  CASE kind \in Sliced -> FirstInSlice(d, t)
    [] kind \in Bases -> HandlerOf(t)
    [] kind = "CloudEventsRouter" -> PublishersOf(t)
    [] OTHER -> DomainHandlerOf(d)

\* EventRouter.Subscriptions
SliceSubscriptions == {<<slice[m].domain, slice[m].name>> : m \in DOMAIN slice}

\* HandlerTypes of the bases and EventTypes of CloudEventsRouter, whose domains
\* are said elsewhere.
HandlerTypes == {k[2] : k \in {k \in DOMAIN table : k[1] \in {"handle", "multi"}}}

\* Subscriptions of the trait routers: what the domain's handler says.
TraitSubscriptions ==
  UNION {{<<k[2], t>> : t \in calls[table[k]].types} : k \in {k \in DOMAIN table : k[1] = "domain"}}

\* Is the framework told to send messages of type t from domain d?
Subscribed(d, t) ==
  CASE kind = "EventRouter" -> <<d, t>> \in SliceSubscriptions
    [] kind \in Bases -> t \in HandlerTypes
    [] kind = "CloudEventsRouter" -> {t, ShortName[t]} \cap HandlerTypes # {}
    [] kind \in OneDomain \cup ManyDomains -> <<d, t>> \in TraitSubscriptions
    [] OTHER -> \E m \in DOMAIN slice : slice[m].name = t

-------------------------------------------------------------------------------
(* Properties *)

IsCall(i, use, key) == calls[i].use = use /\ calls[i].key = key

LastCall(i, use, key) ==
  /\ i \in DOMAIN calls /\ IsCall(i, use, key)
  /\ \A j \in DOMAIN calls : j > i => ~IsCall(j, use, key)

\* The i-th call was made under domain d: the last call of Domain before it.
UnderDomain(i, d) == \E j \in 1..i-1 :
  IsCall(j, "current", d) /\ \A k \in j+1..i-1 : calls[k].use # "current"

\* The i-th call asks for type t to be handled, from domain d if the router
\* tells domains apart.
Asks(i, d, t) == IsCall(i, "handle", t) /\ (kind = "EventRouter" => UnderDomain(i, d))

FirstAsked(i, d, t) ==
  i \in DOMAIN calls /\ Asks(i, d, t) /\ \A j \in 1..i-1 : ~Asks(j, d, t)

\* What the program has asked for, read off its calls alone.
Meant(i, d, t) ==
  CASE kind \in Sliced -> FirstAsked(i, d, t)
    [] kind \in Bases -> \/ LastCall(i, "handle", t)
                         \/ LastCall(i, "multi", t) /\ \A j \in DOMAIN calls : ~IsCall(j, "handle", t)
    [] kind = "CloudEventsRouter" -> LastCall(i, "handle", t) \/ LastCall(i, "handle", ShortName[t])
    [] kind \in OneDomain -> i = 1
    [] OTHER -> LastCall(i, "domain", d)

\* Whatever the order of the registration calls, the handler that runs is the
\* one the program asked for: in a slice the first for its domain and type,
\* however often the program goes back and forth between domains, in a map the
\* last; a rejection handler and an applier are the last for their key.
DispatchAsMeant ==
  /\ \A d \in Domain, t \in Type : Dispatch(d, t) = {i \in DOMAIN calls : Meant(i, d, t)}
  /\ \A use \in {"apply", "reject"}, key \in Type \cup (Domain \X Type) :
       InMap(use, key) = {i \in DOMAIN calls : LastCall(i, use, key)}

\* What a component subscribes to finds a handler, and unless the handler has
\* to tell types apart itself, nothing else does: the framework sends no event
\* that is dropped, and withholds none that a handler waits for.
SubscribedIsHandled == \A d \in Domain, t \in Type :
  /\ Subscribed(d, t) => Dispatch(d, t) # {}
  /\ kind \notin OneDomain \cup ManyDomains /\ Dispatch(d, t) # {} => Subscribed(d, t)

\* Both: what the program registered is what runs and what it is sent.
RegistrationsCount == DispatchAsMeant /\ SubscribedIsHandled
===============================================================================
