-------------------------------- MODULE Routers --------------------------------
(***************************************************************************)
(* The routers of router.go and the gRPC adapters of handler.go, as the    *)
(* replies they can give.  A router has no state after registration, so a  *)
(* dispatch is an operator: it takes the message and what is registered,   *)
(* and gives the set of replies, one for each way the user's handler can   *)
(* end.                                                                    *)
(*                                                                         *)
(* A payload is its full type name and what extractRejectionKey finds when *)
(* it is decoded as a Notification: the domain and the full type name of   *)
(* the rejected command, or NoKey.  A business message can decode as an    *)
(* empty Notification or not decode at all.                                *)
(***************************************************************************)
EXTENDS Naturals, Sequences

CONSTANTS
  Type,              \* full names of message types
  Notification,      \* angzarr_client.proto.angzarr.Notification
  NotificationLike,  \* the types whose name ends in "Notification"
  Domain,
  NoKey,             \* the key of a Notification without a rejected command
  Garbled,           \* the payload does not decode as a Notification
  Absent             \* a page without a payload

Key == Domain \X Type

ASSUME RoutersAssumption ==
  /\ Notification \in NotificationLike /\ NotificationLike \subseteq Type
  /\ NoKey \notin Key /\ Garbled \notin Key \cup {NoKey}

Payload == [type : Type, key : Key \cup {NoKey, Garbled}]

\* kind: what the framework is told.  by: whose handler ran, a command type or
\* a rejection key.  asks: the handler wants a Notification sent upstream,
\* whether or not the reply carries it.
Reply(kind, by, asks) == [kind |-> kind, by |-> by, asks |-> asks]

InvalidArgument == Reply("InvalidArgument", NoKey, FALSE)
FailedPrecondition == Reply("FailedPrecondition", NoKey, FALSE)

-------------------------------------------------------------------------------
(* Command routers *)

\* The adapters tell CommandRejectedError from every other error, whatever
\* status code the error was made with.
StatusOf(err) == IF err = "rejected" THEN FailedPrecondition ELSE InvalidArgument

Errors == {StatusOf(err) : err \in {"rejected", "other"}}

\* A handler that returns neither a response nor an error is not among them:
\* what a framework makes of an empty answer is its own matter.
HandlerReplies(type) == {Reply("events", type, FALSE)} \cup Errors

\* What the aggregate helpers build: EmitCompensationEvents,
\* DelegateToFramework, or a response that carries a Notification.
RevocationReplies(key) ==
  {Reply("events", key, FALSE), Reply("revocation", key, FALSE), Reply("notification", key, TRUE)}

DelegateToFramework == Reply("revocation", NoKey, FALSE)

\* Faulty variant of DispatchRejection: any handler of the domain will do.
DispatchToDomain(key, rejections) ==
  IF key = Garbled THEN {InvalidArgument}
  ELSE IF \E k \in rejections : k[1] = key[1]
         THEN RevocationReplies(CHOOSE k \in rejections : k[1] = key[1])
         ELSE {DelegateToFramework}

\* CommandRouter.dispatchRejection
DispatchRejection(key, rejections) ==
  CASE key = Garbled -> {InvalidArgument}
    [] key \in rejections -> RevocationReplies(key)
    [] OTHER -> {DelegateToFramework}

\* Faulty variant of CommandRouterDispatch: the type name is tested by suffix.
DispatchBySuffix(p, handlers, rejections) ==
  CASE p = Absent -> {InvalidArgument}
    [] p # Absent /\ p.type \in NotificationLike -> DispatchRejection(p.key, rejections)
    [] p # Absent /\ p.type \in handlers \ NotificationLike -> HandlerReplies(p.type)
    [] OTHER -> {InvalidArgument}

\* CommandRouter.Dispatch behind CommandHandlerGrpc
CommandRouterDispatch(p, handlers, rejections) ==
  CASE p = Absent -> {InvalidArgument}
    [] p # Absent /\ p.type = Notification -> DispatchRejection(p.key, rejections)
    [] p # Absent /\ p.type \in handlers \ {Notification} -> HandlerReplies(p.type)
    [] OTHER -> {InvalidArgument}

RejectionHandlerResponse == [events : BOOLEAN, notification : BOOLEAN]

\* Faulty variant of OnRejectedReply: only events are looked at.
EventsOrRevocation(r, key) ==
  IF r.events THEN Reply("events", key, FALSE) ELSE Reply("revocation", key, r.notification)

\* dispatchCHNotification: events first, then the Notification; an empty
\* response is a revocation.  A Notification that comes with events is
\* dropped: a BusinessResponse holds one of the two.
OnRejectedReply(r, key) ==
  CASE r.events -> Reply("events", key, r.notification)
    [] ~r.events /\ r.notification -> Reply("notification", key, TRUE)
    [] OTHER -> Reply("revocation", key, FALSE)

\* CommandHandlerRouter.Dispatch behind TraitCommandHandlerGrpc: the handler
\* looks up the type itself, and a Notification is told by its suffix.
CommandHandlerRouterDispatch(p) ==
  CASE p = Absent -> {InvalidArgument}
    [] p # Absent /\ p.type \in NotificationLike ->
         IF p.key = Garbled THEN {InvalidArgument}
         ELSE {OnRejectedReply(r, p.key) : r \in RejectionHandlerResponse} \cup Errors
    [] OTHER -> HandlerReplies(p.type)

-------------------------------------------------------------------------------
(* Event routers.  Pages are those of one book; a reply lists the pages whose *)
(* handler runs.                                                              *)

\* Faulty variant of EventRouterPages: the handler of the last page only.
LastRegistered(pages, registered) ==
  {i \in DOMAIN pages : i = Len(pages) /\ pages[i].type \in registered}

\* EventRouter.Dispatch: every page of a registered type.
EventRouterPages(pages, registered) == {i \in DOMAIN pages : pages[i].type \in registered}

\* SagaRouter.Dispatch and ProcessManagerRouter.Dispatch: the last page.
TriggerPage(pages) == {Len(pages)}

\* What a Notification can lead to at the issuer of the rejected command.
Compensation(by, events, commands) == [by |-> by, events |-> events, commands |-> commands]

\* EventRouter.Dispatch: no handler is registered for the type.
IgnoredNotification == {Compensation(NoKey, FALSE, FALSE)}

\* Faulty variant of RoutedNotification: the handler is told no key.
UnkeyedNotification(key) == {Compensation(NoKey, events, FALSE) : events \in BOOLEAN}

\* dispatchSagaNotification, dispatchPMNotification: OnRejected gets the key;
\* of its response only the events leave the router (it has no field for
\* commands).
RoutedNotification(key) == {Compensation(key, r.events, FALSE) : r \in RejectionHandlerResponse}

\* ProcessManagerHandler.Handle: the Notification goes to the handle function,
\* whose reply may hold commands.
HandledNotification == {Compensation(NoKey, events, commands) : events, commands \in BOOLEAN}
===============================================================================
