------------------------- MODULE ProcessManagerProofs -------------------------
(***************************************************************************)
(* Proofs about ProcessManagerBase for any triggers, roots and domains and *)
(* any number of calls under way: its type invariant, that a trigger is    *)
(* handled as a whole, that its events keep the order of its pages, that   *)
(* rejection handlers see what they compensate, that a stamped command     *)
(* locks a root that is alone in its domain, and that every rejected       *)
(* command is compensated once.                                            *)
(***************************************************************************)
EXTENDS ProcessManagerBase, SequenceTheorems, FiniteSetTheorems, TLAPS

EventPages == [kind : {"handled", "other"}, trigger : Trigger, page : 1..MaxPages]
NoticePages == [kind : {"notice"}, command : Command]
Steps == [kind : {"step"}, trigger : Trigger, page : 1..MaxPages]
Compensating == [kind : {"compensation"}, command : Command]

Calls == [pages : Seq(EventPages \cup NoticePages), at : Nat, state : Nat,
          sequences : [Output -> Nat], basis : [Root -> Nat],
          commands : Seq(Command), events : Seq(Steps \cup Compensating)]

\* Steps come in the order of their pages.
InPageOrder(events) == \A i, j \in DOMAIN events : i < j => events[i].page < events[j].page

\* The call was made for the pages of a trigger.
Delivers(call, t) ==
  /\ Len(call.pages) > 0
  /\ \A i \in DOMAIN call.pages :
       call.pages[i] \in EventPages /\ call.pages[i].trigger = t /\ call.pages[i].page = i

\* What its handlers made, and nothing else was made for this trigger, is in
\* the hands of the call.
Holds(call, t) ==
  /\ \A i \in DOMAIN call.commands : call.commands[i].trigger = t
  /\ \A i \in DOMAIN call.events : /\ call.events[i] \in Steps /\ call.events[i].trigger = t
                                   /\ call.events[i].page < call.at
  /\ InPageOrder(call.events)
  /\ Of(t, made) = ToSet(call.commands) \cup ToSet(call.events)

\* A call for Notifications was given a process book with all that was recorded
\* together with the rejected commands.
ForNotices(call) ==
  /\ \A i \in DOMAIN call.pages :
       /\ call.pages[i] \in NoticePages /\ call.pages[i].command \in rejected
       /\ \A j \in DOMAIN process :
            process[j].kind = "step" /\ process[j].trigger = call.pages[i].command.trigger
              => j <= call.state
  /\ call.commands = << >>
  /\ \A i \in DOMAIN call.events : call.events[i] \in Compensating

\* The life of a trigger: fresh, in one call, then failed or answered.
Underway == Trigger \ (fresh \cup failed \cup answered)

CallSound(call) ==
  /\ call \in Calls /\ call.at \in 1..Len(call.pages) + 1 /\ call.state <= Len(process)
  /\ ForNotices(call) \/ \E t \in Underway : Delivers(call, t) /\ Holds(call, t)

OneCallEach ==
  \A x, y \in calls : \A t \in Trigger : Delivers(x, t) /\ Delivers(y, t) => x = y

WorldTyped ==
  /\ log \in [Root -> Seq(Command)] /\ process \in Seq(Steps \cup Compensating)
  /\ sent \subseteq Command /\ rejected \subseteq Command /\ returned \subseteq rejected
  /\ IsFiniteSet(sent) /\ IsFiniteSet(returned)
  /\ fresh \subseteq Trigger /\ failed \subseteq Trigger /\ answered \subseteq Trigger
  /\ failed \cap answered = {} /\ fresh \cap (failed \cup answered) = {}
  /\ made \subseteq Command \cup Steps /\ \A x \in made : x.trigger \notin fresh

\* Where commands and events can be.
Accepted == UNION {ToSet(log[r]) : r \in Root}
Recorded == {e \in ToSet(process) : e.kind = "step"}

CallsSound == \A call \in calls : CallSound(call)

ManagerInv ==
  WorldTyped /\ CallsSound /\ OneCallEach /\ WholeOrNothing /\ EventsFollowPages

-------------------------------------------------------------------------------
(* Sequences *)

\* What is in a concatenation, and where.
LEMMA Concat ==
  ASSUME NEW S, NEW s \in Seq(S), NEW t \in Seq(S)
  PROVE  /\ s \o t \in Seq(S) /\ Len(s \o t) = Len(s) + Len(t)
         /\ \A i \in DOMAIN s : i \in DOMAIN (s \o t) /\ (s \o t)[i] = s[i]
         /\ \A i \in DOMAIN t : Len(s) + i \in DOMAIN (s \o t) /\ (s \o t)[Len(s) + i] = t[i]
         /\ \A i \in DOMAIN (s \o t) :
              \/ i \in DOMAIN s /\ (s \o t)[i] = s[i]
              \/ i > Len(s) /\ i - Len(s) \in DOMAIN t /\ (s \o t)[i] = t[i - Len(s)]
<1>1. /\ s \o t \in Seq(S) /\ Len(s \o t) = Len(s) + Len(t)
      /\ \A i \in 1..Len(s) + Len(t) : (s \o t)[i] = IF i <= Len(s) THEN s[i] ELSE t[i - Len(s)]
  BY ConcatProperties
<1>2. /\ Len(s) \in Nat /\ Len(t) \in Nat
      /\ DOMAIN s = 1..Len(s) /\ DOMAIN t = 1..Len(t)
      /\ DOMAIN (s \o t) = 1..Len(s) + Len(t)
  BY <1>1
<1> QED
  BY <1>1, <1>2

LEMMA ConcatSet ==
  ASSUME NEW S, NEW s \in Seq(S), NEW t \in Seq(S)
  PROVE  ToSet(s \o t) = ToSet(s) \cup ToSet(t)
<1>1. ASSUME NEW i \in DOMAIN (s \o t)
      PROVE  (s \o t)[i] \in ToSet(s) \cup ToSet(t)
  <2>1. \/ i \in DOMAIN s /\ (s \o t)[i] = s[i]
        \/ i > Len(s) /\ i - Len(s) \in DOMAIN t /\ (s \o t)[i] = t[i - Len(s)]
    BY Concat
  <2> QED
    BY <2>1 DEF ToSet
<1>2. ASSUME NEW i \in DOMAIN s
      PROVE  s[i] \in ToSet(s \o t)
  <2>1. i \in DOMAIN (s \o t) /\ (s \o t)[i] = s[i]
    BY Concat
  <2> QED
    BY <2>1 DEF ToSet
<1>3. ASSUME NEW i \in DOMAIN t
      PROVE  t[i] \in ToSet(s \o t)
  <2>1. Len(s) + i \in DOMAIN (s \o t) /\ (s \o t)[Len(s) + i] = t[i]
    BY Concat
  <2> QED
    BY <2>1 DEF ToSet
<1> QED
  BY <1>1, <1>2, <1>3 DEF ToSet

LEMMA FiniteRange ==
  ASSUME NEW S, NEW s \in Seq(S)
  PROVE  IsFiniteSet(ToSet(s)) /\ ToSet(s) \subseteq S
<1>1. Len(s) \in Nat /\ DOMAIN s = 1..Len(s) /\ \A i \in 1..Len(s) : s[i] \in S
  OBVIOUS
<1>2. IsFiniteSet(1..Len(s))
  BY <1>1, FS_Interval
<1>3. s \in Surjection(1..Len(s), ToSet(s))
  BY <1>1 DEF ToSet, Surjection
<1> QED
  BY <1>1, <1>2, <1>3, FS_Surjection DEF ToSet

LEMMA OutcomeParts ==
  /\ Outcome = sent \cup rejected \cup Accepted \cup Recorded
  /\ (Outcome = sent \cup rejected \cup Accepted \cup Recorded)'
<1>1. Outcome = sent \cup rejected \cup Accepted \cup Recorded
  BY DEF Outcome, Accepted, Recorded
<1> QED
  BY <1>1, PTL

LEMMA InitManager == Init => ManagerInv
<1> SUFFICES ASSUME Init PROVE ManagerInv
  OBVIOUS
<1>1. WorldTyped
  BY FS_EmptySet DEF Init, WorldTyped
<1>2. CallsSound /\ OneCallEach
  BY DEF Init, CallsSound, OneCallEach
<1>3. WholeOrNothing
  <2>1. Outcome = {}
    BY DEF Init, Outcome, ToSet
  <2> QED
    BY <2>1 DEF Init, WholeOrNothing, Of
<1>4. EventsFollowPages
  BY DEF Init, EventsFollowPages
<1> QED
  BY <1>1, <1>2, <1>3, <1>4 DEF ManagerInv

-------------------------------------------------------------------------------
(* Frames *)

\* What a trigger is: a call knows the one it delivers.
LEMMA DeliversOne ==
  ASSUME NEW call, NEW s, NEW t, call.pages \in Seq(EventPages \cup NoticePages),
         Delivers(call, s), Delivers(call, t)
  PROVE  s = t
<1>1. 1 \in DOMAIN call.pages
  BY DEF Delivers
<1> QED
  BY <1>1 DEF Delivers

\* A command was rejected only after the call it came from was answered.
LEMMA RejectedAnswered ==
  ASSUME WorldTyped, WholeOrNothing, NEW c \in rejected
  PROVE  c.trigger \in answered
<1>1. c.trigger \in Trigger /\ c \in Of(c.trigger, Outcome)
  BY DEF WorldTyped, Command, Of, Outcome
<1> QED
  BY <1>1 DEF WholeOrNothing

\* A call another step leaves alone stays sound: its trigger stays under way
\* with what was made for it, and what is appended to the process book does
\* not concern commands rejected before.
LEMMA StillSound ==
  ASSUME WorldTyped, WholeOrNothing, NEW call, CallSound(call),
         rejected \subseteq rejected', Len(process') \in Nat, Len(process) <= Len(process'),
         \A j \in DOMAIN process' :
           \/ j \in DOMAIN process /\ process'[j] = process[j]
           \/ process'[j].kind = "step" => process'[j].trigger \notin answered,
         \A t \in Underway : Delivers(call, t) => t \in Underway' /\ Of(t, made)' = Of(t, made)
  PROVE  CallSound(call)'
<1>1. /\ call \in Calls /\ call.at \in 1..Len(call.pages) + 1 /\ call.state <= Len(process')
  <2>1. call.state \in Nat /\ Len(process) \in Nat
    BY DEF CallSound, Calls, WorldTyped
  <2> QED
    BY <2>1 DEF CallSound
<1>2. CASE ForNotices(call)
  <2>1. ASSUME NEW i \in DOMAIN call.pages, NEW j \in DOMAIN process',
               process'[j].kind = "step", process'[j].trigger = call.pages[i].command.trigger
        PROVE  j <= call.state
    <3>1. call.pages[i].command \in rejected
      BY <1>2 DEF ForNotices
    <3>2. j \in DOMAIN process /\ process'[j] = process[j]
      BY <2>1, <3>1, RejectedAnswered
    <3> QED
      BY <1>2, <2>1, <3>2 DEF ForNotices
  <2> QED
    BY <1>1, <1>2, <2>1 DEF CallSound, ForNotices
<1>3. CASE \E t \in Underway : Delivers(call, t) /\ Holds(call, t)
  <2>1. PICK t \in Underway : Delivers(call, t) /\ Holds(call, t)
    BY <1>3
  <2>2. t \in Underway' /\ Of(t, made)' = Of(t, made)
    BY <2>1
  <2>3. Holds(call, t)'
    BY <2>1, <2>2 DEF Holds
  <2> QED
    BY <1>1, <2>1, <2>2, <2>3 DEF CallSound
<1> QED
  BY <1>2, <1>3 DEF CallSound

\* A call whose pages stay the same stays the only one for its trigger.
LEMMA StillAlone ==
  ASSUME OneCallEach, NEW call \in calls, NEW changed, changed.pages = call.pages,
         calls' \subseteq (calls \ {call}) \cup {changed}
  PROVE  OneCallEach'
<1> SUFFICES ASSUME NEW x \in calls', NEW y \in calls', NEW t \in Trigger,
                    Delivers(x, t), Delivers(y, t)
             PROVE  x = y
  BY DEF OneCallEach, Delivers
<1>1. \A z \in {changed} : Delivers(z, t) => Delivers(call, t)
  BY DEF Delivers
<1> QED
  BY <1>1 DEF OneCallEach

-------------------------------------------------------------------------------
(* The roots *)

\* Accepting or rejecting moves a command from one place to another.
LEMMA ReceiveStep ==
  ASSUME ManagerInv, NEW c \in sent, Accept(c) \/ Reject(c)
  PROVE  ManagerInv'
<1> USE DEF ManagerInv
<1>1. /\ UNCHANGED <<fresh, calls, process, failed, answered, made>>
      /\ sent' = sent \ {c} /\ rejected \subseteq rejected'
      /\ \/ /\ log' = [log EXCEPT ![c.root] = Append(@, c)] /\ UNCHANGED <<returned, rejected>>
         \/ /\ rejected' = rejected \cup {c} /\ returned' = returned \cup {c} /\ log' = log
  BY DEF Accept, Reject, ghosts
<1>2. c \in Command /\ c.root \in Root
  BY DEF WorldTyped, Command
<1>3. ASSUME log' = [log EXCEPT ![c.root] = Append(@, c)]
      PROVE  /\ log' \in [Root -> Seq(Command)]
             /\ Accepted' = Accepted \cup {c}
  <2>1. log \in [Root -> Seq(Command)] /\ log[c.root] \in Seq(Command)
    BY <1>2 DEF WorldTyped
  <2>2. Append(log[c.root], c) \in Seq(Command)
    BY <1>2, <2>1
  <2>3. ToSet(Append(log[c.root], c)) = ToSet(log[c.root]) \cup {c}
    <3>1. /\ DOMAIN log[c.root] = 1..Len(log[c.root]) /\ Len(log[c.root]) \in Nat
          /\ DOMAIN Append(log[c.root], c) = 1..Len(log[c.root]) + 1
          /\ \A i \in 1..Len(log[c.root]) : Append(log[c.root], c)[i] = log[c.root][i]
          /\ Append(log[c.root], c)[Len(log[c.root]) + 1] = c
      BY <1>2, <2>1, AppendProperties
    <3> QED
      BY <3>1 DEF ToSet
  <2>4. /\ log'[c.root] = Append(log[c.root], c)
        /\ \A r \in Root \ {c.root} : log'[r] = log[r]
    BY <1>2, <1>3, <2>1
  <2>5. log' \in [Root -> Seq(Command)]
    BY <1>2, <1>3, <2>1, <2>2
  <2>6. \A r \in Root : ToSet(log'[r]) \subseteq ToSet(log[r]) \cup {c} /\ ToSet(log[r]) \subseteq ToSet(log'[r])
    BY <2>3, <2>4
  <2>7. c \in ToSet(log'[c.root])
    BY <2>3, <2>4
  <2>8. Accepted' = Accepted \cup {c}
    <3>1. ASSUME NEW r \in Root, NEW x \in ToSet(log'[r])
          PROVE  x \in Accepted \cup {c}
      BY <2>6, <3>1 DEF Accepted
    <3>2. ASSUME NEW r \in Root, NEW x \in ToSet(log[r])
          PROVE  x \in Accepted'
      BY <2>6, <3>2 DEF Accepted
    <3>3. c \in Accepted'
      BY <1>2, <2>7 DEF Accepted
    <3>4. /\ \A x \in Accepted' : \E r \in Root : x \in ToSet(log'[r])
          /\ \A x \in Accepted : \E r \in Root : x \in ToSet(log[r])
      BY DEF Accepted
    <3> QED
      BY <3>1, <3>2, <3>3, <3>4
  <2> QED
    BY <2>5, <2>8
<1>4. WorldTyped'
  <2>1. IsFiniteSet(sent') /\ IsFiniteSet(returned')
    <3>1. IsFiniteSet(sent \ {c}) /\ IsFiniteSet(returned \cup {c})
      BY FS_RemoveElement, FS_AddElement DEF WorldTyped
    <3> QED
      BY <1>1, <3>1 DEF WorldTyped
  <2> QED
    BY <1>1, <1>2, <1>3, <2>1 DEF WorldTyped
<1>5. Outcome' = Outcome
  <2>1. /\ Outcome = sent \cup rejected \cup Accepted \cup Recorded
        /\ Outcome' = sent' \cup rejected' \cup Accepted' \cup Recorded'
    BY OutcomeParts
  <2>2. Recorded' = Recorded
    BY <1>1 DEF Recorded
  <2>3. CASE log' = [log EXCEPT ![c.root] = Append(@, c)] /\ UNCHANGED <<returned, rejected>>
    <3>1. Accepted' = Accepted \cup {c} /\ rejected' = rejected
      BY <1>3, <2>3
    <3> QED
      BY <1>1, <2>1, <2>2, <3>1
  <2>4. CASE rejected' = rejected \cup {c} /\ returned' = returned \cup {c} /\ log' = log
    <3>1. Accepted' = Accepted
      BY <2>4 DEF Accepted
    <3> QED
      BY <1>1, <2>1, <2>2, <2>4, <3>1
  <2> QED
    BY <1>1, <2>3, <2>4
<1>6. CallsSound'
  <2> SUFFICES ASSUME NEW call \in calls PROVE CallSound(call)'
    BY <1>1 DEF CallsSound
  <2>1. CallSound(call) /\ Len(process) \in Nat
    BY DEF CallsSound, WorldTyped
  <2>2. Underway' = Underway /\ \A t : Of(t, made)' = Of(t, made)
    BY <1>1 DEF Underway, Of
  <2> QED
    BY <1>1, <2>1, <2>2, StillSound
<1>7. OneCallEach' /\ WholeOrNothing' /\ EventsFollowPages'
  BY <1>1, <1>5 DEF OneCallEach, WholeOrNothing, EventsFollowPages
<1> QED
  BY <1>4, <1>6, <1>7

-------------------------------------------------------------------------------
(* New calls *)

\* A call for pages that nobody else handles, on the book and the sequences
\* of the moment.
LEMMA NewCall ==
  ASSUME ManagerInv, NEW pages \in Seq(EventPages \cup NoticePages), Handle(pages)
  PROVE  \E call : /\ calls' = calls \cup {call}
                   /\ call \in Calls /\ call.pages = pages /\ call.at = 1
                   /\ call.state = Len(process) /\ call.commands = << >> /\ call.events = << >>
<1> USE ProcessManagerAssumption
<1>1. PICK sequences \in DestinationSequences :
        calls' = calls \cup {[pages |-> pages, at |-> 1, state |-> RebuildState,
                              sequences |-> sequences, basis |-> [r \in Root |-> NextSequence(r)],
                              commands |-> << >>, events |-> << >>]}
  BY DEF Handle
<1>2. \A r \in Root : NextSequence(r) \in Nat
  BY DEF ManagerInv, WorldTyped, NextSequence
<1>3. sequences \in [Output -> Nat]
  BY <1>1, <1>2 DEF DestinationSequences
<1>4. Len(process) \in Nat
  BY DEF ManagerInv, WorldTyped
<1> DEFINE call == [pages |-> pages, at |-> 1, state |-> RebuildState,
                    sequences |-> sequences, basis |-> [r \in Root |-> NextSequence(r)],
                    commands |-> << >>, events |-> << >>]
<1>5. call \in Calls
  BY <1>2, <1>3, <1>4 DEF Calls, RebuildState
<1> QED
  BY <1>1, <1>5 DEF RebuildState

LEMMA DeliverStep ==
  ASSUME ManagerInv, NEW t \in Trigger, Deliver(t)
  PROVE  ManagerInv'
<1> USE DEF ManagerInv
<1>1. PICK kinds \in BoundedSeq({"handled", "other"}, MaxPages) \ {<< >>} :
        /\ t \in fresh /\ fresh' = fresh \ {t}
        /\ Handle([i \in DOMAIN kinds |-> EventPage(t, i, kinds[i])])
        /\ UNCHANGED <<world, ghosts>>
  BY DEF Deliver
<1> DEFINE pages == [i \in DOMAIN kinds |-> EventPage(t, i, kinds[i])]
<1>2. PICK m \in 0..MaxPages : kinds \in [1..m -> {"handled", "other"}]
  BY DEF BoundedSeq, SeqOf
<1>3. m \in Nat /\ m > 0 /\ 1..m \subseteq 1..MaxPages
  <2>1. m \in Nat /\ 1..m \subseteq 1..MaxPages
    BY ProcessManagerAssumption
  <2>2. CASE m = 0
    BY <1>2, <2>2
  <2> QED
    BY <2>1, <2>2
<1>4. /\ pages \in Seq(EventPages) /\ Len(pages) = m
      /\ \A i \in 1..m : pages[i] \in EventPages /\ pages[i].trigger = t /\ pages[i].page = i
  <2>1. \A i \in 1..m : /\ EventPage(t, i, kinds[i]) \in EventPages
                        /\ EventPage(t, i, kinds[i]).trigger = t /\ EventPage(t, i, kinds[i]).page = i
    BY <1>2, <1>3 DEF EventPage, EventPages
  <2> QED
    BY <1>2, <1>3, <2>1
<1>5. pages \in Seq(EventPages \cup NoticePages)
  BY <1>4
<1>6. Handle(pages)
  BY <1>1
<1> HIDE DEF pages
<1>7. PICK call : /\ calls' = calls \cup {call}
                  /\ call \in Calls /\ call.pages = pages /\ call.at = 1
                  /\ call.state = Len(process) /\ call.commands = << >> /\ call.events = << >>
  BY <1>5, <1>6, NewCall
<1>8. /\ UNCHANGED <<process, sent, log, returned, rejected, failed, answered, made>>
      /\ Underway' = Underway \cup {t} /\ t \notin Underway /\ t \in Underway'
      /\ \A s : Of(s, made)' = Of(s, made)
  BY <1>1 DEF world, ghosts, Underway, WorldTyped, Of
<1>9. Delivers(call, t) /\ Holds(call, t)'
  <2>1. Delivers(call, t)
    BY <1>3, <1>4, <1>7 DEF Delivers
  <2>2. Of(t, made) = {}
    BY <1>1 DEF WorldTyped, Of
  <2> QED
    BY <1>7, <1>8, <2>1, <2>2 DEF Holds, InPageOrder, ToSet
<1>10. WorldTyped'
  BY <1>1, <1>8 DEF WorldTyped
<1>11. CallsSound'
  <2> SUFFICES ASSUME NEW other \in calls' PROVE CallSound(other)'
    BY DEF CallsSound
  <2>1. Len(process) \in Nat
    BY DEF WorldTyped
  <2>2. CASE other = call
    BY <1>3, <1>4, <1>7, <1>8, <1>9, <2>1, <2>2 DEF CallSound
  <2>3. CASE other \in calls
    BY <1>8, <2>1, <2>3, StillSound DEF CallsSound
  <2> QED
    BY <1>7, <2>2, <2>3
<1>12. OneCallEach'
  <2>1. ASSUME NEW other \in calls PROVE ~Delivers(other, t)
    <3> SUFFICES ASSUME Delivers(other, t) PROVE FALSE
      OBVIOUS
    <3>1. other \in Calls /\ 1 \in DOMAIN other.pages /\ other.pages[1] \in EventPages
      BY DEF CallsSound, CallSound, Delivers
    <3>2. CASE ForNotices(other)
      BY <3>1, <3>2 DEF ForNotices, EventPages, NoticePages
    <3>3. CASE \E s \in Underway : Delivers(other, s)
      BY <1>8, <3>1, <3>3, DeliversOne DEF Calls
    <3> QED
      BY <3>2, <3>3 DEF CallsSound, CallSound
  <2>2. \A s \in Trigger : Delivers(call, s) => s = t
    BY <1>7, <1>9, DeliversOne DEF Calls
  <2> QED
    BY <1>7, <2>1, <2>2 DEF OneCallEach, Delivers
<1>13. WholeOrNothing' /\ EventsFollowPages'
  BY <1>8 DEF WholeOrNothing, EventsFollowPages, Of, Outcome
<1> QED
  BY <1>10, <1>11, <1>12, <1>13

LEMMA NotifyStep ==
  ASSUME ManagerInv, Notify
  PROVE  ManagerInv'
<1> USE DEF ManagerInv
<1>1. PICK cs \in SUBSET returned :
        /\ returned' = returned \ cs
        /\ \E order \in SetToSeqs(cs) : Handle([i \in DOMAIN order |-> NoticePage(order[i])])
        /\ UNCHANGED <<fresh, process, sent, log, rejected, ghosts>>
  BY DEF Notify
<1>2. PICK order \in SetToSeqs(cs) : Handle([i \in DOMAIN order |-> NoticePage(order[i])])
  BY <1>1
<1> DEFINE pages == [i \in DOMAIN order |-> NoticePage(order[i])]
<1>3. Cardinality(cs) \in Nat
  BY FS_Subset, FS_CardinalityType DEF WorldTyped
<1>4. order \in [1..Cardinality(cs) -> cs] /\ cs \subseteq rejected /\ cs \subseteq Command
  BY DEF SetToSeqs, WorldTyped
<1>5. /\ pages \in Seq(NoticePages) /\ Len(pages) \in Nat /\ DOMAIN pages = 1..Len(pages)
      /\ \A i \in DOMAIN pages : pages[i] \in NoticePages /\ pages[i].command \in rejected
  <2>1. \A i \in 1..Cardinality(cs) : /\ NoticePage(order[i]) \in NoticePages
                                      /\ NoticePage(order[i]).command \in rejected
    BY <1>4 DEF NoticePage, NoticePages
  <2> QED
    BY <1>3, <1>4, <2>1
<1>6. pages \in Seq(EventPages \cup NoticePages)
  BY <1>5
<1>7. Handle(pages)
  BY <1>2
<1> HIDE DEF pages
<1>8. PICK call : /\ calls' = calls \cup {call}
                  /\ call \in Calls /\ call.pages = pages /\ call.at = 1
                  /\ call.state = Len(process) /\ call.commands = << >> /\ call.events = << >>
  BY <1>6, <1>7, NewCall
<1>9. /\ UNCHANGED <<fresh, process, sent, log, rejected, failed, answered, made>>
      /\ Underway' = Underway /\ \A s : Of(s, made)' = Of(s, made)
  BY <1>1 DEF ghosts, Underway, Of
<1>10. Len(process) \in Nat /\ DOMAIN process = 1..Len(process)
  BY DEF WorldTyped
<1>11. WorldTyped'
  <2>1. IsFiniteSet(returned')
    BY <1>1, FS_Subset DEF WorldTyped
  <2> QED
    BY <1>1, <1>9, <2>1 DEF WorldTyped
<1>12. CallsSound'
  <2> SUFFICES ASSUME NEW other \in calls' PROVE CallSound(other)'
    BY DEF CallsSound
  <2>1. CASE other = call
    <3>1. ForNotices(call)'
      BY <1>5, <1>8, <1>9, <1>10 DEF ForNotices
    <3> QED
      BY <1>5, <1>8, <1>9, <1>10, <2>1, <3>1 DEF CallSound
  <2>2. CASE other \in calls
    BY <1>9, <1>10, <2>2, StillSound DEF CallsSound
  <2> QED
    BY <1>8, <2>1, <2>2
<1>13. OneCallEach'
  <2>1. \A t \in Trigger : ~Delivers(call, t)
    BY <1>5, <1>8 DEF Delivers, EventPages, NoticePages
  <2> QED
    BY <1>8, <2>1 DEF OneCallEach, Delivers
<1>14. WholeOrNothing' /\ EventsFollowPages'
  BY <1>9 DEF WholeOrNothing, EventsFollowPages, Of, Outcome
<1> QED
  BY <1>11, <1>12, <1>13, <1>14

-------------------------------------------------------------------------------
(* Calls under way *)

\* The page a call is at tells what the call is for.
LEMMA WhichCall ==
  ASSUME ManagerInv, NEW call \in calls
  PROVE  /\ At(call, "handled") \/ At(call, "other") =>
              \E t \in Underway : Delivers(call, t) /\ Holds(call, t)
         /\ At(call, "notice") => ForNotices(call)
<1>1. /\ call \in Calls /\ call.at \in Nat /\ call.at >= 1
      /\ call.pages \in Seq(EventPages \cup NoticePages)
      /\ ForNotices(call) \/ \E t \in Underway : Delivers(call, t) /\ Holds(call, t)
  BY DEF ManagerInv, CallsSound, CallSound, Calls
<1>2. ASSUME call.at <= Len(call.pages)
      PROVE  call.at \in DOMAIN call.pages
  BY <1>1, <1>2
<1>3. CASE ForNotices(call)
  BY <1>2, <1>3 DEF ForNotices, At, NoticePages
<1>4. CASE \E t \in Underway : Delivers(call, t) /\ Holds(call, t)
  BY <1>2, <1>4 DEF Delivers, At, EventPages
<1> QED
  BY <1>1, <1>3, <1>4

\* A step of a call that goes on, and that makes things for its own trigger
\* only, disturbs no other call and nothing that is out already.
LEMMA CallGoesOn ==
  ASSUME ManagerInv, NEW call \in calls, NEW changed, changed.pages = call.pages,
         Goes(call, changed), UNCHANGED <<fresh, world, failed, answered>>,
         made \subseteq made',
         \A x \in made' \ made : /\ x \in Command \cup Steps
                                 /\ x.trigger \in Underway /\ Delivers(call, x.trigger),
         CallSound(changed)'
  PROVE  ManagerInv'
<1> USE DEF ManagerInv
<1>1. /\ UNCHANGED <<fresh, process, sent, log, returned, rejected, failed, answered>>
      /\ Underway' = Underway /\ calls' = (calls \ {call}) \cup {changed}
  BY DEF world, Goes, Underway
<1>2. \A s : s \notin Underway \/ ~Delivers(call, s) => Of(s, made)' = Of(s, made)
  BY DEF Of
<1>3. WorldTyped'
  BY <1>1 DEF WorldTyped, Underway
<1>4. CallsSound'
  <2> SUFFICES ASSUME NEW other \in calls, other # call PROVE CallSound(other)'
    BY <1>1 DEF CallsSound
  <2>1. CallSound(other) /\ Len(process) \in Nat /\ Len(process') \in Nat
    BY <1>1 DEF CallsSound, WorldTyped
  <2>2. \A t \in Underway : Delivers(other, t) => t \in Underway' /\ Of(t, made)' = Of(t, made)
    BY <1>1, <1>2 DEF OneCallEach, Underway
  <2> QED
    BY <1>1, <2>1, <2>2, StillSound
<1>5. OneCallEach'
  BY <1>1, StillAlone
<1>6. WholeOrNothing'
  <2>1. Outcome' = Outcome
    BY <1>1 DEF Outcome
  <2>2. \A t \in answered : Of(t, made)' = Of(t, made)
    BY <1>2 DEF Underway
  <2> QED
    BY <1>1, <2>1, <2>2 DEF WholeOrNothing, Of
<1>7. EventsFollowPages'
  BY <1>1 DEF EventsFollowPages
<1> QED
  BY <1>3, <1>4, <1>5, <1>6, <1>7

LEMMA SkipStep ==
  ASSUME ManagerInv, NEW call \in calls, SkipPage(call)
  PROVE  ManagerInv'
<1> DEFINE changed == [call EXCEPT !.at = @ + 1]
<1>1. /\ Goes(call, changed) /\ UNCHANGED <<fresh, world, failed, answered, made>>
      /\ call.at <= Len(call.pages)
  BY DEF SkipPage, At, ghosts
<1>2. CallSound(call) /\ call \in Calls
  BY DEF ManagerInv, CallsSound, CallSound
<1>3. /\ changed \in Calls /\ changed.pages = call.pages /\ changed.at = call.at + 1
      /\ changed.state = call.state /\ changed.commands = call.commands
      /\ changed.events = call.events
  <2>1. call.at + 1 \in Nat
    BY <1>2 DEF Calls
  <2>2. changed \in Calls
    BY <1>2, <2>1 DEF Calls
  <2> QED
    BY <1>2, <2>2 DEF Calls
<1> HIDE DEF changed
<1>4. UNCHANGED <<process, rejected, made>> /\ Underway' = Underway
  BY <1>1 DEF world, Underway
<1>5. CallSound(changed)'
  <2>1. changed.at \in 1..Len(changed.pages) + 1 /\ changed.state <= Len(process')
    BY <1>1, <1>2, <1>3, <1>4 DEF CallSound, Calls
  <2>2. CASE ForNotices(call)
    BY <1>3, <1>4, <2>1, <2>2 DEF CallSound, ForNotices
  <2>3. CASE \E t \in Underway : Delivers(call, t) /\ Holds(call, t)
    <3>1. PICK t \in Underway : Delivers(call, t) /\ Holds(call, t)
      BY <2>3
    <3>2. Delivers(changed, t)
      BY <1>3, <3>1 DEF Delivers
    <3>3. \A i \in DOMAIN changed.events : changed.events[i].page < changed.at
      BY <1>2, <1>3, <3>1 DEF Holds, Steps, Calls
    <3>4. Holds(changed, t)'
      BY <1>3, <1>4, <3>1, <3>3 DEF Holds, Of
    <3> QED
      BY <1>3, <1>4, <2>1, <3>1, <3>2, <3>4 DEF CallSound
  <2> QED
    BY <1>2, <2>2, <2>3 DEF CallSound
<1> QED
  BY <1>1, <1>3, <1>4, <1>5, CallGoesOn

LEMMA HandleRejectionStep ==
  ASSUME ManagerInv, NEW call \in calls, HandleRejection(call)
  PROVE  ManagerInv'
<1> DEFINE c == call.pages[call.at].command
           changed == [call EXCEPT !.at = @ + 1, !.events = Append(@, Compensation(c))]
<1>1. /\ Goes(call, changed) /\ UNCHANGED <<fresh, world, failed, answered, made>>
      /\ call.at <= Len(call.pages) /\ At(call, "notice")
  BY DEF HandleRejection, At, ghosts
<1>2. CallSound(call) /\ call \in Calls /\ ForNotices(call)
  BY <1>1, WhichCall DEF ManagerInv, CallsSound, CallSound
<1>3. Compensation(c) \in Compensating
  <2>1. call.at \in DOMAIN call.pages
    BY <1>1, <1>2 DEF CallSound, Calls
  <2>2. c \in Command
    BY <1>2, <2>1 DEF ForNotices, NoticePages
  <2> QED
    BY <2>2 DEF Compensation, Compensating
<1> HIDE DEF c
<1>4. /\ Append(call.events, Compensation(c)) \in Seq(Steps \cup Compensating)
      /\ \A i \in DOMAIN Append(call.events, Compensation(c)) :
           Append(call.events, Compensation(c))[i] \in Compensating
  <2>1. call.events \in Seq(Steps \cup Compensating) /\ \A i \in DOMAIN call.events : call.events[i] \in Compensating
    BY <1>2 DEF Calls, ForNotices
  <2> QED
    BY <1>3, <2>1, AppendProperties
<1>5. /\ changed \in Calls /\ changed.pages = call.pages /\ changed.at = call.at + 1
      /\ changed.state = call.state /\ changed.commands = call.commands
      /\ changed.events = Append(call.events, Compensation(c))
  <2> DEFINE events == Append(call.events, Compensation(c))
  <2>1. call.at + 1 \in Nat /\ events \in Seq(Steps \cup Compensating)
    BY <1>2, <1>4 DEF Calls
  <2>2. changed = [call EXCEPT !.at = call.at + 1, !.events = events]
    BY <1>2 DEF Calls
  <2> HIDE DEF events, changed
  <2>3. changed \in Calls
    BY <1>2, <2>1, <2>2 DEF Calls
  <2>4. /\ changed.pages = call.pages /\ changed.at = call.at + 1
        /\ changed.state = call.state /\ changed.commands = call.commands
        /\ changed.events = events
    BY <1>2, <2>2 DEF Calls
  <2> QED
    BY <2>3, <2>4 DEF events
<1> HIDE DEF changed
<1>6. UNCHANGED <<process, rejected, made>>
  BY <1>1 DEF world
<1>7. CallSound(changed)'
  <2>1. changed.at \in 1..Len(changed.pages) + 1 /\ changed.state <= Len(process')
    BY <1>1, <1>2, <1>5, <1>6 DEF CallSound, Calls
  <2>2. ForNotices(changed)'
    BY <1>2, <1>4, <1>5, <1>6 DEF ForNotices
  <2> QED
    BY <1>5, <2>1, <2>2 DEF CallSound
<1> QED
  BY <1>1, <1>5, <1>6, <1>7, CallGoesOn

\* The commands of one page, and the event that goes with them.
LEMMA CommandsTyped ==
  ASSUME ManagerInv, NEW call \in calls, NEW t \in Trigger, Delivers(call, t),
         call.at <= Len(call.pages),
         NEW targets \in BoundedSeq({r \in Root : Home[r] \in Output}, MaxCommands)
  PROVE  /\ Commands(call, targets) \in Seq(Command)
         /\ \A n \in DOMAIN Commands(call, targets) : Commands(call, targets)[n].trigger = t
         /\ Step(call.pages[call.at]) \in Steps
         /\ Step(call.pages[call.at]).trigger = t /\ Step(call.pages[call.at]).page = call.at
<1>1. call \in Calls /\ call.at \in DOMAIN call.pages
  BY DEF ManagerInv, CallsSound, CallSound, Calls
<1> DEFINE page == call.pages[call.at]
<1>2. /\ page \in EventPages /\ page.trigger = t /\ page.page = call.at /\ page.page \in 1..MaxPages
  BY <1>1 DEF Delivers, EventPages
<1>3. PICK m \in 0..MaxCommands : targets \in [1..m -> {r \in Root : Home[r] \in Output}]
  BY DEF BoundedSeq, SeqOf
<1>4. m \in Nat /\ 1..m \subseteq 1..MaxCommands
  BY ProcessManagerAssumption
<1> HIDE DEF page
<1> DEFINE command(n) == [kind |-> "command", trigger |-> page.trigger, page |-> page.page, n |-> n,
                          root |-> targets[n], seq |-> Stamp(call, targets[n]),
                          basis |-> call.basis[targets[n]]]
<1>5. ASSUME NEW n \in 1..m
      PROVE  command(n) \in Command /\ command(n).trigger = t
  <2>1. targets[n] \in Root /\ Home[targets[n]] \in Output
    BY <1>3
  <2>2. Stamp(call, targets[n]) \in Nat /\ call.basis[targets[n]] \in Nat
    BY <1>1, <2>1 DEF Stamp, Calls
  <2> QED
    BY <1>2, <1>4, <2>1, <2>2 DEF Command
<1>6. Commands(call, targets) = [n \in 1..m |-> command(n)]
  BY <1>3 DEF Commands, page
<1> HIDE DEF command
<1>7. /\ Commands(call, targets) \in Seq(Command)
      /\ \A n \in DOMAIN Commands(call, targets) : Commands(call, targets)[n].trigger = t
  BY <1>4, <1>5, <1>6
<1>8. /\ Step(page) \in Steps /\ Step(page).trigger = t /\ Step(page).page = call.at
  BY <1>2 DEF Step, Steps
<1> QED
  BY <1>7, <1>8 DEF page

LEMMA HandlePageStep ==
  ASSUME ManagerInv, NEW call \in calls, HandlePage(call)
  PROVE  ManagerInv'
<1>1. PICK targets \in BoundedSeq({r \in Root : Home[r] \in Output}, MaxCommands) :
      \E records \in BOOLEAN :
        LET steps == IF records THEN <<Step(call.pages[call.at])>> ELSE << >>
            commands == Commands(call, targets)
        IN  /\ At(call, "handled")
            /\ Goes(call, [call EXCEPT !.at = @ + 1, !.commands = @ \o commands,
                                       !.events = @ \o steps])
            /\ made' = made \cup ToSet(commands) \cup ToSet(steps)
            /\ UNCHANGED <<fresh, world, failed, answered>>
  BY DEF HandlePage
<1>2. PICK records \in BOOLEAN :
        LET steps == IF records THEN <<Step(call.pages[call.at])>> ELSE << >>
            commands == Commands(call, targets)
        IN  /\ At(call, "handled")
            /\ Goes(call, [call EXCEPT !.at = @ + 1, !.commands = @ \o commands,
                                       !.events = @ \o steps])
            /\ made' = made \cup ToSet(commands) \cup ToSet(steps)
            /\ UNCHANGED <<fresh, world, failed, answered>>
  BY <1>1
<1> DEFINE step == Step(call.pages[call.at])
           steps == IF records THEN <<step>> ELSE << >>
           commands == Commands(call, targets)
           changed == [call EXCEPT !.at = @ + 1, !.commands = @ \o commands, !.events = @ \o steps]
<1>3. /\ At(call, "handled") /\ call.at <= Len(call.pages)
      /\ Goes(call, changed)
      /\ made' = made \cup ToSet(commands) \cup ToSet(steps)
      /\ UNCHANGED <<fresh, world, failed, answered>>
  BY <1>2 DEF At
<1>4. PICK t \in Underway : Delivers(call, t) /\ Holds(call, t)
  BY <1>3, WhichCall
<1>5. CallSound(call) /\ call \in Calls /\ t \in Trigger
  BY DEF ManagerInv, CallsSound, CallSound, Underway
<1>6. /\ commands \in Seq(Command) /\ \A n \in DOMAIN commands : commands[n].trigger = t
      /\ step \in Steps /\ step.trigger = t /\ step.page = call.at
  BY <1>3, <1>4, <1>5, CommandsTyped
<1>7. /\ steps \in Seq(Steps)
      /\ \A i \in DOMAIN steps : steps[i].trigger = t /\ steps[i].page = call.at
      /\ \A i, j \in DOMAIN steps : i = j
  <2> HIDE DEF step
  <2>1. CASE records
    BY <1>6, <2>1
  <2>2. CASE ~records
    BY <2>2
  <2> QED
    BY <2>1, <2>2
<1>8. /\ changed \in Calls /\ changed.pages = call.pages /\ changed.at = call.at + 1
      /\ changed.state = call.state /\ changed.commands = call.commands \o commands
      /\ changed.events = call.events \o steps
  <2> DEFINE cs == call.commands \o commands
             es == call.events \o steps
  <2>1. call.at + 1 \in Nat /\ cs \in Seq(Command) /\ es \in Seq(Steps \cup Compensating)
    <3>1. /\ call.at \in Nat /\ call.commands \in Seq(Command)
          /\ call.events \in Seq(Steps \cup Compensating)
      BY <1>5 DEF Calls
    <3> HIDE DEF steps, commands
    <3>2. steps \in Seq(Steps \cup Compensating)
      BY <1>7
    <3> QED
      BY <1>6, <3>1, <3>2, Concat
  <2>2. changed = [call EXCEPT !.at = call.at + 1, !.commands = cs, !.events = es]
    BY <1>5 DEF Calls
  <2> HIDE DEF cs, es, changed, commands, steps
  <2>3. changed \in Calls
    BY <1>5, <2>1, <2>2 DEF Calls
  <2>4. /\ changed.pages = call.pages /\ changed.at = call.at + 1
        /\ changed.state = call.state /\ changed.commands = cs
        /\ changed.events = es
    BY <1>5, <2>2 DEF Calls
  <2> QED
    BY <2>3, <2>4 DEF cs, es
<1> HIDE DEF step, steps, commands, changed
<1>9. UNCHANGED <<process, rejected>> /\ Underway' = Underway
  BY <1>3 DEF world, Underway
<1>10. Holds(changed, t)'
  <2>1. call.commands \in Seq(Command) /\ call.events \in Seq(Steps \cup Compensating)
        /\ call.at \in Nat
    BY <1>5 DEF Calls
  <2>2. steps \in Seq(Steps \cup Compensating)
    BY <1>7
  <2>3. \A i \in DOMAIN changed.commands : changed.commands[i].trigger = t
    <3> SUFFICES ASSUME NEW i \in DOMAIN (call.commands \o commands)
                 PROVE  (call.commands \o commands)[i].trigger = t
      BY <1>8
    <3>1. \/ i \in DOMAIN call.commands /\ (call.commands \o commands)[i] = call.commands[i]
          \/ /\ i > Len(call.commands) /\ i - Len(call.commands) \in DOMAIN commands
             /\ (call.commands \o commands)[i] = commands[i - Len(call.commands)]
      BY <1>6, <2>1, Concat
    <3> QED
      BY <1>4, <1>6, <3>1 DEF Holds
  <2>4. \A i \in DOMAIN (call.events \o steps) :
          \/ i \in DOMAIN call.events /\ (call.events \o steps)[i] = call.events[i]
          \/ /\ i > Len(call.events) /\ i - Len(call.events) \in DOMAIN steps
             /\ (call.events \o steps)[i] = steps[i - Len(call.events)]
    BY <2>1, <2>2, Concat
  <2>5. DOMAIN call.events = 1..Len(call.events) /\ Len(call.events) \in Nat
    BY <2>1
  <2>6. \A i \in DOMAIN changed.events :
          /\ changed.events[i] \in Steps /\ changed.events[i].trigger = t
          /\ changed.events[i].page < changed.at
    <3> SUFFICES ASSUME NEW i \in DOMAIN (call.events \o steps)
                 PROVE  /\ (call.events \o steps)[i] \in Steps /\ (call.events \o steps)[i].trigger = t
                        /\ (call.events \o steps)[i].page < call.at + 1
      BY <1>8
    <3>1. CASE i \in DOMAIN call.events /\ (call.events \o steps)[i] = call.events[i]
      BY <1>4, <2>1, <3>1 DEF Holds, Steps
    <3>2. CASE i > Len(call.events) /\ i - Len(call.events) \in DOMAIN steps
               /\ (call.events \o steps)[i] = steps[i - Len(call.events)]
      BY <1>7, <2>1, <3>2
    <3> QED
      BY <2>4, <3>1, <3>2
  <2>7. InPageOrder(changed.events)
    <3> SUFFICES ASSUME NEW i \in DOMAIN (call.events \o steps), NEW j \in DOMAIN (call.events \o steps), i < j
                 PROVE  (call.events \o steps)[i].page < (call.events \o steps)[j].page
      BY <1>8 DEF InPageOrder
    <3>1. i \in Nat /\ j \in Nat
      BY <2>1, <2>2, <2>5, Concat
    <3>2. CASE i \in DOMAIN call.events /\ j \in DOMAIN call.events
      BY <1>4, <2>1, <2>4, <2>5, <3>2 DEF Holds, InPageOrder
    <3>3. CASE i \in DOMAIN call.events /\ j \notin DOMAIN call.events
      BY <1>4, <1>7, <2>4, <2>5, <3>3 DEF Holds
    <3>4. CASE i \notin DOMAIN call.events
      BY <1>7, <2>4, <2>5, <3>1, <3>4
    <3> QED
      BY <3>2, <3>3, <3>4
  <2>8. Of(t, made)' = ToSet(changed.commands) \cup ToSet(changed.events)
    <3>1. /\ ToSet(changed.commands) = ToSet(call.commands) \cup ToSet(commands)
          /\ ToSet(changed.events) = ToSet(call.events) \cup ToSet(steps)
      BY <1>6, <1>8, <2>1, <2>2, ConcatSet
    <3>2. \A x \in ToSet(commands) \cup ToSet(steps) : x.trigger = t
      BY <1>6, <1>7 DEF ToSet
    <3>3. Of(t, made)' = Of(t, made) \cup ToSet(commands) \cup ToSet(steps)
      BY <1>3, <3>2 DEF Of
    <3> QED
      BY <1>4, <3>1, <3>3 DEF Holds
  <2> QED
    BY <2>3, <2>6, <2>7, <2>8 DEF Holds
<1>11. CallSound(changed)'
  <2>1. changed.at \in 1..Len(changed.pages) + 1 /\ changed.state <= Len(process')
    BY <1>3, <1>5, <1>8, <1>9 DEF CallSound, Calls
  <2>2. Delivers(changed, t)
    BY <1>4, <1>8 DEF Delivers
  <2> QED
    BY <1>4, <1>8, <1>9, <1>10, <2>1, <2>2 DEF CallSound
<1>12. \A x \in made' \ made : /\ x \in Command \cup Steps
                               /\ x.trigger \in Underway /\ Delivers(call, x.trigger)
  <2>1. \A x \in ToSet(commands) \cup ToSet(steps) : x \in Command \cup Steps /\ x.trigger = t
    BY <1>6, <1>7 DEF ToSet
  <2> QED
    BY <1>3, <1>4, <2>1
<1> QED
  BY <1>3, <1>8, <1>11, <1>12, CallGoesOn

-------------------------------------------------------------------------------
(* Calls that end *)

\* A call that ends in an error leaves no trace but the failure.
LEMMA HandlerFailsStep ==
  ASSUME ManagerInv, NEW call \in calls, HandlerFails(call)
  PROVE  ManagerInv'
<1> USE DEF ManagerInv
<1>1. PICK t \in Underway : Delivers(call, t) /\ Holds(call, t)
  BY WhichCall DEF HandlerFails
<1>2. /\ UNCHANGED <<fresh, process, sent, log, returned, rejected, answered, made>>
      /\ calls' = calls \ {call} /\ failed' = failed \cup {call.pages[1].trigger}
  BY DEF HandlerFails, world
<1>3. call.pages[1].trigger = t
  <2>1. 1 \in DOMAIN call.pages
    BY <1>1 DEF Delivers, CallsSound, CallSound, Calls
  <2> QED
    BY <1>1, <2>1 DEF Delivers
<1>4. WorldTyped'
  BY <1>1, <1>2, <1>3 DEF WorldTyped, Underway
<1>5. CallsSound'
  <2> SUFFICES ASSUME NEW other \in calls, other # call PROVE CallSound(other)'
    BY <1>2 DEF CallsSound
  <2>1. CallSound(other) /\ Len(process) \in Nat /\ Len(process') \in Nat
    BY <1>2 DEF CallsSound, WorldTyped
  <2>2. \A s \in Underway : Delivers(other, s) => s # t
    BY <1>1 DEF OneCallEach, Underway
  <2>3. \A s \in Underway : Delivers(other, s) => s \in Underway' /\ Of(s, made)' = Of(s, made)
    BY <1>2, <1>3, <2>2 DEF Underway, Of
  <2> QED
    BY <1>2, <2>1, <2>3, StillSound
<1>6. OneCallEach'
  BY <1>2 DEF OneCallEach, Delivers
<1>7. WholeOrNothing' /\ EventsFollowPages'
  BY <1>2 DEF WholeOrNothing, EventsFollowPages, Of, Outcome
<1> QED
  BY <1>4, <1>5, <1>6, <1>7

\* What an answer adds: its events at the end of the process book.
LEMMA ReturnAdds ==
  ASSUME ManagerInv, NEW call \in calls, Return(call)
  PROVE  /\ UNCHANGED <<fresh, log, returned, rejected, failed, made>>
         /\ calls' = calls \ {call} /\ sent' = sent \cup ToSet(call.commands)
         /\ call \in Calls /\ process' \in Seq(Steps \cup Compensating)
         /\ Len(process) \in Nat /\ Len(process') \in Nat /\ Len(process) <= Len(process')
         /\ ToSet(process') = ToSet(process) \cup ToSet(call.events)
         /\ \A i \in DOMAIN process' :
              \/ i \in DOMAIN process /\ process'[i] = process[i]
              \/ /\ i > Len(process) /\ i - Len(process) \in DOMAIN call.events
                 /\ process'[i] = call.events[i - Len(process)]
         /\ Outcome' = Outcome \cup ToSet(call.commands)
                         \cup {e \in ToSet(call.events) : e.kind = "step"}
         /\ IsFiniteSet(sent') /\ sent' \subseteq Command
<1>1. /\ UNCHANGED <<fresh, log, returned, rejected, failed, made>>
      /\ calls' = calls \ {call} /\ sent' = sent \cup ToSet(call.commands)
      /\ process' = process \o call.events
  BY DEF Return
<1>2. /\ call \in Calls /\ call.events \in Seq(Steps \cup Compensating)
      /\ call.commands \in Seq(Command) /\ process \in Seq(Steps \cup Compensating)
      /\ sent \subseteq Command /\ IsFiniteSet(sent)
  BY DEF ManagerInv, WorldTyped, CallsSound, CallSound, Calls
<1>3. /\ process \o call.events \in Seq(Steps \cup Compensating)
      /\ Len(process \o call.events) = Len(process) + Len(call.events)
      /\ \A i \in DOMAIN (process \o call.events) :
           \/ i \in DOMAIN process /\ (process \o call.events)[i] = process[i]
           \/ /\ i > Len(process) /\ i - Len(process) \in DOMAIN call.events
              /\ (process \o call.events)[i] = call.events[i - Len(process)]
  BY <1>2, Concat
<1>4. ToSet(process') = ToSet(process) \cup ToSet(call.events)
  BY <1>1, <1>2, ConcatSet
<1>5. IsFiniteSet(sent') /\ sent' \subseteq Command
  BY <1>1, <1>2, FiniteRange, FS_Union
<1>6. Outcome' = Outcome \cup ToSet(call.commands) \cup {e \in ToSet(call.events) : e.kind = "step"}
  <2>1. Recorded' = Recorded \cup {e \in ToSet(call.events) : e.kind = "step"}
    BY <1>4 DEF Recorded
  <2>2. Accepted' = Accepted
    BY <1>1 DEF Accepted
  <2> QED
    BY <1>1, <2>1, <2>2, OutcomeParts
<1>7. Len(process) \in Nat /\ Len(call.events) \in Nat
  BY <1>2
<1> QED
  BY <1>1, <1>2, <1>3, <1>4, <1>5, <1>6, <1>7

\* The answer to a call for Notifications.
LEMMA ReturnCompensations ==
  ASSUME ManagerInv, NEW call \in calls, Return(call), ForNotices(call)
  PROVE  ManagerInv'
<1> USE DEF ManagerInv
<1>1. /\ UNCHANGED <<fresh, log, returned, rejected, failed, made>>
      /\ calls' = calls \ {call} /\ call \in Calls
      /\ process' \in Seq(Steps \cup Compensating)
      /\ Len(process) \in Nat /\ Len(process') \in Nat /\ Len(process) <= Len(process')
      /\ \A i \in DOMAIN process' :
           \/ i \in DOMAIN process /\ process'[i] = process[i]
           \/ /\ i > Len(process) /\ i - Len(process) \in DOMAIN call.events
              /\ process'[i] = call.events[i - Len(process)]
      /\ Outcome' = Outcome \cup ToSet(call.commands)
                      \cup {e \in ToSet(call.events) : e.kind = "step"}
      /\ IsFiniteSet(sent') /\ sent' \subseteq Command
  BY ReturnAdds
<1>2. answered' = answered
  <2>1. \A p \in ToSet(call.pages) : p.kind = "notice"
    BY DEF ForNotices, NoticePages, ToSet
  <2> QED
    BY <2>1 DEF Return
<1>3. Outcome' = Outcome
  <2>1. ToSet(call.commands) = {}
    BY DEF ForNotices, ToSet
  <2>2. \A e \in ToSet(call.events) : e.kind # "step"
    BY DEF ForNotices, Compensating, ToSet
  <2> QED
    BY <1>1, <2>1, <2>2
<1>4. \A i \in DOMAIN process' :
        \/ i \in DOMAIN process /\ process'[i] = process[i]
        \/ process'[i].kind # "step"
  BY <1>1 DEF ForNotices, Compensating
<1>5. WorldTyped'
  BY <1>1, <1>2 DEF WorldTyped
<1>6. CallsSound'
  <2> SUFFICES ASSUME NEW other \in calls PROVE CallSound(other)'
    BY <1>1 DEF CallsSound
  <2>1. CallSound(other)
    BY DEF CallsSound
  <2>2. Underway' = Underway /\ \A t : Of(t, made)' = Of(t, made)
    BY <1>1, <1>2 DEF Underway, Of
  <2> QED
    BY <1>1, <1>4, <2>1, <2>2, StillSound
<1>7. OneCallEach'
  BY <1>1 DEF OneCallEach, Delivers
<1>8. WholeOrNothing'
  BY <1>1, <1>2, <1>3 DEF WholeOrNothing, Of
<1>9. EventsFollowPages'
  BY <1>4 DEF EventsFollowPages
<1> QED
  BY <1>5, <1>6, <1>7, <1>8, <1>9

\* The answer to a call for a trigger: all that was made for it goes out.
LEMMA ReturnTrigger ==
  ASSUME ManagerInv, NEW call \in calls, Return(call),
         NEW t \in Underway, Delivers(call, t), Holds(call, t)
  PROVE  ManagerInv'
<1> USE DEF ManagerInv
<1>1. /\ UNCHANGED <<fresh, log, returned, rejected, failed, made>>
      /\ calls' = calls \ {call} /\ call \in Calls
      /\ process' \in Seq(Steps \cup Compensating)
      /\ Len(process) \in Nat /\ Len(process') \in Nat /\ Len(process) <= Len(process')
      /\ \A i \in DOMAIN process' :
           \/ i \in DOMAIN process /\ process'[i] = process[i]
           \/ /\ i > Len(process) /\ i - Len(process) \in DOMAIN call.events
              /\ process'[i] = call.events[i - Len(process)]
      /\ Outcome' = Outcome \cup ToSet(call.commands)
                      \cup {e \in ToSet(call.events) : e.kind = "step"}
      /\ IsFiniteSet(sent') /\ sent' \subseteq Command
  BY ReturnAdds
<1>2. answered' = answered \cup {t}
  <2>1. 1 \in DOMAIN call.pages
    BY <1>1 DEF Delivers, Calls
  <2>2. /\ call.pages[1] \in ToSet(call.pages)
        /\ \A p \in ToSet(call.pages) : p.kind # "notice" /\ p.trigger = t
    BY <2>1 DEF Delivers, EventPages, ToSet
  <2> QED
    BY <2>2 DEF Return
<1>3. Outcome' = Outcome \cup Of(t, made)
  <2>1. \A e \in ToSet(call.events) : e.kind = "step"
    BY DEF Holds, Steps, ToSet
  <2>2. Of(t, made) = ToSet(call.commands) \cup ToSet(call.events)
    BY DEF Holds
  <2> HIDE DEF ManagerInv
  <2> QED
    BY <1>1, <2>1, <2>2
<1>4. t \in Trigger /\ t \notin answered /\ t \notin fresh /\ t \notin failed
  BY DEF Underway
<1>5. \A i \in DOMAIN process' :
        \/ i \in DOMAIN process /\ process'[i] = process[i]
        \/ process'[i].trigger = t
  BY <1>1 DEF Holds
<1>6. WorldTyped'
  BY <1>1, <1>2, <1>4 DEF WorldTyped
<1>7. CallsSound'
  <2> SUFFICES ASSUME NEW other \in calls, other # call PROVE CallSound(other)'
    BY <1>1 DEF CallsSound
  <2>1. CallSound(other)
    BY DEF CallsSound
  <2>2. \A s \in Underway : Delivers(other, s) => s # t
    BY <1>4 DEF OneCallEach
  <2>3. \A s \in Underway : Delivers(other, s) => s \in Underway' /\ Of(s, made)' = Of(s, made)
    BY <1>1, <1>2, <2>2 DEF Underway, Of
  <2> QED
    BY <1>1, <1>4, <1>5, <2>1, <2>3, StillSound
<1>8. OneCallEach'
  BY <1>1 DEF OneCallEach, Delivers
<1>9. WholeOrNothing'
  <2> SUFFICES ASSUME NEW s \in Trigger
               PROVE  Of(s, Outcome') = IF s \in answered' THEN Of(s, made') ELSE {}
    BY DEF WholeOrNothing
  <2>1. Of(s, Outcome) = IF s \in answered THEN Of(s, made) ELSE {}
    BY DEF WholeOrNothing
  <2>2. Of(s, Outcome') = Of(s, Outcome) \cup {x \in Of(t, made) : x.trigger = s}
    BY <1>3 DEF Of
  <2>3. CASE s = t
    <3>1. {x \in Of(t, made) : x.trigger = s} = Of(t, made)
      BY <2>3 DEF Of
    <3> QED
      BY <1>1, <1>2, <1>4, <2>1, <2>2, <2>3, <3>1
  <2>4. CASE s # t
    <3>1. {x \in Of(t, made) : x.trigger = s} = {}
      BY <2>4 DEF Of
    <3> QED
      BY <1>1, <1>2, <2>1, <2>2, <2>4, <3>1
  <2> QED
    BY <2>3, <2>4
<1>10. EventsFollowPages'
  <2> SUFFICES ASSUME NEW i \in DOMAIN process', NEW j \in DOMAIN process', i < j,
                      process'[i].kind = "step", process'[j].kind = "step",
                      process'[i].trigger = process'[j].trigger
               PROVE  process'[i].page < process'[j].page
    BY DEF EventsFollowPages
  <2>1. DOMAIN process = 1..Len(process) /\ i \in Nat /\ j \in Nat
    BY <1>1 DEF WorldTyped
  <2>2. CASE i \in DOMAIN process /\ j \in DOMAIN process
    BY <1>1, <2>1, <2>2 DEF EventsFollowPages
  <2>3. CASE i \in DOMAIN process /\ j \notin DOMAIN process
    <3>1. process[i].kind = "step" /\ process[i].trigger = t
      BY <1>1, <1>5, <2>1, <2>3
    <3>2. process[i] \in Of(t, Outcome)
      BY <2>3, <3>1 DEF Of, Outcome, ToSet
    <3> QED
      BY <1>4, <3>2 DEF WholeOrNothing
  <2>4. CASE i \notin DOMAIN process
    <3>1. /\ i - Len(process) \in DOMAIN call.events /\ process'[i] = call.events[i - Len(process)]
          /\ j - Len(process) \in DOMAIN call.events /\ process'[j] = call.events[j - Len(process)]
      BY <1>1, <2>1, <2>4
    <3> QED
      BY <1>1, <2>1, <3>1 DEF Holds, InPageOrder
  <2> QED
    BY <2>2, <2>3, <2>4
<1> QED
  BY <1>6, <1>7, <1>8, <1>9, <1>10

-------------------------------------------------------------------------------
(* The invariant and what follows from it *)

LEMMA NextManager == ManagerInv /\ [Next]_vars => ManagerInv'
<1> SUFFICES ASSUME ManagerInv, [Next]_vars PROVE ManagerInv'
  OBVIOUS
<1>1. ASSUME NEW t \in Trigger, Deliver(t) PROVE ManagerInv'
  BY <1>1, DeliverStep
<1>2. CASE Notify
  BY <1>2, NotifyStep
<1>3. ASSUME NEW call \in calls, Return(call) PROVE ManagerInv'
  <2>1. ForNotices(call) \/ \E t \in Underway : Delivers(call, t) /\ Holds(call, t)
    BY DEF ManagerInv, CallsSound, CallSound
  <2> QED
    BY <1>3, <2>1, ReturnCompensations, ReturnTrigger
<1>4. CASE Proceed
  BY <1>3, <1>4, SkipStep, HandlePageStep, HandlerFailsStep, HandleRejectionStep DEF Proceed
<1>5. CASE Receive
  BY <1>5, ReceiveStep DEF Receive
<1>6. CASE UNCHANGED vars
  <2>1. /\ UNCHANGED <<fresh, calls, process, sent, log, returned, rejected, failed, answered, made>>
    BY <1>6 DEF vars, world, ghosts
  <2> QED
    BY <2>1
    DEF ManagerInv, WorldTyped, CallsSound, CallSound, OneCallEach, WholeOrNothing, EventsFollowPages,
        ForNotices, Holds, Underway, Delivers, Of, Outcome
<1> QED
  BY <1>1, <1>2, <1>4, <1>5, <1>6 DEF Next

LEMMA ManagerInvariant == Spec => []ManagerInv
BY InitManager, NextManager, PTL DEF Spec

\* The state keeps its types.
THEOREM ManagerTypeCorrect == Spec => []TypeOK
<1>1. ManagerInv => TypeOK
  <2> SUFFICES ASSUME ManagerInv PROVE TypeOK
    OBVIOUS
  <2>1. \A call \in calls : /\ call.at \in 1..Len(call.pages) + 1
                            /\ call.commands \in Seq(Command)
                            /\ call.state \in 0..Len(process)
    BY DEF ManagerInv, CallsSound, CallSound, Calls
  <2> QED
    BY <2>1 DEF ManagerInv, WorldTyped, TypeOK
<1> QED
  BY <1>1, ManagerInvariant, PTL

\* A trigger is handled as a whole (pm_oo.go: an error discards what the
\* earlier pages gave), whatever other calls do in between.
THEOREM TriggersWhole == Spec => []WholeOrNothing
<1>1. ManagerInv => WholeOrNothing
  BY DEF ManagerInv
<1> QED
  BY <1>1, ManagerInvariant, PTL

\* The process book tells the story of each trigger in the order of its pages.
THEOREM EventsOrdered == Spec => []EventsFollowPages
<1>1. ManagerInv => EventsFollowPages
  BY DEF ManagerInv
<1> QED
  BY <1>1, ManagerInvariant, PTL

\* A rejection handler sees all that was recorded together with the rejected
\* command.
THEOREM RejectionsSeeTheirCause == Spec => []RejectionSeesItsCause
<1>1. ManagerInv => RejectionSeesItsCause
  <2> SUFFICES ASSUME ManagerInv, NEW call \in calls, At(call, "notice"), NEW i \in DOMAIN process,
                      process[i].kind = "step",
                      process[i].trigger = call.pages[call.at].command.trigger
               PROVE  i <= call.state
    BY DEF RejectionSeesItsCause
  <2>1. ForNotices(call)
    BY WhichCall
  <2>2. call.at \in DOMAIN call.pages
    BY DEF At, ManagerInv, CallsSound, CallSound, Calls
  <2> QED
    BY <2>1, <2>2 DEF ForNotices
<1> QED
  BY <1>1, ManagerInvariant, PTL

-------------------------------------------------------------------------------
(* Locking *)

\* The stamp of a command for a root that is alone in its domain is the root's
\* own sequence at the moment the call was given its sequences.
Exact(c) == Alone(c.root) => c.seq = c.basis

\* A call's sequences are those of its moment, and so are its commands', until
\* a root accepts them.
Stamped ==
  /\ \A call \in calls :
       /\ \A r \in Root : Alone(r) /\ Home[r] \in Output => call.sequences[Home[r]] = call.basis[r]
       /\ \A i \in DOMAIN call.commands : Exact(call.commands[i])
  /\ \A c \in sent : Exact(c)
  /\ StampsLock

\* The sequences a call is given.
LEMMA HandleStamps ==
  ASSUME ManagerInv, Stamped, NEW pages, Handle(pages), UNCHANGED <<sent, log>>
  PROVE  Stamped'
<1>1. PICK sequences \in DestinationSequences :
        calls' = calls \cup {[pages |-> pages, at |-> 1, state |-> RebuildState,
                              sequences |-> sequences, basis |-> [r \in Root |-> NextSequence(r)],
                              commands |-> << >>, events |-> << >>]}
  BY DEF Handle
<1>2. PICK of \in [Output -> Root] : /\ \A d \in Output : Home[of[d]] = d
                                     /\ sequences = [d \in Output |-> NextSequence(of[d])]
  BY DEF DestinationSequences
<1> DEFINE call == [pages |-> pages, at |-> 1, state |-> RebuildState,
                    sequences |-> sequences, basis |-> [r \in Root |-> NextSequence(r)],
                    commands |-> << >>, events |-> << >>]
<1>3. ASSUME NEW r \in Root, Alone(r), Home[r] \in Output
      PROVE  call.sequences[Home[r]] = call.basis[r]
  <2>1. of[Home[r]] = r
    BY <1>2, <1>3 DEF Alone
  <2>2. sequences[Home[r]] = NextSequence(r)
    BY <1>2, <1>3, <2>1
  <2> QED
    BY <2>2
<1>4. call.commands = << >>
  OBVIOUS
<1>5. calls' = calls \cup {call}
  BY <1>1
<1> HIDE DEF call
<1> QED
  BY <1>3, <1>4, <1>5 DEF Stamped, StampsLock

\* The stamps of a call stay what they were.
LEMMA StampsStay ==
  ASSUME Stamped, NEW call \in calls, NEW changed, Goes(call, changed), UNCHANGED world,
         changed.sequences = call.sequences, changed.basis = call.basis,
         \A i \in DOMAIN changed.commands : Exact(changed.commands[i])
  PROVE  Stamped'
BY DEF Stamped, StampsLock, Goes, world

LEMMA HandlePageStamps ==
  ASSUME ManagerInv, Stamped, NEW call \in calls, HandlePage(call)
  PROVE  Stamped'
<1>1. PICK targets \in BoundedSeq({r \in Root : Home[r] \in Output}, MaxCommands) :
      \E records \in BOOLEAN :
        LET steps == IF records THEN <<Step(call.pages[call.at])>> ELSE << >>
            commands == Commands(call, targets)
        IN  /\ At(call, "handled")
            /\ Goes(call, [call EXCEPT !.at = @ + 1, !.commands = @ \o commands,
                                       !.events = @ \o steps])
            /\ UNCHANGED world
  BY DEF HandlePage
<1>2. PICK steps : /\ Goes(call, [call EXCEPT !.at = @ + 1, !.commands = @ \o Commands(call, targets),
                                              !.events = @ \o steps])
                   /\ UNCHANGED world /\ At(call, "handled")
  BY <1>1
<1> DEFINE commands == Commands(call, targets)
           changed == [call EXCEPT !.at = @ + 1, !.commands = @ \o commands, !.events = @ \o steps]
<1>3. PICK t \in Underway : Delivers(call, t)
  BY <1>2, WhichCall
<1>4. commands \in Seq(Command)
  BY <1>2, <1>3, CommandsTyped DEF At, Underway
<1>5. PICK m \in 0..MaxCommands : targets \in [1..m -> {r \in Root : Home[r] \in Output}]
  BY DEF BoundedSeq, SeqOf
<1>6. \A n \in DOMAIN commands : Exact(commands[n])
  <2>1. /\ DOMAIN commands = 1..m
        /\ \A n \in 1..m : /\ commands[n].root = targets[n] /\ commands[n].seq = Stamp(call, targets[n])
                           /\ commands[n].basis = call.basis[targets[n]]
    BY <1>5 DEF Commands
  <2>2. \A n \in 1..m : Alone(targets[n]) => Stamp(call, targets[n]) = call.basis[targets[n]]
    BY <1>5 DEF Stamp, Stamped
  <2> QED
    BY <2>1, <2>2 DEF Exact
<1>7. call \in Calls /\ call.commands \in Seq(Command)
  BY DEF ManagerInv, CallsSound, CallSound, Calls
<1> HIDE DEF commands
<1>8. /\ changed.sequences = call.sequences /\ changed.basis = call.basis
      /\ changed.commands = call.commands \o commands
  BY <1>7 DEF Calls
<1>9. Goes(call, changed)
  BY <1>2 DEF commands
<1> HIDE DEF changed
<1>10. \A i \in DOMAIN changed.commands : Exact(changed.commands[i])
  <2> SUFFICES ASSUME NEW i \in DOMAIN (call.commands \o commands)
               PROVE  Exact((call.commands \o commands)[i])
    BY <1>8
  <2>1. \/ i \in DOMAIN call.commands /\ (call.commands \o commands)[i] = call.commands[i]
        \/ /\ i > Len(call.commands) /\ i - Len(call.commands) \in DOMAIN commands
           /\ (call.commands \o commands)[i] = commands[i - Len(call.commands)]
    BY <1>4, <1>7, Concat
  <2> QED
    BY <1>6, <2>1 DEF Stamped
<1> QED
  BY <1>2, <1>8, <1>9, <1>10, StampsStay

\* A root accepts a command only at the place its stamp says.
LEMMA AcceptStamps ==
  ASSUME ManagerInv, Stamped, NEW c \in sent, Accept(c)
  PROVE  Stamped'
<1>1. /\ c.seq = Len(log[c.root]) /\ log' = [log EXCEPT ![c.root] = Append(@, c)]
      /\ calls' = calls /\ sent' = sent \ {c} /\ (Alone(c.root) => c.basis = c.seq)
  BY DEF Accept, NextSequence, Stamped, Exact
<1>2. /\ log \in [Root -> Seq(Command)] /\ c.root \in Root /\ log[c.root] \in Seq(Command)
      /\ c \in Command
  BY DEF ManagerInv, WorldTyped, Command
<1>3. /\ log'[c.root] = Append(log[c.root], c)
      /\ \A r \in Root \ {c.root} : log'[r] = log[r]
  BY <1>1, <1>2
<1>4. /\ Len(log[c.root]) \in Nat
      /\ DOMAIN Append(log[c.root], c) = 1..Len(log[c.root]) + 1
      /\ \A i \in 1..Len(log[c.root]) : Append(log[c.root], c)[i] = log[c.root][i]
      /\ Append(log[c.root], c)[Len(log[c.root]) + 1] = c
      /\ DOMAIN log[c.root] = 1..Len(log[c.root])
  BY <1>2, AppendProperties
<1>5. ASSUME NEW r \in Root, Alone(r), NEW i \in DOMAIN log'[r]
      PROVE  log'[r][i].basis = i - 1
  <2>1. CASE r # c.root
    BY <1>3, <1>5, <2>1 DEF Stamped, StampsLock
  <2>2. CASE r = c.root /\ i \in 1..Len(log[c.root])
    BY <1>3, <1>4, <1>5, <2>2 DEF Stamped, StampsLock
  <2>3. CASE r = c.root /\ i = Len(log[c.root]) + 1
    BY <1>1, <1>3, <1>4, <1>5, <2>3
  <2> QED
    BY <1>3, <1>4, <1>5, <2>1, <2>2, <2>3
<1> QED
  BY <1>1, <1>5 DEF Stamped, StampsLock

LEMMA NextStamps == ManagerInv /\ Stamped /\ [Next]_vars => Stamped'
<1> SUFFICES ASSUME ManagerInv, Stamped, [Next]_vars PROVE Stamped'
  OBVIOUS
<1>1. ASSUME NEW t \in Trigger, Deliver(t) PROVE Stamped'
  BY <1>1, HandleStamps DEF Deliver, world
<1>2. CASE Notify
  BY <1>2, HandleStamps DEF Notify
<1>3. ASSUME NEW call \in calls, SkipPage(call) PROVE Stamped'
  <2> DEFINE changed == [call EXCEPT !.at = @ + 1]
  <2>1. call \in Calls /\ Goes(call, changed) /\ UNCHANGED world
    BY <1>3 DEF SkipPage, ManagerInv, CallsSound, CallSound
  <2>2. /\ changed.sequences = call.sequences /\ changed.basis = call.basis
        /\ changed.commands = call.commands
    BY <2>1 DEF Calls
  <2> HIDE DEF changed
  <2> QED
    BY <2>1, <2>2, StampsStay DEF Stamped
<1>4. ASSUME NEW call \in calls, HandleRejection(call) PROVE Stamped'
  <2> DEFINE compensation == Compensation(call.pages[call.at].command)
             changed == [call EXCEPT !.at = @ + 1, !.events = Append(@, compensation)]
  <2>1. call \in Calls /\ Goes(call, changed) /\ UNCHANGED world
    BY <1>4 DEF HandleRejection, ManagerInv, CallsSound, CallSound
  <2> HIDE DEF compensation
  <2>2. /\ changed.sequences = call.sequences /\ changed.basis = call.basis
        /\ changed.commands = call.commands
    BY <2>1 DEF Calls
  <2> HIDE DEF changed
  <2> QED
    BY <2>1, <2>2, StampsStay DEF Stamped
<1>5. ASSUME NEW call \in calls, HandlerFails(call) PROVE Stamped'
  BY <1>5 DEF HandlerFails, world, Stamped, StampsLock
<1>6. ASSUME NEW call \in calls, Return(call) PROVE Stamped'
  <2>1. \A c \in ToSet(call.commands) : Exact(c)
    BY DEF Stamped, ToSet
  <2> QED
    BY <1>6, <2>1 DEF Return, Stamped, StampsLock
<1>7. CASE Proceed
  BY <1>3, <1>4, <1>5, <1>6, <1>7, HandlePageStamps DEF Proceed
<1>8. ASSUME NEW c \in sent, Reject(c) PROVE Stamped'
  BY <1>8 DEF Reject, Stamped, StampsLock
<1>9. CASE Receive
  BY <1>8, <1>9, AcceptStamps DEF Receive
<1>10. CASE UNCHANGED vars
  BY <1>10 DEF vars, world, Stamped, StampsLock
<1> QED
  BY <1>1, <1>2, <1>7, <1>9, <1>10 DEF Next

\* A root that is alone in its domain accepts a command only if it has not
\* changed since the command's call was given the sequences.
THEOREM StampsAreLocks == Spec => []StampsLock
<1>1. Init => Stamped
  BY DEF Init, Stamped, StampsLock
<1>2. ManagerInv /\ Stamped /\ [Next]_vars => Stamped'
  BY NextStamps
<1>3. Stamped => StampsLock
  BY DEF Stamped
<1> QED
  BY <1>1, <1>2, <1>3, ManagerInvariant, PTL DEF Spec

-------------------------------------------------------------------------------
(* One compensation for each rejection *)

\* No compensation is in a sequence twice.
Single(s) == \A i, j \in DOMAIN s : s[i] = s[j] /\ s[i].kind = "compensation" => i = j

InCall(call, c) == NoticePage(c) \in ToSet(call.pages)

\* A call has decided, once, on each Notification it has passed whose handler
\* is registered, and what it is given is rejected and not to be given again.
Settles(call) ==
  /\ \A i, j \in DOMAIN call.pages :
       call.pages[i] = call.pages[j] /\ call.pages[i].kind = "notice" => i = j
  /\ Single(call.events)
  /\ \A c : Compensation(c) \in ToSet(call.events) <=>
              \E i \in DOMAIN call.pages :
                i < call.at /\ call.pages[i] = NoticePage(c) /\ Records(c)
  /\ \A c : InCall(call, c) => c \in rejected \ returned

\* The calls share no Notification, and the book has the decisions of all calls
\* that were answered.
CompensatedInv ==
  /\ sent \cap rejected = {}
  /\ \A call \in calls : Settles(call)
  /\ \A x, y \in calls : \A c : InCall(x, c) /\ InCall(y, c) => x = y
  /\ Single(process)
  /\ \A c : Compensation(c) \in ToSet(process) <=>
              c \in rejected /\ Records(c) /\ c \notin returned /\ ~Taken(c)

\* What the definitions say, without quantifying over calls.
LEMMA TakenBy ==
  ASSUME NEW c
  PROVE  /\ Taken(c) <=> \E call \in calls : InCall(call, c)
         /\ Taken(c)' <=> \E call \in calls' : InCall(call, c)
BY DEF Taken, InCall

LEMMA SameCompensation ==
  ASSUME NEW c, NEW d, Compensation(c) = Compensation(d)
  PROVE  c = d
<1>1. Compensation(c).command = c /\ Compensation(d).command = d
  BY DEF Compensation
<1> QED
  BY <1>1

LEMMA SameNotice ==
  ASSUME NEW c, NEW d, NoticePage(c) = NoticePage(d)
  PROVE  c = d
<1>1. NoticePage(c).command = c /\ NoticePage(d).command = d
  BY DEF NoticePage
<1> QED
  BY <1>1

\* A call for a trigger has nothing to do with Notifications.
LEMMA TriggersApart ==
  ASSUME NEW call, NEW t, Delivers(call, t)
  PROVE  \A c : ~InCall(call, c)
<1> SUFFICES ASSUME NEW c, InCall(call, c) PROVE FALSE
  OBVIOUS
<1>1. PICK i \in DOMAIN call.pages : call.pages[i] = NoticePage(c)
  BY DEF InCall, ToSet
<1>2. call.pages[i].kind = "notice" /\ call.pages[i] \in EventPages
  BY <1>1 DEF NoticePage, Delivers
<1> QED
  BY <1>2 DEF EventPages

\* A call that goes on with the pages it has.
LEMMA DecisionsGoOn ==
  ASSUME CompensatedInv, NEW call \in calls, NEW changed, Goes(call, changed), UNCHANGED world,
         changed.pages = call.pages, Settles(changed)
  PROVE  CompensatedInv'
<1>1. /\ calls' = (calls \ {call}) \cup {changed}
      /\ UNCHANGED <<process, sent, returned, rejected>>
  BY DEF Goes, world
<1>2. \A c : InCall(changed, c) <=> InCall(call, c)
  BY DEF InCall
<1>3. \A c : Taken(c)' <=> Taken(c)
  BY <1>1, <1>2, TakenBy
<1>4. \A x \in calls' : Settles(x)'
  <2> SUFFICES ASSUME NEW x \in calls' PROVE Settles(x)'
    OBVIOUS
  <2>1. Settles(x)
    BY <1>1 DEF CompensatedInv
  <2> QED
    BY <1>1, <2>1 DEF Settles
<1>5. (\A x, y \in calls : \A c : InCall(x, c) /\ InCall(y, c) => x = y)'
  <2> SUFFICES ASSUME NEW x \in calls', NEW y \in calls', NEW c, InCall(x, c), InCall(y, c)
               PROVE  x = y
    BY DEF InCall
  <2> QED
    BY <1>1, <1>2 DEF CompensatedInv
<1>6. /\ (sent \cap rejected = {})' /\ Single(process)'
      /\ (\A c : Compensation(c) \in ToSet(process) <=>
            c \in rejected /\ Records(c) /\ c \notin returned /\ ~Taken(c))'
  BY <1>1, <1>3 DEF CompensatedInv
<1> QED
  BY <1>4, <1>5, <1>6 DEF CompensatedInv

LEMMA SkipDecides ==
  ASSUME ManagerInv, CompensatedInv, NEW call \in calls, SkipPage(call)
  PROVE  CompensatedInv'
<1> DEFINE changed == [call EXCEPT !.at = @ + 1]
<1>1. call \in Calls /\ call.at \in Nat /\ Settles(call) /\ call.pages \in Seq(EventPages \cup NoticePages)
  BY DEF ManagerInv, CallsSound, CallSound, CompensatedInv, Calls
<1>2. /\ Goes(call, changed) /\ UNCHANGED world
      /\ call.pages[call.at].kind = "notice" => ~Records(call.pages[call.at].command)
  BY DEF SkipPage, At
<1>3. changed.pages = call.pages /\ changed.at = call.at + 1 /\ changed.events = call.events
  BY <1>1 DEF Calls
<1> HIDE DEF changed
<1>4. Settles(changed)
  <2>1. ASSUME NEW c, NEW i \in DOMAIN call.pages, i < call.at + 1,
               call.pages[i] = NoticePage(c), Records(c)
        PROVE  i < call.at
    <3>1. NoticePage(c).kind = "notice" /\ NoticePage(c).command = c
      BY DEF NoticePage
    <3>2. i # call.at
      BY <1>2, <2>1, <3>1
    <3>3. i \in Nat
      BY <1>1
    <3> QED
      BY <1>1, <2>1, <3>2, <3>3
  <2>2. \A i \in DOMAIN call.pages : i \in Nat /\ (i < call.at => i < call.at + 1)
    BY <1>1
  <2> QED
    BY <1>1, <1>3, <2>1, <2>2 DEF Settles, InCall
<1> QED
  BY <1>2, <1>3, <1>4, DecisionsGoOn

LEMMA HandlePageDecides ==
  ASSUME ManagerInv, CompensatedInv, NEW call \in calls, HandlePage(call)
  PROVE  CompensatedInv'
<1>1. PICK targets \in BoundedSeq({r \in Root : Home[r] \in Output}, MaxCommands) :
      \E records \in BOOLEAN :
        LET steps == IF records THEN <<Step(call.pages[call.at])>> ELSE << >>
            commands == Commands(call, targets)
        IN  /\ At(call, "handled")
            /\ Goes(call, [call EXCEPT !.at = @ + 1, !.commands = @ \o commands,
                                       !.events = @ \o steps])
            /\ UNCHANGED world
  BY DEF HandlePage
<1> DEFINE page == call.pages[call.at]
           commands == Commands(call, targets)
<1>9. PICK steps \in {<<Step(page)>>, << >>} :
        /\ At(call, "handled") /\ UNCHANGED world
        /\ Goes(call, [call EXCEPT !.at = @ + 1, !.commands = @ \o commands,
                                   !.events = @ \o steps])
  BY <1>1
<1> DEFINE changed == [call EXCEPT !.at = @ + 1, !.commands = @ \o commands, !.events = @ \o steps]
<1>2. /\ call \in Calls /\ call.at \in Nat /\ Settles(call)
      /\ call.pages \in Seq(EventPages \cup NoticePages) /\ call.events \in Seq(Steps \cup Compensating)
  BY DEF ManagerInv, CallsSound, CallSound, CompensatedInv, Calls
<1>3. PICK t \in Underway : Delivers(call, t) /\ Holds(call, t)
  BY <1>9, WhichCall
<1>4. Goes(call, changed) /\ UNCHANGED world
  BY <1>9
<1>5. steps \in Seq({Step(page)})
  <2>1. CASE steps = << >>
    BY <2>1
  <2>2. CASE steps = <<Step(page)>>
    BY <2>2
  <2> QED
    BY <1>9, <2>1, <2>2
<1> HIDE DEF commands, page
<1>6. /\ changed.pages = call.pages /\ changed.at = call.at + 1
      /\ changed.events = call.events \o steps
  BY <1>2 DEF Calls
<1> HIDE DEF changed
<1>7. \A e \in ToSet(call.events \o steps) : e.kind = "step"
  <2>1. call.events \in Seq({e \in Steps \cup Compensating : e.kind = "step"} \cup {Step(page)})
    <3>1. \A i \in DOMAIN call.events : call.events[i] \in Steps /\ call.events[i].kind = "step"
      BY <1>3 DEF Holds, Steps
    <3> QED
      BY <1>2, <3>1
  <2>2. Step(page).kind = "step"
    BY DEF Step
  <2>3. ToSet(call.events \o steps) \subseteq
          {e \in Steps \cup Compensating : e.kind = "step"} \cup {Step(page)}
    <3>1. steps \in Seq({e \in Steps \cup Compensating : e.kind = "step"} \cup {Step(page)})
      BY <1>5
    <3> QED
      BY <2>1, <3>1, ConcatSet, FiniteRange
  <2> QED
    BY <2>2, <2>3
<1>8. Settles(changed)
  <2>1. Single(changed.events)
    <3>1. \A i \in DOMAIN changed.events : changed.events[i].kind = "step"
      BY <1>6, <1>7 DEF ToSet
    <3> QED
      BY <3>1 DEF Single
  <2>2. \A c : Compensation(c) \notin ToSet(changed.events)
    BY <1>6, <1>7 DEF Compensation
  <2>3. \A c : ~InCall(call, c)
    BY <1>3, TriggersApart
  <2>4. \A c : \A i \in DOMAIN call.pages : call.pages[i] # NoticePage(c)
    BY <2>3 DEF InCall, ToSet
  <2> QED
    BY <1>2, <1>6, <2>1, <2>2, <2>3, <2>4 DEF Settles, InCall
<1> QED
  BY <1>4, <1>6, <1>8, DecisionsGoOn

LEMMA HandleRejectionDecides ==
  ASSUME ManagerInv, CompensatedInv, NEW call \in calls, HandleRejection(call)
  PROVE  CompensatedInv'
<1> DEFINE d == call.pages[call.at].command
           changed == [call EXCEPT !.at = @ + 1, !.events = Append(@, Compensation(d))]
<1>1. /\ Goes(call, changed) /\ UNCHANGED world
      /\ At(call, "notice") /\ Records(d)
  BY DEF HandleRejection
<1>2. /\ call \in Calls /\ call.at \in Nat /\ Settles(call) /\ ForNotices(call)
      /\ call.at \in 1..Len(call.pages) + 1
      /\ call.pages \in Seq(EventPages \cup NoticePages) /\ call.events \in Seq(Steps \cup Compensating)
  BY <1>1, WhichCall DEF ManagerInv, CallsSound, CallSound, CompensatedInv, Calls
<1>3. call.at \in DOMAIN call.pages
  BY <1>1, <1>2 DEF At
<1>4. call.pages[call.at] = NoticePage(d)
  BY <1>2, <1>3 DEF ForNotices, NoticePages, NoticePage
<1>5. Compensation(d) \notin ToSet(call.events)
  <2> SUFFICES ASSUME NEW i \in DOMAIN call.pages, i < call.at, call.pages[i] = NoticePage(d)
               PROVE  FALSE
    BY <1>2 DEF Settles
  <2>1. call.pages[i] = call.pages[call.at] /\ call.pages[i].kind = "notice"
    BY <1>4 DEF NoticePage
  <2>2. i = call.at
    BY <1>2, <1>3, <2>1 DEF Settles
  <2> QED
    BY <1>2, <2>2
<1>6. /\ changed.pages = call.pages /\ changed.at = call.at + 1
      /\ changed.events = Append(call.events, Compensation(d))
  BY <1>2 DEF Calls
<1>7. Records(d)
  BY <1>1
<1> HIDE DEF changed, d
<1> DEFINE events == Append(call.events, Compensation(d))
           n == Len(call.events) + 1
<1>8. /\ DOMAIN events = 1..n /\ events[n] = Compensation(d) /\ DOMAIN call.events = 1..(n - 1)
      /\ \A i \in 1..(n - 1) : events[i] = call.events[i]
      /\ n \in Nat /\ n >= 1
  BY <1>2
<1> HIDE DEF events, n
<1>9. Single(events)
  <2> SUFFICES ASSUME NEW i \in 1..n, NEW j \in 1..n, events[i] = events[j],
                      events[i].kind = "compensation"
               PROVE  i = j
    BY <1>8 DEF Single
  <2>1. \A k \in 1..(n - 1) : events[k] # Compensation(d)
    BY <1>5, <1>8 DEF ToSet
  <2>2. CASE i = n \/ j = n
    BY <1>8, <2>1, <2>2
  <2>3. CASE i # n /\ j # n
    <3>1. i \in 1..(n - 1) /\ j \in 1..(n - 1)
      BY <1>8, <2>3
    <3> QED
      BY <1>2, <1>8, <3>1 DEF Settles, Single
  <2> QED
    BY <2>2, <2>3
<1>10. \A e : e \in ToSet(events) <=> e \in ToSet(call.events) \/ e = Compensation(d)
  <2>1. 1..n = 1..(n - 1) \cup {n}
    BY <1>8
  <2> QED
    BY <1>8, <2>1 DEF ToSet
<1>11. ASSUME NEW c
       PROVE  Compensation(c) \in ToSet(events) <=>
                \E i \in DOMAIN call.pages :
                  i < call.at + 1 /\ call.pages[i] = NoticePage(c) /\ Records(c)
  <2>1. Compensation(c) \in ToSet(events) <=> Compensation(c) \in ToSet(call.events) \/ c = d
    BY <1>10, SameCompensation
  <2>2. Compensation(c) \in ToSet(call.events) <=>
          \E i \in DOMAIN call.pages :
            i < call.at /\ call.pages[i] = NoticePage(c) /\ Records(c)
    BY <1>2 DEF Settles
  <2>3. \A i \in DOMAIN call.pages : i < call.at + 1 <=> i < call.at \/ i = call.at
    BY <1>2
  <2>4. call.pages[call.at] = NoticePage(c) <=> c = d
    BY <1>4, SameNotice
  <2> QED
    BY <1>3, <1>7, <2>1, <2>2, <2>3, <2>4
<1>12. Settles(changed)
  BY <1>2, <1>6, <1>9, <1>11 DEF Settles, InCall, events
<1> QED
  BY <1>1, <1>6, <1>12, DecisionsGoOn

\* A call that ends in an error was one for a trigger.
LEMMA HandlerFailsDecides ==
  ASSUME ManagerInv, CompensatedInv, NEW call \in calls, HandlerFails(call)
  PROVE  CompensatedInv'
<1>1. PICK t \in Underway : Delivers(call, t)
  BY WhichCall DEF HandlerFails
<1>2. UNCHANGED <<process, sent, returned, rejected>> /\ calls' = calls \ {call}
  BY DEF HandlerFails, world
<1>3. \A c : Taken(c)' <=> Taken(c)
  BY <1>1, <1>2, TakenBy, TriggersApart
<1>4. \A x \in calls' : Settles(x)'
  BY <1>2 DEF CompensatedInv, Settles
<1>5. (\A x, y \in calls : \A c : InCall(x, c) /\ InCall(y, c) => x = y)'
  BY <1>2 DEF CompensatedInv, InCall
<1>6. /\ (sent \cap rejected = {})' /\ Single(process)'
      /\ (\A c : Compensation(c) \in ToSet(process) <=>
            c \in rejected /\ Records(c) /\ c \notin returned /\ ~Taken(c))'
  BY <1>2, <1>3 DEF CompensatedInv
<1> QED
  BY <1>4, <1>5, <1>6 DEF CompensatedInv

\* What a call sends was not rejected before: its trigger was not answered.
LEMMA NothingRejectedSent ==
  ASSUME ManagerInv, NEW call \in calls, NEW c \in ToSet(call.commands)
  PROVE  c \notin rejected
<1>1. CASE ForNotices(call)
  BY <1>1 DEF ForNotices, ToSet
<1>2. CASE \E t \in Underway : Delivers(call, t) /\ Holds(call, t)
  <2>1. c.trigger \in Underway
    BY <1>2 DEF Holds, ToSet
  <2> QED
    BY <2>1, RejectedAnswered DEF ManagerInv, Underway
<1> QED
  BY <1>1, <1>2 DEF ManagerInv, CallsSound, CallSound

\* An answer writes down what its call decided, and lets go of its pages.
LEMMA ReturnDecides ==
  ASSUME ManagerInv, CompensatedInv, NEW call \in calls, Return(call)
  PROVE  CompensatedInv'
<1>1. /\ UNCHANGED <<rejected, returned>>
      /\ calls' = calls \ {call} /\ sent' = sent \cup ToSet(call.commands)
      /\ call \in Calls /\ Len(process) \in Nat
      /\ process' \in Seq(Steps \cup Compensating)
      /\ ToSet(process') = ToSet(process) \cup ToSet(call.events)
      /\ \A i \in DOMAIN process' :
           \/ i \in DOMAIN process /\ process'[i] = process[i]
           \/ /\ i > Len(process) /\ i - Len(process) \in DOMAIN call.events
              /\ process'[i] = call.events[i - Len(process)]
  BY ReturnAdds
<1>2. /\ Settles(call) /\ Single(process) /\ sent \cap rejected = {}
      /\ \A x, y \in calls : \A c : InCall(x, c) /\ InCall(y, c) => x = y
  BY DEF CompensatedInv
<1>3. \A c : Compensation(c) \in ToSet(process) <=>
               c \in rejected /\ Records(c) /\ c \notin returned /\ ~Taken(c)
  BY DEF CompensatedInv
<1>4. ASSUME NEW c
      PROVE  /\ Taken(c) <=> Taken(c)' \/ InCall(call, c)
             /\ ~(Taken(c)' /\ InCall(call, c))
  BY <1>1, <1>2, TakenBy
<1>5. ASSUME NEW c
      PROVE  Compensation(c) \in ToSet(call.events) <=> InCall(call, c) /\ Records(c)
  <2>1. \A i \in DOMAIN call.pages : i < call.at
    BY <1>1 DEF Return, Calls
  <2>2. Compensation(c) \in ToSet(call.events) <=>
          \E i \in DOMAIN call.pages : i < call.at /\ call.pages[i] = NoticePage(c) /\ Records(c)
    BY <1>2 DEF Settles
  <2>3. InCall(call, c) <=> \E i \in DOMAIN call.pages : call.pages[i] = NoticePage(c)
    BY DEF InCall, ToSet
  <2> QED
    BY <2>1, <2>2, <2>3
<1>6. ASSUME NEW c
      PROVE  Compensation(c) \in ToSet(process') <=>
               c \in rejected' /\ Records(c) /\ c \notin returned' /\ ~Taken(c)'
  <2>1. Compensation(c) \in ToSet(process') <=>
          Compensation(c) \in ToSet(process) \/ Compensation(c) \in ToSet(call.events)
    BY <1>1
  <2>2. InCall(call, c) => c \in rejected /\ c \notin returned
    BY <1>2 DEF Settles
  <2> QED
    BY <1>1, <1>3, <1>4, <1>5, <2>1, <2>2
<1>7. \A e \in ToSet(call.events) : e.kind = "compensation" => e \notin ToSet(process)
  <2> SUFFICES ASSUME NEW e \in ToSet(call.events), e.kind = "compensation" PROVE e \notin ToSet(process)
    OBVIOUS
  <2>1. e \in Steps \cup Compensating
    BY <1>1, FiniteRange DEF Calls
  <2>2. e = Compensation(e.command)
    BY <2>1 DEF Steps, Compensating, Compensation
  <2>3. InCall(call, e.command)
    BY <1>5, <2>2
  <2> QED
    BY <1>3, <1>4, <2>2, <2>3
<1>8. Single(process')
  <2> SUFFICES ASSUME NEW i \in DOMAIN process', NEW j \in DOMAIN process', process'[i] = process'[j],
                      process'[i].kind = "compensation"
               PROVE  i = j
    BY DEF Single
  <2>1. i \in Nat /\ j \in Nat
    BY <1>1
  <2>2. \A k \in DOMAIN process : process[k] \in ToSet(process)
    BY DEF ToSet
  <2>3. \A k \in DOMAIN call.events : call.events[k] \in ToSet(call.events)
    BY DEF ToSet
  <2>4. CASE i \in DOMAIN process /\ process'[i] = process[i]
    <3>1. j \in DOMAIN process /\ process'[j] = process[j]
      BY <1>1, <1>7, <2>2, <2>3, <2>4
    <3> QED
      BY <1>2, <2>4, <3>1 DEF Single
  <2>5. CASE /\ i > Len(process) /\ i - Len(process) \in DOMAIN call.events
             /\ process'[i] = call.events[i - Len(process)]
    <3>1. /\ j > Len(process) /\ j - Len(process) \in DOMAIN call.events
          /\ process'[j] = call.events[j - Len(process)]
      BY <1>1, <1>7, <2>2, <2>3, <2>5
    <3>2. i - Len(process) = j - Len(process)
      BY <1>2, <2>5, <3>1 DEF Settles, Single
    <3> QED
      BY <1>1, <2>1, <3>2
  <2> QED
    BY <1>1, <2>4, <2>5
<1>9. sent' \cap rejected' = {}
  BY <1>1, <1>2, NothingRejectedSent
<1>10. \A x \in calls' : Settles(x)'
  BY <1>1 DEF CompensatedInv, Settles
<1>11. (\A x, y \in calls : \A c : InCall(x, c) /\ InCall(y, c) => x = y)'
  BY <1>1 DEF CompensatedInv, InCall
<1>12. Single(process)'
  BY <1>8 DEF Single
<1> QED
  BY <1>6, <1>9, <1>10, <1>11, <1>12 DEF CompensatedInv

\* A new call takes the Notifications it is given from those on their way back.
LEMMA NewDecides ==
  ASSUME ManagerInv, CompensatedInv, NEW call, calls' = calls \cup {call},
         call.pages \in Seq(EventPages \cup NoticePages), call.at = 1, call.events = << >>,
         UNCHANGED <<process, sent, rejected>>,
         \A i, j \in DOMAIN call.pages :
           call.pages[i] = call.pages[j] /\ call.pages[i].kind = "notice" => i = j,
         \A c : c \in returned <=> c \in returned' \/ InCall(call, c),
         \A c : InCall(call, c) => c \notin returned'
  PROVE  CompensatedInv'
<1>1. \A c : InCall(call, c) => c \in rejected /\ ~Taken(c)
  BY TakenBy DEF ManagerInv, WorldTyped, CompensatedInv, Settles
<1>2. \A c : Taken(c)' <=> Taken(c) \/ InCall(call, c)
  BY TakenBy
<1>3. Settles(call)'
  <2>1. Single(call.events) /\ \A c : Compensation(c) \notin ToSet(call.events)
    BY DEF Single, ToSet
  <2>2. \A i \in DOMAIN call.pages : ~(i < call.at)
    OBVIOUS
  <2> QED
    BY <1>1, <2>1, <2>2 DEF Settles
<1>4. ASSUME NEW x \in calls PROVE Settles(x)'
  BY DEF CompensatedInv, Settles
<1>5. \A x \in calls' : Settles(x)'
  BY <1>3, <1>4
<1>6. (\A x, y \in calls : \A c : InCall(x, c) /\ InCall(y, c) => x = y)'
  <2> SUFFICES ASSUME NEW x \in calls', NEW y \in calls', NEW c, InCall(x, c), InCall(y, c)
               PROVE  x = y
    BY DEF InCall
  <2>1. \A z \in calls : InCall(z, c) => ~InCall(call, c)
    BY <1>1, TakenBy
  <2> QED
    BY <2>1 DEF CompensatedInv
<1>7. /\ (sent \cap rejected = {})' /\ Single(process)'
  BY DEF CompensatedInv
<1>8. (\A c : Compensation(c) \in ToSet(process) <=>
         c \in rejected /\ Records(c) /\ c \notin returned /\ ~Taken(c))'
  BY <1>2 DEF CompensatedInv
<1> QED
  BY <1>5, <1>6, <1>7, <1>8 DEF CompensatedInv

LEMMA DeliverDecides ==
  ASSUME ManagerInv, CompensatedInv, NEW t \in Trigger, Deliver(t)
  PROVE  CompensatedInv'
<1>1. PICK kinds \in BoundedSeq({"handled", "other"}, MaxPages) \ {<< >>} :
        /\ Handle([i \in DOMAIN kinds |-> EventPage(t, i, kinds[i])])
        /\ UNCHANGED world
  BY DEF Deliver
<1> DEFINE pages == [i \in DOMAIN kinds |-> EventPage(t, i, kinds[i])]
<1>2. PICK m \in 0..MaxPages : kinds \in [1..m -> {"handled", "other"}]
  BY DEF BoundedSeq, SeqOf
<1>3. m \in Nat /\ 1..m \subseteq 1..MaxPages
  BY ProcessManagerAssumption
<1>4. pages \in Seq(EventPages \cup NoticePages)
  <2>1. ASSUME NEW i \in 1..m PROVE EventPage(t, i, kinds[i]) \in EventPages
    <3>1. kinds[i] \in {"handled", "other"} /\ i \in 1..MaxPages
      BY <1>2, <1>3
    <3> QED
      BY <3>1 DEF EventPage, EventPages
  <2> QED
    BY <1>2, <1>3, <2>1
<1>5. \A i \in DOMAIN pages : pages[i].kind # "notice"
  BY <1>2 DEF EventPage
<1>6. Handle(pages)
  BY <1>1
<1> HIDE DEF pages
<1>7. PICK call : /\ calls' = calls \cup {call} /\ call.pages = pages /\ call.at = 1
                  /\ call.events = << >>
  BY <1>4, <1>6, NewCall
<1>8. \A c : ~InCall(call, c)
  BY <1>5, <1>7 DEF InCall, NoticePage, ToSet
<1>9. UNCHANGED <<process, sent, returned, rejected>>
  BY <1>1 DEF world
<1> QED
  BY <1>4, <1>5, <1>7, <1>8, <1>9, NewDecides

\* Every Notification of the chosen set is a page of the call, exactly once.
LEMMA NotifyDecides ==
  ASSUME ManagerInv, CompensatedInv, Notify
  PROVE  CompensatedInv'
<1>1. PICK cs \in SUBSET returned :
        /\ returned' = returned \ cs
        /\ \E order \in SetToSeqs(cs) : Handle([i \in DOMAIN order |-> NoticePage(order[i])])
        /\ UNCHANGED <<process, sent, rejected>>
  BY DEF Notify
<1>2. PICK order \in SetToSeqs(cs) : Handle([i \in DOMAIN order |-> NoticePage(order[i])])
  BY <1>1
<1> DEFINE pages == [i \in DOMAIN order |-> NoticePage(order[i])]
           n == Cardinality(cs)
<1>3. /\ IsFiniteSet(cs) /\ n \in Nat
      /\ order \in [1..n -> cs] /\ \A i, j \in 1..n : i # j => order[i] # order[j]
  BY FS_Subset, FS_CardinalityType DEF ManagerInv, WorldTyped, SetToSeqs
<1>4. \A c \in cs : \E i \in 1..n : order[i] = c
  <2>1. order \in Injection(1..n, cs)
    BY <1>3 DEF Injection, IsInjective
  <2>2. IsFiniteSet(1..n) /\ Cardinality(1..n) = n
    BY <1>3, FS_Interval
  <2>3. order \in Surjection(1..n, cs)
    BY <1>3, <2>1, <2>2, FS_Injection
  <2> QED
    BY <2>3 DEF Surjection
<1> HIDE DEF n
<1>5. /\ pages \in Seq(EventPages \cup NoticePages) /\ DOMAIN pages = 1..n
      /\ \A i \in 1..n : pages[i] = NoticePage(order[i])
  <2>1. \A i \in 1..n : NoticePage(order[i]) \in NoticePages
    BY <1>3 DEF NoticePage, NoticePages, ManagerInv, WorldTyped
  <2> QED
    BY <1>3, <2>1
<1>6. Handle(pages)
  BY <1>2
<1> HIDE DEF pages
<1>7. PICK call : /\ calls' = calls \cup {call} /\ call.pages = pages /\ call.at = 1
                  /\ call.events = << >>
  BY <1>5, <1>6, NewCall
<1>8. \A i, j \in DOMAIN call.pages : call.pages[i] = call.pages[j] => i = j
  BY <1>3, <1>5, <1>7, SameNotice
<1>9. ASSUME NEW c PROVE InCall(call, c) <=> c \in cs
  <2>1. InCall(call, c) <=> \E i \in 1..n : NoticePage(order[i]) = NoticePage(c)
    BY <1>5, <1>7 DEF InCall, ToSet
  <2> QED
    BY <1>3, <1>4, <2>1, SameNotice
<1> QED
  BY <1>1, <1>5, <1>7, <1>8, <1>9, NewDecides

\* A command is rejected once: it is not under way any more.
LEMMA ReceiveDecides ==
  ASSUME ManagerInv, CompensatedInv, NEW c \in sent, Accept(c) \/ Reject(c)
  PROVE  CompensatedInv'
<1>1. /\ UNCHANGED <<calls, process>> /\ sent' = sent \ {c}
      /\ \/ UNCHANGED <<returned, rejected>>
         \/ rejected' = rejected \cup {c} /\ returned' = returned \cup {c}
  BY DEF Accept, Reject
<1>2. c \notin rejected
  BY DEF CompensatedInv
<1>3. \A d : d \in rejected' /\ d \notin returned' <=> d \in rejected /\ d \notin returned
  BY <1>1, <1>2 DEF ManagerInv, WorldTyped
<1>4. \A d : Taken(d)' <=> Taken(d)
  BY <1>1, TakenBy
<1>5. ASSUME NEW call \in calls' PROVE Settles(call)'
  <2>1. Settles(call)
    BY <1>1 DEF CompensatedInv
  <2> QED
    BY <1>3, <2>1 DEF Settles
<1>6. (\A x, y \in calls : \A d : InCall(x, d) /\ InCall(y, d) => x = y)'
  BY <1>1 DEF CompensatedInv, InCall
<1>7. Single(process)' /\ (sent \cap rejected = {})'
  BY <1>1 DEF CompensatedInv
<1>8. (\A d : Compensation(d) \in ToSet(process) <=>
         d \in rejected /\ Records(d) /\ d \notin returned /\ ~Taken(d))'
  BY <1>1, <1>3, <1>4 DEF CompensatedInv
<1> QED
  BY <1>5, <1>6, <1>7, <1>8 DEF CompensatedInv

LEMMA InitCompensated == Init => CompensatedInv
<1> SUFFICES ASSUME Init PROVE CompensatedInv
  OBVIOUS
<1>1. ToSet(process) = {} /\ Single(process)
  BY DEF Init, Single, ToSet
<1> QED
  BY <1>1 DEF Init, CompensatedInv

LEMMA NextCompensated == ManagerInv /\ CompensatedInv /\ [Next]_vars => CompensatedInv'
<1> SUFFICES ASSUME ManagerInv, CompensatedInv, [Next]_vars PROVE CompensatedInv'
  OBVIOUS
<1>1. ASSUME NEW t \in Trigger, Deliver(t) PROVE CompensatedInv'
  BY <1>1, DeliverDecides
<1>2. CASE Notify
  BY <1>2, NotifyDecides
<1>3. CASE Proceed
  BY <1>3, SkipDecides, HandlePageDecides, HandlerFailsDecides, HandleRejectionDecides, ReturnDecides
  DEF Proceed
<1>4. CASE Receive
  BY <1>4, ReceiveDecides DEF Receive
<1>5. CASE UNCHANGED vars
  <2>1. UNCHANGED <<calls, process, sent, returned, rejected>>
    BY <1>5 DEF vars, world
  <2>2. \A c : Taken(c)' <=> Taken(c)
    BY <2>1, TakenBy
  <2>3. \A call \in calls' : Settles(call)'
    BY <2>1 DEF CompensatedInv, Settles
  <2> QED
    BY <2>1, <2>2, <2>3 DEF CompensatedInv, InCall
<1> QED
  BY <1>1, <1>2, <1>3, <1>4, <1>5 DEF Next

\* A rejected command whose handler is registered is compensated once in the
\* process book, and not before its Notification's call is answered, whatever
\* Notifications came together (pm_oo.go: Handle and handleNotification).
THEOREM CompensationsOnce == Spec => []CompensatedOnce
<1>1. ManagerInv /\ CompensatedInv => CompensatedOnce
  <2> SUFFICES ASSUME ManagerInv, CompensatedInv PROVE CompensatedOnce
    OBVIOUS
  <2>1. ASSUME NEW c \in rejected
        PROVE  Cardinality(Compensations(c)) =
                 IF Records(c) /\ c \notin returned /\ ~Taken(c) THEN 1 ELSE 0
    <3>1. Compensation(c).kind = "compensation"
      BY DEF Compensation
    <3>2. CASE Compensation(c) \in ToSet(process)
      <4>1. PICK i \in DOMAIN process : process[i] = Compensation(c)
        BY <3>2 DEF ToSet
      <4>2. Compensations(c) = {i}
        BY <3>1, <4>1 DEF Compensations, CompensatedInv, Single
      <4> QED
        BY <3>2, <4>2, FS_Singleton DEF CompensatedInv
    <3>3. CASE Compensation(c) \notin ToSet(process)
      <4>1. Compensations(c) = {}
        BY <3>3 DEF Compensations, ToSet
      <4> QED
        BY <3>3, <4>1, FS_EmptySet DEF CompensatedInv
    <3> QED
      BY <3>2, <3>3
  <2>2. ASSUME NEW i \in DOMAIN process, process[i].kind = "compensation"
        PROVE  process[i].command \in rejected
    <3>1. process[i] \in Steps \cup Compensating
      BY DEF ManagerInv, WorldTyped
    <3>2. process[i] = Compensation(process[i].command)
      BY <2>2, <3>1 DEF Steps, Compensating, Compensation
    <3>3. process[i] \in ToSet(process)
      BY DEF ToSet
    <3> QED
      BY <3>2, <3>3 DEF CompensatedInv
  <2> QED
    BY <2>1, <2>2 DEF CompensatedOnce
<1>2. Spec => []CompensatedInv
  BY InitManager, NextManager, InitCompensated, NextCompensated, PTL DEF Spec
<1> QED
  BY <1>1, <1>2, ManagerInvariant, PTL


===============================================================================
