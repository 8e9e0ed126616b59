-------------------------- MODULE RegistrationProofs --------------------------
(***************************************************************************)
(* What a component does after registration, proved for any number of      *)
(* types, domains and calls: the handler that runs is the one the program  *)
(* asked for, and what it subscribes to is what it handles.  A map is the  *)
(* last call of each key (MapsFollowCalls), a slice the calls of On in     *)
(* their order, each with the domain it was made under (SlicesFollowCalls).*)
(***************************************************************************)
EXTENDS SagaProgram, SagaProofs, TLAPS

Uses == {"current", "handle", "multi", "apply", "reject", "domain"}
Key == Type \cup Short \cup Domain \cup (Domain \X Type)
RegistrationCalls == [use : Uses, key : Key, types : SUBSET Type]
Registrations == [domain : Domain \cup {NoDomain}, name : Type, by : Nat]

RegistrationTypes ==
  /\ kind \in Kinds
  /\ calls \in Seq(RegistrationCalls)
  /\ slice \in Seq(Registrations)
  /\ current \in Domain \cup {NoDomain}

\* Which calls fill a map: all but Domain of EventRouter and On of the routers
\* that keep slices.
InSlice(use) == kind \in Sliced /\ use = "handle"
Mapped(use) == use \in Uses \ {"current"} /\ ~InSlice(use)

MapsFollowCalls ==
  /\ \A k \in DOMAIN table :
       /\ k = <<k[1], k[2]>> /\ Mapped(k[1]) /\ k[2] \in Key
       /\ LastCall(table[k], k[1], k[2])
  /\ \A i \in DOMAIN calls :
       Mapped(calls[i].use) => <<calls[i].use, calls[i].key>> \in DOMAIN table

SliceSound == \A m \in DOMAIN slice :
  /\ slice[m].by \in DOMAIN calls
  /\ IsCall(slice[m].by, "handle", slice[m].name)
  /\ kind = "EventRouter" => slice[m].domain \in Domain /\ UnderDomain(slice[m].by, slice[m].domain)

SliceOrdered == \A l, m \in DOMAIN slice : l < m => slice[l].by < slice[m].by

SliceComplete == \A i \in DOMAIN calls :
  InSlice(calls[i].use) => \E m \in DOMAIN slice : slice[m].by = i

\* A registration that fits has a first one.
SliceHasFirst == \A d \in Domain, t \in Type :
  (\E m \in DOMAIN slice : Fits(slice[m], d, t)) => FirstInSlice(d, t) # {}

SlicesFollowCalls ==
  /\ kind \notin Sliced => slice = << >>
  /\ SliceSound /\ SliceOrdered /\ SliceComplete /\ SliceHasFirst

CurrentFollowsCalls ==
  kind = "EventRouter" /\ current # NoDomain => UnderDomain(Len(calls) + 1, current)

KindsFollowed ==
  /\ kind \in OneDomain => Len(calls) = 1 /\ calls[1].use = "domain" /\ calls[1].key \in Domain
  /\ \A i \in DOMAIN calls : calls[i].use = "multi" => kind = "CommandHandlerBase"

RegistrationInv ==
  /\ RegistrationTypes /\ MapsFollowCalls /\ SlicesFollowCalls
  /\ CurrentFollowsCalls /\ KindsFollowed

-------------------------------------------------------------------------------
(* One more call *)

\* The domain a call was made under is one.
LEMMA OneDomainAtATime ==
  ASSUME RegistrationTypes, NEW i \in 1..Len(calls) + 1, NEW d, NEW e,
         UnderDomain(i, d), UnderDomain(i, e)
  PROVE  d = e
<1>1. PICK j \in 1..i-1 : IsCall(j, "current", d) /\ \A k \in j+1..i-1 : calls[k].use # "current"
  BY DEF UnderDomain
<1>2. PICK l \in 1..i-1 : IsCall(l, "current", e) /\ \A k \in l+1..i-1 : calls[k].use # "current"
  BY DEF UnderDomain
<1>3. ~(j < l) /\ ~(l < j)
  BY <1>1, <1>2 DEF IsCall, RegistrationTypes
<1> QED  BY <1>1, <1>2, <1>3 DEF IsCall

\* There is one last call for a key.
LEMMA OneLastCall ==
  ASSUME RegistrationTypes, NEW use, NEW key, NEW i, NEW j,
         LastCall(i, use, key), LastCall(j, use, key)
  PROVE  i = j
BY DEF LastCall, RegistrationTypes

LEMMA CallsGrow ==
  ASSUME RegistrationTypes, NEW u \in Uses, NEW x \in Key, NEW types \in SUBSET Type,
         calls' = Append(calls, RegistrationCall(u, x, types))
  PROVE  /\ calls' \in Seq(RegistrationCalls) /\ Len(calls') = Len(calls) + 1
         /\ DOMAIN calls' = DOMAIN calls \cup {Len(calls) + 1}
         /\ Len(calls) + 1 \notin DOMAIN calls /\ DOMAIN calls = 1..Len(calls)
         /\ Len(calls) \in Nat
         /\ \A i \in DOMAIN calls : calls'[i] = calls[i]
         /\ calls'[Len(calls) + 1] = RegistrationCall(u, x, types)
BY SMTT(30) DEF RegistrationTypes, RegistrationCalls, RegistrationCall

LEMMA DomainsStay ==
  ASSUME RegistrationTypes, NEW u \in Uses, NEW x \in Key, NEW types \in SUBSET Type,
         calls' = Append(calls, RegistrationCall(u, x, types)),
         NEW i \in 1..Len(calls) + 1, NEW d
  PROVE  UnderDomain(i, d)' <=> UnderDomain(i, d)
<1>1. \A j \in 1..i-1 : calls'[j] = calls[j]
  BY CallsGrow
<1>2. Len(calls) \in Nat /\ i \in Nat
  BY CallsGrow
<1> DEFINE Under(c, j) == /\ c[j].use = "current" /\ c[j].key = d
                          /\ \A k \in j+1..i-1 : c[k].use # "current"
<1>3. \A j \in 1..i-1 : Under(calls', j) <=> Under(calls, j)
  <2> TAKE j \in 1..i-1
  <2>1. \A k \in j+1..i-1 : calls'[k] = calls[k]
    BY <1>1, <1>2
  <2> QED  BY <1>1, <2>1
<1>4. UnderDomain(i, d) <=> \E j \in 1..i-1 : Under(calls, j)
  BY DEF UnderDomain, IsCall
<1>5. UnderDomain(i, d)' <=> \E j \in 1..i-1 : Under(calls', j)
  BY DEF UnderDomain, IsCall
<1> HIDE DEF Under
<1> QED  BY <1>3, <1>4, <1>5

LEMMA LastCallsMove ==
  ASSUME RegistrationTypes, NEW u \in Uses, NEW x \in Key, NEW types \in SUBSET Type,
         calls' = Append(calls, RegistrationCall(u, x, types)),
         NEW n, n = Len(calls) + 1
  PROVE  /\ LastCall(n, u, x)'
         /\ \A i, use, key : LastCall(i, use, key) /\ ~(use = u /\ key = x) => LastCall(i, use, key)'
<1>1. LastCall(n, u, x)'
  <2>1. IsCall(n, u, x)'
    BY CallsGrow DEF IsCall, RegistrationCall
  <2>2. \A j \in DOMAIN calls' : ~(j > n)
    BY CallsGrow
  <2> QED  BY <2>1, <2>2, CallsGrow DEF LastCall
<1>2. ASSUME NEW i, NEW use, NEW key, LastCall(i, use, key), ~(use = u /\ key = x)
      PROVE  LastCall(i, use, key)'
  <2>1. i \in DOMAIN calls' /\ IsCall(i, use, key)'
    BY <1>2, CallsGrow DEF LastCall, IsCall
  <2>2. ASSUME NEW j \in DOMAIN calls', j > i
        PROVE  ~IsCall(j, use, key)'
    <3>1. CASE j \in DOMAIN calls
      BY <1>2, <2>2, <3>1, CallsGrow DEF LastCall, IsCall
    <3>2. CASE j = n
      BY <1>2, <3>2, CallsGrow DEF IsCall, RegistrationCall
    <3> QED  BY <3>1, <3>2, CallsGrow
  <2> QED  BY <2>1, <2>2 DEF LastCall
<1> QED  BY <1>1, <1>2

-------------------------------------------------------------------------------
(* Each kind of call keeps the invariant *)

LEMMA InitRegistration ==
  ASSUME RegistrationAssumption, RegistrationInit
  PROVE  RegistrationInv
<1> USE DEF RegistrationInv, RegistrationTypes, MapsFollowCalls, SlicesFollowCalls, SliceSound,
            SliceOrdered, SliceComplete, SliceHasFirst, CurrentFollowsCalls, KindsFollowed
<1>1. CASE kind \notin OneDomain /\ calls = << >> /\ current = NoDomain /\ table = << >>
  BY <1>1 DEF RegistrationInit
<1>2. ASSUME kind = "EventRouter", table = << >>, NEW d \in Domain,
             calls = <<RegistrationCall("current", d, {})>>, current = d
      PROVE  RegistrationInv
  <2>1. calls \in Seq(RegistrationCalls) /\ Len(calls) = 1 /\ DOMAIN calls = {1}
        /\ calls[1].use = "current" /\ calls[1].key = d
    BY <1>2 DEF RegistrationCall, RegistrationCalls, Uses, Key
  <2>2. UnderDomain(Len(calls) + 1, current)
    <3>1. 1 \in 1..(Len(calls) + 1) - 1 /\ IsCall(1, "current", current)
      BY <1>2, <2>1 DEF IsCall
    <3>2. \A k \in 1+1..(Len(calls) + 1) - 1 : calls[k].use # "current"
      BY <2>1
    <3> QED  BY <3>1, <3>2 DEF UnderDomain
  <2>3. kind \notin OneDomain
    BY <1>2 DEF OneDomain
  <2>4. slice = << >> /\ kind \in Kinds
    BY DEF RegistrationInit
  <2>5. RegistrationTypes
    BY <1>2, <2>1, <2>4
  <2>6. MapsFollowCalls
    BY <1>2, <2>1 DEF Mapped
  <2>7. SlicesFollowCalls
    BY <2>1, <2>4 DEF InSlice
  <2>8. CurrentFollowsCalls /\ KindsFollowed
    BY <2>1, <2>2, <2>3
  <2> QED  BY <2>5, <2>6, <2>7, <2>8
<1>3. ASSUME kind \in OneDomain, current = NoDomain, NEW d \in Domain, NEW types \in SUBSET Type,
             calls = <<RegistrationCall("domain", d, types)>>,
             table = Put(<< >>, <<"domain", d>>, 1)
      PROVE  RegistrationInv
  <2>1. calls \in Seq(RegistrationCalls) /\ Len(calls) = 1 /\ DOMAIN calls = {1}
        /\ calls[1].use = "domain" /\ calls[1].key = d
    BY <1>3 DEF RegistrationCall, RegistrationCalls, Uses, Key
  <2>2. DOMAIN table = {<<"domain", d>>} /\ table[<<"domain", d>>] = 1
    BY <1>3 DEF Put
  <2>3. kind \notin Sliced /\ kind # "EventRouter"
    BY <1>3 DEF OneDomain, Sliced
  <2>4. LastCall(1, "domain", d)
    BY <2>1 DEF LastCall, IsCall
  <2>5. Mapped("domain") /\ d \in Key
    BY <2>3 DEF Mapped, InSlice, Uses, Key
  <2>6. MapsFollowCalls
    BY <2>1, <2>2, <2>4, <2>5
  <2>7. slice = << >> /\ kind \in Kinds
    BY DEF RegistrationInit
  <2>8. RegistrationTypes
    BY <1>3, <2>1, <2>7
  <2>9. SlicesFollowCalls
    BY <2>3, <2>7 DEF InSlice
  <2>10. CurrentFollowsCalls /\ KindsFollowed
    BY <2>1, <2>3
  <2> QED  BY <2>6, <2>8, <2>9, <2>10
<1> QED  BY <1>1, <1>2, <1>3 DEF RegistrationInit

\* A call of Register leaves the calls before it where they are, so a slice
\* that does not change still follows them.
LEMMA SliceStays ==
  ASSUME RegistrationInv, NEW u \in Uses, NEW x \in Key, NEW types \in SUBSET Type,
         calls' = Append(calls, RegistrationCall(u, x, types)), ~InSlice(u),
         UNCHANGED <<kind, slice>>
  PROVE  SlicesFollowCalls'
<1> USE DEF RegistrationInv, SlicesFollowCalls
<1>1. SliceSound'
  <2> SUFFICES ASSUME NEW m \in DOMAIN slice
               PROVE  /\ slice[m].by \in DOMAIN calls'
                      /\ IsCall(slice[m].by, "handle", slice[m].name)'
                      /\ kind = "EventRouter" => /\ slice[m].domain \in Domain
                                                 /\ UnderDomain(slice[m].by, slice[m].domain)'
    BY DEF SliceSound
  <2>1. slice[m].by \in DOMAIN calls /\ calls'[slice[m].by] = calls[slice[m].by]
    BY CallsGrow DEF SliceSound
  <2>2. IsCall(slice[m].by, "handle", slice[m].name)'
    BY <2>1 DEF SliceSound, IsCall
  <2>3. ASSUME kind = "EventRouter"
        PROVE  slice[m].domain \in Domain /\ UnderDomain(slice[m].by, slice[m].domain)'
    <3> DEFINE i == slice[m].by  d == slice[m].domain
    <3>1. slice' = slice /\ d \in Domain /\ UnderDomain(i, d)
      BY <2>3 DEF SliceSound
    <3>2. i \in 1..Len(calls) + 1
      BY <2>1, CallsGrow
    <3>3. \A e : \A j \in 1..Len(calls) + 1 : UnderDomain(j, e)' <=> UnderDomain(j, e)
      BY DomainsStay
    <3>4. i' = i /\ d' = d
      BY <3>1
    <3> HIDE DEF i, d
    <3>5. \E j, e : j = i /\ e = d /\ UnderDomain(j, e)'
      BY <3>1, <3>2, <3>3
    <3>6. UnderDomain(i, d)'
      BY <3>4, <3>5
    <3> QED  BY <3>1, <3>6 DEF i, d
  <2> QED  BY <2>1, <2>2, <2>3, CallsGrow
<1>2. SliceComplete'
  <2> SUFFICES ASSUME NEW i \in DOMAIN calls', kind \in Sliced, calls'[i].use = "handle"
               PROVE  \E m \in DOMAIN slice : slice[m].by = i
    BY DEF SliceComplete, InSlice
  <2>1. i \in DOMAIN calls
    BY CallsGrow DEF InSlice, RegistrationCall
  <2> QED  BY <2>1, CallsGrow DEF SliceComplete, InSlice
<1>3. SliceOrdered' /\ SliceHasFirst'
  BY DEF SliceOrdered, SliceHasFirst, FirstInSlice, Fits
<1> QED  BY <1>1, <1>2, <1>3

\* A call that fills no map leaves the maps as they were.
LEMMA MapsStay ==
  ASSUME RegistrationInv, NEW u \in Uses, NEW x \in Key, NEW types \in SUBSET Type,
         calls' = Append(calls, RegistrationCall(u, x, types)), ~Mapped(u),
         UNCHANGED <<kind, table>>
  PROVE  MapsFollowCalls'
<1> USE DEF RegistrationInv
<1>1. ASSUME NEW k \in DOMAIN table
      PROVE  /\ k = <<k[1], k[2]>> /\ Mapped(k[1])' /\ k[2] \in Key
             /\ LastCall(table[k], k[1], k[2])'
  <2>1. /\ k = <<k[1], k[2]>> /\ Mapped(k[1]) /\ k[2] \in Key
        /\ LastCall(table[k], k[1], k[2])
    BY DEF MapsFollowCalls
  <2>2. k[1] # u /\ Mapped(k[1])' /\ table' = table
    BY <2>1 DEF Mapped, InSlice
  <2>3. \A i, use, key : LastCall(i, use, key) /\ ~(use = u /\ key = x) => LastCall(i, use, key)'
    BY LastCallsMove
  <2>4. PICK i : i = table[k] /\ LastCall(i, k[1], k[2])
    BY <2>1
  <2>5. LastCall(i, k[1], k[2])'
    BY <2>2, <2>3, <2>4
  <2>6. LastCall(table[k], k[1], k[2])'
    BY <2>2, <2>4, <2>5 DEF LastCall, IsCall
  <2> QED  BY <2>1, <2>2, <2>6
<1>2. ASSUME NEW i \in DOMAIN calls', Mapped(calls[i].use), i \in DOMAIN calls
      PROVE  <<calls'[i].use, calls'[i].key>> \in DOMAIN table
  BY <1>2, CallsGrow DEF MapsFollowCalls
<1>3. ASSUME NEW i \in DOMAIN calls', Mapped(calls'[i].use)
      PROVE  i \in DOMAIN calls /\ Mapped(calls[i].use)
  <2>1. i # Len(calls) + 1
    BY <1>3, CallsGrow DEF RegistrationCall
  <2> QED  BY <1>3, <2>1, CallsGrow
<1>4. ASSUME NEW i \in DOMAIN calls', Mapped(calls[i].use)'
      PROVE  Mapped(calls'[i].use)
  BY <1>4 DEF Mapped, InSlice
<1> QED  BY <1>1, <1>2, <1>3, <1>4 DEF MapsFollowCalls

LEMMA KindsStay ==
  ASSUME RegistrationInv, NEW u \in Uses, NEW x \in Key, NEW types \in SUBSET Type,
         calls' = Append(calls, RegistrationCall(u, x, types)), UNCHANGED kind,
         kind \notin OneDomain, u = "multi" => kind = "CommandHandlerBase"
  PROVE  KindsFollowed'
<1>1. kind' \notin OneDomain
  OBVIOUS
<1>2. ASSUME NEW i \in DOMAIN calls', calls'[i].use = "multi"
      PROVE  kind' = "CommandHandlerBase"
  <2>1. CASE i \in DOMAIN calls
    BY <1>2, <2>1, CallsGrow DEF RegistrationInv, KindsFollowed
  <2>2. CASE i = Len(calls) + 1
    BY <1>2, <2>2, CallsGrow DEF RegistrationInv, RegistrationCall
  <2> QED  BY <2>1, <2>2, CallsGrow DEF RegistrationInv
<1> QED  BY <1>1, <1>2 DEF KindsFollowed

\* As long as Domain is not called the current domain stays that of the calls
\* that follow.
LEMMA CurrentStays ==
  ASSUME RegistrationInv, NEW u \in Uses \ {"current"}, NEW x \in Key, NEW types \in SUBSET Type,
         calls' = Append(calls, RegistrationCall(u, x, types)), UNCHANGED <<kind, current>>
  PROVE  CurrentFollowsCalls'
<1> SUFFICES ASSUME kind = "EventRouter", current # NoDomain
             PROVE  UnderDomain(Len(calls) + 1, current)'
  BY DEF CurrentFollowsCalls
<1> USE DEF RegistrationInv
<1>1. PICK j \in 1..Len(calls) : /\ IsCall(j, "current", current)
                                 /\ \A k \in j+1..Len(calls) : calls[k].use # "current"
  BY CallsGrow DEF CurrentFollowsCalls, UnderDomain
<1>2. IsCall(j, "current", current)' /\ j \in 1..Len(calls')
  BY <1>1, CallsGrow DEF IsCall
<1>3. \A k \in j+1..Len(calls') : calls'[k].use # "current"
  BY <1>1, CallsGrow DEF RegistrationCall
<1> QED  BY <1>2, <1>3, CallsGrow DEF UnderDomain

LEMMA SetDomainKeeps ==
  ASSUME RegistrationInv, NEW d \in Domain, SetDomain(d)
  PROVE  RegistrationInv'
<1> USE DEF RegistrationInv
<1>1. /\ kind = "EventRouter" /\ UNCHANGED <<kind, slice, table>> /\ current' = d
      /\ calls' = Append(calls, RegistrationCall("current", d, {}))
      /\ {} \in SUBSET Type /\ "current" \in Uses /\ d \in Key
  BY DEF SetDomain, Register, Uses, Key
<1>2. RegistrationTypes'
  BY <1>1, CallsGrow DEF RegistrationTypes
<1>3. MapsFollowCalls'
  <2>1. ~Mapped("current")
    BY DEF Mapped
  <2> QED  BY <1>1, <2>1, MapsStay
<1>4. SlicesFollowCalls'
  <2>1. ~InSlice("current")
    BY DEF InSlice
  <2> QED  BY <1>1, <2>1, SliceStays
<1>5. CurrentFollowsCalls'
  <2>1. DOMAIN calls' = 1..Len(calls) + 1 /\ Len(calls) \in Nat /\ Len(calls') = Len(calls) + 1
        /\ calls'[Len(calls) + 1] = RegistrationCall("current", d, {})
    BY <1>1, CallsGrow
  <2>2. calls'[Len(calls')].use = "current" /\ calls'[Len(calls')].key = d
    BY <2>1 DEF RegistrationCall
  <2>3. \A k \in Len(calls') + 1..Len(calls') : calls'[k].use # "current"
    BY <2>1
  <2> QED  BY <1>1, <2>1, <2>2, <2>3 DEF CurrentFollowsCalls, UnderDomain, IsCall
<1>6. KindsFollowed'
  BY <1>1, KindsStay DEF OneDomain
<1> QED  BY <1>2, <1>3, <1>4, <1>5, <1>6

LEMMA MapKeeps ==
  ASSUME RegistrationInv, NEW u \in Uses, NEW x \in Key, NEW types \in SUBSET Type,
         Mapped(u), kind \notin OneDomain, u = "multi" => kind = "CommandHandlerBase",
         RegisterInMap(u, x, types)
  PROVE  RegistrationInv'
<1> USE DEF RegistrationInv
<1> DEFINE n == Len(calls) + 1
<1>1. /\ UNCHANGED <<kind, slice, current>> /\ u # "current"
      /\ calls' = Append(calls, RegistrationCall(u, x, types))
      /\ table' = Put(table, <<u, x>>, n)
  BY DEF RegisterInMap, Register, Mapped
<1>2. RegistrationTypes'
  BY <1>1, CallsGrow DEF RegistrationTypes
<1>3. MapsFollowCalls'
  <2>1. DOMAIN table' = DOMAIN table \cup {<<u, x>>} /\ table'[<<u, x>>] = n
        /\ \A k \in DOMAIN table : k # <<u, x>> => table'[k] = table[k]
    BY <1>1 DEF Put
  <2>2. PICK l : l = n
    OBVIOUS
  <2>3. LastCall(l, u, x)' /\ \A i, use, key : LastCall(i, use, key) /\ ~(use = u /\ key = x) => LastCall(i, use, key)'
    BY <1>1, <2>2, LastCallsMove
  <2>4. ASSUME NEW k \in DOMAIN table'
        PROVE  k = <<k[1], k[2]>> /\ Mapped(k[1])' /\ k[2] \in Key /\ LastCall(table[k], k[1], k[2])'
    <3>1. CASE k = <<u, x>>
      <4>1. table'[k] = l /\ k[1] = u /\ k[2] = x
        BY <2>1, <2>2, <3>1
      <4>2. LastCall(l, k[1], k[2])'
        BY <2>3, <4>1
      <4> QED  BY <1>1, <3>1, <4>1, <4>2 DEF LastCall, IsCall, Mapped, InSlice
    <3>2. CASE k # <<u, x>> /\ k \in DOMAIN table
      <4>1. k = <<k[1], k[2]>> /\ Mapped(k[1]) /\ k[2] \in Key /\ LastCall(table[k], k[1], k[2])
        BY <3>2 DEF MapsFollowCalls
      <4>2. ~(k[1] = u /\ k[2] = x)
        BY <3>2, <4>1
      <4>3. PICK i : i = table[k] /\ LastCall(i, k[1], k[2])
        BY <4>1
      <4>4. LastCall(i, k[1], k[2])' /\ table'[k] = i
        BY <2>1, <2>3, <3>2, <4>2, <4>3
      <4>5. LastCall(table[k], k[1], k[2])'
        BY <4>4 DEF LastCall, IsCall
      <4> QED  BY <1>1, <4>1, <4>5 DEF Mapped, InSlice
    <3> QED  BY <2>1, <3>1, <3>2
  <2>5. ASSUME NEW i \in DOMAIN calls', Mapped(calls[i].use)'
        PROVE  <<calls'[i].use, calls'[i].key>> \in DOMAIN table'
    <3>1. CASE i \in DOMAIN calls
      <4>1. calls'[i] = calls[i] /\ Mapped(calls[i].use)
        BY <1>1, <2>5, <3>1, CallsGrow DEF Mapped, InSlice
      <4> QED  BY <2>1, <3>1, <4>1 DEF MapsFollowCalls
    <3>2. CASE i = n
      BY <1>1, <2>1, <3>2, CallsGrow DEF RegistrationCall
    <3> QED  BY <1>1, <3>1, <3>2, CallsGrow
  <2> QED  BY <2>4, <2>5 DEF MapsFollowCalls
<1>4. SlicesFollowCalls'
  BY <1>1, SliceStays DEF Mapped
<1>5. CurrentFollowsCalls'
  BY <1>1, CurrentStays
<1>6. KindsFollowed'
  BY <1>1, KindsStay
<1> QED  BY <1>2, <1>3, <1>4, <1>5, <1>6

LEMMA OnKeeps ==
  ASSUME RegistrationInv, NEW t \in Type, On(t)
  PROVE  RegistrationInv'
<1> USE DEF RegistrationInv
<1> DEFINE r == [domain |-> current, name |-> t, by |-> Len(calls) + 1]
<1>1. /\ kind \in Sliced /\ (kind = "EventRouter" => current # NoDomain)
      /\ UNCHANGED <<kind, current, table>>
      /\ calls' = Append(calls, RegistrationCall("handle", t, {}))
      /\ slice' = Append(slice, r)
      /\ {} \in SUBSET Type /\ "handle" \in Uses \ {"current"} /\ t \in Key
  BY DEF On, Register, Uses, Key
<1>2. PICK n : n = Len(calls) + 1
  OBVIOUS
<1>3. /\ n \in Nat /\ r \in Registrations /\ r.domain = current /\ r.name = t /\ r.by = n
  BY <1>1, <1>2, CallsGrow DEF RegistrationTypes, Registrations
<1> HIDE DEF r
<1>4. /\ slice' \in Seq(Registrations) /\ Len(slice') = Len(slice) + 1 /\ Len(slice) \in Nat
      /\ DOMAIN slice = 1..Len(slice) /\ DOMAIN slice' = 1..Len(slice) + 1
      /\ \A m \in DOMAIN slice : slice'[m] = slice[m]
      /\ slice'[Len(slice) + 1] = r
  BY <1>1, <1>3 DEF RegistrationTypes
<1>5. RegistrationTypes'
  BY <1>1, <1>4, CallsGrow DEF RegistrationTypes
<1>6. MapsFollowCalls'
  BY <1>1, MapsStay DEF Mapped, InSlice
<1>7. SlicesFollowCalls'
  <2>1. ASSUME NEW m \in DOMAIN slice'
        PROVE  /\ slice'[m].by \in DOMAIN calls'
               /\ IsCall(slice[m].by, "handle", slice[m].name)'
               /\ kind = "EventRouter" => /\ slice'[m].domain \in Domain
                                          /\ UnderDomain(slice[m].by, slice[m].domain)'
    <3>1. PICK i, d : i = slice'[m].by /\ d = slice'[m].domain
      OBVIOUS
    <3>2. i \in DOMAIN calls' /\ calls'[i].use = "handle" /\ calls'[i].key = slice'[m].name
      <4>1. CASE m \in DOMAIN slice
        BY <1>1, <1>4, <3>1, <4>1, CallsGrow DEF SlicesFollowCalls, SliceSound, IsCall
      <4>2. CASE m = Len(slice) + 1
        BY <1>1, <1>2, <1>3, <1>4, <3>1, <4>2, CallsGrow DEF RegistrationCall
      <4> QED  BY <1>4, <4>1, <4>2
    <3>3. kind = "EventRouter" => i \in 1..Len(calls) + 1 /\ d \in Domain /\ UnderDomain(i, d)
      <4> SUFFICES ASSUME kind = "EventRouter"
                   PROVE  i \in 1..Len(calls) + 1 /\ d \in Domain /\ UnderDomain(i, d)
        OBVIOUS
      <4>1. CASE m \in DOMAIN slice
        BY <1>1, <1>4, <3>1, <4>1, CallsGrow DEF SlicesFollowCalls, SliceSound
      <4>2. CASE m = Len(slice) + 1
        <5>1. i = Len(calls) + 1 /\ d = current
          BY <1>2, <1>3, <1>4, <3>1, <4>2
        <5>2. UnderDomain(Len(calls) + 1, current)
          BY <1>1 DEF CurrentFollowsCalls
        <5> QED  BY <1>1, <1>2, <1>3, <5>1, <5>2 DEF RegistrationTypes
      <4> QED  BY <1>4, <4>1, <4>2
    <3>4. kind = "EventRouter" => UnderDomain(i, d)'
      BY <1>1, <3>3, DomainsStay
    <3>5. \A j, e : j = i /\ e = d => (UnderDomain(j, e)' <=> UnderDomain(i, d)')
      OBVIOUS
    <3> QED  BY <3>1, <3>2, <3>3, <3>4, <3>5 DEF IsCall, UnderDomain
  <2>2. SliceOrdered'
    <3> SUFFICES ASSUME NEW l \in DOMAIN slice', NEW m \in DOMAIN slice', l < m
                 PROVE  slice'[l].by < slice'[m].by
      BY DEF SliceOrdered
    <3>1. CASE m \in DOMAIN slice
      BY <1>4, <3>1 DEF SlicesFollowCalls, SliceOrdered
    <3>2. CASE m = Len(slice) + 1
      <4>1. l \in DOMAIN slice /\ slice'[m].by = n
        BY <1>3, <1>4, <3>2
      <4> QED  BY <1>1, <1>2, <1>4, <4>1, CallsGrow DEF SlicesFollowCalls, SliceSound
    <3> QED  BY <1>4, <3>1, <3>2
  <2>3. ASSUME NEW i \in DOMAIN calls', calls'[i].use = "handle"
        PROVE  \E m \in DOMAIN slice' : slice'[m].by = i
    <3>1. CASE i \in DOMAIN calls
      <4>1. PICK m \in DOMAIN slice : slice[m].by = i
        BY <1>1, <2>3, <3>1, CallsGrow DEF SlicesFollowCalls, SliceComplete, InSlice
      <4> QED  BY <1>4, <4>1
    <3>2. CASE i = n
      BY <1>3, <1>4, <3>2
    <3> QED  BY <1>1, <1>2, <3>1, <3>2, CallsGrow
  <2>4. ASSUME NEW d \in Domain, NEW e \in Type, \E m \in DOMAIN slice' : Fits(slice'[m], d, e)
        PROVE  \E m \in DOMAIN slice' : /\ Fits(slice'[m], d, e)
                                        /\ \A l \in 1..m-1 : ~Fits(slice'[l], d, e)
    <3>1. CASE \E m \in DOMAIN slice : Fits(slice[m], d, e)
      <4>1. PICK m \in DOMAIN slice : Fits(slice[m], d, e) /\ \A l \in 1..m-1 : ~Fits(slice[l], d, e)
        BY <3>1 DEF SlicesFollowCalls, SliceHasFirst, FirstInSlice
      <4> QED  BY <1>4, <4>1
    <3>2. CASE ~\E m \in DOMAIN slice : Fits(slice[m], d, e)
      <4>1. PICK m \in DOMAIN slice' : Fits(slice'[m], d, e)
        BY <2>4
      <4>2. m = Len(slice) + 1
        BY <1>4, <3>2, <4>1
      <4> QED  BY <1>4, <3>2, <4>1, <4>2
    <3> QED  BY <3>1, <3>2
  <2>5. SliceSound'
    BY <1>1, <2>1 DEF SliceSound, IsCall, UnderDomain
  <2>6. SliceComplete'
    BY <2>3 DEF SliceComplete, InSlice
  <2>7. SliceHasFirst'
    <3> SUFFICES ASSUME NEW d \in Domain, NEW e \in Type,
                        (\E m \in DOMAIN slice : Fits(slice[m], d, e))'
                 PROVE  FirstInSlice(d, e)' # {}
      BY DEF SliceHasFirst
    <3>1. PICK m \in DOMAIN slice' : /\ Fits(slice'[m], d, e)
                                    /\ \A l \in 1..m-1 : ~Fits(slice'[l], d, e)
      BY <1>1, <2>4 DEF Fits
    <3>2. slice'[m].by \in FirstInSlice(d, e)'
      BY <1>1, <3>1 DEF FirstInSlice, Fits
    <3> QED  BY <3>2
  <2> QED  BY <1>1, <2>2, <2>5, <2>6, <2>7 DEF SlicesFollowCalls
<1>8. CurrentFollowsCalls'
  BY <1>1, CurrentStays
<1>9. KindsFollowed'
  BY <1>1, KindsStay DEF Sliced, OneDomain
<1> QED  BY <1>5, <1>6, <1>7, <1>8, <1>9

LEMMA RegistrationKept ==
  ASSUME RegistrationInv, [RegistrationNext]_registration
  PROVE  RegistrationInv'
<1>1. ASSUME NEW d \in Domain, SetDomain(d)
      PROVE  RegistrationInv'
  BY <1>1, SetDomainKeeps
<1>2. ASSUME NEW d \in Domain, NEW types \in SUBSET Type, AddDomain(d, types)
      PROVE  RegistrationInv'
  <2>1. kind \in ManyDomains /\ RegisterInMap("domain", d, types) /\ "domain" \in Uses /\ d \in Key
        /\ Mapped("domain") /\ kind \notin OneDomain
    BY <1>2 DEF AddDomain, Uses, Key, Mapped, InSlice, ManyDomains, OneDomain
  <2> QED  BY <2>1, MapKeeps
<1>3. ASSUME NEW t \in Type, On(t)
      PROVE  RegistrationInv'
  BY <1>3, OnKeeps
<1>4. ASSUME NEW t \in Type, Handles(t)
      PROVE  RegistrationInv'
  <2>1. kind \notin Sliced /\ kind \notin OneDomain
    BY <1>4 DEF Handles, Bases, Sliced, OneDomain
  <2>2. RegisterInMap("handle", t, {}) /\ "handle" \in Uses /\ t \in Key /\ Mapped("handle") /\ {} \in SUBSET Type
    BY <1>4, <2>1 DEF Handles, Uses, Key, Mapped, InSlice
  <2> QED  BY <2>1, <2>2, MapKeeps
<1>5. ASSUME NEW t \in Type, HandlesMulti(t)
      PROVE  RegistrationInv'
  <2>1. /\ kind = "CommandHandlerBase" /\ RegisterInMap("multi", t, {}) /\ "multi" \in Uses /\ t \in Key
        /\ Mapped("multi") /\ {} \in SUBSET Type /\ kind \notin OneDomain
    BY <1>5 DEF HandlesMulti, Uses, Key, Mapped, InSlice, OneDomain
  <2> QED  BY <2>1, MapKeeps
<1>6. ASSUME NEW s \in Short, OnSuffix(s)
      PROVE  RegistrationInv'
  <2>1. /\ kind = "CloudEventsRouter" /\ RegisterInMap("handle", s, {}) /\ "handle" \in Uses /\ s \in Key
        /\ Mapped("handle") /\ {} \in SUBSET Type /\ kind \notin OneDomain
    BY <1>6 DEF OnSuffix, Uses, Key, Mapped, InSlice, OneDomain, Sliced
  <2> QED  BY <2>1, MapKeeps
<1>7. ASSUME NEW t \in Type, Applies(t)
      PROVE  RegistrationInv'
  <2>1. /\ RegisterInMap("apply", t, {}) /\ "apply" \in Uses /\ t \in Key
        /\ Mapped("apply") /\ {} \in SUBSET Type /\ kind \notin OneDomain
    BY <1>7 DEF Applies, Uses, Key, Mapped, InSlice, OneDomain
  <2> QED  BY <2>1, MapKeeps
<1>8. ASSUME NEW d \in Domain, NEW t \in Type, OnRejected(d, t)
      PROVE  RegistrationInv'
  <2>1. /\ RegisterInMap("reject", <<d, t>>, {}) /\ "reject" \in Uses /\ <<d, t>> \in Key
        /\ Mapped("reject") /\ {} \in SUBSET Type /\ kind \notin OneDomain
    BY <1>8 DEF OnRejected, Uses, Key, Mapped, InSlice, OneDomain
  <2> QED  BY <2>1, MapKeeps
<1>9. CASE UNCHANGED <<kind, calls, current, slice, table>>
  BY <1>9 DEF RegistrationInv, RegistrationTypes, MapsFollowCalls, SlicesFollowCalls, SliceSound,
              SliceOrdered, SliceComplete, SliceHasFirst, CurrentFollowsCalls, KindsFollowed,
              LastCall, IsCall, UnderDomain, FirstInSlice, Fits, InSlice, Mapped
<1>10. OnPanics \/ Ready \/ UNCHANGED registration => UNCHANGED <<kind, calls, current, slice, table>>
  BY DEF OnPanics, Ready, registration
<1> QED  BY <1>1, <1>2, <1>3, <1>4, <1>5, <1>6, <1>7, <1>8, <1>9, <1>10 DEF RegistrationNext

-------------------------------------------------------------------------------
(* What follows from the invariant *)

\* A map finds the last call for its key.
LEMMA MapFindsLast ==
  ASSUME RegistrationInv, NEW use \in Uses, Mapped(use), NEW key
  PROVE  InMap(use, key) = {i \in DOMAIN calls : LastCall(i, use, key)}
<1> USE DEF RegistrationInv
<1>1. CASE <<use, key>> \in DOMAIN table
  <2>1. LastCall(table[<<use, key>>], use, key)
    BY <1>1 DEF MapsFollowCalls
  <2>2. table[<<use, key>>] \in DOMAIN calls
    BY <2>1 DEF LastCall
  <2>3. \A i \in DOMAIN calls : LastCall(i, use, key) => i = table[<<use, key>>]
    BY <2>1, OneLastCall
  <2> QED  BY <1>1, <2>1, <2>2, <2>3 DEF InMap
<1>2. CASE <<use, key>> \notin DOMAIN table
  <2>1. \A i \in DOMAIN calls : ~IsCall(i, use, key)
    BY <1>2 DEF MapsFollowCalls, IsCall
  <2> QED  BY <1>2, <2>1 DEF InMap, LastCall
<1> QED  BY <1>1, <1>2

\* A slice finds the first call for its domain and type.
LEMMA SliceFindsFirst ==
  ASSUME RegistrationInv, kind \in Sliced, NEW d \in Domain, NEW t \in Type
  PROVE  FirstInSlice(d, t) = {i \in DOMAIN calls : FirstAsked(i, d, t)}
<1> USE DEF RegistrationInv, SlicesFollowCalls
\* An entry fits if its call asks for the domain and type.
<1>1. ASSUME NEW m \in DOMAIN slice
      PROVE  Fits(slice[m], d, t) <=> Asks(slice[m].by, d, t)
  <2>1. slice[m].by \in DOMAIN calls /\ slice[m].by \in 1..Len(calls) + 1
        /\ (slice[m].name = t <=> IsCall(slice[m].by, "handle", t))
    BY DEF SliceSound, IsCall, RegistrationTypes
  <2>2. ASSUME kind = "EventRouter"
        PROVE  slice[m].domain = d <=> UnderDomain(slice[m].by, d)
    <3>1. UnderDomain(slice[m].by, slice[m].domain)
      BY <2>2 DEF SliceSound
    <3> QED  BY <2>1, <3>1, OneDomainAtATime
  <2> QED  BY <2>1, <2>2 DEF Fits, Asks
<1>2. ASSUME NEW i \in DOMAIN calls, Asks(i, d, t)
      PROVE  \E m \in DOMAIN slice : slice[m].by = i
  BY <1>2 DEF Asks, IsCall, SliceComplete, InSlice
<1>3. DOMAIN slice = 1..Len(slice) /\ Len(slice) \in Nat /\ DOMAIN calls = 1..Len(calls) /\ Len(calls) \in Nat
  BY DEF RegistrationTypes
<1>4. ASSUME NEW m \in DOMAIN slice, Fits(slice[m], d, t), \A l \in 1..m-1 : ~Fits(slice[l], d, t)
      PROVE  slice[m].by \in DOMAIN calls /\ FirstAsked(slice[m].by, d, t)
  <2>1. slice[m].by \in DOMAIN calls /\ Asks(slice[m].by, d, t)
    BY <1>1, <1>4 DEF SliceSound
  <2>2. ASSUME NEW j \in 1..slice[m].by - 1, Asks(j, d, t)
        PROVE  FALSE
    <3>1. j \in DOMAIN calls /\ j < slice[m].by
      BY <1>3, <2>1
    <3>2. PICK l \in DOMAIN slice : slice[l].by = j
      BY <1>2, <2>2, <3>1
    <3>3. l < m
      BY <1>3, <2>1, <3>1, <3>2 DEF SliceOrdered
    <3>4. Fits(slice[l], d, t)
      BY <1>1, <2>2, <3>2
    <3> QED  BY <1>3, <1>4, <3>3, <3>4
  <2> QED  BY <2>1, <2>2 DEF FirstAsked
<1>5. ASSUME NEW i \in DOMAIN calls, FirstAsked(i, d, t)
      PROVE  i \in FirstInSlice(d, t)
  <2>1. PICK m \in DOMAIN slice : slice[m].by = i
    BY <1>2, <1>5 DEF FirstAsked
  <2>2. Fits(slice[m], d, t)
    BY <1>1, <1>5, <2>1 DEF FirstAsked
  <2>3. ASSUME NEW l \in 1..m-1, Fits(slice[l], d, t)
        PROVE  FALSE
    <3>1. l \in DOMAIN slice /\ l < m
      BY <1>3
    <3>2. slice[l].by \in DOMAIN calls /\ slice[l].by < i
      BY <2>1, <3>1 DEF SliceOrdered, SliceSound
    <3>3. Asks(slice[l].by, d, t)
      BY <1>1, <2>3, <3>1
    <3> QED  BY <1>3, <1>5, <3>2, <3>3 DEF FirstAsked
  <2> QED  BY <2>1, <2>2, <2>3 DEF FirstInSlice
<1> QED  BY <1>4, <1>5 DEF FirstInSlice

\* A map finds nothing for a key only if there is no call for it.
LEMMA MapFindsSome ==
  ASSUME RegistrationInv, NEW use \in Uses, Mapped(use), NEW key
  PROVE  InMap(use, key) = {} <=> \A i \in DOMAIN calls : ~IsCall(i, use, key)
<1>1. InMap(use, key) = {} <=> <<use, key>> \notin DOMAIN table
  BY DEF InMap
<1>2. <<use, key>> \in DOMAIN table => \E i \in DOMAIN calls : IsCall(i, use, key)
  BY DEF RegistrationInv, MapsFollowCalls, LastCall
<1>3. ASSUME NEW i \in DOMAIN calls, IsCall(i, use, key)
      PROVE  <<use, key>> \in DOMAIN table
  BY <1>3 DEF RegistrationInv, MapsFollowCalls, IsCall
<1> QED  BY <1>1, <1>2, <1>3

\* The type of a handler that runs is one of HandlerTypes, and the other way.
LEMMA HandlerTypesRun ==
  ASSUME RegistrationInv, NEW t
  PROVE  t \in HandlerTypes <=> InMap("handle", t) # {} \/ InMap("multi", t) # {}
<1>1. ASSUME t \in HandlerTypes
      PROVE  InMap("handle", t) # {} \/ InMap("multi", t) # {}
  <2>1. PICK k \in DOMAIN table : k[1] \in {"handle", "multi"} /\ k[2] = t
    BY <1>1 DEF HandlerTypes
  <2>2. k = <<k[1], t>>
    BY <2>1 DEF RegistrationInv, MapsFollowCalls
  <2> QED  BY <2>1, <2>2 DEF InMap
<1>2. ASSUME NEW use \in {"handle", "multi"}, InMap(use, t) # {}
      PROVE  t \in HandlerTypes
  <2> DEFINE k == <<use, t>>
  <2>1. k \in DOMAIN table /\ k[1] \in {"handle", "multi"} /\ k[2] = t
    BY <1>2 DEF InMap
  <2> HIDE DEF k
  <2> QED  BY <2>1 DEF HandlerTypes
<1> QED  BY <1>1, <1>2

LEMMA OnlyCommandHandlersMulti ==
  ASSUME RegistrationInv, kind # "CommandHandlerBase", NEW t
  PROVE  /\ InMap("multi", t) = {}
         /\ \A i \in DOMAIN calls : ~LastCall(i, "multi", t)
<1>1. \A i \in DOMAIN calls : ~IsCall(i, "multi", t)
  BY DEF RegistrationInv, KindsFollowed, IsCall
<1>2. "multi" \in Uses /\ Mapped("multi")
  BY DEF Uses, Mapped, InSlice
<1> QED  BY <1>1, <1>2, MapFindsSome DEF LastCall

LEMMA HandlersMeant ==
  ASSUME RegistrationInv, NEW d \in Domain, NEW t \in Type
  PROVE  Dispatch(d, t) = {i \in DOMAIN calls : Meant(i, d, t)}
<1> USE DEF Uses
<1>1. CASE kind \in Sliced
  BY <1>1, SliceFindsFirst DEF Dispatch, Meant, Sliced, Bases, OneDomain, ManyDomains
<1>2. CASE kind \in Bases
  <2>1. kind \notin Sliced /\ Mapped("handle") /\ Mapped("multi")
    BY <1>2 DEF Bases, Sliced, Mapped, InSlice
  <2>2. /\ InMap("handle", t) = {i \in DOMAIN calls : LastCall(i, "handle", t)}
        /\ InMap("multi", t) = {i \in DOMAIN calls : LastCall(i, "multi", t)}
        /\ InMap("handle", t) = {} <=> \A i \in DOMAIN calls : ~IsCall(i, "handle", t)
    BY <2>1, MapFindsLast, MapFindsSome
  <2>3. kind # "CommandHandlerBase" => \A i \in DOMAIN calls : ~LastCall(i, "multi", t)
    BY OnlyCommandHandlersMulti
  <2>4. HandlerOf(t) = {i \in DOMAIN calls :
          LastCall(i, "handle", t) \/ (LastCall(i, "multi", t) /\ \A j \in DOMAIN calls : ~IsCall(j, "handle", t))}
    <3>1. CASE InMap("handle", t) = {}
      BY <2>2, <2>3, <3>1 DEF HandlerOf
    <3>2. CASE InMap("handle", t) # {}
      BY <2>2, <2>3, <3>2 DEF HandlerOf
    <3> QED  BY <3>1, <3>2
  <2>5. Dispatch(d, t) = HandlerOf(t)
    BY <1>2, <2>1 DEF Dispatch, Sliced, Bases, OneDomain, ManyDomains
  <2>6. \A i : Meant(i, d, t) <=>
          LastCall(i, "handle", t) \/ (LastCall(i, "multi", t) /\ \A j \in DOMAIN calls : ~IsCall(j, "handle", t))
    BY <1>2, <2>1 DEF Meant, Sliced, Bases, OneDomain, ManyDomains
  <2> QED  BY <2>4, <2>5, <2>6
<1>3. CASE kind = "CloudEventsRouter"
  <2>1. kind \notin Sliced /\ kind \notin Bases /\ Mapped("handle")
    BY <1>3 DEF Bases, Sliced, Mapped, InSlice
  <2>2. \A x : InMap("handle", x) = {i \in DOMAIN calls : LastCall(i, "handle", x)}
    BY <2>1, MapFindsLast
  <2> QED  BY <1>3, <2>1, <2>2 DEF Dispatch, Meant, PublishersOf, Sliced, Bases, OneDomain, ManyDomains
<1>4. CASE kind \in OneDomain
  <2>1. kind \notin Sliced /\ kind \notin Bases /\ kind # "CloudEventsRouter" /\ Mapped("domain")
    BY <1>4 DEF Bases, Sliced, OneDomain, Mapped, InSlice
  <2>2. \A e : InMap("domain", e) = {i \in DOMAIN calls : LastCall(i, "domain", e)}
    BY <2>1, MapFindsLast
  <2>3. DOMAIN calls = {1} /\ calls[1].key \in Domain /\ IsCall(1, "domain", calls[1].key)
    BY <1>4 DEF RegistrationInv, KindsFollowed, RegistrationTypes, IsCall
  <2>4. LastCall(1, "domain", calls[1].key)
    BY <2>3 DEF LastCall
  <2>5. DomainHandlerOf(d) = {1}
    BY <1>4, <2>2, <2>3, <2>4 DEF DomainHandlerOf
  <2> QED  BY <1>4, <2>1, <2>3, <2>5 DEF Dispatch, Meant
<1>5. CASE kind \in ManyDomains
  <2>1. kind \notin Sliced /\ kind \notin Bases /\ kind # "CloudEventsRouter" /\ kind \notin OneDomain /\ Mapped("domain")
    BY <1>5 DEF Bases, Sliced, OneDomain, ManyDomains, Mapped, InSlice
  <2>2. InMap("domain", d) = {i \in DOMAIN calls : LastCall(i, "domain", d)}
    BY <2>1, MapFindsLast
  <2> QED  BY <2>1, <2>2 DEF Dispatch, Meant, DomainHandlerOf
<1> QED  BY <1>1, <1>2, <1>3, <1>4, <1>5 DEF RegistrationInv, RegistrationTypes, Kinds

LEMMA KeysMeant ==
  ASSUME RegistrationInv
  PROVE  DispatchAsMeant
<1>1. ASSUME NEW use \in {"apply", "reject"}, NEW key
      PROVE  InMap(use, key) = {i \in DOMAIN calls : LastCall(i, use, key)}
  <2>1. use \in Uses /\ Mapped(use)
    BY DEF Uses, Mapped, InSlice
  <2> QED  BY <2>1, MapFindsLast
<1> QED  BY <1>1, HandlersMeant DEF DispatchAsMeant

LEMMA SubscriptionsHandled ==
  ASSUME RegistrationInv
  PROVE  SubscribedIsHandled
<1> SUFFICES ASSUME NEW d \in Domain, NEW t \in Type
             PROVE  /\ Subscribed(d, t) => Dispatch(d, t) # {}
                    /\ kind \notin OneDomain \cup ManyDomains /\ Dispatch(d, t) # {} => Subscribed(d, t)
  BY DEF SubscribedIsHandled
<1> USE DEF Uses
<1>1. CASE kind \in Sliced
  <2>1. FirstInSlice(d, t) # {} <=> \E m \in DOMAIN slice : Fits(slice[m], d, t)
    BY <1>1 DEF RegistrationInv, SlicesFollowCalls, SliceHasFirst, FirstInSlice
  <2>2. Dispatch(d, t) = FirstInSlice(d, t)
    BY <1>1 DEF Dispatch, Sliced, Bases, OneDomain, ManyDomains
  <2>3. CASE kind = "EventRouter"
    <3>1. Subscribed(d, t) <=> \E m \in DOMAIN slice : slice[m].domain = d /\ slice[m].name = t
      BY <2>3 DEF Subscribed, SliceSubscriptions, Sliced, Bases, OneDomain, ManyDomains
    <3> QED  BY <2>1, <2>2, <2>3, <3>1 DEF Fits
  <2>4. CASE kind # "EventRouter"
    <3>1. Subscribed(d, t) <=> \E m \in DOMAIN slice : slice[m].name = t
      BY <1>1, <2>4 DEF Subscribed, Sliced, Bases, OneDomain, ManyDomains
    <3> QED  BY <2>1, <2>2, <2>4, <3>1 DEF Fits
  <2> QED  BY <2>3, <2>4
<1>2. CASE kind \in Bases
  <2>1. kind \notin Sliced /\ kind # "EventRouter"
    BY <1>2 DEF Bases, Sliced
  <2>2. Dispatch(d, t) = HandlerOf(t) /\ (Subscribed(d, t) <=> t \in HandlerTypes)
    BY <1>2, <2>1 DEF Dispatch, Subscribed, Sliced, Bases, OneDomain, ManyDomains
  <2>3. kind # "CommandHandlerBase" => InMap("multi", t) = {}
    BY OnlyCommandHandlersMulti
  <2> QED  BY <2>2, <2>3, HandlerTypesRun DEF HandlerOf
<1>3. CASE kind = "CloudEventsRouter"
  <2>1. kind \notin Sliced /\ kind # "EventRouter" /\ kind \notin Bases /\ kind # "CommandHandlerBase"
    BY <1>3 DEF Bases, Sliced
  <2>2. Dispatch(d, t) = PublishersOf(t) /\ (Subscribed(d, t) <=> {t, ShortName[t]} \cap HandlerTypes # {})
    BY <1>3, <2>1 DEF Dispatch, Subscribed, Sliced, Bases, OneDomain, ManyDomains
  <2>3. \A x : InMap("multi", x) = {} /\ (x \in HandlerTypes <=> InMap("handle", x) # {})
    BY <2>1, OnlyCommandHandlersMulti, HandlerTypesRun
  <2> QED  BY <2>2, <2>3 DEF PublishersOf
<1>4. CASE kind \in OneDomain \cup ManyDomains
  <2>1. kind \notin Sliced /\ kind # "EventRouter" /\ kind \notin Bases /\ kind # "CloudEventsRouter"
    BY <1>4 DEF Bases, Sliced, OneDomain, ManyDomains
  <2>2. Dispatch(d, t) = DomainHandlerOf(d) /\ (Subscribed(d, t) <=> <<d, t>> \in TraitSubscriptions)
    BY <1>4, <2>1 DEF Dispatch, Subscribed
  <2>3. ASSUME <<d, t>> \in TraitSubscriptions
        PROVE  InMap("domain", d) # {}
    <3>1. PICK k \in DOMAIN table : k[1] = "domain" /\ k[2] = d
      BY <2>3 DEF TraitSubscriptions
    <3>2. k = <<"domain", d>>
      BY <3>1 DEF RegistrationInv, MapsFollowCalls
    <3> QED  BY <3>1, <3>2 DEF InMap
  <2> QED  BY <1>4, <2>2, <2>3 DEF DomainHandlerOf
<1> QED  BY <1>1, <1>2, <1>3, <1>4 DEF RegistrationInv, RegistrationTypes, Kinds

-------------------------------------------------------------------------------
(* The theorems *)

THEOREM RegistrationInvariant == RegistrationSpec => []RegistrationInv
<1>1. RegistrationInit => RegistrationInv
  BY InitRegistration, RegistrationAssumption
<1>2. RegistrationInv /\ [RegistrationNext]_registration => RegistrationInv'
  BY RegistrationKept
<1> QED  BY <1>1, <1>2, PTL DEF RegistrationSpec

\* Whatever a program registers and in whatever order, the handler that runs
\* is the one it asked for: RegistrationsCount's first part.
THEOREM DispatchMeant == RegistrationSpec => []DispatchAsMeant
<1>1. RegistrationInv => DispatchAsMeant
  BY KeysMeant
<1> QED  BY <1>1, RegistrationInvariant, PTL

\* A component subscribes to what it handles, and to nothing else unless the
\* handler tells types apart itself: its second part.
THEOREM SubscriptionsMeant == RegistrationSpec => []SubscribedIsHandled
<1>1. RegistrationInv => SubscribedIsHandled
  BY SubscriptionsHandled
<1> QED  BY <1>1, RegistrationInvariant, PTL

-------------------------------------------------------------------------------
(* A program that serves *)

\* Registration and the saga keep out of each other's way: a program is both.
THEOREM ProgramIsBoth == ProgramSpec => RegistrationSpec /\ Spec
<1>1. ProgramInit => RegistrationInit /\ Init
  BY DEF ProgramInit
<1>2. [ProgramNext]_program => [RegistrationNext]_registration
  BY DEF ProgramNext, program
<1>3. [ProgramNext]_program => [Next]_vars
  BY DEF ProgramNext, program
<1> QED  BY <1>1, <1>2, <1>3, PTL DEF ProgramSpec, RegistrationSpec, Spec

\* In a program that serves, what was registered is what runs and what is
\* sent, whatever happens later.
THEOREM RegistrationsCounted == ProgramSpec => []RegistrationsCount
<1>1. DispatchAsMeant /\ SubscribedIsHandled => RegistrationsCount
  BY DEF RegistrationsCount
<1> QED  BY <1>1, ProgramIsBoth, DispatchMeant, SubscriptionsMeant, PTL

\* And the saga it serves with answers for the whole of each source book, with
\* the facts of its own call if calls do not overlap.
THEOREM ProgramAnswers ==
  ASSUME Serialised PROVE ProgramSpec => []ResponseCoversSource /\ []ReplyCarriesOwnFacts
<1>1. Spec => []ReplyCarriesOwnFacts
  BY OwnFacts
<1> QED  BY <1>1, ProgramIsBoth, SourceCovered, PTL
===============================================================================
