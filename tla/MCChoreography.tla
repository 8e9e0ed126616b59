---------------------------- MODULE MCChoreography ----------------------------
(* Choreography for TLC: one request of each kind that the two command       *)
(* routers tell apart, and two commands of one domain; and what envelopes    *)
(* say, evaluated for small ones of every shape.                             *)
EXTENDS Choreography, Envelopes

CONSTANTS place, alert, placed, shipped, ship, pack, fulfilment, billing, uuid, bytes, name

Requests1 ==
  {[type |-> place, key |-> Garbled], [type |-> alert, key |-> NoKey], Absent}
Targets == {<<fulfilment, ship>>, <<fulfilment, pack>>}
ShipOnly == {<<fulfilment, ship>>}

MCCovers == {c \in Cover : c.root \in {uuid, Nil}} \cup {Nil}
MCHeaders ==
  {Nil, SequenceHeader(1), [kind |-> "deferred", sequence |-> 2, source |-> Nil]}
    \cup [kind : {"deferred"}, sequence : {2}, source : {c \in MCCovers \ {Nil} : c.edition = Nil}]
MCPages == [header : MCHeaders, command : {ship, Nil}]
MCCommandBooks ==
  [cover : {c \in MCCovers : c = Nil \/ c.edition = Nil}, pages : BoundedSeq(MCPages, 1)]
    \cup [cover : {Nil}, pages : BoundedSeq(MCPages, 2)]
MCRejections ==
  [typed : BOOLEAN, decodes : BOOLEAN, rejected : MCCommandBooks \cup {Nil}] \cup {Nil}
MCSequences == {Nil, << >>, fulfilment :> 1}

ASSUME WrappersChecked ==
  \A v \in Envelope : WrapperAgrees(v)
ASSUME CacheKeysChecked ==
  \A v, w \in {v \in Envelope : Addressed(v)} : CacheKeysTell(v, w)
ASSUME StampsChecked ==
  \A s \in MCSequences, b \in MCCommandBooks, d \in Domain : StampsAll(s, b, d)
ASSUME KeysChecked ==
  \A p \in MCRejections : KeysAgree(p)
ASSUME SourcesChecked ==
  \A s \in MCSequences \ {Nil}, b \in MCCommandBooks, d \in Domain : StampsHideSource(s, b, d)
===============================================================================
