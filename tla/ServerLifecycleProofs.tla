------------------------- MODULE ServerLifecycleProofs -------------------------
(***************************************************************************)
(* Proofs about ServerLifecycle for any number of processes, any set of    *)
(* deployments and any number of starts.                                   *)
(***************************************************************************)
EXTENDS ServerLifecycle, TLAPS

Up == {p \in Process : pc[p] \notin {"down", "panicked"}}

(***************************************************************************)
(* What is at the address was put there by a listener that is still open,  *)
(* or on a Unix socket by one that died with its process or could not      *)
(* remove it.  Without overlap at most one process is up, and while it is  *)
(* about to listen nothing is at the address, or it could not be removed.  *)
(***************************************************************************)
AddressHasOwner ==
  address # Nobody =>
    \/ address \in Listening
    \/ address \in crashed \cup denied /\ deployed.transport = "uds"

OneAtATime == ~deployed.overlap =>
  /\ \A p, q \in Up : p = q
  /\ \A p \in Process : pc[p] = "panicked" => p \in denied
  /\ \A p \in Process : pc[p] = "configured" => address = Nobody \/ p \in denied

\* Without RunServer on a Unix socket, and without overlap there, a listener
\* keeps its address.
ListenerKeepsAddress ==
  (deployed.transport = "uds" => ~deployed.runServer /\ ~deployed.overlap) =>
    \A p \in Listening : address = p

ServerInv == TypeOK /\ AddressHasOwner /\ OneAtATime /\ ListenerKeepsAddress

LEMMA InitServer == Init => ServerInv
BY ServerAssumption
DEF Init, ServerInv, TypeOK, AddressHasOwner, OneAtATime, ListenerKeepsAddress, Up, Listening, Steps

\* Every step of a process keeps the invariant.
LEMMA StepServer ==
  ASSUME ServerInv, NEW p \in Process,
         Configure(p) \/ Advance(p) \/ Signal(p) \/ CloseListener(p) \/ Crash(p)
  PROVE  ServerInv'
<1> USE ServerAssumption
    DEF ServerInv, TypeOK, AddressHasOwner, OneAtATime, ListenerKeepsAddress, Up, Listening,
        Steps, Goto
<1>1. CASE Configure(p)
  BY <1>1 DEF Configure, RemoveSocket
<1>2. CASE Listen(p)
  BY <1>2 DEF Listen
<1>3. CASE ListenFails(p)
  BY <1>3 DEF ListenFails
<1>4. CASE Announce(p)
  BY <1>4 DEF Announce, RemoveSocket
<1>5. CASE Serve(p)
  BY <1>5 DEF Serve
<1>6. CASE Signal(p)
  BY <1>6 DEF Signal
<1>7. CASE CloseListener(p)
  BY <1>7 DEF CloseListener, RemoveSocket
<1>8. CASE Cleanup(p)
  BY <1>8 DEF Cleanup, RemoveSocket
<1>9. CASE Crash(p)
  BY <1>9 DEF Crash
<1> QED
  BY <1>1, <1>2, <1>3, <1>4, <1>5, <1>6, <1>7, <1>8, <1>9 DEF Advance

LEMMA NextServer == ServerInv /\ [Next]_vars => ServerInv'
<1> SUFFICES ASSUME ServerInv, [Next]_vars PROVE ServerInv'
  OBVIOUS
<1>1. CASE \E p \in Process :
             Configure(p) \/ Advance(p) \/ Signal(p) \/ CloseListener(p) \/ Crash(p)
  BY <1>1, StepServer
<1>2. CASE UNCHANGED vars
  BY <1>2
  DEF ServerInv, TypeOK, AddressHasOwner, OneAtATime, ListenerKeepsAddress, Up, Listening, Steps, vars
<1>3. CASE Surroundings
  BY <1>3
  DEF ServerInv, TypeOK, AddressHasOwner, OneAtATime, ListenerKeepsAddress, Up, Listening, Steps,
      Surroundings
<1> QED
  BY <1>1, <1>2, <1>3 DEF Next

LEMMA ServerInvariant == Spec => []ServerInv
BY InitServer, NextServer, PTL DEF Spec

\* The state keeps its types.
THEOREM ServerTypeCorrect == Spec => []TypeOK
<1>1. ServerInv => TypeOK
  BY DEF ServerInv
<1> QED
  BY <1>1, ServerInvariant, PTL

\* Unless processes overlap, CreateServer panics only when the address could
\* not be used, whatever crashed before.
THEOREM StartsSafe == Spec => []StartNeverPanics
<1>1. ServerInv => StartNeverPanics
  BY DEF ServerInv, OneAtATime, StartNeverPanics
<1> QED
  BY <1>1, ServerInvariant, PTL

\* In every deployment, a file nobody listens on was left by a process that
\* crashed or could not remove it.
THEOREM SocketsSafe == Spec => []OnlyCrashesLeaveSockets
<1>1. ServerInv => OnlyCrashesLeaveSockets
  BY DEF ServerInv, AddressHasOwner, OnlyCrashesLeaveSockets
<1> QED
  BY <1>1, ServerInvariant, PTL

\* Deployments in which a listener keeps its address: TCP, and CreateServer
\* on a Unix socket, one process after the other.
SoundDeployment ==
  \A d \in Deployment : d.transport = "uds" => ~d.runServer /\ ~d.overlap

\* In these a process that serves can be reached.
THEOREM ReachableSafe ==
  ASSUME SoundDeployment PROVE Spec => []ServingIsReachable
<1>1. ServerInv => ServingIsReachable
  BY DEF ServerInv, TypeOK, SoundDeployment, ListenerKeepsAddress, ServingIsReachable, Listening
<1> QED
  BY <1>1, ServerInvariant, PTL
===============================================================================
