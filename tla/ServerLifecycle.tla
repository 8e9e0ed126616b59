---------------------------- MODULE ServerLifecycle ----------------------------
(***************************************************************************)
(* The life of component servers that share one address (server.go): the   *)
(* processes of one component, one after the other or overlapping as in a  *)
(* rolling restart.  Each process is started with the same environment, so *)
(* it computes the same Unix socket path or the same TCP port.             *)
(*                                                                         *)
(* A socket file outlives the process that bound it.  A file is removed by *)
(* its path, whoever bound it: by GetTransportConfig, by the cleanup       *)
(* function, and by Go's listener when it is closed.  The errors of these  *)
(* removals are dropped.  A TCP port is freed with its process.            *)
(***************************************************************************)
EXTENDS Naturals

CONSTANTS
  Process,
  Nobody,       \* no file, or a free port
  Deployment,   \* the ways in which the component may be deployed
  MaxStarts     \* bound on the starts of one process

ASSUME ServerAssumption ==
  /\ Nobody \notin Process
  /\ Deployment \subseteq [transport : {"tcp", "uds"}, runServer : BOOLEAN, overlap : BOOLEAN]
  /\ MaxStarts \in Nat

VARIABLES
  deployed, \* transport: TRANSPORT_TYPE; runServer: RunServer, or embedding code
            \* around CreateServer; overlap: may a process start before the
            \* others are down?
  pc,       \* where each process is
  address,  \* the process whose listener made what is at the address
  usable,   \* may the address be bound: the socket directory is there and can
            \* be written, the port is permitted
  starts,   \* how often each process was started
  crashed,  \* the processes whose last life ended in a crash
  denied    \* the processes whose last life met an address that is not usable

vars == <<deployed, pc, address, usable, starts, crashed, denied>>

Steps == {"down", "configured", "listening", "announced", "serving",
          "stopping", "closed", "panicked"}

\* The processes whose listener is open.
Listening == {p \in Process : pc[p] \in {"listening", "announced", "serving", "stopping"}}

TypeOK ==
  /\ deployed \in Deployment
  /\ pc \in [Process -> Steps]
  /\ address \in Process \cup {Nobody}
  /\ usable \in BOOLEAN
  /\ starts \in [Process -> 0..MaxStarts]
  /\ crashed \subseteq Process /\ denied \subseteq Process

Init ==
  /\ deployed \in Deployment
  /\ pc = [p \in Process |-> "down"]
  /\ address = Nobody
  /\ usable \in BOOLEAN
  /\ starts = [p \in Process |-> 0]
  /\ crashed = {} /\ denied = {}

Goto(p, from, to) ==
  /\ pc[p] = from
  /\ pc' = [pc EXCEPT ![p] = to]
  /\ UNCHANGED <<deployed, usable>>

-------------------------------------------------------------------------------

\* Faulty variant of RemoveSocket: the stale file is left for Listen to find.
KeepSocket(p, noted) == UNCHANGED address /\ denied' = noted

\* GetTransportConfig computes the path, makes its directory and removes the
\* file there; it does not look whether anybody listens on it, and goes on
\* when MkdirAll or Remove fails.  The cleanup removes the same path.
RemoveSocket(p, noted) ==
  /\ address' = IF deployed.transport = "uds" /\ usable THEN Nobody ELSE address
  /\ denied' = noted \cup (IF deployed.transport = "uds" /\ ~usable THEN {p} ELSE {})

\* CreateServer, up to the configuration.
Configure(p) ==
  /\ Goto(p, "down", "configured")
  /\ starts[p] < MaxStarts
  /\ starts' = [starts EXCEPT ![p] = @ + 1]
  /\ deployed.overlap \/ \A q \in Process \ {p} : pc[q] \in {"down", "panicked"}
  /\ crashed' = crashed \ {p}
  /\ RemoveSocket(p, denied \ {p})

\* net.Listen succeeds when nothing is at the address, not even a stale file.
Listen(p) ==
  /\ Goto(p, "configured", "listening")
  /\ usable /\ address = Nobody
  /\ address' = p
  /\ UNCHANGED <<starts, crashed, denied>>

\* Faulty variant of ListenFails: CreateServer goes on without a listener.
ListenErrorIgnored(p) ==
  /\ Goto(p, "configured", "unbound")
  /\ address # Nobody \/ ~usable
  /\ UNCHANGED <<address, starts, crashed, denied>>

\* Otherwise CreateServer panics.
ListenFails(p) ==
  /\ Goto(p, "configured", "panicked")
  /\ address # Nobody \/ ~usable
  /\ denied' = IF usable THEN denied ELSE denied \cup {p}
  /\ UNCHANGED <<address, starts, crashed>>

\* Faulty variant of Announce: what RunServer does, in embedding code too.
AnnounceAlways(p) ==
  /\ Goto(p, "listening", "announced")
  /\ RemoveSocket(p, denied)
  /\ UNCHANGED <<starts, crashed>>

\* RunServer asks GetTransportConfig again for the address it prints.
Announce(p) ==
  /\ Goto(p, "listening", "announced")
  /\ IF deployed.runServer THEN RemoveSocket(p, denied) ELSE UNCHANGED <<address, denied>>
  /\ UNCHANGED <<starts, crashed>>

Serve(p) ==
  /\ Goto(p, "announced", "serving")
  /\ UNCHANGED <<address, starts, crashed, denied>>

\* SIGINT or SIGTERM once RunServer (or embedding code) catches it.
Signal(p) ==
  /\ Goto(p, "announced", "stopping") \/ Goto(p, "serving", "stopping")
  /\ UNCHANGED <<address, starts, crashed, denied>>

\* Faulty variant of CloseListener: the file stays until the cleanup.
CloseKeepingFile(p) ==
  /\ Goto(p, "stopping", "closed") \/ Goto(p, "serving", "closed")
  /\ UNCHANGED <<address, starts, crashed, denied>>

\* GracefulStop (or Serve, after an accept error) closes the listener.  A
\* Unix listener unlinks its path, whoever bound what is there now; a TCP
\* listener frees its own port.
CloseListener(p) ==
  /\ Goto(p, "stopping", "closed") \/ Goto(p, "serving", "closed")
  /\ IF deployed.transport = "tcp" /\ address = p
     THEN address' = Nobody /\ UNCHANGED denied
     ELSE RemoveSocket(p, denied)
  /\ UNCHANGED <<starts, crashed>>

\* The deferred cleanup function removes the path once more.
Cleanup(p) ==
  /\ Goto(p, "closed", "down")
  /\ RemoveSocket(p, denied)
  /\ UNCHANGED <<starts, crashed>>

\* SIGKILL, a panic of the user's code, or a signal before it is caught: no
\* deferred call runs, the file stays and the port is freed.
Crash(p) ==
  /\ pc[p] \notin {"down", "panicked"}
  /\ pc' = [pc EXCEPT ![p] = "down"]
  /\ address' = IF deployed.transport = "tcp" /\ address = p THEN Nobody ELSE address
  /\ crashed' = crashed \cup {p}
  /\ UNCHANGED <<deployed, usable, starts, denied>>

\* The address becomes usable or stops being so: a directory is removed or
\* remounted, its owner or the port's permission changes.
Surroundings ==
  /\ usable' = ~usable
  /\ UNCHANGED <<deployed, pc, address, starts, crashed, denied>>

Advance(p) ==
  \/ Listen(p) \/ ListenFails(p) \/ Announce(p) \/ Serve(p)
  \/ Cleanup(p)
  \/ pc[p] = "stopping" /\ CloseListener(p)

Next ==
  \/ \E p \in Process :
       Configure(p) \/ Advance(p) \/ Signal(p) \/ CloseListener(p) \/ Crash(p)
  \/ Surroundings

\* A process that was started or told to stop gets on with it.
Spec == Init /\ [][Next]_vars /\ \A p \in Process : WF_vars(Advance(p))

-------------------------------------------------------------------------------
(* Properties *)

\* A process that serves can be reached: what is at the address is its own
\* listener.
ServingIsReachable == \A p \in Process : pc[p] = "serving" => address = p

\* Unless processes overlap, net.Listen finds the address free, whatever a
\* crashed predecessor left behind, and CreateServer panics only when the
\* address could not be used.
StartNeverPanics ==
  ~deployed.overlap => \A p \in Process : pc[p] = "panicked" => p \in denied

\* "Remove stale socket file if exists" (server.go:69): GetTransportConfig
\* takes no file away from a process that listens on it.
OnlyStaleSocketsRemoved ==
  [][\A p \in Process :
       (Configure(p) \/ Announce(p)) /\ address \in Listening =>
         address' = address]_vars

\* A stop in order leaves no socket file behind: a file nobody listens on
\* was bound by a process that crashed, or that could not remove it.
OnlyCrashesLeaveSockets == address # Nobody => address \in Listening \cup crashed \cup denied

\* A start ends in a server that can be reached, unless it is stopped, dies,
\* or finds the address unusable or held by a process it overlaps with; none
\* is left half-started.
StartIsCompleted == \A p \in Process :
  pc[p] = "configured" ~> \/ pc[p] = "serving" /\ address = p
                          \/ pc[p] \in {"stopping", "down"}
                          \/ pc[p] = "panicked" /\ (deployed.overlap \/ p \in denied)
===============================================================================
