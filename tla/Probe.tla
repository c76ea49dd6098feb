-------------------------------- MODULE Probe -------------------------------
(***************************************************************************)
(* The probes of one client, monitors/checkers.py, under the semaphore of  *)
(* test_target.  A probe of an Xray node starts an xray process of its own *)
(* on a local port that was free a moment ago, waits until something       *)
(* listens there, sends one request (or one download) through it and stops *)
(* the process, whatever came of it.  A probe of a TCP port or of a URL is *)
(* a request only.                                                         *)
(*                                                                         *)
(* Nothing cancels a probe while the client keeps running; when the client *)
(* ends, its container does, with every process in it.                     *)
(***************************************************************************)
EXTENDS Naturals, FiniteSets

CONSTANTS
  Probes,      \* targets that are tested at the same time
  XrayProbes,  \* those of them that are Xray nodes
  Ports,
  Permits,     \* XRAY_CONCURRENCY
  NoPort, NoProbe

ASSUME ProbeAssumption ==
  /\ XrayProbes \subseteq Probes
  /\ IsFiniteSet(Probes)
  /\ Permits \in Nat \ {0}
  /\ NoPort \notin Ports
  /\ NoProbe \notin Probes

VARIABLES
  probe,    \* probe[p]: where the coroutine is
  port,     \* port[p]: what free_port gave it
  process,  \* process[p]: its xray
  via,      \* via[p]: the probe whose xray carried its successful request
  collided  \* the probes given a port that another held and had not bound yet

vars == <<probe, port, process, via, collided>>

Init ==
  /\ probe = [p \in Probes |-> "idle"]
  /\ port = [p \in Probes |-> NoPort]
  /\ process = [p \in Probes |-> "none"]
  /\ via = [p \in Probes |-> NoProbe]
  /\ collided = {}

Go(p, pc) == probe' = [probe EXCEPT ![p] = pc]

Listens(p, x) == process[p] = "listening" /\ port[p] = x

Bound(x) == \E p \in Probes : Listens(p, x)

Alive(p) == process[p] \in {"loading", "listening"}

-----------------------------------------------------------------------------
(* The client *)

\* Mutant: the permit is returned before the process is stopped.
HoldsUntilStopped(p) == probe[p] \notin {"idle", "waiting", "stopping", "killing"}

HoldsPermit(p) == probe[p] \notin {"idle", "waiting"}

\* test_target is called, and waits for a permit.
TestTarget(p) ==
  /\ probe[p] = "idle"
  /\ Go(p, "waiting")
  /\ UNCHANGED <<port, process, via, collided>>

Acquire(p) ==
  /\ probe[p] = "waiting"
  /\ Cardinality({o \in Probes : HoldsPermit(o)}) < Permits

\* check_tcp and check_https.
StartRequest(p) ==
  /\ p \notin XrayProbes
  /\ Acquire(p)
  /\ Go(p, "request")
  /\ UNCHANGED <<port, process, via, collided>>

\* Mutant: a port is drawn without asking the system for it.
AnyPort == Ports

\* The system gives a port that nobody has bound.
free_port == {x \in Ports : ~ Bound(x)}

\* check_xray and check_xray_speed up to the start of the process.  The port is
\* released at once; the next await is the creation of the process.
StartXray(p, x) ==
  LET others == {o \in Probes \ {p} : port[o] = x /\ process[o] # "listening"}
  IN /\ p \in XrayProbes
     /\ Acquire(p)
     /\ x \in free_port
     /\ port' = [port EXCEPT ![p] = x]
     /\ collided' = IF others = {} THEN collided
                                   ELSE collided \union others \union {p}
     /\ Go(p, "starting")
     /\ UNCHANGED <<process, via>>

Spawn(p) ==
  /\ probe[p] = "starting"
  /\ process' = [process EXCEPT ![p] = "loading"]
  /\ Go(p, "wait_port")
  /\ UNCHANGED <<port, via, collided>>

\* Mutant: the port stays with the probe.
KeepPort(p) == UNCHANGED port

ForgetPort(p) == port' = [port EXCEPT ![p] = NoPort]

\* The outcome is returned, and the permit with it.
Return(p) ==
  /\ Go(p, "idle")
  /\ ForgetPort(p)
  /\ via' = [via EXCEPT ![p] = NoProbe]
  /\ collided' = collided \ {p}

\* The link is not a valid one, or there is no executable.
SpawnFails(p) ==
  /\ probe[p] = "starting"
  /\ Return(p)
  /\ UNCHANGED process

\* wait_port: something accepts a connection.
PortOpens(p) ==
  /\ probe[p] = "wait_port"
  /\ Bound(port[p])
  /\ Go(p, "request")
  /\ UNCHANGED <<port, process, via, collided>>

\* Mutant: the exception is reported and the process left alone.
Forsake(p) == Return(p)

\* stop_xray_process terminates the process unless it has ended.
Stop(p) ==
  /\ Go(p, "stopping")
  /\ UNCHANGED <<port, via, collided>>

\* wait_port finds the process gone, or gives up after five seconds.
PortStaysClosed(p) ==
  /\ probe[p] = "wait_port"
  /\ Stop(p)
  /\ UNCHANGED process

\* The request goes through whatever listens on the port by now.
Answered(p, o) ==
  /\ probe[p] = "request"
  /\ p \in XrayProbes
  /\ Listens(o, port[p])
  /\ via' = [via EXCEPT ![p] = o]
  /\ Go(p, "stopping")
  /\ UNCHANGED <<port, process, collided>>

RequestFails(p) ==
  /\ probe[p] = "request"
  /\ p \in XrayProbes
  /\ Stop(p)
  /\ UNCHANGED process

\* A TCP or HTTPS check ends, one way or the other.
RequestEnds(p) ==
  /\ probe[p] = "request"
  /\ p \notin XrayProbes
  /\ Return(p)
  /\ UNCHANGED process

\* Mutant: the process is asked to terminate a second time.
TerminateAgain(p) == UNCHANGED process

KillProcess(p) == process' = [process EXCEPT ![p] = "exited"]

\* It has not ended in two seconds.
Kill(p) ==
  /\ probe[p] = "stopping"
  /\ Alive(p)
  /\ Go(p, "killing")
  /\ KillProcess(p)
  /\ UNCHANGED <<port, via, collided>>

\* process.wait and process.communicate return.
Stopped(p) ==
  /\ probe[p] \in {"stopping", "killing"}
  /\ ~ Alive(p)
  /\ process' = [process EXCEPT ![p] = "none"]
  /\ Return(p)

-----------------------------------------------------------------------------
(* The xray processes, and the container *)

\* Two processes cannot bind the same port; the second one exits.
BindPort(p) ==
  /\ process[p] = "loading"
  /\ process' = [process EXCEPT ![p] = IF Bound(port[p]) THEN "exited" ELSE "listening"]
  /\ UNCHANGED <<probe, port, via, collided>>

\* Its configuration is rejected, it crashes, or it obeys the signal.
XrayExits(p) ==
  /\ Alive(p)
  /\ process' = [process EXCEPT ![p] = "exited"]
  /\ UNCHANGED <<probe, port, via, collided>>

\* free_port finds no port (its exception is not caught), a pending result cannot
\* be written, the client is killed: the container is started anew.
Restart ==
  /\ probe' = [p \in Probes |-> "idle"]
  /\ port' = [p \in Probes |-> NoPort]
  /\ process' = [p \in Probes |-> "none"]
  /\ via' = [p \in Probes |-> NoProbe]
  /\ collided' = {}

Probing(p) ==
  \/ TestTarget(p) \/ StartRequest(p)
  \/ \E x \in Ports : StartXray(p, x)
  \/ Spawn(p) \/ SpawnFails(p) \/ PortOpens(p) \/ PortStaysClosed(p)
  \/ \E o \in Probes : Answered(p, o)
  \/ RequestFails(p) \/ RequestEnds(p) \/ Kill(p) \/ Stopped(p)

Next ==
  \/ \E p \in Probes : Probing(p) \/ BindPort(p) \/ XrayExits(p)
  \/ Restart

Spec == Init /\ [][Next]_vars

(***************************************************************************)
(* The event loop runs every coroutine that can go on, waits and requests  *)
(* time out, permits are handed out first come, first served, and a killed *)
(* process ends.  Nothing is assumed of xray: it may never listen, answer  *)
(* or obey a signal.  httpx bounds each read of a download, not all of it; *)
(* that a download ends is assumed of the server it comes from.            *)
(***************************************************************************)
Fairness ==
  \A p \in Probes :
    /\ SF_vars(StartRequest(p) \/ \E x \in Ports : StartXray(p, x))
    /\ WF_vars(Spawn(p) \/ SpawnFails(p))
    /\ WF_vars(PortOpens(p) \/ PortStaysClosed(p))
    /\ WF_vars(RequestFails(p) \/ RequestEnds(p) \/ \E o \in Probes : Answered(p, o))
    /\ WF_vars(Kill(p) \/ Stopped(p))

FairSpec == Spec /\ Fairness

-----------------------------------------------------------------------------
(* Properties *)

\* Every probe is at one of its awaits, and has a port exactly while it may have a
\* process.
TypeOK ==
  /\ probe \in [Probes -> {"idle", "waiting", "starting", "wait_port", "request",
                           "stopping", "killing"}]
  /\ port \in [Probes -> Ports \union {NoPort}]
  /\ process \in [Probes -> {"none", "loading", "listening", "exited"}]
  /\ via \in [Probes -> Probes \union {NoProbe}]
  /\ collided \subseteq XrayProbes
  /\ \A p \in Probes :
       port[p] # NoPort <=> p \in XrayProbes /\ probe[p] \notin {"idle", "waiting"}

\* No xray process outlives its probe: whether its port opens, its request fails or
\* it ignores the signal (finally, stop_xray_process).
NoOrphan ==
  \A p \in Probes : Alive(p) => probe[p] \in {"wait_port", "request", "stopping"}

\* There are never more xray processes than XRAY_CONCURRENCY allows, those being
\* stopped included.
AtMostPermits == Cardinality({p \in Probes : Alive(p)}) <= Permits

\* A success that is reported of a node was measured through the process of that
\* node, unless two probes were given the same port before either had bound it:
\* a port is bound by one process at a time, and a process that is still stopping
\* holds its port.
OwnNode ==
  \A p \in Probes : via[p] \notin {p, NoProbe} => p \in collided

\* Every test that is called for comes to its end, and gives its permit back,
\* whatever xray does; the round of schedule_loop waits for all of them.
EveryProbeEnds ==
  \A p \in Probes : probe[p] # "idle" ~> probe[p] = "idle"
=============================================================================
