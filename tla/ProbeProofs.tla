----------------------------- MODULE ProbeProofs -----------------------------
(***************************************************************************)
(* The safety properties of Probe for any finite set of probes, any ports  *)
(* and any number of permits.  The inductive invariant says where a probe  *)
(* can be while it has a process, that permits bound the probes that hold  *)
(* one, and that probes which share a port know of each other.             *)
(***************************************************************************)
EXTENDS Probe, FiniteSetTheorems, TLAPS

\* Only an Xray probe gets as far as starting a process; before it does it has
\* none, and one that waits for a killed process to end has one that ended.
Processes ==
  \A p \in Probes :
    /\ process[p] # "none" => probe[p] \in {"wait_port", "request", "stopping", "killing"}
    /\ process[p] # "none" => p \in XrayProbes
    /\ probe[p] \in {"starting", "wait_port", "stopping", "killing"} => p \in XrayProbes
    /\ probe[p] = "killing" => ~ Alive(p)

Holders == {p \in Probes : HoldsPermit(p)}

Permitted == Cardinality(Holders) <= Permits

\* Two probes with the same port have both been told apart from those with a port
\* of their own.
SharedPorts ==
  \A p, o \in Probes :
    p # o /\ port[p] # NoPort /\ port[p] = port[o] => p \in collided

Inv == TypeOK /\ Processes /\ Permitted /\ SharedPorts /\ OwnNode

\* The holders are finitely many, and one more is at most one more.
LEMMA HoldersFinite ==
  /\ IsFiniteSet(Holders)
  /\ Cardinality(Holders) \in Nat
  /\ \A S : S \subseteq Holders => Cardinality(S) <= Cardinality(Holders) /\ Cardinality(S) \in Nat
  /\ \A p : Cardinality(Holders \union {p}) <= Cardinality(Holders) + 1
<1>1. IsFiniteSet(Holders)
  BY FS_Subset, ProbeAssumption DEF Holders
<1>2. Cardinality(Holders) \in Nat
  BY <1>1, FS_CardinalityType
<1>3. ASSUME NEW S, S \subseteq Holders
      PROVE  Cardinality(S) <= Cardinality(Holders) /\ Cardinality(S) \in Nat
  BY <1>1, <1>3, FS_Subset, FS_CardinalityType
<1>4. ASSUME NEW p
      PROVE  Cardinality(Holders \union {p}) <= Cardinality(Holders) + 1
  BY <1>1, <1>2, FS_AddElement
<1> QED
  BY <1>1, <1>2, <1>3, <1>4

\* A step after which no other probe holds a permit keeps their number.
LEMMA PermittedStep ==
  ASSUME Permitted, \A p \in Probes : HoldsPermit(p)' => HoldsPermit(p)
  PROVE  Permitted'
<1>1. Holders' \subseteq Holders
  BY DEF Holders
<1> QED
  BY <1>1, HoldersFinite, ProbeAssumption DEF Permitted

\* Acquiring takes a permit that is left.
LEMMA AcquireStep ==
  ASSUME TypeOK, NEW p \in Probes, NEW pc, Acquire(p), Go(p, pc)
  PROVE  Permitted'
<1>1. Cardinality(Holders) < Permits
  BY DEF Acquire, Holders
<1>2. Holders' \subseteq Holders \union {p}
  BY DEF Holders, HoldsPermit, Go, TypeOK
<1>3. IsFiniteSet(Holders \union {p})
  BY HoldersFinite, FS_AddElement
<1>4. Cardinality(Holders') <= Cardinality(Holders \union {p})
      /\ Cardinality(Holders') \in Nat /\ Cardinality(Holders \union {p}) \in Nat
  BY <1>2, <1>3, FS_Subset, FS_CardinalityType
<1>5. Cardinality(Holders \union {p}) <= Cardinality(Holders) + 1
  BY HoldersFinite
<1> QED
  BY <1>1, <1>4, <1>5, HoldersFinite, ProbeAssumption DEF Permitted

\* At the start no probe has a process, a port or a permit.
LEMMA InitInv == Init => Inv
<1> SUFFICES ASSUME Init PROVE Inv
  OBVIOUS
<1>1. TypeOK
  BY DEF Init, TypeOK
<1>2. Processes /\ SharedPorts /\ OwnNode
  BY DEF Init, Processes, Alive, SharedPorts, OwnNode
<1>3. Holders = {}
  BY DEF Init, Holders, HoldsPermit
<1> QED
  BY <1>1, <1>2, <1>3, FS_EmptySet, ProbeAssumption DEF Inv, Permitted

\* A probe returns without a process: it started none, or the process has ended.
LEMMA ReturnStep ==
  ASSUME Inv, NEW p \in Probes, Return(p), process' = [process EXCEPT ![p] = "none"]
  PROVE  Inv'
<1> USE DEF Inv, TypeOK, Return, Go, ForgetPort
<1>1. TypeOK'
  OBVIOUS
<1>2. Processes'
  BY DEF Processes, Alive
<1>3. Permitted'
  <2>1. \A o \in Probes : HoldsPermit(o)' => HoldsPermit(o)
    BY DEF HoldsPermit
  <2> QED
    BY <2>1, PermittedStep
<1>4. SharedPorts'
  BY DEF SharedPorts
<1>5. OwnNode'
  BY DEF OwnNode
<1> QED
  BY <1>1, <1>2, <1>3, <1>4, <1>5

\* A probe goes on with the port and the permit it has.
LEMMA GoOnStep ==
  ASSUME Inv, NEW p \in Probes,
         NEW pc \in {"wait_port", "request", "stopping", "killing"},
         HoldsPermit(p), p \in XrayProbes, Go(p, pc),
         UNCHANGED <<port, via, collided>>,
         process' \in [Probes -> {"none", "loading", "listening", "exited"}],
         \A o \in Probes \ {p} : process'[o] = process[o],
         pc = "killing" => process'[p] \notin {"loading", "listening"}
  PROVE  Inv'
<1> USE DEF Inv, TypeOK, Go
<1>1. TypeOK'
  BY DEF HoldsPermit
<1>2. Processes'
  BY DEF Processes, Alive
<1>3. Permitted'
  <2>1. \A o \in Probes : HoldsPermit(o)' => HoldsPermit(o)
    BY DEF HoldsPermit
  <2> QED
    BY <2>1, PermittedStep
<1>4. SharedPorts' /\ OwnNode'
  BY DEF SharedPorts, OwnNode
<1> QED
  BY <1>1, <1>2, <1>3, <1>4

\* A process changes and no probe moves; only one that lives does.
LEMMA ProcessStep ==
  ASSUME Inv, NEW p \in Probes, Alive(p), NEW s \in {"loading", "listening", "exited"},
         process' = [process EXCEPT ![p] = s], UNCHANGED <<probe, port, via, collided>>
  PROVE  Inv'
<1> USE DEF Inv, TypeOK
<1>1. TypeOK'
  OBVIOUS
<1>2. Processes'
  BY DEF Processes, Alive
<1>3. Permitted'
  <2>1. \A o \in Probes : HoldsPermit(o)' => HoldsPermit(o)
    BY DEF HoldsPermit
  <2> QED
    BY <2>1, PermittedStep
<1>4. SharedPorts' /\ OwnNode'
  BY DEF SharedPorts, OwnNode
<1> QED
  BY <1>1, <1>2, <1>3, <1>4

\* A started probe shares its port only with probes that collided with it: a port
\* that a process has bound is not free.
LEMMA StartXrayStep ==
  ASSUME Inv, NEW p \in Probes, NEW x \in Ports, StartXray(p, x)
  PROVE  Inv'
<1> USE DEF Inv, TypeOK
<1>1. /\ p \in XrayProbes /\ Acquire(p) /\ Go(p, "starting")
      /\ port' = [port EXCEPT ![p] = x]
      /\ UNCHANGED <<process, via>>
      /\ ~ Bound(x)
      /\ probe[p] = "waiting"
  BY DEF StartXray, free_port, Acquire
<1>2. /\ collided \subseteq collided'
      /\ collided' \subseteq XrayProbes
      /\ \A o \in Probes \ {p} : port[o] = x => p \in collided' /\ o \in collided'
  <2> DEFINE others == {o \in Probes \ {p} : port[o] = x /\ process[o] # "listening"}
  <2>1. others \subseteq XrayProbes
    BY ProbeAssumption
  <2>2. collided' = IF others = {} THEN collided ELSE collided \union others \union {p}
    BY DEF StartXray
  <2>3. \A o \in Probes \ {p} : port[o] = x => o \in others
    BY <1>1 DEF Bound, Listens
  <2> HIDE DEF others
  <2> QED
    BY <1>1, <2>1, <2>2, <2>3
<1>3. TypeOK'
  BY <1>1, <1>2, ProbeAssumption DEF Go
<1>4. Processes'
  BY <1>1 DEF Processes, Alive, Go
<1>5. Permitted'
  BY <1>1, AcquireStep
<1>6. SharedPorts'
  BY <1>1, <1>2 DEF SharedPorts
<1>7. OwnNode'
  BY <1>1, <1>2 DEF OwnNode
<1> QED
  BY <1>3, <1>4, <1>5, <1>6, <1>7

\* A request is answered through the process that has bound the port, which is the
\* probe's own unless they collided.
LEMMA AnsweredStep ==
  ASSUME Inv, NEW p \in Probes, NEW o \in Probes, Answered(p, o)
  PROVE  Inv'
<1> USE DEF Inv, TypeOK
<1>1. /\ probe[p] = "request" /\ p \in XrayProbes /\ Go(p, "stopping")
      /\ port[o] = port[p] /\ port[p] # NoPort
      /\ via' = [via EXCEPT ![p] = o]
      /\ UNCHANGED <<port, process, collided>>
  BY DEF Answered, Listens
<1>2. TypeOK'
  BY <1>1 DEF Go
<1>3. Processes'
  BY <1>1 DEF Processes, Alive, Go
<1>4. Permitted'
  <2>1. \A r \in Probes : HoldsPermit(r)' => HoldsPermit(r)
    BY <1>1 DEF HoldsPermit, Go
  <2> QED
    BY <2>1, PermittedStep
<1>5. SharedPorts'
  BY <1>1 DEF SharedPorts
<1>6. OwnNode'
  BY <1>1 DEF OwnNode, SharedPorts
<1> QED
  BY <1>2, <1>3, <1>4, <1>5, <1>6

\* A probe is called, or an ordinary request takes its permit: no port and no
\* process is touched.
LEMMA CalledStep ==
  ASSUME Inv, NEW p \in Probes, TestTarget(p) \/ StartRequest(p)
  PROVE  Inv'
<1> USE DEF Inv, TypeOK
<1>1. UNCHANGED <<port, process, via, collided>>
  BY DEF TestTarget, StartRequest
<1>2. \/ probe[p] = "idle" /\ Go(p, "waiting")
      \/ p \notin XrayProbes /\ probe[p] = "waiting" /\ Acquire(p) /\ Go(p, "request")
  BY DEF TestTarget, StartRequest, Acquire
<1>3. TypeOK'
  BY <1>1, <1>2 DEF Go
<1>4. Processes'
  BY <1>1, <1>2 DEF Processes, Alive, Go
<1>5. Permitted'
  <2>1. CASE TestTarget(p)
    <3>1. \A o \in Probes : HoldsPermit(o)' => HoldsPermit(o)
      BY <2>1 DEF TestTarget, Go, HoldsPermit
    <3> QED
      BY <3>1, PermittedStep
  <2>2. CASE StartRequest(p)
    BY <2>2, AcquireStep DEF StartRequest
  <2> QED
    BY <2>1, <2>2
<1>6. SharedPorts' /\ OwnNode'
  BY <1>1 DEF SharedPorts, OwnNode
<1> QED
  BY <1>3, <1>4, <1>5, <1>6

\* Every step of a probe keeps the invariant.
LEMMA ProbingStep ==
  ASSUME Inv, NEW p \in Probes, Probing(p)
  PROVE  Inv'
<1> USE DEF Inv, TypeOK
<1>1. ASSUME NEW x \in Ports, StartXray(p, x)
      PROVE  Inv'
  BY <1>1, StartXrayStep
<1>2. ASSUME NEW o \in Probes, Answered(p, o)
      PROVE  Inv'
  BY <1>2, AnsweredStep
<1>3. CASE TestTarget(p) \/ StartRequest(p)
  BY <1>3, CalledStep
<1>4. CASE Spawn(p)
  <2>1. HoldsPermit(p) /\ p \in XrayProbes
    BY <1>4 DEF Spawn, HoldsPermit, Processes
  <2> QED
    BY <1>4, <2>1, GoOnStep DEF Spawn
<1>5. ASSUME process[p] = "none", process' = process
      PROVE  process' = [process EXCEPT ![p] = "none"]
  BY <1>5
<1>6. CASE SpawnFails(p)
  <2>1. process[p] = "none"
    BY <1>6 DEF SpawnFails, Processes
  <2> QED
    BY <1>5, <1>6, <2>1, ReturnStep DEF SpawnFails
<1>7. CASE PortOpens(p)
  <2>1. HoldsPermit(p) /\ p \in XrayProbes
    BY <1>7 DEF PortOpens, HoldsPermit, Processes
  <2> QED
    BY <1>7, <2>1, GoOnStep DEF PortOpens
<1>8. CASE PortStaysClosed(p)
  <2>1. HoldsPermit(p)
    BY <1>8 DEF PortStaysClosed, HoldsPermit
  <2>2. p \in XrayProbes
    BY <1>8 DEF PortStaysClosed, Processes
  <2> QED
    BY <1>8, <2>1, <2>2, GoOnStep DEF PortStaysClosed, Stop
<1>9. CASE RequestFails(p)
  <2>1. HoldsPermit(p)
    BY <1>9 DEF RequestFails, HoldsPermit
  <2> QED
    BY <1>9, <2>1, GoOnStep DEF RequestFails, Stop
<1>10. CASE RequestEnds(p)
  <2>1. process[p] = "none"
    BY <1>10 DEF RequestEnds, Processes
  <2> QED
    BY <1>5, <1>10, <2>1, ReturnStep DEF RequestEnds
<1>11. CASE Kill(p)
  <2>1. HoldsPermit(p) /\ p \in XrayProbes
    BY <1>11 DEF Kill, HoldsPermit, Processes, Alive
  <2> QED
    BY <1>11, <2>1, GoOnStep DEF Kill, KillProcess
<1>12. CASE Stopped(p)
  BY <1>12, ReturnStep DEF Stopped
<1> QED
  BY <1>1, <1>2, <1>3, <1>4, <1>6, <1>7, <1>8, <1>9, <1>10, <1>11, <1>12 DEF Probing

\* Every step of the client, of an xray process or of the container keeps it.
LEMMA InvStep == Inv /\ [Next]_vars => Inv'
<1> SUFFICES ASSUME Inv, [Next]_vars
             PROVE  Inv'
  OBVIOUS
<1>1. ASSUME NEW p \in Probes, Probing(p)
      PROVE  Inv'
  BY <1>1, ProbingStep
<1>2. ASSUME NEW p \in Probes, BindPort(p)
      PROVE  Inv'
  <2>1. Alive(p)
    BY <1>2 DEF BindPort, Alive
  <2> QED
    BY <1>2, <2>1, ProcessStep DEF BindPort
<1>3. ASSUME NEW p \in Probes, XrayExits(p)
      PROVE  Inv'
  BY <1>3, ProcessStep DEF XrayExits
<1>4. CASE Restart
  <2>1. TypeOK' /\ Processes' /\ SharedPorts' /\ OwnNode'
    BY <1>4 DEF Restart, TypeOK, Processes, Alive, SharedPorts, OwnNode
  <2>2. Permitted'
    <3>1. \A p \in Probes : HoldsPermit(p)' => HoldsPermit(p)
      BY <1>4 DEF Restart, HoldsPermit
    <3> QED
      BY <3>1, PermittedStep DEF Inv
  <2> QED
    BY <2>1, <2>2 DEF Inv
<1>5. CASE UNCHANGED vars
  <2>1. Holders' = Holders
    BY <1>5 DEF vars, Holders, HoldsPermit
  <2> QED
    BY <1>5, <2>1 DEF vars, Inv, TypeOK, Processes, Alive, Permitted, SharedPorts, OwnNode
<1> QED
  BY <1>1, <1>2, <1>3, <1>4, <1>5 DEF Next

\* The invariant holds throughout.
LEMMA InvAlways == Spec => []Inv
BY InitInv, InvStep, PTL DEF Spec

\* A probe has a port exactly while it may have a process (check_xray).
THEOREM ProbeTypeCorrect == Spec => []TypeOK
<1>1. Inv => TypeOK
  BY DEF Inv
<1> QED
  BY <1>1, InvAlways, PTL

\* No xray process outlives its probe, for any number of probes and ports.
THEOREM ProcessesAreStopped == Spec => []NoOrphan
<1>1. Inv => NoOrphan
  BY DEF Inv, Processes, NoOrphan, Alive
<1> QED
  BY <1>1, InvAlways, PTL

\* XRAY_CONCURRENCY bounds the xray processes, those being stopped included.
THEOREM PermitsBoundProcesses == Spec => []AtMostPermits
<1>1. Inv => AtMostPermits
  <2> SUFFICES ASSUME Inv PROVE AtMostPermits
    OBVIOUS
  <2>1. {p \in Probes : Alive(p)} \subseteq Holders
    BY DEF Inv, Processes, Alive, Holders, HoldsPermit
  <2> QED
    BY <2>1, HoldersFinite, ProbeAssumption DEF Inv, Permitted, AtMostPermits
<1> QED
  BY <1>1, InvAlways, PTL

\* A success was measured through the node's own process unless two probes were
\* given one port before either had bound it.
THEOREM MeasuredThroughOwnNode == Spec => []OwnNode
<1>1. Inv => OwnNode
  BY DEF Inv
<1> QED
  BY <1>1, InvAlways, PTL
=============================================================================
