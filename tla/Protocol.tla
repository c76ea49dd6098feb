------------------------------ MODULE Protocol ------------------------------
(***************************************************************************)
(* What one client and the server exchange: manifests, manual tasks and    *)
(* results, over HTTP requests that may be lost, answered late or never.   *)
(*                                                                         *)
(* The client is one asyncio process with four loops; each loop awaits at  *)
(* most one request at a time, so the wire is a slot per loop.  A request  *)
(* the client gives up on (20 s) may still be served: only POST /results   *)
(* changes anything, so only its unserved items outlive the slot, in late. *)
(***************************************************************************)
EXTENDS Naturals, FiniteSets

CONSTANTS
  Targets,      \* monitors
  Tasks,        \* manual tasks that may be created
  Ids,          \* result ids; one is taken again once nobody can send it
  MaxGen,       \* the most configurations a monitor goes through
  Bounds,       \* what happens at most in a stretch: see bound
  MaxItems,     \* the most results POST /results takes at once (1000)
  None, NotModified

Loops == {"manifest_loop", "schedule_loop", "task_loop"}

ASSUME ProtocolAssumption ==
  /\ MaxGen \in Nat \ {0}
  /\ MaxItems \in Nat \ {0}
  /\ IsFiniteSet(Ids)
  /\ Targets \intersect Tasks = {}
  /\ Bounds \subseteq [timers : SUBSET Loops, ids : SUBSET Ids, gens : 1 .. MaxGen]
  /\ \A r \in [id : Ids, key : Targets \union Tasks, target : Targets, gen : 1 .. MaxGen] :
       r # None

\* A client keeps one pending result per target and one per task.
Keys == Targets \union Tasks

\* A configuration of a monitor is the number of edits that led to it.
NotListed == 0
Configuration == 1 .. MaxGen
Manifest == [Targets -> Configuration \union {NotListed}]

\* A result, by what the properties tell apart: its identity, the key it is
\* pending under, its target, and the configuration that was probed.
Result == [id : Ids, key : Keys, target : Targets, gen : Configuration]

Assignment == [task : Tasks, target : Targets]

Getters == {"manifest_loop", "task_loop"}

VARIABLES
  get,    \* GET /manifest of the two loops that refresh it
  poll,   \* GET /tasks of the task loop
  post,   \* POST /results of the upload loop
  late,   \* items of abandoned posts that a worker has not reached yet
  bound   \* bound: the loops whose sleep ends in the stretch looked at, the ids
          \* that it uses, and the configurations that a monitor goes through

wire == <<get, poll, post, late>>

NoGet  == [phase |-> "none", etag |-> None, body |-> None]
NoPoll == [phase |-> "none", body |-> {}]
NoPost == [phase |-> "none", batch |-> {}, todo |-> {}]

\* Mutant: off by one, a batch of exactly MaxItems is refused.
FullIsOversize(batch) == Cardinality(batch) >= MaxItems

Oversize(batch) == Cardinality(batch) > MaxItems

Phase == {"none", "sent", "answered"}

WireTypeOK ==
  /\ get \in [Getters -> [phase : Phase,
                          etag  : Manifest \union {None},
                          body  : Manifest \union {None, NotModified}]]
  /\ poll \in [phase : Phase, body : SUBSET Assignment]
  /\ post \in [phase : {"none", "sent"}, batch : SUBSET Result, todo : SUBSET Result]
  /\ post.todo \subseteq post.batch
  /\ Oversize(post.batch) => post.todo = {}
  /\ late \subseteq Result
  /\ bound \in Bounds

\* The client stops waiting for its post.  The worker that serves it may have
\* died or not have got it, or it goes on with the remaining items (bound: one
\* abandoned post at a time does).
AbandonPost ==
  /\ post' = NoPost
  /\ late' \in {late, IF late = {} THEN post.todo ELSE late}
=============================================================================
