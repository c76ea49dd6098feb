---------------------------- MODULE ClientAgent ----------------------------
(***************************************************************************)
(* The test-point client, client/main.py.  Its loops interleave at every   *)
(* await; between two awaits a loop runs alone, which makes one step.  The *)
(* manifest and the pending results are kept in memory and in two files;   *)
(* writing a file may fail, and the process may die at any point and be    *)
(* restarted from the files.                                               *)
(*                                                                         *)
(* When a periodic test is due (next_due) is left open: a round tests any  *)
(* nonempty set of listed targets.                                         *)
(***************************************************************************)
EXTENDS Protocol

CONSTANTS
  Permits   \* XRAY_CONCURRENCY

ASSUME ClientAssumption == Permits \in Nat \ {0}

VARIABLES
  started,        \* the first refresh is over and the loops run
  manifest, manifest_disk,
  pending, pending_disk,
  test,           \* test[k]: the test whose result will be pending under k
  tasker          \* where the task loop is, with the tasks left to run

memory == <<started, manifest, pending, test, tasker>>
disk   == <<manifest_disk, pending_disk>>
client == <<memory, disk>>

NoTest  == [phase |-> "none", target |-> None, gen |-> NotListed, id |-> None]
Sleeping == [pc |-> "sleep", todo |-> {}]

ClientTypeOK ==
  /\ started \in BOOLEAN
  /\ manifest \in Manifest /\ manifest_disk \in Manifest
  /\ pending \in [Keys -> Result \union {None}]
  /\ pending_disk \in [Keys -> Result \union {None}]
  /\ test \in [Keys -> [phase  : {"none", "waiting", "probing"},
                        target : Targets \union {None},
                        gen    : Configuration \union {NotListed},
                        id     : Ids \union {None}]]
  /\ tasker \in [pc   : {"sleep", "polling", "refreshing", "running", "testing"},
                 todo : SUBSET Assignment]

ResultsOf(p) == {p[k] : k \in Keys} \ {None}

Probing == {k \in Keys : test[k].phase = "probing"}

\* The results that are not yet settled between the two sides.
Held == ResultsOf(pending) \union ResultsOf(pending_disk) \union post.batch \union late

UsedIds == {r.id : r \in Held} \union {test[k].id : k \in Probing}

ClientInit ==
  /\ started = FALSE
  /\ manifest = [m \in Targets |-> NotListed] /\ manifest_disk = manifest
  /\ pending = [k \in Keys |-> None] /\ pending_disk = pending
  /\ test = [k \in Keys |-> NoTest]
  /\ tasker = Sleeping
  /\ get = [g \in Getters |->
              IF g = "manifest_loop" THEN [NoGet EXCEPT !.phase = "sent"]
                                     ELSE NoGet]
  /\ poll = NoPoll
  /\ post = NoPost
  /\ late = {}
  /\ bound \in Bounds

(***************************************************************************)
(* refresh_manifest, from manifest_loop (conditional) and task_loop.       *)
(***************************************************************************)
RequestManifest ==
  /\ "manifest_loop" \in bound.timers
  /\ started
  /\ get["manifest_loop"].phase = "none"
  /\ get' = [get EXCEPT !["manifest_loop"] =
               [phase |-> "sent", etag |-> manifest, body |-> None]]
  /\ UNCHANGED <<client, poll, post, late>>

\* run() starts the loops after its first refresh, whatever came of it.  The
\* task loop goes on to its tasks if the refresh succeeded, or sleeps.
AfterRefresh(g, ok) ==
  /\ get' = [get EXCEPT ![g] = NoGet]
  /\ started' = TRUE
  /\ tasker' = IF g = "manifest_loop" THEN tasker
               ELSE IF ok THEN [tasker EXCEPT !.pc = "running"] ELSE Sleeping

ReceiveManifest(g, written) ==
  LET body == get[g].body
      new  == body # NotModified /\ body # manifest
  IN /\ get[g].phase = "answered"
     /\ manifest' = IF new THEN body ELSE manifest
     /\ manifest_disk' = IF new /\ written THEN body ELSE manifest_disk
     /\ AfterRefresh(g, ~ new \/ written)
     /\ UNCHANGED <<pending, pending_disk, test, poll, post, late>>

RefreshFails(g) ==
  /\ get[g].phase # "none"
  /\ AfterRefresh(g, FALSE)
  /\ UNCHANGED <<manifest, pending, test, disk, poll, post, late>>

(***************************************************************************)
(* task_loop.                                                              *)
(***************************************************************************)
PollTasks ==
  /\ "task_loop" \in bound.timers
  /\ started
  /\ tasker.pc = "sleep"
  /\ tasker' = [tasker EXCEPT !.pc = "polling"]
  /\ poll' = [phase |-> "sent", body |-> {}]
  /\ UNCHANGED <<started, manifest, pending, test, disk, get, post, late>>

ReceiveTasks ==
  /\ poll.phase = "answered"
  /\ poll' = NoPoll
  /\ \/ /\ poll.body = {}
        /\ tasker' = Sleeping
        /\ UNCHANGED get
     \/ /\ poll.body # {}
        /\ tasker' = [pc |-> "refreshing", todo |-> poll.body]
        /\ get' = [get EXCEPT !["task_loop"] = [NoGet EXCEPT !.phase = "sent"]]
  /\ UNCHANGED <<started, manifest, pending, test, disk, post, late>>

PollFails ==
  /\ poll.phase # "none"
  /\ poll' = NoPoll
  /\ tasker' = Sleeping
  /\ UNCHANGED <<started, manifest, pending, test, disk, get, post, late>>

\* Mutant: the file is asked instead of the memory.
SkippedByFile(a) == pending_disk[a.task] # None \/ manifest[a.target] = NotListed

\* A task whose result is pending, or whose target is not listed, is skipped.
Skipped(a) == pending[a.task] # None \/ manifest[a.target] = NotListed

SkipTask(a) ==
  /\ tasker.pc = "running"
  /\ a \in tasker.todo
  /\ Skipped(a)
  /\ tasker' = [tasker EXCEPT !.todo = @ \ {a}]
  /\ UNCHANGED <<started, manifest, pending, test, disk, wire>>

RunTask(a) ==
  /\ tasker.pc = "running"
  /\ a \in tasker.todo
  /\ ~ Skipped(a)
  /\ tasker' = [pc |-> "testing", todo |-> tasker.todo \ {a}]
  /\ test' = [test EXCEPT ![a.task] =
                [phase |-> "waiting", target |-> a.target,
                 gen |-> manifest[a.target], id |-> None]]
  /\ UNCHANGED <<started, manifest, pending, disk, wire>>

TasksDone ==
  /\ tasker.pc = "running"
  /\ tasker.todo = {}
  /\ tasker' = Sleeping
  /\ UNCHANGED <<started, manifest, pending, test, disk, wire>>

(***************************************************************************)
(* schedule_loop: the next round starts when every test of the last ended. *)
(***************************************************************************)
ScheduleRound(due) ==
  /\ "schedule_loop" \in bound.timers
  /\ started
  /\ due # {}
  /\ \A m \in Targets : test[m].phase = "none"
  /\ \A m \in due : manifest[m] # NotListed
  /\ test' = [k \in Keys |->
                IF k \in due THEN [phase |-> "waiting", target |-> k,
                                   gen |-> manifest[k], id |-> None]
                             ELSE test[k]]
  /\ UNCHANGED <<started, manifest, pending, tasker, disk, wire>>

(***************************************************************************)
(* test_target: wait for a permit, probe, and keep the result as the only  *)
(* one pending under its key.  The test uses the configuration that was    *)
(* current when it was handed out.  The code draws a fresh UUID; here the  *)
(* id is any that nobody holds (bound: with all of them held, it waits).    *)
(***************************************************************************)
StartProbe(k) ==
  /\ test[k].phase = "waiting"
  /\ Cardinality(Probing) < Permits
  /\ \E i \in bound.ids \ UsedIds :
       test' = [test EXCEPT ![k].phase = "probing", ![k].id = i]
  /\ UNCHANGED <<started, manifest, pending, tasker, disk, wire>>

\* Mutant: the result of a task is filed under its target.
ResultOfTarget(k) ==
  [id |-> test[k].id, key |-> test[k].target, target |-> test[k].target,
   gen |-> test[k].gen]

\* The key of a result is that of the task it was made for, or of its target.
NewResult(k) ==
  [id |-> test[k].id, key |-> k, target |-> test[k].target, gen |-> test[k].gen]

\* Without the write a task's result is only in memory and the task loop
\* sleeps on the exception.  A failed write in a periodic test ends the agent
\* instead, which is Crash.
KeepResult(k, written) ==
  /\ test[k].phase = "probing"
  /\ written \/ k \in Tasks
  /\ pending' = [pending EXCEPT ![k] = NewResult(k)]
  /\ pending_disk' = IF written THEN pending' ELSE pending_disk
  /\ test' = [test EXCEPT ![k] = NoTest]
  /\ tasker' = IF k \in Targets THEN tasker
               ELSE IF written THEN [tasker EXCEPT !.pc = "running"]
               ELSE Sleeping
  /\ UNCHANGED <<started, manifest, manifest_disk, wire>>

(***************************************************************************)
(* upload_loop.  Results that became pending while the post was out stay.  *)
(* The server works through the items of a batch (todo), unless it refuses *)
(* the whole batch as too long.                                            *)
(***************************************************************************)
PostResults ==
  LET batch == ResultsOf(pending)
  IN /\ started
     /\ post.phase = "none"
     /\ batch # {}
     /\ post' = [phase |-> "sent", batch |-> batch,
                 todo |-> IF Oversize(batch) THEN {} ELSE batch]
     /\ UNCHANGED <<client, get, poll, late>>

\* Mutant: results are removed by the key they were pending under.
RemainingByKey(batch) ==
  [k \in Keys |-> IF \E r \in batch : r.key = k THEN None ELSE pending[k]]

\* Mutant: whatever is pending when the answer comes is removed.
NothingRemains(batch) == [k \in Keys |-> None]

\* The answer lists every item of the batch as accepted, duplicate or rejected,
\* and all three are removed, by result id.
Remaining(batch) ==
  [k \in Keys |-> IF \E r \in batch : pending[k] # None /\ pending[k].id = r.id
                  THEN None ELSE pending[k]]

ReceiveAnswer(written) ==
  /\ post.phase = "sent"
  /\ post.todo = {} /\ ~ Oversize(post.batch)
  /\ pending' = Remaining(post.batch)
  /\ pending_disk' = IF written THEN pending' ELSE pending_disk
  /\ post' = NoPost
  /\ UNCHANGED <<started, manifest, manifest_disk, test, tasker, get, poll, late>>

\* Mutant: a refused batch is dropped.
BatchDropped ==
  /\ post.phase = "sent"
  /\ Oversize(post.batch)
  /\ pending' = Remaining(post.batch) /\ pending_disk' = pending'
  /\ post' = NoPost
  /\ UNCHANGED <<started, manifest, manifest_disk, test, tasker, get, poll, late>>

\* 400: the loop catches it, keeps every result and posts them all again.
BatchRefused ==
  /\ post.phase = "sent"
  /\ Oversize(post.batch)
  /\ post' = NoPost
  /\ UNCHANGED <<client, get, poll, late>>

PostFails ==
  /\ post.phase = "sent"
  /\ AbandonPost
  /\ UNCHANGED <<client, get, poll>>

(***************************************************************************)
(* The process dies and __init__ loads the two files again.                *)
(***************************************************************************)
Crash ==
  /\ started' = FALSE
  /\ manifest' = manifest_disk
  /\ pending' = pending_disk
  /\ test' = [k \in Keys |-> NoTest]
  /\ tasker' = Sleeping
  /\ get' = [g \in Getters |->
               IF g = "manifest_loop" THEN [NoGet EXCEPT !.phase = "sent"]
                                      ELSE NoGet]
  /\ poll' = NoPoll
  /\ AbandonPost
  /\ UNCHANGED disk

ClientNext ==
  \/ RequestManifest
  \/ \E g \in Getters, written \in BOOLEAN : ReceiveManifest(g, written)
  \/ \E g \in Getters : RefreshFails(g)
  \/ PollTasks \/ ReceiveTasks \/ PollFails
  \/ \E a \in Assignment : SkipTask(a) \/ RunTask(a)
  \/ TasksDone
  \/ \E due \in SUBSET Targets : ScheduleRound(due)
  \/ \E k \in Keys : StartProbe(k)
  \/ \E k \in Keys, written \in BOOLEAN : KeepResult(k, written)
  \/ PostResults
  \/ \E written \in BOOLEAN : ReceiveAnswer(written)
  \/ BatchRefused
  \/ PostFails
  \/ Crash
=============================================================================
