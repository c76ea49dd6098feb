------------------------------ MODULE Delivery ------------------------------
(***************************************************************************)
(* One client and the server: how the operator's configurations and manual *)
(* tasks reach the probes, and how their results reach the database,       *)
(* through lost and late requests, failed writes and crashes.              *)
(***************************************************************************)
EXTENDS ClientAgent, ServerApi

vars == <<client, server, wire, bound>>

Init == ClientInit /\ ServerInit

(***************************************************************************)
(* Result ids are fresh UUIDs in the code.  Here an id is taken again, so  *)
(* what became of a result that nobody can send any more is dropped from   *)
(* the model (not from the database) when the client lets go of it, or at  *)
(* the latest when it takes the id again.                                  *)
(***************************************************************************)
ForgetRows ==
  row' = [i \in Ids |-> IF i \in UsedIds /\ i \in UsedIds' THEN row[i] ELSE NoRow]

ClientStep(action) ==
  /\ action
  /\ ForgetRows
  /\ UNCHANGED <<life, gen, task, operator, bound>>

ServerStep(action) ==
  /\ action
  /\ UNCHANGED <<client, bound>>

Next == ClientStep(ClientNext) \/ ServerStep(ServerNext)

Spec == Init /\ [][Next]_vars

(***************************************************************************)
(* The loops run for as long as the client does, and the server serves what*)
(* it gets.  A test that waits for a permit is not overtaken for ever:     *)
(* asyncio.Semaphore is first come, first served.  Nothing is assumed of   *)
(* the operator, of rounds of periodic tests, of expiry or of faults.      *)
(***************************************************************************)
ManifestFairness ==
  /\ WF_vars(ClientStep(RequestManifest))
  /\ \A g \in Getters :
       /\ WF_vars(ClientStep(ReceiveManifest(g, TRUE)))
       /\ WF_vars(ServerStep(AnswerManifest(g)))

TaskFairness ==
  /\ WF_vars(ClientStep(PollTasks))
  /\ WF_vars(ServerStep(AnswerTasks))
  /\ WF_vars(ClientStep(ReceiveTasks))
  /\ \A a \in Assignment : WF_vars(ClientStep(SkipTask(a) \/ RunTask(a)))
  /\ WF_vars(ClientStep(TasksDone))

ResultFairness ==
  /\ \A k \in Keys :
       /\ SF_vars(ClientStep(StartProbe(k)))
       /\ WF_vars(ClientStep(KeepResult(k, TRUE)))
       /\ WF_vars(ServerStep(\E r \in post.todo : r.key = k /\ SaveItem(r)))
  /\ WF_vars(ClientStep(PostResults))
  /\ WF_vars(ClientStep(ReceiveAnswer(TRUE) \/ BatchRefused))

FairSpec == Spec /\ ManifestFairness /\ TaskFairness /\ ResultFairness

\* What happens when every request is answered in time and every write succeeds.
Undisturbed ==
  \/ \E g \in Getters : ReceiveManifest(g, TRUE)
  \/ ReceiveTasks \/ ReceiveAnswer(TRUE) \/ BatchRefused
  \/ \E k \in Keys : KeepResult(k, TRUE)
  \/ \E r \in post.todo : SaveItem(r)

\* A request is lost or late, a write fails, a lock times out, the client dies;
\* not counting what has no other effect than a proper answer (a lost 304, say).
Fault ==
  /\ \/ \E g \in Getters : RefreshFails(g) \/ ReceiveManifest(g, FALSE)
     \/ PollFails \/ PostFails \/ ReceiveAnswer(FALSE) \/ Crash
     \/ \E k \in Keys : KeepResult(k, FALSE)
     \/ \E r \in post.todo : LockedItem(r)
  /\ ~ Undisturbed

FaultsCease == <>[][~ Fault]_vars

-----------------------------------------------------------------------------
(* Properties *)

\* The wire, the client and the rows hold what they may, and a result is
\* pending under its own key.
TypeOK ==
  /\ WireTypeOK /\ ClientTypeOK /\ ServerTypeOK
  /\ \A k \in Keys, p \in {pending, pending_disk} : p[k] # None => p[k].key = k

\* A result leaves the pending file only when the server has processed it, or
\* because a newer result of the same target or task takes its place, whatever
\* crashes, fails or arrives meanwhile (upload_loop, test_target, __init__).
NoResultLost ==
  [][\A k \in Keys :
       pending_disk[k] # None /\ pending_disk'[k] = None
         => row[pending_disk[k].id].fate # "none"]_vars

\* The same for the memory of a client that keeps running: a result recorded
\* while a post is out is not removed by the answer to that post.
NoResultDropped ==
  [][\A k \in Keys :
       pending[k] # None /\ pending'[k] = None /\ started'
         => row[pending[k].id].fate # "none"]_vars

\* The targets and tasks whose result in the file the server has answered for.
Answered == {k \in Keys : pending_disk[k] # None /\ row[pending_disk[k].id].fate # "none"}

Outboxes ==
  INSTANCE Outbox WITH box <- pending_disk, answered <- Answered,
                       Deferred <- Tasks, Results <- Result, NoResult <- None

\* A target or task whose result in the file the server has not answered for has
\* one there until it has, through failed writes, crashes, superseded results and
\* answers that come after them (client/main.py: test_target, upload_loop).
ImplementsOutbox == Outboxes!OSpec

Waiting(a) ==
  /\ task[a.task] = [state |-> "assigned", target |-> a.target]
  /\ life[a.target] = "enabled"

\* Once the faults cease, a manual task assigned for an enabled target is carried
\* out or expires: through the forced refresh before it, the skip of a task whose
\* result is pending, and whatever the faults have left in memory and on disk; in
\* a stretch in which task_loop goes on, with ids for its results.
TaskIsDone ==
  FaultsCease /\ "task_loop" \in bound.timers /\ bound.ids = Ids =>
    \A a \in Assignment : Waiting(a) ~> ~ Waiting(a)

Reported(k) == \E r \in post.todo : r.key = k /\ SaveItem(r)

\* Once the faults cease, and as long as no more results are pending than the
\* server takes at once, a target or task with a pending result has one processed
\* by the server, again and again however often newer results supersede those in
\* flight (README.md, line 48: reported when the connection is back).  With more
\* results pending the server refuses them all, each time (api.py 93).
ResultIsReported ==
  FaultsCease /\ <>[](Cardinality(ResultsOf(pending)) <= MaxItems) =>
    \A k \in Keys : []<>(pending[k] = None) \/ []<><<Reported(k)>>_vars

\* Once the faults cease and the operator stops editing, the client's manifest
\* becomes and stays the server's, however the refreshes of its two loops and
\* their answers interleave (refresh_manifest, If-None-Match); in a stretch in
\* which manifest_loop goes on.
ManifestConverges ==
  FaultsCease /\ <>[][UNCHANGED <<life, gen>>]_vars /\ "manifest_loop" \in bound.timers
    => <>[](manifest = manifest_payload)

(***************************************************************************)
(* What the documentation says and the code does not do.                   *)
(***************************************************************************)

Stores(r) == row[r.id].fate # "stored" /\ row'[r.id].fate = "stored"

\* "Pre-edit raw results must not participate in consensus for the newly edited
\* endpoint" (views.py): a result that probed another configuration than the
\* current one is not stored.
NoForeignEvidence ==
  [][\A r \in post.todo \union late : Stores(r) => r.gen = gen[r.target]]_vars
=============================================================================
