--------------------------- MODULE DeliveryProofs ---------------------------
(***************************************************************************)
(* The type invariant of Delivery, and that no result is lost, for any     *)
(* targets, tasks, ids, permits and bounds.  A result may leave the file   *)
(* in a write that comes long after it left the memory, so the argument    *)
(* needs an invariant about results that are in the file only.             *)
(***************************************************************************)
EXTENDS Delivery, FiniteSetTheorems, TLAPS

\* What the database has become of the result: the server has answered for it.
Processed(r) == row[r.id].fate # "none"

TestRecord == [phase  : {"none", "waiting", "probing"},
               target : Targets \union {None},
               gen    : Configuration \union {NotListed},
               id     : Ids \union {None}]

TaskerRecord == [pc   : {"sleep", "polling", "refreshing", "running", "testing"},
                 todo : SUBSET Assignment]

GetRecord == [phase : Phase,
              etag  : Manifest \union {None},
              body  : Manifest \union {None, NotModified}]

PollRecord == [phase : Phase, body : SUBSET Assignment]

PostRecord == [phase : {"none", "sent"}, batch : SUBSET Result, todo : SUBSET Result]

\* An answered GET /manifest has a manifest, or tells that there is no other.
Answers ==
  \A g \in Getters : get[g].phase = "answered" => get[g].body \in Manifest \union {NotModified}

\* A test that runs has a target and a configuration, and once it probes an id; the
\* key of a task that is being carried out has nothing pending (Skipped).
Tests ==
  \A k \in Keys :
    /\ test[k].phase # "none" => test[k].target \in Targets /\ test[k].gen \in Configuration
    /\ test[k].phase = "probing" => test[k].id \in Ids
    /\ test[k].phase # "none" /\ k \in Tasks => pending[k] = None

\* What is in the file and not in memory has been processed: a write failed after
\* the answer that removed it from memory.
Filed ==
  \A k \in Keys :
    pending_disk[k] # None /\ pending[k] # pending_disk[k] => Processed(pending_disk[k])

\* The items that the worker is through with have been processed.
Served ==
  ~ Oversize(post.batch) => \A r \in post.batch \ post.todo : Processed(r)

Inv == TypeOK /\ Answers /\ Tests /\ Filed /\ Served

KeysOK == \A k \in Keys, p \in {pending, pending_disk} : p[k] # None => p[k].key = k

\* The type invariant by its parts.
LEMMA TypeParts ==
  TypeOK <=>
    /\ get \in [Getters -> GetRecord] /\ poll \in PollRecord /\ post \in PostRecord
    /\ post.todo \subseteq post.batch /\ (Oversize(post.batch) => post.todo = {})
    /\ late \subseteq Result /\ bound \in Bounds
    /\ started \in BOOLEAN
    /\ manifest \in Manifest /\ manifest_disk \in Manifest
    /\ pending \in [Keys -> Result \union {None}]
    /\ pending_disk \in [Keys -> Result \union {None}]
    /\ test \in [Keys -> TestRecord] /\ tasker \in TaskerRecord
    /\ ServerTypeOK /\ KeysOK
BY DEF TypeOK, WireTypeOK, ClientTypeOK, KeysOK, GetRecord, PollRecord, PostRecord,
       TestRecord, TaskerRecord

\* No result is None, and the keys are those of targets and of tasks.
LEMMA ResultFacts ==
  /\ None \notin Result
  /\ Keys = Targets \union Tasks
  /\ \A k \in Keys : ~ (k \in Targets /\ k \in Tasks)
  /\ \A r \in Result : r.id \in Ids /\ r.key \in Keys /\ r.target \in Targets
BY ProtocolAssumption DEF Result, Keys, Configuration

\* The empty slots of the wire and of the client are in their types.
LEMMA EmptySlots ==
  /\ NoGet \in GetRecord /\ [NoGet EXCEPT !.phase = "sent"] \in GetRecord
  /\ NoGet.phase = "none" /\ [NoGet EXCEPT !.phase = "sent"].phase = "sent"
  /\ NoPoll \in PollRecord
  /\ NoPost \in PostRecord /\ NoPost.batch = {} /\ NoPost.todo = {}
  /\ NoTest \in TestRecord /\ NoTest.phase = "none"
  /\ Sleeping \in TaskerRecord
BY DEF NoGet, NoPoll, NoPost, NoTest, Sleeping, GetRecord, PollRecord, PostRecord,
       TestRecord, TaskerRecord, Phase, NotListed

\* The initial state satisfies the invariant.
LEMMA InitInv == Init => Inv
<1> SUFFICES ASSUME Init PROVE Inv
  OBVIOUS
<1> USE DEF Init, ClientInit, ServerInit
<1>1. manifest \in Manifest /\ manifest_disk \in Manifest
  BY DEF Manifest, NotListed
<1>2. ServerTypeOK
  <2>1. 1 \in Configuration
    BY ProtocolAssumption DEF Configuration
  <2> QED
    BY <2>1 DEF ServerTypeOK, NoTask, NoRow, Row, NoView
<1>3. get \in [Getters -> GetRecord] /\ Answers
  BY EmptySlots DEF Answers
<1>4. test \in [Keys -> TestRecord] /\ Tests
  BY EmptySlots DEF Tests
<1>5. Filed /\ Served /\ KeysOK
  BY EmptySlots DEF Filed, Served, KeysOK
<1>6. TypeOK
  BY <1>1, <1>2, <1>3, <1>4, <1>5, EmptySlots, TypeParts
<1> QED
  BY <1>3, <1>4, <1>5, <1>6 DEF Inv

-----------------------------------------------------------------------------
(* The client's steps *)

\* What a step of the client leaves, with the rows as they were before it.
ClientEffect ==
  /\ get' \in [Getters -> GetRecord] /\ poll' \in PollRecord /\ post' \in PostRecord
  /\ post'.todo \subseteq post'.batch /\ (Oversize(post'.batch) => post'.todo = {})
  /\ late' \subseteq Result
  /\ started' \in BOOLEAN
  /\ manifest' \in Manifest /\ manifest_disk' \in Manifest
  /\ pending' \in [Keys -> Result \union {None}]
  /\ pending_disk' \in [Keys -> Result \union {None}]
  /\ test' \in [Keys -> TestRecord] /\ tasker' \in TaskerRecord
  /\ KeysOK' /\ Answers' /\ Tests'
  /\ \A k \in Keys :
       pending_disk'[k] # None /\ pending'[k] # pending_disk'[k] => Processed(pending_disk'[k])
  /\ ~ Oversize(post'.batch) => \A r \in post'.batch \ post'.todo : Processed(r)

\* A step that touches neither results nor tests.
LEMMA QuietEffect ==
  ASSUME Inv, UNCHANGED <<pending, pending_disk, test, post, late>>,
         get' \in [Getters -> GetRecord], Answers', poll' \in PollRecord,
         started' \in BOOLEAN, manifest' \in Manifest, manifest_disk' \in Manifest,
         tasker' \in TaskerRecord
  PROVE  ClientEffect
<1>1. KeysOK' /\ Tests'
  BY TypeParts DEF Inv, KeysOK, Tests
<1> QED
  BY <1>1, TypeParts DEF Inv, ClientEffect, Filed, Served

\* The steps of the refresh of the manifest.
LEMMA ManifestEffect ==
  ASSUME Inv, \/ RequestManifest
              \/ \E g \in Getters, written \in BOOLEAN : ReceiveManifest(g, written)
              \/ \E g \in Getters : RefreshFails(g)
  PROVE  ClientEffect
<1> USE TypeParts DEF Inv
<1>1. CASE RequestManifest
  <2> DEFINE asked == [phase |-> "sent", etag |-> manifest, body |-> None]
  <2>1. asked \in GetRecord /\ asked.phase = "sent"
    BY DEF GetRecord, Phase
  <2>2. get' = [get EXCEPT !["manifest_loop"] = asked]
    BY <1>1 DEF RequestManifest
  <2> HIDE DEF asked
  <2>3. get' \in [Getters -> GetRecord] /\ Answers'
    BY <2>1, <2>2 DEF Answers
  <2> QED
    BY <1>1, <2>3, QuietEffect DEF RequestManifest, client, memory, disk
<1>2. ASSUME NEW g \in Getters, NEW ok, AfterRefresh(g, ok)
      PROVE  /\ get' \in [Getters -> GetRecord] /\ Answers'
             /\ started' \in BOOLEAN /\ tasker' \in TaskerRecord
  <2>1. get' \in [Getters -> GetRecord] /\ Answers'
    BY <1>2, EmptySlots DEF AfterRefresh, Answers
  <2>2. tasker' \in TaskerRecord
    BY <1>2, EmptySlots DEF AfterRefresh, TaskerRecord
  <2> QED
    BY <1>2, <2>1, <2>2 DEF AfterRefresh
<1>3. ASSUME NEW g \in Getters, NEW written \in BOOLEAN, ReceiveManifest(g, written)
      PROVE  ClientEffect
  <2>1. get[g].body \in Manifest \union {NotModified}
    BY <1>3 DEF ReceiveManifest, Answers
  <2>2. manifest' \in Manifest /\ manifest_disk' \in Manifest
    BY <1>3, <2>1 DEF ReceiveManifest
  <2>3. /\ get' \in [Getters -> GetRecord] /\ Answers'
        /\ started' \in BOOLEAN /\ tasker' \in TaskerRecord
    BY <1>2, <1>3 DEF ReceiveManifest
  <2> QED
    BY <1>3, <2>2, <2>3, QuietEffect DEF ReceiveManifest
<1>4. ASSUME NEW g \in Getters, RefreshFails(g)
      PROVE  ClientEffect
  <2>1. /\ get' \in [Getters -> GetRecord] /\ Answers'
        /\ started' \in BOOLEAN /\ tasker' \in TaskerRecord
    BY <1>2, <1>4 DEF RefreshFails
  <2> QED
    BY <1>4, <2>1, QuietEffect DEF RefreshFails, disk
<1> QED
  BY <1>1, <1>3, <1>4

\* The steps of the task loop that start no test.
LEMMA PollEffect ==
  ASSUME Inv, \/ PollTasks \/ ReceiveTasks \/ PollFails \/ TasksDone
              \/ \E a \in Assignment : SkipTask(a)
  PROVE  ClientEffect
<1> USE TypeParts DEF Inv, disk, wire
<1>1. CASE PollTasks
  <2>1. poll' \in PollRecord /\ tasker' \in TaskerRecord
    BY <1>1 DEF PollTasks, PollRecord, TaskerRecord, Phase
  <2> QED
    BY <1>1, <2>1, QuietEffect DEF PollTasks, Answers
<1>2. CASE ReceiveTasks
  <2>1. poll.body \in SUBSET Assignment
    BY DEF PollRecord
  <2>2. tasker' \in TaskerRecord
    BY <1>2, <2>1, EmptySlots DEF ReceiveTasks, TaskerRecord
  <2>3. get' \in [Getters -> GetRecord] /\ Answers'
    BY <1>2, EmptySlots DEF ReceiveTasks, Answers
  <2> QED
    BY <1>2, <2>2, <2>3, EmptySlots, QuietEffect DEF ReceiveTasks
<1>3. CASE PollFails
  BY <1>3, EmptySlots, QuietEffect DEF PollFails, Answers
<1>4. CASE TasksDone
  BY <1>4, EmptySlots, QuietEffect DEF TasksDone, Answers
<1>5. ASSUME NEW a \in Assignment, SkipTask(a)
      PROVE  ClientEffect
  <2>1. tasker' \in TaskerRecord
    BY <1>5 DEF SkipTask, TaskerRecord
  <2> QED
    BY <1>5, <2>1, QuietEffect DEF SkipTask, Answers
<1> QED
  BY <1>1, <1>2, <1>3, <1>4, <1>5

\* A step that changes tests and the task loop and leaves the results alone.
LEMMA TestEffect ==
  ASSUME Inv, UNCHANGED <<started, manifest, pending, disk, wire>>,
         test' \in [Keys -> TestRecord], Tests', tasker' \in TaskerRecord
  PROVE  ClientEffect
<1>1. KeysOK' /\ Answers'
  BY TypeParts DEF Inv, KeysOK, Answers, disk, wire
<1> QED
  BY <1>1, TypeParts DEF Inv, ClientEffect, Filed, Served, disk, wire

\* The steps that hand out tests and start probes.
LEMMA StartEffect ==
  ASSUME Inv, bound' = bound,
         \/ \E a \in Assignment : RunTask(a)
         \/ \E due \in SUBSET Targets : ScheduleRound(due)
         \/ \E k \in Keys : StartProbe(k)
  PROVE  ClientEffect
<1> USE TypeParts DEF Inv
<1>1. \A m \in Targets : manifest[m] # NotListed => manifest[m] \in Configuration
  BY DEF Manifest
<1>2. ASSUME NEW k \in Keys, NEW m \in Targets, manifest[m] # NotListed
      PROVE  /\ [phase |-> "waiting", target |-> m, gen |-> manifest[m], id |-> None]
                   \in TestRecord
             /\ manifest[m] \in Configuration
  BY <1>1, <1>2 DEF TestRecord
<1>3. ASSUME NEW a \in Assignment, RunTask(a)
      PROVE  ClientEffect
  <2> DEFINE new == [phase |-> "waiting", target |-> a.target,
                     gen |-> manifest[a.target], id |-> None]
  <2>1. a.task \in Tasks /\ a.target \in Targets /\ a.task \in Keys
    BY DEF Assignment, Keys
  <2>2. pending[a.task] = None /\ manifest[a.target] # NotListed
    BY <1>3 DEF RunTask, Skipped
  <2>3. /\ new \in TestRecord /\ new.phase = "waiting"
        /\ new.target \in Targets /\ new.gen \in Configuration
    BY <1>2, <2>1, <2>2
  <2>4. test' = [test EXCEPT ![a.task] = new]
    BY <1>3 DEF RunTask
  <2> HIDE DEF new
  <2>5. test' \in [Keys -> TestRecord]
    BY <2>3, <2>4
  <2>6. Tests'
    BY <1>3, <2>1, <2>2, <2>3, <2>4 DEF Tests, RunTask
  <2>7. tasker' \in TaskerRecord
    BY <1>3 DEF RunTask, TaskerRecord
  <2> QED
    BY <1>3, <2>5, <2>6, <2>7, TestEffect DEF RunTask
<1>4. ASSUME NEW due \in SUBSET Targets, ScheduleRound(due)
      PROVE  ClientEffect
  <2> DEFINE new(k) == [phase |-> "waiting", target |-> k, gen |-> manifest[k], id |-> None]
  <2>1. ASSUME NEW k \in due
        PROVE  /\ new(k) \in TestRecord /\ new(k).phase = "waiting"
               /\ new(k).target \in Targets /\ new(k).gen \in Configuration
               /\ k \in Keys /\ k \notin Tasks
    <3>1. k \in Targets /\ manifest[k] # NotListed
      BY <1>4 DEF ScheduleRound
    <3>2. k \in Keys /\ k \notin Tasks
      BY <3>1, ResultFacts
    <3> QED
      BY <1>2, <3>1, <3>2
  <2>2. test' = [k \in Keys |-> IF k \in due THEN new(k) ELSE test[k]]
    BY <1>4 DEF ScheduleRound
  <2> HIDE DEF new
  <2>3. test' \in [Keys -> TestRecord]
    BY <2>1, <2>2
  <2>4. Tests'
    BY <1>4, <2>1, <2>2 DEF Tests, ScheduleRound
  <2> QED
    BY <1>4, <2>3, <2>4, TestEffect DEF ScheduleRound
<1>5. ASSUME NEW k \in Keys, StartProbe(k)
      PROVE  ClientEffect
  <2>1. PICK i \in bound.ids \ UsedIds :
          test' = [test EXCEPT ![k].phase = "probing", ![k].id = i]
    BY <1>5 DEF StartProbe
  <2>2. i \in Ids
    BY <2>1, ProtocolAssumption
  <2> DEFINE new == [[test[k] EXCEPT !.phase = "probing"] EXCEPT !.id = i]
  <2>3. test[k] \in TestRecord
    OBVIOUS
  <2>4. /\ new \in TestRecord /\ new.phase = "probing" /\ new.id = i
        /\ new.target = test[k].target /\ new.gen = test[k].gen
    BY <2>2, <2>3 DEF TestRecord
  <2>5. test' = [test EXCEPT ![k] = new]
    BY <2>1
  <2> HIDE DEF new
  <2>6. test' \in [Keys -> TestRecord]
    BY <2>4, <2>5
  <2>7. test[k].phase = "waiting"
    BY <1>5 DEF StartProbe
  <2>8. Tests'
    BY <1>5, <2>2, <2>4, <2>5, <2>7 DEF Tests, StartProbe
  <2> QED
    BY <1>5, <2>6, <2>8, TestEffect DEF StartProbe
<1> QED
  BY <1>3, <1>4, <1>5

\* A recorded result is under the key of its test; with the write the file is the
\* memory again, without it the key had nothing pending.
LEMMA KeepEffect ==
  ASSUME Inv, NEW k \in Keys, NEW written \in BOOLEAN, KeepResult(k, written)
  PROVE  ClientEffect /\ pending'[k] # None
<1> USE TypeParts DEF Inv
<1>1. NewResult(k) \in Result /\ NewResult(k).key = k /\ NewResult(k) # None
  <2>1. test[k].target \in Targets /\ test[k].gen \in Configuration /\ test[k].id \in Ids
    BY DEF KeepResult, Tests
  <2> QED
    BY <2>1, ResultFacts DEF NewResult, Result
<1>2. pending' = [pending EXCEPT ![k] = NewResult(k)]
  BY DEF KeepResult
<1>3. pending' \in [Keys -> Result \union {None}] /\ pending'[k] # None
  BY <1>1, <1>2
<1>4. pending_disk' = IF written THEN pending' ELSE pending_disk
  BY DEF KeepResult
<1>5. KeysOK'
  BY <1>1, <1>2, <1>3, <1>4 DEF KeysOK
<1>6. test' = [test EXCEPT ![k] = NoTest] /\ test' \in [Keys -> TestRecord]
  BY EmptySlots DEF KeepResult
<1>7. Tests'
  BY <1>2, <1>6, EmptySlots DEF Tests
<1>8. tasker' \in TaskerRecord
  BY EmptySlots DEF KeepResult, TaskerRecord
<1>9. ~ written => pending[k] = None
  BY DEF KeepResult, Tests
<1>10. \A j \in Keys :
         pending_disk'[j] # None /\ pending'[j] # pending_disk'[j] => Processed(pending_disk'[j])
  BY <1>2, <1>4, <1>9 DEF Filed
<1>11. Answers' /\ UNCHANGED <<started, manifest, manifest_disk, wire>>
  BY DEF KeepResult, Answers, wire
<1> QED
  BY <1>3, <1>4, <1>5, <1>6, <1>7, <1>8, <1>10, <1>11 DEF ClientEffect, Served, wire

\* A step of the upload loop or a lost post: an answer removes results that have
\* been processed, and nothing else removes any.
LEMMA UploadEffect ==
  ASSUME Inv, \/ PostResults \/ BatchRefused \/ PostFails
              \/ \E written \in BOOLEAN : ReceiveAnswer(written)
  PROVE  /\ ClientEffect
         /\ \A k \in Keys : pending[k] # None /\ pending'[k] = None => Processed(pending[k])
<1> USE TypeParts DEF Inv, client, memory, disk
<1>1. ASSUME UNCHANGED <<client, get, poll>>, post' \in PostRecord, late' \subseteq Result,
             post'.todo = post'.batch \/ Oversize(post'.batch),
             post'.todo \subseteq post'.batch, Oversize(post'.batch) => post'.todo = {}
      PROVE  /\ ClientEffect
             /\ \A k \in Keys : pending[k] # None /\ pending'[k] = None => Processed(pending[k])
  <2>1. KeysOK' /\ Tests' /\ Answers'
    BY <1>1 DEF KeysOK, Tests, Answers
  <2> QED
    BY <1>1, <2>1 DEF ClientEffect, Filed
<1>2. CASE PostResults
  <2> DEFINE batch == ResultsOf(pending)
             todo == IF Oversize(batch) THEN {} ELSE batch
  <2>1. batch \in SUBSET Result
    BY DEF ResultsOf
  <2>2. post' = [phase |-> "sent", batch |-> batch, todo |-> todo]
    BY <1>2 DEF PostResults
  <2>3. todo \in SUBSET Result
    BY <2>1
  <2>4. Oversize(post'.batch) <=> Oversize(batch)
    BY <2>2
  <2>5. (todo = batch \/ Oversize(batch)) /\ todo \subseteq batch
        /\ (Oversize(batch) => todo = {})
    OBVIOUS
  <2> HIDE DEF batch, todo
  <2>6. post' \in PostRecord /\ post'.batch = batch /\ post'.todo = todo
    BY <2>1, <2>2, <2>3 DEF PostRecord
  <2> QED
    BY <1>1, <1>2, <2>4, <2>5, <2>6 DEF PostResults
<1>3. CASE BatchRefused \/ PostFails
  <2>1. post' = NoPost /\ late' \subseteq Result /\ UNCHANGED <<client, get, poll>>
    BY <1>3 DEF BatchRefused, PostFails, AbandonPost, PostRecord
  <2> QED
    BY <1>1, <2>1, EmptySlots
<1>4. ASSUME NEW written \in BOOLEAN, ReceiveAnswer(written)
      PROVE  /\ ClientEffect
             /\ \A k \in Keys : pending[k] # None /\ pending'[k] = None => Processed(pending[k])
  <2>1. pending' = Remaining(post.batch)
        /\ pending_disk' = (IF written THEN pending' ELSE pending_disk)
        /\ post' = NoPost
        /\ UNCHANGED <<started, manifest, manifest_disk, test, tasker, get, poll, late>>
    BY <1>4 DEF ReceiveAnswer
  <2>2. \A r \in post.batch : Processed(r)
    BY <1>4 DEF ReceiveAnswer, Served
  <2>3. ASSUME NEW k \in Keys
        PROVE  /\ pending'[k] \in {pending[k], None}
               /\ pending[k] # None /\ pending'[k] = None => Processed(pending[k])
    <3>1. pending'[k] = IF \E r \in post.batch : pending[k] # None /\ pending[k].id = r.id
                        THEN None ELSE pending[k]
      BY <2>1 DEF Remaining
    <3> QED
      BY <2>2, <3>1 DEF Processed
  <2>4. pending' \in [Keys -> Result \union {None}]
    BY <2>1, <2>3 DEF Remaining
  <2>5. KeysOK'
    BY <2>1, <2>3, <2>4 DEF KeysOK
  <2>6. Tests' /\ Answers'
    BY <2>1, <2>3 DEF Tests, Answers
  <2>7. \A k \in Keys :
          pending_disk'[k] # None /\ pending'[k] # pending_disk'[k] => Processed(pending_disk'[k])
    BY <2>1, <2>3 DEF Filed
  <2>8. (IF written THEN pending' ELSE pending_disk) \in [Keys -> Result \union {None}]
    BY <2>4
  <2> QED
    BY <2>1, <2>3, <2>4, <2>5, <2>6, <2>7, <2>8, EmptySlots DEF ClientEffect
<1> QED
  BY <1>2, <1>3, <1>4

\* After a crash the memory is the file.
LEMMA CrashEffect ==
  ASSUME Inv, Crash
  PROVE  ClientEffect
<1> USE TypeParts, EmptySlots DEF Inv, Crash
<1>1. get' \in [Getters -> GetRecord] /\ Answers'
  BY DEF Answers
<1>2. test' \in [Keys -> TestRecord] /\ Tests'
  BY DEF Tests
<1>3. post' = NoPost /\ late' \subseteq Result
  BY DEF AbandonPost, PostRecord
<1>4. KeysOK' /\ pending' = pending_disk' /\ UNCHANGED disk
  BY DEF KeysOK, disk
<1> QED
  BY <1>1, <1>2, <1>3, <1>4 DEF ClientEffect, disk

\* What a step of the client leaves, whichever it is.
LEMMA ClientNextEffect ==
  ASSUME Inv, ClientNext, bound' = bound
  PROVE  ClientEffect
<1>1. CASE RequestManifest \/ (\E g \in Getters, written \in BOOLEAN : ReceiveManifest(g, written))
           \/ (\E g \in Getters : RefreshFails(g))
  BY <1>1, ManifestEffect
<1>2. CASE PollTasks \/ ReceiveTasks \/ PollFails \/ TasksDone
           \/ (\E a \in Assignment : SkipTask(a))
  BY <1>2, PollEffect
<1>3. CASE (\E a \in Assignment : RunTask(a)) \/ (\E due \in SUBSET Targets : ScheduleRound(due))
           \/ (\E k \in Keys : StartProbe(k))
  BY <1>3, StartEffect
<1>4. CASE \E k \in Keys, written \in BOOLEAN : KeepResult(k, written)
  BY <1>4, KeepEffect
<1>5. CASE PostResults \/ BatchRefused \/ PostFails
           \/ (\E written \in BOOLEAN : ReceiveAnswer(written))
  BY <1>5, UploadEffect
<1>6. CASE Crash
  BY <1>6, CrashEffect
<1> QED
  BY <1>1, <1>2, <1>3, <1>4, <1>5, <1>6 DEF ClientNext

\* A step of the client makes at most one result, under the id of its test.
LEMMA HeldGrows ==
  ASSUME Inv, ClientNext
  PROVE  \/ Held' \subseteq Held
         \/ \E k \in Probing, written \in BOOLEAN :
              KeepResult(k, written) /\ Held' \subseteq Held \union {NewResult(k)}
<1> USE DEF Held
<1>1. CASE UNCHANGED <<pending, pending_disk, post, late>>
  BY <1>1
<1>2. ASSUME NEW k \in Keys, NEW written \in BOOLEAN, KeepResult(k, written)
      PROVE  k \in Probing /\ Held' \subseteq Held \union {NewResult(k)}
  <2>1. k \in Probing /\ UNCHANGED <<post, late>>
    BY <1>2 DEF KeepResult, Probing, wire
  <2>2. /\ pending' = [pending EXCEPT ![k] = NewResult(k)]
        /\ pending_disk' = IF written THEN pending' ELSE pending_disk
    BY <1>2 DEF KeepResult
  <2>3. ResultsOf(pending') \subseteq ResultsOf(pending) \union {NewResult(k)}
    BY <2>2, TypeParts DEF ResultsOf, Inv
  <2>4. ResultsOf(pending_disk') \subseteq
          ResultsOf(pending) \union ResultsOf(pending_disk) \union {NewResult(k)}
    BY <2>2, <2>3
  <2> QED
    BY <2>1, <2>3, <2>4
<1>3. CASE PostResults
  BY <1>3 DEF PostResults, client, memory, disk
<1>4. CASE BatchRefused \/ PostFails
  <2>1. post'.batch = {} /\ late' \subseteq late \union post.batch
    BY <1>4, EmptySlots, TypeParts DEF BatchRefused, PostFails, AbandonPost, Inv
  <2>2. UNCHANGED <<pending, pending_disk>>
    BY <1>4 DEF BatchRefused, PostFails, client, memory, disk
  <2> QED
    BY <2>1, <2>2
<1>5. ASSUME NEW written \in BOOLEAN, ReceiveAnswer(written)
      PROVE  Held' \subseteq Held
  <2>1. /\ pending' = Remaining(post.batch)
        /\ pending_disk' = IF written THEN pending' ELSE pending_disk
        /\ post'.batch = {} /\ late' = late
    BY <1>5, EmptySlots DEF ReceiveAnswer
  <2>2. ResultsOf(pending') \subseteq ResultsOf(pending)
    BY <2>1 DEF Remaining, ResultsOf
  <2>3. ResultsOf(pending_disk') \subseteq ResultsOf(pending) \union ResultsOf(pending_disk)
    BY <2>1, <2>2
  <2> QED
    BY <2>1, <2>2, <2>3
<1>6. CASE Crash
  <2>1. post'.batch = {} /\ late' \subseteq late \union post.batch
    BY <1>6, EmptySlots, TypeParts DEF Crash, AbandonPost, Inv
  <2>2. pending' = pending_disk /\ pending_disk' = pending_disk
    BY <1>6 DEF Crash, disk
  <2> QED
    BY <2>1, <2>2
<1>7. \/ UNCHANGED <<pending, pending_disk, post, late>>
      \/ \E k \in Keys, written \in BOOLEAN : KeepResult(k, written)
      \/ PostResults \/ BatchRefused \/ PostFails \/ Crash
      \/ \E written \in BOOLEAN : ReceiveAnswer(written)
  BY DEF ClientNext, RequestManifest, ReceiveManifest, RefreshFails, PollTasks,
     ReceiveTasks, PollFails, SkipTask, RunTask, TasksDone, ScheduleRound, StartProbe,
     client, memory, disk, wire
<1> QED
  BY <1>1, <1>2, <1>3, <1>4, <1>5, <1>6, <1>7

\* So every result that is held after a step of the client had its id before.
LEMMA HeldIds ==
  ASSUME Inv, ClientNext, NEW r \in Held'
  PROVE  r.id \in UsedIds
<1>1. CASE r \in Held
  BY <1>1 DEF UsedIds
<1>2. ASSUME NEW k \in Probing, r = NewResult(k)
      PROVE  r.id \in UsedIds
  BY <1>2 DEF UsedIds, NewResult
<1> QED
  BY <1>1, <1>2, HeldGrows

\* The rows that the model drops with a step of the client are of results that
\* are neither in the file nor in the post under way.
LEMMA KeptRows ==
  ASSUME Inv, ClientNext, ClientEffect, ForgetRows
  PROVE  /\ row' \in [Ids -> Row]
         /\ \A k \in Keys : pending_disk'[k] # None =>
              row'[pending_disk'[k].id] = row[pending_disk'[k].id]
         /\ \A r \in post'.batch : row'[r.id] = row[r.id]
<1>1. row \in [Ids -> Row]
  BY TypeParts DEF Inv, ServerTypeOK
<1>2. row' = [i \in Ids |-> IF i \in UsedIds /\ i \in UsedIds' THEN row[i] ELSE NoRow]
  BY DEF ForgetRows
<1>3. row' \in [Ids -> Row]
  BY <1>1, <1>2 DEF Row, NoRow
<1>4. ASSUME NEW r \in Result, r \in ResultsOf(pending_disk') \/ r \in post'.batch
      PROVE  row'[r.id] = row[r.id]
  <2>1. r \in Held' /\ r.id \in UsedIds'
    BY <1>4 DEF UsedIds, Held
  <2>2. r.id \in UsedIds
    BY <2>1, HeldIds
  <2> QED
    BY <1>2, <2>1, <2>2, ResultFacts
<1>5. \A r \in post'.batch : r \in Result
  BY DEF ClientEffect, PostRecord
<1>6. \A k \in Keys : pending_disk'[k] # None =>
        pending_disk'[k] \in Result /\ pending_disk'[k] \in ResultsOf(pending_disk')
  BY DEF ClientEffect, ResultsOf
<1> QED
  BY <1>3, <1>4, <1>5, <1>6

\* A step of the client keeps the invariant.
LEMMA ClientInv ==
  ASSUME Inv, ClientStep(ClientNext)
  PROVE  Inv'
<1>1. ClientNext /\ ForgetRows /\ UNCHANGED <<life, gen, task, operator, bound>>
  BY DEF ClientStep
<1>2. ClientEffect
  BY <1>1, ClientNextEffect
<1>3. /\ row' \in [Ids -> Row]
      /\ \A k \in Keys : pending_disk'[k] # None =>
           row'[pending_disk'[k].id] = row[pending_disk'[k].id]
      /\ \A r \in post'.batch : row'[r.id] = row[r.id]
  BY <1>1, <1>2, KeptRows
<1>4. ServerTypeOK' /\ bound' \in Bounds
  BY <1>1, <1>3, TypeParts DEF Inv, ServerTypeOK
<1>5. Filed' /\ Served'
  BY <1>2, <1>3 DEF ClientEffect, Filed, Served, Processed
<1>6. TypeOK'
  <2>1. /\ get' \in [Getters -> GetRecord] /\ poll' \in PollRecord /\ post' \in PostRecord
        /\ post'.todo \subseteq post'.batch /\ (Oversize(post'.batch) => post'.todo = {})
        /\ late' \subseteq Result /\ started' \in BOOLEAN
        /\ manifest' \in Manifest /\ manifest_disk' \in Manifest
        /\ pending' \in [Keys -> Result \union {None}]
        /\ pending_disk' \in [Keys -> Result \union {None}]
        /\ test' \in [Keys -> TestRecord] /\ tasker' \in TaskerRecord /\ KeysOK'
    BY <1>2 DEF ClientEffect
  <2> QED
    BY <1>4, <2>1 DEF TypeOK, WireTypeOK, ClientTypeOK, KeysOK, GetRecord, PollRecord,
       PostRecord, TestRecord, TaskerRecord
<1> QED
  BY <1>2, <1>5, <1>6 DEF Inv, ClientEffect

-----------------------------------------------------------------------------
(* The server's steps *)

\* What a step of the server leaves of its own tables: they keep their types and
\* what was processed stays processed.
ServerEffect ==
  /\ ServerTypeOK'
  /\ \A i \in Ids : row[i].fate # "none" => row'[i].fate # "none"

\* Deleting results.
LEMMA RemoveEffect ==
  ASSUME Inv, NEW S, RemoveRows(S)
  PROVE  /\ row' \in [Ids -> Row]
         /\ \A i \in Ids : row[i].fate # "none" => row'[i].fate # "none"
<1>1. row \in [Ids -> Row]
  BY TypeParts DEF Inv, ServerTypeOK
<1>2. \A i \in Ids : /\ [row[i] EXCEPT !.fate = "removed"] \in Row
                     /\ [row[i] EXCEPT !.fate = "removed"].fate = "removed"
  BY <1>1 DEF Row
<1> QED
  BY <1>1, <1>2 DEF RemoveRows

\* A rejected or a stored item has been processed.
LEMMA SaveEffect ==
  ASSUME Inv, NEW r \in Result, Store(r) \/ Reject(r)
  PROVE  ServerEffect /\ row'[r.id].fate # "none"
<1>1. /\ row \in [Ids -> Row] /\ r.id \in Ids /\ r.target \in Targets
      /\ task \in [Tasks -> [state  : {"unused", "assigned", "completed", "expired", "deleted"},
                             target : Targets \union {None}]]
  BY TypeParts, ResultFacts DEF Inv, ServerTypeOK
<1>2. CASE Store(r)
  <2> DEFINE new == [fate |-> "stored", target |-> r.target]
  <2>1. new \in Row /\ new.fate = "stored"
    BY <1>1 DEF Row
  <2>2. row' = [row EXCEPT ![r.id] = new]
    BY <1>2 DEF Store
  <2> HIDE DEF new
  <2>3. /\ row' \in [Ids -> Row] /\ row'[r.id].fate # "none"
        /\ \A i \in Ids : row[i].fate # "none" => row'[i].fate # "none"
    BY <1>1, <2>1, <2>2
  <2>4. task' \in [Tasks -> [state  : {"unused", "assigned", "completed", "expired", "deleted"},
                             target : Targets \union {None}]]
    BY <1>1, <1>2 DEF Store
  <2> QED
    BY <1>2, <2>3, <2>4, TypeParts DEF Inv, Store, ServerEffect, ServerTypeOK
<1>3. CASE Reject(r)
  <2> DEFINE new == [row[r.id] EXCEPT !.fate = "rejected"]
  <2>1. new \in Row /\ new.fate = "rejected"
    BY <1>1 DEF Row
  <2>2. row' = IF row[r.id].fate = "none" THEN [row EXCEPT ![r.id] = new] ELSE row
    BY <1>3 DEF Reject
  <2> HIDE DEF new
  <2>3. /\ row' \in [Ids -> Row] /\ row'[r.id].fate # "none"
        /\ \A i \in Ids : row[i].fate # "none" => row'[i].fate # "none"
    BY <1>1, <2>1, <2>2
  <2> QED
    BY <1>3, <2>3, TypeParts DEF Inv, Reject, ServerEffect, ServerTypeOK
<1> QED
  BY <1>2, <1>3

\* The handlers of the operator, and what expires or is cleaned up.
LEMMA OperatorEffect ==
  ASSUME Inv,
         \/ \E m \in Targets, on \in BOOLEAN : EditSave(m, on)
         \/ EditClear
         \/ \E m \in Targets : CheckNow(m) \/ DeleteMonitor(m)
         \/ \E t \in Tasks : Dispatch(t) \/ ExpireTask(t)
         \/ \E i \in Ids : CleanupHistory(i)
  PROVE  ServerEffect /\ UNCHANGED wire
<1> DEFINE TaskRecord == [state  : {"unused", "assigned", "completed", "expired", "deleted"},
                          target : Targets \union {None}]
<1>1. /\ life \in [Targets -> {"enabled", "disabled", "deleted"}]
      /\ gen \in [Targets -> Configuration] /\ task \in [Tasks -> TaskRecord]
      /\ row \in [Ids -> Row]
      /\ operator \in [pc : {"none", "clear", "dispatch"}, target : Targets \union {None}]
      /\ bound \in Bounds
  BY TypeParts DEF Inv, ServerTypeOK
<1> USE DEF ServerEffect, ServerTypeOK
<1>2. ASSUME NEW m \in Targets, NEW on \in BOOLEAN, EditSave(m, on)
      PROVE  ServerEffect /\ UNCHANGED wire
  <2>1. gen[m] + 1 \in Configuration
    <3>1. gen[m] \in 1 .. MaxGen /\ bound.gens \in 1 .. MaxGen /\ gen[m] < bound.gens
      BY <1>1, <1>2, ProtocolAssumption DEF EditSave, Configuration
    <3> QED
      BY <3>1, ProtocolAssumption DEF Configuration
  <2>2. gen' \in [Targets -> Configuration]
    BY <1>1, <1>2, <2>1 DEF EditSave
  <2>3. life' \in [Targets -> {"enabled", "disabled", "deleted"}]
    BY <1>1, <1>2 DEF EditSave
  <2> QED
    BY <1>1, <1>2, <2>2, <2>3 DEF EditSave
<1>3. CASE EditClear
  BY <1>1, <1>3, RemoveEffect DEF EditClear
<1>4. ASSUME NEW m \in Targets, CheckNow(m)
      PROVE  ServerEffect /\ UNCHANGED wire
  BY <1>1, <1>4 DEF CheckNow
<1>5. ASSUME NEW m \in Targets, DeleteMonitor(m)
      PROVE  ServerEffect /\ UNCHANGED wire
  <2>1. \A t \in Tasks : [task[t] EXCEPT !.state = "deleted"] \in TaskRecord
    BY <1>1
  <2>2. task' \in [Tasks -> TaskRecord]
    BY <1>1, <1>5, <2>1 DEF DeleteMonitor
  <2>3. life' \in [Targets -> {"enabled", "disabled", "deleted"}]
    BY <1>1, <1>5 DEF DeleteMonitor
  <2> QED
    BY <1>1, <1>5, <2>2, <2>3, RemoveEffect DEF DeleteMonitor
<1>6. ASSUME NEW t \in Tasks, Dispatch(t)
      PROVE  ServerEffect /\ UNCHANGED wire
  <2> DEFINE new == [state |-> "assigned", target |-> operator.target]
  <2>1. new \in TaskRecord
    BY <1>1
  <2>2. task' = IF life[operator.target] = "deleted" THEN task ELSE [task EXCEPT ![t] = new]
    BY <1>6 DEF Dispatch
  <2> HIDE DEF new
  <2>3. task' \in [Tasks -> TaskRecord]
    BY <1>1, <2>1, <2>2
  <2> QED
    BY <1>1, <1>6, <2>3 DEF Dispatch, NoView
<1>7. ASSUME NEW t \in Tasks, ExpireTask(t)
      PROVE  ServerEffect /\ UNCHANGED wire
  <2> DEFINE new == [task[t] EXCEPT !.state = "expired"]
  <2>1. new \in TaskRecord
    BY <1>1
  <2>2. task' = [task EXCEPT ![t] = new]
    BY <1>7 DEF ExpireTask
  <2> HIDE DEF new
  <2>3. task' \in [Tasks -> TaskRecord]
    BY <1>1, <2>1, <2>2
  <2> QED
    BY <1>1, <1>7, <2>3 DEF ExpireTask
<1>8. ASSUME NEW i \in Ids, CleanupHistory(i)
      PROVE  ServerEffect /\ UNCHANGED wire
  BY <1>1, <1>8, RemoveEffect DEF CleanupHistory
<1> QED
  BY <1>2, <1>3, <1>4, <1>5, <1>6, <1>7, <1>8

\* A step of the server keeps the invariant: it never forgets what it processed.
LEMMA ServerInv ==
  ASSUME Inv, ServerStep(ServerNext)
  PROVE  Inv'
<1> USE TypeParts DEF Inv
<1>1. UNCHANGED <<client, bound>>
  BY DEF ServerStep
<1>2. ASSUME ServerEffect,
             get' \in [Getters -> GetRecord], Answers', poll' \in PollRecord,
             post' \in PostRecord, post'.batch = post.batch, post'.todo \subseteq post.todo,
             late' \subseteq Result,
             \A r \in post.todo \ post'.todo : row'[r.id].fate # "none"
      PROVE  Inv'
  <2>1. \A r \in Result : Processed(r) => row'[r.id].fate # "none"
    BY <1>2, ResultFacts DEF ServerEffect, Processed
  <2>2. Tests' /\ KeysOK'
    BY <1>1 DEF Tests, KeysOK, client, memory, disk
  <2>3. Filed'
    BY <1>1, <2>1 DEF Filed, Processed, client, memory, disk
  <2>4. Served'
    <3>1. \A r \in post.batch : r \in Result
      BY DEF PostRecord
    <3> QED
      BY <1>2, <2>1, <3>1 DEF Served, Processed
  <2>5. post'.todo \subseteq post'.batch /\ (Oversize(post'.batch) => post'.todo = {})
    BY <1>2
  <2>6. ServerTypeOK' /\ bound' \in Bounds
    BY <1>1, <1>2 DEF ServerEffect
  <2>7. TypeOK'
    BY <1>1, <1>2, <2>2, <2>5, <2>6
       DEF TypeOK, WireTypeOK, ClientTypeOK, KeysOK, GetRecord, PollRecord, PostRecord,
           TestRecord, TaskerRecord, client, memory, disk
  <2> QED
    BY <1>2, <2>2, <2>3, <2>4, <2>7
<1>3. UNCHANGED server => ServerEffect
  BY DEF ServerEffect, ServerTypeOK, server
<1>4. ASSUME NEW g \in Getters, AnswerManifest(g)
      PROVE  Inv'
  <2> DEFINE new == [phase |-> "answered", etag |-> None,
                     body |-> manifest_response(get[g].etag)]
  <2>1. manifest_payload \in Manifest
    BY DEF manifest_payload, Manifest, ServerTypeOK
  <2>2. new \in GetRecord /\ new.body \in Manifest \union {NotModified}
    BY <2>1 DEF manifest_response, GetRecord, Phase
  <2>3. get' = [get EXCEPT ![g] = new]
    BY <1>4 DEF AnswerManifest
  <2> HIDE DEF new
  <2>4. get' \in [Getters -> GetRecord] /\ Answers'
    BY <2>2, <2>3 DEF Answers
  <2> QED
    BY <1>2, <1>3, <1>4, <2>4 DEF AnswerManifest
<1>5. CASE AnswerTasks
  <2>1. poll' \in PollRecord
    BY <1>5 DEF AnswerTasks, PollRecord, Phase, OpenAssignments
  <2> QED
    BY <1>2, <1>3, <1>5, <2>1 DEF AnswerTasks, Answers
<1>6. ASSUME NEW r \in Result, SaveItem(r) \/ LockedItem(r)
      PROVE  Inv'
  <2>1. ServerEffect /\ row'[r.id].fate # "none"
    BY <1>6, SaveEffect DEF SaveItem, LockedItem, Save
  <2>2. post' = [post EXCEPT !.todo = post.todo \ {r}] /\ UNCHANGED <<get, poll, late>>
    BY <1>6 DEF SaveItem, LockedItem
  <2>3. post' \in PostRecord /\ post'.batch = post.batch /\ post'.todo = post.todo \ {r}
    BY <2>2 DEF PostRecord
  <2> QED
    BY <1>2, <2>1, <2>2, <2>3 DEF Answers
<1>7. ASSUME NEW r \in Result, SaveLateItem(r)
      PROVE  Inv'
  <2>1. ServerEffect
    BY <1>7, SaveEffect DEF SaveLateItem, Save
  <2> QED
    BY <1>2, <1>7, <2>1 DEF SaveLateItem, Answers
<1>8. ASSUME ServerEffect, UNCHANGED wire
      PROVE  Inv'
  BY <1>2, <1>8 DEF wire, Answers
<1> QED
  BY <1>4, <1>5, <1>6, <1>7, <1>8, OperatorEffect DEF ServerStep, ServerNext

-----------------------------------------------------------------------------
(* What the specification promises *)

\* The invariant is inductive.
LEMMA Inductive == Inv /\ [Next]_vars => Inv'
<1> SUFFICES ASSUME Inv, [Next]_vars PROVE Inv'
  OBVIOUS
<1>1. CASE ClientStep(ClientNext)
  BY <1>1, ClientInv
<1>2. CASE ServerStep(ServerNext)
  BY <1>2, ServerInv
<1>3. CASE UNCHANGED vars
  <2>1. TypeOK'
    BY <1>3, TypeParts
       DEF Inv, TypeOK, WireTypeOK, ClientTypeOK, ServerTypeOK,
           vars, client, memory, disk, server, wire
  <2>2. Answers' /\ Tests' /\ Filed' /\ Served'
    BY <1>3 DEF Inv, Answers, Tests, Filed, Served, Processed,
                vars, client, memory, disk, server, wire
  <2> QED
    BY <2>1, <2>2 DEF Inv
<1> QED
  BY <1>1, <1>2, <1>3 DEF Next

\* Every variable keeps its type, and a result is pending under its own key.
THEOREM DeliveryTypeCorrect == Spec => []TypeOK
<1>1. Inv => TypeOK
  BY DEF Inv
<1> QED
  BY InitInv, Inductive, <1>1, PTL DEF Spec

\* Which steps change the pending results or their file, and how.
LEMMA PendingSteps ==
  ASSUME Inv, [Next]_vars
  PROVE  \/ UNCHANGED <<pending, pending_disk>>
         \/ \E k \in Keys, written \in BOOLEAN : KeepResult(k, written)
         \/ \E written \in BOOLEAN : ReceiveAnswer(written)
         \/ pending' = pending_disk /\ pending_disk' = pending_disk /\ ~ started'
<1>1. CASE ClientStep(ClientNext)
  <2>1. ASSUME ClientNext
        PROVE  \/ UNCHANGED <<pending, pending_disk>>
               \/ \E k \in Keys, written \in BOOLEAN : KeepResult(k, written)
               \/ \E written \in BOOLEAN : ReceiveAnswer(written)
               \/ Crash
    BY <2>1 DEF ClientNext, RequestManifest, ReceiveManifest, RefreshFails, PollTasks,
         ReceiveTasks, PollFails, SkipTask, RunTask, TasksDone, ScheduleRound, StartProbe,
         PostResults, BatchRefused, PostFails, client, memory, disk
  <2>2. Crash => pending' = pending_disk /\ pending_disk' = pending_disk /\ ~ started'
    BY DEF Crash, disk
  <2> QED
    BY <1>1, <2>1, <2>2 DEF ClientStep
<1>2. CASE ServerStep(ServerNext)
  BY <1>2 DEF ServerStep, client, memory, disk
<1>3. CASE UNCHANGED vars
  BY <1>3 DEF vars, client, memory, disk
<1> QED
  BY <1>1, <1>2, <1>3 DEF Next

\* A result leaves the file only once the server has processed it, or a newer one
\* takes its place (upload_loop, test_target, __init__ of client/main.py).
THEOREM ResultsAreKept == Spec => NoResultLost
<1>1. ASSUME Inv, [Next]_vars, NEW k \in Keys,
             pending_disk[k] # None, pending_disk'[k] = None
      PROVE  Processed(pending_disk[k])
  <2>1. CASE pending[k] # pending_disk[k]
    BY <1>1, <2>1 DEF Inv, Filed
  <2>2. CASE pending[k] = pending_disk[k]
    <3>1. ASSUME NEW j \in Keys, NEW written \in BOOLEAN, KeepResult(j, written)
          PROVE  FALSE
      <4>1. pending'[j] # None
        BY <1>1, <3>1, KeepEffect
      <4>2. \A i \in Keys \ {j} : pending'[i] = pending[i]
        BY <1>1, <3>1, TypeParts DEF KeepResult, Inv
      <4> QED
        BY <1>1, <2>2, <3>1, <4>1, <4>2 DEF KeepResult
    <3>2. ASSUME NEW written \in BOOLEAN, ReceiveAnswer(written)
          PROVE  Processed(pending_disk[k])
      <4>1. pending'[k] = None
        BY <1>1, <3>2 DEF ReceiveAnswer
      <4> QED
        BY <1>1, <2>2, <3>2, <4>1, UploadEffect
    <3> QED
      BY <1>1, <3>1, <3>2, PendingSteps
  <2> QED
    BY <2>1, <2>2
<1>2. Inv /\ [Next]_vars =>
        [\A k \in Keys : pending_disk[k] # None /\ pending_disk'[k] = None
                           => row[pending_disk[k].id].fate # "none"]_vars
  BY <1>1 DEF Processed
<1> QED
  BY InitInv, Inductive, <1>2, PTL DEF Spec, NoResultLost

\* A client that keeps running removes a result from memory only once the server
\* has processed it: one recorded while a post is out stays (upload_loop).
THEOREM ResultsAreNotDropped == Spec => NoResultDropped
<1>1. ASSUME Inv, [Next]_vars, NEW k \in Keys,
             pending[k] # None, pending'[k] = None, started'
      PROVE  Processed(pending[k])
  <2>1. ASSUME NEW j \in Keys, NEW written \in BOOLEAN, KeepResult(j, written)
        PROVE  FALSE
    <3>1. pending'[j] # None
      BY <1>1, <2>1, KeepEffect
    <3>2. \A i \in Keys \ {j} : pending'[i] = pending[i]
      BY <1>1, <2>1, TypeParts DEF KeepResult, Inv
    <3> QED
      BY <1>1, <3>1, <3>2
  <2>2. ASSUME NEW written \in BOOLEAN, ReceiveAnswer(written)
        PROVE  Processed(pending[k])
    BY <1>1, <2>2, UploadEffect
  <2> QED
    BY <1>1, <2>1, <2>2, PendingSteps
<1>2. Inv /\ [Next]_vars =>
        [\A k \in Keys : pending[k] # None /\ pending'[k] = None /\ started'
                           => row[pending[k].id].fate # "none"]_vars
  BY <1>1 DEF Processed
<1> QED
  BY InitInv, Inductive, <1>2, PTL DEF Spec, NoResultDropped
-----------------------------------------------------------------------------
(* Identity *)

\* An id is that of one result; and the id of a test that probes is new: no other
\* test and no result has it, and the server knows nothing of it.
Identified ==
  /\ \A r, s \in Held : r.id = s.id => r = s
  /\ \A k \in Probing :
       /\ row[test[k].id].fate = "none"
       /\ \A r \in Held : r.id # test[k].id
       /\ \A j \in Probing : test[j].id = test[k].id => j = k

\* What is pending for a target is in the file: the agent ends if it cannot write
\* the result of a periodic test.
Periodic == \A m \in Targets : pending[m] # None => pending[m] = pending_disk[m]

\* At first there are neither results nor tests.
LEMMA InitIdentified == Init => Identified /\ Periodic
<1> SUFFICES ASSUME Init PROVE Identified /\ Periodic
  OBVIOUS
<1>1. Held = {} /\ Probing = {}
  BY EmptySlots DEF Init, ClientInit, Held, ResultsOf, Probing
<1>2. Periodic
  BY DEF Init, ClientInit, Periodic, Keys
<1> QED
  BY <1>1, <1>2 DEF Identified

\* The results that are held, and the rows of their ids and of the ids of tests,
\* have their types.
LEMMA HeldTypes ==
  ASSUME Inv
  PROVE  /\ Held \subseteq Result
         /\ \A k \in Probing : k \in Keys /\ test[k].id \in Ids /\ test[k].id \in UsedIds
         /\ \A r \in Held : r.id \in Ids /\ r.id \in UsedIds
         /\ row \in [Ids -> Row]
<1>1. Held \subseteq Result
  <2>1. post.batch \subseteq Result /\ late \subseteq Result
    BY TypeParts DEF Inv, PostRecord
  <2>2. ResultsOf(pending) \subseteq Result /\ ResultsOf(pending_disk) \subseteq Result
    BY TypeParts DEF Inv, ResultsOf
  <2> QED
    BY <2>1, <2>2 DEF Held
<1>2. \A k \in Probing : k \in Keys /\ test[k].id \in Ids /\ test[k].id \in UsedIds
  BY DEF Inv, Tests, Probing, UsedIds
<1>3. row \in [Ids -> Row]
  BY TypeParts DEF Inv, ServerTypeOK
<1> QED
  BY <1>1, <1>2, <1>3, ResultFacts DEF UsedIds

\* A step of the client that starts no probe leaves of the tests that probe some, as
\* they were.
LEMMA ProbingShrinks ==
  ASSUME Inv, ClientNext, ~ \E k \in Keys : StartProbe(k)
  PROVE  \A k \in Probing' : k \in Probing /\ test'[k] = test[k]
<1> USE TypeParts DEF Inv, Probing
<1>1. CASE UNCHANGED test
  BY <1>1
<1>2. ASSUME NEW a \in Assignment, RunTask(a)
      PROVE  \A k \in Probing' : k \in Probing /\ test'[k] = test[k]
  BY <1>2 DEF RunTask
<1>3. ASSUME NEW due \in SUBSET Targets, ScheduleRound(due)
      PROVE  \A k \in Probing' : k \in Probing /\ test'[k] = test[k]
  BY <1>3 DEF ScheduleRound
<1>4. ASSUME NEW k \in Keys, NEW written \in BOOLEAN, KeepResult(k, written)
      PROVE  \A j \in Probing' : j \in Probing /\ test'[j] = test[j]
  BY <1>4, EmptySlots DEF KeepResult
<1>5. CASE Crash
  BY <1>5, EmptySlots DEF Crash
<1>6. \/ UNCHANGED test \/ Crash
      \/ \E a \in Assignment : RunTask(a)
      \/ \E due \in SUBSET Targets : ScheduleRound(due)
      \/ \E k \in Keys, written \in BOOLEAN : KeepResult(k, written)
  BY DEF ClientNext, RequestManifest, ReceiveManifest, RefreshFails, PollTasks,
     ReceiveTasks, PollFails, SkipTask, TasksDone, PostResults, ReceiveAnswer,
     BatchRefused, PostFails, client, memory, disk
<1> QED
  BY <1>1, <1>2, <1>3, <1>4, <1>5, <1>6

\* A step of the client keeps ids apart.
LEMMA ClientIdentified ==
  ASSUME Inv, Identified, ClientStep(ClientNext)
  PROVE  Identified'
<1>1. ClientNext /\ ForgetRows
  BY DEF ClientStep
<1>2. \A i \in Ids : /\ row[i].fate = "none" => row'[i].fate = "none"
                     /\ i \notin UsedIds => row'[i].fate = "none"
  BY <1>1 DEF ForgetRows, NoRow
<1>3. ASSUME NEW k \in Keys, StartProbe(k)
      PROVE  Identified'
  <2>1. PICK i \in bound.ids \ UsedIds :
          test' = [test EXCEPT ![k].phase = "probing", ![k].id = i]
    BY <1>3 DEF StartProbe
  <2>2. i \in Ids
    BY <2>1, ProtocolAssumption, TypeParts DEF Inv
  <2>3. test \in [Keys -> TestRecord]
    BY TypeParts DEF Inv
  <2>4. /\ test'[k].id = i
        /\ \A j \in Keys \ {k} : test'[j] = test[j]
    BY <2>1, <2>3 DEF TestRecord
  <2>5. \A j \in Probing' : j = k \/ (j \in Probing /\ test'[j] = test[j])
    BY <2>4 DEF Probing
  <2>6. Held' = Held
    BY <1>3 DEF StartProbe, Held, disk, wire
  <2>7. /\ \A j \in Probing : test[j].id # i
        /\ \A r \in Held : r.id # i
        /\ row'[i].fate = "none"
    BY <1>2, <2>1, <2>2, HeldTypes
  <2>8. \A j \in Probing' : row'[test'[j].id].fate = "none"
    BY <1>2, <2>4, <2>5, <2>7, HeldTypes DEF Identified
  <2>9. \A j \in Probing' : \A r \in Held' : r.id # test'[j].id
    BY <2>4, <2>5, <2>6, <2>7 DEF Identified
  <2>10. \A j, l \in Probing' : test'[j].id = test'[l].id => j = l
    BY <2>4, <2>5, <2>7 DEF Identified
  <2>11. \A r, s \in Held' : r.id = s.id => r = s
    BY <2>6 DEF Identified
  <2> QED
    BY <2>8, <2>9, <2>10, <2>11 DEF Identified
<1>4. ASSUME ~ \E k \in Keys : StartProbe(k)
      PROVE  Identified'
  <2>1. \A k \in Probing' : k \in Probing /\ test'[k] = test[k]
    BY <1>1, <1>4, ProbingShrinks
  <2>2. CASE Held' \subseteq Held
    BY <1>2, <2>1, <2>2, HeldTypes DEF Identified
  <2>3. ASSUME NEW k \in Probing, NEW written \in BOOLEAN, KeepResult(k, written),
               Held' \subseteq Held \union {NewResult(k)}
        PROVE  Identified'
    <3>1. NewResult(k).id = test[k].id
      BY DEF NewResult
    <3>2. k \notin Probing'
      BY <2>3, EmptySlots, TypeParts DEF KeepResult, Probing, Inv
    <3> QED
      BY <1>2, <2>1, <2>3, <3>1, <3>2, HeldTypes DEF Identified
  <2> QED
    BY <1>1, <2>2, <2>3, HeldGrows
<1> QED
  BY <1>3, <1>4

\* What the server knows of a result changes from nothing to something only when a
\* worker is through with it.
LEMMA ServerMarks ==
  ASSUME Inv, ServerStep(ServerNext)
  PROVE  \/ \A i \in Ids : row'[i].fate = "none" <=> row[i].fate = "none"
         \/ \E r \in post.todo \union late :
              /\ row'[r.id].fate # "none"
              /\ \A i \in Ids \ {r.id} : row'[i].fate = "none" <=> row[i].fate = "none"
<1>1. row \in [Ids -> Row]
  BY TypeParts DEF Inv, ServerTypeOK
<1>2. ASSUME NEW S, RemoveRows(S)
      PROVE  \A i \in Ids : row'[i].fate = "none" <=> row[i].fate = "none"
  BY <1>1, <1>2 DEF RemoveRows, Row
<1>3. ASSUME NEW r \in Result, Store(r) \/ Reject(r)
      PROVE  /\ row'[r.id].fate # "none"
             /\ \A i \in Ids \ {r.id} : row'[i].fate = "none" <=> row[i].fate = "none"
  <2>1. row'[r.id].fate # "none"
    BY <1>3, SaveEffect
  <2> QED
    BY <1>1, <1>3, <2>1 DEF Store, Reject
<1>4. ASSUME NEW r \in Result, SaveItem(r) \/ LockedItem(r) \/ SaveLateItem(r)
      PROVE  r \in post.todo \union late /\ (Store(r) \/ Reject(r))
  BY <1>4 DEF SaveItem, LockedItem, SaveLateItem, Save
<1>5. CASE row' = row
  BY <1>5
<1>6. \/ row' = row
      \/ \E S : RemoveRows(S)
      \/ \E r \in Result : SaveItem(r) \/ LockedItem(r) \/ SaveLateItem(r)
  BY DEF ServerStep, ServerNext, AnswerManifest, AnswerTasks, EditSave, EditClear,
     CheckNow, DeleteMonitor, Dispatch, ExpireTask, CleanupHistory, server
<1> QED
  BY <1>2, <1>3, <1>4, <1>5, <1>6

\* A step of the server keeps ids apart: it knows nothing of a test that probes.
LEMMA ServerIdentified ==
  ASSUME Inv, Identified, ServerStep(ServerNext)
  PROVE  Identified'
<1>1. UNCHANGED client
  BY DEF ServerStep
<1>2. post'.batch = post.batch /\ late' \subseteq late
  BY TypeParts
     DEF Inv, PostRecord, ServerStep, ServerNext, AnswerManifest, AnswerTasks, SaveItem,
         LockedItem, SaveLateItem, EditSave, EditClear, CheckNow, DeleteMonitor, Dispatch,
         ExpireTask, CleanupHistory, wire
<1>3. Held' \subseteq Held /\ Probing' = Probing /\ test' = test
  BY <1>1, <1>2 DEF Held, ResultsOf, Probing, client, memory, disk
<1>4. post.todo \union late \subseteq Held
  BY TypeParts DEF Inv, Held
<1>5. \A k \in Probing : row'[test[k].id].fate = "none"
  BY <1>4, ServerMarks, HeldTypes DEF Identified
<1> QED
  BY <1>3, <1>5 DEF Identified
\* No step leaves a result of a periodic test out of the file.
LEMMA PeriodicStep ==
  ASSUME Inv, Periodic, [Next]_vars
  PROVE  Periodic'
<1> USE TypeParts DEF Inv
<1>1. ASSUME NEW k \in Keys, NEW written \in BOOLEAN, KeepResult(k, written)
      PROVE  Periodic'
  <2>1. /\ pending' = [pending EXCEPT ![k] = NewResult(k)]
        /\ pending_disk' = IF written THEN pending' ELSE pending_disk
        /\ written \/ k \in Tasks
    BY <1>1 DEF KeepResult
  <2>2. CASE written
    BY <2>1, <2>2 DEF Periodic
  <2>3. CASE ~ written
    BY <2>1, <2>3, ResultFacts DEF Periodic
  <2> QED
    BY <2>2, <2>3
<1>2. ASSUME NEW written \in BOOLEAN, ReceiveAnswer(written)
      PROVE  Periodic'
  <2>1. /\ pending' = Remaining(post.batch)
        /\ pending_disk' = IF written THEN pending' ELSE pending_disk
    BY <1>2 DEF ReceiveAnswer
  <2>2. \A k \in Keys : pending'[k] \in {pending[k], None}
    BY <2>1 DEF Remaining
  <2> QED
    BY <2>1, <2>2, ResultFacts DEF Periodic
<1> QED
  BY <1>1, <1>2, PendingSteps DEF Periodic

\* Ids are kept apart and results of periodic tests in the file, whatever happens.
LEMMA IdentifiedStep ==
  ASSUME Inv, Identified, Periodic, [Next]_vars
  PROVE  Identified' /\ Periodic'
<1>1. CASE UNCHANGED vars
  BY <1>1, PeriodicStep
     DEF Identified, Held, ResultsOf, Probing, vars, client, memory, disk, server, wire
<1> QED
  BY <1>1, ClientIdentified, ServerIdentified, PeriodicStep DEF Next

-----------------------------------------------------------------------------
(* Refinement *)

\* After a step of the client the server has answered for what it had before.
LEMMA AnsweredAfter ==
  ASSUME Inv, ClientStep(ClientNext), NEW k \in Keys
  PROVE  k \in Answered' <=> pending_disk'[k] # None /\ Processed(pending_disk'[k])
<1>1. ClientNext /\ ForgetRows /\ bound' = bound
  BY DEF ClientStep
<1>2. ClientEffect
  BY <1>1, ClientNextEffect
<1> QED
  BY <1>1, <1>2, KeptRows DEF Answered, Processed

\* What a write does to a target or a task for which there is no new result.
LEMMA WriteOfOther ==
  ASSUME Inv, Periodic, ClientStep(ClientNext), NEW k \in Keys,
         pending_disk'[k] \in {pending[k], None},
         pending[k] # None /\ pending_disk'[k] = None => Processed(pending[k])
  PROVE  Outboxes!Stays(k) \/ Outboxes!Removed(k) \/ Outboxes!MadeUp(k)
<1> USE DEF Outboxes!Stays, Outboxes!Removed, Outboxes!MadeUp, Outboxes!Owing
<1>1. CASE pending_disk'[k] = pending_disk[k]
  BY <1>1, AnsweredAfter DEF Answered, Processed
<1>2. ASSUME pending_disk'[k] # pending_disk[k]
      PROVE  pending_disk[k] # None => k \in Answered
  BY <1>2 DEF Inv, Filed, Answered, Processed
<1>3. CASE pending_disk'[k] # pending_disk[k] /\ pending_disk'[k] = None
  BY <1>2, <1>3, AnsweredAfter
<1>4. CASE pending_disk'[k] # pending_disk[k] /\ pending_disk'[k] # None
  <2>1. k \in Tasks
    BY <1>4, ResultFacts DEF Periodic
  <2>2. pending_disk'[k] \in Result
    BY <1>4, TypeParts DEF Inv
  <2> QED
    BY <1>2, <1>4, <2>1, <2>2
<1> QED
  BY <1>1, <1>3, <1>4

\* The steps of the client that write the file rewrite the outbox, the others do
\* not touch it.
LEMMA ClientRefines ==
  ASSUME Inv, Identified, Periodic, ClientStep(ClientNext)
  PROVE  [Outboxes!ONext]_(Outboxes!ovars)
<1>1. /\ pending_disk' \in [Keys -> Result \union {None}]
      /\ Answered' \subseteq Keys
  <2>1. ClientEffect
    BY ClientNextEffect DEF ClientStep
  <2> QED
    BY <2>1 DEF ClientEffect, Answered
<1>2. CASE pending_disk' = pending_disk
  <2>1. Answered' = Answered
    BY <1>2, AnsweredAfter DEF Answered, Processed
  <2> QED
    BY <1>2, <2>1 DEF Outboxes!ovars
<1>3. ASSUME NEW k \in Keys, KeepResult(k, TRUE)
      PROVE  Outboxes!Write(k)
  <2>1. pending_disk' = [pending EXCEPT ![k] = NewResult(k)]
    BY <1>3 DEF KeepResult
  <2>2. pending_disk'[k] = NewResult(k) /\ NewResult(k) # None
    BY <1>3, <2>1, KeepEffect, TypeParts DEF Inv, KeepResult
  <2>3. NewResult(k) \in Result
    BY <1>1, <2>2
  <2>4. ~ Processed(NewResult(k))
    BY <1>3 DEF Identified, Probing, KeepResult, NewResult, Processed
  <2>5. Outboxes!Recorded(k)
    BY <2>2, <2>3, <2>4, AnsweredAfter DEF Outboxes!Recorded
  <2>6. ASSUME NEW other \in Keys \ {k}
        PROVE  Outboxes!Stays(other) \/ Outboxes!Removed(other) \/ Outboxes!MadeUp(other)
    <3>1. pending_disk'[other] = pending[other]
      BY <2>1, TypeParts DEF Inv
    <3> QED
      BY <3>1, WriteOfOther
  <2> QED
    BY <1>1, <2>5, <2>6 DEF Outboxes!Write
<1>4. ASSUME NEW k \in Keys, ReceiveAnswer(TRUE)
      PROVE  Outboxes!Write(k)
  <2>1. pending_disk' = Remaining(post.batch) /\ pending' = pending_disk'
    BY <1>4 DEF ReceiveAnswer
  <2>2. ASSUME NEW other \in Keys
        PROVE  Outboxes!Stays(other) \/ Outboxes!Removed(other) \/ Outboxes!MadeUp(other)
    <3>1. pending_disk'[other] \in {pending[other], None}
      BY <2>1 DEF Remaining
    <3>2. pending[other] # None /\ pending_disk'[other] = None => Processed(pending[other])
      BY <1>4, <2>1, UploadEffect
    <3> QED
      BY <3>1, <3>2, WriteOfOther
  <2> QED
    BY <1>1, <2>2 DEF Outboxes!Write
<1>5. ASSUME pending_disk' # pending_disk
      PROVE  \E k \in Keys : KeepResult(k, TRUE) \/ ReceiveAnswer(TRUE)
  <2>1. PICK k \in Keys : TRUE
    <3>1. Keys = {} => pending_disk' = pending_disk
      BY <1>1, TypeParts DEF Inv
    <3> QED
      BY <1>5, <3>1
  <2>2. \/ \E j \in Keys, written \in BOOLEAN : KeepResult(j, written)
        \/ \E written \in BOOLEAN : ReceiveAnswer(written)
    BY <1>5, PendingSteps DEF Next
  <2> QED
    BY <1>5, <2>1, <2>2 DEF KeepResult, ReceiveAnswer
<1> QED
  BY <1>2, <1>3, <1>4, <1>5 DEF Outboxes!ONext

\* The server answers for at most one result in a step.
LEMMA ServerRefines ==
  ASSUME Inv, Identified, ServerStep(ServerNext)
  PROVE  [Outboxes!ONext]_(Outboxes!ovars)
<1>1. pending_disk' = pending_disk
  BY DEF ServerStep, client, disk
<1>2. \A k \in Keys : pending_disk[k] # None =>
        /\ pending_disk[k] \in Held /\ pending_disk[k].id \in Ids
        /\ pending_disk[k].key = k
  <2>1. \A k \in Keys : pending_disk[k] # None => pending_disk[k] \in Held
    BY DEF Held, ResultsOf
  <2> QED
    BY <2>1, HeldTypes, TypeParts DEF Inv, KeysOK
<1>3. CASE \A i \in Ids : row'[i].fate = "none" <=> row[i].fate = "none"
  <2>1. Answered' = Answered
    BY <1>1, <1>2, <1>3 DEF Answered
  <2> QED
    BY <1>1, <2>1 DEF Outboxes!ovars
<1>4. ASSUME NEW r \in post.todo \union late, row'[r.id].fate # "none",
             \A i \in Ids \ {r.id} : row'[i].fate = "none" <=> row[i].fate = "none"
      PROVE  [Outboxes!ONext]_(Outboxes!ovars)
  <2>1. r \in Held
    BY TypeParts DEF Inv, Held
  <2>2. \A k \in Keys : pending_disk[k] # None /\ pending_disk[k].id = r.id => k = r.key
    BY <1>2, <2>1 DEF Identified
  <2>3. Answered' \ {r.key} = Answered \ {r.key}
    BY <1>1, <1>2, <1>4, <2>2 DEF Answered
  <2>4. r.key \in Answered => r.key \in Answered'
    BY <1>1, <1>2, <1>4 DEF Answered
  <2>5. CASE r.key \in Answered' /\ r.key \notin Answered
    <3>1. r.key \in Keys /\ Outboxes!Answer(r.key)
      BY <1>1, <2>3, <2>5 DEF Answered, Outboxes!Answer, Outboxes!Owing
    <3> QED
      BY <3>1 DEF Outboxes!ONext
  <2>6. CASE r.key \in Answered' <=> r.key \in Answered
    <3>1. Answered' = Answered
      BY <2>3, <2>6
    <3> QED
      BY <1>1, <3>1 DEF Outboxes!ovars
  <2> QED
    BY <2>4, <2>5, <2>6
<1> QED
  BY <1>3, <1>4, ServerMarks

(***************************************************************************)
(* The client and the API implement the abstract outbox: whoever has a     *)
(* result in the file that the server has not answered for has one there   *)
(* until it has, for any number of targets, tasks and results in flight    *)
(* (client/main.py: test_target, upload_loop; services.py 182-225).        *)
(***************************************************************************)
THEOREM RefinesOutbox == Spec => ImplementsOutbox
<1>1. Init => Outboxes!OInit
  BY DEF Init, ClientInit, Outboxes!OInit, Answered
<1>2. Inv /\ Identified /\ Periodic /\ [Next]_vars => [Outboxes!ONext]_(Outboxes!ovars)
  <2> SUFFICES ASSUME Inv, Identified, Periodic, [Next]_vars
               PROVE  [Outboxes!ONext]_(Outboxes!ovars)
    OBVIOUS
  <2>1. CASE UNCHANGED vars
    BY <2>1 DEF Outboxes!ovars, Answered, vars, client, disk, server
  <2> QED
    BY <2>1, ClientRefines, ServerRefines DEF Next
<1>3. Inv /\ Identified /\ Periodic /\ [Next]_vars => (Inv /\ Identified /\ Periodic)'
  BY Inductive, IdentifiedStep
<1> QED
  BY InitInv, InitIdentified, <1>1, <1>2, <1>3, PTL
     DEF Spec, ImplementsOutbox, Outboxes!OSpec
=============================================================================
