# SrvCheck: a TLA+ model, its checks and its proofs

SrvCheck monitors Xray nodes, TCP ports and HTTPS URLs. Test points (clients)
in different networks probe the targets and report to a server, which turns the
reports into a status for each target, opens and closes incidents, and
announces them through Bark. This directory models the parts of it in which
several actors share state, checks them with TLC on small instances, and proves
the main results with TLAPS for instances of any size.

Paths below are relative to the repository; `src/` is its root.

## The system

| Component | State it keeps | Operations | Model |
|---|---|---|---|
| Verdict rules (`monitors/services.py` 422-472) | none, pure | `consensus_status`, the incident rules of `persist_status` | `Consensus` |
| Aggregation (`services.py` 409-558) | `status` and `incident_open` of every monitor | `aggregate_monitor`, `aggregate_all`, `notify_status_change` | `Incident` (abstract), `Aggregation` |
| Client agent (`client/main.py`) | manifest, pending results, both also in files; four asyncio loops | refresh the manifest, poll tasks, schedule tests, upload results | `Outbox` (abstract), `ClientAgent` |
| Client API (`monitors/api.py`, `services.py` 102-225) | monitors, tasks, assignments, results | GET manifest, GET tasks, POST results | `ServerApi` |
| Manual tasks (`services.py` 163-173, `views.py`) | tasks with an assignment for each point | dispatch, complete, expire | `ServerApi`, partly |
| Monitor and point management (`views.py` 379-443) | the configuration rows | create, edit, delete, check now | `Aggregation`, `ServerApi`, partly |
| Subscription synchronization (`services.py` 34-99) | subscriptions, nodes | scheduled and manual sync, node edits | `SubscriptionSync` |
| Exit IP (`services.py` 280-406) | `exit_ip` and the ownership columns of a node | choose the address of most reports, look it up, retry | `ExitIp` |
| History (`services.py` 228-277, 561-580; `views.py` 79-229) | hourly and daily snapshots | newest check of a bucket wins, cleanup, status bars | `History`, `Scheduler` |
| Daily summary (`services.py` 583-635; `views.py` 446-454) | `summary_last_sent_at` and the settings | send twice a day, edit the settings | `Summary`, `Scheduler` |
| Scheduler loop (`run_scheduler.py`) | `last_cleanup` and what each part keeps | periodic calls | `Scheduler`; its rounds in the modules of their parts |
| Probes (`monitors/checkers.py` 28-57, 195-318) | xray processes and their ports, permits | TCP, HTTPS and Xray checks, speed tests | `Probe` |
| Decoding of subscriptions and links (`monitors/checkers.py` 58-194) | none, pure | strings in, nodes and configurations out | not modelled |
| Pages, login, admin, deployment, migrations | none of their own | rendering, framework configuration | not modelled |

How they interact. Two gunicorn workers and one `run_scheduler` process share a
SQLite database in which every atomic block is an IMMEDIATE transaction: one
writer at a time, the others wait up to 20 seconds and then fail. A post of
results is stored item by item; each item is followed, in the same thread and
after its commit, by the aggregation of its target. The scheduler aggregates
everything every 30 seconds; a change of a test point does so too. The client
is a single process whose loops interleave at every `await`; it and the server
share nothing but the requests.

What is hard in it:

- statements of a view that have no transaction around them (an edit saves, then
  deletes the old reports, then dispatches a check) interleaved with
  aggregation and with results under way;
- a status that nobody would lower when reports stop coming, but for a scheduler
  whose round is abandoned when one target raises;
- several processes that judge the same target and each announce what they
  committed, outside of the transaction, or die before;
- a client that may lose any request or answer, fail any file write, die at any
  point, and yet must lose no result and carry out every task;
- synchronizations that wait for the network while others, a form or a deletion
  change the rows they will write, and a matching of names and fingerprints that
  decides whose history is whose;
- two loops refreshing one manifest, and results that become pending while a
  post is out;
- a lookup that is answered after the row it was made for has another address;
- results that reach the server hours late and out of order, but belong to the
  hour of their check, in a history whose hours are those of UTC and whose days
  are local;
- a summary that is sent first and remembered after, in a row that a form saves
  whole;
- an xray process for each check, which may never listen, die at any time or
  ignore a signal, on a port that was only free a moment before.

`PROJECT.json` lists these hazards at their lines, with the properties that
cover them.

## Modules

```
Consensus ----------> Aggregation ----------> MCAggregation
    |                  |       \  (refines)
    v                  v        --> Incident
ConsensusProofs --> AggregationProofs

Protocol ---> ClientAgent \
         \--> ServerApi ----> Delivery ---> MCDelivery
                               |      \---> DeliveryProofs
                               \  (refines)
                                --> Outbox

SubscriptionSync ---> MCSubscriptionSync, SubscriptionSyncProofs

ExitIp -------------> MCExitIp, ExitIpProofs

Clock ---> History \
      \--> Summary ---> Scheduler ---> MCScheduler, SchedulerProofs

Probe --------------> MCProbe, ProbeProofs

Extremes -----------> SubscriptionSyncProofs, SchedulerProofs
```

**Consensus** has the pure rules. `consensus_status` is the function of that
name; `persist_status` is split into the flag it stores (`persist_incident`) and
the action it returns (`persist_action`). The dictionary `latest` is a function
whose domain is the points with a fresh report.

**Aggregation** is the server seen by its database. Its variables are the
columns (`life`, `enabled`, `status`, `incident_open`, `point`, `results`) and,
for each process, where it is in the handler it runs (`proc`). An atomic block is
one action. Everything else is one action per statement that other processes can
see: `monitor_form` is `EditLoad`, `EditSave`, `EditClear`; `test_point_form` is
`NewPoint`, or `LoadPoint` and `SavePoint`, which puts a point back that was deleted
in between; a post is
`Authenticate`, then for each item `SaveResult`, `AggregateMonitor` and, if
there is something to announce, `NotifyStatusChange`. `AggregateRaises` is the
row that is gone and the lock that is not obtained; it rejects the item of a post
or abandons a loop. `Crash` is a worker killed by gunicorn or a container that is
restarted. Of the reports, only the newest CHECK report of each target and point
matters (`setdefault` on a descending order); it carries its age instead of its
time of arrival, capped at the age where no aggregation can count it. A process
that waits for the lock remembers for how long, because the code reads the clock
before it waits.

**Incident** is what aggregation promises: at most one open incident for each
target, and for each opening or closing exactly one announcement owed by the
process that committed it, made or lost before it touches another incident.

**Protocol**, **ClientAgent** and **ServerApi** model one client and the server;
**Delivery** composes them. The wire is a slot for each loop, since a loop awaits
one request at a time, plus the items of a post that the client gave up on while
the worker goes on with them (`late`). Results carry the configuration they
probed (`gen`, the number of edits), their key in the pending dictionary (a
target or a task) and an id. A step of the client is what a loop does between two
awaits. `written` says whether `atomic_json` succeeded. The files are
`manifest_disk` and `pending_disk`; `Crash` reloads them. On the server each item
of a post is one transaction; `LockedItem` is the one that fails for the lock.
`row` remembers, for each result id, whether it is in the database, was rejected
or was removed since; only the first can be read by the code, the others are
history for the properties. `bound` is chosen at the start and never changes: it
names the loops whose sleep ends in the stretch looked at, the ids that it uses
and the configurations a monitor goes through.

**Outbox** is what client and server promise together about results, seen from the
file alone: memory, loops, posts, ids and faults are gone. Whoever has a result in
the file that the server has not answered for has one there until it has. A write
may bring one new result, which nobody has answered for; that of a task may get
there later, with another write, and then be answered for already. An answer is
acceptance, rejection or the word that it is a duplicate.

**SubscriptionSync** is one subscription with its nodes (`node` is a function from
the ids in use). A synchronization is `ScheduledSync` or `ManualSync`, which loads
and fetches, and `SaveError` or `SaveSubscription`, the transaction of
`save_subscription_result`. Waiting for the provider needs no step of its own,
since what it serves is free. The greedy matching of the code is stated as a
condition on the function from places of the list to rows (`Matchings`): each
place has a row that the rules allow, given the rows of the places before it.
Which of several rows with the same fingerprint comes first is left open, the
order of the query being by name only. `SubscriptionForm` and `SyncNow` are the
two saves of `subscription_form`; `NodeForm` writes the fingerprint that
`LoadNode` has read and puts the node back into the subscription. `Abandon` is a
process that dies, a subscription that is gone or a lock that is not obtained.
`AggregateNode` may happen at any time, since reports, forms and the scheduler
all lead to it; what the reports say is free. A node has the endpoint of its
`link` and its own `fingerprint`: they differ after an edit.

**ExitIp** is `refresh_all_node_ip_info` one statement at a time: it loads a row
and reads the clock (`LoadRow`), reads the reports and chooses (`SelectIp`),
stores the address (`StoreExitIp`), asks, and stores the answer where the address
is still the one it asked about (`LookupAnswers`) or only the time (`NotPublic`,
`LookupFails`). Reports, the three statements of a node edit (`EditLoad`, `EditSave`,
`EditClear`), synchronizations, deletions and switched points happen between any
two of them. `asked` is history: the address that the last lookup of a node was for. An address that
`ipinfo.io` knows nothing of is one outside `GlobalIps`; `owner` is the address
whose country and company the row has. Times are ages, capped where no comparison
can tell them apart any more; `refresh.wait` is how long ago the clock was read.

**Clock** cuts time into slots, hours and days. **History** is the snapshots of
one target and one point: `stored` remembers every report in order of arrival,
which the database does not, so that the properties can say what the columns of
`status_bars` should be. A bar has all its columns from the first hour on:
`Snapshot` is `source.get`, which finds nothing for a bucket before all time.
**Summary** is `maybe_send_summary` in four statements,
with the settings form that loads and saves the same row; `looked`, `sent` and
`excused` are history. **Scheduler** puts both into `Command.tick`, which cleans
up first and comes to the summary last, however long it is busy in between.

**Probe** is the checks of one client under its semaphore. Each has the port that
`free_port` found, a `process` of its own and the place of its coroutine between
two awaits. `via` remembers whose process carried a successful request, and
`collided` which probes got the same port before either had bound it; the code
cannot know either. A check that is not of an Xray node is one request.

`Aggregation` and `ServerApi` both have an `EditSave`, an `EditClear` and a
`DeleteMonitor`: they are the same statements of `views.py`, projected on what each model is about. The
resurrection of a deleted monitor by a form loaded before (a `save` that inserts)
is in `Aggregation` only. Mutants, alternatives for one definition that a
plausible bug would put in its place, stand before the definition and are marked
"Mutant".

## Properties

Of aggregation:

- `DisabledIsQuiet`: a target shown as disabled has no open incident, although
  edits, deletions and aggregations interleave.
- `FaultIsDown`, `RecoveryIsUp`: status and incident follow from two different
  computations over the same reports; what is announced agrees with the status
  stored in the same transaction: a fault with any number of points, a recovery with
  at most three enabled ones. With four, two against two is announced as a recovery
  and stored as down (`FourPointsDisagree`).
- `ImplementsIncident`: the refinement of `Incident`.
- `FaultIsNoticed`, `RecoveryIsNoticed`: a lasting fault opens an incident, a
  lasting recovery closes it.
- `StatusCatchesUp`: once reports and edits cease, each status becomes and stays
  what the reports that remain fresh say.

Of synchronization:

- `LeftOutIsQuiet`: a node that is not in the subscription is disabled and has no
  open incident, whatever was under way when it was left out.
- `SavedIsFetched`: after a save the nodes in the subscription are the entries of
  the list, one row for each. It counts rows and entries, so it says nothing of
  how they were matched.
- `KeepsIdentity`: a row stays in the subscription, with its fingerprint and its
  incident as it was, if it is the only one with the fingerprint, the list has it,
  and no entry before claims its name. (What refers to the row, its history, stays
  with it.) Without the last premise it is `FingerprintIsIdentity`, which fails.
- `NodesFollowFeed`, `LifecycleIsShown`: once provider and operator rest, the nodes
  become and stay the list's; a subscription that stays disabled, or enabled,
  shows its nodes so again and again.

Of exit IPs:

- `OwnerIsOfExitIp`: a card never shows the owner of another address than its own,
  whatever changes the row while an answer is awaited.
- `DateIsOfExitIp`: the date of a row that shows an address is of a lookup of that
  address, so the first lookup of an address never waits for the interval of another,
  although a lookup that fails dates the row whatever its address is by then.
- `ExitIpSettles`, `OwnerIsLearned`: once edits cease and the points agree, the
  card comes to show their address, and its owner once lookups succeed. A refresh
  may store an address chosen before an edit after it; the next one corrects that.

Of history and summary:

- `DisplayedIsNewest`: each column shows the report checked last in its hour or
  day, of all that ever arrived, in whatever order and between whatever cleanups.
- `ChangesAreMarked`: a bar has a marked column exactly if it shows two addresses.
- `SnapshotsAreForgotten`: what no page shows is removed at last.
- `SentOnce`, `LookedIsSent`: a summary is repeated only after its time was lost
  (a crash, a lock, a form that wrote an older time back), and never suppressed
  by the time of a former one.

Of probes:

- `NoOrphan`, `AtMostPermits`: an xray process never outlives its probe, and there
  are never more of them than permits.
- `OwnNode`: a success was measured through the process of the node it is reported
  of, unless two probes were given the same port before either had bound it.
  That this can happen is the code's design (the port is released before the
  process starts); the property says that nothing else leads to it.
- `EveryProbeEnds`: no probe keeps its permit for ever.

Of delivery:

- `NoResultLost`, `NoResultDropped`: a result leaves the file, or the memory of a
  client that keeps running, only when the server has processed it or a newer
  one takes its place.
- `ImplementsOutbox`: the refinement of `Outbox`. Unlike the two before, it also
  says what may take a result's place: none that the server has answered for
  already, so what is superseded is not forgotten.
- `TaskIsDone`, `ResultIsReported`, `ManifestConverges`: once the faults cease, an
  assigned task is carried out or expires, a pending result is uploaded or
  superseded, and the manifest becomes the server's. The premise of
  `ResultIsReported` is that no more results stay pending than the server takes in
  one batch; otherwise it refuses each (see below).

## Runs

| Run | Instance | Shows |
|---|---|---|
| `AggSafety` | 1 target, 4 points, 1 worker and the scheduler | the type invariant, the safety properties and the refinement |
| `AggLive` | 1 target and 2 points, or 2 targets without points; 1 worker and the scheduler | the three liveness properties, through a round abandoned for one of the targets |
| `DelSafety` | 1 target, 1 task, 2 ids, one result at a time | the type invariant, that no result is lost and the refinement of `Outbox`, with every fault |
| `DelLive` | 1 target, 1 task, one result at a time; 3 ids with the task or with periodic tests after it, or 3 configurations without results | tasks and results arrive, the manifest converges |
| `SyncSafety` | 3 rows, lists of up to two entries, with a moved and a doubled one | the type invariant and the safety properties of synchronization |
| `SyncLive` | 3 rows, the lists without the doubled one | its liveness properties |
| `IpLive` | 1 node, 3 points, 2 addresses, one of them not public | everything about exit IPs |
| `Sched` | 12 half hours, 2 hours a day, up to 3 reports or the summary | everything about history and summary |
| `ProbeLive` | 3 Xray probes and 1 other, 2 permits, 2 ports | everything about probes |
| `AggSinglePoint`, `DelForeign`, `SyncIdentity` | small | the disagreements below |

Bounds. Two points are the smallest number with which reports are missing,
split and unanimous; with one enabled of two registered the single-point rule
applies. `AggSafety` has four, the smallest number with which two successes close an
incident against two failures. `compose.yaml` starts two workers beside the
scheduler; one of them and the scheduler are the two that may judge a target at the
same time, and the proofs hold for any number. The freshness window is one
tick: a report is then fresh, about to be stale, or stale. Time that passes while
a transaction waits for the lock is left to the proofs, which hold for any
`MaxWait`. `AggLive` starts from the database of a system that has been in use:
either one target and both points are left to be created and all else is deleted
(`LiveInit`), or two targets and no points, where a round that is abandoned for
one target must not starve the other. An operator may do
anything at any time and no counter bounds the crashes, the reports or the
edits; ids of rows are not reused, so each target is created and deleted once.

In `Delivery`, `MaxGen` bounds the edits and `Bounds` is the set of the stretches
that a run looks at (`bound`), which keeps the product of four loops small: the
loops that cannot start a new round are still there with the work they have.
`DelSafety` looks at tasks and periodic tests without edits; `DelLive` at tasks
without edits, at periodic tests that begin while the result of a task is pending
(`BacklogInit`, with `MaxItems` 1: the two together are refused), and at three
configurations without results. `Ids` are
taken again when nobody can send them any more, and the model then forgets what the
server knew of them (`ForgetRows`), since the code draws a fresh UUID each time; with all of them held, a test
waits, so three are needed for `DelLive`: one in a file after a failed write, one
in an abandoned post, one to go on with. At most one abandoned post at a time
still has items to serve. `MaxItems` stands for the 1000 items the API takes.
In `SubscriptionSync`, three rows are what the lists of `SyncLive` can need: two
entries, and a row that an edit loaded before a synchronization gave its old
fingerprint back. A list that needs more rows than there are is not saved; that
happens in `SyncSafety` only. The one edit takes the name of another entry, which
is the case that matters. One worker holds the forms and the manual
synchronization; deletions come from another. Ids are taken again when no process
refers to them.

In `ExitIp`, three points are the smallest number with a majority of one address,
a tie and a point that changes sides; one of the two addresses is public, and one
of the three points is switched on and off. One point sees one address, another
the other, and the third either (`Sees`). The window and the retry are one tick, the
refresh of an owner two: a failed lookup is repeated before a successful one. There
is one form at a time and one node, so a node that is starved by another is not
seen. `MaxWait` is 0 in `IpLive`, which leaves every interleaving of statements but
no tick within a refresh of one node; `OwnerOfExitIp` and `DateOfExitIp` are proved
for all `MaxWait <= Refresh`.
In `Scheduler`, an hour has two slots and a day two hours, and local time is one
slot ahead, so that neither hours nor days of the two clocks coincide. Twelve
slots are three days: enough for the report of an hour and of a day to be shown,
to expire and to be brought back by a late report. A report may arrive any time
after its check and the clock of a client may be one slot ahead. What never meets
is looked at apart (`SmallBounds`): three reports for the order of arrival, two
with addresses for their changes, and the summary. `DisplayedIsNewest` compares
with all of what arrived and would not hold if a deletion of a target's results
touched the snapshots.
In `Probe`, two permits and two ports let two processes share or contend for a
port while a third probe waits for a permit and another holds one without a
process. Restarts, exits and refused configurations are not bounded.

Every run with liveness has no symmetry; the others permute ids, points, workers
and targets, which the properties treat alike. `Delivery` may really stop (a
disabled target, no task, nothing pending), and so may `SubscriptionSync` (the
subscription is deleted), so their runs do not check for deadlock. The other
models can always go on: a clock ticks, a loop begins again, a form is loaded.

## Fairness

`Aggregation` assumes fairness of the scheduler only: it ticks every two seconds,
`restart: unless-stopped` restarts it, and it is neither killed nor denied the
lock at the same place for ever (strong fairness, since a crash or a lock may
disable an action again and again). Nothing is assumed of the workers, of reports,
of the operator or of time.

`Delivery` assumes that the loops go on while the client runs and that the server
answers, weakly, and that a test which waits for a permit gets one
(`asyncio.Semaphore` is first come, first served; strong fairness since other
tests take permits meanwhile). The liveness properties are conditional on
`FaultsCease`: from some point on no request is lost, no write fails, no lock
times out and the client does not die. That is a premise and not an assumption
of the specification. A fault that has the effect of a proper answer (an answer
"not modified" that is lost) does not count as one, otherwise the premise would
exclude the normal operation of the client. Nothing is assumed of the operator,
of expiry or of periodic tests.

`SubscriptionSync` assumes that the scheduler ticks, that time passes, that what
the scheduler has fetched is saved at last (strongly, as above), and that every
node is aggregated again and again, which is what `StatusCatchesUp` shows of the
rounds of the scheduler in `AggLive`. `EditsCease` and `Serves` are
premises of `NodesFollowFeed`; an edit right before each synchronization could
otherwise keep the nodes different from the list for ever.

`ExitIp` assumes rounds, restarts and time, as `Aggregation` does; time strongly,
since a refresh that takes as long as it may must end before the clock goes on,
and that a lookup ends (`httpx` gives up on it). `OperatorRests`, that the points
agree, and `LookupsSucceed` are premises of its two properties. A round that is
abandoned at the same node for ever is excluded by the premise of `OwnerIsLearned`
and by strong fairness of the statements for `ExitIpSettles`: an answer whose
shape raises each time would starve the nodes listed after it, which is the
hazard at line 406 of `services.py`.

`Scheduler` assumes that ticks end and that they clean up again and again:
strongly, since most ticks find that no hour has passed and one under way disables
the next. `Probe` assumes that the event loop runs, that waits and requests time
out, that the semaphore is first come, first served (strongly, since other probes
hold the permits meanwhile), and that a killed process ends. It assumes nothing of
xray. That a speed test ends is an assumption on the server it downloads from,
because `httpx` bounds each read and not the whole.

## Proofs

`ConsensusProofs` and `AggregationProofs` hold for all values of the constants
under the named assumptions of `Aggregation` (the window and the wait are natural
numbers, there are finitely many points, the placeholders are not rows).

- `TypeCorrect`: `TypeOK` is inductive by itself once it says that a process
  that works on a target has one (`Placed`); the proof has one step for each action.
- `DisabledQuiet`: `DisabledIsQuiet` is inductive over `TypeOK`; only
  `AggregateMonitor` can make a status disabled, and the lemma
  `AggregateMonitorEffect` says what it leaves behind.
- `FaultAnnouncedIsDown` and `RecoveryAnnouncedIsUp`: only `AggregateMonitor`
  announces (`OnlyAggregationAnnounces`), and the verdict follows from the
  cardinality lemmas of `ConsensusProofs`: `AllFailIsDown` for any number of
  points, `RecoveredIsUp` for at most three enabled ones. The bound is sharp:
  `FourPointsDisagree` shows reports of four points that are down and recovered at
  once.
- `Refinement`: initial states map to initial states and every step to a step of
  `Incident` or a stutter, under the invariant `TypeOK`.
- `NeverBoth`: no reports both open and close an incident.

`SubscriptionSyncProofs` holds for any lists of entries, rows and workers.

- `NodesTypeCorrect`: `TypeOK` is inductive, with the fact that nodes have a
  subscription as a conjunct.
- `LeftOutQuiet`: inductive over `TypeOK`. `SaveEffect` says what the transaction
  leaves in the table, for any matching the rules allow.
- `SavedFollowsFetched`: `MatchingInjective` (no row serves two entries), with
  `SaveEffect`, makes the matching a bijection between the places of an entry and
  its rows, whence the numbers agree (`SaveFollows`).
- `RecognisedKeepsRow`: a step property without an invariant of its own. Of the
  places with the fingerprint of the row there is a least one (`LeastExists`);
  no entry before it takes the row, neither by the fingerprint nor, as the premise
  says, by the name, so the matching has to give it the row there
  (`FirstEntryTakesRow`). What the transaction then writes, the flag of the incident
  and the place in the subscription included, is `SaveEffect`.

`DeliveryProofs` holds for any targets, tasks, ids, permits, batch size and
stretches.

- `DeliveryTypeCorrect`: `TypeOK` needs that an answered request has a manifest
  (`Answers`) and a running test a target, a configuration and, while it probes,
  an id (`Tests`).
- `ResultsAreKept`: what leaves the file in one write may have left the memory long
  before, when another write failed after an answer. The invariant `Filed` says
  that whatever is in the file and not in memory has been processed. It holds
  because a task is skipped while its result is pending (the last conjunct of
  `Tests`): without that a failed write could leave a superseded result behind.
  `Served` says that what the worker is through with has been processed, which is
  why an answer may remove it.
- `ResultsAreNotDropped`: from the same invariant, with the effect of the one step
  that removes (`UploadEffect`).

- `RefinesOutbox`: needs two more invariants. `Identified` says that no two results
  have the same id and that the server knows nothing of the id of a running test;
  that a new result has not been answered for, and that an answer is for one result
  only, follow from it. `Periodic` says that the results of periodic tests are in
  the file as soon as they are pending. `WriteOfOther` then says what a write does
  to the keys it brings nothing new for, and `ServerMarks` that a step of the server
  answers for at most one result.

The effect of each step of the client is a lemma (`ClientEffect`), stated with the
rows as they were before the step; `KeptRows` shows that what the model forgets of
the database afterwards is none of what the invariant speaks of. `HeldGrows` bounds
the results that are anywhere between the two sides after such a step.

`ExitIpProofs` holds for any nodes, points, addresses and windows.

- `ExitIpTypeCorrect`: one step for each action; `ChoiceType` says that what is
  chosen is an address.
- `OwnerOfExitIp`: inductive over `TypeOK`. The answer is stored under the address
  it is of, and whatever changes the address clears the owner. The date is what
  needs `MaxWait <= Refresh`: a time stamped by a refresh that took longer would
  already be out of reach.
- `DateOfExitIp`: needs `AskedIsShown`, that from the choice on the row shows the
  address that is asked about or none. The workers only clear an address
  (`WorkersKeep`), a chosen one that differs is stored before it is asked about, and
  so the date that follows is of the address that the row still shows
  (`DatedStep`).

`ProbeProofs` holds for any probes, ports and permits, with one invariant:
`Processes` (which processes a coroutine may have at each await), `Permitted` (the
holders of permits are at most `Permits`) and `SharedPorts` (two probes
that hold the same port have collided).

- `ProbeTypeCorrect`, `ProcessesAreStopped`, `PermitsBoundProcesses` and
  `MeasuredThroughOwnNode` follow from it.

`SchedulerProofs` holds for any number of reports, columns, slots, hours and
addresses, any offset of the local time and any interleaving. Its arithmetic is
that of division by a constant (`BucketsAreMonotone`, `NextSlot`).

- `SchedulerTypeCorrect`: one step for each action; a snapshot is of a report that
  was stored, in a bucket that exists (`ReportBuckets`).
- `NewestIsDisplayed`: `DisplayedIsNewest` is not inductive, since what a page does
  not show may come to be shown, and it says nothing of the current hour and day.
  `Kept` says of every bucket that has not expired that its snapshot is the newest
  of its reports. A cleanup keeps it because it removes only what has expired, and
  the clock because what has expired stays so (`ExpiredStaysExpired`): a bucket
  that was removed and brought back by an older report is never shown again. A
  column that is shown has not expired (`KeptIsDisplayed`).
- `AddressChangesAreMarked`: no invariant but the types. The column a column is
  compared with is the last before it with an address (`PreviousIsLast`, by
  `GreatestExists`); of two different addresses, the first column that has another
  address than the columns before it is marked (`ChangeIsMarked`).
- `LookedAtIsSent`: the invariant `Looking` says that a summary under way was begun
  at the start of the hour that it still is, that one which is saved has been sent,
  and that neither the row nor a form remembers a time of this hour unless a summary
  was sent in it. This is where the assumption that a summary takes less than an
  hour is needed (`SameHour`): Bark is given up after ten seconds and the lock after
  twenty.
- `SummaryIsSentOnce`: the invariant `Remembering` says that a summary that was sent
  and whose time the row does not have is about to be saved, or excused.

`Extremes` has the two facts about sets of numbers that the other proofs share: a
set of naturals has a least element, and a bounded one a greatest. They follow
from the library's theorem that the order of the naturals is well-founded, without
induction.

Every invariant, action property and refinement of the passing runs is proved.
Only model-checked is liveness, which is out of the prover's reach together with
ENABLED. No module declares a recursive operator.

## Where the code and its documentation disagree

1. `AggSinglePoint` (`services.py` 458): with a single enabled point an incident can
   never be closed, although README.md says that its result is adopted directly.
   The tests assert the former on purpose (`src/monitors/tests.py` 308-314).
2. `DelForeign` (`services.py` 183): a result of the configuration before the edit
   that arrives after it is stored and counted, although the comment at line 386 of
   `views.py` excludes results from before an edit. The same comment is
   contradicted by an aggregation between the two statements of an edit
   (`views.py` 392-394), for which there is no run.
3. `SyncIdentity` (`services.py` 72): an entry may take a row by its name although
   a later entry has the fingerprint of that row; the comment at line 322 of
   `views.py` calls the fingerprint the stable identity that the next
   synchronization matches.

Also met while modelling, without a run:

- Two successes out of four points close the incident and announce a recovery
  while two failures still mean "down" (`services.py` 458; README.md, line 11,
  calls two failing points a fault). This is the theorem `FourPointsDisagree`.
- A client with more than 1000 pending results posts the same refused batch until
  results are superseded (`api.py` 93), although README.md, line 48, promises that
  results are reported when the connection is back. This is why `ResultIsReported`
  has a premise.
- README.md, line 33, promises a retry an hour after a failed lookup. A failed
  refresh of a row that knows its owner waits seven days again (`services.py`
  369-379), so `OwnerIsLearned` says "at last" and nothing of an hour.
- The same line speaks of the last successful check of each point; the code takes
  the last check if it was successful (`services.py` 285-303).
- A summary that could not be posted counts as sent, and a tick that is busy from
  before a summary hour to five minutes after misses it (`services.py` 623-635).
- Verdicts follow the order in which reports arrive, snapshots the order of their
  checks (`services.py` 416, 243).

## Plan

What remains, in this order:

1. *Speed tests*, whose tasks live like those of checks but whose reports must
   stay out of snapshots, verdicts and addresses. The assignments of the points of
   a task are independent of each other, so `ServerApi` has one point.
2. *Proofs of what liveness rests on*: that each status, address or node, once it
   is what the premises of its liveness property say, is left so by every step that
   the premises allow. TLC then only has to find that it comes to be so.

## Not modelled

The decoding of subscriptions and links (`checkers.py` 58-194) is pure string
processing; the synchronization takes the decoded list as its input. Rendering
reads the database and changes nothing. Login, the admin site and settings are
framework configuration, migrations are generated, and deployment contributes the
facts the models assume: two workers, one scheduler, the restart policy, IMMEDIATE
transactions. Latency, messages and other columns that are only displayed are left
out of every module.
