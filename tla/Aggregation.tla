---------------------------- MODULE Aggregation ----------------------------
(***************************************************************************)
(* Reports arrive, operators edit, and several processes turn the reports  *)
(* into the status and the incident flag of every monitor.                 *)
(*                                                                         *)
(* Workers are the gunicorn workers: each serves one request at a time,    *)
(* and a request that stores a report or changes a test point goes on to   *)
(* aggregate in the same thread.  Scheduler is the run_scheduler process,  *)
(* which aggregates everything every 30 seconds.  They share the database. *)
(* An atomic block is one step (SQLite opens it IMMEDIATE, so a single     *)
(* writer runs at a time); everything outside of an atomic block, and      *)
(* every statement of a view without one, is a step of its own that the    *)
(* other processes interleave with.                                        *)
(*                                                                         *)
(* Targets are the monitors of one kind.  Only the newest CHECK report of  *)
(* a target from a point matters to aggregation, so results holds that one,*)
(* with its age (now - received_at) instead of its received_at; ages are   *)
(* forgotten once no aggregation can count them.  One tick is at least the *)
(* 20 s a transaction waits for the database lock before it fails.         *)
(***************************************************************************)
EXTENDS Consensus

CONSTANTS
  Targets, Points,  \* ids that rows of the two tables may have, never reused
  Workers, Scheduler,
  NoTarget, NoPoint,
  Window,           \* twice check_interval_seconds, in ticks
  MaxWait           \* ticks between reading the clock and getting the lock

ASSUME AggregationAssumption ==
  /\ Window \in Nat
  /\ MaxWait \in Nat
  /\ Scheduler \notin Workers
  /\ NoTarget \notin Targets
  /\ NoPoint \notin Points

\* There are finitely many rows in a table.
ASSUME PointsAreFinite == IsFiniteSet(Points)

Processes == Workers \union {Scheduler}

VARIABLES
  life,           \* life[m]: is there a row for the monitor
  enabled,        \* enabled[m]: its enabled column
  status,         \* its status column
  incident_open,  \* its incident_open column
  point,          \* point[q]: the row of test point q
  results,        \* results[m][q]: the newest CHECK report of m by q
  proc            \* proc[p]: where process p is in the handler it runs

vars == <<life, enabled, status, incident_open, point, results, proc>>

-----------------------------------------------------------------------------
(* Reports *)

Forgotten == Window + MaxWait + 1

Report == [success : BOOLEAN, age : 0 .. Forgotten]

NoReport == [success |-> FALSE, age |-> Forgotten]

Older(r) == IF r.age >= Forgotten - 1 THEN NoReport
                                      ELSE [r EXCEPT !.age = r.age + 1]

EnabledPoints == {q \in Points : point[q] = "enabled"}

\* The fresh reports of m for an aggregation that read the clock wait ticks ago.
latest_fresh_monitor_results(m, wait) ==
  [q \in {x \in EnabledPoints : results[m][x].age <= Window + wait} |->
     results[m][q]]

-----------------------------------------------------------------------------
(* Processes *)

Process ==
  [pc     : {"idle", "report", "loop", "aggregate", "notify", "edit", "clear",
             "pointform"},
   point  : Points \union {NoPoint},
   todo   : SUBSET Targets,
   target : Targets \union {NoTarget},
   wait   : 0 .. MaxWait,
   action : AnnouncedAction]

At(p, pc) == proc[p].pc = pc

\* Whoever works on a target, or for a point, has one.
Placed(r) ==
  /\ r.pc \in {"aggregate", "notify", "edit", "clear"} => r.target \in Targets
  /\ r.pc \in {"report", "pointform"} => r.point \in Points
  /\ r.pc = "notify" => r.action # "none"

Handling(pc, q, todo, m, action) ==
  [pc |-> pc, point |-> q, todo |-> todo, target |-> m, wait |-> 0,
   action |-> action]

Idle == Handling("idle", NoPoint, {}, NoTarget, "none")

Become(p, r) == proc' = [proc EXCEPT ![p] = r]

InBatch(p) == proc[p].point # NoPoint

\* aggregate_monitor returns: to the batch it was called from, or to the loop.
Return(p) ==
  Become(p, Handling(IF InBatch(p) THEN "report" ELSE "loop",
                     proc[p].point, proc[p].todo, NoTarget, "none"))

\* It raises: the item of a batch is rejected, a loop is abandoned.
Abandon(p) ==
  Become(p, Handling(IF InBatch(p) THEN "report" ELSE "idle",
                     proc[p].point, {}, NoTarget, "none"))

\* Mutant: only the enabled rows are listed.
StartAggregateEnabled(p) ==
  Become(p, Handling("loop", NoPoint,
                     {m \in Targets : life[m] = "saved" /\ enabled[m]},
                     NoTarget, "none"))

StartAggregateAll(p) ==
  Become(p, Handling("loop", NoPoint, {m \in Targets : life[m] = "saved"},
                     NoTarget, "none"))

-----------------------------------------------------------------------------
Init ==
  /\ life = [m \in Targets |-> "unsaved"]
  /\ enabled = [m \in Targets |-> FALSE]
  /\ status = [m \in Targets |-> "unknown"]
  /\ incident_open = [m \in Targets |-> FALSE]
  /\ point = [q \in Points |-> "unregistered"]
  /\ results = [m \in Targets |-> [q \in Points |-> NoReport]]
  /\ proc = [p \in Processes |-> Idle]

(***************************************************************************)
(* POST /results.  The point is authenticated once; the items are then     *)
(* stored one by one, each followed by its aggregation.  An item for a     *)
(* disabled or missing target, or of a point whose row is gone, is rejected*)
(* and changes nothing.  A point disabled after it was authenticated still *)
(* gets its items stored.                                                  *)
(***************************************************************************)
Authenticate(p, q) ==
  /\ p \in Workers
  /\ At(p, "idle")
  /\ point[q] = "enabled"
  /\ Become(p, Handling("report", q, {}, NoTarget, "none"))
  /\ UNCHANGED <<life, enabled, status, incident_open, point, results>>

SaveResult(p, m, success) ==
  /\ At(p, "report")
  /\ life[m] = "saved"
  /\ enabled[m]
  /\ point[proc[p].point] \in {"enabled", "disabled"}
  /\ results' = [results EXCEPT ![m][proc[p].point] =
                   [success |-> success, age |-> 0]]
  /\ Become(p, Handling("aggregate", proc[p].point, {}, m, "none"))
  /\ UNCHANGED <<life, enabled, status, incident_open, point>>

Respond(p) ==
  /\ At(p, "report")
  /\ Become(p, Idle)
  /\ UNCHANGED <<life, enabled, status, incident_open, point, results>>

(***************************************************************************)
(* aggregate_all: the rows are listed first and aggregated one by one.     *)
(***************************************************************************)
AggregateAll(p) ==
  /\ p = Scheduler
  /\ At(p, "idle")
  /\ StartAggregateAll(p)
  /\ UNCHANGED <<life, enabled, status, incident_open, point, results>>

\* The next row of the loop; aggregate_monitor reads the clock.
AggregateNext(p, m) ==
  /\ At(p, "loop")
  /\ m \in proc[p].todo
  /\ Become(p, Handling("aggregate", NoPoint, proc[p].todo \ {m}, m, "none"))
  /\ UNCHANGED <<life, enabled, status, incident_open, point, results>>

LoopDone(p) ==
  /\ At(p, "loop")
  /\ proc[p].todo = {}
  /\ Become(p, Idle)
  /\ UNCHANGED <<life, enabled, status, incident_open, point, results>>

(***************************************************************************)
(* The transaction of aggregate_monitor, and where it goes on afterwards.  *)
(***************************************************************************)
\* Mutant: "if action" is missing.
AnnounceAlways(p, m, action) ==
  Become(p, Handling("notify", proc[p].point, proc[p].todo, m, action))

AfterCommit(p, m, action) ==
  \/ action = "none" /\ Return(p)
  \/ /\ action # "none"
     /\ Become(p, Handling("notify", proc[p].point, proc[p].todo, m, action))

AggregateMonitor(p) ==
  LET m       == proc[p].target
      points  == IF enabled[m] THEN EnabledPoints ELSE {}
      latest  == IF enabled[m]
                 THEN latest_fresh_monitor_results(m, proc[p].wait)
                 ELSE [q \in {} |-> NoReport]
      verdict == IF enabled[m] THEN consensus_status(points, latest)
                               ELSE "disabled"
      action  == persist_action(verdict, incident_open[m], points, latest)
  IN /\ At(p, "aggregate")
     /\ life[m] = "saved"
     /\ status' = [status EXCEPT ![m] = verdict]
     /\ incident_open' = [incident_open EXCEPT ![m] =
          persist_incident(verdict, incident_open[m], points, latest)]
     /\ AfterCommit(p, m, action)
     /\ UNCHANGED <<life, enabled, point, results>>

\* The row is gone (DoesNotExist), or the lock was not obtained in time.
AggregateRaises(p) ==
  /\ At(p, "aggregate")
  /\ life[proc[p].target] # "saved" \/ proc[p].wait = MaxWait
  /\ Abandon(p)
  /\ UNCHANGED <<life, enabled, status, incident_open, point, results>>

(***************************************************************************)
(* After the commit, outside of any transaction: the announcement is sent  *)
(* and logged.  A failed send is logged and never retried; with the        *)
(* notifications off nothing is sent.  Writing the log may itself raise.   *)
(***************************************************************************)
NotifyStatusChange(p) ==
  /\ At(p, "notify")
  /\ Return(p) \/ Abandon(p)
  /\ UNCHANGED <<life, enabled, status, incident_open, point, results>>

(***************************************************************************)
(* The operator's requests.  monitor_form loads the row, saves every column*)
(* of it (inserting it again if it was deleted meanwhile), and deletes the *)
(* reports of the target in a second statement.                            *)
(***************************************************************************)
NewMonitor(m, on) ==
  /\ life[m] = "unsaved"
  /\ life' = [life EXCEPT ![m] = "saved"]
  /\ enabled' = [enabled EXCEPT ![m] = on]
  /\ UNCHANGED <<status, incident_open, point, results, proc>>

EditLoad(p, m) ==
  /\ p \in Workers
  /\ At(p, "idle")
  /\ life[m] = "saved"
  /\ Become(p, Handling("edit", NoPoint, {}, m, "none"))
  /\ UNCHANGED <<life, enabled, status, incident_open, point, results>>

\* Mutant: the edit shows the target as disabled and forgets its incident.
EditSaveLoud(p, on) ==
  LET m == proc[p].target
  IN /\ At(p, "edit")
     /\ life' = [life EXCEPT ![m] = "saved"]
     /\ enabled' = [enabled EXCEPT ![m] = on]
     /\ status' = [status EXCEPT ![m] = IF on THEN "unknown" ELSE "disabled"]
     /\ Become(p, Handling("clear", NoPoint, {}, m, "none"))
     /\ UNCHANGED <<incident_open, point, results>>

EditSave(p, on) ==
  LET m == proc[p].target
  IN /\ At(p, "edit")
     /\ life' = [life EXCEPT ![m] = "saved"]
     /\ enabled' = [enabled EXCEPT ![m] = on]
     /\ status' = [status EXCEPT ![m] = "unknown"]
     /\ incident_open' = [incident_open EXCEPT ![m] = FALSE]
     /\ Become(p, Handling("clear", NoPoint, {}, m, "none"))
     /\ UNCHANGED <<point, results>>

EditClear(p) ==
  /\ At(p, "clear")
  /\ results' = [results EXCEPT ![proc[p].target] =
                   [q \in Points |-> NoReport]]
  /\ Become(p, Idle)
  /\ UNCHANGED <<life, enabled, status, incident_open, point>>

\* The delete cascades to the reports; the columns are reset, being nobody's.
DeleteMonitor(m) ==
  /\ life[m] = "saved"
  /\ life' = [life EXCEPT ![m] = "deleted"]
  /\ enabled' = [enabled EXCEPT ![m] = FALSE]
  /\ status' = [status EXCEPT ![m] = "unknown"]
  /\ incident_open' = [incident_open EXCEPT ![m] = FALSE]
  /\ results' = [results EXCEPT ![m] = [q \in Points |-> NoReport]]
  /\ UNCHANGED <<point, proc>>

(***************************************************************************)
(* test_point_form, which loads the row and saves it later (inserting it   *)
(* again if it was deleted meanwhile), and test_point_delete.  Both        *)
(* aggregate everything afterwards.                                        *)
(***************************************************************************)
NewPoint(p, q, on) ==
  /\ p \in Workers
  /\ At(p, "idle")
  /\ point[q] = "unregistered"
  /\ point' = [point EXCEPT ![q] = IF on THEN "enabled" ELSE "disabled"]
  /\ StartAggregateAll(p)
  /\ UNCHANGED <<life, enabled, status, incident_open, results>>

LoadPoint(p, q) ==
  /\ p \in Workers
  /\ At(p, "idle")
  /\ point[q] \in {"enabled", "disabled"}
  /\ Become(p, Handling("pointform", q, {}, NoTarget, "none"))
  /\ UNCHANGED <<life, enabled, status, incident_open, point, results>>

SavePoint(p, on) ==
  /\ At(p, "pointform")
  /\ point' = [point EXCEPT ![proc[p].point] = IF on THEN "enabled" ELSE "disabled"]
  /\ StartAggregateAll(p)
  /\ UNCHANGED <<life, enabled, status, incident_open, results>>

DeletePoint(p, q) ==
  /\ p \in Workers
  /\ At(p, "idle")
  /\ point[q] \in {"enabled", "disabled"}
  /\ point' = [point EXCEPT ![q] = "deleted"]
  /\ results' = [m \in Targets |-> [results[m] EXCEPT ![q] = NoReport]]
  /\ StartAggregateAll(p)
  /\ UNCHANGED <<life, enabled, status, incident_open>>

(***************************************************************************)
(* A killed process loses the request it serves; compose restarts it.      *)
(***************************************************************************)
Crash(p) ==
  /\ ~ At(p, "idle")
  /\ Become(p, Idle)
  /\ UNCHANGED <<life, enabled, status, incident_open, point, results>>

\* Time passes, but no transaction waits for the lock for more than MaxWait.
Tick ==
  /\ \A p \in Processes : At(p, "aggregate") => proc[p].wait < MaxWait
  /\ results' = [m \in Targets |-> [q \in Points |-> Older(results[m][q])]]
  /\ proc' = [p \in Processes |->
                IF At(p, "aggregate") THEN [proc[p] EXCEPT !.wait = @ + 1]
                                      ELSE proc[p]]
  /\ UNCHANGED <<life, enabled, status, incident_open, point>>

Reporting(p) ==
  \/ \E q \in Points : Authenticate(p, q)
  \/ \E m \in Targets, success \in BOOLEAN : SaveResult(p, m, success)
  \/ Respond(p)

Aggregating(p) ==
  \/ AggregateAll(p)
  \/ \E m \in Targets : AggregateNext(p, m)
  \/ LoopDone(p)
  \/ AggregateMonitor(p)
  \/ AggregateRaises(p)
  \/ NotifyStatusChange(p)

Editing(p) ==
  \/ \E m \in Targets : EditLoad(p, m)
  \/ \E on \in BOOLEAN : EditSave(p, on)
  \/ EditClear(p)
  \/ \E q \in Points, on \in BOOLEAN : NewPoint(p, q, on)
  \/ \E q \in Points : LoadPoint(p, q) \/ DeletePoint(p, q)
  \/ \E on \in BOOLEAN : SavePoint(p, on)

Next ==
  \/ \E p \in Processes : Reporting(p) \/ Aggregating(p) \/ Editing(p)
                          \/ Crash(p)
  \/ \E m \in Targets, on \in BOOLEAN : NewMonitor(m, on)
  \/ \E m \in Targets : DeleteMonitor(m)
  \/ Tick

Spec == Init /\ [][Next]_vars

(***************************************************************************)
(* The scheduler keeps running: it ticks every second, is restarted when it*)
(* dies, and is not denied the lock or killed at the same place for ever.  *)
(* Nothing is assumed of the workers, which wait for requests, nor of time.*)
(***************************************************************************)
Fairness ==
  /\ SF_vars(AggregateAll(Scheduler))
  /\ SF_vars(LoopDone(Scheduler))
  /\ SF_vars(NotifyStatusChange(Scheduler) /\ Return(Scheduler))
  /\ WF_vars(AggregateRaises(Scheduler) /\ life[proc[Scheduler].target] # "saved")
  /\ \A m \in Targets :
       /\ SF_vars(AggregateNext(Scheduler, m))
       /\ SF_vars(proc[Scheduler].target = m /\ AggregateMonitor(Scheduler))

FairSpec == Spec /\ Fairness

-----------------------------------------------------------------------------
(* Properties *)

\* The columns hold what their fields allow, and a process is where its
\* handler can be.
TypeOK ==
  /\ life \in [Targets -> {"unsaved", "saved", "deleted"}]
  /\ enabled \in [Targets -> BOOLEAN]
  /\ status \in [Targets -> Status]
  /\ incident_open \in [Targets -> BOOLEAN]
  /\ point \in [Points -> {"unregistered", "enabled", "disabled", "deleted"}]
  /\ results \in [Targets -> [Points -> Report]]
  /\ proc \in [Processes -> Process]
  /\ \A p \in Processes : Placed(proc[p])

\* A target shown as disabled has no open incident, whoever disabled it and
\* whatever was being aggregated meanwhile (persist_status, monitor_form).
DisabledIsQuiet ==
  \A m \in Targets : status[m] = "disabled" => ~ incident_open[m]

Announces(p, action) ==
  ~ At(p, "notify") /\ proc'[p].pc = "notify" /\ proc'[p].action = action

\* all_points_down and consensus_status are two computations: a fault is only
\* announced for a target whose status becomes down in the same transaction.
FaultIsDown ==
  [][\A p \in Processes :
       Announces(p, "down") => status'[proc'[p].target] = "down"]_vars

\* While at most three points are enabled, a recovery is only announced for a
\* target whose status becomes up in the same transaction.  With four, two of
\* them close the incident while the other two still make the target down: both
\* rules only count to two (consensus_status and persist_status).
RecoveryIsUp ==
  [][\A p \in Processes :
       Announces(p, "up") /\ Cardinality(EnabledPoints) <= 3
         => status'[proc'[p].target] = "up"]_vars

NothingOwed == [target |-> "none", action |-> "none"]

Owed ==
  [p \in Processes |->
     IF At(p, "notify") THEN [target |-> proc[p].target, action |-> proc[p].action]
                        ELSE NothingOwed]

Incidents ==
  INSTANCE Incident WITH open <- {m \in Targets : incident_open[m]}, owed <- Owed

\* Incidents open and close one at a time, each announced at most once, by the
\* process that committed it, before it touches another one.
ImplementsIncident == Incidents!ISpec

FreshReport(m, q) == results[m][q].age <= Window

AllPointsFail(m) ==
  /\ life[m] = "saved" /\ enabled[m]
  /\ EnabledPoints # {}
  /\ \A q \in EnabledPoints : FreshReport(m, q) /\ ~ results[m][q].success

TwoPointsSucceed(m) ==
  /\ life[m] = "saved" /\ enabled[m]
  /\ \E q, r \in EnabledPoints :
       /\ q # r
       /\ FreshReport(m, q) /\ results[m][q].success
       /\ FreshReport(m, r) /\ results[m][r].success

\* While every enabled point keeps reporting failure, an incident is opened,
\* through all the interleavings, crashes and abandoned loops.
FaultIsNoticed ==
  \A m \in Targets : []([]AllPointsFail(m) => <>incident_open[m])

\* While two points keep reporting success, an open incident is closed.
RecoveryIsNoticed ==
  \A m \in Targets : []([]TwoPointsSucceed(m) => <> ~ incident_open[m])

\* The steps that change what the verdicts depend on.
Input ==
  \/ \E p \in Processes :
       \/ \E m \in Targets, success \in BOOLEAN : SaveResult(p, m, success)
       \/ \E on \in BOOLEAN : EditSave(p, on)
       \/ EditClear(p)
       \/ \E q \in Points, on \in BOOLEAN : NewPoint(p, q, on)
       \/ \E on \in BOOLEAN : SavePoint(p, on)
       \/ \E q \in Points : DeletePoint(p, q)
  \/ \E m \in Targets, on \in BOOLEAN : NewMonitor(m, on)
  \/ \E m \in Targets : DeleteMonitor(m)

Verdict(m) ==
  IF enabled[m]
  THEN consensus_status(EnabledPoints, latest_fresh_monitor_results(m, 0))
  ELSE "disabled"

\* Once the inputs cease, every status becomes and stays what the remaining
\* reports say: nothing else triggers the expiry of reports than aggregate_all.
StatusCatchesUp ==
  <>[][~ Input]_vars =>
    \A m \in Targets : <>[](life[m] = "saved" => status[m] = Verdict(m))

(***************************************************************************)
(* What the documentation says and the code does not do.                   *)
(***************************************************************************)

\* "A single test point's result is adopted directly" (README.md): with one
\* enabled point an aggregation that finds the target up leaves no incident.
SinglePointDecides ==
  [][\A p \in Processes :
       LET m == proc[p].target
       IN /\ AggregateMonitor(p)
          /\ Cardinality(EnabledPoints) = 1
          /\ status'[m] = "up"
          => ~ incident_open'[m]]_vars
=============================================================================
