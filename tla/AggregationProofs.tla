------------------------- MODULE AggregationProofs -------------------------
(***************************************************************************)
(* Theorems about Aggregation for every set of monitors, points and        *)
(* workers, every window and every wait for the database lock.             *)
(***************************************************************************)
EXTENDS Aggregation, ConsensusProofs

-----------------------------------------------------------------------------
(* Typing *)

\* A process that moves to a record that is well placed leaves the others be.
LEMMA ProcUpdate ==
  ASSUME TypeOK, NEW p \in Processes,
         NEW r \in Process, Placed(r),
         proc' = [proc EXCEPT ![p] = r]
  PROVE  /\ proc' \in [Processes -> Process]
         /\ \A x \in Processes : Placed(proc'[x])
BY DEF TypeOK

\* A handler at one of its points, with what it needs there.
LEMMA HandlingType ==
  ASSUME NEW pc, NEW q \in Points \union {NoPoint}, NEW todo \in SUBSET Targets,
         NEW m \in Targets \union {NoTarget}, NEW action \in AnnouncedAction,
         pc \in {"idle", "report", "loop", "aggregate", "notify", "edit", "clear",
                 "pointform"},
         pc \in {"aggregate", "notify", "edit", "clear"} => m \in Targets,
         pc \in {"report", "pointform"} => q \in Points,
         pc = "notify" => action # "none"
  PROVE  /\ Handling(pc, q, todo, m, action) \in Process
         /\ Placed(Handling(pc, q, todo, m, action))
BY AggregationAssumption DEF Handling, Process, Placed

LEMMA HandlingUpdate ==
  ASSUME TypeOK, NEW p \in Processes,
         NEW pc, NEW q \in Points \union {NoPoint}, NEW todo \in SUBSET Targets,
         NEW m \in Targets \union {NoTarget}, NEW action \in AnnouncedAction,
         pc \in {"idle", "report", "loop", "aggregate", "notify", "edit", "clear",
                 "pointform"},
         pc \in {"aggregate", "notify", "edit", "clear"} => m \in Targets,
         pc \in {"report", "pointform"} => q \in Points,
         pc = "notify" => action # "none",
         Become(p, Handling(pc, q, todo, m, action))
  PROVE  /\ proc' \in [Processes -> Process]
         /\ \A x \in Processes : Placed(proc'[x])
         /\ proc'[p] = Handling(pc, q, todo, m, action)
         /\ \A x \in Processes \ {p} : proc'[x] = proc[x]
<1>1. Handling(pc, q, todo, m, action) \in Process
      /\ Placed(Handling(pc, q, todo, m, action))
  BY HandlingType
<1>2. proc' = [proc EXCEPT ![p] = Handling(pc, q, todo, m, action)]
  BY DEF Become
<1> QED
  BY <1>1, <1>2, ProcUpdate DEF TypeOK

\* aggregate_monitor gives control back, by returning or by raising: nothing is
\* left to announce and the other processes are where they were.
LEMMA ReturnType ==
  ASSUME TypeOK, NEW p \in Processes, Return(p) \/ Abandon(p)
  PROVE  /\ proc' \in [Processes -> Process]
         /\ \A x \in Processes : Placed(proc'[x])
         /\ proc'[p].pc \in {"idle", "report", "loop"}
         /\ \A x \in Processes \ {p} : proc'[x] = proc[x]
<1>1. /\ proc[p].point \in Points \union {NoPoint}
      /\ proc[p].todo \in SUBSET Targets
      /\ {} \in SUBSET Targets
      /\ NoTarget \in Targets \union {NoTarget}
      /\ "none" \in AnnouncedAction
  BY DEF TypeOK, Process, AnnouncedAction
<1>2. PICK pc \in {"idle", "report", "loop"}, todo \in SUBSET Targets :
        /\ pc = "report" => proc[p].point \in Points
        /\ Become(p, Handling(pc, proc[p].point, todo, NoTarget, "none"))
  <2>1. CASE InBatch(p)
    BY <1>1, <2>1 DEF Return, Abandon, InBatch
  <2>2. CASE ~ InBatch(p)
    BY <1>1, <2>2 DEF Return, Abandon, InBatch
  <2> QED
    BY <2>1, <2>2
<1>3. /\ proc' \in [Processes -> Process]
      /\ \A x \in Processes : Placed(proc'[x])
      /\ proc'[p] = Handling(pc, proc[p].point, todo, NoTarget, "none")
      /\ \A x \in Processes \ {p} : proc'[x] = proc[x]
  BY <1>1, <1>2, HandlingUpdate
<1>4. proc'[p].pc = pc
  BY <1>3 DEF Handling
<1> QED
  BY <1>2, <1>3, <1>4

\* A report that ages is still a report.
LEMMA ReportType ==
  /\ NoReport \in Report
  /\ \A r \in Report : Older(r) \in Report
  /\ \A success \in BOOLEAN :
       [success |-> success, age |-> 0] \in Report
<1>1. Forgotten \in Nat /\ Forgotten >= 1
  BY AggregationAssumption DEF Forgotten
<1>2. NoReport \in Report
  BY <1>1 DEF NoReport, Report
<1>3. \A success \in BOOLEAN :
        [success |-> success, age |-> 0] \in Report
  BY <1>1 DEF Report
<1>4. ASSUME NEW r \in Report
      PROVE  Older(r) \in Report
  <2>1. CASE r.age >= Forgotten - 1
    BY <1>2, <2>1 DEF Older
  <2>2. CASE ~ (r.age >= Forgotten - 1)
    <3>1. r.age + 1 \in 0 .. Forgotten
      BY <1>1, <2>2 DEF Report
    <3> QED
      BY <2>2, <3>1 DEF Older, Report
  <2> QED
    BY <2>1, <2>2
<1> QED
  BY <1>2, <1>3, <1>4

\* What the transaction of aggregate_monitor leaves behind, whichever way its
\* target is judged (persist_status and the code around it).
AggregateMonitorResult(p) ==
  LET m == proc[p].target
  IN /\ m \in Targets
     /\ status' = [status EXCEPT ![m] = status'[m]]
     /\ status'[m] \in Status
     /\ incident_open' = [incident_open EXCEPT ![m] = incident_open'[m]]
     /\ incident_open'[m] \in BOOLEAN
     /\ UNCHANGED <<life, enabled, point, results>>
     /\ proc' \in [Processes -> Process]
     /\ \A x \in Processes : Placed(proc'[x])
     /\ \A x \in Processes \ {p} : proc'[x] = proc[x]
     /\ At(p, "aggregate") /\ proc'[p].pc \in {"idle", "report", "loop", "notify"}
     \* what is announced, and what it follows from
     /\ proc'[p].pc = "notify" =>
          /\ proc'[p].target = m
          /\ proc'[p].action \in {"down", "up"}
          /\ proc'[p].action = "down" => ~ incident_open[m] /\ incident_open'[m]
          /\ proc'[p].action = "up" => incident_open[m] /\ ~ incident_open'[m]
     /\ proc'[p].pc # "notify" =>
          incident_open'[m] = incident_open[m] \/ ~ incident_open'[m]
     /\ status'[m] = "disabled" => ~ incident_open'[m]
     \* the points and reports it judged
     /\ proc'[p].pc = "notify" =>
          \E latest :
            /\ DOMAIN latest \subseteq EnabledPoints
            /\ status'[m] = consensus_status(EnabledPoints, latest)
            /\ proc'[p].action = "down" => all_points_down(EnabledPoints, latest)
            /\ proc'[p].action = "up" => recovered(latest)

LEMMA AggregateMonitorEffect ==
  ASSUME TypeOK, NEW p \in Processes, AggregateMonitor(p)
  PROVE  AggregateMonitorResult(p)
<1> DEFINE m == proc[p].target
           points == IF enabled[m] THEN EnabledPoints ELSE {}
           latest == IF enabled[m]
                     THEN latest_fresh_monitor_results(m, proc[p].wait)
                     ELSE [q \in {} |-> NoReport]
           verdict == IF enabled[m] THEN consensus_status(points, latest)
                                    ELSE "disabled"
           action == persist_action(verdict, incident_open[m], points, latest)
           flag == persist_incident(verdict, incident_open[m], points, latest)
<1>1. m \in Targets /\ At(p, "aggregate")
  BY DEF AggregateMonitor, At, TypeOK, Placed
<1>2. /\ status' = [status EXCEPT ![m] = verdict]
      /\ incident_open' = [incident_open EXCEPT ![m] = flag]
      /\ UNCHANGED <<life, enabled, point, results>>
      /\ \/ action = "none" /\ Return(p)
         \/ /\ action # "none"
            /\ Become(p, Handling("notify", proc[p].point, proc[p].todo, m, action))
  BY DEF AggregateMonitor, AfterCommit
<1>3. verdict \in Status
  BY VerdictType DEF Status
<1>4. incident_open[m] \in BOOLEAN
  BY <1>1 DEF TypeOK
<1>5. flag \in BOOLEAN /\ action \in AnnouncedAction
  BY <1>4, ActionType
<1>6. DOMAIN latest \subseteq EnabledPoints
  BY DEF latest_fresh_monitor_results
<1>7. /\ action = "down" => ~ incident_open[m] /\ flag
                            /\ verdict # "disabled" /\ all_points_down(points, latest)
      /\ action = "up" => incident_open[m] /\ ~ flag
                            /\ verdict # "disabled" /\ recovered(latest)
      /\ action = "none" => flag = incident_open[m] \/ ~ flag
      /\ verdict = "disabled" => ~ flag
  <2> HIDE DEF verdict, points, latest
  <2> QED
    BY <1>4 DEF persist_action, persist_incident, Opens, Closes
<1>8. verdict # "disabled" =>
        verdict = consensus_status(EnabledPoints, latest) /\ points = EnabledPoints
  OBVIOUS
<1>9. status'[m] = verdict /\ incident_open'[m] = flag
  BY <1>1, <1>2 DEF TypeOK
<1> HIDE DEF m, points, latest, verdict, action, flag
<1>10. CASE action = "none"
  <2>1. Return(p)
    BY <1>2, <1>10
  <2> QED
    BY <1>1, <1>2, <1>3, <1>5, <1>7, <1>9, <1>10, <2>1, ReturnType
       DEF AggregateMonitorResult, m
<1>11. CASE action # "none"
  <2>1. action \in {"down", "up"}
    BY <1>5, <1>11 DEF AnnouncedAction
  <2>2. /\ proc[p].point \in Points \union {NoPoint}
        /\ proc[p].todo \in SUBSET Targets
    BY DEF TypeOK, Process
  <2>3. Become(p, Handling("notify", proc[p].point, proc[p].todo, m, action))
    BY <1>2, <1>11
  <2>4. /\ proc' \in [Processes -> Process]
        /\ \A x \in Processes : Placed(proc'[x])
        /\ proc'[p] = Handling("notify", proc[p].point, proc[p].todo, m, action)
        /\ \A x \in Processes \ {p} : proc'[x] = proc[x]
    BY <1>1, <1>5, <1>11, <2>2, <2>3, HandlingUpdate
  <2>5. proc'[p].pc = "notify" /\ proc'[p].target = m /\ proc'[p].action = action
    BY <2>4 DEF Handling
  <2>6. /\ status'[m] = consensus_status(EnabledPoints, latest)
        /\ action = "down" => all_points_down(EnabledPoints, latest)
        /\ action = "up" => recovered(latest)
    BY <1>7, <1>8, <1>9, <2>1
  <2> QED
    BY <1>1, <1>2, <1>3, <1>5, <1>6, <1>7, <1>9, <2>1, <2>4, <2>5, <2>6
       DEF AggregateMonitorResult, m
<1> QED
  BY <1>10, <1>11

\* Every step of every handler keeps the columns and the processes in type.
LEMMA TypeStep ==
  ASSUME TypeOK, [Next]_vars
  PROVE  TypeOK'
<1> USE DEF TypeOK
<1>n. {} \in SUBSET Targets /\ "none" \in AnnouncedAction
  BY DEF AnnouncedAction
<1>c. CASE UNCHANGED vars
  BY <1>c DEF vars, Placed
<1>1. ASSUME NEW p \in Processes, NEW q \in Points, Authenticate(p, q)
      PROVE  TypeOK'
  <2>1. Become(p, Handling("report", q, {}, NoTarget, "none"))
    BY <1>1 DEF Authenticate
  <2>2. proc' \in [Processes -> Process] /\ \A x \in Processes : Placed(proc'[x])
    BY <2>1, <1>n, HandlingUpdate
  <2> QED
    BY <1>1, <2>2 DEF Authenticate
<1>2. ASSUME NEW p \in Processes, NEW m \in Targets, NEW success \in BOOLEAN,
             SaveResult(p, m, success)
      PROVE  TypeOK'
  <2>1. proc[p].point \in Points
    BY <1>2 DEF SaveResult, At, Placed
  <2>2. Become(p, Handling("aggregate", proc[p].point, {}, m, "none"))
    BY <1>2 DEF SaveResult
  <2>3. proc' \in [Processes -> Process] /\ \A x \in Processes : Placed(proc'[x])
    BY <2>1, <2>2, <1>n, HandlingUpdate
  <2>4. results' \in [Targets -> [Points -> Report]]
    <3>1. [success |-> success, age |-> 0] \in Report
      BY ReportType
    <3> QED
      BY <1>2, <2>1, <3>1 DEF SaveResult
  <2> QED
    BY <1>2, <2>3, <2>4 DEF SaveResult
<1>3. ASSUME NEW p \in Processes, Become(p, Idle),
             UNCHANGED <<life, enabled, status, incident_open, point, results>>
      PROVE  TypeOK'
  <2>1. Become(p, Handling("idle", NoPoint, {}, NoTarget, "none"))
    BY <1>3 DEF Idle
  <2>2. proc' \in [Processes -> Process] /\ \A x \in Processes : Placed(proc'[x])
    BY <2>1, <1>n, HandlingUpdate
  <2> QED
    BY <1>3, <2>2
<1>4. ASSUME NEW p \in Processes, StartAggregateAll(p)
      PROVE  proc' \in [Processes -> Process] /\ \A x \in Processes : Placed(proc'[x])
  <2> DEFINE saved == {m \in Targets : life[m] = "saved"}
  <2>1. Become(p, Handling("loop", NoPoint, saved, NoTarget, "none"))
    BY <1>4 DEF StartAggregateAll
  <2>2. saved \in SUBSET Targets
    OBVIOUS
  <2> HIDE DEF saved
  <2> QED
    BY <2>1, <2>2, <1>n, HandlingUpdate
<1>5. ASSUME NEW p \in Processes, AggregateAll(p)
      PROVE  TypeOK'
  BY <1>4, <1>5 DEF AggregateAll
<1>6. ASSUME NEW p \in Processes, NEW m \in Targets, AggregateNext(p, m)
      PROVE  TypeOK'
  <2>1. Become(p, Handling("aggregate", NoPoint, proc[p].todo \ {m}, m, "none"))
    BY <1>6 DEF AggregateNext
  <2>2. proc[p].todo \ {m} \in SUBSET Targets
    BY DEF Process
  <2>3. proc' \in [Processes -> Process] /\ \A x \in Processes : Placed(proc'[x])
    BY <2>1, <2>2, <1>n, HandlingUpdate
  <2> QED
    BY <1>6, <2>3 DEF AggregateNext
<1>7. ASSUME NEW p \in Processes, AggregateMonitor(p)
      PROVE  TypeOK'
  <2>1. AggregateMonitorResult(p)
    BY <1>7, AggregateMonitorEffect
  <2> DEFINE m == proc[p].target
  <2>2. /\ m \in Targets
        /\ status' = [status EXCEPT ![m] = status'[m]]
        /\ status'[m] \in Status
        /\ incident_open' = [incident_open EXCEPT ![m] = incident_open'[m]]
        /\ incident_open'[m] \in BOOLEAN
        /\ UNCHANGED <<life, enabled, point, results>>
        /\ proc' \in [Processes -> Process]
        /\ \A x \in Processes : Placed(proc'[x])
    BY <2>1 DEF AggregateMonitorResult
  <2> HIDE DEF m
  <2> QED
    BY <2>2
<1>8. ASSUME NEW p \in Processes,
             AggregateRaises(p) \/ NotifyStatusChange(p)
      PROVE  TypeOK'
  BY <1>8, ReturnType DEF AggregateRaises, NotifyStatusChange
<1>9. ASSUME NEW p \in Processes, NEW m \in Targets, EditLoad(p, m)
      PROVE  TypeOK'
  <2>1. Become(p, Handling("edit", NoPoint, {}, m, "none"))
    BY <1>9 DEF EditLoad
  <2>2. proc' \in [Processes -> Process] /\ \A x \in Processes : Placed(proc'[x])
    BY <2>1, <1>n, HandlingUpdate
  <2> QED
    BY <1>9, <2>2 DEF EditLoad
<1>10. ASSUME NEW p \in Processes, NEW on \in BOOLEAN, EditSave(p, on)
       PROVE  TypeOK'
  <2> DEFINE m == proc[p].target
  <2>1. m \in Targets
    BY <1>10 DEF EditSave, At, Placed
  <2>2. Become(p, Handling("clear", NoPoint, {}, m, "none"))
    BY <1>10 DEF EditSave
  <2>4. /\ life' = [life EXCEPT ![m] = "saved"]
        /\ enabled' = [enabled EXCEPT ![m] = on]
        /\ status' = [status EXCEPT ![m] = "unknown"]
        /\ incident_open' = [incident_open EXCEPT ![m] = FALSE]
        /\ UNCHANGED <<point, results>>
    BY <1>10 DEF EditSave
  <2> HIDE DEF m
  <2>5. proc' \in [Processes -> Process] /\ \A x \in Processes : Placed(proc'[x])
    BY <2>1, <2>2, <1>n, HandlingUpdate
  <2> QED
    BY <2>1, <2>4, <2>5 DEF Status
<1>11. ASSUME NEW p \in Processes, EditClear(p)
       PROVE  TypeOK'
  <2>1. results' \in [Targets -> [Points -> Report]]
    BY <1>11, ReportType DEF EditClear
  <2>2. Become(p, Handling("idle", NoPoint, {}, NoTarget, "none"))
    BY <1>11 DEF EditClear, Idle
  <2>3. proc' \in [Processes -> Process] /\ \A x \in Processes : Placed(proc'[x])
    BY <2>2, <1>n, HandlingUpdate
  <2> QED
    BY <1>11, <2>1, <2>3 DEF EditClear
<1>12. ASSUME NEW p \in Processes, NEW q \in Points, NEW on \in BOOLEAN,
              NewPoint(p, q, on)
       PROVE  TypeOK'
  BY <1>4, <1>12 DEF NewPoint
<1>18. ASSUME NEW p \in Processes, NEW q \in Points, LoadPoint(p, q)
       PROVE  TypeOK'
  <2>1. Become(p, Handling("pointform", q, {}, NoTarget, "none"))
    BY <1>18 DEF LoadPoint
  <2>2. proc' \in [Processes -> Process] /\ \A x \in Processes : Placed(proc'[x])
    BY <2>1, <1>n, HandlingUpdate
  <2> QED
    BY <1>18, <2>2 DEF LoadPoint
<1>19. ASSUME NEW p \in Processes, NEW on \in BOOLEAN, SavePoint(p, on)
       PROVE  TypeOK'
  BY <1>4, <1>19 DEF SavePoint
<1>13. ASSUME NEW p \in Processes, NEW q \in Points, DeletePoint(p, q)
       PROVE  TypeOK'
  <2>1. results' \in [Targets -> [Points -> Report]]
    BY <1>13, ReportType DEF DeletePoint
  <2> QED
    BY <1>4, <1>13, <2>1 DEF DeletePoint
<1>14. ASSUME NEW m \in Targets, NEW on \in BOOLEAN, NewMonitor(m, on)
       PROVE  TypeOK'
  BY <1>14 DEF NewMonitor
<1>15. ASSUME NEW m \in Targets, DeleteMonitor(m)
       PROVE  TypeOK'
  <2>1. results' \in [Targets -> [Points -> Report]]
    BY <1>15, ReportType DEF DeleteMonitor
  <2> QED
    BY <1>15, <2>1 DEF DeleteMonitor, Status
<1>16. ASSUME Tick
       PROVE  TypeOK'
  <2>1. results' \in [Targets -> [Points -> Report]]
    BY <1>16, ReportType DEF Tick
  <2>2. ASSUME NEW p \in Processes
        PROVE  proc'[p] \in Process /\ Placed(proc'[p])
    <3>1. CASE At(p, "aggregate")
      <4>1. proc[p].wait + 1 \in 0 .. MaxWait
        BY <1>16, <3>1, AggregationAssumption DEF Tick, Process
      <4> DEFINE w == proc[p].wait + 1
      <4>2. proc'[p] = [proc[p] EXCEPT !.wait = w]
        BY <1>16, <3>1 DEF Tick
      <4>3. w \in 0 .. MaxWait /\ proc[p] \in Process /\ Placed(proc[p])
        BY <4>1
      <4> HIDE DEF w
      <4> QED
        BY <4>2, <4>3 DEF Process, Placed
    <3>2. CASE ~ At(p, "aggregate")
      BY <1>16, <3>2 DEF Tick
    <3> QED
      BY <3>1, <3>2
  <2>3. proc' \in [Processes -> Process]
    BY <1>16, <2>2 DEF Tick
  <2> QED
    BY <1>16, <2>1, <2>2, <2>3 DEF Tick
<1>17. ASSUME NEW p \in Processes,
              Respond(p) \/ LoopDone(p) \/ Crash(p)
       PROVE  TypeOK'
  BY <1>3, <1>17 DEF Respond, LoopDone, Crash
<1> QED
  BY <1>c, <1>1, <1>2, <1>5, <1>6, <1>7, <1>8, <1>9, <1>10, <1>11, <1>12, <1>13,
     <1>14, <1>15, <1>16, <1>17, <1>18, <1>19
     DEF Next, Reporting, Aggregating, Editing

\* The first state is typed.
LEMMA TypeInit == Init => TypeOK
<1> SUFFICES ASSUME Init PROVE TypeOK
  OBVIOUS
<1>1. Idle \in Process /\ Placed(Idle)
  BY HandlingType DEF Idle, AnnouncedAction
<1>2. results \in [Targets -> [Points -> Report]]
  BY ReportType DEF Init
<1> QED
  BY <1>1, <1>2 DEF Init, TypeOK, Status

\* TypeOK holds in every reachable state: no interleaving of requests, edits,
\* deletions, crashes and aggregations leaves a row or a handler out of type.
THEOREM TypeCorrect == Spec => []TypeOK
BY TypeInit, TypeStep, PTL DEF Spec

-----------------------------------------------------------------------------
(* What a step does to incidents and announcements *)

LEMMA OwedSame ==
  ASSUME TypeOK, NEW p \in Processes, NEW pc, NEW q, NEW todo, NEW m, NEW action,
         ~ At(p, "notify"), pc # "notify",
         Become(p, Handling(pc, q, todo, m, action))
  PROVE  Owed' = Owed /\ proc'[p].pc # "notify"
<1>1. /\ proc' = [proc EXCEPT ![p] = Handling(pc, q, todo, m, action)]
      /\ proc \in [Processes -> Process]
  BY DEF Become, TypeOK
<1>2. proc'[p].pc = pc
  BY <1>1 DEF Handling
<1>3. \A x \in Processes : x # p => proc'[x] = proc[x]
  BY <1>1
<1> QED
  BY <1>2, <1>3 DEF Owed, At

\* Apart from the transaction of an aggregation, a step leaves incidents and
\* announcements alone, resets one target, or settles one announcement.
LEMMA StepKinds ==
  ASSUME TypeOK, [Next]_vars
  PROVE  \/ \E p \in Processes : AggregateMonitor(p)
         \/ UNCHANGED <<status, incident_open, Owed>>
         \/ /\ Owed' = Owed
            /\ \E m \in Targets :
                 /\ status' = [status EXCEPT ![m] = "unknown"]
                 /\ incident_open' = [incident_open EXCEPT ![m] = FALSE]
         \/ /\ UNCHANGED <<status, incident_open>>
            /\ \E p \in Processes :
                 At(p, "notify") /\ Owed' = [Owed EXCEPT ![p] = NothingOwed]
<1> DEFINE Goal == \/ \E p \in Processes : AggregateMonitor(p)
                   \/ UNCHANGED <<status, incident_open, Owed>>
                   \/ /\ Owed' = Owed
                      /\ \E m \in Targets :
                           /\ status' = [status EXCEPT ![m] = "unknown"]
                           /\ incident_open' = [incident_open EXCEPT ![m] = FALSE]
                   \/ /\ UNCHANGED <<status, incident_open>>
                      /\ \E p \in Processes :
                           At(p, "notify") /\ Owed' = [Owed EXCEPT ![p] = NothingOwed]
<1>c. CASE UNCHANGED vars
  BY <1>c DEF vars, Owed, At
<1>1. ASSUME NEW p \in Processes, NEW q \in Points, Authenticate(p, q)
      PROVE  UNCHANGED <<status, incident_open, Owed>>
  BY <1>1, OwedSame DEF Authenticate, At
<1>2. ASSUME NEW p \in Processes, NEW m \in Targets, NEW success \in BOOLEAN,
             SaveResult(p, m, success)
      PROVE  UNCHANGED <<status, incident_open, Owed>>
  BY <1>2, OwedSame DEF SaveResult, At
<1>3. ASSUME NEW p \in Processes, Respond(p) \/ LoopDone(p)
      PROVE  UNCHANGED <<status, incident_open, Owed>>
  BY <1>3, OwedSame DEF Respond, LoopDone, Idle, At
<1>4. ASSUME NEW p \in Processes, AggregateAll(p)
      PROVE  UNCHANGED <<status, incident_open, Owed>>
  BY <1>4, OwedSame DEF AggregateAll, StartAggregateAll, At
<1>5. ASSUME NEW p \in Processes, NEW m \in Targets, AggregateNext(p, m)
      PROVE  UNCHANGED <<status, incident_open, Owed>>
  BY <1>5, OwedSame DEF AggregateNext, At
<1>6. ASSUME NEW p \in Processes, AggregateRaises(p)
      PROVE  UNCHANGED <<status, incident_open, Owed>>
  BY <1>6, ReturnType DEF AggregateRaises, Owed, At
<1>7. ASSUME NEW p \in Processes, NotifyStatusChange(p)
      PROVE  Goal
  <2>1. /\ proc'[p].pc # "notify"
        /\ \A x \in Processes \ {p} : proc'[x] = proc[x]
    BY <1>7, ReturnType DEF NotifyStatusChange
  <2>2. Owed' = [Owed EXCEPT ![p] = NothingOwed]
    BY <2>1 DEF Owed, At
  <2> QED
    BY <1>7, <2>2 DEF NotifyStatusChange
<1>8. ASSUME NEW p \in Processes, NEW m \in Targets, EditLoad(p, m)
      PROVE  UNCHANGED <<status, incident_open, Owed>>
  BY <1>8, OwedSame DEF EditLoad, At
<1>9. ASSUME NEW p \in Processes, NEW on \in BOOLEAN, EditSave(p, on)
      PROVE  Goal
  <2>1. proc[p].target \in Targets
    BY <1>9 DEF EditSave, At, TypeOK, Placed
  <2>2. Owed' = Owed
    BY <1>9, OwedSame DEF EditSave, At
  <2> QED
    BY <1>9, <2>1, <2>2 DEF EditSave
<1>10. ASSUME NEW p \in Processes, EditClear(p)
       PROVE  UNCHANGED <<status, incident_open, Owed>>
  BY <1>10, OwedSame DEF EditClear, Idle, At
<1>11. ASSUME NEW p \in Processes, NEW q \in Points, NEW on \in BOOLEAN,
              NewPoint(p, q, on) \/ LoadPoint(p, q) \/ DeletePoint(p, q)
       PROVE  UNCHANGED <<status, incident_open, Owed>>
  BY <1>11, OwedSame
     DEF NewPoint, LoadPoint, DeletePoint, StartAggregateAll, At
<1>16. ASSUME NEW p \in Processes, NEW on \in BOOLEAN, SavePoint(p, on)
       PROVE  UNCHANGED <<status, incident_open, Owed>>
  BY <1>16, OwedSame DEF SavePoint, StartAggregateAll, At
<1>12. ASSUME NEW m \in Targets, NEW on \in BOOLEAN, NewMonitor(m, on)
       PROVE  UNCHANGED <<status, incident_open, Owed>>
  BY <1>12 DEF NewMonitor, Owed, At
<1>13. ASSUME NEW m \in Targets, DeleteMonitor(m)
       PROVE  Goal
  BY <1>13 DEF DeleteMonitor, Owed, At
<1>14. ASSUME NEW p \in Processes, Crash(p)
       PROVE  Goal
  <2>1. proc' = [proc EXCEPT ![p] = Idle] /\ Idle.pc # "notify"
    BY <1>14 DEF Crash, Become, Idle, Handling
  <2>2. proc \in [Processes -> Process]
    BY DEF TypeOK
  <2>3. CASE At(p, "notify")
    <3>1. Owed' = [Owed EXCEPT ![p] = NothingOwed]
      BY <2>1, <2>2, <2>3 DEF Owed, At
    <3> QED
      BY <1>14, <2>3, <3>1 DEF Crash
  <2>4. CASE ~ At(p, "notify")
    <3>1. Owed' = Owed
      BY <2>1, <2>2, <2>4 DEF Owed, At
    <3> QED
      BY <1>14, <3>1 DEF Crash
  <2> QED
    BY <2>3, <2>4
<1>15. ASSUME Tick
       PROVE  UNCHANGED <<status, incident_open, Owed>>
  <2>1. ASSUME NEW p \in Processes, At(p, "notify")
        PROVE  proc'[p] = proc[p]
    BY <1>15, <2>1 DEF Tick, At
  <2>2. ASSUME NEW p \in Processes, ~ At(p, "notify")
        PROVE  proc'[p].pc # "notify"
    <3>1. CASE At(p, "aggregate")
      <4> DEFINE w == proc[p].wait + 1
      <4>1. proc'[p] = [proc[p] EXCEPT !.wait = w]
        BY <1>15, <3>1 DEF Tick
      <4>2. proc[p] \in Process
        BY DEF TypeOK
      <4> HIDE DEF w
      <4> QED
        BY <3>1, <4>1, <4>2 DEF At, Process
    <3>2. CASE ~ At(p, "aggregate")
      BY <1>15, <2>2, <3>2 DEF Tick, At
    <3> QED
      BY <3>1, <3>2
  <2> QED
    BY <1>15, <2>1, <2>2 DEF Tick, Owed, At
<1> QED
  BY <1>c, <1>1, <1>2, <1>3, <1>4, <1>5, <1>6, <1>7, <1>8, <1>9, <1>10, <1>11,
     <1>12, <1>13, <1>14, <1>15, <1>16
     DEF Next, Reporting, Aggregating, Editing

-----------------------------------------------------------------------------
(* Safety *)

\* A target shown as disabled has no open incident: persist_status and the
\* edit handlers keep the two columns together in every interleaving.
THEOREM DisabledQuiet == Spec => []DisabledIsQuiet
<1>1. Init => DisabledIsQuiet
  BY DEF Init, DisabledIsQuiet
<1>2. ASSUME TypeOK, DisabledIsQuiet, [Next]_vars
      PROVE  DisabledIsQuiet'
  <2>1. ASSUME NEW p \in Processes, AggregateMonitor(p)
        PROVE  DisabledIsQuiet'
    <3>1. AggregateMonitorResult(p)
      BY <1>2, <2>1, AggregateMonitorEffect
    <3> DEFINE m == proc[p].target
    <3>2. /\ m \in Targets
          /\ status' = [status EXCEPT ![m] = status'[m]]
          /\ incident_open' = [incident_open EXCEPT ![m] = incident_open'[m]]
          /\ status'[m] = "disabled" => ~ incident_open'[m]
      BY <3>1 DEF AggregateMonitorResult
    <3>3. \A n \in Targets : n # m => /\ status'[n] = status[n]
                                      /\ incident_open'[n] = incident_open[n]
      BY <1>2, <3>2 DEF TypeOK
    <3> QED
      BY <1>2, <3>2, <3>3 DEF DisabledIsQuiet
  <2>2. ASSUME NEW m \in Targets,
               status' = [status EXCEPT ![m] = "unknown"],
               incident_open' = [incident_open EXCEPT ![m] = FALSE]
        PROVE  DisabledIsQuiet'
    BY <1>2, <2>2 DEF DisabledIsQuiet, TypeOK
  <2>3. ASSUME UNCHANGED <<status, incident_open>>
        PROVE  DisabledIsQuiet'
    BY <1>2, <2>3 DEF DisabledIsQuiet
  <2> QED
    BY <1>2, <2>1, <2>2, <2>3, StepKinds
<1> QED
  BY <1>1, <1>2, TypeCorrect, PTL DEF Spec

\* Whoever comes to owe an announcement has just committed an aggregation.
LEMMA OnlyAggregationAnnounces ==
  ASSUME TypeOK, [Next]_vars, NEW p \in Processes,
         ~ At(p, "notify"), proc'[p].pc = "notify"
  PROVE  AggregateMonitorResult(p)
<1>1. Owed'[p] # NothingOwed
  <2>1. TypeOK'
    BY TypeStep
  <2>2. Owed'[p] = [target |-> proc'[p].target, action |-> proc'[p].action]
    BY DEF Owed, At
  <2>3. proc'[p].action # "none"
    BY <2>1 DEF TypeOK, Placed
  <2> QED
    BY <2>2, <2>3 DEF NothingOwed
<1>2. Owed[p] = NothingOwed
  BY DEF Owed
<1>3. PICK x \in Processes : AggregateMonitor(x)
  BY <1>1, <1>2, StepKinds DEF Owed
<1>4. AggregateMonitorResult(x)
  BY <1>3, AggregateMonitorEffect
<1>5. x = p
  BY <1>4 DEF AggregateMonitorResult, At
<1> QED
  BY <1>4, <1>5

\* A fault is only announced for a target that the same transaction shows as
\* down (all_points_down against consensus_status in services.py).
THEOREM FaultAnnouncedIsDown == Spec => FaultIsDown
<1>1. ASSUME TypeOK, [Next]_vars, NEW p \in Processes, Announces(p, "down")
      PROVE  status'[proc'[p].target] = "down"
  <2>1. AggregateMonitorResult(p)
    BY <1>1, OnlyAggregationAnnounces DEF Announces
  <2>2. PICK latest :
          /\ DOMAIN latest \subseteq EnabledPoints
          /\ status'[proc[p].target] = consensus_status(EnabledPoints, latest)
          /\ all_points_down(EnabledPoints, latest)
    BY <1>1, <2>1 DEF AggregateMonitorResult, Announces
  <2>3. IsFiniteSet(EnabledPoints)
    BY PointsAreFinite, FS_Subset DEF EnabledPoints
  <2>4. proc'[p].target = proc[p].target
    BY <1>1, <2>1 DEF AggregateMonitorResult, Announces
  <2> QED
    BY <2>2, <2>3, <2>4, AllFailIsDown
<1>2. TypeOK /\ [Next]_vars =>
        [\A p \in Processes :
           Announces(p, "down") => status'[proc'[p].target] = "down"]_vars
  BY <1>1
<1> QED
  BY <1>2, TypeCorrect, PTL DEF Spec, FaultIsDown

\* While at most three points are enabled, however many are registered, a recovery
\* is only announced for a target that the same transaction shows as up.  With four
\* it is not so: FourPointsDisagree.
THEOREM RecoveryAnnouncedIsUp == Spec => RecoveryIsUp
<1>0. IsFiniteSet(EnabledPoints)
  BY PointsAreFinite, FS_Subset DEF EnabledPoints
<1>1. ASSUME TypeOK, [Next]_vars, NEW p \in Processes, Announces(p, "up"),
             Cardinality(EnabledPoints) <= 3
      PROVE  status'[proc'[p].target] = "up"
  <2>1. AggregateMonitorResult(p)
    BY <1>1, OnlyAggregationAnnounces DEF Announces
  <2>2. PICK latest :
          /\ DOMAIN latest \subseteq EnabledPoints
          /\ status'[proc[p].target] = consensus_status(EnabledPoints, latest)
          /\ recovered(latest)
    BY <1>1, <2>1 DEF AggregateMonitorResult, Announces
  <2>4. proc'[p].target = proc[p].target
    BY <1>1, <2>1 DEF AggregateMonitorResult, Announces
  <2> QED
    BY <1>0, <1>1, <2>2, <2>4, RecoveredIsUp
<1>2. TypeOK /\ [Next]_vars =>
        [\A p \in Processes :
           Announces(p, "up") /\ Cardinality(EnabledPoints) <= 3
             => status'[proc'[p].target] = "up"]_vars
  BY <1>1
<1> QED
  BY <1>2, TypeCorrect, PTL DEF Spec, RecoveryIsUp

-----------------------------------------------------------------------------
(* Refinement *)

\* Aggregation implements the abstract Incident: every reachable step raises,
\* recovers or discards one incident, settles one announcement, or stutters.
THEOREM Refinement == Spec => ImplementsIncident
<1> DEFINE Open == {m \in Targets : incident_open[m]}
<1>1. Init => Incidents!IInit
  <2> SUFFICES ASSUME Init PROVE Incidents!IInit
    OBVIOUS
  <2>1. Open = {}
    BY DEF Init
  <2>2. Owed = [p \in Processes |-> NothingOwed]
    BY DEF Init, Owed, At, Idle, Handling
  <2> QED
    BY <2>1, <2>2 DEF Incidents!IInit, Incidents!Nothing, NothingOwed
<1>2. ASSUME TypeOK, [Next]_vars
      PROVE  [Incidents!INext]_(Incidents!ivars)
  <2>1. ASSUME NEW p \in Processes, AggregateMonitor(p)
        PROVE  [Incidents!INext]_(Incidents!ivars)
    <3>1. AggregateMonitorResult(p)
      BY <1>2, <2>1, AggregateMonitorEffect
    <3> DEFINE m == proc[p].target
    <3>2. /\ m \in Targets
          /\ incident_open' = [incident_open EXCEPT ![m] = incident_open'[m]]
          /\ incident_open[m] \in BOOLEAN /\ incident_open'[m] \in BOOLEAN
      BY <1>2, <3>1 DEF AggregateMonitorResult, TypeOK
    <3>3. \A n \in Targets : n # m => incident_open'[n] = incident_open[n]
      BY <1>2, <3>2 DEF TypeOK
    <3>4. Owed[p] = NothingOwed
      BY <3>1 DEF AggregateMonitorResult, Owed, At
    <3>5. \A x \in Processes : x # p => Owed'[x] = Owed[x]
      BY <3>1 DEF AggregateMonitorResult, Owed, At
    <3>6. CASE proc'[p].pc # "notify"
      <4>1. Owed' = Owed
        BY <3>4, <3>5, <3>6 DEF Owed, At
      <4>2. incident_open'[m] = incident_open[m] \/ ~ incident_open'[m]
        BY <3>1, <3>6 DEF AggregateMonitorResult
      <4>3. Open' = Open \/ (m \in Open /\ Open' = Open \ {m})
        BY <3>2, <3>3, <4>2
      <4> QED
        BY <3>2, <4>1, <4>3
           DEF Incidents!INext, Incidents!Discard, Incidents!ivars
    <3>7. CASE proc'[p].pc = "notify"
      <4>1. /\ proc'[p].target = m
            /\ proc'[p].action \in {"down", "up"}
            /\ proc'[p].action = "down" => ~ incident_open[m] /\ incident_open'[m]
            /\ proc'[p].action = "up" => incident_open[m] /\ ~ incident_open'[m]
        BY <3>1, <3>7 DEF AggregateMonitorResult
      <4>2. Owed'[p] = [target |-> m, action |-> proc'[p].action]
        BY <3>7, <4>1 DEF Owed, At
      <4>3. Owed' = [Owed EXCEPT ![p] = [target |-> m, action |-> proc'[p].action]]
        BY <3>5, <4>2 DEF Owed
      <4>4. CASE proc'[p].action = "down"
        <5>1. m \notin Open /\ Open' = Open \union {m}
          BY <3>2, <3>3, <4>1, <4>4
        <5> QED
          BY <3>2, <3>4, <4>3, <4>4, <5>1
             DEF Incidents!INext, Incidents!Raise, Incidents!Nothing, NothingOwed
      <4>5. CASE proc'[p].action = "up"
        <5>1. m \in Open /\ Open' = Open \ {m}
          BY <3>2, <3>3, <4>1, <4>5
        <5> QED
          BY <3>2, <3>4, <4>3, <4>5, <5>1
             DEF Incidents!INext, Incidents!Recover, Incidents!Nothing, NothingOwed
      <4> QED
        BY <4>1, <4>4, <4>5
    <3> QED
      BY <3>6, <3>7
  <2>2. ASSUME UNCHANGED <<status, incident_open, Owed>>
        PROVE  [Incidents!INext]_(Incidents!ivars)
    BY <2>2 DEF Incidents!ivars
  <2>3. ASSUME Owed' = Owed, NEW m \in Targets,
               incident_open' = [incident_open EXCEPT ![m] = FALSE]
        PROVE  [Incidents!INext]_(Incidents!ivars)
    <3>1. Open' = Open \/ (m \in Open /\ Open' = Open \ {m})
      BY <1>2, <2>3 DEF TypeOK
    <3> QED
      BY <2>3, <3>1 DEF Incidents!INext, Incidents!Discard, Incidents!ivars
  <2>4. ASSUME incident_open' = incident_open, NEW p \in Processes,
               At(p, "notify"), Owed' = [Owed EXCEPT ![p] = NothingOwed]
        PROVE  [Incidents!INext]_(Incidents!ivars)
    <3>1. Owed[p] # NothingOwed
      BY <1>2, <2>4 DEF Owed, NothingOwed, TypeOK, Placed, At
    <3>2. Open' = Open
      BY <2>4
    <3> QED
      BY <2>4, <3>1, <3>2
         DEF Incidents!INext, Incidents!Settle, Incidents!Nothing, NothingOwed
  <2> QED
    BY <1>2, <2>1, <2>2, <2>3, <2>4, StepKinds
<1> QED
  BY <1>1, <1>2, TypeCorrect, PTL DEF Spec, ImplementsIncident, Incidents!ISpec
=============================================================================
