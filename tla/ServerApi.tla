----------------------------- MODULE ServerApi -----------------------------
(***************************************************************************)
(* The server as one test point meets it: monitors/api.py with the part of *)
(* services.py and views.py behind it.  Configurations of monitors, manual *)
(* tasks with this point's assignment, and the stored results.  Requests   *)
(* are served by several workers, so the operator's handlers interleave    *)
(* with the API, and the items of a post are stored one transaction each.  *)
(* The point is registered and enabled throughout: to any other the API    *)
(* answers 403, which the client takes like a failed request.              *)
(***************************************************************************)
EXTENDS Protocol

VARIABLES
  life,      \* life[m]: enabled, disabled or deleted
  gen,       \* gen[m]: the configuration the row of m holds
  task,      \* task[t]: its state for this point, and its target
  row,       \* row[i]: what has become of result i in the database
  operator   \* the view the operator's request is in the middle of

server == <<life, gen, task, row, operator>>

(***************************************************************************)
(* A result is stored, or was rejected each time it was posted, or was     *)
(* stored once and its row deleted since.  Only the row of a stored result *)
(* exists in the database, the other fates are history.                    *)
(***************************************************************************)
Row == [fate : {"none", "rejected", "stored", "removed"},
        target : Targets \union {None}]
NoRow == [fate |-> "none", target |-> None]

NoTask == [state |-> "unused", target |-> None]
NoView == [pc |-> "none", target |-> None]

ServerTypeOK ==
  /\ life \in [Targets -> {"enabled", "disabled", "deleted"}]
  /\ gen \in [Targets -> Configuration]
  /\ task \in [Tasks -> [state  : {"unused", "assigned", "completed", "expired",
                                   "deleted"},
                         target : Targets \union {None}]]
  /\ row \in [Ids -> Row]
  /\ operator \in [pc : {"none", "clear", "dispatch"},
                   target : Targets \union {None}]

ServerInit ==
  /\ life \in [Targets -> {"enabled", "disabled"}]
  /\ gen = [m \in Targets |-> 1]
  /\ task = [t \in Tasks |-> NoTask]
  /\ row = [i \in Ids |-> NoRow]
  /\ operator = NoView

(***************************************************************************)
(* GET /manifest and GET /tasks.                                           *)
(***************************************************************************)
manifest_payload ==
  [m \in Targets |-> IF life[m] = "enabled" THEN gen[m] ELSE NotListed]

\* Mutant: the version in If-None-Match is not compared.
ConditionalIsUnmodified(etag) ==
  IF etag # None THEN NotModified ELSE manifest_payload

\* If-None-Match carries the version of the client's manifest, or nothing.
manifest_response(etag) ==
  IF etag = manifest_payload THEN NotModified ELSE manifest_payload

AnswerManifest(g) ==
  /\ get[g].phase = "sent"
  /\ get' = [get EXCEPT ![g] = [phase |-> "answered", etag |-> None,
                                body  |-> manifest_response(get[g].etag)]]
  /\ UNCHANGED <<server, poll, post, late>>

OpenAssignments ==
  {a \in Assignment : /\ task[a.task] = [state |-> "assigned", target |-> a.target]
                      /\ life[a.target] = "enabled"}

AnswerTasks ==
  /\ poll.phase = "sent"
  /\ poll' = [phase |-> "answered", body |-> OpenAssignments]
  /\ UNCHANGED <<server, get, post, late>>

(***************************************************************************)
(* POST /results: one item, one transaction (save_client_result).  An item *)
(* whose row exists is a duplicate; one for a target that is not enabled,  *)
(* or a task that expired or is gone, is rejected.  What the answer says of*)
(* it makes no difference to the client.                                   *)
(***************************************************************************)
TaskOpen(k) == k \in Tasks => task[k].state \in {"assigned", "completed"}

Acceptable(r) ==
  /\ row[r.id].fate # "stored"
  /\ life[r.target] = "enabled"
  /\ TaskOpen(r.key)

Store(r) ==
  /\ Acceptable(r)
  /\ row' = [row EXCEPT ![r.id] = [fate |-> "stored", target |-> r.target]]
  /\ task' = IF r.key \in Tasks THEN [task EXCEPT ![r.key].state = "completed"]
                                ELSE task
  /\ UNCHANGED <<life, gen, operator>>

\* A duplicate is not stored again; a rejected item leaves no row.
Reject(r) ==
  /\ row' = IF row[r.id].fate = "none"
            THEN [row EXCEPT ![r.id].fate = "rejected"] ELSE row
  /\ UNCHANGED <<life, gen, task, operator>>

Save(r) == Store(r) \/ (~ Acceptable(r) /\ Reject(r))

SaveItem(r) ==
  /\ r \in post.todo
  /\ post' = [post EXCEPT !.todo = @ \ {r}]
  /\ Save(r)
  /\ UNCHANGED <<get, poll, late>>

\* The transaction did not get the database lock in time: rejected as well.
LockedItem(r) ==
  /\ r \in post.todo
  /\ post' = [post EXCEPT !.todo = @ \ {r}]
  /\ Reject(r)
  /\ UNCHANGED <<get, poll, late>>

\* The worker of an abandoned post goes on, or dies.
SaveLateItem(r) ==
  /\ r \in late
  /\ late' = late \ {r}
  /\ Save(r) \/ Reject(r)
  /\ UNCHANGED <<get, poll, post>>

(***************************************************************************)
(* The operator.  An edit saves the row, then deletes its results, then    *)
(* dispatches a check; the button only dispatches.  create_manual_check is *)
(* visible to this point once its assignment is inserted.                  *)
(***************************************************************************)
CanDispatch == \E t \in Tasks : task[t] = NoTask

EditSave(m, on) ==
  /\ operator = NoView
  /\ CanDispatch
  /\ life[m] # "deleted"
  /\ gen[m] < bound.gens
  /\ gen' = [gen EXCEPT ![m] = @ + 1]
  /\ life' = [life EXCEPT ![m] = IF on THEN "enabled" ELSE "disabled"]
  /\ operator' = [pc |-> "clear", target |-> m]
  /\ UNCHANGED <<task, row, wire>>

RemoveRows(S) ==
  row' = [i \in Ids |-> IF i \in S /\ row[i].fate = "stored"
                        THEN [row[i] EXCEPT !.fate = "removed"] ELSE row[i]]

RowsOf(m) == {i \in Ids : row[i].target = m}

EditClear ==
  /\ operator.pc = "clear"
  /\ RemoveRows(RowsOf(operator.target))
  /\ operator' = [operator EXCEPT !.pc = "dispatch"]
  /\ UNCHANGED <<life, gen, task, wire>>

\* check_now on an enabled target.
CheckNow(m) ==
  /\ operator = NoView
  /\ CanDispatch
  /\ life[m] = "enabled"
  /\ operator' = [pc |-> "dispatch", target |-> m]
  /\ UNCHANGED <<life, gen, task, row, wire>>

\* Unless the target was deleted since the view loaded it.
Dispatch(t) ==
  /\ operator.pc = "dispatch"
  /\ task[t] = NoTask
  /\ task' = IF life[operator.target] = "deleted" THEN task
             ELSE [task EXCEPT ![t] = [state |-> "assigned",
                                       target |-> operator.target]]
  /\ operator' = NoView
  /\ UNCHANGED <<life, gen, row, wire>>

\* The delete cascades to the results and the tasks of the target.
DeleteMonitor(m) ==
  /\ life[m] # "deleted"
  /\ life' = [life EXCEPT ![m] = "deleted"]
  /\ RemoveRows(RowsOf(m))
  /\ task' = [t \in Tasks |-> IF task[t].target = m
                              THEN [task[t] EXCEPT !.state = "deleted"]
                              ELSE task[t]]
  /\ UNCHANGED <<gen, operator, wire>>

\* Ten minutes after it was created.
ExpireTask(t) ==
  /\ task[t].state \in {"assigned", "completed"}
  /\ task' = [task EXCEPT ![t].state = "expired"]
  /\ UNCHANGED <<life, gen, row, operator, wire>>

\* cleanup_history deletes the results received more than eight days ago.
CleanupHistory(i) ==
  /\ row[i].fate = "stored"
  /\ RemoveRows({i})
  /\ UNCHANGED <<life, gen, task, operator, wire>>

ServerNext ==
  \/ \E g \in Getters : AnswerManifest(g)
  \/ AnswerTasks
  \/ \E r \in Result : SaveItem(r) \/ LockedItem(r) \/ SaveLateItem(r)
  \/ \E m \in Targets, on \in BOOLEAN : EditSave(m, on)
  \/ EditClear
  \/ \E m \in Targets : CheckNow(m) \/ DeleteMonitor(m)
  \/ \E t \in Tasks : Dispatch(t) \/ ExpireTask(t)
  \/ \E i \in Ids : CleanupHistory(i)
=============================================================================
