----------------------------- MODULE MCDelivery -----------------------------
(***************************************************************************)
(* Small instances of Delivery for TLC.                                    *)
(***************************************************************************)
EXTENDS Delivery, TLC

\* Nothing distinguishes two result ids, two monitors or two tasks.
Symmetry == Permutations(Ids) \union Permutations(Targets) \union Permutations(Tasks)

\* Results of both kinds, without edits.
SafetyBounds ==
  {[timers |-> {"task_loop", "schedule_loop"}, ids |-> Ids, gens |-> 1]}

\* Tasks without edits, periodic tests after a task, or the manifest without
\* results.
Backlog == [timers |-> {"schedule_loop"}, ids |-> Ids, gens |-> 1]

LiveBounds ==
  {[timers |-> {"task_loop"}, ids |-> Ids, gens |-> 1],
   Backlog,
   [timers |-> {"task_loop", "manifest_loop"}, ids |-> {}, gens |-> 3]}

\* The periodic tests begin where a task has been carried out, with its result
\* pending: in memory and, unless the write failed, in the file.
BacklogInit ==
  LET t == CHOOSE t \in Tasks : TRUE
      m == CHOOSE m \in Targets : TRUE
      r == [id |-> CHOOSE i \in Ids : TRUE, key |-> t, target |-> m, gen |-> 1]
  IN /\ life = [n \in Targets |-> "enabled"]
     /\ gen = [n \in Targets |-> 1]
     /\ task = [u \in Tasks |-> IF u = t THEN [state |-> "assigned", target |-> m]
                                         ELSE NoTask]
     /\ row = [i \in Ids |-> NoRow]
     /\ operator = NoView
     /\ started = TRUE
     /\ manifest = manifest_payload /\ manifest_disk = manifest
     /\ pending = [k \in Keys |-> IF k = t THEN r ELSE None]
     /\ pending_disk \in {pending, [k \in Keys |-> None]}
     /\ test = [k \in Keys |-> NoTest]
     /\ tasker = Sleeping
     /\ get = [g \in Getters |-> NoGet]
     /\ poll = NoPoll
     /\ post = NoPost
     /\ late = {}
     /\ bound = Backlog

LiveInit == (Init /\ bound # Backlog) \/ BacklogInit

LiveSpec ==
  /\ LiveInit /\ [][Next]_vars
  /\ ManifestFairness /\ TaskFairness /\ ResultFairness

\* Periodic tests and one edit.
ForeignBounds == {[timers |-> {"schedule_loop"}, ids |-> Ids, gens |-> 2]}
=============================================================================
