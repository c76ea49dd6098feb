------------------------------ MODULE Incident ------------------------------
(***************************************************************************)
(* What aggregation promises about incidents, free of reports, consensus   *)
(* and locks.  A target has at most one open incident.  A process that     *)
(* opens or closes one owes exactly one announcement of it, which it makes *)
(* or loses (notifications off, Bark unreachable, process killed) before   *)
(* it may touch another incident; nobody else announces anything.  An edit,*)
(* a deletion or disabling discards an open incident without a word.       *)
(***************************************************************************)
CONSTANTS Targets, Processes

VARIABLES
  open,   \* the targets with an open incident
  owed    \* owed[p]: the announcement process p has yet to make

ivars == <<open, owed>>

Nothing == [target |-> "none", action |-> "none"]

Announcement == [target : Targets, action : {"down", "up"}]

ITypeOK ==
  /\ open \subseteq Targets
  /\ owed \in [Processes -> Announcement \union {Nothing}]

IInit ==
  /\ open = {}
  /\ owed = [p \in Processes |-> Nothing]

Raise(p, m) ==
  /\ m \notin open
  /\ owed[p] = Nothing
  /\ open' = open \union {m}
  /\ owed' = [owed EXCEPT ![p] = [target |-> m, action |-> "down"]]

Recover(p, m) ==
  /\ m \in open
  /\ owed[p] = Nothing
  /\ open' = open \ {m}
  /\ owed' = [owed EXCEPT ![p] = [target |-> m, action |-> "up"]]

Discard(m) ==
  /\ m \in open
  /\ open' = open \ {m}
  /\ UNCHANGED owed

\* The announcement is made, or lost; which of the two is not visible here.
Settle(p) ==
  /\ owed[p] # Nothing
  /\ owed' = [owed EXCEPT ![p] = Nothing]
  /\ UNCHANGED open

INext ==
  \/ \E p \in Processes, m \in Targets : Raise(p, m) \/ Recover(p, m)
  \/ \E m \in Targets : Discard(m)
  \/ \E p \in Processes : Settle(p)

ISpec == IInit /\ [][INext]_ivars
=============================================================================
