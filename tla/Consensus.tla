----------------------------- MODULE Consensus -----------------------------
(***************************************************************************)
(* The verdict rules of monitors/services.py: how the latest fresh report  *)
(* of every enabled test point becomes the status of a target, and when an *)
(* incident is opened or closed.  They are pure; aggregate_node and        *)
(* aggregate_monitor apply them inside one database transaction.           *)
(*                                                                         *)
(* enabled_points is the set of enabled test points.  latest maps some of  *)
(* them (those with a fresh CHECK report) to that report, a record of      *)
(* which the rules read only the field success.                            *)
(***************************************************************************)
EXTENDS Naturals, FiniteSets

Status == {"unknown", "up", "down", "disabled"}

\* What persist_status asks its caller to announce.
AnnouncedAction == {"none", "down", "up"}

Failures(latest)  == {q \in DOMAIN latest : ~ latest[q].success}
Successes(latest) == {q \in DOMAIN latest : latest[q].success}

(***************************************************************************)
(* One enabled point decides alone; several need two fresh reports, and    *)
(* two failing ones to call the target down.                               *)
(***************************************************************************)
consensus_status(enabled_points, latest) ==
  LET needed == IF Cardinality(enabled_points) = 1 THEN 1 ELSE 2
  IN IF enabled_points = {} \/ Cardinality(DOMAIN latest) < needed
     THEN "unknown"
     ELSE IF Cardinality(Failures(latest)) >= needed THEN "down" ELSE "up"

\* Mutant: the points that have not reported are forgotten.
EveryReportFails(enabled_points, latest) ==
  DOMAIN latest # {} /\ Successes(latest) = {}

\* Mutant: a single point is not enough to raise an incident.
SeveralPointsDown(enabled_points, latest) ==
  /\ Cardinality(enabled_points) > 1
  /\ Cardinality(DOMAIN latest) = Cardinality(enabled_points)
  /\ Successes(latest) = {}

all_points_down(enabled_points, latest) ==
  /\ enabled_points # {}
  /\ Cardinality(DOMAIN latest) = Cardinality(enabled_points)
  /\ Successes(latest) = {}

\* Mutant: one recovered point is enough.
AnyRecovered(latest) == Successes(latest) # {}

\* Mutant: off by one, more than two points must have recovered.
ThreeRecovered(latest) == Cardinality(Successes(latest)) > 2

recovered(latest) == Cardinality(Successes(latest)) >= 2

(***************************************************************************)
(* persist_status: the incident flag it stores, given the flag it read.    *)
(***************************************************************************)
\* Mutant: an incident that is open already is opened again.
OpensAgain(new_status, incident_open, enabled_points, latest) ==
  new_status # "disabled" /\ all_points_down(enabled_points, latest)

Opens(new_status, incident_open, enabled_points, latest) ==
  /\ new_status # "disabled"
  /\ all_points_down(enabled_points, latest)
  /\ ~ incident_open

Closes(new_status, incident_open, latest) ==
  /\ new_status # "disabled"
  /\ recovered(latest)
  /\ incident_open

persist_incident(new_status, incident_open, enabled_points, latest) ==
  \/ Opens(new_status, incident_open, enabled_points, latest)
  \/ /\ incident_open
     /\ new_status # "disabled"
     /\ ~ Closes(new_status, incident_open, latest)

persist_action(new_status, incident_open, enabled_points, latest) ==
  IF Opens(new_status, incident_open, enabled_points, latest) THEN "down"
  ELSE IF Closes(new_status, incident_open, latest) THEN "up" ELSE "none"
=============================================================================
