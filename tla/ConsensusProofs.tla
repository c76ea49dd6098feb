-------------------------- MODULE ConsensusProofs --------------------------
(***************************************************************************)
(* Facts about the verdict rules that hold for every finite set of enabled *)
(* points and every choice of fresh reports.                               *)
(***************************************************************************)
EXTENDS Consensus, FiniteSetTheorems, TLAPS

\* The reporting points split into the failing and the succeeding ones, and
\* none of the three sets is larger than the set of enabled points
\* (the sums of consensus_status and persist_status in services.py).
LEMMA ReportSets ==
  ASSUME NEW enabled_points, IsFiniteSet(enabled_points),
         NEW latest, DOMAIN latest \subseteq enabled_points
  PROVE  /\ IsFiniteSet(DOMAIN latest)
         /\ Cardinality(DOMAIN latest) \in Nat
         /\ Cardinality(enabled_points) \in Nat
         /\ Cardinality(DOMAIN latest) <= Cardinality(enabled_points)
         /\ Cardinality(Failures(latest)) \in Nat
         /\ Cardinality(Successes(latest)) \in Nat
         /\ Cardinality(Failures(latest)) + Cardinality(Successes(latest))
              = Cardinality(DOMAIN latest)
<1> DEFINE F == Failures(latest)
           S == Successes(latest)
<1>1. IsFiniteSet(DOMAIN latest)
      /\ Cardinality(DOMAIN latest) <= Cardinality(enabled_points)
  BY FS_Subset
<1>2. F \subseteq DOMAIN latest /\ S \subseteq DOMAIN latest
  BY DEF Failures, Successes
<1>3. IsFiniteSet(F) /\ IsFiniteSet(S)
  BY <1>1, <1>2, FS_Subset
<1>4. F \intersect S = {} /\ F \union S = DOMAIN latest
  BY DEF Failures, Successes
<1>5. Cardinality(F) + Cardinality(S) = Cardinality(DOMAIN latest)
  <2>1. Cardinality(F \union S)
          = Cardinality(F) + Cardinality(S) - Cardinality(F \intersect S)
    BY <1>3, FS_Union
  <2>2. Cardinality(F \intersect S) = 0
    BY <1>4, FS_EmptySet
  <2>3. Cardinality(F) \in Nat /\ Cardinality(S) \in Nat
    BY <1>3, FS_CardinalityType
  <2> HIDE DEF F, S
  <2> QED
    BY <2>1, <2>2, <2>3, <1>4
<1> HIDE DEF F, S
<1>6. /\ Cardinality(DOMAIN latest) \in Nat
      /\ Cardinality(enabled_points) \in Nat
      /\ Cardinality(F) \in Nat
      /\ Cardinality(S) \in Nat
  BY <1>1, <1>3, FS_CardinalityType
<1> QED
  BY <1>1, <1>5, <1>6 DEF F, S

\* A verdict on reports is one of three statuses (consensus_status).
LEMMA VerdictType ==
  ASSUME NEW enabled_points, NEW latest
  PROVE  consensus_status(enabled_points, latest) \in {"unknown", "up", "down"}
BY DEF consensus_status

\* persist_status stores a flag and asks for one of the known announcements.
LEMMA ActionType ==
  ASSUME NEW new_status, NEW incident_open \in BOOLEAN,
         NEW enabled_points, NEW latest
  PROVE  /\ persist_incident(new_status, incident_open, enabled_points, latest)
              \in BOOLEAN
         /\ persist_action(new_status, incident_open, enabled_points, latest)
              \in AnnouncedAction
BY DEF persist_incident, persist_action, AnnouncedAction, Opens, Closes

\* All enabled points failing is also a verdict of down: the condition that
\* opens an incident and the one that shows the target as down are computed
\* separately (consensus_status and all_points_down in services.py).
THEOREM AllFailIsDown ==
  ASSUME NEW enabled_points, IsFiniteSet(enabled_points),
         NEW latest, DOMAIN latest \subseteq enabled_points,
         all_points_down(enabled_points, latest)
  PROVE  consensus_status(enabled_points, latest) = "down"
<1>1. /\ Cardinality(DOMAIN latest) = Cardinality(enabled_points)
      /\ Successes(latest) = {}
      /\ enabled_points # {}
  BY DEF all_points_down
<1>2. Cardinality(Successes(latest)) = 0
  BY <1>1, FS_EmptySet
<1>3. /\ Cardinality(Failures(latest)) = Cardinality(enabled_points)
      /\ Cardinality(enabled_points) \in Nat
  BY <1>1, <1>2, ReportSets
<1>4. Cardinality(enabled_points) # 0
  BY <1>1, FS_EmptySet
<1> QED
  BY <1>1, <1>3, <1>4 DEF consensus_status

\* With at most three enabled points, two successes leave room for one failure
\* at most, so what closes an incident is also a verdict of up.  The bound is
\* needed: two against two is down and recovered at once.
THEOREM RecoveredIsUp ==
  ASSUME NEW enabled_points, IsFiniteSet(enabled_points),
         Cardinality(enabled_points) <= 3,
         NEW latest, DOMAIN latest \subseteq enabled_points,
         recovered(latest)
  PROVE  consensus_status(enabled_points, latest) = "up"
<1>1. Cardinality(Successes(latest)) >= 2
  BY DEF recovered
<1>2. /\ Cardinality(DOMAIN latest) >= 2
      /\ Cardinality(enabled_points) >= 2
      /\ Cardinality(Failures(latest)) <= 1
      /\ Cardinality(DOMAIN latest) \in Nat
      /\ Cardinality(enabled_points) \in Nat
      /\ Cardinality(Failures(latest)) \in Nat
  BY <1>1, ReportSets
<1>3. enabled_points # {}
  BY <1>2, FS_EmptySet
<1> QED
  BY <1>2, <1>3 DEF consensus_status

\* Two against two: with four enabled points, reports that call the target down
\* count as its recovery too, and persist_status closes its incident and announces
\* the recovery in the transaction that stores the status down.
THEOREM FourPointsDisagree ==
  ASSUME NEW enabled_points, IsFiniteSet(enabled_points),
         Cardinality(enabled_points) = 4,
         NEW latest, DOMAIN latest = enabled_points,
         Cardinality(Failures(latest)) = 2
  PROVE  /\ consensus_status(enabled_points, latest) = "down"
         /\ recovered(latest)
         /\ persist_action("down", TRUE, enabled_points, latest) = "up"
<1>1. /\ Cardinality(DOMAIN latest) = 4
      /\ Cardinality(Successes(latest)) \in Nat
      /\ Cardinality(Successes(latest)) + 2 = 4
  BY ReportSets
<1>2. recovered(latest)
  BY <1>1 DEF recovered
<1>3. enabled_points # {}
  BY FS_EmptySet
<1>4. consensus_status(enabled_points, latest) = "down"
  BY <1>1, <1>3 DEF consensus_status
<1>5. persist_action("down", TRUE, enabled_points, latest) = "up"
  BY <1>2 DEF persist_action, Opens, Closes
<1> QED
  BY <1>2, <1>4, <1>5

\* No set of reports both opens and closes an incident.
THEOREM NeverBoth ==
  ASSUME NEW enabled_points, NEW latest,
         all_points_down(enabled_points, latest)
  PROVE  ~ recovered(latest)
<1>1. Cardinality(Successes(latest)) = 0
  BY FS_EmptySet DEF all_points_down
<1> QED
  BY <1>1 DEF recovered
=============================================================================
