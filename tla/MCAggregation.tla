--------------------------- MODULE MCAggregation ---------------------------
(***************************************************************************)
(* Small instances of Aggregation for TLC.                                 *)
(***************************************************************************)
EXTENDS Aggregation, TLC

\* Nothing distinguishes two workers, two points or two monitors.
Symmetry ==
  Permutations(Workers) \union Permutations(Points) \union Permutations(Targets)

\* What the rest of a database that has been in use may still be used for: one
\* monitor and every point, or every monitor and no point.
Scopes == {[targets |-> {CHOOSE m \in Targets : TRUE}, points |-> Points],
           [targets |-> Targets, points |-> {}]}

\* The other rows have been deleted.
LiveInit ==
  \E scope \in Scopes :
    /\ life = [m \in Targets |-> IF m \in scope.targets THEN "unsaved" ELSE "deleted"]
    /\ point = [q \in Points |->
                  IF q \in scope.points THEN "unregistered" ELSE "deleted"]
    /\ enabled = [m \in Targets |-> FALSE]
    /\ status = [m \in Targets |-> "unknown"]
    /\ incident_open = [m \in Targets |-> FALSE]
    /\ results = [m \in Targets |-> [q \in Points |-> NoReport]]
    /\ proc = [p \in Processes |-> Idle]

LiveSpec == LiveInit /\ [][Next]_vars /\ Fairness
=============================================================================
