---------------------------- MODULE ExitIpProofs ----------------------------
(***************************************************************************)
(* The type invariant of ExitIp and the agreement of the ownership         *)
(* information and of its date with the address above them, for any nodes, *)
(* points and addresses, any windows and any time a refresh may take up to *)
(* the one after which ownership information is refreshed.                 *)
(***************************************************************************)
EXTENDS ExitIp, TLAPS

\* The type of one row (XrayNode in models.py).
LEMMA RowType ==
  ASSUME NEW r \in Row
  PROVE  /\ r.active \in BOOLEAN
         /\ r.exit_ip \in Ips \union {NoIp}
         /\ r.owner \in Ips \union {NoIp}
         /\ r.info_age \in 0 .. Never
         /\ Cleared(r) \in Row
         /\ Cleared(r).owner = NoIp
         /\ Cleared(r).exit_ip = NoIp
         /\ Cleared(r).info_age = Never
<1>1. Never \in 0 .. Never
  BY ExitIpAssumption DEF Never
<1>2. /\ r.active \in BOOLEAN
      /\ r.exit_ip \in Ips \union {NoIp}
      /\ r.owner \in Ips \union {NoIp}
      /\ r.info_age \in 0 .. Never
  BY DEF Row
<1> DEFINE r1 == [r EXCEPT !.exit_ip = NoIp]
           r2 == [r1 EXCEPT !.owner = NoIp]
           r3 == [r2 EXCEPT !.info_age = Never]
<1>3. r1 \in Row /\ r1.exit_ip = NoIp
  BY DEF Row
<1> HIDE DEF r1
<1>4. r2 \in Row /\ r2.owner = NoIp /\ r2.exit_ip = NoIp
  BY <1>3 DEF Row
<1> HIDE DEF r2
<1>5. r3 \in Row /\ r3.owner = NoIp /\ r3.exit_ip = NoIp /\ r3.info_age = Never
  BY <1>1, <1>4 DEF Row
<1>6. Cleared(r) = r3
  BY DEF Cleared, r1, r2
<1> QED
  BY <1>2, <1>5, <1>6

\* The row of a new or edited node is a row.
LEMMA NewRowType == NewRow \in Row
BY ExitIpAssumption DEF NewRow, Row, Never

\* A row keeps its type when an address or a date is put into it.
LEMMA RowUpdates ==
  ASSUME NEW r \in Row, NEW ip \in Ips \union {NoIp}, NEW age \in 0 .. Never,
         NEW active \in BOOLEAN
  PROVE  /\ [r EXCEPT !.exit_ip = ip] \in Row
         /\ [r EXCEPT !.info_age = age] \in Row
         /\ [r EXCEPT !.active = active] \in Row
         /\ [r EXCEPT !.owner = ip, !.info_age = age] \in Row
BY DEF Row

\* Time keeps the type of a report: it grows older until it is forgotten.
LEMMA OlderType ==
  ASSUME NEW r \in Report
  PROVE  Older(r) \in Report
<1>1. Forgotten \in Nat \ {0}
  BY ExitIpAssumption DEF Forgotten
<1> QED
  BY <1>1 DEF Older, Report, NoReport

\* NoReport is one of the reports.
LEMMA NoReportType == NoReport \in Report
BY DEF NoReport, Report

\* What consensus_proxy_ip chooses is an address that some point has seen.
LEMMA ChoiceType ==
  ASSUME results \in [Nodes -> [Points -> Report]], enabled_points \subseteq Points,
         NEW n \in Nodes, NEW wait,
         NEW ip \in consensus_proxy_ip(latest_fresh_results(n, wait))
  PROVE  ip \in Ips
<1> DEFINE latest == latest_fresh_results(n, wait)
<1>1. ip \in Seen(latest)
  BY DEF consensus_proxy_ip
<1>2. PICK q \in DOMAIN latest : ip = latest[q].ip /\ ip # NoIp
  BY <1>1 DEF Seen
<1>3. q \in Points /\ latest[q] = results[n][q]
  BY <1>2 DEF latest_fresh_results
<1>4. results[n][q] \in Report
  BY <1>3
<1> QED
  BY <1>2, <1>3, <1>4 DEF Report

\* The refresh between two nodes has a type, whatever is still to do.
LEMMA LoopingType ==
  ASSUME NEW todo \in SUBSET Nodes
  PROVE  /\ Looping(todo) \in Refreshing
         /\ Looping(todo).pc = "loop"
         /\ Looping(todo).node = NoNode
         /\ Idle \in Refreshing
         /\ Idle.pc = "idle"
         /\ Idle.node = NoNode
<1> DEFINE l(s) == Looping(s)
<1>1. ASSUME NEW s \in SUBSET Nodes
      PROVE  l(s) \in Refreshing /\ l(s).pc = "loop" /\ l(s).node = NoNode
  BY ExitIpAssumption DEF Looping, Refreshing
<1> HIDE DEF l
<1>2. Idle = [l({}) EXCEPT !.pc = "idle"] /\ l({}) \in Refreshing /\ l({}).node = NoNode
  BY <1>1 DEF Idle, l
<1>3. Idle \in Refreshing /\ Idle.pc = "idle" /\ Idle.node = NoNode
  BY <1>2 DEF Refreshing
<1> QED
  BY <1>1, <1>3 DEF l

\* The initial columns are in their types.
LEMMA InitType == Init => TypeOK
BY LoopingType, NoReportType DEF Init, TypeOK

\* Returning to the loop, and abandoning the round, keep the type.
LEMMA ContinueType ==
  ASSUME TypeOK, Continue \/ refresh' = Idle
  PROVE  /\ refresh' \in Refreshing
         /\ refresh'.pc \in {"loop", "idle"}
<1>1. refresh.todo \in SUBSET Nodes
  BY DEF TypeOK, Refreshing
<1> QED
  BY <1>1, LoopingType DEF Continue

\* Every step of the scheduler and of the workers keeps the columns in their types.
LEMMA TypeStep == TypeOK /\ [Next]_vars => TypeOK'
<1> SUFFICES ASSUME TypeOK, [Next]_vars
             PROVE  TypeOK'
  OBVIOUS
<1> USE DEF TypeOK
<1>1. CASE RefreshAll
  <2>1. {n \in Nodes : Present(n) /\ row[n].active} \in SUBSET Nodes
    OBVIOUS
  <2> QED
    BY <1>1, <2>1, LoopingType DEF RefreshAll
<1>2. CASE RoundDone
  BY <1>2, LoopingType DEF RoundDone
<1>3. ASSUME NEW n \in Nodes, LoadRow(n)
      PROVE  TypeOK'
  <2>1. row[n] \in Row
    BY <1>3 DEF LoadRow, Present
  <2>2. row[n].exit_ip \in Ips \union {NoIp}
    BY <2>1, RowType
  <2>3. Due(row[n]) \in BOOLEAN
    BY DEF Due
  <2>4. refresh.todo \ {n} \in SUBSET Nodes
    BY DEF Refreshing
  <2>5. Looping(refresh.todo \ {n}) \in Refreshing
    BY <2>4, LoopingType
  <2>6. refresh' \in Refreshing /\ refresh'.pc = "select" /\ refresh'.node = n
    BY <1>3, <2>2, <2>3, <2>5 DEF LoadRow, Refreshing
  <2> QED
    BY <1>3, <2>6 DEF LoadRow
<1>4. CASE SelectIp
  <2>1. refresh.node \in Nodes
    BY <1>4 DEF SelectIp, At
  <2>2. ASSUME NEW ip \in consensus_proxy_ip(latest_fresh_results(refresh.node, refresh.wait)),
               NEW pc \in {"store", "lookup"},
               refresh' = [refresh EXCEPT !.pc = pc, !.ip = ip]
        PROVE  TypeOK'
    <3>1. ip \in Ips
      BY <2>1, ChoiceType
    <3>2. refresh' \in Refreshing /\ refresh'.node = refresh.node /\ refresh'.ip = ip
      BY <2>2, <3>1 DEF Refreshing
    <3> QED
      BY <1>4, <2>1, <3>1, <3>2 DEF SelectIp
  <2>3. CASE Continue
    BY <1>4, <2>3, ContinueType DEF SelectIp
  <2> QED
    BY <1>4, <2>2, <2>3 DEF SelectIp
<1>5. CASE StoreExitIp
  <2>1. refresh.node \in Nodes /\ refresh.ip \in Ips
    BY <1>5 DEF StoreExitIp, At
  <2>2. row[refresh.node] \in Row
    BY <1>5, <2>1 DEF StoreExitIp, Present
  <2>3. [Cleared(row[refresh.node]) EXCEPT !.exit_ip = refresh.ip] \in Row
    BY <2>1, <2>2, RowType DEF Row
  <2>4. row' \in [Nodes -> Row \union {NoRow}]
    BY <1>5, <2>1, <2>3 DEF StoreExitIp
  <2>5. refresh' \in Refreshing /\ refresh'.node = refresh.node /\ refresh'.ip = refresh.ip
    BY <1>5 DEF StoreExitIp, Refreshing
  <2> QED
    BY <1>5, <2>1, <2>4, <2>5 DEF StoreExitIp
<1>6. ASSUME StampRow, At("lookup")
      PROVE  /\ row' \in [Nodes -> Row \union {NoRow}]
             /\ asked' \in [Nodes -> Ips \union {NoIp}]
  <2>0. asked' \in [Nodes -> Ips \union {NoIp}]
    BY <1>6 DEF StampRow, At
  <2>1. refresh.wait \in 0 .. Never
    BY ExitIpAssumption DEF Refreshing, Never
  <2>2. CASE Present(refresh.node) /\ refresh.node \in Nodes
    <3>1. row[refresh.node] \in Row
      BY <2>2 DEF Present
    <3>2. [row[refresh.node] EXCEPT !.info_age = refresh.wait] \in Row
      BY <2>1, <3>1 DEF Row
    <3> QED
      BY <1>6, <2>0, <2>2, <3>2 DEF StampRow
  <2> QED
    BY <1>6, <2>0, <2>2 DEF StampRow
<1>7. CASE NotPublic
  BY <1>6, <1>7, ContinueType DEF NotPublic
<1>8. CASE LookupFails
  BY <1>6, <1>8, ContinueType DEF LookupFails
<1>9. ASSUME NEW owner \in Ips \union {NoIp}, LookupAnswers(owner)
      PROVE  TypeOK'
  <2>1. refresh.wait \in 0 .. Never
    BY ExitIpAssumption DEF Refreshing, Never
  <2>2. refresh.node \in Nodes
    BY <1>9 DEF LookupAnswers, At
  <2>3. row' \in [Nodes -> Row \union {NoRow}]
    <3>1. CASE Present(refresh.node)
      <4>1. row[refresh.node] \in Row
        BY <2>2, <3>1 DEF Present
      <4>2. [row[refresh.node] EXCEPT !.owner = owner, !.info_age = refresh.wait] \in Row
        BY <2>1, <4>1, RowUpdates
      <4> QED
        BY <1>9, <2>2, <4>2 DEF LookupAnswers, StoreOwner
    <3> QED
      BY <1>9, <3>1 DEF LookupAnswers, StoreOwner
  <2>4. asked' \in [Nodes -> Ips \union {NoIp}]
    BY <1>9 DEF LookupAnswers, StoreOwner, At
  <2> QED
    BY <1>9, <2>3, <2>4, ContinueType DEF LookupAnswers
<1>10. CASE Abandon
  BY <1>10, ContinueType DEF Abandon
<1>11. ASSUME NEW n \in Nodes, AddNode(n)
       PROVE  TypeOK'
  BY <1>11, NewRowType DEF AddNode
<1>12. CASE EditSave
  <2>1. form.pc # "none"
    BY <1>12 DEF EditSave
  <2>2. form \in [pc : {"loaded", "saved"}, node : Nodes]
    BY <2>1 DEF NoForm
  <2>3. form' \in [pc : {"loaded", "saved"}, node : Nodes] \union {NoForm}
    BY <1>12, <2>2 DEF EditSave
  <2>4. row' \in [Nodes -> Row \union {NoRow}]
    BY <1>12, <2>2, NewRowType DEF EditSave
  <2> QED
    BY <1>12, <2>3, <2>4 DEF EditSave
<1>13. CASE EditClear
  BY <1>13, NoReportType DEF EditClear
<1>20. ASSUME NEW n \in Nodes, EditLoad(n)
       PROVE  TypeOK'
  BY <1>20 DEF EditLoad
<1>14. ASSUME NEW n \in Nodes, NEW active \in BOOLEAN, NEW changed \in BOOLEAN,
              Synchronize(n, active, changed)
       PROVE  TypeOK'
  <2> DEFINE r == IF changed THEN Cleared(row[n]) ELSE row[n]
  <2>1. r \in Row
    BY <1>14, RowType DEF Synchronize, Present
  <2>2. row' = [row EXCEPT ![n] = [r EXCEPT !.active = active]]
    BY <1>14 DEF Synchronize
  <2> HIDE DEF r
  <2>3. [r EXCEPT !.active = active] \in Row
    BY <2>1 DEF Row
  <2> QED
    BY <1>14, <2>2, <2>3 DEF Synchronize
<1>15. ASSUME NEW n \in Nodes, DeleteNode(n)
       PROVE  TypeOK'
  BY <1>15, NoReportType DEF DeleteNode
<1>16. ASSUME NEW q \in Points, SavePoint(q)
       PROVE  TypeOK'
  BY <1>16 DEF SavePoint
<1>17. ASSUME NEW n \in Nodes, NEW q \in Points, NEW ip \in Ips \union {NoIp},
              SaveResult(n, q, ip)
       PROVE  TypeOK'
  <2>1. (IF ip = NoIp THEN NoReport ELSE [ip |-> ip, age |-> 0]) \in Report
    BY ExitIpAssumption, NoReportType DEF Report, Forgotten
  <2>2. results' \in [Nodes -> [Points -> Report]]
    BY <1>17, <2>1 DEF SaveResult
  <2> QED
    BY <1>17, <2>2 DEF SaveResult
<1>18. CASE Tick
  <2>1. results' \in [Nodes -> [Points -> Report]]
    BY <1>18, OlderType DEF Tick
  <2>2. row' \in [Nodes -> Row \union {NoRow}]
    <3>1. ASSUME NEW n \in Nodes
          PROVE  row'[n] \in Row \union {NoRow}
      <4>1. CASE Present(n) /\ row[n].info_age # Never
        <5>1. row[n] \in Row
          BY <4>1 DEF Present
        <5>2. row[n].info_age \in 0 .. Never /\ Never \in Nat
          BY <5>1, RowType, ExitIpAssumption DEF Never
        <5> DEFINE age == IF row[n].info_age + 1 < Never THEN row[n].info_age + 1
                                                         ELSE row[n].info_age
        <5>3. age \in 0 .. Never
          BY <5>2
        <5>4. row'[n] = [row[n] EXCEPT !.info_age = age]
          BY <1>18, <4>1 DEF Tick
        <5> HIDE DEF age
        <5> QED
          BY <5>1, <5>3, <5>4 DEF Row
      <4> QED
        BY <1>18, <4>1 DEF Tick
    <3> QED
      BY <1>18, <3>1 DEF Tick
  <2>3. /\ refresh' \in Refreshing
        /\ refresh'.pc = refresh.pc
        /\ refresh'.node = refresh.node
        /\ refresh'.ip = refresh.ip
    <3>1. CASE refresh.node = NoNode
      BY <1>18, <3>1 DEF Tick
    <3>2. CASE refresh.node # NoNode
      <4>1. refresh.wait + 1 \in 0 .. MaxWait
        BY <1>18, <3>2, ExitIpAssumption DEF Tick, Refreshing
      <4>2. refresh' = [refresh EXCEPT !.wait = refresh.wait + 1]
        BY <1>18, <3>2 DEF Tick
      <4> QED
        BY <4>1, <4>2 DEF Refreshing
    <3> QED
      BY <3>1, <3>2
  <2> QED
    BY <1>18, <2>1, <2>2, <2>3 DEF Tick
<1>19. CASE UNCHANGED vars
  BY <1>19 DEF vars
<1> QED
  BY <1>1, <1>2, <1>3, <1>4, <1>5, <1>7, <1>8, <1>9, <1>10, <1>11, <1>12, <1>13,
     <1>14, <1>15, <1>16, <1>17, <1>18, <1>19, <1>20 DEF Next, RefreshStep, Operator

\* The columns of a node, its reports and the refresh keep their types, for all
\* values of the constants.
THEOREM ExitIpTypeCorrect == Spec => []TypeOK
<1>1. Init => TypeOK
  BY InitType
<1>2. TypeOK /\ [Next]_vars => TypeOK'
  BY TypeStep
<1> QED
  BY <1>1, <1>2, PTL DEF Spec

-----------------------------------------------------------------------------
(* The ownership information is that of the address *)

\* What OwnerIsOfExitIp says of one row.
Owned(r) == r.owner # NoIp => r.owner = r.exit_ip /\ r.info_age # Never

\* The time a refresh has taken is less than any date that stands for no date.
LEMMA WaitIsDate ==
  ASSUME TypeOK
  PROVE  refresh.wait # Never
BY ExitIpAssumption DEF TypeOK, Refreshing, Never

\* A row without its owner, and one that only gets a date, are as they should be.
LEMMA OwnedUpdates ==
  ASSUME NEW r \in Row
  PROVE  /\ Owned(Cleared(r))
         /\ \A ip \in Ips : Owned([Cleared(r) EXCEPT !.exit_ip = ip])
         /\ \A age \in 0 .. Never :
              Owned(r) /\ age # Never => Owned([r EXCEPT !.info_age = age])
         /\ \A active \in BOOLEAN : Owned(r) => Owned([r EXCEPT !.active = active])
<1>1. Cleared(r) \in Row /\ Cleared(r).owner = NoIp
  BY RowType
<1>2. ASSUME NEW ip \in Ips
      PROVE  [Cleared(r) EXCEPT !.exit_ip = ip].owner = NoIp
  BY <1>1 DEF Row
<1>3. ASSUME NEW age \in 0 .. Never
      PROVE  /\ [r EXCEPT !.info_age = age].owner = r.owner
             /\ [r EXCEPT !.info_age = age].exit_ip = r.exit_ip
             /\ [r EXCEPT !.info_age = age].info_age = age
  BY DEF Row
<1>4. ASSUME NEW active \in BOOLEAN
      PROVE  /\ [r EXCEPT !.active = active].owner = r.owner
             /\ [r EXCEPT !.active = active].exit_ip = r.exit_ip
             /\ [r EXCEPT !.active = active].info_age = r.info_age
  BY DEF Row
<1> QED
  BY <1>1, <1>2, <1>3, <1>4 DEF Owned

\* Every step keeps the owner of a row the one of its address.
LEMMA OwnerStep == TypeOK /\ OwnerIsOfExitIp /\ [Next]_vars => OwnerIsOfExitIp'
<1> SUFFICES ASSUME TypeOK, OwnerIsOfExitIp, [Next]_vars,
                    NEW n \in Nodes, row'[n] # NoRow
             PROVE  Owned(row'[n])
  BY DEF OwnerIsOfExitIp, Present, Owned
<1>1. row \in [Nodes -> Row \union {NoRow}] /\ row' \in [Nodes -> Row \union {NoRow}]
  BY TypeStep DEF TypeOK
<1>2. row'[n] = row[n] => row[n] \in Row /\ Owned(row[n])
  BY <1>1 DEF OwnerIsOfExitIp, Present, Owned
<1>3. Present(n) => row[n] \in Row /\ Owned(row[n])
  BY <1>1 DEF OwnerIsOfExitIp, Present, Owned
<1>4. row' = row => Owned(row'[n])
  BY <1>2
<1>5. ASSUME StoreExitIp
      PROVE  Owned(row'[n])
  <2>1. refresh.ip \in Ips /\ refresh.node \in Nodes
    BY <1>5 DEF StoreExitIp, At, TypeOK
  <2>2. CASE n = refresh.node
    <3>1. row'[n] = [Cleared(row[n]) EXCEPT !.exit_ip = refresh.ip]
      BY <1>1, <1>5, <2>2 DEF StoreExitIp
    <3> QED
      BY <1>3, <1>5, <2>1, <2>2, <3>1, OwnedUpdates DEF StoreExitIp
  <2> QED
    BY <1>1, <1>2, <1>5, <2>2 DEF StoreExitIp
<1>6. ASSUME StampRow
      PROVE  Owned(row'[n])
  <2>1. refresh.wait \in 0 .. Never /\ refresh.wait # Never
    BY ExitIpAssumption, WaitIsDate DEF TypeOK, Refreshing, Never
  <2>2. CASE n = refresh.node /\ Present(n)
    <3>1. row'[n] = [row[n] EXCEPT !.info_age = refresh.wait]
      BY <1>1, <1>6, <2>2 DEF StampRow
    <3> QED
      BY <1>3, <2>1, <2>2, <3>1, OwnedUpdates
  <2> QED
    BY <1>1, <1>2, <1>6, <2>2 DEF StampRow
<1>7. ASSUME NEW owner \in Ips \union {NoIp}, LookupAnswers(owner)
      PROVE  Owned(row'[n])
  <2>1. refresh.wait # Never
    BY WaitIsDate
  <2>2. CASE n = refresh.node /\ Present(n) /\ row[n].exit_ip = refresh.ip
    <3>1. row'[n] = [row[n] EXCEPT !.owner = owner, !.info_age = refresh.wait]
      BY <1>1, <1>7, <2>2 DEF LookupAnswers, StoreOwner
    <3>2. row'[n].owner = owner /\ row'[n].info_age = refresh.wait
          /\ row'[n].exit_ip = row[n].exit_ip
      BY <1>3, <2>2, <3>1 DEF Row
    <3> QED
      BY <1>7, <2>1, <2>2, <3>2 DEF LookupAnswers, Owned
  <2> QED
    BY <1>1, <1>2, <1>7, <2>2 DEF LookupAnswers, StoreOwner
<1>8. ASSUME NEW m \in Nodes, AddNode(m)
      PROVE  Owned(row'[n])
  <2>1. n = m => row'[n].owner = NoIp
    BY <1>1, <1>8 DEF AddNode, NewRow
  <2> QED
    BY <1>1, <1>2, <1>8, <2>1 DEF AddNode, Owned
<1>9. CASE EditSave
  <2>1. row'[n] # row[n] => row'[n].owner = NoIp
    BY <1>1, <1>9 DEF EditSave, NewRow
  <2> QED
    BY <1>2, <2>1 DEF Owned
<1>10. ASSUME NEW m \in Nodes, NEW active \in BOOLEAN, NEW changed \in BOOLEAN,
              Synchronize(m, active, changed)
       PROVE  Owned(row'[n])
  <2>1. CASE n = m
    <3> DEFINE r == IF changed THEN Cleared(row[n]) ELSE row[n]
    <3>1. r \in Row /\ Owned(r)
      BY <1>3, <1>10, <2>1, RowType, OwnedUpdates DEF Synchronize
    <3>2. row'[n] = [r EXCEPT !.active = active]
      BY <1>1, <1>10, <2>1 DEF Synchronize
    <3> HIDE DEF r
    <3> QED
      BY <3>1, <3>2, OwnedUpdates
  <2> QED
    BY <1>1, <1>2, <1>10, <2>1 DEF Synchronize
<1>11. ASSUME NEW m \in Nodes, DeleteNode(m)
       PROVE  Owned(row'[n])
  <2>1. row'[n] # row[n] => row'[n] = NoRow
    BY <1>1, <1>11 DEF DeleteNode
  <2> QED
    BY <1>2, <2>1
<1>12. CASE Tick
  <2>1. CASE ~ Present(n) \/ row[n].info_age = Never
    BY <1>2, <1>12, <2>1 DEF Tick
  <2>2. CASE Present(n) /\ row[n].info_age # Never
    <3> DEFINE age == IF row[n].info_age + 1 < Never THEN row[n].info_age + 1
                                                     ELSE row[n].info_age
    <3>1. row[n].info_age \in 0 .. Never /\ Never \in Nat
      BY <1>3, <2>2, RowType, ExitIpAssumption DEF Never
    <3>2. age \in 0 .. Never /\ age # Never
      BY <2>2, <3>1
    <3>3. row'[n] = [row[n] EXCEPT !.info_age = age]
      BY <1>12, <2>2 DEF Tick
    <3> HIDE DEF age
    <3> QED
      BY <1>3, <2>2, <3>2, <3>3, OwnedUpdates
  <2> QED
    BY <2>1, <2>2
<1>13. CASE RefreshStep
  BY <1>4, <1>5, <1>6, <1>7, <1>13
  DEF RefreshStep, RefreshAll, RoundDone, LoadRow, SelectIp, NotPublic, LookupFails,
      Abandon
<1>14. CASE Operator
  BY <1>4, <1>8, <1>9, <1>10, <1>11, <1>14 DEF Operator, EditLoad, EditClear, SavePoint
<1> QED
  BY <1>4, <1>12, <1>13, <1>14 DEF Next, SaveResult, vars

\* The country and company that a card shows are those of the address above them,
\* however a lookup, edits, synchronizations and time interleave, provided a
\* refresh of a node takes no longer than IP_INFO_REFRESH_INTERVAL.
THEOREM OwnerOfExitIp == Spec => []OwnerIsOfExitIp
<1>1. Init => TypeOK /\ OwnerIsOfExitIp
  BY InitType DEF Init, OwnerIsOfExitIp, Present
<1>2. (TypeOK /\ OwnerIsOfExitIp) /\ [Next]_vars => (TypeOK /\ OwnerIsOfExitIp)'
  BY TypeStep, OwnerStep
<1> QED
  BY <1>1, <1>2, PTL DEF Spec

-----------------------------------------------------------------------------
(* The date is that of the address *)

\* What DateIsOfExitIp says of one row and the address its date is of.
Dated(r, ip) == r.exit_ip # NoIp /\ r.info_age # Never => ip = r.exit_ip

\* While an address is asked about, the row shows it or none: others change the
\* address only by clearing it, and one that differs from it was stored before.
AskedIsShown ==
  Present(refresh.node) =>
    /\ At("select") => row[refresh.node].exit_ip \in {refresh.shown, NoIp}
    /\ At("lookup") => row[refresh.node].exit_ip \in {refresh.ip, NoIp}

\* How the workers and time change a row: it is new or cleared, or it keeps its
\* address and whether it has a date.
Kept(n) ==
  row'[n] # NoRow =>
    \/ row'[n].exit_ip = NoIp
    \/ /\ Present(n)
       /\ row'[n].exit_ip = row[n].exit_ip
       /\ row[n].info_age = Never => row'[n].info_age = Never

\* A worker's step and a tick keep every row in this sense, and the refresh
\* apart from its clock.
LEMMA WorkersKeep ==
  ASSUME TypeOK, TypeOK', Operator \/ Tick
  PROVE  /\ \A n \in Nodes : Kept(n)
         /\ asked' = asked
         /\ refresh'.pc = refresh.pc /\ refresh'.node = refresh.node
         /\ refresh'.shown = refresh.shown /\ refresh'.ip = refresh.ip
<1>1. \A n \in Nodes : Present(n) => row[n] \in Row
  BY DEF TypeOK, Present
<1>2. row \in [Nodes -> Row \union {NoRow}]
  BY DEF TypeOK
<1>3. ASSUME row' = row, NEW n \in Nodes
      PROVE  Kept(n)
  BY <1>3 DEF Kept, Present
<1>4. ASSUME NEW m \in Nodes, AddNode(m), NEW n \in Nodes
      PROVE  Kept(n)
  BY <1>2, <1>4 DEF AddNode, NewRow, Kept, Present
<1>5. ASSUME EditSave, NEW n \in Nodes
      PROVE  Kept(n)
  BY <1>2, <1>5 DEF EditSave, NewRow, Kept, Present
<1>6. ASSUME NEW m \in Nodes, DeleteNode(m), NEW n \in Nodes
      PROVE  Kept(n)
  BY <1>2, <1>6 DEF DeleteNode, Kept, Present
<1>7. ASSUME NEW m \in Nodes, NEW active \in BOOLEAN, NEW changed \in BOOLEAN,
             Synchronize(m, active, changed), NEW n \in Nodes
      PROVE  Kept(n)
  <2>1. CASE n = m
    <3> DEFINE r == IF changed THEN Cleared(row[n]) ELSE row[n]
    <3>1. Present(n) /\ row[n] \in Row
      BY <1>1, <1>7, <2>1 DEF Synchronize
    <3>2. r \in Row /\ (r.exit_ip = NoIp \/ r = row[n])
      BY <3>1, RowType
    <3>3. row'[n] = [r EXCEPT !.active = active]
      BY <1>2, <1>7, <2>1 DEF Synchronize
    <3> HIDE DEF r
    <3>4. row'[n].exit_ip = r.exit_ip /\ row'[n].info_age = r.info_age
      BY <3>2, <3>3 DEF Row
    <3> QED
      BY <3>1, <3>2, <3>4 DEF Kept
  <2> QED
    BY <1>2, <1>7, <2>1 DEF Synchronize, Kept, Present
<1>8. ASSUME Tick, NEW n \in Nodes
      PROVE  Kept(n)
  <2>1. CASE ~ Present(n) \/ row[n].info_age = Never
    BY <1>8, <2>1 DEF Tick, Kept, Present
  <2>2. CASE Present(n) /\ row[n].info_age # Never
    <3> DEFINE age == IF row[n].info_age + 1 < Never THEN row[n].info_age + 1
                                                     ELSE row[n].info_age
    <3>1. row'[n] = [row[n] EXCEPT !.info_age = age]
      BY <1>8, <2>2 DEF Tick
    <3>2. row'[n].exit_ip = row[n].exit_ip
      BY <1>1, <2>2, <3>1 DEF Row
    <3> QED
      BY <2>2, <3>2 DEF Kept
  <2> QED
    BY <2>1, <2>2
<1>9. CASE Operator
  BY <1>3, <1>4, <1>5, <1>6, <1>7, <1>9
  DEF Operator, AddNode, EditLoad, EditSave, EditClear, DeleteNode, Synchronize, SavePoint
<1>10. CASE Tick
  <2>1. /\ refresh'.pc = refresh.pc /\ refresh'.node = refresh.node
        /\ refresh'.shown = refresh.shown /\ refresh'.ip = refresh.ip
    BY <1>10 DEF Tick, TypeOK, Refreshing
  <2> QED
    BY <1>8, <1>10, <2>1 DEF Tick
<1> QED
  BY <1>9, <1>10

DateInv == TypeOK /\ DateIsOfExitIp /\ AskedIsShown

\* The step that dates a row, after a lookup or without one, dates the address
\* that the row shows, or a row that shows none.
LEMMA DatedStep ==
  ASSUME DateInv, TypeOK', At("lookup"), Continue,
         \/ StampRow
         \/ \E owner \in Ips \union {NoIp} : StoreOwner(owner)
  PROVE  DateIsOfExitIp' /\ AskedIsShown'
<1>1. refresh.node \in Nodes /\ row \in [Nodes -> Row \union {NoRow}]
      /\ asked \in [Nodes -> Ips \union {NoIp}]
  BY DEF DateInv, TypeOK, At
<1>2. ~ At("select")' /\ ~ At("lookup")'
  BY DEF Continue, Looping, At
<1>3. ASSUME NEW n \in Nodes, row'[n] # NoRow
      PROVE  Dated(row'[n], asked'[n])
  <2>1. CASE n = refresh.node /\ Present(n)
    <3>1. row[n] \in Row /\ row[n].exit_ip \in {refresh.ip, NoIp}
      BY <1>1, <2>1 DEF DateInv, AskedIsShown, Present
    <3>2. row'[n].exit_ip = row[n].exit_ip
      <4>1. CASE StampRow
        <5>1. row'[n] = [row[n] EXCEPT !.info_age = refresh.wait]
          BY <1>1, <2>1, <4>1 DEF StampRow
        <5> QED
          BY <3>1, <5>1 DEF Row
      <4>2. ASSUME NEW owner, StoreOwner(owner)
            PROVE  row'[n].exit_ip = row[n].exit_ip
        <5>1. CASE row[n].exit_ip = refresh.ip
          <6>1. row'[n] = [row[n] EXCEPT !.owner = owner, !.info_age = refresh.wait]
            BY <1>1, <2>1, <4>2, <5>1 DEF StoreOwner
          <6> QED
            BY <3>1, <6>1 DEF Row
        <5> QED
          BY <2>1, <4>2, <5>1 DEF StoreOwner
      <4> QED
        BY <4>1, <4>2
    <3>3. asked'[n] = refresh.ip \/ (asked' = asked /\ row' = row)
      BY <1>1, <2>1 DEF StampRow, StoreOwner
    <3>4. Dated(row[n], asked[n])
      BY <1>1, <2>1 DEF DateInv, DateIsOfExitIp, Dated
    <3> QED
      BY <3>1, <3>2, <3>3, <3>4 DEF Dated
  <2>2. CASE ~ (n = refresh.node /\ Present(n))
    <3>1. row'[n] = row[n] /\ asked'[n] = asked[n]
      BY <1>1, <2>2 DEF StampRow, StoreOwner
    <3> QED
      BY <1>3, <3>1 DEF DateInv, DateIsOfExitIp, Dated, Present
  <2> QED
    BY <2>1, <2>2
<1> QED
  BY <1>2, <1>3 DEF DateIsOfExitIp, AskedIsShown, Dated, Present

\* Every step keeps the date of a row one of the address it shows.
LEMMA DateStep == DateInv /\ [Next]_vars => DateInv'
<1> SUFFICES ASSUME DateInv, [Next]_vars
             PROVE  DateIsOfExitIp' /\ AskedIsShown'
  BY TypeStep DEF DateInv
<1>1. TypeOK /\ TypeOK'
  BY TypeStep DEF DateInv
<1>2. row \in [Nodes -> Row \union {NoRow}] /\ refresh \in Refreshing
  BY <1>1 DEF TypeOK
<1>3. asked' = asked /\ row' = row => DateIsOfExitIp'
  BY DEF DateInv, DateIsOfExitIp, Present
<1>4. refresh'.pc \in {"idle", "loop", "store"} => AskedIsShown'
  BY DEF AskedIsShown, At
<1>5. Continue \/ refresh' = Idle => refresh'.pc \in {"idle", "loop"}
  BY <1>1, ContinueType
<1>6. CASE Operator \/ Tick
  <2>1. /\ \A n \in Nodes : Kept(n)
        /\ asked' = asked
        /\ refresh'.pc = refresh.pc /\ refresh'.node = refresh.node
        /\ refresh'.shown = refresh.shown /\ refresh'.ip = refresh.ip
    BY <1>1, <1>6, WorkersKeep
  <2>2. DateIsOfExitIp'
    BY <2>1 DEF DateInv, DateIsOfExitIp, Kept, Present
  <2>3. refresh.pc \in {"select", "lookup"} => refresh.node \in Nodes
    BY <1>1 DEF TypeOK
  <2>4. AskedIsShown'
    BY <2>1, <2>3 DEF DateInv, AskedIsShown, Kept, Present, At
  <2> QED
    BY <2>2, <2>4
<1>7. CASE RefreshAll \/ RoundDone \/ Abandon
  BY <1>1, <1>2, <1>3, <1>4, <1>5, <1>7, LoopingType
  DEF RefreshAll, RoundDone, Abandon
<1>8. ASSUME NEW n \in Nodes, LoadRow(n)
      PROVE  DateIsOfExitIp' /\ AskedIsShown'
  <2>1. Looping(refresh.todo \ {n}) \in Refreshing
    BY <1>2, LoopingType DEF Refreshing
  <2>2. refresh'.pc = "select" /\ refresh'.node = n /\ refresh'.shown = row[n].exit_ip
    BY <1>8, <2>1 DEF LoadRow, Refreshing
  <2> QED
    BY <1>3, <1>8, <2>2 DEF LoadRow, AskedIsShown, At
<1>9. CASE SelectIp
  <2>1. DateIsOfExitIp'
    BY <1>3, <1>9 DEF SelectIp
  <2>2. ASSUME NEW ip, refresh' = [refresh EXCEPT !.pc = "lookup", !.ip = ip], ~ Differs(ip)
        PROVE  AskedIsShown'
    <3>1. refresh'.pc = "lookup" /\ refresh'.node = refresh.node /\ refresh'.ip = ip
      BY <1>2, <2>2 DEF Refreshing
    <3>2. ip = refresh.shown
      BY <2>2 DEF Differs
    <3> QED
      BY <1>9, <3>1, <3>2 DEF SelectIp, DateInv, AskedIsShown, Present, At
  <2>3. ASSUME NEW ip, refresh' = [refresh EXCEPT !.pc = "store", !.ip = ip]
        PROVE  AskedIsShown'
    BY <1>2, <1>4, <2>3 DEF Refreshing
  <2>4. Continue => AskedIsShown'
    BY <1>4, <1>5
  <2> QED
    BY <1>9, <2>1, <2>2, <2>3, <2>4 DEF SelectIp
<1>10. CASE StoreExitIp
  <2> DEFINE m == refresh.node
  <2>1. m \in Nodes /\ refresh.ip \in Ips /\ row[m] \in Row
    BY <1>1, <1>2, <1>10 DEF StoreExitIp, At, TypeOK, Present
  <2>2. row' = [row EXCEPT ![m] = [Cleared(row[m]) EXCEPT !.exit_ip = refresh.ip]]
    BY <1>10 DEF StoreExitIp
  <2>3. row'[m].exit_ip = refresh.ip /\ row'[m].info_age = Never
    BY <1>2, <2>1, <2>2, RowType DEF Row
  <2>4. \A n \in Nodes \ {m} : row'[n] = row[n]
    BY <1>2, <2>2
  <2>5. refresh'.node = m /\ refresh'.ip = refresh.ip /\ refresh'.pc = "lookup"
    BY <1>2, <1>10 DEF StoreExitIp, Refreshing
  <2>6. asked' = asked
    BY <1>10 DEF StoreExitIp
  <2>7. DateIsOfExitIp'
    BY <2>3, <2>4, <2>6 DEF DateInv, DateIsOfExitIp, Present
  <2> QED
    BY <2>3, <2>5, <2>7 DEF AskedIsShown, At
<1>11. CASE NotPublic \/ LookupFails
  BY <1>1, <1>11, DatedStep DEF NotPublic, LookupFails
<1>12. ASSUME NEW owner \in Ips \union {NoIp}, LookupAnswers(owner)
       PROVE  DateIsOfExitIp' /\ AskedIsShown'
  BY <1>1, <1>12, DatedStep DEF LookupAnswers
<1>13. ASSUME row' = row, asked' = asked, refresh' = refresh
       PROVE  DateIsOfExitIp' /\ AskedIsShown'
  BY <1>3, <1>13 DEF DateInv, AskedIsShown, Present, At
<1> QED
  BY <1>6, <1>7, <1>8, <1>9, <1>10, <1>11, <1>12, <1>13
  DEF Next, RefreshStep, SaveResult, vars

\* The date of a row that shows an address is of a lookup of that address, for
\* any nodes, points, addresses and intervals, and however the refresh, edits,
\* synchronizations, deletions and time interleave: the first lookup of an address
\* never waits for the interval of another (services.py 356-398).
THEOREM DateOfExitIp == Spec => []DateIsOfExitIp
<1>1. Init => DateInv
  BY InitType, LoopingType DEF Init, DateInv, DateIsOfExitIp, AskedIsShown, Present, At
<1>2. DateInv /\ [Next]_vars => DateInv'
  BY DateStep
<1>3. DateInv => DateIsOfExitIp
  BY DEF DateInv
<1> QED
  BY <1>1, <1>2, <1>3, PTL DEF Spec
=============================================================================
