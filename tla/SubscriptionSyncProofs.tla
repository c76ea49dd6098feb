----------------------- MODULE SubscriptionSyncProofs -----------------------
(***************************************************************************)
(* Type correctness of SubscriptionSync, the quiet of nodes left out, and  *)
(* what a synchronization leaves in the table, for any lists, any number   *)
(* of nodes and of workers.                                                *)
(***************************************************************************)
EXTENDS SubscriptionSync, Extremes, FiniteSetTheorems, TLAPS

\* What a process becomes is a process.
LEMMA ProcessType ==
  ASSUME TypeOK, NEW p \in Processes, NEW r \in Process, Become(p, r),
         r.pc = "node" => r.row \in Rows /\ r.fingerprint \in Fingerprints
  PROVE  /\ proc' \in [Processes -> Process]
         /\ \A x \in Processes :
              At(x, "node")' => /\ proc'[x].row \in Rows
                                /\ proc'[x].fingerprint \in Fingerprints
<1>1. proc' = [proc EXCEPT ![p] = r] /\ proc \in [Processes -> Process]
  BY DEF Become, TypeOK
<1>2. \A x \in Processes : proc'[x] = IF x = p THEN r ELSE proc[x]
  BY <1>1
<1> QED
  BY <1>1, <1>2 DEF TypeOK, At

\* Every Idle process, and every one that has fetched a list.
LEMMA IdleType ==
  /\ Idle \in Process
  /\ Idle.pc = "idle"
  /\ \A nodes \in Feeds : [Idle EXCEPT !.pc = "save", !.nodes = nodes] \in Process
BY DEF Idle, Process

\* A row that is written over by a fetched entry is a node.
LEMMA OverwriteType ==
  ASSUME TypeOK, NEW n \in Rows, NEW e \in Entry
  PROVE  Overwrite(n, e) \in Node
<1>1. (n \in DOMAIN node /\ node[n].incident_open) \in BOOLEAN
  OBVIOUS
<1>2. e.fingerprint \in Fingerprints /\ e.name \in Names
  BY DEF Entry
<1> QED
  BY <1>1, <1>2 DEF Overwrite, Node

\* A row that is left out is a node that is quiet.
LEMMA LeaveOutQuiet ==
  ASSUME TypeOK, NEW n \in DOMAIN node
  PROVE  /\ LeaveOut(n) \in Node
         /\ LeaveOut(n).status = "disabled"
         /\ LeaveOut(n).incident_open = FALSE
BY DEF TypeOK, LeaveOut, Node

\* No row is matched twice.
LEMMA MatchingInjective ==
  ASSUME NEW nodes \in Seq(Entry), NEW m \in Matchings(nodes)
  PROVE  \A i, j \in DOMAIN m : m[i] = m[j] => i = j
<1>1. /\ m \in [DOMAIN nodes -> Rows]
      /\ \A i \in DOMAIN nodes : m[i] \in RowFor(nodes, m, i)
  BY DEF Matchings
<1>2. DOMAIN nodes = 1 .. Len(nodes) /\ Len(nodes) \in Nat
  OBVIOUS
<1>3. ASSUME NEW i \in DOMAIN nodes, NEW j \in DOMAIN nodes, i < j
      PROVE  m[i] # m[j]
  <2> DEFINE earlier == {m[k] : k \in 1 .. j - 1}
  <2>1. RowFor(nodes, m, j) \cap earlier = {}
    <3>1. Unused(m, j) \cap earlier = {}
      BY DEF Unused
    <3>2. Inserted(m, j) \cap earlier = {}
      BY DEF Inserted
    <3> HIDE DEF earlier
    <3>3. ByFingerprint(Unused(m, j), nodes[j]) \cap earlier = {}
      BY <3>1 DEF ByFingerprint
    <3>4. ByIdentity(Unused(m, j), nodes, nodes[j]) \cap earlier = {}
      BY <3>1 DEF ByIdentity
    <3> QED
      BY <3>2, <3>3, <3>4 DEF RowFor, Prefer
  <2>2. i \in 1 .. j - 1
    BY <1>2, <1>3
  <2>3. m[i] \in earlier
    BY <2>2
  <2> HIDE DEF earlier
  <2> QED
    BY <1>1, <2>1, <2>3
<1>4. ASSUME NEW i \in DOMAIN nodes, NEW j \in DOMAIN nodes, m[i] = m[j]
      PROVE  i = j
  <2>1. ~ (i < j) /\ ~ (j < i)
    BY <1>3, <1>4
  <2> QED
    BY <1>2, <2>1
<1> QED
  BY <1>1, <1>4

\* A row that is the only one with its fingerprint, and whose name no earlier
\* entry has, goes to the first entry with the fingerprint.
LEMMA FirstEntryTakesRow ==
  ASSUME NEW nodes \in Seq(Entry), NEW m \in Matchings(nodes),
         NEW n \in DOMAIN node, Recognised(n, nodes), ~ Contested(n, nodes)
  PROVE  \E i \in DOMAIN nodes :
           m[i] = n /\ nodes[i].fingerprint = node[n].fingerprint
<1> DEFINE places == {i \in DOMAIN nodes : nodes[i].fingerprint = node[n].fingerprint}
<1>1. \A i \in DOMAIN nodes : m[i] \in RowFor(nodes, m, i)
  BY DEF Matchings
<1>2. DOMAIN nodes = 1 .. Len(nodes) /\ Len(nodes) \in Nat
  OBVIOUS
<1>3. places \in SUBSET Nat /\ places # {}
  BY <1>2 DEF Recognised
<1>4. PICK i \in places : \A j \in places : i <= j
  BY <1>3, LeastExists
<1>5. ASSUME NEW k \in 1 .. i - 1
      PROVE  /\ k \in DOMAIN nodes
             /\ nodes[k].fingerprint # node[n].fingerprint
  <2>1. k \in DOMAIN nodes /\ ~ (i <= k)
    BY <1>2, <1>4
  <2> QED
    BY <1>4, <2>1
<1>6. ASSUME NEW k \in 1 .. i - 1
      PROVE  nodes[k].name # node[n].name
  <2>1. \A l \in 1 .. k : l \in 1 .. i - 1
    BY <1>2, <1>4
  <2>2. \A l \in 1 .. k : nodes[l].fingerprint # node[n].fingerprint
    BY <1>5, <2>1
  <2> QED
    BY <1>5, <2>2 DEF Contested
<1>7. ASSUME NEW k \in 1 .. i - 1
      PROVE  m[k] # n
  <2>1. m[k] \in RowFor(nodes, m, k)
    BY <1>1, <1>5
  <2>2. n \notin ByFingerprint(Unused(m, k), nodes[k])
    BY <1>5 DEF ByFingerprint
  <2>3. n \notin ByIdentity(Unused(m, k), nodes, nodes[k])
    BY <1>6 DEF ByIdentity
  <2>4. n \notin Inserted(m, k)
    BY DEF Inserted, FreeRows
  <2> QED
    BY <2>1, <2>2, <2>3, <2>4 DEF RowFor, Prefer
<1>8. n \in Unused(m, i)
  BY <1>7 DEF Unused
<1>9. ByFingerprint(Unused(m, i), nodes[i]) = {n}
  BY <1>4, <1>8 DEF ByFingerprint, Unused, Recognised
<1>10. m[i] \in {n}
  BY <1>1, <1>4, <1>9 DEF RowFor, Prefer
<1> QED
  BY <1>4, <1>10

\* What a transaction of save_subscription_result leaves in the table: the rows
\* of a matching hold the entries, the others are left out.
LEMMA SaveEffect ==
  ASSUME TypeOK, NEW p \in Processes, SaveSubscription(p)
  PROVE  \E m \in [DOMAIN proc[p].nodes -> Rows] :
           /\ proc[p].nodes \in Seq(Entry)
           /\ m \in Matchings(proc[p].nodes)
           /\ \A i, j \in DOMAIN m : m[i] = m[j] => i = j
           /\ DOMAIN node' = DOMAIN node \union {m[i] : i \in DOMAIN m}
           /\ \A i \in DOMAIN m : node'[m[i]] = Overwrite(m[i], proc[p].nodes[i])
           /\ \A n \in DOMAIN node \ {m[i] : i \in DOMAIN m} : node'[n] = LeaveOut(n)
<1> DEFINE nodes == proc[p].nodes
<1>1. nodes \in Seq(Entry)
  BY SubscriptionAssumption DEF TypeOK, Process, SaveSubscription
<1>2. PICK m \in Matchings(nodes) : SaveNodes(nodes, m)
  BY DEF SaveSubscription
<1>3. m \in [DOMAIN nodes -> Rows]
  BY <1>2 DEF Matchings
<1> HIDE DEF nodes
<1>4. \A i, j \in DOMAIN m : m[i] = m[j] => i = j
  BY <1>1, MatchingInjective
<1> DEFINE matched == {m[i] : i \in DOMAIN m}
           Fetched(n) == nodes[CHOOSE i \in DOMAIN m : m[i] = n]
<1>5. node' = [n \in DOMAIN node \union matched |->
                 IF n \in matched THEN Overwrite(n, Fetched(n)) ELSE LeaveOut(n)]
  BY <1>2 DEF SaveNodes
<1>6. ASSUME NEW i \in DOMAIN m
      PROVE  Fetched(m[i]) = nodes[i]
  <2>1. (CHOOSE j \in DOMAIN m : m[j] = m[i]) = i
    BY <1>4
  <2> QED
    BY <2>1
<1> HIDE DEF Fetched
<1>7. \A i \in DOMAIN m : node'[m[i]] = Overwrite(m[i], nodes[i])
  BY <1>5, <1>6
<1>8. /\ DOMAIN node' = DOMAIN node \union matched
      /\ \A n \in DOMAIN node \ matched : node'[n] = LeaveOut(n)
  BY <1>5
<1> QED
  BY <1>1, <1>2, <1>3, <1>4, <1>7, <1>8 DEF nodes

\* So every row it leaves is a node, in the subscription or quiet.
LEMMA SaveType ==
  ASSUME TypeOK, NEW p \in Processes, SaveSubscription(p)
  PROVE  /\ DOMAIN node' \subseteq Rows
         /\ \A n \in DOMAIN node' : node'[n] \in Node
         /\ \A n \in DOMAIN node' :
              \/ node'[n].active
              \/ node'[n].status = "disabled" /\ ~ node'[n].incident_open
<1> DEFINE nodes == proc[p].nodes
<1>1. PICK m \in [DOMAIN nodes -> Rows] :
        /\ nodes \in Seq(Entry)
        /\ DOMAIN node' = DOMAIN node \union {m[i] : i \in DOMAIN m}
        /\ \A i \in DOMAIN m : node'[m[i]] = Overwrite(m[i], nodes[i])
        /\ \A n \in DOMAIN node \ {m[i] : i \in DOMAIN m} : node'[n] = LeaveOut(n)
  BY SaveEffect
<1> HIDE DEF nodes
<1>2. ASSUME NEW i \in DOMAIN m
      PROVE  node'[m[i]] \in Node /\ node'[m[i]].active
  <2>1. m[i] \in Rows /\ nodes[i] \in Entry
    BY <1>1
  <2>2. Overwrite(m[i], nodes[i]) \in Node
    BY <2>1, OverwriteType
  <2>3. node'[m[i]] = Overwrite(m[i], nodes[i])
    BY <1>1
  <2> QED
    BY <2>2, <2>3 DEF Overwrite
<1>3. ASSUME NEW n \in DOMAIN node \ {m[i] : i \in DOMAIN m}
      PROVE  /\ node'[n] \in Node
             /\ node'[n].status = "disabled"
             /\ ~ node'[n].incident_open
  <2>1. node'[n] = LeaveOut(n)
    BY <1>1
  <2> QED
    BY <2>1, LeaveOutQuiet
<1> QED
  BY <1>1, <1>2, <1>3 DEF TypeOK

\* And the rows in the subscription are in bijection with the entries.
LEMMA SaveFollows ==
  ASSUME TypeOK, NEW p \in Processes, SaveSubscription(p)
  PROVE  Follows(node', proc[p].nodes)
<1> DEFINE nodes == proc[p].nodes
<1>1. PICK m \in [DOMAIN nodes -> Rows] :
        /\ nodes \in Seq(Entry)
        /\ \A i, j \in DOMAIN m : m[i] = m[j] => i = j
        /\ DOMAIN node' = DOMAIN node \union {m[i] : i \in DOMAIN m}
        /\ \A i \in DOMAIN m : node'[m[i]] = Overwrite(m[i], nodes[i])
        /\ \A n \in DOMAIN node \ {m[i] : i \in DOMAIN m} : node'[n] = LeaveOut(n)
  BY SaveEffect
<1> HIDE DEF nodes
<1> SUFFICES ASSUME NEW e \in Entry
             PROVE  Cardinality({n \in {x \in DOMAIN node' : node'[x].active} :
                                   /\ node'[n].fingerprint = e.fingerprint
                                   /\ node'[n].name = e.name
                                   /\ node'[n].link = e.fingerprint})
                      = Cardinality({i \in DOMAIN nodes : nodes[i] = e})
  BY DEF Follows, nodes
<1> DEFINE places == {i \in DOMAIN nodes : nodes[i] = e}
           rows == {n \in {x \in DOMAIN node' : node'[x].active} :
                      /\ node'[n].fingerprint = e.fingerprint
                      /\ node'[n].name = e.name
                      /\ node'[n].link = e.fingerprint}
           b == [i \in places |-> m[i]]
<1>2. IsFiniteSet(places)
  <2> DEFINE len == Len(nodes)
  <2>0. len \in Int /\ 1 \in Int
    BY <1>1
  <2> HIDE DEF len
  <2>1. IsFiniteSet(1 .. len)
    BY <2>0, FS_Interval
  <2>2. places \subseteq 1 .. len
    BY <1>1 DEF len
  <2> QED
    BY <2>1, <2>2, FS_Subset
<1>3. ASSUME NEW i \in DOMAIN nodes
      PROVE  /\ m[i] \in DOMAIN node'
             /\ node'[m[i]].active
             /\ node'[m[i]].fingerprint = nodes[i].fingerprint
             /\ node'[m[i]].name = nodes[i].name
             /\ node'[m[i]].link = nodes[i].fingerprint
  <2>1. i \in DOMAIN m
    OBVIOUS
  <2>2. m[i] \in DOMAIN node' /\ node'[m[i]] = Overwrite(m[i], nodes[i])
    BY <1>1, <2>1
  <2> QED
    BY <2>2 DEF Overwrite
<1>4. \A i \in places : m[i] \in rows
  BY <1>3
<1>5. ASSUME NEW n \in rows
      PROVE  \E i \in places : m[i] = n
  <2>1. PICK i \in DOMAIN nodes : m[i] = n
    <3>1. CASE n \in {m[i] : i \in DOMAIN m}
      BY <1>1, <3>1
    <3>2. CASE n \in DOMAIN node \ {m[i] : i \in DOMAIN m}
      <4>1. node'[n] = LeaveOut(n)
        BY <1>1, <3>2
      <4>2. node[n] \in Node
        BY <3>2 DEF TypeOK
      <4>3. ~ LeaveOut(n).active
        BY <4>2 DEF LeaveOut, Node
      <4> QED
        BY <4>1, <4>3
    <3> QED
      BY <1>1, <3>1, <3>2
  <2>2. nodes[i] \in Entry
    BY <1>1
  <2>3. nodes[i].fingerprint = e.fingerprint /\ nodes[i].name = e.name
    BY <1>3, <2>1
  <2>4. nodes[i] = e
    BY <2>2, <2>3 DEF Entry
  <2> QED
    BY <2>1, <2>4
<1>6. b \in [places -> rows]
  BY <1>4
<1>7. \A i, j \in places : b[i] = b[j] => i = j
  BY <1>1
<1>8. \A n \in rows : \E i \in places : b[i] = n
  BY <1>5
<1> HIDE DEF places, rows, b
<1>9. b \in Bijection(places, rows)
  BY <1>6, <1>7, <1>8 DEF Bijection, Injection, Surjection, IsInjective
<1>10. Cardinality(rows) = Cardinality(places)
  BY <1>2, <1>9, FS_Bijection DEF ExistsBijection
<1> QED
  BY <1>10 DEF places, rows

-----------------------------------------------------------------------------
LEMMA TypeInit == Init => TypeOK
<1> SUFFICES ASSUME Init
             PROVE  TypeOK
  OBVIOUS
<1>1. DOMAIN node = {}
  BY DEF Init
<1>2. subscription \in Subscription
  BY DEF Init, Subscription
<1>3. proc \in [Processes -> Process] /\ \A p \in Processes : ~ At(p, "node")
  BY IdleType DEF Init, At
<1> QED
  BY <1>1, <1>2, <1>3 DEF TypeOK

LEMMA TypeStep == TypeOK /\ [Next]_vars => TypeOK'
<1> SUFFICES ASSUME TypeOK, [Next]_vars
             PROVE  TypeOK'
  OBVIOUS
<1> DEFINE ProcOK == /\ proc' \in [Processes -> Process]
                     /\ \A x \in Processes :
                          At(x, "node")' => /\ proc'[x].row \in Rows
                                            /\ proc'[x].fingerprint \in Fingerprints
<1>a. ASSUME NEW p \in Processes, Become(p, Idle)
      PROVE  ProcOK
  BY <1>a, ProcessType, IdleType
<1>b. ASSUME UNCHANGED proc
      PROVE  ProcOK
  BY <1>b DEF TypeOK, At
<1>c. ASSUME UNCHANGED <<subscription, node>>, ProcOK
      PROVE  TypeOK'
  BY <1>c DEF TypeOK, Saved
<1> HIDE DEF ProcOK
<1>1. ASSUME NEW p \in Processes, NEW nodes \in Feeds, Fetch(p, nodes)
      PROVE  TypeOK'
  <2> DEFINE r == [Idle EXCEPT !.pc = "save", !.nodes = nodes]
  <2>1. r \in Process /\ r.pc = "save"
    BY IdleType DEF Idle
  <2>2. Become(p, r)
    BY <1>1 DEF Fetch
  <2> HIDE DEF r
  <2>3. ProcOK
    BY <2>1, <2>2, ProcessType DEF ProcOK
  <2> QED
    BY <1>1, <1>c, <2>3 DEF Fetch
<1>2. ASSUME NEW p \in Processes, SaveError(p)
      PROVE  TypeOK'
  BY <1>2, <1>a DEF SaveError, TypeOK, Subscription, Saved, ProcOK
<1>3. ASSUME NEW p \in Processes, SaveSubscription(p)
      PROVE  TypeOK'
  <2>1. /\ DOMAIN node' \subseteq Rows
        /\ \A n \in DOMAIN node' : node'[n] \in Node
    BY <1>3, SaveType
  <2>2. ProcOK
    BY <1>3, <1>a DEF SaveSubscription
  <2>3. subscription' \in Subscription /\ Saved'
    BY <1>3 DEF SaveSubscription, TypeOK, Subscription, Saved
  <2> QED
    BY <2>1, <2>2, <2>3 DEF TypeOK, ProcOK
<1>4. ASSUME NEW p \in Processes, Abandon(p)
      PROVE  TypeOK'
  BY <1>4, <1>a, <1>c DEF Abandon
<1>5. ASSUME NEW p \in Processes, LoadSubscription(p)
      PROVE  TypeOK'
  <2> DEFINE due == subscription.due \/ ~ Saved
             r == [Idle EXCEPT !.pc = "form", !.due = due]
  <2>1. due \in BOOLEAN
    BY DEF TypeOK, Subscription
  <2>2. Become(p, r)
    BY <1>5 DEF LoadSubscription
  <2> HIDE DEF due
  <2>3. r \in Process /\ r.pc = "form"
    BY <2>1, IdleType DEF Idle, Process
  <2> HIDE DEF r
  <2>4. ProcOK
    BY <2>2, <2>3, ProcessType DEF ProcOK
  <2> QED
    BY <1>5, <1>c, <2>4 DEF LoadSubscription
<1>6. ASSUME NEW p \in Processes, NEW on \in BOOLEAN, NEW due \in BOOLEAN,
             SubscriptionForm(p, on, due)
      PROVE  TypeOK'
  <2> DEFINE r == [Idle EXCEPT !.pc = "due"]
  <2>1. r \in Process /\ r.pc = "due"
    BY IdleType DEF Idle, Process
  <2>2. Become(p, r)
    BY <1>6 DEF SubscriptionForm
  <2> HIDE DEF r
  <2>3. ProcOK
    BY <2>1, <2>2, ProcessType DEF ProcOK
  <2>4. subscription' \in Subscription /\ Saved'
    BY <1>6 DEF SubscriptionForm, Subscription, Saved
  <2> QED
    BY <1>6, <2>3, <2>4 DEF SubscriptionForm, TypeOK, ProcOK
<1>7. ASSUME NEW p \in Processes, SyncNow(p)
      PROVE  TypeOK'
  BY <1>7, <1>a DEF SyncNow, TypeOK, Subscription, Saved, ProcOK
<1>8. ASSUME DeleteSubscription
      PROVE  TypeOK'
  <2>1. DOMAIN node' = {}
    BY <1>8 DEF DeleteSubscription
  <2>2. subscription' \in Subscription
    BY <1>8 DEF DeleteSubscription, Subscription
  <2>3. ProcOK
    BY <1>8, <1>b DEF DeleteSubscription
  <2> QED
    BY <2>1, <2>2, <2>3 DEF TypeOK, ProcOK
<1>9. ASSUME NEW p \in Processes, NEW n \in Rows, LoadNode(p, n)
      PROVE  TypeOK'
  <2> DEFINE r == [Idle EXCEPT !.pc = "node", !.row = n,
                               !.fingerprint = node[n].fingerprint]
  <2>1. node[n].fingerprint \in Fingerprints
    BY <1>9 DEF LoadNode, TypeOK, Node
  <2>2. r \in Process /\ r.row \in Rows /\ r.fingerprint \in Fingerprints
    BY <2>1, IdleType DEF Idle, Process
  <2>3. Become(p, r)
    BY <1>9 DEF LoadNode
  <2> HIDE DEF r
  <2>4. ProcOK
    BY <2>2, <2>3, ProcessType DEF ProcOK
  <2> QED
    BY <1>9, <1>c, <2>4 DEF LoadNode
<1>10. ASSUME NEW p \in Processes, NEW e \in Edits, NodeForm(p, e)
       PROVE  TypeOK'
  <2> DEFINE row == proc[p].row
             saved == [fingerprint |-> proc[p].fingerprint, name |-> e.name,
                       link |-> e.fingerprint, active |-> TRUE,
                       status |-> "watched", incident_open |-> FALSE]
  <2>1. row \in Rows /\ proc[p].fingerprint \in Fingerprints
    BY <1>10 DEF NodeForm, TypeOK
  <2>2. e \in Entry
    BY SubscriptionAssumption
  <2>3. saved \in Node
    BY <2>1, <2>2 DEF Entry, Node
  <2>4. node' = [n \in DOMAIN node \union {row} |-> IF n = row THEN saved ELSE node[n]]
    BY <1>10 DEF NodeForm
  <2> HIDE DEF row, saved
  <2>5. /\ DOMAIN node' \subseteq Rows
        /\ \A n \in DOMAIN node' : node'[n] \in Node
    BY <2>1, <2>3, <2>4 DEF TypeOK
  <2>6. ProcOK
    BY <1>10, <1>a DEF NodeForm
  <2> QED
    BY <1>10, <2>5, <2>6 DEF NodeForm, TypeOK, ProcOK, Saved
<1>11. ASSUME NEW n \in Rows, NEW incident \in BOOLEAN, AggregateNode(n, incident)
       PROVE  TypeOK'
  <2>1. /\ DOMAIN node' = DOMAIN node
        /\ \A o \in DOMAIN node' : node'[o] \in Node
    <3> DEFINE judged == IF Watched(n) THEN "watched" ELSE "disabled"
               half == [node EXCEPT ![n].status = judged]
    <3>1. node' = [half EXCEPT ![n].incident_open = incident]
      BY <1>11 DEF AggregateNode
    <3>2. judged \in {"watched", "disabled"}
      OBVIOUS
    <3>3. n \in DOMAIN node /\ node[n] \in Node
      BY <1>11 DEF AggregateNode, TypeOK
    <3> HIDE DEF judged
    <3>4. /\ DOMAIN half = DOMAIN node
          /\ half[n] \in Node
          /\ \A o \in DOMAIN node \ {n} : half[o] = node[o]
      BY <3>2, <3>3 DEF Node
    <3> HIDE DEF half
    <3>5. [half[n] EXCEPT !.incident_open = incident] \in Node
      BY <3>4 DEF Node
    <3>6. /\ DOMAIN node' = DOMAIN node
          /\ node'[n] \in Node
          /\ \A o \in DOMAIN node \ {n} : node'[o] = node[o]
      BY <3>1, <3>3, <3>4, <3>5
    <3> QED
      BY <3>6 DEF TypeOK
  <2>2. ProcOK
    BY <1>11, <1>b DEF AggregateNode
  <2> QED
    BY <1>11, <2>1, <2>2 DEF AggregateNode, TypeOK, ProcOK, Saved
<1>12. ASSUME Elapse
       PROVE  TypeOK'
  BY <1>12, <1>b DEF Elapse, TypeOK, Subscription, Saved, ProcOK
<1>13. CASE UNCHANGED vars
  BY <1>13, <1>b, <1>c DEF vars
<1> QED
  BY <1>1, <1>2, <1>3, <1>4, <1>5, <1>6, <1>7, <1>8, <1>9, <1>10, <1>11, <1>12, <1>13
  DEF Next, Synchronizing, Editing, ScheduledSync, ManualSync, Processes

(***************************************************************************)
(* The columns of a subscription and its nodes, and what each handler has  *)
(* loaded, keep their types through every interleaving, and no node is     *)
(* without its subscription.                                               *)
(***************************************************************************)
THEOREM NodesTypeCorrect == Spec => []TypeOK
<1> QED
  BY TypeInit, TypeStep, PTL DEF Spec

(***************************************************************************)
(* A node that is not in the subscription any more is disabled and has no  *)
(* open incident: synchronization leaves it so (services.py 97-99), an     *)
(* aggregation of it disables it again, and a form either puts it back     *)
(* into the subscription or does not write it.                             *)
(***************************************************************************)
THEOREM LeftOutQuiet == Spec => []LeftOutIsQuiet
<1>1. Init => LeftOutIsQuiet
  BY DEF Init, LeftOutIsQuiet
<1>2. TypeOK /\ LeftOutIsQuiet /\ [Next]_vars => LeftOutIsQuiet'
  <2> SUFFICES ASSUME TypeOK, LeftOutIsQuiet, [Next]_vars
               PROVE  LeftOutIsQuiet'
    OBVIOUS
  <2>1. ASSUME NEW p \in Processes, SaveSubscription(p)
        PROVE  LeftOutIsQuiet'
    BY <2>1, SaveType DEF LeftOutIsQuiet
  <2>2. ASSUME NEW p \in Processes, NEW e \in Edits, NodeForm(p, e)
        PROVE  LeftOutIsQuiet'
    BY <2>2 DEF NodeForm, LeftOutIsQuiet
  <2>3. ASSUME NEW n \in Rows, NEW incident \in BOOLEAN, AggregateNode(n, incident)
        PROVE  LeftOutIsQuiet'
    BY <2>3 DEF AggregateNode, Watched, LeftOutIsQuiet, TypeOK, Node
  <2>4. ASSUME DeleteSubscription
        PROVE  LeftOutIsQuiet'
    BY <2>4 DEF DeleteSubscription, LeftOutIsQuiet
  <2>5. ASSUME UNCHANGED node
        PROVE  LeftOutIsQuiet'
    BY <2>5 DEF LeftOutIsQuiet
  <2> QED
    BY <2>1, <2>2, <2>3, <2>4, <2>5
    DEF Next, Synchronizing, Editing, ScheduledSync, ManualSync, Fetch, SaveError,
        Abandon, LoadSubscription, SubscriptionForm, SyncNow, LoadNode, Elapse, vars
<1> QED
  BY <1>1, <1>2, NodesTypeCorrect, PTL DEF Spec

(***************************************************************************)
(* A synchronization that saves a list leaves exactly its entries in the   *)
(* subscription, one row for each, whatever rows there were and however    *)
(* the matching was ambiguous (services.py 61-99).                         *)
(***************************************************************************)
THEOREM SavedFollowsFetched == Spec => SavedIsFetched
<1>1. TypeOK /\ [Next]_vars =>
        [\A p \in Processes :
           SaveSubscription(p) => Follows(node', proc[p].nodes)]_vars
  BY SaveFollows
<1> QED
  BY <1>1, NodesTypeCorrect, PTL DEF Spec, SavedIsFetched

(***************************************************************************)
(* A node whose fingerprint is in the list keeps its row, its place in the *)
(* subscription and its incident, if no other row has the fingerprint and  *)
(* no earlier entry the name: it is not left out, inserted anew or given   *)
(* to another entry, whatever the entries are called and however ambiguous *)
(* the rest of the matching is (services.py 61-99).                        *)
(***************************************************************************)
THEOREM RecognisedKeepsRow == Spec => KeepsIdentity
<1>1. ASSUME TypeOK, NEW p \in Processes, NEW n \in Rows, SaveSubscription(p),
             n \in DOMAIN node, Recognised(n, proc[p].nodes),
             ~ Contested(n, proc[p].nodes)
      PROVE  KeepsRow(n)
  <2> DEFINE nodes == proc[p].nodes
  <2>1. PICK m \in [DOMAIN nodes -> Rows] :
          /\ nodes \in Seq(Entry)
          /\ m \in Matchings(nodes)
          /\ \A i \in DOMAIN m : node'[m[i]] = Overwrite(m[i], nodes[i])
    BY <1>1, SaveEffect
  <2> HIDE DEF nodes
  <2>2. PICK i \in DOMAIN nodes :
          m[i] = n /\ nodes[i].fingerprint = node[n].fingerprint
    BY <1>1, <2>1, FirstEntryTakesRow DEF nodes
  <2>3. node'[n] = Overwrite(n, nodes[i])
    BY <2>1, <2>2
  <2>4. node[n].incident_open \in BOOLEAN
    BY <1>1 DEF TypeOK, Node
  <2> QED
    BY <1>1, <2>2, <2>3, <2>4 DEF Overwrite, KeepsRow
<1>2. TypeOK /\ [Next]_vars =>
        [\A p \in Processes, n \in Rows :
           (/\ SaveSubscription(p)
            /\ n \in DOMAIN node
            /\ Recognised(n, proc[p].nodes)
            /\ ~ Contested(n, proc[p].nodes))
           => KeepsRow(n)]_vars
  BY <1>1
<1> QED
  BY <1>2, NodesTypeCorrect, PTL DEF Spec, KeepsIdentity
=============================================================================
