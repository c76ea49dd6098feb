-------------------------- MODULE SubscriptionSync --------------------------
(***************************************************************************)
(* One Xray subscription and its nodes.  The provider serves a list of     *)
(* links; the scheduler and the operator fetch it and save it over the     *)
(* rows of the nodes, which keep their status, incident and history as     *)
(* long as a fetched link is recognised as theirs.                         *)
(*                                                                         *)
(* A synchronization waits for the network between loading the             *)
(* subscription and saving the result, and a form is a load and a save, so *)
(* the processes interleave in between.  Each save is one transaction.     *)
(*                                                                         *)
(* A link consists of an endpoint, whose hash is the fingerprint, and of a *)
(* name.  Protocol and name, the identity of services.py, are one value    *)
(* here.  active stands for the columns active_in_subscription and enabled *)
(* of a node, which the code writes together; the exit IP is left out.     *)
(***************************************************************************)
EXTENDS Sequences, FiniteSets, Naturals

CONSTANTS
  Rows,                 \* ids that rows of nodes may have
  Fingerprints, Names,
  Feeds,                \* what the provider may serve, <<>> if nothing usable
  Edits,                \* what the operator may enter for a node
  Workers, Scheduler,
  NoRow, NoFingerprint

Entry == [fingerprint : Fingerprints, name : Names]

ASSUME SubscriptionAssumption ==
  /\ \A feed \in Feeds : feed \in Seq(Entry)
  /\ Edits \subseteq Entry
  /\ Scheduler \notin Workers
  /\ NoRow \notin Rows
  /\ NoFingerprint \notin Fingerprints

Processes == Workers \union {Scheduler}

VARIABLES
  subscription,  \* its row
  node,          \* node[n]: the row n, for the ids n in use
  proc           \* proc[p]: where process p is in the handler it runs

vars == <<subscription, node, proc>>

-----------------------------------------------------------------------------
Subscription ==
  [life : {"unsaved", "saved", "deleted"}, enabled : BOOLEAN, due : BOOLEAN]

\* link is the fingerprint of share_link; "watched" is unknown, up or down.
Node ==
  [fingerprint : Fingerprints, name : Names, link : Fingerprints,
   active : BOOLEAN, status : {"watched", "disabled"}, incident_open : BOOLEAN]

\* What a handler has loaded or fetched.
Process ==
  [pc : {"idle", "save", "form", "due", "node"},
   nodes : Feeds \union {<<>>}, due : BOOLEAN,
   row : Rows \union {NoRow}, fingerprint : Fingerprints \union {NoFingerprint}]

Idle == [pc |-> "idle", nodes |-> <<>>, due |-> FALSE,
         row |-> NoRow, fingerprint |-> NoFingerprint]

At(p, pc) == proc[p].pc = pc
Become(p, r) == proc' = [proc EXCEPT ![p] = r]

Saved == subscription.life = "saved"

\* Ids are taken again when nobody refers to them any more.
FreeRows == Rows \ (DOMAIN node \union {proc[p].row : p \in Processes})

Init ==
  /\ subscription = [life |-> "unsaved", enabled |-> FALSE, due |-> FALSE]
  /\ node = <<>>
  /\ proc = [p \in Processes |-> Idle]

-----------------------------------------------------------------------------
(***************************************************************************)
(* save_subscription_result: which row each fetched node is saved to.  A   *)
(* matching m gives a row for every position of the list, in its order.    *)
(***************************************************************************)

\* Mutant: a matched row may be matched again.
EveryRow(m, i) == DOMAIN node

Unused(m, i) == DOMAIN node \ {m[j] : j \in 1 .. i - 1}

\* Which of several rows with the fingerprint is first is left open.
ByFingerprint(rows, e) == {n \in rows : node[n].fingerprint = e.fingerprint}

Incoming(nodes, name) == Cardinality({j \in DOMAIN nodes : nodes[j].name = name})

ByIdentity(rows, nodes, e) ==
  {n \in rows : /\ node[n].name = e.name
                /\ Incoming(nodes, e.name) = 1
                /\ \A o \in rows : node[o].name = e.name => o = n}

\* The id of an inserted row may be any that is free.
Inserted(m, i) == FreeRows \ {m[j] : j \in 1 .. i - 1}

Prefer(first, second, third) ==
  IF first # {} THEN first ELSE IF second # {} THEN second ELSE third

\* Mutant: every entry is inserted, and the rows there were are left out.
AlwaysInsert(nodes, m, i) == Inserted(m, i)

RowFor(nodes, m, i) ==
  Prefer(ByFingerprint(Unused(m, i), nodes[i]),
         ByIdentity(Unused(m, i), nodes, nodes[i]),
         Inserted(m, i))

Matchings(nodes) ==
  {m \in [DOMAIN nodes -> Rows] : \A i \in DOMAIN nodes : m[i] \in RowFor(nodes, m, i)}

Overwrite(n, e) ==
  [fingerprint |-> e.fingerprint, name |-> e.name, link |-> e.fingerprint,
   active |-> TRUE, status |-> "watched",
   incident_open |-> n \in DOMAIN node /\ node[n].incident_open]

\* Mutant: an incident survives its node.
LeaveOutLoud(n) == [node[n] EXCEPT !.active = FALSE, !.status = "disabled"]

\* Mutant: the rows left out are forgotten.
LeaveOutActive(n) == node[n]

LeaveOut(n) ==
  [node[n] EXCEPT !.active = FALSE, !.status = "disabled", !.incident_open = FALSE]

SaveNodes(nodes, m) ==
  LET matched == {m[i] : i \in DOMAIN m}
      Fetched(n) == nodes[CHOOSE i \in DOMAIN m : m[i] = n]
  IN node' = [n \in DOMAIN node \union matched |->
                IF n \in matched THEN Overwrite(n, Fetched(n)) ELSE LeaveOut(n)]

-----------------------------------------------------------------------------
(* Synchronization, by the scheduler and by the button of the page *)

\* What comes over the network depends on the provider only, so that waiting for
\* it is part of the step that loads the subscription.
Fetch(p, nodes) ==
  /\ At(p, "idle")
  /\ Saved
  /\ Become(p, [Idle EXCEPT !.pc = "save", !.nodes = nodes])
  /\ UNCHANGED <<subscription, node>>

\* A tick of the scheduler lists the subscriptions that are due.
ScheduledSync(nodes) ==
  /\ subscription.enabled
  /\ subscription.due
  /\ Fetch(Scheduler, nodes)

\* The button is there for a disabled subscription, too.
ManualSync(p, nodes) ==
  /\ p \in Workers
  /\ Fetch(p, nodes)

\* An error, and an empty list is one, only postpones the next attempt.
SaveError(p) ==
  /\ At(p, "save")
  /\ Saved
  /\ proc[p].nodes = <<>>
  /\ subscription' = [subscription EXCEPT !.due = FALSE]
  /\ Become(p, Idle)
  /\ UNCHANGED node

SaveSubscription(p) ==
  /\ At(p, "save")
  /\ Saved
  /\ proc[p].nodes # <<>>
  /\ subscription' = [subscription EXCEPT !.due = FALSE]
  /\ \E m \in Matchings(proc[p].nodes) : SaveNodes(proc[p].nodes, m)
  /\ Become(p, Idle)

\* The subscription is gone, the lock is not obtained, or the process dies.
Abandon(p) ==
  /\ ~ At(p, "idle")
  /\ Become(p, Idle)
  /\ UNCHANGED <<subscription, node>>

-----------------------------------------------------------------------------
(* The forms of the subscription and of a node *)

LoadSubscription(p) ==
  /\ p \in Workers
  /\ At(p, "idle")
  /\ subscription.life # "deleted"
  /\ Become(p, [Idle EXCEPT !.pc = "form",
                            !.due = subscription.due \/ ~ Saved])
  /\ UNCHANGED <<subscription, node>>

\* All columns are written, next_sync_at as it was loaded (it may have passed
\* since), and the row is inserted again if it was deleted meanwhile.
SubscriptionForm(p, on, due) ==
  /\ At(p, "form")
  /\ proc[p].due => due
  /\ subscription' = [life |-> "saved", enabled |-> on, due |-> due]
  /\ Become(p, [Idle EXCEPT !.pc = "due"])
  /\ UNCHANGED node

\* The second statement; a row that is gone makes it fail.  aggregate_all_nodes
\* follows, in steps of AggregateNode.
SyncNow(p) ==
  /\ At(p, "due")
  /\ Saved
  /\ subscription' = [subscription EXCEPT !.due = TRUE]
  /\ Become(p, Idle)
  /\ UNCHANGED node

\* Mutant: the nodes are not deleted with their subscription.
DeleteKeepsNodes ==
  /\ Saved
  /\ subscription' = [life |-> "deleted", enabled |-> FALSE, due |-> FALSE]
  /\ UNCHANGED <<node, proc>>

\* One step, by any worker, also while another is busy with a form.
DeleteSubscription ==
  /\ Saved
  /\ subscription' = [life |-> "deleted", enabled |-> FALSE, due |-> FALSE]
  /\ node' = <<>>
  /\ UNCHANGED proc

LoadNode(p, n) ==
  /\ p \in Workers
  /\ At(p, "idle")
  /\ n \in DOMAIN node
  /\ node[n].active
  /\ Become(p, [Idle EXCEPT !.pc = "node", !.row = n,
                            !.fingerprint = node[n].fingerprint])
  /\ UNCHANGED <<subscription, node>>

\* Everything the form does not ask for is written as it was loaded.  A foreign
\* key keeps a node from being inserted without its subscription.
NodeForm(p, e) ==
  /\ At(p, "node")
  /\ Saved
  /\ LET saved == [fingerprint |-> proc[p].fingerprint, name |-> e.name,
                    link |-> e.fingerprint, active |-> TRUE,
                    status |-> "watched", incident_open |-> FALSE]
     IN node' = [n \in DOMAIN node \union {proc[p].row} |->
                   IF n = proc[p].row THEN saved ELSE node[n]]
  /\ Become(p, Idle)
  /\ UNCHANGED subscription

-----------------------------------------------------------------------------
(* Aggregation and time *)

\* Mutant: a disabled subscription does not disable its nodes.
WatchedActive(n) == node[n].active

Watched(n) == node[n].active /\ subscription.enabled

\* In the round of the scheduler, after a form, or after a report was stored.
\* The reports decide about the incident of a node that is watched.
AggregateNode(n, incident) ==
  /\ n \in DOMAIN node
  /\ incident => Watched(n)
  /\ node' = [node EXCEPT ![n].status = IF Watched(n) THEN "watched" ELSE "disabled",
                          ![n].incident_open = incident]
  /\ UNCHANGED <<subscription, proc>>

Elapse ==
  /\ Saved
  /\ subscription' = [subscription EXCEPT !.due = TRUE]
  /\ UNCHANGED <<node, proc>>

Synchronizing ==
  \/ \E nodes \in Feeds : ScheduledSync(nodes) \/ \E p \in Workers : ManualSync(p, nodes)
  \/ \E p \in Processes : SaveError(p) \/ SaveSubscription(p) \/ Abandon(p)

Editing ==
  \E p \in Processes :
    \/ LoadSubscription(p)
    \/ \E on, due \in BOOLEAN : SubscriptionForm(p, on, due)
    \/ SyncNow(p)
    \/ \E n \in Rows : LoadNode(p, n)
    \/ \E e \in Edits : NodeForm(p, e)

Next ==
  \/ Synchronizing
  \/ Editing
  \/ DeleteSubscription
  \/ \E n \in Rows, incident \in BOOLEAN : AggregateNode(n, incident)
  \/ Elapse

Spec == Init /\ [][Next]_vars

\* The scheduler ticks, time passes, the rounds of the scheduler reach every
\* node, and neither a crash nor the lock defeats it at the same place for ever.
Fairness ==
  /\ WF_vars(\E nodes \in Feeds : ScheduledSync(nodes))
  /\ WF_vars(Elapse)
  /\ SF_vars(SaveError(Scheduler))
  /\ SF_vars(SaveSubscription(Scheduler))
  /\ \A n \in Rows : WF_vars(\E incident \in BOOLEAN : AggregateNode(n, incident))

FairSpec == Spec /\ Fairness

-----------------------------------------------------------------------------
(***************************************************************************)
(* The variables have their types; nodes belong to a subscription          *)
(* (the foreign key of XrayNode and its cascade).                          *)
(***************************************************************************)
TypeOK ==
  /\ subscription \in Subscription
  /\ DOMAIN node \subseteq Rows
  /\ \A n \in DOMAIN node : node[n] \in Node
  /\ proc \in [Processes -> Process]
  /\ \A p \in Processes : At(p, "node") => proc[p].row \in Rows /\ proc[p].fingerprint \in Fingerprints
  /\ Saved \/ DOMAIN node = {}

(***************************************************************************)
(* A node that is not in the subscription any more is shown as disabled    *)
(* and has no open incident, whatever form or aggregation was under way    *)
(* when it was left out (services.py 97-99, 480-487, views.py 321-334).    *)
(***************************************************************************)
LeftOutIsQuiet ==
  \A n \in DOMAIN node :
    ~ node[n].active => node[n].status = "disabled" /\ ~ node[n].incident_open

\* The nodes in the subscription are those of the list, one row for each.
Follows(rows, nodes) ==
  LET active == {n \in DOMAIN rows : rows[n].active}
  IN \A e \in Entry :
       Cardinality({n \in active : /\ rows[n].fingerprint = e.fingerprint
                                    /\ rows[n].name = e.name
                                    /\ rows[n].link = e.fingerprint})
         = Cardinality({i \in DOMAIN nodes : nodes[i] = e})

(***************************************************************************)
(* However renamed, swapped, duplicated or edited the nodes are, saving a  *)
(* fetched list leaves exactly its entries in the subscription             *)
(* (services.py 61-99; README.md 29: it overwrites edits).                 *)
(***************************************************************************)
SavedIsFetched ==
  [][\A p \in Processes :
       SaveSubscription(p) => Follows(node', proc[p].nodes)]_vars

\* The row of this fingerprint that a list mentions.
Recognised(n, nodes) ==
  /\ \E i \in DOMAIN nodes : nodes[i].fingerprint = node[n].fingerprint
  /\ \A o \in DOMAIN node : node[o].fingerprint = node[n].fingerprint => o = n

\* An entry before the first with the fingerprint of n has the name of n.
Contested(n, nodes) ==
  \E i \in DOMAIN nodes :
    /\ nodes[i].name = node[n].name
    /\ \A k \in 1 .. i : nodes[k].fingerprint # node[n].fingerprint

\* The row of n goes on as the row of its entry: it is written with the same
\* fingerprint and stays in the subscription, with its incident.
KeepsRow(n) ==
  /\ node'[n].fingerprint = node[n].fingerprint
  /\ node'[n].active
  /\ node'[n].incident_open = node[n].incident_open

(***************************************************************************)
(* A node keeps its row, its place in the subscription and its incident as *)
(* long as its fingerprint is in the list and no entry before it claims    *)
(* its name: it is neither left out and inserted anew nor given to another *)
(* entry, through renames, edits and failed or repeated synchronizations   *)
(* (services.py 61-99; its history refers to the row).                     *)
(***************************************************************************)
KeepsIdentity ==
  [][\A p \in Processes, n \in Rows :
       (/\ SaveSubscription(p)
        /\ n \in DOMAIN node
        /\ Recognised(n, proc[p].nodes)
        /\ ~ Contested(n, proc[p].nodes))
       => KeepsRow(n)]_vars

(***************************************************************************)
(* views.py 322: the fingerprint is the stable identity, and the next      *)
(* synchronization matches the edited node by it.                          *)
(***************************************************************************)
FingerprintIsIdentity ==
  [][\A p \in Processes, n \in Rows :
       SaveSubscription(p) /\ n \in DOMAIN node /\ Recognised(n, proc[p].nodes)
       => KeepsRow(n)]_vars

(***************************************************************************)
(* Once the operator edits nothing and the provider serves the same list,  *)
(* the nodes become the list's and stay so, although synchronizations of   *)
(* an older list were under way and others go on, are repeated or lost.    *)
(***************************************************************************)
EditsCease ==
  <>[][\A p \in Workers :
         /\ \A on, due \in BOOLEAN : ~ SubscriptionForm(p, on, due)
         /\ \A e \in Edits : ~ NodeForm(p, e)]_vars

Serves(list) ==
  <>[][\A p \in Processes, nodes \in Feeds : Fetch(p, nodes) => nodes = list]_vars

NodesFollowFeed ==
  \A list \in Feeds \ {<<>>} :
    EditsCease /\ Serves(list) /\ <>[](Saved /\ subscription.enabled)
    => <>[]Follows(node, list)

(***************************************************************************)
(* A node whose subscription stays disabled is shown as disabled and quiet *)
(* again and again, although each manual synchronization wakes it; one     *)
(* that stays enabled is shown.                                            *)
(***************************************************************************)
LifecycleIsShown ==
  \A n \in Rows :
    /\ <>[](n \in DOMAIN node /\ ~ subscription.enabled)
         => []<>(n \in DOMAIN node /\ node[n].status = "disabled" /\ ~ node[n].incident_open)
    /\ <>[](n \in DOMAIN node /\ node[n].active /\ subscription.enabled)
         => []<>(n \in DOMAIN node /\ node[n].status = "watched")
=============================================================================
