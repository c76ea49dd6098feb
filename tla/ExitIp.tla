------------------------------- MODULE ExitIp -------------------------------
(***************************************************************************)
(* The exit IP that the card of a node shows, and the country and company  *)
(* that own it.  The scheduler chooses the address from the reports,       *)
(* stores it, asks ipinfo.io about it and stores the answer, each in a     *)
(* statement of its own and the question in none, while the workers store  *)
(* reports, edits and synchronizations into the same row.                  *)
(*                                                                         *)
(* The address whose owner the row has stands for country_code and         *)
(* company_name.  Times are ages in ticks, as in Aggregation: the scheduler*)
(* reads the clock once for each node and compares everything with that.   *)
(* asked is history: no code reads it.                                     *)
(***************************************************************************)
EXTENDS Naturals, FiniteSets

CONSTANTS
  Nodes, Points,
  Ips,         \* addresses that probes see
  GlobalIps,   \* those of them that ipinfo.io can know anything of
  NoNode, NoIp, NoRow,
  Fresh,       \* twice check_interval_seconds, in ticks
  Retry,       \* IP_INFO_RETRY_INTERVAL, in ticks
  Refresh,     \* IP_INFO_REFRESH_INTERVAL, in ticks
  MaxWait,     \* ticks that a refresh of one node may take
  Switched,    \* a bound: the points that the operator disables and enables
  Sees         \* a bound: Sees[q] has the addresses that point q may see

ASSUME ExitIpAssumption ==
  /\ Fresh \in Nat /\ Retry \in Nat /\ Refresh \in Nat /\ MaxWait \in Nat
  /\ Retry <= Refresh /\ MaxWait <= Refresh
  /\ NoIp \notin Ips
  /\ NoNode \notin Nodes
  /\ Switched \subseteq Points

VARIABLES
  row,             \* row[n]: the columns of node n
  enabled_points,  \* the enabled test points
  results,         \* results[n][q]: the newest CHECK report of n by q
  form,            \* where node_form is, with its node
  refresh,         \* where refresh_all_node_ip_info is
  asked            \* asked[n]: the address that the last date of n is of

vars == <<row, enabled_points, results, form, refresh, asked>>

-----------------------------------------------------------------------------
(* Rows *)

\* A report that is too old for any refresh, or has no address to offer.
Forgotten == Fresh + MaxWait + 1

Report == [ip : Ips, age : 0 .. Forgotten - 1] \union {[ip |-> NoIp, age |-> Forgotten]}

NoReport == [ip |-> NoIp, age |-> Forgotten]

Older(r) == IF r.age + 1 >= Forgotten THEN NoReport ELSE [r EXCEPT !.age = @ + 1]

\* How long ago ip_info_checked_at is, as far as it matters; Never when it is null.
Never == Refresh + 1

Row == [active : BOOLEAN, exit_ip : Ips \union {NoIp},
        owner : Ips \union {NoIp}, info_age : 0 .. Never]

Cleared(r) == [r EXCEPT !.exit_ip = NoIp, !.owner = NoIp, !.info_age = Never]

\* A row that save_subscription_result inserts, and one that node_form saves.
NewRow == [active |-> TRUE, exit_ip |-> NoIp, owner |-> NoIp, info_age |-> Never]

Present(n) == row[n] # NoRow

-----------------------------------------------------------------------------
(* The choice of the address *)

\* The reports a refresh counts that read the clock wait ticks ago.
latest_fresh_results(n, wait) ==
  [q \in {p \in enabled_points : results[n][p].age <= Fresh + wait} |-> results[n][q]]

Seen(latest) == {latest[q].ip : q \in DOMAIN latest} \ {NoIp}

Count(latest, ip) == Cardinality({q \in DOMAIN latest : latest[q].ip = ip})

\* The age of the newest report of ip.
Newest(latest, ip) ==
  CHOOSE a \in 0 .. Forgotten :
    /\ \E q \in DOMAIN latest : latest[q].ip = ip /\ latest[q].age = a
    /\ \A q \in DOMAIN latest : latest[q].ip = ip => a <= latest[q].age

\* Mutant: without an address, none is adopted as if it were one.
NoneIsAdopted(latest) == IF Seen(latest) = {} THEN {NoIp} ELSE Seen(latest)

\* max(counts, key = (count, newest, ip)).  Reports of one tick are told apart
\* by the code and not by the model, so there may be several.
consensus_proxy_ip(latest) ==
  {ip \in Seen(latest) :
     \A other \in Seen(latest) :
       \/ Count(latest, ip) > Count(latest, other)
       \/ /\ Count(latest, ip) = Count(latest, other)
          /\ Newest(latest, ip) <= Newest(latest, other)}

-----------------------------------------------------------------------------
(* The scheduler *)

NoForm == [pc |-> "none", node |-> NoNode]

Refreshing ==
  [pc    : {"idle", "loop", "select", "store", "lookup"},
   todo  : SUBSET Nodes,
   node  : Nodes \union {NoNode},
   shown : Ips \union {NoIp},   \* exit_ip of the row as it was loaded
   due   : BOOLEAN,             \* is a lookup due, by the row as it was loaded
   ip    : Ips \union {NoIp},   \* selected_ip
   wait  : 0 .. MaxWait]

Looping(todo) ==
  [pc |-> "loop", todo |-> todo, node |-> NoNode, shown |-> NoIp, due |-> FALSE,
   ip |-> NoIp, wait |-> 0]

Idle == [Looping({}) EXCEPT !.pc = "idle"]

At(pc) == refresh.pc = pc

Continue == refresh' = Looping(refresh.todo)

Init ==
  /\ row = [n \in Nodes |-> NoRow]
  /\ enabled_points = Points
  /\ results = [n \in Nodes |-> [q \in Points |-> NoReport]]
  /\ form = NoForm
  /\ refresh = Idle
  /\ asked = [n \in Nodes |-> NoIp]

RefreshAll ==
  /\ At("idle")
  /\ refresh' = Looping({n \in Nodes : Present(n) /\ row[n].active})
  /\ UNCHANGED <<row, enabled_points, results, form, asked>>

RoundDone ==
  /\ At("loop")
  /\ refresh.todo = {}
  /\ refresh' = Idle
  /\ UNCHANGED <<row, enabled_points, results, form, asked>>

\* Mutant: only a row that was never looked up is due.
NeverAsked(r) == r.info_age = Never

\* Is a lookup due?  retry_after depends on whether the row has an owner.
Due(r) ==
  \/ r.info_age = Never
  \/ r.info_age >= (IF r.owner # NoIp THEN Refresh ELSE Retry)

\* refresh_node_ip_info reads the clock and loads the row.
LoadRow(n) ==
  /\ At("loop")
  /\ n \in refresh.todo
  /\ Present(n)
  /\ refresh' = [Looping(refresh.todo \ {n}) EXCEPT
                   !.pc = "select", !.node = n,
                   !.shown = row[n].exit_ip, !.due = Due(row[n])]
  /\ UNCHANGED <<row, enabled_points, results, form, asked>>

\* Mutant: an address that is known stays.
Unknown(ip) == refresh.shown = NoIp

Differs(ip) == ip # refresh.shown

\* It reads the reports; without an address among them it returns.
SelectIp ==
  LET found == consensus_proxy_ip(latest_fresh_results(refresh.node, refresh.wait))
  IN /\ At("select")
     /\ \/ found = {} /\ Continue
        \/ \E ip \in found :
             \/ /\ Differs(ip)
                /\ refresh' = [refresh EXCEPT !.pc = "store", !.ip = ip]
             \/ /\ ~ Differs(ip) /\ refresh.due
                /\ refresh' = [refresh EXCEPT !.pc = "lookup", !.ip = ip]
             \/ ~ Differs(ip) /\ ~ refresh.due /\ Continue
     /\ UNCHANGED <<row, enabled_points, results, form, asked>>

\* Mutant: the date of the former address stays.
StoreAddressOnly ==
  /\ At("store")
  /\ Present(refresh.node)
  /\ row' = [row EXCEPT ![refresh.node].exit_ip = refresh.ip, ![refresh.node].owner = NoIp]
  /\ refresh' = [refresh EXCEPT !.pc = "lookup"]
  /\ UNCHANGED <<enabled_points, results, form, asked>>

\* Another address than the one loaded is stored without its owner.
StoreExitIp ==
  /\ At("store")
  /\ Present(refresh.node)
  /\ row' = [row EXCEPT ![refresh.node] = [Cleared(@) EXCEPT !.exit_ip = refresh.ip]]
  /\ refresh' = [refresh EXCEPT !.pc = "lookup"]
  /\ UNCHANGED <<enabled_points, results, form, asked>>

\* filter(pk=...).update(ip_info_checked_at=now): the address is not public, or
\* the lookup failed.
StampRow ==
  IF Present(refresh.node)
  THEN /\ row' = [row EXCEPT ![refresh.node].info_age = refresh.wait]
       /\ asked' = [asked EXCEPT ![refresh.node] = refresh.ip]
  ELSE UNCHANGED <<row, asked>>

NotPublic ==
  /\ At("lookup")
  /\ refresh.ip \notin GlobalIps
  /\ StampRow
  /\ Continue
  /\ UNCHANGED <<enabled_points, results, form>>

LookupFails ==
  /\ At("lookup")
  /\ refresh.ip \in GlobalIps
  /\ StampRow
  /\ Continue
  /\ UNCHANGED <<enabled_points, results, form>>

\* Mutant: the row is updated without looking at the address it has by now.
StoreAnyway(owner) ==
  IF Present(refresh.node)
  THEN /\ row' = [row EXCEPT ![refresh.node].owner = owner,
                             ![refresh.node].info_age = refresh.wait]
       /\ asked' = [asked EXCEPT ![refresh.node] = refresh.ip]
  ELSE UNCHANGED <<row, asked>>

\* filter(pk=..., exit_ip=selected_ip).update(...)
StoreOwner(owner) ==
  IF Present(refresh.node) /\ row[refresh.node].exit_ip = refresh.ip
  THEN /\ row' = [row EXCEPT ![refresh.node].owner = owner,
                             ![refresh.node].info_age = refresh.wait]
       /\ asked' = [asked EXCEPT ![refresh.node] = refresh.ip]
  ELSE UNCHANGED <<row, asked>>

\* ipinfo.io answers; the answer may know neither country nor company.
LookupAnswers(owner) ==
  /\ At("lookup")
  /\ refresh.ip \in GlobalIps
  /\ owner \in {refresh.ip, NoIp}
  /\ StoreOwner(owner)
  /\ Continue
  /\ UNCHANGED <<enabled_points, results, form>>

\* A row is gone (DoesNotExist, or a save that updates nothing), an answer has
\* a shape nobody expects, the lock is not obtained, the process dies: the round
\* is abandoned, with the nodes that were still to come.
Abandon ==
  /\ refresh \notin {Idle, Looping({})}
  /\ refresh' = Idle
  /\ UNCHANGED <<row, enabled_points, results, form, asked>>

-----------------------------------------------------------------------------
(* The workers *)

Referred == {refresh.node, form.node} \union refresh.todo

AddNode(n) ==
  /\ ~ Present(n)
  /\ n \notin Referred
  /\ row' = [row EXCEPT ![n] = NewRow]
  /\ UNCHANGED <<enabled_points, results, form, refresh, asked>>

\* save_client_result, for a periodic or manual check: a failed check, or one
\* without an address, still takes the place of the former report.
SaveResult(n, q, ip) ==
  /\ Present(n)
  /\ row[n].active
  /\ ip \in Sees[q] \union {NoIp}
  /\ results' = [results EXCEPT ![n][q] =
                   IF ip = NoIp THEN NoReport ELSE [ip |-> ip, age |-> 0]]
  /\ UNCHANGED <<row, enabled_points, form, refresh, asked>>

\* node_form loads the row, saves it with all its columns, and deletes its
\* reports, in three statements (bound: one form at a time).
EditLoad(n) ==
  /\ form = NoForm
  /\ Present(n)
  /\ row[n].active
  /\ form' = [pc |-> "loaded", node |-> n]
  /\ UNCHANGED <<row, enabled_points, results, refresh, asked>>

\* A node left out of the subscription meanwhile is active again, and one that
\* was deleted meanwhile is inserted again, unless its subscription is gone too.
EditSave ==
  /\ form.pc = "loaded"
  /\ \/ /\ row' = [row EXCEPT ![form.node] = NewRow]
        /\ form' = [form EXCEPT !.pc = "saved"]
     \/ /\ ~ Present(form.node)
        /\ form' = NoForm
        /\ UNCHANGED row
  /\ UNCHANGED <<enabled_points, results, refresh, asked>>

EditClear ==
  /\ form.pc = "saved"
  /\ results' = [results EXCEPT ![form.node] = [q \in Points |-> NoReport]]
  /\ form' = NoForm
  /\ UNCHANGED <<row, enabled_points, refresh, asked>>

\* save_subscription_result: an entry with another link clears the row and
\* leaves the reports; an entry that is gone leaves everything but active.
Synchronize(n, active, changed) ==
  /\ Present(n)
  /\ changed => active
  /\ row' = [row EXCEPT ![n] = [(IF changed THEN Cleared(@) ELSE @) EXCEPT
                                  !.active = active]]
  /\ UNCHANGED <<enabled_points, results, form, refresh, asked>>

DeleteNode(n) ==
  /\ Present(n)
  /\ row' = [row EXCEPT ![n] = NoRow]
  /\ results' = [results EXCEPT ![n] = [q \in Points |-> NoReport]]
  /\ UNCHANGED <<enabled_points, form, refresh, asked>>

SavePoint(q) ==
  /\ q \in Switched
  /\ enabled_points' \in {enabled_points \union {q}, enabled_points \ {q}}
  /\ UNCHANGED <<row, results, form, refresh, asked>>

\* Time passes, but a refresh of one node takes at most MaxWait.
Tick ==
  /\ refresh.node # NoNode => refresh.wait < MaxWait
  /\ results' = [n \in Nodes |-> [q \in Points |-> Older(results[n][q])]]
  /\ row' = [n \in Nodes |->
               IF ~ Present(n) \/ row[n].info_age = Never THEN row[n]
               ELSE [row[n] EXCEPT !.info_age = IF @ + 1 < Never THEN @ + 1 ELSE @]]
  /\ refresh' = IF refresh.node = NoNode THEN refresh
                                         ELSE [refresh EXCEPT !.wait = @ + 1]
  /\ UNCHANGED <<enabled_points, form, asked>>

RefreshStep ==
  \/ RefreshAll \/ RoundDone
  \/ \E n \in Nodes : LoadRow(n)
  \/ SelectIp \/ StoreExitIp \/ NotPublic \/ LookupFails
  \/ \E owner \in Ips \union {NoIp} : LookupAnswers(owner)
  \/ Abandon

Operator ==
  \/ \E n \in Nodes : AddNode(n) \/ EditLoad(n) \/ DeleteNode(n)
  \/ EditSave \/ EditClear
  \/ \E n \in Nodes, active, changed \in BOOLEAN : Synchronize(n, active, changed)
  \/ \E q \in Points : SavePoint(q)

Next ==
  \/ RefreshStep
  \/ Operator
  \/ \E n \in Nodes, q \in Points, ip \in Ips \union {NoIp} : SaveResult(n, q, ip)
  \/ Tick

Spec == Init /\ [][Next]_vars

(***************************************************************************)
(* The scheduler begins a round every 30 s, is restarted when it dies, and *)
(* is not stopped at the same place for ever; time passes.  Nothing is     *)
(* assumed of reports, of the operator or of ipinfo.io, except that httpx  *)
(* gives up on a lookup.                                                   *)
(***************************************************************************)
Fairness ==
  /\ WF_vars(RefreshAll) /\ WF_vars(RoundDone)
  /\ \A n \in Nodes : SF_vars(LoadRow(n))
  /\ SF_vars(SelectIp) /\ SF_vars(StoreExitIp)
  /\ WF_vars(NotPublic \/ LookupFails
               \/ \E owner \in Ips \union {NoIp} : LookupAnswers(owner))
  /\ SF_vars(Tick)

FairSpec == Spec /\ Fairness

-----------------------------------------------------------------------------
(* Properties *)

\* The columns hold what their fields allow, the refresh of a node has a node
\* and, once it has chosen, an address.
TypeOK ==
  /\ row \in [Nodes -> Row \union {NoRow}]
  /\ enabled_points \subseteq Points
  /\ results \in [Nodes -> [Points -> Report]]
  /\ form \in [pc : {"loaded", "saved"}, node : Nodes] \union {NoForm}
  /\ refresh \in Refreshing
  /\ asked \in [Nodes -> Ips \union {NoIp}]
  /\ refresh.pc \in {"select", "store", "lookup"} => refresh.node \in Nodes
  /\ refresh.pc \in {"store", "lookup"} => refresh.ip \in Ips

\* The country and company of a card are those of the address above them, and
\* have a date from which their refresh counts: whatever edits, synchronizations
\* and changes of the address happen while an answer is awaited.
OwnerIsOfExitIp ==
  \A n \in Nodes :
    Present(n) /\ row[n].owner # NoIp
      => row[n].owner = row[n].exit_ip /\ row[n].info_age # Never

\* The date of a row that shows an address is of a lookup of that address, so that
\* the first lookup of an address never waits for the retry or the refresh of
\* another: although a lookup that fails dates the row whatever address it has by
\* then, also after an edit or a synchronization has cleared it (services.py 390).
DateIsOfExitIp ==
  \A n \in Nodes :
    Present(n) /\ row[n].exit_ip # NoIp /\ row[n].info_age # Never
      => asked[n] = row[n].exit_ip

\* Every refresh that starts from now on chooses ip for n.
Agreed(n, ip) ==
  /\ Present(n)
  /\ row[n].active
  /\ \A wait \in 0 .. MaxWait : consensus_proxy_ip(latest_fresh_results(n, wait)) = {ip}

OperatorRests == <>[][~ Operator]_vars

\* Once the operator rests and the points agree on an address, the card comes to
\* show it and keeps it, also when a refresh had chosen another one before an
\* edit and stored it after the edit.
ExitIpSettles ==
  OperatorRests =>
    \A n \in Nodes, ip \in Ips :
      <>[]Agreed(n, ip) => <>[](Present(n) /\ row[n].exit_ip = ip)

LookupsSucceed == <>[][~ (Abandon \/ LookupFails \/ LookupAnswers(NoIp))]_vars

\* If moreover lookups succeed from some point on, the card comes to show the
\* owner of that address, however many lookups have failed before.
OwnerIsLearned ==
  OperatorRests /\ LookupsSucceed =>
    \A n \in Nodes, ip \in GlobalIps :
      <>[]Agreed(n, ip) => <>[](Present(n) /\ row[n].owner = ip)
=============================================================================
