------------------------------ MODULE History ------------------------------
(***************************************************************************)
(* The hourly and daily snapshots of one target and one test point, and    *)
(* the status bar a page draws from them.  A report reaches the server at  *)
(* any time after its check: a client keeps results while the server is    *)
(* out of reach, and its posts overtake each other.  The rows of different *)
(* targets and points do not touch.                                        *)
(*                                                                         *)
(* stored remembers every report that was ever stored, in the order of     *)
(* arrival; the database has snapshots of some of them and the row of the  *)
(* last one.  A report is known by its place in stored, 0 being none.      *)
(***************************************************************************)
EXTENDS Clock, Integers, Sequences

CONSTANTS
  HourColumns, DayColumns,   \* 23 and 7
  ResultDays,                \* 8
  Ahead,                     \* slots that the clock of a client may be ahead
  Ips,
  NoIp                       \* of a failed check, or of one without an address

ASSUME HistoryAssumption ==
  /\ HourColumns \in Nat /\ DayColumns \in Nat
  /\ ResultDays \in Nat \ {0}
  /\ Ahead \in Nat
  /\ NoIp \notin Ips

VARIABLES
  stored,         \* stored[i]: when it was checked, and the address it saw
  last_received,  \* when the last of them was received, if it has a row
  hourly, daily   \* the snapshot of each bucket

history == <<stored, last_received, hourly, daily>>

Report == [checked_at : 0 .. LastSlot + Ahead, proxy_ip : Ips \union {NoIp}]

Hours == 0 .. hour(LastSlot + Ahead)
Days  == 0 .. localdate(LastSlot + Ahead)

NotReceived == LastSlot + Ahead + 1

HistoryTypeOK ==
  /\ stored \in Seq(Report)
  /\ last_received \in (0 .. now) \union {NotReceived}
  /\ hourly \in [Hours -> 0 .. Len(stored)]
  /\ daily \in [Days -> 0 .. Len(stored)]

HistoryInit ==
  /\ stored = <<>>
  /\ last_received = NotReceived
  /\ hourly = [h \in Hours |-> 0]
  /\ daily = [d \in Days |-> 0]

-----------------------------------------------------------------------------
(* Storing *)

\* Mutant: the snapshot is that of the report that arrived last.
LastArrived(current, report) == TRUE

\* checked_at >= current.checked_at
Supersedes(current, report) ==
  current = 0 \/ report.checked_at >= stored[current].checked_at

\* Mutant: a report counts as received when it was checked.
ReceivedWhenChecked(report) == report.checked_at

\* received_at is the time of the server, whatever the client says.
received_at(report) == now

\* One transaction: save_client_result and the two snapshots of the result.
SaveResult(report) ==
  LET i == Len(stored) + 1
      h == hour(report.checked_at)
      d == localdate(report.checked_at)
  IN /\ stored' = Append(stored, report)
     /\ last_received' = received_at(report)
     /\ hourly' = IF Supersedes(hourly[h], report) THEN [hourly EXCEPT ![h] = i]
                                                   ELSE hourly
     /\ daily' = IF Supersedes(daily[d], report) THEN [daily EXCEPT ![d] = i]
                                                 ELSE daily
     /\ UNCHANGED now

\* An edit of the target deletes its results and leaves the snapshots.
DeleteResults ==
  /\ last_received' = NotReceived
  /\ UNCHANGED <<now, stored, hourly, daily>>

HourExpired(h) == h + HourColumns < hour(now)

\* Mutant: only hours are removed.
DayNeverExpires(d) == FALSE

DayExpired(d) == d + DayColumns < localdate(now)

cleanup_history ==
  /\ last_received' =
       IF last_received + ResultDays * SlotsPerHour * HoursPerDay < now
       THEN NotReceived ELSE last_received
  /\ hourly' = [h \in Hours |-> IF HourExpired(h) THEN 0 ELSE hourly[h]]
  /\ daily' = [d \in Days |-> IF DayExpired(d) THEN 0 ELSE daily[d]]
  /\ UNCHANGED stored

-----------------------------------------------------------------------------
(* The page *)

\* source.get of the target, the point and a bucket, also one before all time.
Snapshot(source, bucket) == IF bucket \in DOMAIN source THEN source[bucket] ELSE 0

\* The columns of the k buckets before the current one, the oldest first.
Columns(source, current, k) == [i \in 1 .. k |-> Snapshot(source, current - (k + 1 - i))]

latest == IF last_received = NotReceived THEN 0 ELSE Len(stored)

\* The report of each column: days, then hours, then the latest result.
status_bars ==
  Columns(daily, localdate(now), DayColumns)
    \o Columns(hourly, hour(now), HourColumns)
    \o <<latest>>

proxy_ip(i) == IF i = 0 THEN NoIp ELSE stored[i].proxy_ip

\* Mutant: a column without an address forgets the one before it.
PreviousColumn(bars, k) == IF k = 1 THEN 0 ELSE k - 1

\* The column before k whose address that of k is compared with, or 0.
Previous(bars, k) ==
  LET known == {j \in 1 .. k - 1 : proxy_ip(bars[j]) # NoIp}
  IN IF known = {} THEN 0 ELSE CHOOSE j \in known : \A other \in known : other <= j

\* The columns that mark_ip_changes turns from up to changed.
mark_ip_changes(bars) ==
  {k \in DOMAIN bars :
     LET p == Previous(bars, k)
     IN /\ proxy_ip(bars[k]) # NoIp
        /\ p # 0 /\ proxy_ip(bars[p]) # NoIp
        /\ proxy_ip(bars[p]) # proxy_ip(bars[k])}
=============================================================================
