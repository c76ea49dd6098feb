----------------------------- MODULE Scheduler -----------------------------
(***************************************************************************)
(* The run_scheduler process as it removes the history and sends the       *)
(* summary, between workers that store reports, draw pages and save forms. *)
(* A tick cleans up if an hour has passed since it last did, is busy with  *)
(* aggregation, lookups and synchronizations for any time, and comes to    *)
(* the summary last.                                                       *)
(***************************************************************************)
EXTENDS History, Summary, FiniteSets

CONSTANT Bounds   \* what happens at most in a behaviour: see bound

ASSUME SchedulerAssumption ==
  Bounds \subseteq [reports : Nat, ips : SUBSET Ips, notifications : BOOLEAN]

VARIABLES
  tick,   \* where Command.tick is
  bound   \* bound: the reports that are stored and the addresses in them,
          \* and whether notifications and their settings are in use

vars == <<now, history, summary, tick, bound>>

Init ==
  /\ now = 0
  /\ HistoryInit
  /\ SummaryInit
  /\ tick = "asleep"
  /\ bound \in Bounds
  /\ setting.on => bound.notifications

\* last_cleanup is kept in memory and counted from the boot of the machine, so
\* any tick may find an hour passed.
BeginTick(cleans) ==
  /\ tick = "asleep"
  /\ report = NoReport
  /\ tick' = "busy"
  /\ IF cleans THEN cleanup_history ELSE UNCHANGED history
  /\ UNCHANGED <<now, summary, bound>>

EndTick ==
  /\ tick = "busy"
  /\ tick' = "asleep"
  /\ maybe_send_summary
  /\ UNCHANGED <<history, bound>>

Crash ==
  /\ tick = "busy"
  /\ tick' = "asleep"
  /\ UNCHANGED <<now, history, summary, bound>>

Reporting ==
  /\ send_summary_report \/ LogReport \/ SaveLastSent \/ AbandonReport
  /\ UNCHANGED <<history, tick, bound>>

Storing ==
  /\ \/ /\ Len(stored) < bound.reports
        /\ \E at \in 0 .. now + Ahead, ip \in bound.ips \union {NoIp} :
             SaveResult([checked_at |-> at, proxy_ip |-> ip])
     \/ DeleteResults
  /\ UNCHANGED <<summary, tick, bound>>

Setup ==
  /\ bound.notifications
  /\ LoadSetting \/ \E on \in BOOLEAN : SaveSetting(on)
  /\ UNCHANGED <<history, tick, bound>>

Pass ==
  /\ now < LastSlot
  /\ now' = now + 1
  /\ Wait
  /\ NewHour
  /\ UNCHANGED <<history, setting, form, tick, bound>>

Next ==
  \/ \E cleans \in BOOLEAN : BeginTick(cleans)
  \/ EndTick \/ Crash \/ Reporting \/ Storing \/ Setup \/ Pass

Spec == Init /\ [][Next]_vars

(***************************************************************************)
(* The scheduler keeps ticking, and cleans up again and again.  Nothing is *)
(* assumed of the workers and of the clock.                                *)
(***************************************************************************)
Fairness ==
  /\ SF_vars(BeginTick(TRUE))
  /\ WF_vars(EndTick)
  /\ WF_vars(Reporting)

FairSpec == Spec /\ Fairness

-----------------------------------------------------------------------------
(* Properties *)

\* Snapshots are reports that were stored, and every handler is at one of its
\* statements.
TypeOK ==
  /\ now \in Slot
  /\ HistoryTypeOK
  /\ SummaryTypeOK
  /\ tick \in {"asleep", "busy"}
  /\ bound \in Bounds

Newest(reports) ==
  IF reports = {} THEN 0
  ELSE CHOOSE i \in reports :
         \A j \in reports : \/ stored[j].checked_at < stored[i].checked_at
                            \/ stored[j].checked_at = stored[i].checked_at /\ j <= i

NewestOfHour(h) == Newest({i \in DOMAIN stored : hour(stored[i].checked_at) = h})

NewestOfDay(d) == Newest({i \in DOMAIN stored : localdate(stored[i].checked_at) = d})

\* The columns of a page show, for each day and each hour, the report that was
\* checked last in it, of all that were ever stored: in whatever order they
\* arrive (save_xray_snapshots), and whenever the scheduler removes snapshots
\* (cleanup_history, prepare_status_bars).
DisplayedIsNewest ==
  /\ \A back \in 1 .. DayColumns :
       status_bars[DayColumns + 1 - back] = NewestOfDay(localdate(now) - back)
  /\ \A back \in 1 .. HourColumns :
       status_bars[DayColumns + HourColumns + 1 - back] = NewestOfHour(hour(now) - back)

\* A bar shows a change of the address exactly when its columns have different
\* ones, also across columns without a report or with a failed one.
ChangesAreMarked ==
  LET bars  == status_bars
      known == {proxy_ip(bars[k]) : k \in DOMAIN bars} \ {NoIp}
  IN mark_ip_changes(bars) # {} <=> Cardinality(known) > 1

\* What no column shows any more is removed at last, although a late report may
\* bring it back.
SnapshotsAreForgotten ==
  []<>(/\ \A h \in Hours : h + HourColumns < hour(now) => hourly[h] = 0
       /\ \A d \in Days : d + DayColumns < localdate(now) => daily[d] = 0)

\* A summary is sent again in its hour only after a crash or a lock kept its time
\* from being saved, or a settings form saved a former time over it.
SentOnce ==
  [][report.pc = "send" /\ report'.pc = "log" /\ sent => excused]_vars

\* Once the scheduler comes to the summary in its window, a summary is sent in that
\* hour, unless it is abandoned before: what is remembered of former hours and what
\* a form writes back never suppresses it.
LookedIsSent == looked => sent \/ report.pc = "send"
=============================================================================
