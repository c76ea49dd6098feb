------------------------------ MODULE Summary ------------------------------
(***************************************************************************)
(* maybe_send_summary: twice a day, in the first five minutes of a summary *)
(* hour, the scheduler sends an overview and remembers when.  It loads the *)
(* settings, sends, logs and saves in statements of their own; the form of *)
(* the settings loads and saves the same row, with all of its columns.     *)
(* The first slot of an hour stands for those five minutes.                *)
(***************************************************************************)
EXTENDS Clock

CONSTANTS
  SUMMARY_HOURS,
  MaxWait          \* slots that may begin while a summary is sent: Bark is given
                   \* up on after 10 s and the lock after 20 s

ASSUME SummaryAssumption ==
  /\ SUMMARY_HOURS \subseteq 0 .. HoursPerDay - 1
  /\ MaxWait \in Nat /\ MaxWait < SlotsPerHour

VARIABLES
  setting,   \* the columns of the NotificationSetting row
  form,      \* the settings form, with the row as it was loaded
  report,    \* where maybe_send_summary is
  looked,    \* has the scheduler come to the summary in the window of this hour
  sent,      \* has a summary been sent in this summary hour
  excused    \* and has the record of it been lost since

summary == <<setting, form, report, looked, sent, excused>>

Never == LastSlot + 1

\* on stands for enabled, summary_enabled and a bark_url.
Setting == [on : BOOLEAN, summary_last_sent_at : Slot \union {Never}]

SummaryTypeOK ==
  /\ setting \in Setting
  /\ form \in [pc : {"none", "save"}, last : Slot \union {Never}]
  /\ report \in [pc : {"none", "send", "log", "save"}, wait : 0 .. MaxWait]
  /\ looked \in BOOLEAN /\ sent \in BOOLEAN /\ excused \in BOOLEAN

NoForm   == [pc |-> "none", last |-> Never]
NoReport == [pc |-> "none", wait |-> 0]

SummaryInit ==
  /\ setting \in [on : BOOLEAN, summary_last_sent_at : {Never}]
  /\ form = NoForm
  /\ report = NoReport
  /\ looked = FALSE
  /\ sent = FALSE
  /\ excused = FALSE

InWindow ==
  /\ local_hour(now) \in SUMMARY_HOURS
  /\ now = local_hour_start(now)

\* Mutant: one summary a day.
SentThatDay(bucket) ==
  /\ setting.summary_last_sent_at # Never
  /\ localdate(setting.summary_last_sent_at) >= localdate(bucket)

\* summary_last_sent_at >= hour_bucket
SentSince(bucket) ==
  setting.summary_last_sent_at # Never /\ setting.summary_last_sent_at >= bucket

\* Loads the settings and looks at the clock.
maybe_send_summary ==
  /\ report = NoReport
  /\ report' = IF setting.on /\ InWindow /\ ~ SentSince(local_hour_start(now))
               THEN [report EXCEPT !.pc = "send"] ELSE report
  /\ looked' = (looked \/ (setting.on /\ InWindow))
  /\ UNCHANGED <<now, setting, form, sent, excused>>

\* The message is posted; a failure to post it is logged and not repeated.
send_summary_report ==
  /\ report.pc = "send"
  /\ report' = [report EXCEPT !.pc = "log"]
  /\ sent' = TRUE
  /\ UNCHANGED <<now, setting, form, looked, excused>>

LogReport ==
  /\ report.pc = "log"
  /\ report' = [report EXCEPT !.pc = "save"]
  /\ UNCHANGED <<now, setting, form, looked, sent, excused>>

\* Mutant: the time is only remembered in memory.
ForgetLastSent ==
  /\ report.pc = "save"
  /\ report' = NoReport
  /\ UNCHANGED <<now, setting, form, looked, sent, excused>>

\* update_fields = ["summary_last_sent_at"]
SaveLastSent ==
  /\ report.pc = "save"
  /\ setting' = [setting EXCEPT !.summary_last_sent_at = now]
  /\ report' = NoReport
  /\ UNCHANGED <<now, form, looked, sent, excused>>

\* The process dies, or a statement does not get the lock and raises.
AbandonReport ==
  /\ report # NoReport
  /\ report' = NoReport
  /\ looked' = (looked /\ report.pc # "send")
  /\ excused' = (excused \/ report.pc \in {"log", "save"})
  /\ UNCHANGED <<now, setting, form, sent>>

\* settings_view: a posted form loads the row ...
LoadSetting ==
  /\ form = NoForm
  /\ form' = [pc |-> "save", last |-> setting.summary_last_sent_at]
  /\ UNCHANGED <<now, setting, report, looked, sent, excused>>

\* ... and saves every column of it, also the one that is not in the form.
SaveSetting(on) ==
  /\ form.pc = "save"
  /\ setting' = [on |-> on, summary_last_sent_at |-> form.last]
  /\ excused' = (excused \/ (sent /\ form.last # setting.summary_last_sent_at))
  /\ form' = NoForm
  /\ UNCHANGED <<now, report, looked, sent>>

\* An hour later nothing is sent yet.
NewHour ==
  LET begins == local_hour_start(now') # local_hour_start(now)
  IN /\ looked' = (looked /\ ~ begins)
     /\ sent' = (sent /\ ~ begins)
     /\ excused' = (excused /\ ~ begins)

Wait ==
  /\ report = NoReport \/ report.wait < MaxWait
  /\ report' = IF report = NoReport THEN report ELSE [report EXCEPT !.wait = @ + 1]
=============================================================================
