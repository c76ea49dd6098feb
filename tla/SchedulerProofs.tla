--------------------------- MODULE SchedulerProofs ---------------------------
(***************************************************************************)
(* What the columns of a page show, and when summaries are sent, for any   *)
(* number of reports, any lengths of hours and days, any offset of the     *)
(* local time and any interleaving of the scheduler with the workers.      *)
(***************************************************************************)
EXTENDS Scheduler, Extremes, FiniteSetTheorems, SequenceTheorems, TLAPS

-----------------------------------------------------------------------------
(* The clock *)

\* Hours and days do not run backwards.
LEMMA DivisionIsMonotone ==
  ASSUME NEW d \in Nat \ {0}, NEW a \in Nat, NEW b \in Nat, a <= b
  PROVE  /\ a \div d \in Nat /\ b \div d \in Nat
         /\ a \div d <= b \div d
OBVIOUS

\* The length of a day.
LEMMA DayLength == SlotsPerHour * HoursPerDay \in Nat \ {0}
BY ClockAssumption

\* Later times are in later hours and days, or in the same.
LEMMA BucketsAreMonotone ==
  ASSUME NEW a \in Nat, NEW b \in Nat, a <= b
  PROVE  /\ hour(a) \in Nat /\ localdate(a) \in Nat
         /\ hour(a) <= hour(b) /\ localdate(a) <= localdate(b)
<1>1. hour(a) \in Nat /\ hour(a) <= hour(b)
  BY ClockAssumption, DivisionIsMonotone DEF hour
<1>2. a + Offset \in Nat /\ b + Offset \in Nat /\ a + Offset <= b + Offset
  BY ClockAssumption
<1> DEFINE length == SlotsPerHour * HoursPerDay
<1>3. length \in Nat \ {0}
  BY DayLength
<1> HIDE DEF length
<1>4. /\ (a + Offset) \div length \in Nat
      /\ (a + Offset) \div length <= (b + Offset) \div length
  BY <1>2, <1>3, DivisionIsMonotone
<1> QED
  BY <1>1, <1>4 DEF localdate, length

\* The buckets of a report are among those that snapshots are kept for.
LEMMA ReportBuckets ==
  ASSUME NEW r \in Report
  PROVE  hour(r.checked_at) \in Hours /\ localdate(r.checked_at) \in Days
<1>1. /\ r.checked_at \in Nat /\ LastSlot + Ahead \in Nat
      /\ r.checked_at <= LastSlot + Ahead
  BY ClockAssumption, HistoryAssumption DEF Report
<1>2. /\ hour(r.checked_at) \in Nat /\ localdate(r.checked_at) \in Nat
      /\ hour(LastSlot + Ahead) \in Nat /\ localdate(LastSlot + Ahead) \in Nat
      /\ hour(r.checked_at) <= hour(LastSlot + Ahead)
      /\ localdate(r.checked_at) <= localdate(LastSlot + Ahead)
  BY <1>1, BucketsAreMonotone
<1> QED
  BY <1>2 DEF Hours, Days

-----------------------------------------------------------------------------
(* Types *)

\* The settings and the summary have their types in every initial state.
LEMMA TypeInit == Init => TypeOK
<1> SUFFICES ASSUME Init
             PROVE  TypeOK
  OBVIOUS
<1>1. now \in Slot
  BY ClockAssumption DEF Init, Slot
<1>2. HistoryTypeOK
  BY DEF Init, HistoryInit, HistoryTypeOK
<1>3. SummaryTypeOK
  <2>1. Never \in Slot \union {Never} /\ 0 \in 0 .. MaxWait
    BY SummaryAssumption
  <2>2. setting \in Setting
    BY <2>1 DEF Init, SummaryInit, Setting
  <2> QED
    BY <2>1, <2>2 DEF Init, SummaryInit, SummaryTypeOK, NoForm, NoReport
<1> QED
  BY <1>1, <1>2, <1>3 DEF Init, TypeOK

\* A stored report leaves snapshots of reports that were stored.
LEMMA SaveResultType ==
  ASSUME TypeOK, NEW r \in Report, SaveResult(r)
  PROVE  HistoryTypeOK' /\ now' = now
<1> DEFINE i == Len(stored) + 1
           h == hour(r.checked_at)
           d == localdate(r.checked_at)
<1>1. h \in Hours /\ d \in Days
  BY ReportBuckets
<1>2. /\ stored' = Append(stored, r) /\ last_received' = now /\ now' = now
      /\ hourly' = IF Supersedes(hourly[h], r) THEN [hourly EXCEPT ![h] = i] ELSE hourly
      /\ daily' = IF Supersedes(daily[d], r) THEN [daily EXCEPT ![d] = i] ELSE daily
  BY DEF SaveResult, received_at
<1>3. /\ stored \in Seq(Report) /\ now \in Nat
      /\ hourly \in [Hours -> 0 .. Len(stored)]
      /\ daily \in [Days -> 0 .. Len(stored)]
  BY ClockAssumption DEF TypeOK, HistoryTypeOK, Slot
<1>4. stored' \in Seq(Report) /\ Len(stored') = i /\ Len(stored) \in Nat
  BY <1>2, <1>3
<1>5. i \in 0 .. i /\ 0 .. Len(stored) \subseteq 0 .. i
  BY <1>4
<1> HIDE DEF i, h, d
<1>6. hourly' \in [Hours -> 0 .. i]
  BY <1>1, <1>2, <1>3, <1>5
<1>7. daily' \in [Days -> 0 .. i]
  BY <1>1, <1>2, <1>3, <1>5
<1>8. last_received' \in 0 .. now'
  BY <1>2, <1>3
<1> QED
  BY <1>2, <1>4, <1>6, <1>7, <1>8 DEF HistoryTypeOK

\* What may be stored next is a report.
LEMMA NextReportType ==
  ASSUME TypeOK, NEW at \in 0 .. now + Ahead, NEW ip \in bound.ips \union {NoIp}
  PROVE  [checked_at |-> at, proxy_ip |-> ip] \in Report
<1>1. bound.ips \subseteq Ips
  BY SchedulerAssumption DEF TypeOK
<1>2. at \in 0 .. LastSlot + Ahead
  BY ClockAssumption, HistoryAssumption DEF TypeOK, Slot
<1> QED
  BY <1>1, <1>2 DEF Report

\* Every step of the scheduler, of the workers and of the clock keeps the types.
LEMMA TypeStep == TypeOK /\ [Next]_vars => TypeOK'
<1> SUFFICES ASSUME TypeOK, [Next]_vars
             PROVE  TypeOK'
  OBVIOUS
<1>a. ASSUME UNCHANGED <<now, history>>
      PROVE  HistoryTypeOK' /\ now' \in Slot
  BY <1>a DEF TypeOK, HistoryTypeOK, history
<1>b. ASSUME UNCHANGED summary
      PROVE  SummaryTypeOK'
  BY <1>b DEF TypeOK, SummaryTypeOK, summary
<1>1. ASSUME NEW cleans \in BOOLEAN, BeginTick(cleans)
      PROVE  TypeOK'
  <2>1. ASSUME cleanup_history
        PROVE  HistoryTypeOK'
    <3>1. last_received' \in {last_received, NotReceived} /\ now' = now
      BY <1>1, <2>1 DEF cleanup_history, BeginTick
    <3>2. /\ hourly' = [h \in Hours |-> IF HourExpired(h) THEN 0 ELSE hourly[h]]
          /\ daily' = [d \in Days |-> IF DayExpired(d) THEN 0 ELSE daily[d]]
          /\ stored' = stored
      BY <2>1 DEF cleanup_history
    <3>3. stored \in Seq(Report) /\ 0 \in 0 .. Len(stored)
      BY DEF TypeOK, HistoryTypeOK
    <3>4. hourly' \in [Hours -> 0 .. Len(stored)] /\ daily' \in [Days -> 0 .. Len(stored)]
      BY <3>2, <3>3 DEF TypeOK, HistoryTypeOK
    <3> QED
      BY <3>1, <3>2, <3>3, <3>4 DEF TypeOK, HistoryTypeOK
  <2>2. HistoryTypeOK'
    BY <1>1, <1>a, <2>1 DEF BeginTick
  <2> QED
    BY <1>1, <1>b, <2>2 DEF BeginTick, TypeOK
<1>2. CASE EndTick
  <2>1. report' \in {report, [report EXCEPT !.pc = "send"]} /\ looked' \in BOOLEAN
    BY <1>2 DEF EndTick, maybe_send_summary, TypeOK, SummaryTypeOK
  <2>2. UNCHANGED <<now, setting, form, sent, excused>>
    BY <1>2 DEF EndTick, maybe_send_summary
  <2>3. SummaryTypeOK'
    BY <2>1, <2>2 DEF TypeOK, SummaryTypeOK
  <2> QED
    BY <1>2, <1>a, <2>2, <2>3 DEF EndTick, TypeOK
<1>3. CASE Crash
  BY <1>3, <1>a, <1>b DEF Crash, TypeOK
<1>4. CASE Reporting
  <2>1. NoReport \in [pc : {"none", "send", "log", "save"}, wait : 0 .. MaxWait]
    BY SummaryAssumption DEF NoReport
  <2>2. report' \in {NoReport, [report EXCEPT !.pc = "log"], [report EXCEPT !.pc = "save"]}
    BY <1>4 DEF Reporting, send_summary_report, LogReport, SaveLastSent, AbandonReport
  <2>3. report' \in [pc : {"none", "send", "log", "save"}, wait : 0 .. MaxWait]
    BY <2>1, <2>2 DEF TypeOK, SummaryTypeOK
  <2>4. setting' \in Setting
    BY <1>4 DEF Reporting, send_summary_report, LogReport, SaveLastSent, AbandonReport,
                TypeOK, SummaryTypeOK, Setting
  <2>5. now' = now /\ form' = form
    BY <1>4 DEF Reporting, send_summary_report, LogReport, SaveLastSent, AbandonReport
  <2>6. looked' \in BOOLEAN /\ sent' \in BOOLEAN /\ excused' \in BOOLEAN
    BY <1>4 DEF Reporting, send_summary_report, LogReport, SaveLastSent, AbandonReport,
                TypeOK, SummaryTypeOK
  <2>7. SummaryTypeOK'
    BY <2>3, <2>4, <2>5, <2>6 DEF TypeOK, SummaryTypeOK
  <2> QED
    BY <1>4, <1>a, <2>5, <2>7 DEF Reporting, TypeOK
<1>5. CASE Storing
  <2>1. ASSUME NEW at \in 0 .. now + Ahead, NEW ip \in bound.ips \union {NoIp},
               SaveResult([checked_at |-> at, proxy_ip |-> ip])
        PROVE  HistoryTypeOK' /\ now' = now
    BY <2>1, NextReportType, SaveResultType
  <2>2. ASSUME DeleteResults
        PROVE  HistoryTypeOK' /\ now' = now
    BY <2>2 DEF DeleteResults, TypeOK, HistoryTypeOK
  <2>3. HistoryTypeOK' /\ now' = now
    BY <1>5, <2>1, <2>2 DEF Storing
  <2> QED
    BY <1>5, <1>b, <2>3 DEF Storing, TypeOK
<1>6. CASE Setup
  <2>1. CASE LoadSetting
    <3>1. setting.summary_last_sent_at \in Slot \union {Never}
      BY DEF TypeOK, SummaryTypeOK, Setting
    <3>2. form' \in [pc : {"none", "save"}, last : Slot \union {Never}]
      BY <2>1, <3>1 DEF LoadSetting
    <3> QED
      BY <1>6, <1>a, <2>1, <3>2 DEF LoadSetting, Setup, TypeOK, SummaryTypeOK
  <2>2. ASSUME NEW on \in BOOLEAN, SaveSetting(on)
        PROVE  TypeOK'
    <3>1. form.last \in Slot \union {Never} /\ NoForm \in [pc : {"none", "save"}, last : Slot \union {Never}]
      BY DEF TypeOK, SummaryTypeOK, NoForm
    <3>2. setting' \in Setting
      BY <2>2, <3>1 DEF SaveSetting, Setting
    <3>3. excused' \in BOOLEAN
      BY <2>2 DEF SaveSetting, TypeOK, SummaryTypeOK
    <3> QED
      BY <1>6, <1>a, <2>2, <3>1, <3>2, <3>3 DEF SaveSetting, Setup, TypeOK, SummaryTypeOK
  <2> QED
    BY <1>6, <2>1, <2>2 DEF Setup
<1>7. CASE Pass
  <2>1. now' \in Slot /\ now' = now + 1 /\ now \in Nat
    BY <1>7, ClockAssumption DEF Pass, TypeOK, Slot
  <2>2. HistoryTypeOK'
    BY <1>7, <2>1 DEF Pass, TypeOK, HistoryTypeOK, history
  <2>3. report' \in [pc : {"none", "send", "log", "save"}, wait : 0 .. MaxWait]
    <3>1. CASE report = NoReport
      BY <1>7, <3>1 DEF Pass, Wait, TypeOK, SummaryTypeOK
    <3>2. CASE report # NoReport
      <4>1. report.wait + 1 \in 0 .. MaxWait
        BY <1>7, <3>2, SummaryAssumption DEF Pass, Wait, TypeOK, SummaryTypeOK
      <4>2. report' = [report EXCEPT !.wait = report.wait + 1]
        BY <1>7, <3>2 DEF Pass, Wait
      <4> QED
        BY <4>1, <4>2 DEF TypeOK, SummaryTypeOK
    <3> QED
      BY <3>1, <3>2
  <2>4. looked' \in BOOLEAN /\ sent' \in BOOLEAN /\ excused' \in BOOLEAN
    BY <1>7 DEF Pass, NewHour, TypeOK, SummaryTypeOK
  <2>5. SummaryTypeOK'
    BY <1>7, <2>3, <2>4 DEF Pass, TypeOK, SummaryTypeOK
  <2> QED
    BY <1>7, <2>1, <2>2, <2>5 DEF Pass, TypeOK
<1>8. CASE UNCHANGED vars
  BY <1>8, <1>a, <1>b DEF vars, TypeOK
<1> QED
  BY <1>1, <1>2, <1>3, <1>4, <1>5, <1>6, <1>7, <1>8 DEF Next

\* The snapshots are of reports that were stored, and the scheduler and the form of
\* the settings are at one of their statements, for all values of the constants.
THEOREM SchedulerTypeCorrect == Spec => []TypeOK
<1> QED
  BY TypeInit, TypeStep, PTL DEF Spec

-----------------------------------------------------------------------------
(* Snapshots *)

\* i is the report of the set that was checked last, or 0 if the set is empty.
IsNewest(reports, list, i) ==
  IF reports = {} THEN i = 0
  ELSE /\ i \in reports
       /\ \A j \in reports : \/ list[j].checked_at < list[i].checked_at
                             \/ list[j].checked_at = list[i].checked_at /\ j <= i

OfHour(list, h) == {i \in DOMAIN list : hour(list[i].checked_at) = h}

OfDay(list, d) == {i \in DOMAIN list : localdate(list[i].checked_at) = d}

\* What has not expired is the newest of its bucket.  What has may have been
\* removed and brought back by a report that is not the newest.
Kept ==
  /\ \A h \in Hours : HourExpired(h) \/ IsNewest(OfHour(stored, h), stored, hourly[h])
  /\ \A d \in Days : DayExpired(d) \/ IsNewest(OfDay(stored, d), stored, daily[d])

\* What has not expired had not before: the clock does not run backwards.
LEMMA ExpiredStaysExpired ==
  ASSUME TypeOK, now' \in Nat, now <= now'
  PROVE  /\ \A h \in Hours : HourExpired(h) => HourExpired(h)'
         /\ \A d \in Days : DayExpired(d) => DayExpired(d)'
<1>1. now \in Nat /\ HourColumns \in Nat /\ DayColumns \in Nat
  BY ClockAssumption, HistoryAssumption DEF TypeOK, Slot
<1>2. /\ hour(now) \in Nat /\ hour(now') \in Nat /\ hour(now) <= hour(now')
      /\ localdate(now) \in Nat /\ localdate(now') \in Nat
      /\ localdate(now) <= localdate(now')
  BY <1>1, BucketsAreMonotone
<1> QED
  BY <1>1, <1>2 DEF HourExpired, DayExpired, Hours, Days

\* A report is added to a bucket whose snapshot is the newest so far.
LEMMA AddToBucket ==
  ASSUME NEW list \in Seq(Report), NEW r \in Report,
         NEW S \in SUBSET DOMAIN list, NEW c, IsNewest(S, list, c)
  PROVE  IsNewest(S \union {Len(list) + 1}, Append(list, r),
                  IF c = 0 \/ r.checked_at >= list[c].checked_at THEN Len(list) + 1 ELSE c)
<1> DEFINE i == Len(list) + 1
           longer == Append(list, r)
<1>1. /\ Len(list) \in Nat
      /\ DOMAIN list = 1 .. Len(list)
      /\ longer[i] = r
      /\ \A j \in DOMAIN list : longer[j] = list[j]
  OBVIOUS
<1>2. /\ r.checked_at \in Nat
      /\ \A j \in DOMAIN list : list[j].checked_at \in Nat
  <2>1. \A x \in Report : x.checked_at \in Nat
    BY DEF Report
  <2> QED
    BY <2>1
<1> HIDE DEF longer
<1>3. CASE c = 0 \/ r.checked_at >= list[c].checked_at
  <2>1. ASSUME NEW j \in S
        PROVE  \/ longer[j].checked_at < longer[i].checked_at
               \/ longer[j].checked_at = longer[i].checked_at /\ j <= i
    <3>1. c # 0 /\ c \in S
      BY <1>1 DEF IsNewest
    <3>2. list[j].checked_at <= list[c].checked_at
      BY <1>2, <3>1 DEF IsNewest
    <3>3. longer[j] = list[j] /\ longer[i] = r /\ j <= i
      BY <1>1
    <3>4. list[j].checked_at <= r.checked_at
      BY <1>2, <1>3, <3>1, <3>2
    <3> QED
      BY <1>2, <3>3, <3>4
  <2>2. IsNewest(S \union {i}, longer, i)
    BY <2>1 DEF IsNewest
  <2> QED
    BY <1>3, <2>2 DEF longer
<1>4. CASE ~ (c = 0 \/ r.checked_at >= list[c].checked_at)
  <2>1. c \in S /\ S # {}
    BY <1>4 DEF IsNewest
  <2>2. longer[i].checked_at < longer[c].checked_at
    BY <1>1, <1>2, <1>4, <2>1
  <2>3. \A j \in S : \/ longer[j].checked_at < longer[c].checked_at
                     \/ longer[j].checked_at = longer[c].checked_at /\ j <= c
    BY <1>1, <2>1 DEF IsNewest
  <2>4. IsNewest(S \union {i}, longer, c)
    BY <2>1, <2>2, <2>3 DEF IsNewest
  <2> QED
    BY <1>4, <2>4 DEF longer
<1> QED
  BY <1>3, <1>4

\* The places of the other reports of a bucket stay, and so does what is newest.
LEMMA OtherBuckets ==
  ASSUME NEW list \in Seq(Report), NEW r \in Report,
         NEW S \in SUBSET DOMAIN list, NEW c, IsNewest(S, list, c)
  PROVE  IsNewest(S, Append(list, r), c)
<1>1. \A j \in DOMAIN list : Append(list, r)[j] = list[j]
  OBVIOUS
<1> QED
  BY <1>1 DEF IsNewest

\* The buckets after a report was stored.
LEMMA BucketsOfAppend ==
  ASSUME NEW list \in Seq(Report), NEW r \in Report, NEW b
  PROVE  /\ OfHour(Append(list, r), b) =
              IF hour(r.checked_at) = b THEN OfHour(list, b) \union {Len(list) + 1}
                                        ELSE OfHour(list, b)
         /\ OfDay(Append(list, r), b) =
              IF localdate(r.checked_at) = b THEN OfDay(list, b) \union {Len(list) + 1}
                                             ELSE OfDay(list, b)
<1>1. /\ Len(list) \in Nat
      /\ DOMAIN Append(list, r) = DOMAIN list \union {Len(list) + 1}
      /\ Len(list) + 1 \notin DOMAIN list
      /\ Append(list, r)[Len(list) + 1] = r
      /\ \A j \in DOMAIN list : Append(list, r)[j] = list[j]
  OBVIOUS
<1> QED
  BY <1>1 DEF OfHour, OfDay

\* Storing a report keeps the snapshots that have not expired.
LEMMA SaveKeeps ==
  ASSUME TypeOK, Kept, NEW r \in Report, SaveResult(r)
  PROVE  Kept'
<1> DEFINE i == Len(stored) + 1
           h == hour(r.checked_at)
           d == localdate(r.checked_at)
<1>1. stored \in Seq(Report) /\ stored' = Append(stored, r) /\ now' = now
  BY DEF SaveResult, TypeOK, HistoryTypeOK
<1>2. /\ hourly \in [Hours -> 0 .. Len(stored)] /\ daily \in [Days -> 0 .. Len(stored)]
      /\ h \in Hours /\ d \in Days
  BY ReportBuckets DEF TypeOK, HistoryTypeOK
<1>3. /\ hourly' = IF Supersedes(hourly[h], r) THEN [hourly EXCEPT ![h] = i] ELSE hourly
      /\ daily' = IF Supersedes(daily[d], r) THEN [daily EXCEPT ![d] = i] ELSE daily
  BY DEF SaveResult
<1> HIDE DEF i, h, d
<1>4. ASSUME NEW x \in Hours, ~ HourExpired(x)'
      PROVE  IsNewest(OfHour(stored', x), stored', hourly'[x])
  <2>1. IsNewest(OfHour(stored, x), stored, hourly[x])
    BY <1>1, <1>4 DEF Kept, HourExpired
  <2>2. OfHour(stored, x) \in SUBSET DOMAIN stored
    BY DEF OfHour
  <2>3. CASE x = h
    <3>1. hourly'[x] = IF Supersedes(hourly[x], r) THEN i ELSE hourly[x]
      BY <1>2, <1>3, <2>3
    <3>2. OfHour(stored', x) = OfHour(stored, x) \union {i}
      BY <1>1, <2>3, BucketsOfAppend DEF h, i
    <3> QED
      BY <1>1, <2>1, <2>2, <3>1, <3>2, AddToBucket DEF Supersedes, i
  <2>4. CASE x # h
    <3>1. hourly'[x] = hourly[x]
      BY <1>2, <1>3, <2>4
    <3>2. OfHour(stored', x) = OfHour(stored, x)
      BY <1>1, <2>4, BucketsOfAppend DEF h
    <3> QED
      BY <1>1, <2>1, <2>2, <3>1, <3>2, OtherBuckets
  <2> QED
    BY <2>3, <2>4
<1>5. ASSUME NEW x \in Days, ~ DayExpired(x)'
      PROVE  IsNewest(OfDay(stored', x), stored', daily'[x])
  <2>1. IsNewest(OfDay(stored, x), stored, daily[x])
    BY <1>1, <1>5 DEF Kept, DayExpired
  <2>2. OfDay(stored, x) \in SUBSET DOMAIN stored
    BY DEF OfDay
  <2>3. CASE x = d
    <3>1. daily'[x] = IF Supersedes(daily[x], r) THEN i ELSE daily[x]
      BY <1>2, <1>3, <2>3
    <3>2. OfDay(stored', x) = OfDay(stored, x) \union {i}
      BY <1>1, <2>3, BucketsOfAppend DEF d, i
    <3> QED
      BY <1>1, <2>1, <2>2, <3>1, <3>2, AddToBucket DEF Supersedes, i
  <2>4. CASE x # d
    <3>1. daily'[x] = daily[x]
      BY <1>2, <1>3, <2>4
    <3>2. OfDay(stored', x) = OfDay(stored, x)
      BY <1>1, <2>4, BucketsOfAppend DEF d
    <3> QED
      BY <1>1, <2>1, <2>2, <3>1, <3>2, OtherBuckets
  <2> QED
    BY <2>3, <2>4
<1> QED
  BY <1>4, <1>5 DEF Kept

\* Kept is inductive over the types.
LEMMA KeptStep == TypeOK /\ Kept /\ [Next]_vars => Kept'
<1> SUFFICES ASSUME TypeOK, Kept, [Next]_vars
             PROVE  Kept'
  OBVIOUS
<1>1. ASSUME UNCHANGED <<stored, hourly, daily>>, now' \in Nat, now <= now'
      PROVE  Kept'
  BY <1>1, ExpiredStaysExpired DEF Kept
<1>2. now \in Nat
  BY ClockAssumption DEF TypeOK, Slot
<1>3. ASSUME NEW cleans \in BOOLEAN, BeginTick(cleans)
      PROVE  Kept'
  <2>1. CASE cleanup_history
    <3>1. /\ now' = now /\ stored' = stored
          /\ hourly' = [h \in Hours |-> IF HourExpired(h) THEN 0 ELSE hourly[h]]
          /\ daily' = [d \in Days |-> IF DayExpired(d) THEN 0 ELSE daily[d]]
      BY <1>3, <2>1 DEF BeginTick, cleanup_history
    <3>2. /\ \A h \in Hours : ~ HourExpired(h) => hourly'[h] = hourly[h]
          /\ \A d \in Days : ~ DayExpired(d) => daily'[d] = daily[d]
      BY <3>1
    <3>3. /\ \A h \in Hours : HourExpired(h)' <=> HourExpired(h)
          /\ \A d \in Days : DayExpired(d)' <=> DayExpired(d)
      BY <3>1 DEF HourExpired, DayExpired
    <3> QED
      BY <3>1, <3>2, <3>3 DEF Kept
  <2>2. CASE UNCHANGED history
    BY <1>1, <1>2, <1>3, <2>2 DEF BeginTick, history
  <2> QED
    BY <1>3, <2>1, <2>2 DEF BeginTick
<1>4. CASE Storing
  <2>1. ASSUME NEW at \in 0 .. now + Ahead, NEW ip \in bound.ips \union {NoIp},
               SaveResult([checked_at |-> at, proxy_ip |-> ip])
        PROVE  Kept'
    BY <2>1, NextReportType, SaveKeeps
  <2>2. ASSUME DeleteResults
        PROVE  Kept'
    <3>1. UNCHANGED <<stored, hourly, daily>> /\ now' \in Nat /\ now <= now'
      BY <1>2, <2>2 DEF DeleteResults
    <3> QED
      BY <1>1, <3>1
  <2> QED
    BY <1>4, <2>1, <2>2 DEF Storing
<1>5. CASE Pass
  <2>1. now' \in Nat /\ now <= now' /\ UNCHANGED history
    BY <1>2, <1>5 DEF Pass
  <2> QED
    BY <1>1, <2>1 DEF history
<1>6. CASE EndTick \/ Crash \/ Reporting \/ Setup \/ UNCHANGED vars
  <2>1. now' = now /\ UNCHANGED history
    BY <1>6 DEF EndTick, Crash, Reporting, Setup, vars, maybe_send_summary,
                send_summary_report, LogReport, SaveLastSent, AbandonReport,
                LoadSetting, SaveSetting
  <2> QED
    BY <1>1, <1>2, <2>1 DEF history
<1> QED
  BY <1>3, <1>4, <1>5, <1>6 DEF Next

\* At first there are neither reports nor snapshots.
LEMMA KeptInit == Init => Kept
<1> SUFFICES ASSUME Init
             PROVE  Kept
  OBVIOUS
<1>1. \A b : OfHour(stored, b) = {} /\ OfDay(stored, b) = {}
  BY DEF Init, HistoryInit, OfHour, OfDay
<1> QED
  BY <1>1 DEF Init, HistoryInit, Kept, IsNewest

\* The newest report of a set is what Newest chooses.
LEMMA NewestIsChosen ==
  ASSUME TypeOK, NEW S \in SUBSET DOMAIN stored, NEW c, IsNewest(S, stored, c)
  PROVE  c = Newest(S)
<1> DEFINE Last(i) == \A j \in S : \/ stored[j].checked_at < stored[i].checked_at
                                  \/ /\ stored[j].checked_at = stored[i].checked_at
                                     /\ j <= i
<1>1. \A j \in S : j \in Nat /\ stored[j].checked_at \in Nat
  <2>1. \A x \in Report : x.checked_at \in Nat
    BY DEF Report
  <2>2. stored \in Seq(Report)
    BY DEF TypeOK, HistoryTypeOK
  <2> QED
    BY <2>1, <2>2
<1>2. \A i, j \in S : Last(i) /\ Last(j) => i = j
  BY <1>1
<1>3. CASE S # {}
  <2>1. c \in S /\ Last(c)
    BY <1>3 DEF IsNewest
  <2>2. Newest(S) = CHOOSE i \in S : Last(i)
    BY <1>3 DEF Newest
  <2> HIDE DEF Last
  <2> QED
    BY <1>2, <2>1, <2>2
<1>4. CASE S = {}
  BY <1>4 DEF IsNewest, Newest
<1> QED
  BY <1>3, <1>4

\* A column of a page is what source.get returns for its bucket.
LEMMA ColumnOfBars ==
  ASSUME TypeOK
  PROVE  /\ \A back \in 1 .. DayColumns :
              status_bars[DayColumns + 1 - back] = Snapshot(daily, localdate(now) - back)
         /\ \A back \in 1 .. HourColumns :
              status_bars[DayColumns + HourColumns + 1 - back]
                = Snapshot(hourly, hour(now) - back)
         /\ DOMAIN status_bars = 1 .. DayColumns + HourColumns + 1
<1> DEFINE days == Columns(daily, localdate(now), DayColumns)
           hours == Columns(hourly, hour(now), HourColumns)
           All == {Snapshot(daily, localdate(now) - (DayColumns + 1 - i)) : i \in 1 .. DayColumns}
             \union {Snapshot(hourly, hour(now) - (HourColumns + 1 - i)) : i \in 1 .. HourColumns}
             \union {latest}
<1>1. DayColumns \in Nat /\ HourColumns \in Nat
  BY HistoryAssumption
<1>2. /\ days \in Seq(All) /\ Len(days) = DayColumns
      /\ hours \in Seq(All) /\ Len(hours) = HourColumns
      /\ <<latest>> \in Seq(All) /\ Len(<<latest>>) = 1
  <2>1. days \in [1 .. DayColumns -> All] /\ hours \in [1 .. HourColumns -> All]
    BY DEF Columns
  <2>2. latest \in All
    OBVIOUS
  <2> HIDE DEF days, hours, All
  <2> QED
    BY <1>1, <2>1, <2>2
<1>3. /\ \A i \in 1 .. DayColumns :
           days[i] = Snapshot(daily, localdate(now) - (DayColumns + 1 - i))
      /\ \A i \in 1 .. HourColumns :
           hours[i] = Snapshot(hourly, hour(now) - (HourColumns + 1 - i))
  BY DEF Columns
<1>4. status_bars = (days \o hours) \o <<latest>>
  BY DEF status_bars
<1> HIDE DEF days, hours, All
<1>5. /\ days \o hours \in Seq(All)
      /\ Len(days \o hours) = DayColumns + HourColumns
      /\ \A i \in 1 .. DayColumns : (days \o hours)[i] = days[i]
      /\ \A i \in 1 .. HourColumns : (days \o hours)[DayColumns + i] = hours[i]
  BY <1>1, <1>2
<1>6. /\ DOMAIN status_bars = 1 .. DayColumns + HourColumns + 1
      /\ \A i \in 1 .. DayColumns + HourColumns : status_bars[i] = (days \o hours)[i]
  BY <1>1, <1>2, <1>4, <1>5
<1>7. now \in Nat /\ hour(now) \in Nat /\ localdate(now) \in Nat
  BY ClockAssumption, BucketsAreMonotone DEF TypeOK, Slot
<1>8. ASSUME NEW back \in 1 .. DayColumns
      PROVE  status_bars[DayColumns + 1 - back] = Snapshot(daily, localdate(now) - back)
  <2> DEFINE i == DayColumns + 1 - back
  <2>1. /\ i \in 1 .. DayColumns /\ i \in 1 .. DayColumns + HourColumns
        /\ DayColumns + 1 - i = back
    BY <1>1
  <2> HIDE DEF i
  <2>2. status_bars[i] = Snapshot(daily, localdate(now) - back)
    BY <1>3, <1>5, <1>6, <2>1
  <2> QED
    BY <2>2 DEF i
<1>9. ASSUME NEW back \in 1 .. HourColumns
      PROVE  status_bars[DayColumns + HourColumns + 1 - back]
               = Snapshot(hourly, hour(now) - back)
  <2> DEFINE i == HourColumns + 1 - back
  <2>1. /\ i \in 1 .. HourColumns /\ DayColumns + i \in 1 .. DayColumns + HourColumns
        /\ HourColumns + 1 - i = back
        /\ DayColumns + HourColumns + 1 - back = DayColumns + i
    BY <1>1
  <2> HIDE DEF i
  <2>2. status_bars[DayColumns + i] = Snapshot(hourly, hour(now) - back)
    BY <1>3, <1>5, <1>6, <2>1
  <2> QED
    BY <2>1, <2>2
<1> QED
  BY <1>6, <1>8, <1>9

\* What is displayed has not expired, and has a snapshot if there was a report.
LEMMA KeptIsDisplayed == TypeOK /\ Kept => DisplayedIsNewest
<1> SUFFICES ASSUME TypeOK, Kept
             PROVE  DisplayedIsNewest
  OBVIOUS
<1>1. /\ now \in Nat /\ LastSlot + Ahead \in Nat /\ now <= LastSlot + Ahead
      /\ DayColumns \in Nat /\ HourColumns \in Nat
  BY ClockAssumption, HistoryAssumption DEF TypeOK, Slot
<1>2. /\ hour(now) \in Nat /\ localdate(now) \in Nat
      /\ hour(LastSlot + Ahead) \in Nat /\ localdate(LastSlot + Ahead) \in Nat
      /\ hour(now) <= hour(LastSlot + Ahead)
      /\ localdate(now) <= localdate(LastSlot + Ahead)
  BY <1>1, BucketsAreMonotone
<1>3. DOMAIN hourly = Hours /\ DOMAIN daily = Days /\ stored \in Seq(Report)
  BY DEF TypeOK, HistoryTypeOK
<1>4. \A i \in DOMAIN stored :
        hour(stored[i].checked_at) \in Hours /\ localdate(stored[i].checked_at) \in Days
  BY <1>3, ReportBuckets
<1>5. ASSUME NEW back \in 1 .. DayColumns
      PROVE  Snapshot(daily, localdate(now) - back) = NewestOfDay(localdate(now) - back)
  <2> DEFINE d == localdate(now) - back
  <2>1. d \in Int /\ d <= localdate(LastSlot + Ahead) /\ ~ DayExpired(d)
    BY <1>1, <1>2 DEF DayExpired
  <2> HIDE DEF d
  <2>2. NewestOfDay(d) = Newest(OfDay(stored, d)) /\ OfDay(stored, d) \in SUBSET DOMAIN stored
    BY DEF NewestOfDay, OfDay
  <2>3. CASE d \in Days
    <3>1. IsNewest(OfDay(stored, d), stored, daily[d])
      BY <2>1, <2>3 DEF Kept
    <3>2. daily[d] = Newest(OfDay(stored, d))
      BY <2>2, <3>1, NewestIsChosen
    <3> QED
      BY <1>3, <2>2, <2>3, <3>2 DEF Snapshot, d
  <2>4. CASE d \notin Days
    <3>1. OfDay(stored, d) = {}
      BY <1>4, <2>4 DEF OfDay
    <3> QED
      BY <1>3, <2>2, <2>4, <3>1 DEF Snapshot, Newest, d
  <2> QED
    BY <2>3, <2>4
<1>6. ASSUME NEW back \in 1 .. HourColumns
      PROVE  Snapshot(hourly, hour(now) - back) = NewestOfHour(hour(now) - back)
  <2> DEFINE h == hour(now) - back
  <2>1. h \in Int /\ h <= hour(LastSlot + Ahead) /\ ~ HourExpired(h)
    BY <1>1, <1>2 DEF HourExpired
  <2> HIDE DEF h
  <2>2. NewestOfHour(h) = Newest(OfHour(stored, h)) /\ OfHour(stored, h) \in SUBSET DOMAIN stored
    BY DEF NewestOfHour, OfHour
  <2>3. CASE h \in Hours
    <3>1. IsNewest(OfHour(stored, h), stored, hourly[h])
      BY <2>1, <2>3 DEF Kept
    <3>2. hourly[h] = Newest(OfHour(stored, h))
      BY <2>2, <3>1, NewestIsChosen
    <3> QED
      BY <1>3, <2>2, <2>3, <3>2 DEF Snapshot, h
  <2>4. CASE h \notin Hours
    <3>1. OfHour(stored, h) = {}
      BY <1>4, <2>4 DEF OfHour
    <3> QED
      BY <1>3, <2>2, <2>4, <3>1 DEF Snapshot, Newest, h
  <2> QED
    BY <2>3, <2>4
<1> QED
  BY <1>5, <1>6, ColumnOfBars DEF DisplayedIsNewest

(***************************************************************************)
(* Each column of a page shows the report that was checked last in its     *)
(* hour or day, of all that were ever stored, in whatever order they       *)
(* arrive and whenever the scheduler cleans up, for any number of columns, *)
(* lengths of hours and days and any offset of the local time              *)
(* (services.py 228-277 and 561-580, views.py 96-193).                     *)
(***************************************************************************)
THEOREM NewestIsDisplayed == Spec => []DisplayedIsNewest
<1>1. Init => TypeOK /\ Kept
  BY TypeInit, KeptInit
<1>2. (TypeOK /\ Kept) /\ [Next]_vars => (TypeOK /\ Kept)'
  BY TypeStep, KeptStep
<1> QED
  BY <1>1, <1>2, KeptIsDisplayed, PTL DEF Spec

-----------------------------------------------------------------------------
(* Changes of the address *)

\* The column that a column is compared with is the last one before it that has
\* an address, if there is one.
LEMMA PreviousIsLast ==
  ASSUME NEW bars, NEW k \in Nat
  PROVE  LET known == {j \in 1 .. k - 1 : proxy_ip(bars[j]) # NoIp}
         IN /\ known = {} => Previous(bars, k) = 0
            /\ known # {} => /\ Previous(bars, k) \in known
                             /\ \A j \in known : j <= Previous(bars, k)
<1> DEFINE known == {j \in 1 .. k - 1 : proxy_ip(bars[j]) # NoIp}
           Last(j) == \A other \in known : other <= j
<1>1. Previous(bars, k) = IF known = {} THEN 0 ELSE CHOOSE j \in known : Last(j)
  BY DEF Previous
<1>2. CASE known # {}
  <2>1. known \in SUBSET (0 .. k)
    OBVIOUS
  <2> HIDE DEF known
  <2>2. PICK j \in known : Last(j)
    BY <1>2, <2>1, GreatestExists
  <2> HIDE DEF Last
  <2>3. Last(CHOOSE i \in known : Last(i)) /\ (CHOOSE i \in known : Last(i)) \in known
    BY <2>2
  <2> QED
    BY <1>1, <1>2, <2>3 DEF known, Last
<1> QED
  BY <1>1, <1>2

\* The addresses of the columns are finitely many.
LEMMA AddressesAreFinite ==
  ASSUME NEW n \in Nat, NEW bars, DOMAIN bars = 1 .. n
  PROVE  IsFiniteSet({proxy_ip(bars[k]) : k \in DOMAIN bars} \ {NoIp})
<1> DEFINE all == {proxy_ip(bars[k]) : k \in DOMAIN bars}
           f == [k \in 1 .. n |-> proxy_ip(bars[k])]
<1>1. IsFiniteSet(1 .. n)
  BY FS_Interval
<1>2. f \in Surjection(1 .. n, all)
  BY DEF Surjection
<1> HIDE DEF all, f
<1>3. IsFiniteSet(all)
  BY <1>1, <1>2, FS_Surjection
<1>4. all \ {NoIp} \in SUBSET all
  OBVIOUS
<1>5. IsFiniteSet(all \ {NoIp})
  BY <1>3, <1>4, FS_Subset
<1> QED
  BY <1>5 DEF all

\* Of two columns with different addresses, the first column whose address is not
\* that of all before it is marked.
LEMMA ChangeIsMarked ==
  ASSUME NEW n \in Nat, NEW bars, DOMAIN bars = 1 .. n,
         NEW i \in DOMAIN bars, NEW j \in DOMAIN bars,
         proxy_ip(bars[i]) # NoIp, proxy_ip(bars[j]) # NoIp,
         proxy_ip(bars[i]) # proxy_ip(bars[j])
  PROVE  mark_ip_changes(bars) # {}
<1> DEFINE ip(k) == proxy_ip(bars[k])
           Changed(k) == /\ ip(k) # NoIp
                         /\ \E l \in 1 .. k - 1 : ip(l) # NoIp /\ ip(l) # ip(k)
           changed == {k \in DOMAIN bars : Changed(k)}
<1> HIDE DEF ip
<1>1. changed \in SUBSET Nat
  OBVIOUS
<1>2. i \in changed \/ j \in changed
  <2>1. i < j \/ j < i
    BY DEF ip
  <2> QED
    BY <2>1 DEF ip
<1>3. PICK k \in changed : \A l \in changed : k <= l
  <2> HIDE DEF changed
  <2> QED
    BY <1>1, <1>2, LeastExists
<1>4. PICK l \in 1 .. k - 1 : ip(l) # NoIp /\ ip(l) # ip(k)
  BY <1>3
<1> DEFINE p == Previous(bars, k)
<1>5. p \in 1 .. k - 1 /\ ip(p) # NoIp /\ l <= p
  BY <1>3, <1>4, PreviousIsLast DEF ip
<1> HIDE DEF p
<1>6. ip(p) # ip(k)
  <2> SUFFICES ASSUME ip(p) = ip(k)
               PROVE  FALSE
    OBVIOUS
  <2>1. l \in 1 .. p - 1
    BY <1>3, <1>4, <1>5
  <2>2. p \in changed
    BY <1>3, <1>4, <1>5, <2>1
  <2> QED
    BY <1>3, <1>5, <2>2
<1>7. k \in mark_ip_changes(bars)
  BY <1>3, <1>5, <1>6 DEF mark_ip_changes, ip, p
<1> QED
  BY <1>7

\* And what is marked differs from a column before it.
LEMMA MarkedIsChange ==
  ASSUME NEW n \in Nat, NEW bars, DOMAIN bars = 1 .. n,
         NEW k \in mark_ip_changes(bars)
  PROVE  \E j \in DOMAIN bars : /\ proxy_ip(bars[j]) # NoIp
                                /\ proxy_ip(bars[k]) # NoIp
                                /\ proxy_ip(bars[j]) # proxy_ip(bars[k])
<1> DEFINE p == Previous(bars, k)
<1>1. /\ k \in 1 .. n /\ p # 0
      /\ proxy_ip(bars[k]) # NoIp
      /\ proxy_ip(bars[p]) # NoIp
      /\ proxy_ip(bars[p]) # proxy_ip(bars[k])
  BY DEF mark_ip_changes
<1>2. p \in 1 .. k - 1
  BY <1>1, PreviousIsLast
<1> HIDE DEF p
<1>3. p \in DOMAIN bars
  BY <1>1, <1>2
<1> QED
  BY <1>1, <1>3

\* So the marks of a bar are those of its changes.
LEMMA MarksAreChanges == TypeOK => ChangesAreMarked
<1> SUFFICES ASSUME TypeOK
             PROVE  ChangesAreMarked
  OBVIOUS
<1> DEFINE bars == status_bars
           known == {proxy_ip(bars[k]) : k \in DOMAIN bars} \ {NoIp}
           n == DayColumns + HourColumns + 1
<1>1. n \in Nat /\ DOMAIN bars = 1 .. n
  BY HistoryAssumption, ColumnOfBars
<1> HIDE DEF bars, n
<1>2. IsFiniteSet(known)
  BY <1>1, AddressesAreFinite
<1>3. ASSUME mark_ip_changes(bars) # {}
      PROVE  Cardinality(known) > 1
  <2>1. PICK k \in mark_ip_changes(bars) : TRUE
    BY <1>3
  <2>2. PICK j \in DOMAIN bars : /\ proxy_ip(bars[j]) # NoIp
                                 /\ proxy_ip(bars[k]) # NoIp
                                 /\ proxy_ip(bars[j]) # proxy_ip(bars[k])
    BY <1>1, <2>1, MarkedIsChange
  <2>3. k \in DOMAIN bars
    BY <2>1 DEF mark_ip_changes
  <2>4. proxy_ip(bars[j]) \in known /\ proxy_ip(bars[k]) \in known
    BY <2>2, <2>3
  <2> HIDE DEF known
  <2>5. Cardinality(known) \in Nat /\ Cardinality(known) # 0
    BY <1>2, <2>4, FS_CardinalityType, FS_EmptySet
  <2>6. Cardinality(known) # 1
    BY <1>2, <2>2, <2>4, FS_Singleton
  <2> QED
    BY <2>5, <2>6
<1>4. ASSUME Cardinality(known) > 1
      PROVE  mark_ip_changes(bars) # {}
  <2>1. PICK a \in known, b \in known : a # b
    <3> HIDE DEF known
    <3>1. known # {}
      BY <1>4, FS_EmptySet
    <3>2. PICK a \in known : TRUE
      BY <3>1
    <3>3. Cardinality(known) \in Nat /\ Cardinality({a}) = 1
      BY <1>2, FS_CardinalityType, FS_Singleton
    <3>4. known # {a}
      BY <1>4, <3>3
    <3> QED
      BY <3>2, <3>4
  <2>2. PICK i \in DOMAIN bars, j \in DOMAIN bars :
          a = proxy_ip(bars[i]) /\ b = proxy_ip(bars[j])
    BY <2>1
  <2> QED
    BY <1>1, <2>1, <2>2, ChangeIsMarked
<1> QED
  BY <1>3, <1>4 DEF ChangesAreMarked, bars

(***************************************************************************)
(* A bar has a marked column exactly if two of its columns have different  *)
(* addresses, however many columns without an address are between them     *)
(* (views.py 196-206).                                                     *)
(***************************************************************************)
THEOREM AddressChangesAreMarked == Spec => []ChangesAreMarked
<1> QED
  BY SchedulerTypeCorrect, MarksAreChanges, PTL

-----------------------------------------------------------------------------
(* The summary *)

\* A time that the row or the form has is past, and one of this hour means that a
\* summary was sent in it.
Remembers(last) ==
  last # Never => last <= now /\ (last >= local_hour_start(now) => sent)

\* maybe_send_summary goes on in the hour in which it was called, and what it
\* does after the sending it does with a summary sent.
Looking ==
  /\ report.pc = "none" => report = NoReport
  /\ report.pc # "none" => now - report.wait = local_hour_start(now)
  /\ report.pc \in {"log", "save"} => sent
  /\ Remembers(setting.summary_last_sent_at)
  /\ Remembers(form.last)
  /\ LookedIsSent

\* A summary that was sent and is not remembered is about to be, or excused.
Remembering ==
  /\ report.pc = "send" /\ sent => excused
  /\ sent /\ ~ SentSince(local_hour_start(now)) => excused \/ report.pc \in {"log", "save"}

\* The next slot is in the same hour or begins one.
LEMMA NextSlot ==
  ASSUME NEW t \in Nat
  PROVE  /\ local_hour_start(t) \in Int /\ local_hour_start(t) <= t
         /\ t - local_hour_start(t) < SlotsPerHour
         /\ IF t - local_hour_start(t) + 1 < SlotsPerHour
            THEN local_hour_start(t + 1) = local_hour_start(t)
            ELSE local_hour_start(t + 1) = t + 1
<1>1. ASSUME NEW d \in Nat \ {0}, NEW a \in Nat
      PROVE  /\ a % d \in Nat /\ a % d < d
             /\ (a + 1) % d = IF (a % d) + 1 < d THEN (a % d) + 1 ELSE 0
  OBVIOUS
<1> DEFINE m == (t + Offset) % SlotsPerHour
           next == (t + 1 + Offset) % SlotsPerHour
<1>2. /\ t + Offset \in Nat /\ t + 1 + Offset = (t + Offset) + 1
      /\ SlotsPerHour \in Nat \ {0}
  BY ClockAssumption
<1>3. /\ m \in Nat /\ m < SlotsPerHour
      /\ next = IF m + 1 < SlotsPerHour THEN m + 1 ELSE 0
  BY <1>1, <1>2
<1>4. local_hour_start(t) = t - m /\ local_hour_start(t + 1) = (t + 1) - next
  BY DEF local_hour_start
<1> HIDE DEF m, next
<1> QED
  BY <1>2, <1>3, <1>4

\* What the row and the form remember are numbers, also when they remember nothing.
LEMMA SummaryTypes ==
  ASSUME TypeOK
  PROVE  /\ setting.summary_last_sent_at \in Nat /\ form.last \in Nat
BY ClockAssumption DEF TypeOK, SummaryTypeOK, Setting, Slot, Never

\* At first nobody has looked.
LEMMA LookingInit == Init => Looking
BY DEF Init, SummaryInit, Looking, Remembers, LookedIsSent, NoReport, NoForm

\* What is remembered stays past, and says nothing of an hour that begins.
LEMMA RemembersLater ==
  ASSUME TypeOK, Pass, NEW last \in Nat, Remembers(last)
  PROVE  Remembers(last)'
<1>1. now \in Nat /\ now' = now + 1
  BY ClockAssumption DEF Pass, TypeOK, Slot
<1>2. /\ local_hour_start(now) \in Int
      /\ \/ local_hour_start(now') = local_hour_start(now)
         \/ local_hour_start(now') = now + 1
  BY <1>1, NextSlot
<1>3. local_hour_start(now') = local_hour_start(now) => sent' = sent
  BY DEF Pass, NewHour, TypeOK, SummaryTypeOK
<1> QED
  BY <1>1, <1>2, <1>3 DEF Remembers

\* While a summary is under way no hour begins.
LEMMA SameHour ==
  ASSUME TypeOK, Looking, Pass, report # NoReport
  PROVE  /\ report' = [report EXCEPT !.wait = report.wait + 1]
         /\ report'.wait = report.wait + 1
         /\ report'.pc = report.pc
         /\ now' - report'.wait = local_hour_start(now')
         /\ local_hour_start(now') = local_hour_start(now)
<1>1. now \in Nat /\ now' = now + 1 /\ report.wait \in 0 .. MaxWait
  BY ClockAssumption DEF Pass, TypeOK, SummaryTypeOK, Slot
<1>2. /\ report' = [report EXCEPT !.wait = report.wait + 1]
      /\ report.wait < MaxWait
  BY DEF Pass, Wait
<1>3. report'.wait = report.wait + 1 /\ report'.pc = report.pc
  BY <1>2 DEF TypeOK, SummaryTypeOK
<1>4. now - report.wait = local_hour_start(now)
  BY DEF Looking
<1>5. now - local_hour_start(now) + 1 < SlotsPerHour
  BY <1>1, <1>2, <1>4, SummaryAssumption, ClockAssumption
<1>6. local_hour_start(now') = local_hour_start(now)
  BY <1>1, <1>5, NextSlot
<1> QED
  BY <1>1, <1>2, <1>3, <1>4, <1>6

\* Looking is inductive over the types.
LEMMA LookingStep == TypeOK /\ Looking /\ [Next]_vars => Looking'
<1> SUFFICES ASSUME TypeOK, Looking, [Next]_vars
             PROVE  Looking'
  OBVIOUS
<1>0. /\ now \in Nat /\ local_hour_start(now) \in Int /\ local_hour_start(now) <= now
      /\ setting.summary_last_sent_at \in Nat /\ form.last \in Nat
  BY SummaryTypes, NextSlot, ClockAssumption DEF TypeOK, Slot
<1>1. ASSUME UNCHANGED <<now, summary>>
      PROVE  Looking'
  BY <1>1 DEF Looking, Remembers, LookedIsSent, summary
<1>2. CASE EndTick
  <2>1. /\ report = NoReport /\ UNCHANGED <<now, setting, form, sent, excused>>
        /\ looked' = (looked \/ (setting.on /\ InWindow))
        /\ report' = IF setting.on /\ InWindow /\ ~ SentSince(local_hour_start(now))
                     THEN [report EXCEPT !.pc = "send"] ELSE report
    BY <1>2 DEF EndTick, maybe_send_summary
  <2>2. CASE setting.on /\ InWindow /\ ~ SentSince(local_hour_start(now))
    <3>1. report'.pc = "send" /\ report'.wait = 0
      BY <2>1, <2>2 DEF NoReport
    <3>2. now - report'.wait = local_hour_start(now)
      BY <1>0, <2>2, <3>1 DEF InWindow
    <3> QED
      BY <2>1, <3>1, <3>2 DEF Looking, Remembers, LookedIsSent
  <2>3. CASE ~ (setting.on /\ InWindow /\ ~ SentSince(local_hour_start(now)))
    <3>1. report' = report
      BY <2>1, <2>3
    <3>2. setting.on /\ InWindow => sent
      BY <2>3 DEF Looking, Remembers, SentSince
    <3> QED
      BY <2>1, <3>1, <3>2 DEF Looking, Remembers, LookedIsSent
  <2> QED
    BY <2>2, <2>3
<1>3. CASE Reporting
  <2>1. CASE send_summary_report
    <3>1. report'.pc = "log" /\ report'.wait = report.wait /\ report.pc # "none"
      BY <2>1 DEF send_summary_report, TypeOK, SummaryTypeOK
    <3>2. sent' /\ UNCHANGED <<now, setting, form, looked>>
      BY <2>1 DEF send_summary_report
    <3> QED
      BY <3>1, <3>2 DEF Looking, Remembers, LookedIsSent
  <2>2. CASE LogReport
    <3>1. report'.pc = "save" /\ report'.wait = report.wait /\ report.pc = "log"
      BY <2>2 DEF LogReport, TypeOK, SummaryTypeOK
    <3>2. UNCHANGED <<now, setting, form, looked, sent>>
      BY <2>2 DEF LogReport
    <3> QED
      BY <3>1, <3>2 DEF Looking, Remembers, LookedIsSent
  <2>3. CASE SaveLastSent
    <3>1. report'.pc = "none" /\ report' = NoReport /\ sent
      BY <2>3 DEF SaveLastSent, NoReport, Looking
    <3>2. UNCHANGED <<now, form, looked, sent>> /\ setting'.summary_last_sent_at = now
      BY <2>3 DEF SaveLastSent, TypeOK, SummaryTypeOK, Setting
    <3> QED
      BY <1>0, <3>1, <3>2 DEF Looking, Remembers, LookedIsSent
  <2>4. CASE AbandonReport
    <3>1. /\ report'.pc = "none" /\ report' = NoReport
          /\ looked' = (looked /\ report.pc # "send")
          /\ UNCHANGED <<now, setting, form, sent>>
      BY <2>4 DEF AbandonReport, NoReport
    <3> QED
      BY <3>1 DEF Looking, Remembers, LookedIsSent
  <2> QED
    BY <1>3, <2>1, <2>2, <2>3, <2>4 DEF Reporting
<1>4. CASE Setup
  <2>1. CASE LoadSetting
    <3>1. /\ form'.last = setting.summary_last_sent_at
          /\ UNCHANGED <<now, setting, report, looked, sent>>
      BY <2>1 DEF LoadSetting
    <3> QED
      BY <3>1 DEF Looking, Remembers, LookedIsSent
  <2>2. ASSUME NEW on \in BOOLEAN, SaveSetting(on)
        PROVE  Looking'
    <3>1. /\ setting'.summary_last_sent_at = form.last /\ form'.last = Never
          /\ UNCHANGED <<now, report, looked, sent>>
      BY <2>2 DEF SaveSetting, NoForm
    <3> QED
      BY <3>1 DEF Looking, Remembers, LookedIsSent, Never
  <2> QED
    BY <1>4, <2>1, <2>2 DEF Setup
<1>5. CASE Pass
  <2>1. UNCHANGED <<setting, form>>
    BY <1>5 DEF Pass
  <2>2. /\ Remembers(setting.summary_last_sent_at)'
        /\ Remembers(form.last)'
    <3>1. \A last \in Nat : Remembers(last) => Remembers(last)'
      BY <1>5, RemembersLater
    <3>2. Remembers(setting.summary_last_sent_at) /\ Remembers(form.last)
      BY DEF Looking
    <3> QED
      BY <1>0, <2>1, <3>1, <3>2 DEF Remembers
  <2>3. CASE report = NoReport
    <3>1. report' = report /\ report.pc = "none"
      BY <1>5, <2>3 DEF Pass, Wait, NoReport
    <3>2. looked' => looked /\ sent' = sent
      BY <1>5 DEF Pass, NewHour, TypeOK, SummaryTypeOK
    <3> QED
      BY <2>2, <3>1, <3>2 DEF Looking, LookedIsSent
  <2>4. CASE report # NoReport
    <3>1. /\ report'.pc = report.pc /\ report.pc # "none"
          /\ now' - report'.wait = local_hour_start(now')
          /\ local_hour_start(now') = local_hour_start(now)
      BY <1>5, <2>4, SameHour DEF Looking
    <3>2. looked' = looked /\ sent' = sent
      BY <1>5, <3>1 DEF Pass, NewHour, TypeOK, SummaryTypeOK
    <3> QED
      BY <2>2, <3>1, <3>2 DEF Looking, LookedIsSent
  <2> QED
    BY <2>3, <2>4
<1>6. CASE (\E cleans \in BOOLEAN : BeginTick(cleans)) \/ Crash \/ Storing \/ UNCHANGED vars
  <2>1. ASSUME NEW at \in 0 .. now + Ahead, NEW ip \in bound.ips \union {NoIp},
               SaveResult([checked_at |-> at, proxy_ip |-> ip])
        PROVE  now' = now
    BY <2>1 DEF SaveResult
  <2>2. UNCHANGED <<now, summary>>
    BY <1>6, <2>1 DEF BeginTick, Crash, Storing, DeleteResults, vars
  <2> QED
    BY <1>1, <2>2
<1> QED
  BY <1>2, <1>3, <1>4, <1>5, <1>6 DEF Next

(***************************************************************************)
(* A summary is sent in every hour in whose window the scheduler comes to  *)
(* it, unless it is abandoned before: neither what is remembered of former *)
(* hours nor what a form writes back suppresses it, provided that sending  *)
(* takes less than an hour (services.py 623-635, views.py 446-453).        *)
(***************************************************************************)
THEOREM LookedAtIsSent == Spec => []LookedIsSent
<1>1. Init => TypeOK /\ Looking
  BY TypeInit, LookingInit
<1>2. (TypeOK /\ Looking) /\ [Next]_vars => (TypeOK /\ Looking)'
  BY TypeStep, LookingStep
<1>3. Looking => LookedIsSent
  BY DEF Looking
<1> QED
  BY <1>1, <1>2, <1>3, PTL DEF Spec

\* At first nothing was sent.
LEMMA RememberingInit == Init => Remembering
BY DEF Init, SummaryInit, Remembering, NoReport

\* Remembering is inductive over the types.
LEMMA RememberingStep == TypeOK /\ Remembering /\ [Next]_vars => Remembering'
<1> SUFFICES ASSUME TypeOK, Remembering, [Next]_vars
             PROVE  Remembering'
  OBVIOUS
<1>0. /\ now \in Nat /\ now # Never
      /\ local_hour_start(now) \in Int /\ local_hour_start(now) <= now
  BY NextSlot, ClockAssumption DEF TypeOK, Slot, Never
<1>1. ASSUME UNCHANGED <<now, summary>>
      PROVE  Remembering'
  BY <1>1 DEF Remembering, SentSince, summary
<1>2. CASE EndTick
  <2>1. /\ report = NoReport /\ UNCHANGED <<now, setting, form, sent, excused>>
        /\ report' = IF setting.on /\ InWindow /\ ~ SentSince(local_hour_start(now))
                     THEN [report EXCEPT !.pc = "send"] ELSE report
    BY <1>2 DEF EndTick, maybe_send_summary
  <2>2. report.pc = "none"
    BY <2>1 DEF NoReport
  <2> QED
    BY <2>1, <2>2 DEF Remembering, SentSince
<1>3. CASE Reporting
  <2>1. CASE send_summary_report
    <3>1. report'.pc = "log"
      BY <2>1 DEF send_summary_report, TypeOK, SummaryTypeOK
    <3> QED
      BY <3>1 DEF Remembering
  <2>2. CASE LogReport
    <3>1. report'.pc = "save"
      BY <2>2 DEF LogReport, TypeOK, SummaryTypeOK
    <3> QED
      BY <3>1 DEF Remembering
  <2>3. CASE SaveLastSent
    <3>1. report'.pc = "none" /\ now' = now /\ setting'.summary_last_sent_at = now
      BY <2>3 DEF SaveLastSent, NoReport, TypeOK, SummaryTypeOK, Setting
    <3>2. SentSince(local_hour_start(now))'
      BY <1>0, <3>1 DEF SentSince, Never
    <3> QED
      BY <3>1, <3>2 DEF Remembering
  <2>4. CASE AbandonReport
    <3>1. /\ report'.pc = "none"
          /\ excused' = (excused \/ report.pc \in {"log", "save"})
          /\ UNCHANGED <<now, setting, form, sent>>
      BY <2>4 DEF AbandonReport, NoReport
    <3> QED
      BY <3>1 DEF Remembering, SentSince
  <2> QED
    BY <1>3, <2>1, <2>2, <2>3, <2>4 DEF Reporting
<1>4. CASE Setup
  <2>1. CASE LoadSetting
    BY <2>1 DEF LoadSetting, Remembering, SentSince
  <2>2. ASSUME NEW on \in BOOLEAN, SaveSetting(on)
        PROVE  Remembering'
    <3>1. /\ setting'.summary_last_sent_at = form.last
          /\ excused' = (excused \/ (sent /\ form.last # setting.summary_last_sent_at))
          /\ UNCHANGED <<now, report, sent>>
      BY <2>2 DEF SaveSetting
    <3> QED
      BY <3>1 DEF Remembering, SentSince, Never
  <2> QED
    BY <1>4, <2>1, <2>2 DEF Setup
<1>5. CASE Pass
  <2>1. report'.pc = report.pc /\ setting' = setting
    BY <1>5 DEF Pass, Wait, TypeOK, SummaryTypeOK
  <2>2. CASE local_hour_start(now') = local_hour_start(now)
    <3>1. sent' = sent /\ excused' = excused
      BY <1>5, <2>2 DEF Pass, NewHour, TypeOK, SummaryTypeOK
    <3> QED
      BY <2>1, <2>2, <3>1 DEF Remembering, SentSince, Never
  <2>3. CASE local_hour_start(now') # local_hour_start(now)
    BY <1>5, <2>3 DEF Pass, NewHour, Remembering
  <2> QED
    BY <2>2, <2>3
<1>6. CASE (\E cleans \in BOOLEAN : BeginTick(cleans)) \/ Crash \/ Storing \/ UNCHANGED vars
  <2>1. ASSUME NEW at \in 0 .. now + Ahead, NEW ip \in bound.ips \union {NoIp},
               SaveResult([checked_at |-> at, proxy_ip |-> ip])
        PROVE  now' = now
    BY <2>1 DEF SaveResult
  <2>2. UNCHANGED <<now, summary>>
    BY <1>6, <2>1 DEF BeginTick, Crash, Storing, DeleteResults, vars
  <2> QED
    BY <1>1, <2>2
<1> QED
  BY <1>2, <1>3, <1>4, <1>5, <1>6 DEF Next

(***************************************************************************)
(* A second summary is sent in an hour only after a crash or a lock kept   *)
(* the time of the first from being saved, or a settings form wrote an     *)
(* older one over it (services.py 623-635, views.py 446-453).              *)
(***************************************************************************)
THEOREM SummaryIsSentOnce == Spec => SentOnce
<1>1. Init => TypeOK /\ Remembering
  BY TypeInit, RememberingInit
<1>2. (TypeOK /\ Remembering) /\ [Next]_vars => (TypeOK /\ Remembering)'
  BY TypeStep, RememberingStep
<1>3. TypeOK /\ Remembering /\ [Next]_vars =>
        [report.pc = "send" /\ report'.pc = "log" /\ sent => excused]_vars
  BY DEF Remembering
<1> QED
  BY <1>1, <1>2, <1>3, PTL DEF Spec, SentOnce
=============================================================================
