----------------------------- MODULE Statistics -----------------------------
(***************************************************************************)
(* The hourly counters of src/statistics/statistics.ts, what the panel     *)
(* shows of them, and the growth of a companion (growth.ts).  Time is      *)
(* counted in hours, the local day is the one of the offset at the moment  *)
(* of asking, and offsets are whole hours (the bucket of an hour belongs   *)
(* to one day) and change by travel only.  A record counts one.            *)
(***************************************************************************)
EXTENDS Integers, FiniteSets, FiniteSetsExt, Functions

CONSTANTS
    DayHours, WeekDays, MonthDays, MonthStep, KeepDays,  \* 24, 7, 30, 6 and 35 in the code
    UsualActive, PriorDays, InputDays, UsualMin, HistoryDays,  \* growth.ts
    Zones,                 \* offsets from UTC, in hours
    LastHour, MaxRecords  \* bounds of the clock and of what is recorded

VARIABLES
    now, zone,
    saved,  \* localStorage: the version found there, and its buckets
    mem,    \* liveData: the buckets by their hour
    flush,  \* does the flush timer run
    noted   \* history: the records, safe once they were written

vars == <<now, zone, saved, mem, flush, noted>>

Kinds == {"keys", "clicks", "active", "pomodoros"}
Empty == [k \in Kinds |-> 0]

\* startOfLocalDay, localDaySerial.
DayOf(t) == (t + zone) \div DayHours
StartOfDay(ago) == (DayOf(now) - ago) * DayHours - zone

\* loadStatistics and normalizeBucket: the first version counted moves as clicks.
Load(file) ==
    [h \in DOMAIN file.buckets |->
        IF file.version = 1 THEN [file.buckets[h] EXCEPT !["clicks"] = 0] ELSE file.buckets[h]]

Written(buckets) == [version |-> 3, buckets |-> buckets]

Init ==
    /\ now = 0 /\ zone \in Zones /\ flush = FALSE
    /\ \E v \in 1 .. 3 :
        /\ saved = [version |-> v, buckets |-> [h \in {0} |-> [Empty EXCEPT !["clicks"] = 1]]]
        /\ noted = IF v = 1 THEN {} ELSE {[n |-> 0, at |-> 0, kind |-> "clicks", safe |-> TRUE]}
    /\ mem = Load(saved)

\* Mutant: the month shown is forgotten a day too early.
TrimShort(buckets, t) ==
    Restrict(buckets, {h \in DOMAIN buckets : h >= t - (MonthDays - 1) * DayHours})

\* trimStatistics.
Trim(buckets, t) ==
    Restrict(buckets, {h \in DOMAIN buckets : h >= t - KeepDays * DayHours})

\* currentBucket, and the count added to it.
Counted(t, kind) ==
    LET kept == Trim(mem, t)
        old == IF t \in DOMAIN kept THEN kept[t] ELSE Empty
    IN [h \in DOMAIN kept \cup {t} |-> IF h = t THEN [old EXCEPT ![kind] = @ + 1] ELSE kept[h]]

Note(t, kind) ==
    /\ Cardinality(noted) < MaxRecords
    /\ noted' = noted \cup {[n |-> Cardinality(noted) + 1, at |-> t, kind |-> kind, safe |-> FALSE]}
AllSafe(records) == {[r EXCEPT !.safe = TRUE] : r \in records}

\* Mutant: a timer is taken for running until it fires.
ScheduleFlushed == UNCHANGED flush

\* scheduleFlush.
ScheduleFlush == flush' = TRUE

\* recordInputStatistics, recordActivityStatistics.
Record(kind) ==
    /\ Note(now, kind)
    /\ mem' = Counted(now, kind)
    /\ ScheduleFlush
    /\ UNCHANGED <<now, zone, saved>>

\* recordPomodoroStatistics, for one that rang at t; it is written at once.
RecordPomodoro(t) ==
    /\ t \in 0 .. now /\ Cardinality(noted) < MaxRecords
    /\ mem' = Counted(t, "pomodoros")
    /\ saved' = Written(mem') /\ flush' = FALSE
    /\ noted' = AllSafe(noted \cup
                    {[n |-> Cardinality(noted) + 1, at |-> t, kind |-> "pomodoros", safe |-> TRUE]})
    /\ UNCHANGED <<now, zone>>

\* flushStatistics, by its timer or before the window closes.
Flush ==
    /\ flush
    /\ saved' = Written(mem) /\ flush' = FALSE
    /\ noted' = AllSafe(noted)
    /\ UNCHANGED <<now, zone, mem>>

\* The app ends without a beforeunload, and is started again.
Crash ==
    /\ flush
    /\ mem' = Load(saved) /\ flush' = FALSE
    /\ noted' = {r \in noted : r.safe}
    /\ UNCHANGED <<now, zone, saved>>

\* The flush timer runs for 15 seconds.
Tick ==
    /\ ~flush
    /\ now < LastHour
    /\ now' = now + 1
    /\ UNCHANGED <<zone, saved, mem, flush, noted>>

Travel ==
    /\ zone' \in Zones \ {zone}
    /\ UNCHANGED <<now, saved, mem, flush, noted>>

Next ==
    \/ \E kind \in Kinds \ {"pomodoros"} : Record(kind)
    \/ \E ago \in {0, 1, DayHours} : RecordPomodoro(now - ago)
    \/ Flush \/ Crash \/ Tick \/ Travel
Spec == Init /\ [][Next]_vars /\ WF_vars(Flush)
-----------------------------------------------------------------------------
(* What is shown: aggregateStatistics and growthLevel.                     *)

\* The sum of some kinds over some buckets, counted one by one.
Total(hours, kinds) ==
    Cardinality({c \in hours \X kinds \X (1 .. MaxRecords) : c[3] <= mem[c[1]][c[2]]})
Between(from, to) == {h \in DOMAIN mem : h >= from /\ h < to}

Ranges == {"day", "week", "month"}
Start(range) ==
    StartOfDay(CASE range = "day" -> 0 [] range = "week" -> WeekDays - 1 [] range = "month" -> MonthDays - 1)

\* Mutant: the days of the bars are those of UTC.
BarOfUTC(range, h) == (h \div DayHours) - (Start(range) \div DayHours)

\* The bar of a bucket (those of the day are left out).
BarOf(range, h) == (DayOf(h) - DayOf(Start(range))) \div (IF range = "week" THEN 1 ELSE MonthStep)

Shown(range) == Between(Start(range), now + 1)
Bar(range, i, kind) == Total({h \in Shown(range) : BarOf(range, h) = i}, {kind})

Active == {"active"}
Input == {"keys", "clicks"}

\* Mutant: a day is the last 24 hours.
DaySliding(ago, kinds) == Total(Between(now + 1 - (ago + 1) * DayHours, now + 1 - ago * DayHours), kinds)

Day(ago, kinds) == Total(Between(StartOfDay(ago), StartOfDay(ago - 1)), kinds)

\* Twice the median.
Median2(values, keys) ==
    LET n == Cardinality(keys)
        before(d) == {e \in keys : values[e] < values[d] \/ (values[e] = values[d] /\ e < d)}
        nth(i) == values[CHOOSE d \in keys : Cardinality(before(d)) = i]
    IN nth((n - 1) \div 2) + nth(n \div 2)

\* The days usualDay looks at.
History == 1 .. HistoryDays

\* The busyness of today as a fraction of a usual day: 3/5 of it is time and
\* 2/5 input, once there is history.
Growth ==
    LET active == [ago \in History |-> Day(ago, Active)]
        input == [ago \in History |-> Day(ago, Input)]
        usual == {ago \in History : active[ago] >= UsualMin}
        n == Cardinality(usual)
        den == 2 * PriorDays * UsualActive + (IF n = 0 THEN 0 ELSE n * Median2(active, usual))
        num == 2 * (PriorDays + n) * Day(0, Active)
        typed == IF n >= InputDays THEN Median2(input, usual) ELSE 0
    IN IF typed = 0 THEN [num |-> num, den |-> den]
       ELSE [num |-> 3 * num * typed + 4 * Day(0, Input) * den, den |-> 5 * den * typed]

\* In twentieths, rounded; 3/2 of a usual day is the most.
GrowthLevel == Min({20, (80 * Growth.num + 3 * Growth.den) \div (6 * Growth.den)})
-----------------------------------------------------------------------------
TypeOK ==
    /\ now \in 0 .. LastHour /\ zone \in Zones /\ flush \in BOOLEAN
    /\ saved.version \in 1 .. 3
    /\ \A buckets \in {mem, saved.buckets} : \A h \in DOMAIN buckets : buckets[h] \in [Kinds -> 0 .. MaxRecords]

NotedIn(day, step, kind) ==
    Cardinality({r \in noted : r.kind = kind /\ DayOf(r.at) \in day .. (day + step - 1) /\ r.at <= now})

(* Every bar of the week and of the month is what was recorded on its local *)
(* days, by the calendar of the place the user is in now, whatever was      *)
(* trimmed, restarted or crossed in between (statistics.ts:183-226).        *)
BarsAreDays ==
    \A range \in {"week", "month"}, kind \in Kinds :
        LET step == IF range = "week" THEN 1 ELSE MonthStep
            bars == IF range = "week" THEN WeekDays ELSE MonthDays \div MonthStep
        IN \A i \in 0 .. bars - 1 :
               Bar(range, i, kind) = NotedIn(DayOf(Start(range)) + i * step, step, kind)

(* What is not written yet will be: nothing recorded waits for a later      *)
(* record to be saved (statistics.ts:117-123).                              *)
UnsavedIsScheduled == mem # Load(saved) => flush

(* In one day, at one place, a companion never shrinks while the app runs,  *)
(* and starts the next day at its normal size (growth.ts:3-5).              *)
Grows ==
    \/ zone' # zone
    \/ flush /\ mem' = Load(saved) /\ mem' # mem
    \/ IF DayOf(now)' = DayOf(now) THEN GrowthLevel' >= GrowthLevel ELSE GrowthLevel' = 0
GrowsThroughTheDay == [][Grows]_vars

(* The invariant of the runs: every bar is the sum of its days, and nothing *)
(* unsaved waits without a timer.                                           *)
StatisticsSafe == TypeOK /\ BarsAreDays /\ UnsavedIsScheduled
=============================================================================
