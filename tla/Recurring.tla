----------------------------- MODULE Recurring -----------------------------
(***************************************************************************)
(* Templates that file themselves.  Saving a schedule computes its first    *)
(* day; every replica's loop claims the schedules that are due and moves    *)
(* them on in one transaction, and files the issues in transactions of      *)
(* their own.  The days pass, a pass may die anywhere.                      *)
(*                                                                         *)
(* Which days: domain/recurrence.py.  A day is the number of days since    *)
(* Monday, 1 January 2024, and a month the number of months since then.    *)
(***************************************************************************)
EXTENDS Integers, FiniteSets

CONSTANTS
  Templates, Rules,
  Clock,       \* the days that CURRENT_DATE takes; it may pass some over
  Sweepers,    \* replicas running ScheduleWorker
  RecurrenceBatch,
  MaxSaves,    \* bound: times a schedule is saved
  None

VARIABLES
  today,
  schedule,    \* issue_recurrences; from is history: the day nextRunOn was computed after
  saves,       \* history: how often each schedule was saved, its version
  pass,        \* the pass of each sweeper
  filed,       \* history: <<template, version, day>> of the issues filed
  again        \* history: those filed more than once

recurringVars == <<today, schedule, saves, pass, filed, again>>

-----------------------------------------------------------------------------
(* The calendar and its rules.                                               *)
\* days_in_month of the month m.
DaysIn(m) ==
  LET year == 2024 + m \div 12
      month == (m % 12) + 1
  IN CASE month \in {4, 6, 9, 11} -> 30
       [] month = 2 -> (IF year % 4 = 0 /\ (year % 100 # 0 \/ year % 400 = 0) THEN 29 ELSE 28)
       [] OTHER -> 31

\* The day the month m begins with: the leap years before it, and the months.
LeapsBefore(year) == (year - 1) \div 4 - (year - 1) \div 100 + (year - 1) \div 400
DaysBefore == <<0, 31, 59, 90, 120, 151, 181, 212, 243, 273, 304, 334>>
FirstOf(m) ==
  LET years == m \div 12
      month == (m % 12) + 1
  IN 365 * years + LeapsBefore(2024 + years) - LeapsBefore(2024) + DaysBefore[month]
       + (IF month > 2 THEN DaysIn(12 * years + 1) - 28 ELSE 0)

\* date.month with date.year, and date.day.
MonthOf(d) == CHOOSE m \in (d \div 31)..(d \div 28) : FirstOf(m) <= d /\ d < FirstOf(m) + DaysIn(m)
DayOf(d) == d - FirstOf(MonthOf(d)) + 1

IsoWeekday(d) == (d % 7) + 1
MondayOf(d) == d - (IsoWeekday(d) - 1)
MonthsBetween(earlier, later) == MonthOf(later) - MonthOf(earlier)

Lesser(a, b) == IF a <= b THEN a ELSE b
\* Mutant: the day of the month is not clamped to a short month.
UnclampedDayOfMonth(ruleDay, m) == ruleDay
EffectiveDayOfMonth(ruleDay, m) == Lesser(ruleDay, DaysIn(m))

MaxScanDays == 52 * 31 + 31

\* RecurrenceRule; weekdays and dayOfMonth mean nothing to the other frequencies.
IsRule(r) ==
  /\ r.frequency \in {"daily", "weekly", "monthly"}
  /\ r.intervalCount \in 1..52 /\ r.startsOn \in Nat
  /\ r.frequency = "weekly" => r.weekdays # {} /\ r.weekdays \subseteq 1..7
  /\ r.frequency = "monthly" => r.dayOfMonth \in 1..31

OccursOn(r, day) ==
  /\ day >= r.startsOn
  /\ CASE r.frequency = "daily" -> (day - r.startsOn) % r.intervalCount = 0
       [] r.frequency = "weekly" ->
            /\ IsoWeekday(day) \in r.weekdays
            /\ ((MondayOf(day) - MondayOf(r.startsOn)) \div 7) % r.intervalCount = 0
       [] r.frequency = "monthly" ->
            /\ DayOf(day) = EffectiveDayOfMonth(r.dayOfMonth, MonthOf(day))
            /\ MonthsBetween(r.startsOn, day) % r.intervalCount = 0

Unreachable == -1   \* UnreachableRecurrenceError

\* Mutant: the scan begins with the day itself.
NextOccurrenceFrom(r, after) ==
  IF OccursOn(r, after) THEN after ELSE
    CHOOSE d \in after..(after + MaxScanDays) : OccursOn(r, d) /\ \A e \in after..(d - 1) : ~OccursOn(r, e)
\* next_occurrence: a scan forward, day by day, strictly after a day.
NextOccurrence(r, after) ==
  LET scanned == (after + 1)..(after + MaxScanDays) IN
  IF \E d \in scanned : OccursOn(r, d)
  THEN CHOOSE d \in scanned : OccursOn(r, d) /\ \A e \in (after + 1)..(d - 1) : ~OccursOn(r, e)
  ELSE Unreachable

FirstOccurrence(r) == IF OccursOn(r, r.startsOn) THEN r.startsOn ELSE NextOccurrence(r, r.startsOn)

-----------------------------------------------------------------------------
(* The same schedule in closed form: the reference the scan is compared with. *)
OnWeekdays(s, n, weekdays, upto) ==
  UNION {{MondayOf(s) + 7 * n * k + w - 1 : k \in 0..((upto - s + 6) \div (7 * n))} : w \in weekdays}
OnDayOfMonth(s, n, dayOfMonth, upto) ==
  {FirstOf(m) + Lesser(dayOfMonth, DaysIn(m)) - 1 :
     m \in {MonthOf(s) + n * k : k \in 0..((MonthOf(upto) - MonthOf(s)) \div n)}}
Occurrences(r, upto) ==
  LET s == r.startsOn
      n == r.intervalCount
      days == CASE r.frequency = "daily" -> {s + n * k : k \in 0..((upto - s) \div n)}
                [] r.frequency = "weekly" -> OnWeekdays(s, n, r.weekdays, upto)
                [] r.frequency = "monthly" -> OnDayOfMonth(s, n, r.dayOfMonth, upto)
  IN days \intersect (s..upto)

-----------------------------------------------------------------------------
(* The schedules and their sweeps.                                           *)
\* The rules are those the CHECK constraints of issue_recurrences admit.
LegalRecurringConstants ==
  /\ \A r \in Rules : IsRule(r)
  /\ Clock # {} /\ Clock \subseteq Nat
  /\ RecurrenceBatch \in Nat \ {0} /\ MaxSaves \in Nat

Schedule == [rule : Rules, nextRunOn : Int, from : Int, version : 1..MaxSaves]
Claimed == [template : Templates, version : 1..MaxSaves, day : Clock]
Idle == [at |-> "idle"]

RecurringTypeOK ==
  /\ today \in Clock
  /\ schedule \in [Templates -> Schedule \union {None}]
  /\ saves \in [Templates -> 0..MaxSaves]
  /\ \A w \in Sweepers :
       \/ pass[w] = Idle
       \/ pass[w] \in [at : {"locked"}, day : Clock, rows : SUBSET {t \in Templates : schedule[t] # None}]
       \/ pass[w] \in [at : {"filing"}, claimed : SUBSET Claimed]
  /\ filed \subseteq Claimed /\ again \subseteq filed

RecurringInit ==
  /\ today = CHOOSE d \in Clock : \A e \in Clock : d <= e
  /\ schedule = [t \in Templates |-> None]
  /\ saves = [t \in Templates |-> 0]
  /\ pass = [w \in Sweepers |-> Idle]
  /\ filed = {} /\ again = {}

\* Mutant: the sweep reads without FOR UPDATE.
NeverLocked(t) == FALSE
Locked(t) == \E w \in Sweepers : pass[w].at = "locked" /\ t \in pass[w].rows

Midnight ==
  /\ \E d \in Clock : d > today /\ today' = d
  /\ UNCHANGED <<schedule, saves, pass, filed, again>>

\* set_recurrence: an upsert, which waits for a sweep that holds the row.
SetRecurrence(t, r) ==
  /\ ~Locked(t) /\ saves[t] < MaxSaves
  /\ saves' = [saves EXCEPT ![t] = @ + 1]
  /\ schedule' = [schedule EXCEPT ![t] = [rule |-> r, nextRunOn |-> FirstOccurrence(r),
                                          from |-> r.startsOn - 1, version |-> saves[t] + 1]]
  /\ UNCHANGED <<today, pass, filed, again>>

\* clear_recurrence, and the deletion of the template.
ClearRecurrence(t) ==
  /\ ~Locked(t) /\ schedule[t] # None
  /\ schedule' = [schedule EXCEPT ![t] = None]
  /\ UNCHANGED <<today, saves, pass, filed, again>>

\* Mutant: a plain SELECT.
ClaimableUnlocked(t) == schedule[t] # None /\ schedule[t].nextRunOn <= today
\* SKIP LOCKED: what another sweep holds is passed over.
Claimable(t) == schedule[t] # None /\ schedule[t].nextRunOn <= today /\ ~Locked(t)

\* lock_due: the oldest due schedules, and the day they are due as of.
LockDue(w, S) ==
  /\ pass[w] = Idle
  /\ S # {} /\ Cardinality(S) <= RecurrenceBatch
  /\ \A t \in S : Claimable(t)
  /\ \A u \in Templates \ S : Claimable(u) =>
       Cardinality(S) = RecurrenceBatch /\ \A t \in S : schedule[t].nextRunOn <= schedule[u].nextRunOn
  /\ pass' = [pass EXCEPT ![w] = [at |-> "locked", day |-> today, rows |-> S]]
  /\ UNCHANGED <<today, schedule, saves, filed, again>>

\* advance, for every row claimed, and the commit.
Advance(w) ==
  /\ pass[w].at = "locked"
  /\ LET S == pass[w].rows
         day == pass[w].day
     IN /\ schedule' = [t \in Templates |->
             IF t \notin S \/ schedule[t] = None THEN schedule[t]
             ELSE [schedule[t] EXCEPT !.nextRunOn = NextOccurrence(schedule[t].rule, day), !.from = day]]
        /\ pass' = [pass EXCEPT ![w] =
             [at |-> "filing",
              claimed |-> {[template |-> t, version |-> schedule[t].version, day |-> day] :
                             t \in {u \in S : schedule[u] # None}}]]
  /\ UNCHANGED <<today, saves, filed, again>>

Done(w, c) ==
  pass' = [pass EXCEPT ![w] =
    IF pass[w].claimed = {c} THEN Idle ELSE [at |-> "filing", claimed |-> pass[w].claimed \ {c}]]

\* _file: TemplateService.apply.  Whatever its later steps do, the issue is there.
File(w, c) ==
  /\ pass[w].at = "filing" /\ c \in pass[w].claimed
  /\ filed' = filed \union {c}
  /\ again' = IF c \in filed THEN again \union {c} ELSE again
  /\ Done(w, c)
  /\ UNCHANGED <<today, schedule, saves>>

\* apply fails before there is an issue: the occurrence is logged and lost.
Miss(w, c) ==
  /\ pass[w].at = "filing" /\ c \in pass[w].claimed
  /\ Done(w, c)
  /\ UNCHANGED <<today, schedule, saves, filed, again>>

\* The process dies; what it had locked is let go as it was.
Abandon(w) ==
  /\ pass[w] # Idle
  /\ pass' = [pass EXCEPT ![w] = Idle]
  /\ UNCHANGED <<today, schedule, saves, filed, again>>

RecurringNext ==
  \/ Midnight
  \/ \E t \in Templates, r \in Rules : SetRecurrence(t, r)
  \/ \E t \in Templates : ClearRecurrence(t)
  \/ \E w \in Sweepers, S \in SUBSET Templates : LockDue(w, S)
  \/ \E w \in Sweepers : Advance(w)
  \/ \E w \in Sweepers, c \in Claimed : File(w, c) \/ Miss(w, c)
  \/ \E w \in Sweepers : Abandon(w)

RecurringSpec == RecurringInit /\ [][RecurringNext]_recurringVars

-----------------------------------------------------------------------------
(* Two replicas, restarts and skipped days never make one saved schedule    *)
(* file twice for one day.                                                  *)
TimesFiled == [c \in Claimed |-> IF c \in again THEN 2 ELSE IF c \in filed THEN 1 ELSE 0]
Filing == INSTANCE OnceOnly WITH Errands <- Claimed, done <- filed, runs <- TimesFiled
FilingIsOnceOnly == Filing!OnceSpec

(* The day a schedule waits for is the first its rule names after the day   *)
(* it was computed from, by the closed form: the scan finds it, short       *)
(* months and the longest interval included, and passes nothing over.       *)
NextIsTheFirst ==
  \A t \in Templates : schedule[t] # None =>
    LET s == schedule[t] IN
    /\ s.nextRunOn > s.from
    /\ {d \in Occurrences(s.rule, s.nextRunOn) : d > s.from} = {s.nextRunOn}
=============================================================================
