------------------------- MODULE HeartbeatSchedule -------------------------
(***************************************************************************)
(* When a heartbeat task is due (desktop/heartbeat.go): a clock that moves *)
(* on while the application is open or closed, one task with a schedule    *)
(* rule, and heartbeatTaskDueAt, which every tick asks.                    *)
(*                                                                         *)
(* Time counts half days; a slot is at the start or in the middle of its   *)
(* day.  The lengths of weeks, months and years are parameters.  Intervals *)
(* are those the task editor writes: a day, a week or two weeks beside a   *)
(* rule of that name.                                                      *)
(***************************************************************************)
EXTENDS Integers, Sequences, FiniteSets, FiniteSetsExt, SequencesExt

CONSTANTS
    WeekDays,        \* days of a week; 7 in the code
    WeekSets,        \* the sets of week days a rule may name
    Lengths,         \* the lengths of the months, in order
    YearMonths,      \* months of a year
    SpringDay,       \* the day that is an hour short, or 0
    MaxCreated       \* bound: the task is created at this time at the latest

VARIABLES
    rule,            \* heartbeatSchedule: kind, day set, month, half of the day
    created,         \* CreatedAt
    lastRun,         \* LastRunAt, or -1
    now

vars == <<rule, created, lastRun, now>>

Months == 1 .. Len(Lengths)
Days   == FoldLeft(LAMBDA n, l : n + l, 0, Lengths)
FirstDay ==
  [m \in Months |-> FoldLeft(LAMBDA n, l : n + l, 0, SubSeq(Lengths, 1, m - 1))]
MonthOf  == [d \in 0 .. Days - 1 |-> Max({m \in Months : FirstDay[m] <= d})]
Horizon  == 2 * Days - 1

Day(t)     == t \div 2
Month(t)   == MonthOf[Day(t)]
WeekDay(d) == d % WeekDays

Rule ==
  LET make(kinds, days, months) ==
        [kind : kinds, days : days, month : months, half : {0, 1}]
  IN  make({"daily"}, {{}}, {0})
      \cup make({"weekly", "biweekly"}, WeekSets, {0})
      \cup make({"monthly"}, {{d} : d \in 1 .. Max(ToSet(Lengths))}, {0})
      \cup make({"yearly"}, {{d} : d \in 1 .. Max(ToSet(Lengths))}, 1 .. YearMonths)

-----------------------------------------------------------------------------
(* The latest slot that is not after now.                                  *)

At(d) == 2 * d + rule.half

\* Hours between two times, and weeksBetween two days, rounded down.
Hours(a, b) == 12 * (b - a) - (IF Day(a) < SpringDay /\ SpringDay <= Day(b) THEN 1 ELSE 0)
WeekStart(d) == d - WeekDay(d)
WeeksBetween(a, b) == Hours(2 * a, 2 * b) \div (24 * WeekDays)

PreviousDaily == IF At(Day(now)) > now THEN At(Day(now) - 1) ELSE At(Day(now))

\* The slots that previousHeartbeatWeeklyAt finds; a candidate before the
\* week of the anchor is as far from it as one after it.
WeeklySlots(window, anchored) ==
  LET anchor == WeekStart(Day(created))
      weeks(d) == IF WeekStart(d) < anchor THEN WeeksBetween(WeekStart(d), anchor)
                  ELSE WeeksBetween(anchor, WeekStart(d))
  IN  {At(d) : d \in {e \in Day(now) - window + 1 .. Day(now) :
                         /\ WeekDay(e) \in rule.days
                         /\ At(e) <= now
                         /\ ~anchored \/ weeks(e) % 2 = 0}}

\* (mutant) The day is not clamped to the length of the month.
CandidateUnclamped(m, day) == IF m < 1 THEN -1 ELSE At(FirstDay[m] + day - 1)

\* monthlyCandidate; the months before the first are before everything.
Candidate(m, day) ==
  IF m < 1 THEN -1
  ELSE At(FirstDay[m] + Min({day, Lengths[m]}) - 1)

\* The month of now.AddDate(0, -1, 0): a day the month before does not have
\* runs over into the month after it.
MonthBefore ==
  LET m == Month(now)
      dayOfMonth == Day(now) - FirstDay[m] + 1
  IN  IF m > 1 /\ dayOfMonth > Lengths[m - 1] THEN m ELSE m - 1

TheDay == CHOOSE d \in rule.days : TRUE

PreviousMonthly ==
  IF Candidate(Month(now), TheDay) > now THEN Candidate(MonthBefore, TheDay)
  ELSE Candidate(Month(now), TheDay)

PreviousYearly ==
  LET m == YearMonths * ((Month(now) - 1) \div YearMonths) + rule.month
  IN  IF Candidate(m, TheDay) > now THEN Candidate(m - YearMonths, TheDay)
      ELSE Candidate(m, TheDay)

Weekly == rule.kind \in {"weekly", "biweekly"}
Window == IF rule.kind = "weekly" THEN WeekDays ELSE 2 * WeekDays

\* previousHeartbeatScheduleAt: at most one time.
Scheduled ==
  CASE rule.kind = "daily"   -> {PreviousDaily}
    [] rule.kind = "monthly" -> {PreviousMonthly}
    [] rule.kind = "yearly"  -> {PreviousYearly}
    [] Weekly -> LET slots == WeeklySlots(Window, rule.kind = "biweekly")
                 IN  IF slots = {} THEN {} ELSE {Max(slots)}

\* heartbeatTaskDueAt: a weekly rule that finds no slot in its window falls
\* back on the interval in front of the rule.
DueAt ==
  IF Scheduled = {}
    THEN Hours(IF lastRun = -1 THEN created ELSE lastRun, now) >= 24 * Window
    ELSE \E t \in Scheduled : created <= t /\ lastRun < t /\ t <= now

-----------------------------------------------------------------------------
Init ==
  /\ rule \in Rule
  /\ created \in 0 .. MaxCreated
  /\ lastRun = -1
  /\ now = created

\* A tick of the open application: the task runs when it is due.
Tick ==
  /\ DueAt
  /\ lastRun' = now
  /\ UNCHANGED <<rule, created, now>>

\* TriggerNow
Trigger ==
  /\ lastRun < now
  /\ lastRun' = now
  /\ UNCHANGED <<rule, created, now>>

\* Time passes: between two ticks, with the application closed, or with the
\* task's topic busy.
Pass ==
  /\ now < Horizon
  /\ now' = now + 1
  /\ UNCHANGED <<rule, created, lastRun>>

Next == Tick \/ Trigger \/ Pass

Spec == Init /\ [][Next]_vars

-----------------------------------------------------------------------------
TypeOK == rule \in Rule /\ created \in 0 .. MaxCreated /\ lastRun \in -1 .. now /\ now \in 0 .. Horizon

\* The slots of the rule, by the calendar; every second week counts from the
\* week the task was created in.
IsSlot(t) ==
  LET d == Day(t)
      m == Month(t)
      inMonth == d - FirstDay[m] + 1 = Min({TheDay, Lengths[m]})
  IN  /\ t % 2 = rule.half
      /\ CASE rule.kind = "daily"    -> TRUE
           [] rule.kind = "weekly"   -> WeekDay(d) \in rule.days
           [] rule.kind = "biweekly" ->
                /\ WeekDay(d) \in rule.days
                /\ (d \div WeekDays - Day(created) \div WeekDays) % 2 = 0
           [] rule.kind = "monthly"  -> inMonth
           [] rule.kind = "yearly"   -> inMonth /\ ((m - 1) % YearMonths) + 1 = rule.month

Owed == {t \in created .. now : lastRun < t /\ IsSlot(t)}

\* A task runs only for a slot that has come since it was created and last
\* run, so never early and never twice for one slot; and when a slot comes it
\* is due at once.
SlotsAreKept == (DueAt => Owed # {}) /\ (now \in Owed => DueAt)

\* A slot that was missed is made up for at the next tick.
MissedIsCaughtUp == Owed # {} => DueAt
=============================================================================
