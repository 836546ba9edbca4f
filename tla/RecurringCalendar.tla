-------------------------- MODULE RecurringCalendar -------------------------
(***************************************************************************)
(* Dates and billing periods of recurring donations: the functions of      *)
(* recurring-billing-date.util.ts, recurring-prepaid.util.ts and           *)
(* manual-recurring-period.util.ts, on a calendar of numbered days.  Day 1 *)
(* is the first of the first month and a Monday.  A date is the start of   *)
(* its day, as the stored start dates are.                                 *)
(***************************************************************************)
EXTENDS Naturals, Sequences

CONSTANT MonthLength      \* the number of days of each month of the calendar

ASSUME CalendarAssumption ==
    /\ Len(MonthLength) > 0
    /\ MonthLength \in Seq(28..31)

Frequencies == {"day", "week", "month"}
Months      == 1..Len(MonthLength)

\* The first day of each month, and of the month after the last.
FirstDay[m \in 1..(Len(MonthLength) + 1)] ==
    IF m = 1 THEN 1 ELSE FirstDay[m - 1] + MonthLength[m - 1]

Days == 1..(FirstDay[Len(MonthLength) + 1] - 1)

MonthOf(day)    == CHOOSE m \in Months : FirstDay[m] <= day /\ day < FirstDay[m + 1]
DayOfMonth(day) == day - FirstDay[MonthOf(day)] + 1

Least(a, b) == IF a < b THEN a ELSE b

\* clampDayToMonth, then the date.
DateIn(month, dayOfMonth) == FirstDay[month] + Least(dayOfMonth, MonthLength[month]) - 1

-----------------------------------------------------------------------------
(* Periods.                                                                *)

\* The key of the period a day lies in: its day, its week, its month.
PeriodKey(freq, day) ==
    CASE freq = "day"   -> day
      [] freq = "week"  -> 1 + (day - 1) \div 7
      [] freq = "month" -> MonthOf(day)

\* One period later.  A month later is the same day of the next month, and the
\* days the next month lacks are carried on into the one after, as Date does.
Advance(freq, day) ==
    CASE freq = "day"   -> day + 1
      [] freq = "week"  -> day + 7
      [] freq = "month" -> FirstDay[MonthOf(day) + 1] + DayOfMonth(day) - 1

\* The date that stands for a period when periods are listed: the 15th of a
\* month, the Monday of a week.
ReferenceDate(freq, key) ==
    CASE freq = "day"   -> key
      [] freq = "week"  -> 7 * (key - 1) + 1
      [] freq = "month" -> FirstDay[key] + 14

\* The date after n periods, one by one.
AdvanceBy(freq, day, n) ==
    LET after[i \in Nat] == IF i = 0 THEN day ELSE Advance(freq, after[i - 1])
    IN  after[n]

\* Mutant: the next date has to be the other date or before it.
LastStepStrict(freq, from, to, max) ==
    LET date(i) == AdvanceBy(freq, from, i)
        ends(i) == \/ i + 1 = max
                   \/ PeriodKey(freq, date(i)) = PeriodKey(freq, to)
                   \/ date(i + 1) > to
    IN  CHOOSE i \in 0..(max - 1) : ends(i) /\ \A j \in 0..(i - 1) : ~ends(j)

\* The step a listing ends with: the first one that makes the keys as many as they may be,
\* lists the period of the other date, or has a next date more than a day after that date.
LastStep(freq, from, to, max) ==
    LET date(i) == AdvanceBy(freq, from, i)
        ends(i) == \/ i + 1 = max
                   \/ PeriodKey(freq, date(i)) = PeriodKey(freq, to)
                   \/ date(i + 1) > to + 1
    IN  CHOOSE i \in 0..(max - 1) : ends(i) /\ \A j \in 0..(i - 1) : ~ends(j)

\* The keys met from a day on, step by step.
Walk(freq, from, to, max) ==
    IF from > to + 1 THEN {}
    ELSE {PeriodKey(freq, AdvanceBy(freq, from, i)) : i \in 0..LastStep(freq, from, to, max)}

\* listPeriodKeysBetween.  (Every key is a number: the intersection only says so.)
PeriodsBetween(freq, from, to, max) == Walk(freq, from, to, max) \intersect Nat

\* The period dues a subscription that started on a day has up to a period.
DuePeriods(freq, start, upTo) == PeriodsBetween(freq, start, ReferenceDate(freq, upTo), 36)

-----------------------------------------------------------------------------
(* Prepaid coverage.                                                       *)

\* The periods a payment of n periods on a day covers, from the first to the last.
PrepaidPeriods(freq, day, n) ==
    LET first == PeriodKey(freq, day)
        last  == PeriodKey(freq, AdvanceBy(freq, day, n - 1))
    IN  IF n = 0 THEN {}
        ELSE PeriodsBetween(freq, ReferenceDate(freq, first), ReferenceDate(freq, last), 48)

-----------------------------------------------------------------------------
(* Start dates.                                                            *)

MinGap == 20

\* The first month from the given one whose date is far enough from today.
FarEnough(month, dayOfMonth, today) ==
    CHOOSE m \in Months :
        /\ m >= month /\ DateIn(m, dayOfMonth) >= today + MinGap
        /\ \A k \in month..(m - 1) : DateIn(k, dayOfMonth) < today + MinGap

\* buildStartDateForDayOfMonth
StartOnDayOfMonth(dayOfMonth, today) ==
    LET month == MonthOf(today)
        next  == IF DateIn(month, dayOfMonth) < today THEN month + 1 ELSE month
    IN  DateIn(FarEnough(next, dayOfMonth, today), dayOfMonth)

\* ensureMinMonthlyGapStartDate
WithMinGap(date, today) ==
    IF date < today THEN StartOnDayOfMonth(DayOfMonth(date), today)
    ELSE DateIn(FarEnough(MonthOf(date), DayOfMonth(date), today), DayOfMonth(date))

\* resolvePrepaidContinueStartDate: the date after n prepaid periods.
StartAfterPrepaid(freq, today, n) ==
    IF freq = "month"
    THEN WithMinGap(DateIn(MonthOf(today) + n, DayOfMonth(today)), today)
    ELSE AdvanceBy(freq, today, n)

\* The start date a checkout stores for the plan its donor chose.
StartDate(plan, today) ==
    IF plan.prepaid > 0 THEN StartAfterPrepaid(plan.freq, today, plan.prepaid)
    ELSE CASE plan.mode = "same_date"      -> today
           [] plan.mode = "first_of_month" -> StartOnDayOfMonth(1, today)
           [] plan.mode = "day_of_month"   -> StartOnDayOfMonth(plan.date, today)
           [] plan.mode = "custom"         -> WithMinGap(plan.date, today)

-----------------------------------------------------------------------------
(* Reminder days of a monthly subscription.                                *)

\* A billing date counts from the start date on, and a gap after sign-up.
Eligible(sub, date) == date >= sub.start /\ date >= sub.created + MinGap

BillingDay(sub) == DayOfMonth(sub.start)

\* The billing dates a reminder run on a day is about: that day, or early, two
\* days before.  A day later in the month than the next one has does not come.
BillingDates(sub, today) ==
    {date \in {today, today + 2} : DayOfMonth(date) = BillingDay(sub) /\ Eligible(sub, date)}
=============================================================================
