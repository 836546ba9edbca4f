--------------------------- MODULE RecurringLedger ---------------------------
(***************************************************************************)
(* The ledger of a recurring donation that no gateway charges by itself:   *)
(* recurring-donations-ledger.service.ts.  A checkout opens a subscription *)
(* for its first donation.  From then on the ledger keeps one row for each *)
(* billing period that is due, and turns it from pending to completed when *)
(* a donation of that donor is paid or staff mark it by hand.              *)
(*                                                                         *)
(* Payments, views and reminders of one subscription run side by side.  A  *)
(* call is a handler that may be overtaken at every await; the database    *)
(* gives the atomicity of one statement, and one guard between them: the   *)
(* invoice keys of the rows are unique.                                    *)
(***************************************************************************)
EXTENDS RecurringCalendar, FiniteSets, FiniteSetsExt

CONSTANTS
    Plans,         \* what the donor may choose: frequency, mode, date, prepaid periods
    Today,         \* the days on which something happens, a part of the calendar
    Donations,     \* donations of the donor that reach the ledger
    First,         \* the donation the checkout creates
    Calls,         \* handler invocations, each used once
    Kinds,         \* the kinds of call the environment makes, a part of AllKinds
    MaxRunning     \* bound on the calls that run side by side

AllKinds == {"record", "view", "remind", "mark"}
Modes    == {"same_date", "first_of_month", "day_of_month", "custom"}
Plan     == [freq : Frequencies, mode : Modes, date : Nat, prepaid : 0..36]

ASSUME LedgerAssumption ==
    /\ Plans \subseteq Plan
    /\ Today \subseteq Days /\ Today # {}
    /\ First \in Donations
    /\ IsFiniteSet(Calls)
    /\ Kinds \subseteq AllKinds
    /\ MaxRunning \in Nat

\* The calendar goes on as far as the plans do: two months after any day on which
\* something happens, for the months paid ahead, and a month after an asked date.
ASSUME ReachAssumption ==
    \A plan \in Plans :
        /\ \A day \in Today : /\ MonthOf(day) + 2 \in Months
                              /\ plan.prepaid > 0 => MonthOf(day) + plan.prepaid \in Months
        /\ plan.mode = "day_of_month" => plan.date \in 1..31
        /\ plan.mode = "custom" => plan.date \in Days /\ MonthOf(plan.date) + 1 \in Months

\* prepaid_start_period_key holds 16 characters; the key of a week has 21.
KeyWidth    == [day |-> 10, week |-> 21, month |-> 7]
ColumnWidth == 16

\* An installment row.  Its invoice key names the donation that paid it, and for
\* prepaid coverage the period too; a row that is due has none.
Key == [by : {"nobody"}] \union [by : {"donation"}, d : Donations]
       \union [by : {"prepaid"}, d : Donations, period : Nat]
       \union [by : {"staff"}, id : Nat]
Row == [period : Nat, paid : BOOLEAN, key : Key]

Unpaid            == [by |-> "nobody"]
PaidBy(d)         == [by |-> "donation", d |-> d]
PrepaidBy(d, p)   == [by |-> "prepaid", d |-> d, period |-> p]
MarkedByStaff(id) == [by |-> "staff", id |-> id]

NoSub == [plan |-> [freq |-> "month", mode |-> "same_date", date |-> 0, prepaid |-> 0],
          created |-> 0, start |-> 0, covered |-> {}]

Steps == {"idle", "done", "exists", "prepaid", "prepaidKey", "prepaidRow", "prepaidUpdate",
          "prepaidLast", "prepaidInsert", "coverage", "dues", "open", "oldest", "settle", "mark"}

VARIABLES
    today,      \* the current day
    sub,        \* the subscription
    paid,       \* donations whose status is completed
    rows,       \* the installment rows, in the order of their ids
    call,       \* the calls
    overlapped  \* whether two calls ever ran at once

vars == <<today, sub, paid, rows, call, overlapped>>

Idle == [pc |-> "idle", kind |-> "view", d |-> First, upTo |-> 0, todo |-> {},
         target |-> 0, made |-> FALSE]

Init ==
    /\ today \in Today
    /\ sub = NoSub
    /\ paid = {}
    /\ rows = <<>>
    /\ call = [c \in Calls |-> Idle]
    /\ overlapped = FALSE

-----------------------------------------------------------------------------
Subscribed == sub.start > 0

\* Rows of a period, whatever their status, and the periods paid and pending.
RowsOf(period) == {id \in DOMAIN rows : rows[id].period = period}
PaidPeriods    == {rows[id].period : id \in {i \in DOMAIN rows : rows[i].paid}}

\* Mutant: the status filter is left out.
PendingAnyStatus == DOMAIN rows

Pending == {id \in DOMAIN rows : ~rows[id].paid}

\* Mutant: the newest first.
OldestLast ==
    CHOOSE id \in Pending : \A other \in Pending : rows[id].period >= rows[other].period

\* The pending row of the oldest period, then the oldest row: ORDER BY period_key, id.
Oldest ==
    CHOOSE id \in Pending :
        \A other \in Pending :
            \/ rows[id].period < rows[other].period
            \/ rows[id].period = rows[other].period /\ id <= other

\* Mutant: two rows may carry one invoice key.
FreeAlways(key, id) == TRUE

\* The unique index on stripe_invoice_id.
Free(key, id) == \A other \in DOMAIN rows \ {id} : rows[other].key # key

Running(c) == call[c].pc \notin {"idle", "done"}

Goto(c, pc) == call' = [call EXCEPT ![c].pc = pc]

\* A call that ended keeps what it was and no locals.
End(c) ==
    call' = [call EXCEPT ![c] = [Idle EXCEPT !.pc = "done", !.kind = call[c].kind,
                                            !.d = call[c].d]]

\* A statement that gives row id (a new one, or an update by id) a paid state.
Pay(id, period, key) ==
    rows' = IF id \in DOMAIN rows THEN [rows EXCEPT ![id].paid = TRUE, ![id].key = key]
            ELSE Append(rows, [period |-> period, paid |-> TRUE, key |-> key])

-----------------------------------------------------------------------------
(* The donor and the calendar.                                             *)

\* The checkout stores the donor's plan with its first donation.  A prepaid week
\* does not fit its column: the insert throws, and no subscription is made.
Subscribe(plan) ==
    /\ ~Subscribed
    /\ plan.prepaid > 0 => KeyWidth[plan.freq] <= ColumnWidth
    /\ sub' = [plan |-> plan, created |-> today, start |-> StartDate(plan, today),
               covered |-> PrepaidPeriods(plan.freq, today, plan.prepaid)]
    /\ UNCHANGED <<today, paid, rows, call, overlapped>>

\* The payment of a donation completes.
Complete(d) ==
    /\ Subscribed
    /\ d \notin paid
    /\ paid' = paid \union {d}
    /\ UNCHANGED <<today, sub, rows, call, overlapped>>

NextDay(day) ==
    /\ Subscribed
    /\ day > today
    /\ today' = day
    /\ UNCHANGED <<sub, paid, rows, call, overlapped>>

-----------------------------------------------------------------------------
(* Arrivals.                                                               *)

Arrive(c, kind, local) ==
    /\ kind \in Kinds
    /\ call[c].pc = "idle"
    /\ Subscribed
    /\ Cardinality({k \in Calls : Running(k)}) < MaxRunning
    /\ call' = [call EXCEPT ![c] = local]
    /\ overlapped' = (overlapped \/ \E k \in Calls : Running(k))
    /\ UNCHANGED <<today, sub, paid, rows>>

\* recordNonStripeInstallmentFromDonation: the donation is paid, and the
\* subscription it opened, or the donor's active one, is read.
Record(c, d) ==
    /\ d \in paid
    /\ Arrive(c, "record", [Idle EXCEPT !.pc = "exists", !.kind = "record", !.d = d])

\* findOne opens the dues before staff look at them.
View(c) == Arrive(c, "view", [Idle EXCEPT !.pc = "dues", !.kind = "view"])

\* The periods a reminder run is about today: daily, at week-ends, or on the
\* billing day of a month and two days before.
ReminderPeriods ==
    CASE sub.plan.freq = "day"   -> {PeriodKey("day", today)}
      [] sub.plan.freq = "week"  -> IF (today - 1) % 7 >= 5 THEN {PeriodKey("week", today)} ELSE {}
      [] sub.plan.freq = "month" -> {MonthOf(date) : date \in BillingDates(sub, today)}

\* The reminder cron reaches the subscription: its first donation is paid and the
\* period is not.
Remind(c) ==
    /\ First \in paid
    /\ \E period \in ReminderPeriods \ PaidPeriods :
          Arrive(c, "remind", [Idle EXCEPT !.pc = "dues", !.kind = "remind", !.upTo = period])

\* markInstallmentsPaid: those of the selected rows found pending are to be marked.
Mark(c, ids) ==
    /\ ids # {}
    /\ Arrive(c, "mark", [Idle EXCEPT !.pc = "mark", !.kind = "mark", !.todo = ids])

-----------------------------------------------------------------------------
(* recordNonStripeInstallmentFromDonation.                                 *)

\* A donation that has its installment is not recorded again; a first donation
\* that prepaid goes to its coverage.
Exists(c) ==
    /\ call[c].pc = "exists"
    /\ LET d == call[c].d
       IN  IF ~Free(PaidBy(d), 0) THEN End(c)
           ELSE Goto(c, IF d = First /\ sub.covered # {} THEN "prepaid" ELSE "dues")
    /\ UNCHANGED <<today, sub, paid, rows, overlapped>>

\* Mutant: nothing to do when any covered period is paid.
PrepaidAny(c) ==
    /\ call[c].pc = "prepaid"
    /\ IF sub.covered \intersect PaidPeriods # {} THEN End(c)
       ELSE call' = [call EXCEPT ![c].pc = "prepaidKey", ![c].todo = sub.covered]
    /\ UNCHANGED <<today, sub, paid, rows, overlapped>>

\* settlePrepaidPeriodsFromDonation: nothing to do when all covered periods are paid.
Prepaid(c) ==
    /\ call[c].pc = "prepaid"
    /\ IF sub.covered \subseteq PaidPeriods THEN End(c)
       ELSE call' = [call EXCEPT ![c].pc = "prepaidKey", ![c].todo = sub.covered]
    /\ UNCHANGED <<today, sub, paid, rows, overlapped>>

\* The covered periods are taken in order.  The call ends as recorded when it
\* credited any of them, and otherwise looks at the coverage once more.
NextPeriod(c, made) ==
    LET rest == call[c].todo \ {Min(call[c].todo)}
    IN  IF rest = {} /\ made THEN End(c)
        ELSE call' = [call EXCEPT ![c].todo = rest, ![c].made = made,
                                  ![c].pc = IF rest = {} THEN "coverage" ELSE "prepaidKey"]

\* A period this donation has credited already is passed over.
PrepaidKey(c) ==
    /\ call[c].pc = "prepaidKey"
    /\ IF Free(PrepaidBy(call[c].d, Min(call[c].todo)), 0) THEN Goto(c, "prepaidRow")
       ELSE NextPeriod(c, call[c].made)
    /\ UNCHANGED <<today, sub, paid, rows, overlapped>>

\* Some row of the period is taken, pending or not, when there is one.
PrepaidRow(c) ==
    /\ call[c].pc = "prepaidRow"
    /\ LET ids == RowsOf(Min(call[c].todo))
       IN  \/ ids = {} /\ Goto(c, "prepaidLast")
           \/ \E id \in ids : call' = [call EXCEPT ![c].pc = "prepaidUpdate", ![c].target = id]
    /\ UNCHANGED <<today, sub, paid, rows, overlapped>>

\* The paid rows of the period are looked up once more before one is inserted.
PrepaidLast(c) ==
    /\ call[c].pc = "prepaidLast"
    /\ IF Min(call[c].todo) \in PaidPeriods THEN NextPeriod(c, call[c].made)
       ELSE Goto(c, "prepaidInsert")
    /\ UNCHANGED <<today, sub, paid, rows, overlapped>>

\* A key that is taken makes the statement throw: the call ends.
PrepaidWrite(c) ==
    /\ call[c].pc \in {"prepaidUpdate", "prepaidInsert"}
    /\ LET period == Min(call[c].todo)
           key    == PrepaidBy(call[c].d, period)
           id     == IF call[c].pc = "prepaidUpdate" THEN call[c].target ELSE 0
       IN  IF Free(key, id)
           THEN Pay(id, period, key) /\ NextPeriod(c, TRUE)
           ELSE End(c) /\ UNCHANGED rows
    /\ UNCHANGED <<today, sub, paid, overlapped>>

\* isPrepaidCoverageFullySettled
Coverage(c) ==
    /\ call[c].pc = "coverage"
    /\ IF sub.covered \subseteq PaidPeriods THEN End(c) ELSE Goto(c, "dues")
    /\ UNCHANGED <<today, sub, paid, rows, overlapped>>

\* What a call does once the dues are open.
AfterDues(c) == IF call[c].kind = "record" THEN Goto(c, "oldest") ELSE End(c)

\* Mutant: only pending rows count as existing.
MissingPaid(upTo) ==
    DuePeriods(sub.plan.freq, sub.start, upTo)
        \ ({rows[id].period : id \in Pending} \union sub.covered)

\* The due periods that have no row and are not prepaid.
Missing(upTo) ==
    DuePeriods(sub.plan.freq, sub.start, upTo)
        \ ({rows[id].period : id \in DOMAIN rows} \union sub.covered)

\* ensurePeriodDuesForSubscription reads the rows once, and then inserts a pending
\* row for each period it found missing.
Dues(c) ==
    /\ call[c].pc = "dues"
    /\ LET upTo == IF call[c].kind = "remind" THEN call[c].upTo ELSE PeriodKey(sub.plan.freq, today)
       IN  IF Missing(upTo) = {} THEN AfterDues(c)
           ELSE call' = [call EXCEPT ![c].todo = Missing(upTo), ![c].pc = "open"]
    /\ UNCHANGED <<today, sub, paid, rows, overlapped>>

Open(c) ==
    /\ call[c].pc = "open"
    /\ LET period == Min(call[c].todo)
           rest   == call[c].todo \ {period}
       IN  /\ rows' = Append(rows, [period |-> period, paid |-> FALSE, key |-> Unpaid])
           /\ IF rest = {} THEN AfterDues(c) ELSE call' = [call EXCEPT ![c].todo = rest]
    /\ UNCHANGED <<today, sub, paid, overlapped>>

\* The oldest pending row is picked, when there is one.
PickOldest(c) ==
    /\ call[c].pc = "oldest"
    /\ call' = [call EXCEPT ![c].pc = "settle", ![c].target = IF Pending = {} THEN 0 ELSE Oldest]
    /\ UNCHANGED <<today, sub, paid, rows, overlapped>>

\* The row that was picked is updated by its id, whatever became of it; without
\* one a completed row of the current period is inserted.
Settle(c) ==
    /\ call[c].pc = "settle"
    /\ IF Free(PaidBy(call[c].d), call[c].target)
       THEN Pay(call[c].target, PeriodKey(sub.plan.freq, today), PaidBy(call[c].d))
       ELSE UNCHANGED rows
    /\ End(c)
    /\ UNCHANGED <<today, sub, paid, overlapped>>

\* The rows found pending are marked one by one, whatever became of them.
MarkRow(c) ==
    /\ call[c].pc = "mark"
    /\ LET id   == Min(call[c].todo)
           rest == call[c].todo \ {id}
       IN  /\ Pay(id, rows[id].period, MarkedByStaff(id))
           /\ IF rest = {} THEN End(c) ELSE call' = [call EXCEPT ![c].todo = rest]
    /\ UNCHANGED <<today, sub, paid, overlapped>>

-----------------------------------------------------------------------------
Step(c) ==
    \/ Exists(c)
    \/ Prepaid(c)
    \/ PrepaidKey(c)
    \/ PrepaidRow(c)
    \/ PrepaidLast(c)
    \/ PrepaidWrite(c)
    \/ Coverage(c)
    \/ Dues(c)
    \/ Open(c)
    \/ PickOldest(c)
    \/ Settle(c)
    \/ MarkRow(c)

Next ==
    \/ \E plan \in Plans : Subscribe(plan)
    \/ \E d \in Donations : Complete(d)
    \/ \E day \in Today : NextDay(day)
    \/ \E c \in Calls :
          \/ \E d \in Donations : Record(c, d)
          \/ View(c)
          \/ Remind(c)
          \/ \E ids \in SUBSET Pending : Mark(c, ids)
          \/ Step(c)

Spec == Init /\ [][Next]_vars

-----------------------------------------------------------------------------
\* The rows a donation pays for.
CreditsOf(d) ==
    {id \in DOMAIN rows : rows[id].key.by \in {"donation", "prepaid"} /\ rows[id].key.d = d}

\* However often and at whatever moments the payment of a donation is reported, it
\* pays for one installment; one that prepaid, for at most one of each covered period.
CreditedOnce ==
    \A d \in Donations : \A i, j \in CreditsOf(d) :
        i # j => /\ d = First
                 /\ {rows[i].period, rows[j].period} \subseteq sub.covered
                 /\ rows[i].period # rows[j].period

Quiet == \A c \in Calls : ~Running(c)

\* Donations whose record call has ended.
Recorded == {call[c].d : c \in {k \in Calls : call[k].pc = "done" /\ call[k].kind = "record"}}

\* Once the payment of a prepaid donation was recorded and nothing runs, all the
\* periods it covers are paid, though other calls credited some of them.
CoverageCredited ==
    Quiet /\ First \in Recorded => sub.covered \subseteq PaidPeriods

\* As long as no two calls ran at once, a period that is due has one row: nothing
\* that is paid is due as well, and nothing is due twice.
OneDuePerPeriod == ~overlapped => \A id \in Pending : RowsOf(rows[id].period) = {id}

\* A donation that was recorded has an installment, and keeps it:
\* recordNonStripeInstallmentFromDonation settles the oldest pending due, or creates
\* a completed installment.
PaymentKept == \A d \in Recorded : CreditsOf(d) # {}

\* The same for subscriptions without prepaid coverage, when no two calls ran at once.
SerialPaymentKept == ~overlapped /\ sub.covered = {} => PaymentKept

\* First in, first out: a donation turns no row completed while an older one is due.
OldestFirst ==
    [][~overlapped' =>
         \A id, other \in Pending :
             rows'[id].key.by = "donation" => rows[id].period <= rows[other].period]_rows

\* Where periods are listed from their reference date or before it (or the day
\* after), the dues run without a gap from the start date to the current period.
DueListExact ==
    LET first == PeriodKey(sub.plan.freq, sub.start)
        now   == PeriodKey(sub.plan.freq, today)
    IN  /\ Subscribed /\ sub.start <= today
        /\ sub.start <= ReferenceDate(sub.plan.freq, first) + 1
        /\ now - first < 36
        => DuePeriods(sub.plan.freq, sub.start, now) = first..now

\* ensurePeriodDuesForSubscription opens the dues through the current period: when
\* a payment comes to pick one, every period so far has its row.
DuesThroughCurrent ==
    \A c \in Calls : call[c].pc = "oldest" =>
        PeriodKey(sub.plan.freq, sub.start)..PeriodKey(sub.plan.freq, today)
            \subseteq {rows[id].period : id \in DOMAIN rows} \union sub.covered

\* A start date on a chosen day of the month is the first such day at least the
\* gap after sign-up, and not before the date the donor asked for.
FirstBillingIsEarliest ==
    LET plan == sub.plan
        day  == CASE plan.mode = "first_of_month" -> 1
                  [] plan.mode = "day_of_month"   -> plan.date
                  [] plan.mode = "custom"         -> DayOfMonth(plan.date)
                  [] OTHER                        -> 0
    IN  Subscribed /\ plan.prepaid = 0 /\ plan.mode # "same_date" =>
        sub.start = Min({date \in Days :
            /\ date >= sub.created + MinGap
            /\ plan.mode = "custom" => date >= plan.date
            /\ DayOfMonth(date) = Least(day, MonthLength[MonthOf(date)])})

\* A payment of n periods covers n of them, and billing goes on with the next.
CoverageExact ==
    Subscribed /\ sub.plan.prepaid > 0 /\ DayOfMonth(sub.created) <= 28 =>
        /\ Cardinality(sub.covered) = sub.plan.prepaid
        /\ PeriodKey(sub.plan.freq, sub.start) = Max(sub.covered) + 1

\* What the calendar utilities compute by stepping agrees with what it stands for: the
\* list of periods, the first billing day and the prepaid coverage.
CalendarExact == DueListExact /\ FirstBillingIsEarliest /\ CoverageExact
=============================================================================
