------------------------- MODULE MCRecurringLedger --------------------------
(* Instances of RecurringLedger small enough for TLC.                      *)
EXTENDS RecurringLedger, TLC

CONSTANTS d1, d2, c1, c2, c3

\* January to June.
HalfYear == <<31, 28, 31, 30, 31, 30>>

OneDonation  == {d1}
TwoDonations == {d1, d2}
TwoCalls     == {c1, c2}
ThreeCalls   == {c1, c2, c3}
Interchangeable == Permutations(Calls)

Choice(freq, mode, date, prepaid) ==
    [freq |-> freq, mode |-> mode, date |-> date, prepaid |-> prepaid]

SameDate == {Choice(freq, "same_date", 0, 0) : freq \in {"week", "month"}}
Chosen   == {Choice("month", "first_of_month", 0, 0), Choice("month", "custom", 5, 0),
             Choice("month", "custom", 40, 0)}
            \union {Choice("month", "day_of_month", date, 0) : date \in {15, 29, 31}}
Prepaid2 == {Choice(freq, "same_date", 0, 2) : freq \in {"week", "month"}}
PrepaidOnly     == {Choice("month", "same_date", 0, 2)}
AllPlans        == SameDate \union Chosen \union Prepaid2
MonthlySameDate == {Choice("month", "same_date", 0, 0)}

\* 16 and 31 January and 10 February: a start no due list misses, one at the end
\* of a month, and a day of the next.
TurnOfMonth == {16, 31, 41}

\* Donors sign up, and look ahead, on days around the edges of months and of the
\* gap; calls run only at the turn of a month, for a plan of each kind, and for
\* weeks not from 16 January to 10 February, so that three weeks are due at most.
Edges == {11, 12, 13, 16, 17, 31, 41, 60}
BusyPlans == SameDate \union Prepaid2 \union {Choice("month", "custom", 40, 0)}

CallsAtTurnOfMonth ==
    \/ paid = {} /\ \A c \in Calls : call[c].pc = "idle"
    \/ /\ {today, sub.created} \subseteq TurnOfMonth
       /\ sub.plan \in BusyPlans
       /\ sub.plan.freq = "week" => today - sub.created < 25

January20   == {20}
EarlyYear   == {10, 41}
=============================================================================
