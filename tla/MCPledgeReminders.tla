------------------------- MODULE MCPledgeReminders --------------------------
(* An instance of PledgeReminders small enough for TLC.                    *)
EXTENDS PledgeReminders

CONSTANTS c1, c2

TwoCalls  == {c1, c2}
Mixed     == {<<"weekly", "monthly">>, <<"monthly", "monthly">>}

\* Day 1 is in an earlier month; the others are a Saturday, the 1st, a Sunday and a Monday.
WeekOf    == <<1, 2, 2, 3>>
MonthOf   == <<1, 2, 2, 2>>
TwoBefore == [d \in {2} |-> 4]
=============================================================================
