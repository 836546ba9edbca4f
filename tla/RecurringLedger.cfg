SPECIFICATION Spec
CONSTANTS
    d1 = d1
    d2 = d2
    c1 = c1
    c2 = c2
    c3 = c3
    MonthLength <- HalfYear
    Plans <- AllPlans
    Today <- Edges
    Donations <- TwoDonations
    First = d1
    Calls <- ThreeCalls
    Kinds = {"record", "view", "remind", "mark"}
    MaxRunning = 2
SYMMETRY Interchangeable
CONSTRAINT CallsAtTurnOfMonth
CHECK_DEADLOCK FALSE
INVARIANT CreditedOnce
INVARIANT CoverageCredited
INVARIANT OneDuePerPeriod
INVARIANT SerialPaymentKept
INVARIANT CalendarExact
PROPERTY OldestFirst
