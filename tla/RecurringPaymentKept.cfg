SPECIFICATION Spec
CONSTANTS
    d1 = d1
    d2 = d2
    c1 = c1
    c2 = c2
    c3 = c3
    MonthLength <- HalfYear
    Plans <- PrepaidOnly
    Today <- EarlyYear
    Donations <- TwoDonations
    First = d1
    Calls <- ThreeCalls
    Kinds = {"record", "view", "remind", "mark"}
    MaxRunning = 1
SYMMETRY Interchangeable
CHECK_DEADLOCK FALSE
INVARIANT PaymentKept
