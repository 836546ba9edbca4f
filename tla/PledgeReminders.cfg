SPECIFICATION Spec
CONSTANTS
    c1 = c1
    c2 = c2
    Calls <- TwoCalls
    Last = 2
    Plans <- Mixed
    OwnTemplates = {2}
    Channels = 1
    Days = 4
    Weekends = {2, 3}
    Seconds = {3}
    Week <- WeekOf
    Month <- MonthOf
    EarlyFor <- TwoBefore
    BillingDays = {4}
    ChunkSizes = {1, 2}
    Changes = {"active", "paused", "covered"}
    MaxRequests = 3
    MaxTroubles = 1
CHECK_DEADLOCK FALSE
INVARIANT RemindersAccounted
INVARIANT ThanksNotRepeated
INVARIANT RecurringFollows
PROPERTY RunReachesDue
