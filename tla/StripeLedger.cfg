SPECIFICATION FairSpec
CONSTANTS
    c1 = c1
    c2 = c2
    Calls <- TwoCalls
    MaxDeaths = 1
    Last = 3
    Modes = {"checkout", "embed"}
    MaxPosted = 5
CONSTRAINT Short
CHECK_DEADLOCK FALSE
INVARIANT OneMaster
INVARIANT StatusFollows
PROPERTY KeepsBook
PROPERTY RenewalsSettle
