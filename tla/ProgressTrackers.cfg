SPECIFICATION FairSpec
CONSTANTS
    d1 = d1
    d2 = d2
    c1 = c1
    c2 = c2
    c3 = c3
    k1 = k1
    Nobody = Nobody
    Calls <- ThreeCalls
    Donations <- TwoDonations
    Sizes = {3}
    Requests = {2}
    MaxBatch = 4
    MayFail <- OneCall
    Keys <- OneKey
    Notifying <- OneKey
    Kinds = {"create", "new", "paid", "more", "step"}
    Wanted = {"in_progress", "completed", "keep"}
    Starts <- AllOrNone
CONSTRAINT Bounded
CHECK_DEADLOCK FALSE
INVARIANT PartsDisjoint
INVARIANT BatchesTally
INVARIANT StepSetsFollow
INVARIANT PlaceholdersReplaced
INVARIANT OverallHonest
PROPERTY AllocatesParts
PROPERTY FinalOnlyDirectly
PROPERTY CallsEnd
