SPECIFICATION FairSpec
CONSTANTS
    c1 = c1
    c2 = c2
    ann = ann
    bob = bob
    eve = eve
    m1 = m1
    m2 = m2
    Calls <- TwoCalls
    Users <- Everyone
    Approvers <- BobAndEve
    Admins <- OneAdmin
    Creator = eve
    Movs <- TwoItems
    OwnerOf <- Assigned
    MaxRequests = 3
    MaxOverlaps = 1
    MaxDeaths = 1
    Days = 3
    Shapes <- SomeTasks
    EndDate = 2
    EndCount = 1
CONSTRAINT Focused
CHECK_DEADLOCK FALSE
INVARIANT RecordFollows
INVARIANT ChecklistKept
INVARIANT NoDateSkipped
INVARIANT RepeatsAccounted
PROPERTY ApprovedByAll
PROPERTY FinalLeft
PROPERTY OccurrencesCome
