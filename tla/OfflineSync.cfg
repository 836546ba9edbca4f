SPECIFICATION FairSpec
CONSTANTS
    c1 = c1
    c2 = c2
    Nobody = Nobody
    Calls <- TwoCalls
    Queues <- SomeQueues
    Emails <- Addresses
    Taken <- Third
    MaxStaff = 2
    MaxTroubles = 2
CONSTRAINT Focused
CHECK_DEADLOCK FALSE
INVARIANT RowsAccounted
INVARIANT SyncedIsStored
INVARIANT BoxAccounted
PROPERTY UploadsCome
