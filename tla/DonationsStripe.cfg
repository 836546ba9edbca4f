SPECIFICATION FairSpec
CONSTANTS
    d1 = d1
    ana = ana
    c1 = c1
    c2 = c2
    c3 = c3
    c4 = c4
    Donations <- OneDonation
    Donors <- OneDonor
    DonorOf <- DonorOfOne
    Calls <- FourCalls
    Kinds = {"create", "callback"}
    Gateways = {"stripe"}
    Contact <- PhoneOnly
    Qualifies <- OneDonation
    Linked <- OneDonation
    Enrolls <- None
    Batchable <- None
    Faults = {"invoice", "send"}
    MaxCrashes = 2
CHECK_DEADLOCK FALSE
INVARIANT FlagHonest
PROPERTY FinalKept
PROPERTY PaidSettles
