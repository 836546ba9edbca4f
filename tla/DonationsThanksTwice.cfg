SPECIFICATION Spec
CONSTANTS
    d1 = d1
    ana = ana
    c1 = c1
    c2 = c2
    c3 = c3
    c4 = c4
    Donations <- OneDonation
    Donors <- OneDonor
    DonorOf <- DonorOfOne
    Calls <- FourCalls
    Kinds = {"create", "callback"}
    Gateways = {"alfalah"}
    Contact <- PhoneOnly
    Qualifies <- OneDonation
    Linked <- OneDonation
    Enrolls <- None
    Batchable <- None
    Faults = {}
    MaxCrashes = 0
SYMMETRY Interchangeable
CHECK_DEADLOCK FALSE
INVARIANT ThanksAtMostOnce
