SPECIFICATION Spec
CONSTANTS
    d1 = d1
    ana = ana
    c1 = c1
    c2 = c2
    c3 = c3
    c4 = c4
    Donations <- OneDonation
    Donors <- OneDonor
    DonorOf <- DonorOfOne
    Calls <- FourCalls
    Kinds = {"create", "callback", "return", "poll"}
    Gateways = {"payfast", "jazzcash", "alfalah"}
    Contact <- BothChannels
    Qualifies <- OneDonation
    Linked <- OneDonation
    Enrolls <- OneDonation
    Batchable <- OneDonation
    Faults = {}
    MaxCrashes = 0
SYMMETRY Interchangeable
CHECK_DEADLOCK FALSE
CONSTRAINT TwoAtOnce
INVARIANT EffectsComplete
INVARIANT EffectsOnce
