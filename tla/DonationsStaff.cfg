SPECIFICATION Spec
CONSTANTS
    d1 = d1
    ana = ana
    c1 = c1
    c2 = c2
    c3 = c3
    c4 = c4
    Donations <- OneDonation
    Donors <- OneDonor
    DonorOf <- DonorOfOne
    Calls <- ThreeCalls
    Kinds = {"create", "callback", "retry", "edit", "staff", "public", "cron"}
    Gateways = {"meezan", "blinq", "manual"}
    Contact <- PhoneOnly
    Qualifies <- OneDonation
    Linked <- OneDonation
    Enrolls <- OneDonation
    Batchable <- None
    Faults = {"pledge", "ledger"}
    MaxCrashes = 0
SYMMETRY Interchangeable
CHECK_DEADLOCK FALSE
CONSTRAINT TwoAtOnce
INVARIANT ActivatedHasPledge
INVARIANT ThanksAccounted
