------------------------- MODULE MCDonationPayments -------------------------
(* Instances of DonationPayments small enough for TLC.                     *)
EXTENDS DonationPayments, TLC

CONSTANTS d1, ana, c1, c2, c3, c4

OneDonation  == {d1}
OneDonor     == {ana}
DonorOfOne   == [d \in {d1} |-> ana]
PhoneOnly    == [d \in {d1} |-> {"message"}]
BothChannels == [d \in {d1} |-> Channels]
None         == {}

TwoCalls   == {c1, c2}
ThreeCalls == {c1, c2, c3}
FourCalls  == {c1, c2, c3, c4}
Interchangeable == Permutations(Calls)

\* No more than two handlers are under way at once.
TwoAtOnce == Cardinality({c \in Calls : Running(c)}) <= 2
=============================================================================
