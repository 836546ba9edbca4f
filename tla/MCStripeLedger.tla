--------------------------- MODULE MCStripeLedger ---------------------------
(* An instance of StripeLedger small enough for TLC.                       *)
EXTENDS StripeLedger, TLC

CONSTANTS c1, c2

TwoCalls == {c1, c2}

\* Of a new subscription, the events of the first payment and one more.
Short == (\E e \in DOMAIN posted : posted[e].type \in Opening) => Len(posted) <= 3
=============================================================================
