------------------------- MODULE MCProgressTrackers -------------------------
(* Instances of ProgressTrackers small enough for TLC.                     *)
EXTENDS ProgressTrackers, TLC

CONSTANTS d1, d2, c1, c2, c3, k1

TwoDonations == {d1, d2}
OneKey       == {k1}
OneCall      == {c2}
ThreeCalls   == {c1, c2, c3}
AllOrNone    == {<< >>, <<d1, d2>>}

\* The calls begin in this order, whichever they are.
InOrder ==
    LET order == <<c1, c2, c3>>
        begun == {i \in 1 .. 3 : call[order[i]].pc # "idle"}
    IN  begun = 1 .. Cardinality(begun)

\* No more than two are under way at once, or three transactions.
FewAtOnce ==
    LET busy == {c \in Calls : Running(c)}
    IN  Cardinality(busy) <= 2 \/ \A c \in busy : call[c].pc = "allocating"

\* The statements of a transaction before its commit and those of the other handlers
\* touch nothing in common, so that the order between them is immaterial: while a
\* handler works on trackers and steps no transaction is further back than its commit.
Sorted ==
    (\E c \in Calls : Running(c) /\ call[c].pc \notin {"check", "allocating"}) =>
        \A c \in Calls : tx[c].pc \notin {"select", "lock", "number", "insert", "take"}

\* Where the trackers are there from the start, the calls are extra parts and updates;
\* where they are not, any.
Focused ==
    (\E i \in DOMAIN steps : i.by = Nobody) =>
        \A c \in Calls : call[c].pc # "idle" => call[c].kind \in {"more", "step"}

Bounded == InOrder /\ FewAtOnce /\ Sorted /\ Focused
=============================================================================
