--------------------------- MODULE MCOfflineSync ----------------------------
(* An instance of OfflineSync small enough for TLC.                        *)
EXTENDS OfflineSync

CONSTANTS c1, c2

TwoCalls == {c1, c2}
Addresses == {"e1", "e2", "e3"}
Third == {"e3"}

New(type, of, email) == [type |-> type, of |-> of, email |-> email]

Collection == New("collection", 0, None)

\* A donor with all that can belong to it, whose address is edited; two donors, one of
\* whom is given the address of the other; a donor without an address, and one who is
\* registered already.
SomeQueues == {
    <<New("donor", 0, "e1"), New("edit", 1, "e2"), New("edit", 1, Kept),
      New("donation", 1, None), New("change", 4, None)>>,
    <<New("donor", 0, "e1"), New("donor", 0, "e2"), New("edit", 1, "e2"), New("edit", 2, "e3"),
      New("edit", 2, None)>>,
    <<New("donor", 0, None), New("donation", 1, None), Collection, Collection>>,
    <<New("donor", 0, "e3"), New("donation", 1, None), Collection>> }

\* Staff come only where a collection is to be recorded, and then one trouble is enough.
Focused ==
    IF \E a \in Actions : queue[a] = Collection
    THEN timeouts + faults + MaxStaff - left <= MaxTroubles
    ELSE left = MaxStaff
=============================================================================
