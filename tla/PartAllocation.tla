--------------------------- MODULE PartAllocation ---------------------------
(***************************************************************************)
(* What the allocation of donations into batches promises, whatever runs   *)
(* side by side: the parts of a batch are given out one after the other,   *)
(* each to one request, and a request gets all the parts it asked for in   *)
(* one step, or none.                                                      *)
(***************************************************************************)
EXTENDS Naturals, FiniteSets

CONSTANTS
    Calls,       \* requests for parts
    Numbers,     \* numbers of batches
    MaxParts     \* the most parts a batch can have

VARIABLES
    want,        \* the parts each request has asked for, 0 before it does
    shares       \* the parts given out: the request, the batch, the part

vars == <<want, shares>>

Share == [by : Calls, n : Numbers, part : 1 .. MaxParts]

Init ==
    /\ want = [c \in Calls |-> 0]
    /\ shares = {}

\* The parts of batch n that are given out.
Given(n) == {s.part : s \in {t \in shares : t.n = n}}

Ask(c) ==
    /\ want[c] = 0
    /\ want'[c] > 0
    /\ want' = [want EXCEPT ![c] = want'[c]]
    /\ UNCHANGED shares

\* Request c, not served before, gets its parts, the next ones of their batches.
Give(c) ==
    LET new == shares' \ shares
    IN  /\ want[c] > 0
        /\ ~ \E s \in shares : s.by = c
        /\ shares \subseteq shares'
        /\ new \subseteq Share
        /\ Cardinality(new) = want[c]
        /\ \A s \in new : s.by = c /\ s.part \notin Given(s.n)
        /\ \A n \in Numbers : \E k \in 0 .. MaxParts : Given(n)' = 1 .. k
        /\ UNCHANGED want

Next == \E c \in Calls : Ask(c) \/ Give(c)

Spec == Init /\ [][Next]_vars
=============================================================================
