----------------------- MODULE ProgressTrackersProofs -----------------------
(***************************************************************************)
(* Proofs about the batches and the trackers, whatever calls overlap, fail *)
(* or die, for every number of requests, batches, sizes and failures.      *)
(*                                                                         *)
(* First the batches.  What a reader sees (base) and what the transaction  *)
(* that holds a row's lock has made of it (batch) are related by three     *)
(* invariants: Locking says what a lock is worth, Sound that both versions *)
(* and their allocation rows add up, and Chained that no number is left    *)
(* out, for a reader and for each transaction in its own view.  That the   *)
(* requests implement PartAllocation needs two more: Asked, that a         *)
(* transaction holds what it has asked for but for what is left, and       *)
(* SizesUsed.                                                              *)
(*                                                                         *)
(* Then the trackers: their types, and that a step of the trackers is a    *)
(* step of the batches, whose lemmas carry over.  What every statement     *)
(* does is put in the terms of the invariants (Acts), and the parts of     *)
(* FollowInv are carried over it one by one: what a call is about and the  *)
(* transaction that serves it (Serves), that rows are inserted once and in *)
(* whole sets (NotYet, Whole), that what is committed gets its set         *)
(* (Synced), that a second set takes calls that overlap (Again), that      *)
(* placeholders are replaced (Replacing), and that an overall status is    *)
(* right or still to be written (Honest).                                  *)
(***************************************************************************)
EXTENDS ProgressTrackers, FiniteSetTheorems, WellFoundedInduction, TLAPS

-----------------------------------------------------------------------------
(* Min and Max choose an element, and there is one to choose.              *)

\* Min picks a least element of a set of numbers, finite or not.
LEMMA MinIsLeast ==
    ASSUME NEW S, S \subseteq Nat, S # {}
    PROVE  Min(S) \in S /\ \A y \in S : Min(S) <= y
<1> DEFINE Less == {ss \in Nat \X Nat : ss[1] < ss[2]}
<1>1. PICK x \in S : \A y \in S : ~ (<<y, x>> \in Less)
  <2>1. IsWellFoundedOn(Less, Nat)
        BY NatLessThanWellFounded DEF OpToRel
  <2>2. QED BY <2>1, WFMin
<1>2. ASSUME NEW y \in S PROVE x <= y
  <2>1. <<y, x>> \in Nat \X Nat /\ <<y, x>>[1] = y /\ <<y, x>>[2] = x
        OBVIOUS
  <2>2. ~ (y < x)
        BY <1>1, <2>1
  <2>3. QED BY <2>2
<1>3. QED BY <1>2 DEF Min

\* Max picks a greatest element of a set of numbers up to k.
LEMMA MaxIsGreatest ==
    ASSUME NEW k \in Nat, NEW S, S \subseteq 1 .. k, S # {}
    PROVE  Max(S) \in S /\ \A y \in S : y <= Max(S)
<1> DEFINE T == {k - y : y \in S}
<1>1. T \subseteq Nat /\ T # {}
  <2>1. ASSUME NEW y \in S PROVE k - y \in Nat
    <3>1. y \in Nat /\ y <= k
          OBVIOUS
    <3>2. QED BY <3>1
  <2>2. QED BY <2>1, Zenon
<1>2. Min(T) \in T /\ \A u \in T : Min(T) <= u
      BY <1>1, MinIsLeast
<1>3. PICK x \in S : Min(T) = k - x
      BY <1>2
<1>4. ASSUME NEW y \in S PROVE x >= y
  <2>1. Min(T) <= k - y
        BY <1>2
  <2>2. k \in Int /\ x \in Int /\ y \in Int
        OBVIOUS
  <2>3. QED BY <1>3, <2>1, <2>2
<1>5. QED BY <1>4 DEF Max

\* Min of two numbers.
LEMMA MinOfTwo ==
    ASSUME NEW a \in Nat, NEW b \in Nat
    PROVE  Min({a, b}) \in Nat /\ Min({a, b}) <= a /\ Min({a, b}) <= b
             /\ Min({a, b}) \in {a, b}
<1>1. {a, b} \subseteq Nat /\ {a, b} # {}
      OBVIOUS
<1>2. QED BY <1>1, MinIsLeast

-----------------------------------------------------------------------------
(* The invariants.                                                         *)

\* The statements between the start and the end of a transaction.
InTx == {"select", "lock", "number", "insert", "take", "commit"}

\* Without its lock a row has one version; a lock is held by a transaction that runs;
\* the batch a transaction has in hand is locked by it.
Locks ==
    /\ \A n \in Numbers : lock[n] = Nobody => batch[n] = base[n]
    /\ \A n \in Numbers : lock[n] # Nobody => tx[lock[n]].pc \in InTx
    /\ \A c \in Calls :
          /\ tx[c].got \in Numbers \union {0}
          /\ tx[c].pc = "lock" => tx[c].wait # {}
          /\ tx[c].pc \in {"insert", "take"} => tx[c].got # 0
          /\ tx[c].pc \in {"lock", "take"} /\ tx[c].got # 0 => lock[tx[c].got] = c

\* No more is given out than there is, and what is closed is full.
Full(b) == b.given <= b.parts /\ (b.closed => b.given = b.parts)

\* The allocations in S hold the parts 1 to k of batch n.
Cover(S, n, k) ==
    \A p \in Nat : (\E a \in S : a.n = n /\ a.first <= p /\ p <= a.last) <=> (1 <= p /\ p <= k)

\* Both versions of a row count the parts that allocations hold, each part once; an
\* allocation that is not committed belongs to the transaction that holds its batch.
Sound ==
    /\ \A n \in Numbers : Full(batch[n]) /\ Full(base[n])
    /\ \A a \in rows : /\ 1 <= a.first /\ a.first <= a.last
                       /\ tx[a.by].pc = "done" \/ lock[a.n] = a.by
    /\ \A a, b \in rows : a.n = b.n /\ a # b => a.last < b.first \/ b.last < a.first
    /\ \A n \in Numbers : Cover(rows, n, batch[n].given)
    /\ \A n \in Numbers : Cover(Committed, n, base[n].given)

\* In the view of a reader and of each transaction no number is left out, and a
\* number that is to be inserted is the next one.
Chained ==
    /\ \A n \in Numbers : Exists(base[n]) => Exists(batch[n])
    /\ \A n \in Numbers : Exists(base[n]) => \A m \in 1 .. n - 1 : Exists(base[m])
    /\ \A c \in Calls : \A n \in Numbers :
          Exists(Seen(c, n)) => \A m \in 1 .. n - 1 : Exists(Seen(c, m))
    /\ \A c \in Calls : tx[c].pc = "insert" =>
          \A m \in 1 .. tx[c].got - 1 : Exists(Seen(c, m))

BatchInv == BatchTypeOK /\ Locks /\ Sound /\ Chained

-----------------------------------------------------------------------------
(* Types.                                                                  *)

USE DEF Numbers

\* The parts taken from a batch.
LEMMA TakeIsNumber ==
    ASSUME NEW c \in Calls, BatchTypeOK, tx[c].got \in Numbers,
           Full(Seen(c, tx[c].got))
    PROVE  LET b    == Seen(c, tx[c].got)
               take == Min({tx[c].left, b.parts - b.given})
           IN  /\ take \in Nat /\ take <= tx[c].left /\ b.given + take <= b.parts
               /\ b.given + take \in Nat
<1> DEFINE b == Seen(c, tx[c].got)
<1>1. b \in Batch
      BY DEF BatchTypeOK, Seen
<1>2. b.parts \in Nat /\ b.given \in Nat /\ b.given <= b.parts
      BY <1>1 DEF Batch, Full
<1>3. tx[c].left \in Nat
      BY DEF BatchTypeOK, Tx
<1>4. b.parts - b.given \in Nat
      BY <1>2
<1> HIDE DEF b
<1> DEFINE take == Min({tx[c].left, b.parts - b.given})
<1>5. take \in Nat /\ take <= tx[c].left /\ take <= b.parts - b.given
      BY <1>3, <1>4, MinOfTwo, Zenon
<1>6. b.given + take <= b.parts /\ b.given + take \in Nat
      BY <1>5, <1>2
<1>7. QED BY <1>5, <1>6 DEF b

\* The next number is a number.
LEMMA NextNumber ==
    ASSUME BatchTypeOK, NEW c \in Calls, Number(c)
    PROVE  /\ tx'[c].got \in Numbers
           /\ \A n \in Numbers : Exists(Seen(c, n)) => n < tx'[c].got
           /\ tx'[c].got = 1 \/ \E n \in Numbers : Exists(Seen(c, n)) /\ n = tx'[c].got - 1
<1> DEFINE used == {n \in Numbers : Exists(Seen(c, n))}
           next == IF used = {} THEN 1 ELSE Max(used) + 1
<1>1. used \subseteq 1 .. MaxBatch
      OBVIOUS
<1>2. MaxBatch \in Nat \ {0}
      BY BatchAssumption
<1>3. used # {} => Max(used) \in used /\ \A y \in used : y <= Max(used)
      BY <1>1, <1>2, MaxIsGreatest, Zenon
<1>4. next <= MaxBatch /\ tx' = [tx EXCEPT ![c].got = next, ![c].pc = "insert"]
      BY DEF Number
<1> HIDE DEF next
<1>5. tx'[c].got = next
      BY <1>4 DEF BatchTypeOK, Tx
<1> HIDE DEF used
<1> DEFINE most == Max(used)
<1>6. CASE used = {}
  <2>1. next = 1
        BY <1>6 DEF next
  <2>2. next \in Numbers /\ (\A n \in used : n < next) /\ next = 1
        BY <2>1, <1>6, <1>2
  <2>3. QED BY <2>2, <1>5 DEF used
<1>7. CASE used # {}
  <2>1. next = most + 1 /\ most \in used /\ \A y \in used : y <= most
        BY <1>7, <1>3 DEF next
  <2> HIDE DEF most
  <2>2. most \in Nat /\ most >= 1 /\ \A y \in used : y \in Nat
        BY <2>1, <1>1
  <2>3. next \in Numbers /\ (\A n \in used : n < next) /\ next - 1 \in used
        BY <2>1, <2>2, <1>2, <1>4
  <2>4. QED BY <2>3, <1>5 DEF used
<1>8. QED BY <1>6, <1>7
\* What a rollback does to each row and each transaction.
LEMMA RollbackEffect ==
    ASSUME BatchTypeOK, NEW c \in Calls, Rollback(c)
    PROVE  /\ \A n \in Numbers : /\ batch'[n] = IF lock[n] = c THEN base[n] ELSE batch[n]
                                 /\ lock'[n] = IF lock[n] = c THEN Nobody ELSE lock[n]
           /\ base' = base
           /\ rows' = {a \in rows : a.by # c}
           /\ tx'[c] = [tx[c] EXCEPT !.pc = "failed"]
           /\ \A x \in Calls \ {c} : tx'[x] = tx[x]
           /\ BatchTypeOK'
<1>1. batch \in [Numbers -> Batch] /\ base \in [Numbers -> Batch]
        /\ lock \in [Numbers -> Calls \union {Nobody}] /\ rows \subseteq Allocation
        /\ tx \in [Calls -> Tx]
      BY DEF BatchTypeOK
<1>2. batch' = [n \in Numbers |-> IF lock[n] = c THEN base[n] ELSE batch[n]]
        /\ rows' = {a \in rows : a.by # c} /\ tx' = [tx EXCEPT ![c].pc = "failed"] /\ base' = base
      BY DEF Rollback
<1>3. lock' = [n \in Numbers |-> IF lock[n] = c THEN Nobody ELSE lock[n]]
      BY DEF Rollback, Release
<1>4. tx'[c] = [tx[c] EXCEPT !.pc = "failed"] /\ \A x \in Calls \ {c} : tx'[x] = tx[x]
      BY <1>1, <1>2
<1>5. tx' \in [Calls -> Tx]
      BY <1>1, <1>2 DEF Tx, TxSteps
<1>6. batch' \in [Numbers -> Batch]
      BY <1>1, <1>2
<1>7. lock' \in [Numbers -> Calls \union {Nobody}]
      BY <1>1, <1>3
<1>8. BatchTypeOK'
      BY <1>1, <1>2, <1>5, <1>6, <1>7 DEF BatchTypeOK
<1>9. QED BY <1>2, <1>3, <1>4, <1>8

\* A transaction that waits for a lock runs.
LEMMA DeadlockedRuns ==
    ASSUME NEW c \in Calls, Deadlocked(c)
    PROVE  tx[c].pc \in InTx
<1>1. \E x \in Calls : WaitsFor(c, x)
      BY DEF Deadlocked
<1>2. QED BY <1>1 DEF WaitsFor, Locking, InTx

\* A step of one transaction; all that fail roll back.
BatchStep ==
    \/ UNCHANGED batchVars
    \/ \E c \in Calls :
          \/ \E d \in Donations, want \in Requests, size \in Sizes : Begin(c, d, want, size)
          \/ Select(c) \/ Lock(c) \/ Number(c) \/ Insert(c) \/ Take(c) \/ Commit(c)
          \/ tx[c].pc # "done" /\ Rollback(c)

\* Nothing else happens to the batches, whether they run alone or under the trackers.
LEMMA TxCases ==
    ASSUME BatchTypeOK, NEW c \in Calls, TxStep(c) \/ Disconnect(c)
    PROVE  \/ Select(c) \/ Lock(c) \/ Number(c) \/ Insert(c) \/ Take(c) \/ Commit(c)
           \/ tx[c].pc \in InTx /\ Rollback(c)
<1>1. CASE Duplicate(c)
      BY <1>1 DEF Duplicate, InTx
<1>2. CASE BreakDeadlock(c)
      BY <1>2, DeadlockedRuns DEF BreakDeadlock
<1>3. CASE Disconnect(c)
      BY <1>3 DEF Disconnect, BatchTypeOK, Tx, TxSteps, InTx
<1>4. QED BY <1>1, <1>2, <1>3 DEF TxStep

LEMMA BatchCases ==
    ASSUME BatchTypeOK, [BatchNext]_batchVars
    PROVE  BatchStep
BY TxCases DEF BatchNext, BatchStep, InTx

\* What taking parts does: upto parts of batch n are given out, the last ones to c.
Taken(c, n, take, upto) ==
    /\ n = tx[c].got /\ lock[n] = c
    /\ take <= tx[c].left /\ upto = batch[n].given + take /\ upto <= batch[n].parts
    /\ batch' = [batch EXCEPT ![n].given = upto, ![n].closed = @ \/ upto >= batch[n].parts]
    /\ batch'[n] = [parts |-> batch[n].parts, given |-> upto,
                    closed |-> batch[n].closed \/ upto >= batch[n].parts]
    /\ \A m \in Numbers \ {n} : batch'[m] = batch[m]
    /\ rows' = IF take = 0 THEN rows
               ELSE rows \union {[by |-> c, d |-> tx[c].d, n |-> n,
                                  first |-> batch[n].given + 1, last |-> upto]}
    /\ tx' = [tx EXCEPT ![c].left = @ - take,
                        ![c].pc = IF take = tx[c].left THEN "commit" ELSE "select"]
    /\ base' = base /\ lock' = lock

\* Take takes what there is, and no more than is asked for.
LEMMA TakeEffect ==
    ASSUME BatchInv, NEW c \in Calls, Take(c)
    PROVE  \E n \in Numbers, take \in Nat, upto \in Nat : Taken(c, n, take, upto)
<1> DEFINE n    == tx[c].got
           take == Min({tx[c].left, batch[n].parts - batch[n].given})
           upto == batch[n].given + take
<1>1. n \in Numbers /\ lock[n] = c
      BY DEF BatchInv, Locks, Take
<1>2. Seen(c, n) = batch[n] /\ Full(batch[n])
      BY <1>1 DEF Seen, BatchInv, Sound
<1>3. take \in Nat /\ take <= tx[c].left /\ upto <= batch[n].parts /\ upto \in Nat
      BY <1>1, <1>2, TakeIsNumber DEF BatchInv
<1>4. /\ batch' = [batch EXCEPT ![n].given = upto, ![n].closed = @ \/ upto >= batch[n].parts]
      /\ rows' = IF take = 0 THEN rows
                 ELSE rows \union {[by |-> c, d |-> tx[c].d, n |-> n,
                                    first |-> batch[n].given + 1, last |-> upto]}
      /\ tx' = [tx EXCEPT ![c].left = @ - take,
                          ![c].pc = IF take = tx[c].left THEN "commit" ELSE "select"]
      /\ base' = base /\ lock' = lock
      BY <1>2 DEF Take
<1>5. batch[n] \in Batch /\ batch \in [Numbers -> Batch]
      BY <1>1 DEF BatchInv, BatchTypeOK
<1> HIDE DEF n, take, upto
<1>6. /\ batch'[n] = [parts |-> batch[n].parts, given |-> upto,
                      closed |-> batch[n].closed \/ upto >= batch[n].parts]
      /\ \A m \in Numbers \ {n} : batch'[m] = batch[m]
      BY <1>1, <1>4, <1>5 DEF Batch
<1>7. n = tx[c].got /\ upto = batch[n].given + take
      BY DEF n, upto
<1>8. Taken(c, n, take, upto)
      BY <1>1, <1>3, <1>4, <1>6, <1>7 DEF Taken
<1>9. QED BY <1>1, <1>3, <1>8

\* Types are kept.
LEMMA BatchTypeStep ==
    ASSUME BatchInv, BatchStep
    PROVE  BatchTypeOK'
<1>1. /\ batch \in [Numbers -> Batch] /\ base \in [Numbers -> Batch]
      /\ lock \in [Numbers -> Calls \union {Nobody}] /\ rows \subseteq Allocation
      /\ tx \in [Calls -> Tx]
      BY DEF BatchInv, BatchTypeOK
<1>2. CASE UNCHANGED batchVars
      BY <1>1, <1>2 DEF batchVars, BatchTypeOK
<1>3. ASSUME NEW c \in Calls, NEW d \in Donations, NEW want \in Requests, NEW size \in Sizes,
             Begin(c, d, want, size)
      PROVE  BatchTypeOK'
  <2>1. want \in Nat /\ size \in Nat
        BY BatchAssumption
  <2> DEFINE r == [NoTx EXCEPT !.pc = "select", !.d = d, !.want = want, !.left = want, !.size = size]
  <2>2. r \in Tx
        BY <2>1 DEF NoTx, Tx, TxSteps
  <2>3. tx' = [tx EXCEPT ![c] = r] /\ UNCHANGED <<batch, base, lock, rows>>
        BY <1>3 DEF Begin
  <2> HIDE DEF r
  <2>4. QED BY <1>1, <2>2, <2>3 DEF BatchTypeOK
<1>4. ASSUME NEW c \in Calls, Select(c) PROVE BatchTypeOK'
  <2> DEFINE open == {n \in Numbers : Open(Seen(c, n))}
             pc   == IF open = {} THEN "number" ELSE "lock"
  <2>1. tx' = [tx EXCEPT ![c].wait = open, ![c].got = 0, ![c].pc = pc]
          /\ UNCHANGED <<batch, base, lock, rows>>
        BY <1>4 DEF Select
  <2>2. open \in SUBSET Numbers /\ pc \in TxSteps
        BY DEF TxSteps
  <2> HIDE DEF open, pc
  <2>3. tx' \in [Calls -> Tx]
        BY <1>1, <2>1, <2>2 DEF Tx
  <2>4. QED BY <1>1, <2>1, <2>3 DEF BatchTypeOK
<1>5. ASSUME NEW c \in Calls, Lock(c) PROVE BatchTypeOK'
  <2>1. tx[c].wait \subseteq 1 .. MaxBatch /\ tx[c].wait # {}
        BY <1>1, <1>5 DEF BatchInv, Locks, Lock, Tx
  <2>2. Max(tx[c].wait) \in tx[c].wait
        BY <2>1, MaxIsGreatest, BatchAssumption
  <2> DEFINE n    == Max(tx[c].wait)
             rest == tx[c].wait \ {n}
             got  == IF tx[c].got = 0 /\ Open(batch[n]) THEN n ELSE tx[c].got
             pc   == IF rest # {} THEN "lock" ELSE IF got = 0 THEN "number" ELSE "take"
  <2>3. tx' = [tx EXCEPT ![c].wait = rest, ![c].got = got, ![c].pc = pc]
          /\ lock' = [lock EXCEPT ![n] = c] /\ UNCHANGED <<batch, base, rows>>
        BY <1>5 DEF Lock
  <2>4. n \in Numbers /\ rest \in SUBSET Numbers
        BY <2>1, <2>2
  <2>5. got \in Nat /\ pc \in TxSteps
        BY <1>1, <2>4 DEF Tx, TxSteps
  <2> HIDE DEF n, rest, got, pc
  <2>6. tx' \in [Calls -> Tx]
        BY <1>1, <2>3, <2>4, <2>5 DEF Tx
  <2>7. lock' \in [Numbers -> Calls \union {Nobody}]
        BY <1>1, <2>3, <2>4
  <2>8. QED BY <1>1, <2>3, <2>6, <2>7 DEF BatchTypeOK
<1>6. ASSUME NEW c \in Calls, Number(c) PROVE BatchTypeOK'
  <2>1. tx'[c].got \in Numbers
        BY <1>6, NextNumber DEF BatchInv
  <2>2. PICK next : tx' = [tx EXCEPT ![c].got = next, ![c].pc = "insert"]
        BY <1>6 DEF Number
  <2>3. next \in Nat
    <3>1. tx'[c].got = next
          BY <1>1, <2>2 DEF Tx
    <3>2. QED BY <3>1, <2>1
  <2>4. tx' \in [Calls -> Tx]
        BY <1>1, <2>2, <2>3 DEF Tx, TxSteps
  <2>5. QED BY <1>1, <1>6, <2>4 DEF BatchTypeOK, Number
<1>7. ASSUME NEW c \in Calls, Insert(c) PROVE BatchTypeOK'
  <2> DEFINE n == tx[c].got
             b == [parts |-> tx[c].size, given |-> 0, closed |-> FALSE]
  <2>1. n \in Numbers
        BY <1>7 DEF BatchInv, Locks, Insert
  <2>2. b \in Batch
        BY <1>1 DEF Tx, Batch
  <2>3. lock' = [lock EXCEPT ![n] = c] /\ batch' = [batch EXCEPT ![n] = b]
          /\ tx' = [tx EXCEPT ![c].pc = "take"] /\ UNCHANGED <<base, rows>>
        BY <1>7 DEF Insert
  <2> HIDE DEF n, b
  <2>4. tx' \in [Calls -> Tx]
        BY <1>1, <2>3 DEF Tx, TxSteps
  <2>5. QED BY <1>1, <2>1, <2>2, <2>3, <2>4 DEF BatchTypeOK
<1>8. ASSUME NEW c \in Calls, Take(c) PROVE BatchTypeOK'
  <2>1. PICK n \in Numbers, take \in Nat, upto \in Nat : Taken(c, n, take, upto)
        BY <1>8, TakeEffect
  <2>2. batch[n].parts \in Nat /\ batch[n].given \in Nat
        BY <1>1 DEF Batch
  <2>3. batch'[n] \in Batch
    <3> DEFINE closed == batch[n].closed \/ upto >= batch[n].parts
    <3>1. batch'[n] = [parts |-> batch[n].parts, given |-> upto, closed |-> closed]
          BY <2>1 DEF Taken
    <3>2. closed \in BOOLEAN
          BY Zenon
    <3> HIDE DEF closed
    <3>3. QED BY <2>2, <3>1, <3>2 DEF Batch
  <2>4. batch' \in [Numbers -> Batch]
    <3>1. DOMAIN batch' = Numbers
          BY <1>1, <2>1 DEF Taken
    <3>2. \A m \in Numbers : batch'[m] \in Batch
          BY <1>1, <2>1, <2>3 DEF Taken
    <3>3. batch' = [m \in DOMAIN batch' |-> batch'[m]]
          BY <2>1, <1>1 DEF Taken
    <3>4. QED BY <3>1, <3>2, <3>3
  <2>5. rows' \subseteq Allocation
        BY <1>1, <2>1, <2>2 DEF Allocation, Tx, Taken
  <2>6. tx' \in [Calls -> Tx]
    <3>1. tx[c].left - take \in Nat
          BY <1>1, <2>1 DEF Tx, Taken
    <3> DEFINE left == tx[c].left - take
               pc   == IF take = tx[c].left THEN "commit" ELSE "select"
    <3>2. tx' = [tx EXCEPT ![c].left = left, ![c].pc = pc]
          BY <2>1 DEF Taken
    <3>3. pc \in TxSteps
          BY DEF TxSteps
    <3> HIDE DEF left, pc
    <3>4. QED BY <1>1, <3>1, <3>2, <3>3 DEF Tx, left
  <2>7. QED BY <1>1, <2>1, <2>4, <2>5, <2>6 DEF BatchTypeOK, Taken
<1>9. ASSUME NEW c \in Calls, Commit(c) PROVE BatchTypeOK'
  <2>1. base' \in [Numbers -> Batch]
        BY <1>1, <1>9 DEF Commit, Seen
  <2>2. lock' \in [Numbers -> Calls \union {Nobody}]
        BY <1>1, <1>9 DEF Commit, Release
  <2>3. tx' \in [Calls -> Tx]
        BY <1>1, <1>9 DEF Commit, Tx, TxSteps
  <2>4. QED BY <1>1, <1>9, <2>1, <2>2, <2>3 DEF Commit, BatchTypeOK
<1>10. ASSUME NEW c \in Calls, Rollback(c) PROVE BatchTypeOK'
      BY <1>10, RollbackEffect DEF BatchInv
<1>11. QED
      BY <1>2, <1>3, <1>4, <1>5, <1>6, <1>7, <1>8, <1>9, <1>10 DEF BatchInv, BatchStep
-----------------------------------------------------------------------------
(* What a lock is worth.                                                   *)

\* Locks in a form that names its parts: of row n, and of transaction c.
RowLocked(n) ==
    /\ lock[n] = Nobody => batch[n] = base[n]
    /\ lock[n] # Nobody => tx[lock[n]].pc \in InTx

TxLocked(c) ==
    /\ tx[c].got \in Numbers \union {0}
    /\ tx[c].pc = "lock" => tx[c].wait # {}
    /\ tx[c].pc \in {"insert", "take"} => tx[c].got # 0
    /\ tx[c].pc \in {"lock", "take"} /\ tx[c].got # 0 => lock[tx[c].got] = c

\* The parts make up the whole.
LEMMA LocksParts ==
    /\ Locks <=> (\A n \in Numbers : RowLocked(n)) /\ (\A c \in Calls : TxLocked(c))
    /\ Locks' <=> (\A n \in Numbers : RowLocked(n)') /\ (\A c \in Calls : TxLocked(c)')
BY DEF Locks, RowLocked, TxLocked

\* A transaction that has locked no more than before and has not ended keeps the locks
\* in order.
LEMMA LocksKept ==
    ASSUME BatchInv, BatchTypeOK', NEW c \in Calls,
           \A x \in Calls \ {c} : tx'[x] = tx[x],
           tx'[c].pc \in InTx, TxLocked(c)',
           \A n \in Numbers : \/ lock'[n] = lock[n]
                              \/ lock[n] = Nobody /\ lock'[n] = c,
           \A n \in Numbers : lock'[n] = Nobody => batch'[n] = batch[n] /\ base'[n] = base[n]
    PROVE  Locks'
<1>1. \A n \in Numbers : RowLocked(n) /\ lock[n] \in Calls \union {Nobody}
      BY LocksParts DEF BatchInv, BatchTypeOK
<1>2. c # Nobody
      BY BatchAssumption
<1>3. ASSUME NEW n \in Numbers PROVE RowLocked(n)'
  <2>1. CASE lock'[n] = Nobody
    <3>1. lock[n] = Nobody
          BY <2>1, <1>2
    <3>2. QED BY <2>1, <3>1, <1>1 DEF RowLocked
  <2>2. CASE lock'[n] # Nobody
    <3>1. CASE lock'[n] = c
          BY <2>2, <3>1 DEF RowLocked
    <3>2. CASE lock'[n] # c
      <4>1. lock'[n] = lock[n] /\ lock[n] \in Calls \ {c}
            BY <2>2, <3>2, <1>1
      <4>2. tx[lock[n]].pc \in InTx
            BY <4>1, <2>2, <1>1 DEF RowLocked
      <4>3. QED BY <2>2, <4>1, <4>2 DEF RowLocked
    <3>3. QED BY <3>1, <3>2
  <2>3. QED BY <2>1, <2>2
<1>4. ASSUME NEW x \in Calls, x # c PROVE TxLocked(x)'
  <2>1. TxLocked(x) /\ tx'[x] = tx[x]
        BY <1>4, LocksParts DEF BatchInv
  <2>2. ASSUME tx[x].pc \in {"lock", "take"}, tx[x].got # 0 PROVE lock'[tx[x].got] = x
    <3>1. tx[x].got \in Numbers /\ lock[tx[x].got] = x
          BY <2>1, <2>2 DEF TxLocked
    <3>2. x # Nobody
          BY BatchAssumption
    <3>3. QED BY <3>1, <3>2
  <2>3. QED BY <2>1, <2>2 DEF TxLocked
<1>5. QED BY <1>3, <1>4, LocksParts

\* A step keeps the locks in order.
LEMMA LocksStep ==
    ASSUME BatchInv, BatchStep, BatchTypeOK'
    PROVE  Locks'
<1>1. /\ batch \in [Numbers -> Batch] /\ base \in [Numbers -> Batch]
      /\ lock \in [Numbers -> Calls \union {Nobody}] /\ tx \in [Calls -> Tx]
      BY DEF BatchInv, BatchTypeOK
<1>2. \A n \in Numbers : RowLocked(n)
      BY LocksParts DEF BatchInv
<1>3. \A c \in Calls : TxLocked(c) /\ c # Nobody
      BY LocksParts, BatchAssumption DEF BatchInv
<1>4. CASE UNCHANGED batchVars
      BY <1>4 DEF batchVars, BatchInv, Locks
<1>5. ASSUME NEW c \in Calls, NEW d \in Donations, NEW want \in Requests, NEW size \in Sizes,
             Begin(c, d, want, size)
      PROVE  Locks'
  <2>1. tx'[c].pc = "select" /\ tx'[c].got = 0 /\ \A x \in Calls \ {c} : tx'[x] = tx[x]
        BY <1>1, <1>5 DEF Begin, NoTx
  <2>2. tx'[c].pc \in InTx /\ TxLocked(c)'
        BY <2>1 DEF InTx, TxLocked
  <2>3. UNCHANGED <<batch, base, lock>>
        BY <1>5 DEF Begin
  <2>4. QED BY <2>1, <2>2, <2>3, LocksKept
<1>6. ASSUME NEW c \in Calls, Select(c) PROVE Locks'
  <2> DEFINE open == {n \in Numbers : Open(Seen(c, n))}
             pc   == IF open = {} THEN "number" ELSE "lock"
  <2>1. tx' = [tx EXCEPT ![c].wait = open, ![c].got = 0, ![c].pc = pc]
          /\ UNCHANGED <<batch, base, lock, rows>>
        BY <1>6 DEF Select
  <2>2. pc = "lock" => open # {}
        OBVIOUS
  <2>3. pc \in {"lock", "number"}
        OBVIOUS
  <2> HIDE DEF open, pc
  <2>4. tx'[c].pc = pc /\ tx'[c].got = 0 /\ tx'[c].wait = open
          /\ \A x \in Calls \ {c} : tx'[x] = tx[x]
        BY <1>1, <2>1 DEF Tx
  <2>5. tx'[c].pc \in InTx /\ TxLocked(c)'
        BY <2>2, <2>3, <2>4 DEF InTx, TxLocked
  <2>6. QED BY <2>1, <2>4, <2>5, LocksKept
<1>7. ASSUME NEW c \in Calls, Lock(c) PROVE Locks'
  <2>1. tx[c].wait \subseteq 1 .. MaxBatch /\ tx[c].wait # {} /\ tx[c].pc = "lock"
        BY <1>1, <1>7, <1>3 DEF Lock, Tx, TxLocked
  <2>2. Max(tx[c].wait) \in tx[c].wait
        BY <2>1, MaxIsGreatest, BatchAssumption
  <2> DEFINE n    == Max(tx[c].wait)
             rest == tx[c].wait \ {n}
             got  == IF tx[c].got = 0 /\ Open(batch[n]) THEN n ELSE tx[c].got
             pc   == IF rest # {} THEN "lock" ELSE IF got = 0 THEN "number" ELSE "take"
  <2>3. tx' = [tx EXCEPT ![c].wait = rest, ![c].got = got, ![c].pc = pc]
          /\ lock' = [lock EXCEPT ![n] = c] /\ UNCHANGED <<batch, base, rows>>
          /\ lock[n] \in {Nobody, c}
        BY <1>7 DEF Lock
  <2>4. n \in Numbers
        BY <2>1, <2>2
  <2>5. got = n \/ got = tx[c].got
        OBVIOUS
  <2>6. pc \in {"lock", "number", "take"} /\ (pc = "lock" => rest # {}) /\ (pc = "take" => got # 0)
        OBVIOUS
  <2> HIDE DEF n, rest, got, pc
  <2>7. tx'[c].pc = pc /\ tx'[c].got = got /\ tx'[c].wait = rest
          /\ \A x \in Calls \ {c} : tx'[x] = tx[x]
        BY <1>1, <2>3 DEF Tx
  <2>8. lock'[n] = c /\ \A m \in Numbers \ {n} : lock'[m] = lock[m]
        BY <1>1, <2>3, <2>4
  <2>9. \A m \in Numbers : \/ lock'[m] = lock[m]
                           \/ lock[m] = Nobody /\ lock'[m] = c
        BY <2>3, <2>8
  <2>10. got \in Numbers \union {0} /\ (got # 0 => lock'[got] = c)
    <3>1. TxLocked(c)
          BY <1>3
    <3>2. CASE got = n
          BY <3>2, <2>4, <2>8
    <3>3. CASE got = tx[c].got
      <4>1. got \in Numbers \union {0} /\ (got # 0 => lock[got] = c)
            BY <3>3, <3>1, <2>1 DEF TxLocked
      <4>2. QED BY <4>1, <2>8
    <3>4. QED BY <3>2, <3>3, <2>5
  <2>11. tx'[c].pc \in InTx /\ TxLocked(c)'
        BY <2>6, <2>7, <2>10 DEF InTx, TxLocked
  <2>12. QED BY <2>3, <2>7, <2>9, <2>11, LocksKept
<1>8. ASSUME NEW c \in Calls, Number(c) PROVE Locks'
  <2>1. tx'[c].got \in Numbers
        BY <1>8, NextNumber DEF BatchInv
  <2>2. PICK next : tx' = [tx EXCEPT ![c].got = next, ![c].pc = "insert"]
        BY <1>8 DEF Number
  <2>3. tx'[c].pc = "insert" /\ \A x \in Calls \ {c} : tx'[x] = tx[x]
        BY <1>1, <2>2 DEF Tx
  <2>4. tx'[c].pc \in InTx /\ TxLocked(c)'
        BY <2>1, <2>3 DEF InTx, TxLocked
  <2>5. UNCHANGED <<batch, base, lock>>
        BY <1>8 DEF Number
  <2>6. QED BY <2>3, <2>4, <2>5, LocksKept
<1>9. ASSUME NEW c \in Calls, Insert(c) PROVE Locks'
  <2> DEFINE n == tx[c].got
  <2>1. n \in Numbers
        BY <1>3, <1>9 DEF TxLocked, Insert
  <2>2. lock' = [lock EXCEPT ![n] = c] /\ tx' = [tx EXCEPT ![c].pc = "take"]
          /\ lock[n] = Nobody /\ base' = base
        BY <1>9 DEF Insert
  <2>3. \A m \in Numbers \ {n} : batch'[m] = batch[m]
        BY <1>1, <1>9 DEF Insert
  <2>4. tx'[c].pc = "take" /\ tx'[c].got = n /\ tx'[c].wait = tx[c].wait
          /\ \A x \in Calls \ {c} : tx'[x] = tx[x]
        BY <1>1, <2>2 DEF Tx
  <2> HIDE DEF n
  <2>5. lock'[n] = c /\ \A m \in Numbers \ {n} : lock'[m] = lock[m]
        BY <1>1, <2>1, <2>2
  <2>6. tx'[c].pc \in InTx /\ TxLocked(c)'
        BY <2>1, <2>4, <2>5 DEF InTx, TxLocked
  <2>7. c # Nobody
        BY <1>3
  <2>8. QED BY <2>2, <2>3, <2>4, <2>5, <2>6, <2>7, LocksKept
<1>10. ASSUME NEW c \in Calls, Take(c) PROVE Locks'
  <2>1. PICK n \in Numbers, take \in Nat, upto \in Nat : Taken(c, n, take, upto)
        BY <1>10, TakeEffect
  <2> DEFINE pc == IF take = tx[c].left THEN "commit" ELSE "select"
  <2>2. pc \in {"commit", "select"}
        OBVIOUS
  <2>3. tx' = [tx EXCEPT ![c].left = @ - take, ![c].pc = pc]
        BY <2>1 DEF Taken
  <2> HIDE DEF pc
  <2>4. tx'[c].pc = pc /\ tx'[c].got = tx[c].got
          /\ \A x \in Calls \ {c} : tx'[x] = tx[x]
        BY <1>1, <2>3 DEF Tx
  <2>5. TxLocked(c) /\ c # Nobody
        BY <1>3
  <2>6. tx'[c].pc \in InTx /\ TxLocked(c)'
        BY <2>2, <2>4, <2>5 DEF InTx, TxLocked
  <2>7. lock' = lock /\ base' = base /\ lock[n] = c /\ \A m \in Numbers \ {n} : batch'[m] = batch[m]
        BY <2>1 DEF Taken
  <2>8. QED BY <2>4, <2>5, <2>6, <2>7, LocksKept
<1>11. ASSUME NEW c \in Calls, Commit(c) PROVE Locks'
  <2>1. tx'[c].pc = "done" /\ tx'[c].got = tx[c].got
          /\ \A x \in Calls \ {c} : tx'[x] = tx[x]
        BY <1>1, <1>11 DEF Commit, Tx
  <2>2. \A n \in Numbers : lock'[n] = IF lock[n] = c THEN Nobody ELSE lock[n]
        BY <1>1, <1>11 DEF Commit, Release
  <2>3. \A n \in Numbers : base'[n] = (IF lock[n] = c THEN batch[n] ELSE base[n])
                             /\ batch'[n] = batch[n]
        BY <1>1, <1>11 DEF Commit, Seen
  <2>4. ASSUME NEW n \in Numbers PROVE RowLocked(n)'
    <3>1. CASE lock[n] = c
          BY <3>1, <2>2, <2>3 DEF RowLocked
    <3>2. CASE lock[n] # c
      <4>1. lock'[n] = lock[n] /\ base'[n] = base[n] /\ batch'[n] = batch[n]
            BY <3>2, <2>2, <2>3
      <4>2. lock[n] # Nobody => tx'[lock[n]] = tx[lock[n]]
            BY <3>2, <1>1, <2>1
      <4>3. QED BY <4>1, <4>2, <1>2 DEF RowLocked
    <3>3. QED BY <3>1, <3>2
  <2>5. ASSUME NEW x \in Calls PROVE TxLocked(x)'
    <3>1. CASE x = c
          BY <3>1, <2>1, <1>3 DEF TxLocked
    <3>2. CASE x # c
          BY <3>2, <2>1, <2>2, <1>3 DEF TxLocked
    <3>3. QED BY <3>1, <3>2
  <2>6. QED BY <2>4, <2>5, LocksParts
<1>12. ASSUME NEW c \in Calls, Rollback(c) PROVE Locks'
  <2>1. /\ \A n \in Numbers : /\ batch'[n] = IF lock[n] = c THEN base[n] ELSE batch[n]
                              /\ lock'[n] = IF lock[n] = c THEN Nobody ELSE lock[n]
        /\ base' = base
        /\ tx'[c] = [tx[c] EXCEPT !.pc = "failed"]
        /\ \A x \in Calls \ {c} : tx'[x] = tx[x]
        BY <1>12, RollbackEffect DEF BatchInv
  <2>2. tx'[c].pc = "failed" /\ tx'[c].got = tx[c].got
        BY <1>1, <2>1 DEF Tx
  <2>3. ASSUME NEW n \in Numbers PROVE RowLocked(n)'
    <3>1. CASE lock[n] = c
          BY <3>1, <2>1 DEF RowLocked
    <3>2. CASE lock[n] # c
      <4>1. lock'[n] = lock[n] /\ base'[n] = base[n] /\ batch'[n] = batch[n]
            BY <3>2, <2>1
      <4>2. lock[n] # Nobody => tx'[lock[n]] = tx[lock[n]]
            BY <3>2, <1>1, <2>1
      <4>3. QED BY <4>1, <4>2, <1>2 DEF RowLocked
    <3>3. QED BY <3>1, <3>2
  <2>4. ASSUME NEW x \in Calls PROVE TxLocked(x)'
    <3>1. CASE x = c
          BY <3>1, <2>2, <1>3 DEF TxLocked
    <3>2. CASE x # c
          BY <3>2, <2>1, <1>3 DEF TxLocked
    <3>3. QED BY <3>1, <3>2
  <2>5. QED BY <2>3, <2>4, LocksParts
<1>13. QED
      BY <1>4, <1>5, <1>6, <1>7, <1>8, <1>9, <1>10, <1>11, <1>12 DEF BatchInv, BatchStep
-----------------------------------------------------------------------------
(* The parts add up.                                                       *)

\* Members of rows: who made them and of which batch they are.
LEMMA RowsTyped ==
    ASSUME BatchTypeOK, NEW a \in rows
    PROVE  a.by \in Calls /\ a.n \in Numbers /\ a.first \in Nat /\ a.last \in Nat
BY DEF BatchTypeOK, Allocation

\* A step that adds no row, ends no transaction and counts no part keeps them sound.
LEMMA SoundKept ==
    ASSUME BatchInv, rows' = rows, base' = base,
           \A n \in Numbers : batch'[n].given = batch[n].given /\ Full(batch'[n]),
           \A x \in Calls : tx'[x].pc = "done" <=> tx[x].pc = "done",
           \A n \in Numbers : lock'[n] = lock[n] \/ lock[n] = Nobody
    PROVE  Sound'
<1>1. BatchTypeOK /\ Sound
      BY DEF BatchInv
<1>2. \A a \in rows : /\ a.by \in Calls /\ a.n \in Numbers
                      /\ 1 <= a.first /\ a.first <= a.last
                      /\ tx[a.by].pc = "done" \/ lock[a.n] = a.by
      BY <1>1, RowsTyped DEF Sound
<1>3. \A a \in rows : tx'[a.by].pc = "done" \/ lock'[a.n] = a.by
      BY <1>2, BatchAssumption
<1>4. Committed' = Committed
      BY <1>2 DEF Committed
<1>5. \A n \in Numbers : Full(batch'[n]) /\ Full(base'[n])
      BY <1>1 DEF Sound
<1>6. \A n \in Numbers : Cover(rows', n, batch'[n].given)
      BY <1>1 DEF Sound
<1>7. \A n \in Numbers : Cover(Committed', n, base'[n].given)
      BY <1>1, <1>4 DEF Sound
<1>8. \A a, b \in rows : a.n = b.n /\ a # b => a.last < b.first \/ b.last < a.first
      BY <1>1 DEF Sound
<1>9. /\ \A n \in Numbers : Full(batch[n])' /\ Full(base[n])'
      /\ \A n \in Numbers : Cover(rows, n, batch[n].given)'
      /\ \A n \in Numbers : Cover(Committed, n, base[n].given)'
      BY <1>5, <1>6, <1>7 DEF Full, Cover
<1>10. QED BY <1>2, <1>3, <1>8, <1>9 DEF Sound

\* Only c's transaction changes, and goes on.
LEMMA OthersDone ==
    ASSUME NEW c \in Calls, tx[c].pc # "done", tx'[c].pc # "done",
           \A x \in Calls \ {c} : tx'[x] = tx[x]
    PROVE  \A x \in Calls : tx'[x].pc = "done" <=> tx[x].pc = "done"
OBVIOUS

\* Taking parts.
LEMMA SoundTake ==
    ASSUME BatchInv, NEW c \in Calls, Take(c)
    PROVE  Sound'
<1>1. PICK n \in Numbers, take \in Nat, upto \in Nat : Taken(c, n, take, upto)
      BY TakeEffect
<1>2. BatchTypeOK /\ Sound
      BY DEF BatchInv
<1>3. batch \in [Numbers -> Batch] /\ base \in [Numbers -> Batch] /\ tx \in [Calls -> Tx]
      BY <1>2 DEF BatchTypeOK
<1>4. batch[n].given \in Nat /\ batch[n].parts \in Nat
      BY <1>3 DEF Batch
<1>5. tx[c].pc = "take"
      BY DEF Take
<1>6. \A x \in Calls : tx'[x].pc = "done" <=> tx[x].pc = "done"
  <2> DEFINE pc == IF take = tx[c].left THEN "commit" ELSE "select"
  <2>1. tx' = [tx EXCEPT ![c].left = @ - take, ![c].pc = pc] /\ pc # "done"
        BY <1>1 DEF Taken
  <2> HIDE DEF pc
  <2>2. tx'[c].pc = pc /\ \A x \in Calls \ {c} : tx'[x] = tx[x]
        BY <2>1, <1>3 DEF Tx
  <2>3. QED BY <2>1, <2>2, <1>5, OthersDone
<1>7. /\ batch'[n].given = upto /\ Full(batch'[n])
      /\ \A m \in Numbers \ {n} : batch'[m] = batch[m]
      /\ lock' = lock /\ base' = base /\ lock[n] = c
      /\ upto = batch[n].given + take
  <2>1. Full(batch[n])
        BY <1>2 DEF Sound
  <2> DEFINE cl == batch[n].closed \/ upto >= batch[n].parts
  <2>2. batch'[n] = [parts |-> batch[n].parts, given |-> upto, closed |-> cl]
          /\ upto <= batch[n].parts /\ upto = batch[n].given + take
        BY <1>1 DEF Taken
  <2>4. cl => batch[n].closed \/ upto >= batch[n].parts
        OBVIOUS
  <2> HIDE DEF cl
  <2>3. batch'[n].given = upto /\ batch'[n].parts = batch[n].parts /\ batch'[n].closed = cl
        BY <2>2
  <2>5. Full(batch'[n])
        BY <2>1, <2>2, <2>3, <2>4, <1>4 DEF Full
  <2>6. QED BY <2>2, <2>3, <2>5, <1>1 DEF Taken
<1>8. CASE take = 0
  <2>1. rows' = rows /\ batch'[n].given = batch[n].given
        BY <1>1, <1>4, <1>7, <1>8 DEF Taken
  <2>2. \A m \in Numbers : batch'[m].given = batch[m].given /\ Full(batch'[m])
        BY <1>2, <1>7, <2>1 DEF Sound
  <2>3. QED BY <1>6, <1>7, <2>1, <2>2, SoundKept
<1>9. CASE take # 0
  <2> DEFINE a == [by |-> c, d |-> tx[c].d, n |-> n, first |-> batch[n].given + 1, last |-> upto]
  <2>1. rows' = rows \union {a}
        BY <1>1, <1>9 DEF Taken
  <2>2. a.by = c /\ a.n = n /\ a.first = batch[n].given + 1 /\ a.last = upto
          /\ 1 <= a.first /\ a.first <= a.last
        BY <1>4, <1>7, <1>9
  <2> HIDE DEF a
  <2>3. \A b \in rows : /\ b.by \in Calls /\ b.n \in Numbers /\ b.first \in Nat /\ b.last \in Nat
                        /\ 1 <= b.first /\ b.first <= b.last
                        /\ tx[b.by].pc = "done" \/ lock[b.n] = b.by
        BY <1>2, RowsTyped DEF Sound
  <2>4. \A b \in rows : b.n = n => b.last <= batch[n].given
        BY <1>2, <2>3 DEF Sound, Cover
  <2>5. \A b \in rows' : /\ 1 <= b.first /\ b.first <= b.last
                         /\ tx'[b.by].pc = "done" \/ lock'[b.n] = b.by
        BY <1>6, <1>7, <2>1, <2>2, <2>3
  <2>6. \A b, e \in rows' : b.n = e.n /\ b # e => b.last < e.first \/ e.last < b.first
    <3>1. \A b, e \in rows : b.n = e.n /\ b # e => b.last < e.first \/ e.last < b.first
          BY <1>2 DEF Sound
    <3>2. \A b \in rows : b.n = n => b.last < a.first
          BY <1>4, <2>2, <2>3, <2>4
    <3>3. QED BY <2>1, <2>2, <3>1, <3>2
  <2>7. \A m \in Numbers : Full(batch'[m]) /\ Full(base'[m])
        BY <1>2, <1>7 DEF Sound
  <2>8. ASSUME NEW m \in Numbers PROVE Cover(rows', m, batch'[m].given)
    <3>1. Cover(rows, m, batch[m].given)
          BY <1>2 DEF Sound
    <3>2. CASE m # n
      <4>1. \A p \in Nat : (\E b \in rows' : b.n = m /\ b.first <= p /\ p <= b.last)
                             <=> (\E b \in rows : b.n = m /\ b.first <= p /\ p <= b.last)
            BY <2>1, <2>2, <3>2
      <4>2. QED BY <3>1, <3>2, <4>1, <1>7 DEF Cover
    <3>3. CASE m = n
      <4>1. ASSUME NEW p \in Nat
            PROVE  (\E b \in rows' : b.n = n /\ b.first <= p /\ p <= b.last)
                     <=> (1 <= p /\ p <= upto)
        <5>1. (\E b \in rows : b.n = n /\ b.first <= p /\ p <= b.last)
                <=> (1 <= p /\ p <= batch[n].given)
              BY <3>1, <3>3 DEF Cover
        <5>2. (\E b \in rows' : b.n = n /\ b.first <= p /\ p <= b.last)
                <=> \/ \E b \in rows : b.n = n /\ b.first <= p /\ p <= b.last
                    \/ batch[n].given + 1 <= p /\ p <= upto
              BY <2>1, <2>2
        <5>3. (1 <= p /\ p <= batch[n].given) \/ (batch[n].given + 1 <= p /\ p <= upto)
                <=> (1 <= p /\ p <= upto)
              BY <1>4, <1>7, <1>9
        <5>4. QED BY <5>1, <5>2, <5>3
      <4>2. QED BY <4>1, <3>3, <1>7 DEF Cover
    <3>4. QED BY <3>2, <3>3
  <2>9. ASSUME NEW m \in Numbers PROVE Cover(Committed', m, base'[m].given)
    <3>1. a \notin Committed'
      <4>1. tx'[c].pc # "done"
            BY <1>5, <1>6
      <4>2. QED BY <4>1, <2>2 DEF Committed
    <3>2. Committed' = Committed
          BY <1>6, <2>1, <2>3, <3>1 DEF Committed
    <3>3. QED BY <1>2, <1>7, <3>2 DEF Sound
  <2>10. /\ \A m \in Numbers : Full(batch[m])' /\ Full(base[m])'
         /\ \A m \in Numbers : Cover(rows, m, batch[m].given)'
         /\ \A m \in Numbers : Cover(Committed, m, base[m].given)'
         BY <2>7, <2>8, <2>9 DEF Full, Cover
  <2>11. QED BY <2>5, <2>6, <2>10 DEF Sound
<1>10. QED BY <1>8, <1>9
\* Whether allocations hold the first parts of a batch is a matter of its own allocations.
LEMMA CoverSame ==
    ASSUME NEW S, NEW T, NEW n \in Numbers, NEW k,
           \A a \in S : a.n = n => a \in T, \A a \in T : a.n = n => a \in S,
           Cover(S, n, k)
    PROVE  Cover(T, n, k)
BY DEF Cover

\* Committing makes all that a transaction has done visible.
LEMMA SoundCommit ==
    ASSUME BatchInv, NEW c \in Calls, Commit(c)
    PROVE  Sound'
<1>1. /\ BatchTypeOK /\ Sound
      /\ batch \in [Numbers -> Batch] /\ base \in [Numbers -> Batch]
      /\ lock \in [Numbers -> Calls \union {Nobody}] /\ tx \in [Calls -> Tx]
      BY DEF BatchInv, BatchTypeOK
<1>2. tx[c].pc = "commit" /\ rows' = rows /\ batch' = batch
      BY DEF Commit
<1>3. tx'[c].pc = "done" /\ \A x \in Calls \ {c} : tx'[x] = tx[x]
      BY <1>1 DEF Commit, Tx
<1>4. \A n \in Numbers : /\ lock'[n] = IF lock[n] = c THEN Nobody ELSE lock[n]
                         /\ base'[n] = IF lock[n] = c THEN batch[n] ELSE base[n]
      BY DEF Commit, Release, Seen
<1>5. \A a \in rows : /\ a.by \in Calls /\ a.n \in Numbers
                      /\ 1 <= a.first /\ a.first <= a.last
                      /\ tx[a.by].pc = "done" \/ lock[a.n] = a.by
      BY <1>1, RowsTyped DEF Sound
<1>6. \A a \in rows : tx'[a.by].pc = "done" \/ lock'[a.n] = a.by
      BY <1>3, <1>4, <1>5
<1>7. \A a \in rows : a \in Committed' <=> a \in Committed \/ a.by = c
      BY <1>2, <1>3, <1>5 DEF Committed
<1>8. Committed \subseteq rows /\ Committed' \subseteq rows
      BY <1>2 DEF Committed
<1>9. ASSUME NEW n \in Numbers PROVE Cover(Committed', n, base'[n].given)
  <2>1. CASE lock[n] = c
    <3>1. \A a \in rows : a.n = n => a \in Committed'
          BY <1>5, <1>7, <2>1 DEF Committed
    <3>2. Cover(rows, n, batch[n].given)
          BY <1>1 DEF Sound
    <3>3. Cover(Committed', n, batch[n].given)
          BY <3>1, <3>2, <1>8, CoverSame
    <3>4. QED BY <3>3, <2>1, <1>4
  <2>2. CASE lock[n] # c
    <3>1. \A a \in Committed' : a.n = n => a \in Committed
          BY <1>2, <1>5, <1>7, <1>8, <2>2 DEF Committed
    <3>2. Committed \subseteq Committed'
          BY <1>7, <1>8
    <3>3. Cover(Committed, n, base[n].given)
          BY <1>1 DEF Sound
    <3>4. Cover(Committed', n, base[n].given)
          BY <3>1, <3>2, <3>3, CoverSame
    <3>5. QED BY <3>4, <2>2, <1>4
  <2>3. QED BY <2>1, <2>2
<1>10. /\ \A n \in Numbers : Full(batch[n])' /\ Full(base[n])'
       /\ \A n \in Numbers : Cover(rows, n, batch[n].given)'
       /\ \A n \in Numbers : Cover(Committed, n, base[n].given)'
  <2>1. \A n \in Numbers : Full(batch'[n]) /\ Full(base'[n])
        BY <1>1, <1>2, <1>4 DEF Sound
  <2>2. \A n \in Numbers : Cover(rows', n, batch'[n].given)
        BY <1>1, <1>2 DEF Sound
  <2>3. QED BY <2>1, <2>2, <1>9 DEF Full, Cover
<1>11. \A a, b \in rows : a.n = b.n /\ a # b => a.last < b.first \/ b.last < a.first
       BY <1>1 DEF Sound
<1>12. QED BY <1>2, <1>5, <1>6, <1>10, <1>11 DEF Sound

\* Rolling back undoes it.
LEMMA SoundRollback ==
    ASSUME BatchInv, NEW c \in Calls, tx[c].pc # "done", Rollback(c)
    PROVE  Sound'
<1>1. BatchTypeOK /\ Sound /\ tx \in [Calls -> Tx]
      BY DEF BatchInv, BatchTypeOK
<1>2. /\ \A n \in Numbers : /\ batch'[n] = IF lock[n] = c THEN base[n] ELSE batch[n]
                            /\ lock'[n] = IF lock[n] = c THEN Nobody ELSE lock[n]
      /\ base' = base
      /\ rows' = {a \in rows : a.by # c}
      /\ tx'[c] = [tx[c] EXCEPT !.pc = "failed"]
      /\ \A x \in Calls \ {c} : tx'[x] = tx[x]
      BY <1>1, RollbackEffect
<1>3. tx[c].pc # "done" /\ tx'[c].pc = "failed"
      BY <1>1, <1>2 DEF Tx
<1>4. \A a \in rows : /\ a.by \in Calls /\ a.n \in Numbers
                      /\ 1 <= a.first /\ a.first <= a.last
                      /\ tx[a.by].pc = "done" \/ lock[a.n] = a.by
      BY <1>1, RowsTyped DEF Sound
<1>5. \A a \in rows' : /\ 1 <= a.first /\ a.first <= a.last
                       /\ tx'[a.by].pc = "done" \/ lock'[a.n] = a.by
      BY <1>2, <1>4
<1>6. Committed' = Committed
  <2>1. \A a \in rows : tx[a.by].pc = "done" => a.by # c
        BY <1>3
  <2>2. \A a \in rows' : tx'[a.by].pc = "done" <=> tx[a.by].pc = "done"
        BY <1>2, <1>4
  <2>3. QED BY <1>2, <2>1, <2>2 DEF Committed
<1>7. ASSUME NEW n \in Numbers PROVE Cover(rows', n, batch'[n].given)
  <2>1. CASE lock[n] = c
    <3>1. \A a \in rows' : a.n = n => a \in Committed
          BY <1>2, <1>4, <2>1 DEF Committed
    <3>2. \A a \in Committed : a \in rows'
          BY <1>2, <1>3 DEF Committed
    <3>3. Cover(Committed, n, base[n].given)
          BY <1>1 DEF Sound
    <3>4. Cover(rows', n, base[n].given)
          BY <3>1, <3>2, <3>3, CoverSame
    <3>5. QED BY <3>4, <2>1, <1>2
  <2>2. CASE lock[n] # c
    <3>1. \A a \in rows : a.n = n => a \in rows'
          BY <1>2, <1>3, <1>4, <2>2
    <3>2. rows' \subseteq rows
          BY <1>2
    <3>3. Cover(rows, n, batch[n].given)
          BY <1>1 DEF Sound
    <3>4. Cover(rows', n, batch[n].given)
          BY <3>1, <3>2, <3>3, CoverSame
    <3>5. QED BY <3>4, <2>2, <1>2
  <2>3. QED BY <2>1, <2>2
<1>8. /\ \A n \in Numbers : Full(batch[n])' /\ Full(base[n])'
      /\ \A n \in Numbers : Cover(rows, n, batch[n].given)'
      /\ \A n \in Numbers : Cover(Committed, n, base[n].given)'
  <2>1. \A n \in Numbers : Full(batch'[n]) /\ Full(base'[n])
        BY <1>1, <1>2 DEF Sound
  <2>2. \A n \in Numbers : Cover(Committed', n, base'[n].given)
        BY <1>1, <1>2, <1>6 DEF Sound
  <2>3. QED BY <2>1, <2>2, <1>7 DEF Full, Cover
<1>9. \A a, b \in rows' : a.n = b.n /\ a # b => a.last < b.first \/ b.last < a.first
      BY <1>1, <1>2 DEF Sound
<1>10. QED BY <1>5, <1>8, <1>9 DEF Sound

\* A step keeps the parts in order.
LEMMA SoundStep ==
    ASSUME BatchInv, BatchStep
    PROVE  Sound'
<1>1. /\ BatchTypeOK /\ Sound /\ Locks
      /\ batch \in [Numbers -> Batch] /\ base \in [Numbers -> Batch]
      /\ lock \in [Numbers -> Calls \union {Nobody}] /\ tx \in [Calls -> Tx]
      BY DEF BatchInv, BatchTypeOK
<1>2. \A n \in Numbers : Full(batch[n])
      BY <1>1 DEF Sound
<1>3. CASE UNCHANGED batchVars
      BY <1>1, <1>3 DEF batchVars, Sound, Committed, Full, Cover
<1>4. ASSUME NEW c \in Calls, tx[c].pc # "done", tx'[c].pc # "done",
             \A x \in Calls \ {c} : tx'[x] = tx[x],
             UNCHANGED <<batch, base, lock, rows>>
      PROVE  Sound'
  <2>1. \A x \in Calls : tx'[x].pc = "done" <=> tx[x].pc = "done"
        BY <1>4
  <2>2. QED BY <1>2, <1>4, <2>1, SoundKept
<1>5. ASSUME NEW c \in Calls, NEW d \in Donations, NEW want \in Requests, NEW size \in Sizes,
             Begin(c, d, want, size)
      PROVE  Sound'
  <2>1. tx[c].pc = "idle" /\ tx'[c].pc = "select" /\ \A x \in Calls \ {c} : tx'[x] = tx[x]
        BY <1>1, <1>5 DEF Begin, NoTx
  <2>2. QED BY <1>4, <1>5, <2>1 DEF Begin
<1>6. ASSUME NEW c \in Calls, Select(c) PROVE Sound'
  <2> DEFINE open == {n \in Numbers : Open(Seen(c, n))}
             pc   == IF open = {} THEN "number" ELSE "lock"
  <2>1. tx' = [tx EXCEPT ![c].wait = open, ![c].got = 0, ![c].pc = pc] /\ pc # "done"
        BY <1>6 DEF Select
  <2> HIDE DEF open, pc
  <2>2. tx'[c].pc = pc /\ \A x \in Calls \ {c} : tx'[x] = tx[x]
        BY <1>1, <2>1 DEF Tx
  <2>3. QED BY <1>4, <1>6, <2>1, <2>2 DEF Select
<1>7. ASSUME NEW c \in Calls, Lock(c) PROVE Sound'
  <2> DEFINE n    == Max(tx[c].wait)
             rest == tx[c].wait \ {n}
             got  == IF tx[c].got = 0 /\ Open(batch[n]) THEN n ELSE tx[c].got
             pc   == IF rest # {} THEN "lock" ELSE IF got = 0 THEN "number" ELSE "take"
  <2>1. tx' = [tx EXCEPT ![c].wait = rest, ![c].got = got, ![c].pc = pc]
          /\ lock' = [lock EXCEPT ![n] = c] /\ UNCHANGED <<batch, base, rows>>
          /\ lock[n] \in {Nobody, c} /\ tx[c].pc = "lock"
        BY <1>7 DEF Lock
  <2>2. pc # "done"
        OBVIOUS
  <2> HIDE DEF n, rest, got, pc
  <2>3. tx'[c].pc = pc /\ \A x \in Calls \ {c} : tx'[x] = tx[x]
        BY <1>1, <2>1 DEF Tx
  <2>4. \A x \in Calls : tx'[x].pc = "done" <=> tx[x].pc = "done"
        BY <2>1, <2>2, <2>3
  <2>5. \A m \in Numbers : lock'[m] = lock[m] \/ lock[m] = Nobody
        BY <1>1, <2>1
  <2>6. QED BY <1>2, <2>1, <2>4, <2>5, SoundKept
<1>8. ASSUME NEW c \in Calls, Number(c) PROVE Sound'
  <2>1. PICK next : tx' = [tx EXCEPT ![c].got = next, ![c].pc = "insert"]
        BY <1>8 DEF Number
  <2>2. tx'[c].pc = "insert" /\ \A x \in Calls \ {c} : tx'[x] = tx[x]
        BY <1>1, <2>1 DEF Tx
  <2>3. QED BY <1>4, <1>8, <2>2 DEF Number
<1>9. ASSUME NEW c \in Calls, Insert(c) PROVE Sound'
  <2> DEFINE n == tx[c].got
             b == [parts |-> tx[c].size, given |-> 0, closed |-> FALSE]
  <2>1. n \in Numbers /\ tx[c].size \in Nat /\ tx[c].pc = "insert"
        BY <1>1, <1>9 DEF Locks, Insert, Tx
  <2>2. /\ lock[n] = Nobody /\ ~Exists(base[n])
        /\ lock' = [lock EXCEPT ![n] = c] /\ batch' = [batch EXCEPT ![n] = b]
        /\ tx' = [tx EXCEPT ![c].pc = "take"] /\ UNCHANGED <<base, rows>>
        BY <1>9 DEF Insert
  <2>3. b.given = 0 /\ Full(b)
        BY <2>1 DEF Full
  <2>4. tx'[c].pc = "take" /\ \A x \in Calls \ {c} : tx'[x] = tx[x]
        BY <1>1, <2>2 DEF Tx
  <2>5. \A x \in Calls : tx'[x].pc = "done" <=> tx[x].pc = "done"
        BY <2>1, <2>4
  <2> HIDE DEF n, b
  <2>6. batch[n].given = 0
    <3>1. batch[n] = base[n] /\ Full(batch[n]) /\ batch[n] \in Batch
          BY <1>1, <1>2, <2>1, <2>2 DEF Locks
    <3>2. QED BY <2>2, <3>1 DEF Full, Exists, Batch
  <2>7. \A m \in Numbers : batch'[m].given = batch[m].given /\ Full(batch'[m])
        BY <1>1, <1>2, <2>1, <2>2, <2>3, <2>6
  <2>8. \A m \in Numbers : lock'[m] = lock[m] \/ lock[m] = Nobody
        BY <1>1, <2>2
  <2>9. QED BY <2>2, <2>5, <2>7, <2>8, SoundKept
<1>10. QED
      BY <1>1, <1>3, <1>5, <1>6, <1>7, <1>8, <1>9, SoundTake, SoundCommit, SoundRollback DEF BatchStep
-----------------------------------------------------------------------------
(* No number is left out.                                                  *)

\* A step that makes no row appear or disappear in anybody's view.
LEMMA ChainedKept ==
    ASSUME Chained,
           \A n \in Numbers : Exists(base'[n]) <=> Exists(base[n]),
           \A n \in Numbers : Exists(base[n]) => Exists(batch'[n]),
           \A x \in Calls : \A n \in Numbers : Exists(Seen(x, n))' <=> Exists(Seen(x, n)),
           \A x \in Calls : tx'[x].pc = "insert" =>
              \/ tx[x].pc = "insert" /\ tx'[x].got = tx[x].got
              \/ \A m \in 1 .. tx'[x].got - 1 : Exists(Seen(x, m)),
           Locks'
    PROVE  Chained'
<1>1. MaxBatch \in Nat
      BY BatchAssumption
<1>2. \A n \in Numbers : \A m \in 1 .. n - 1 : m \in Numbers
      BY <1>1
<1>3. \A n \in Numbers : Exists(base[n])' => Exists(batch[n])'
      BY DEF Exists
<1>4. \A n \in Numbers : Exists(base[n])' => \A m \in 1 .. n - 1 : Exists(base[m])'
      BY <1>2 DEF Chained, Exists
<1>5. \A x \in Calls : \A n \in Numbers :
          Exists(Seen(x, n))' => \A m \in 1 .. n - 1 : Exists(Seen(x, m))'
      BY <1>2 DEF Chained
<1>6. ASSUME NEW x \in Calls, tx'[x].pc = "insert", NEW m \in 1 .. tx'[x].got - 1
      PROVE  Exists(Seen(x, m))'
  <2>1. Exists(Seen(x, m))
        BY <1>6 DEF Chained
  <2>2. tx'[x].got \in Numbers
        BY <1>6 DEF Locks
  <2>3. m \in Numbers
        BY <1>1, <1>6, <2>2
  <2>4. QED BY <2>1, <2>3
<1>7. QED BY <1>3, <1>4, <1>5, <1>6 DEF Chained

\* A step leaves no number out.
LEMMA ChainedStep ==
    ASSUME BatchInv, BatchStep, BatchTypeOK', Locks'
    PROVE  Chained'
<1>1. /\ BatchTypeOK /\ Chained /\ Locks
      /\ batch \in [Numbers -> Batch] /\ base \in [Numbers -> Batch]
      /\ lock \in [Numbers -> Calls \union {Nobody}] /\ tx \in [Calls -> Tx]
      /\ MaxBatch \in Nat /\ Nobody \notin Calls
      BY BatchAssumption DEF BatchInv, BatchTypeOK
<1>2. \A n \in Numbers : \A m \in 1 .. n - 1 : m \in Numbers
      BY <1>1
<1>3. CASE UNCHANGED batchVars
      BY <1>1, <1>3 DEF batchVars, Chained, Exists, Seen
<1>4. ASSUME NEW c \in Calls, \A x \in Calls \ {c} : tx'[x] = tx[x],
             UNCHANGED <<batch, base, lock>>,
             tx'[c].pc = "insert" => \A m \in 1 .. tx'[c].got - 1 : Exists(Seen(c, m))
      PROVE  Chained'
  <2>1. \A x \in Calls : \A n \in Numbers : Exists(Seen(x, n))' <=> Exists(Seen(x, n))
        BY <1>4 DEF Exists, Seen
  <2>2. \A n \in Numbers : Exists(base'[n]) <=> Exists(base[n])
        BY <1>4
  <2>3. \A n \in Numbers : Exists(base[n]) => Exists(batch'[n])
        BY <1>1, <1>4 DEF Chained
  <2>4. QED BY <1>1, <1>4, <2>1, <2>2, <2>3, ChainedKept
<1>5. ASSUME NEW c \in Calls, NEW d \in Donations, NEW want \in Requests, NEW size \in Sizes,
             Begin(c, d, want, size)
      PROVE  Chained'
  <2>1. tx'[c].pc = "select" /\ \A x \in Calls \ {c} : tx'[x] = tx[x]
        BY <1>1, <1>5 DEF Begin, NoTx
  <2>2. QED BY <1>4, <1>5, <2>1 DEF Begin
<1>6. ASSUME NEW c \in Calls, Select(c) PROVE Chained'
  <2> DEFINE open == {n \in Numbers : Open(Seen(c, n))}
             pc   == IF open = {} THEN "number" ELSE "lock"
  <2>1. tx' = [tx EXCEPT ![c].wait = open, ![c].got = 0, ![c].pc = pc] /\ pc # "insert"
        BY <1>6 DEF Select
  <2> HIDE DEF open, pc
  <2>2. tx'[c].pc = pc /\ \A x \in Calls \ {c} : tx'[x] = tx[x]
        BY <1>1, <2>1 DEF Tx
  <2>3. QED BY <1>4, <1>6, <2>1, <2>2 DEF Select
<1>7. ASSUME NEW c \in Calls, Lock(c) PROVE Chained'
  <2> DEFINE n    == Max(tx[c].wait)
             rest == tx[c].wait \ {n}
             got  == IF tx[c].got = 0 /\ Open(batch[n]) THEN n ELSE tx[c].got
             pc   == IF rest # {} THEN "lock" ELSE IF got = 0 THEN "number" ELSE "take"
  <2>1. tx' = [tx EXCEPT ![c].wait = rest, ![c].got = got, ![c].pc = pc]
          /\ lock' = [lock EXCEPT ![n] = c] /\ UNCHANGED <<batch, base, rows>>
          /\ lock[n] \in {Nobody, c}
        BY <1>7 DEF Lock
  <2>2. pc # "insert"
        OBVIOUS
  <2> HIDE DEF n, rest, got, pc
  <2>3. tx'[c].pc = pc /\ \A x \in Calls \ {c} : tx'[x] = tx[x]
        BY <1>1, <2>1 DEF Tx
  <2>4. ASSUME NEW x \in Calls, NEW m \in Numbers
        PROVE  Exists(Seen(x, m))' <=> Exists(Seen(x, m))
    <3>1. \/ lock'[m] = lock[m]
          \/ m = n /\ lock[m] = Nobody /\ lock'[m] = c /\ batch[m] = base[m]
          BY <1>1, <2>1 DEF Locks
    <3>2. QED BY <3>1, <2>1 DEF Exists, Seen
  <2>5. \A m \in Numbers : Exists(base[m]) => Exists(batch'[m])
        BY <1>1, <2>1 DEF Chained
  <2>6. \A m \in Numbers : Exists(base'[m]) <=> Exists(base[m])
        BY <2>1
  <2>7. \A x \in Calls : tx'[x].pc = "insert" => tx[x].pc = "insert" /\ tx'[x].got = tx[x].got
        BY <2>2, <2>3
  <2>8. QED BY <1>1, <2>4, <2>5, <2>6, <2>7, ChainedKept
<1>8. ASSUME NEW c \in Calls, Number(c) PROVE Chained'
  <2>1. /\ tx'[c].got \in Numbers
        /\ tx'[c].got = 1 \/ \E n \in Numbers : Exists(Seen(c, n)) /\ n = tx'[c].got - 1
        BY <1>1, <1>8, NextNumber
  <2>2. PICK next : tx' = [tx EXCEPT ![c].got = next, ![c].pc = "insert"]
        BY <1>8 DEF Number
  <2>3. \A x \in Calls \ {c} : tx'[x] = tx[x]
        BY <1>1, <2>2
  <2>4. \A m \in 1 .. tx'[c].got - 1 : Exists(Seen(c, m))
    <3>1. CASE tx'[c].got = 1
          BY <3>1
    <3>2. CASE \E n \in Numbers : Exists(Seen(c, n)) /\ n = tx'[c].got - 1
      <4>1. PICK n \in Numbers : Exists(Seen(c, n)) /\ n = tx'[c].got - 1
            BY <3>2
      <4>2. \A m \in 1 .. n - 1 : Exists(Seen(c, m))
            BY <1>1, <4>1 DEF Chained
      <4>3. \A m \in 1 .. n : m \in 1 .. n - 1 \/ m = n
            BY <1>1
      <4>4. QED BY <4>1, <4>2, <4>3
    <3>3. QED BY <2>1, <3>1, <3>2
  <2>5. QED BY <1>4, <1>8, <2>3, <2>4 DEF Number
<1>9. ASSUME NEW c \in Calls, Insert(c) PROVE Chained'
  <2> DEFINE n == tx[c].got
             b == [parts |-> tx[c].size, given |-> 0, closed |-> FALSE]
  <2>1. n \in Numbers /\ tx[c].pc = "insert"
        BY <1>1, <1>9 DEF Locks, Insert
  <2>2. /\ lock[n] = Nobody /\ ~Exists(base[n])
        /\ lock' = [lock EXCEPT ![n] = c] /\ batch' = [batch EXCEPT ![n] = b]
        /\ tx' = [tx EXCEPT ![c].pc = "take"] /\ base' = base
        BY <1>9 DEF Insert
  <2>3. \A m \in 1 .. n - 1 : Exists(Seen(c, m))
        BY <1>1, <2>1 DEF Chained
  <2>4. tx'[c].pc = "take" /\ \A x \in Calls \ {c} : tx'[x] = tx[x]
        BY <1>1, <2>2 DEF Tx
  <2> HIDE DEF n, b
  <2>5. \A m \in Numbers \ {n} : lock'[m] = lock[m] /\ batch'[m] = batch[m]
        BY <1>1, <2>2
  <2>6. lock'[n] = c
        BY <1>1, <2>1, <2>2
  <2>7. \A x \in Calls : \A m \in Numbers :
            x # c \/ m # n => (Exists(Seen(x, m))' <=> Exists(Seen(x, m)))
        BY <1>1, <2>2, <2>5, <2>6 DEF Exists, Seen
  <2>8. \A m \in Numbers : Exists(base[m])' => Exists(batch[m])'
    <3>1. \A m \in Numbers : Exists(base[m]) => Exists(batch[m]) /\ m # n
          BY <1>1, <2>2 DEF Chained
    <3>2. QED BY <2>2, <2>5, <3>1 DEF Exists
  <2>9. \A m \in Numbers : Exists(base[m])' => \A k \in 1 .. m - 1 : Exists(base[k])'
        BY <1>1, <2>2 DEF Chained, Exists
  <2>10. ASSUME NEW x \in Calls, NEW m \in Numbers, Exists(Seen(x, m))', NEW k \in 1 .. m - 1
         PROVE  Exists(Seen(x, k))'
    <3>1. k \in Numbers
          BY <1>2
    <3>2. CASE x # c
      <4>1. Exists(Seen(x, m))
            BY <2>7, <2>10, <3>2
      <4>2. Exists(Seen(x, k))
            BY <1>1, <4>1 DEF Chained
      <4>3. QED BY <2>7, <3>1, <3>2, <4>2
    <3>3. CASE x = c /\ m = n
      <4>1. Exists(Seen(x, k)) /\ k # n
            BY <2>1, <2>3, <3>3
      <4>2. QED BY <2>7, <3>1, <4>1
    <3>4. CASE x = c /\ m # n
      <4>1. Exists(Seen(x, m))
            BY <2>7, <2>10, <3>4
      <4>2. Exists(Seen(x, k))
            BY <1>1, <4>1 DEF Chained
      <4>3. k # n
            BY <1>1, <2>2, <3>4, <4>2 DEF Seen
      <4>4. QED BY <2>7, <3>1, <4>2, <4>3
    <3>5. QED BY <3>2, <3>3, <3>4
  <2>11. ASSUME NEW x \in Calls, tx'[x].pc = "insert", NEW k \in 1 .. tx'[x].got - 1
         PROVE  Exists(Seen(x, k))'
    <3>1. x # c /\ tx'[x] = tx[x]
          BY <2>4, <2>11
    <3>2. tx[x].got \in Numbers
          BY <1>1, <2>11, <3>1 DEF Locks
    <3>3. k \in Numbers
          BY <1>2, <2>11, <3>1, <3>2
    <3>4. Exists(Seen(x, k))
          BY <1>1, <2>11, <3>1 DEF Chained
    <3>5. QED BY <2>7, <3>1, <3>3, <3>4
  <2>12. QED BY <2>8, <2>9, <2>10, <2>11 DEF Chained
<1>10. ASSUME NEW c \in Calls, Take(c) PROVE Chained'
  <2>1. PICK n \in Numbers, take \in Nat, upto \in Nat : Taken(c, n, take, upto)
        BY <1>10, TakeEffect
  <2> DEFINE pc == IF take = tx[c].left THEN "commit" ELSE "select"
  <2>2. tx' = [tx EXCEPT ![c].left = @ - take, ![c].pc = pc] /\ pc # "insert"
        BY <2>1 DEF Taken
  <2> HIDE DEF pc
  <2>3. tx'[c].pc = pc /\ \A x \in Calls \ {c} : tx'[x] = tx[x]
        BY <1>1, <2>2 DEF Tx
  <2>4. \A m \in Numbers : batch'[m].parts = batch[m].parts
    <3> DEFINE cl == batch[n].closed \/ upto >= batch[n].parts
    <3>1. batch'[n] = [parts |-> batch[n].parts, given |-> upto, closed |-> cl]
            /\ \A m \in Numbers \ {n} : batch'[m] = batch[m]
          BY <2>1 DEF Taken
    <3> HIDE DEF cl
    <3>2. batch'[n].parts = batch[n].parts
          BY <3>1
    <3>3. QED BY <3>1, <3>2
  <2>5. base' = base /\ lock' = lock
        BY <2>1 DEF Taken
  <2>6. \A x \in Calls : \A m \in Numbers : Exists(Seen(x, m))' <=> Exists(Seen(x, m))
        BY <2>4, <2>5 DEF Exists, Seen
  <2>7. \A m \in Numbers : Exists(base[m]) => Exists(batch'[m])
        BY <1>1, <2>4 DEF Chained, Exists
  <2>8. \A m \in Numbers : Exists(base'[m]) <=> Exists(base[m])
        BY <2>5
  <2>9. \A x \in Calls : tx'[x].pc = "insert" => tx[x].pc = "insert" /\ tx'[x].got = tx[x].got
        BY <2>2, <2>3
  <2>10. QED BY <1>1, <2>6, <2>7, <2>8, <2>9, ChainedKept
<1>11. ASSUME NEW c \in Calls, Commit(c) PROVE Chained'
  <2>1. tx[c].pc = "commit" /\ batch' = batch
        BY <1>11 DEF Commit
  <2>2. tx'[c].pc = "done" /\ \A x \in Calls \ {c} : tx'[x] = tx[x]
        BY <1>1, <1>11 DEF Commit, Tx
  <2>3. \A n \in Numbers : /\ lock'[n] = IF lock[n] = c THEN Nobody ELSE lock[n]
                           /\ base'[n] = Seen(c, n)
        BY <1>11 DEF Commit, Release
  <2>4. \A n \in Numbers : Exists(base[n])' <=> Exists(Seen(c, n))
        BY <2>3 DEF Exists
  <2>5. \A n \in Numbers : Exists(base[n]) => Exists(batch[n]) /\ Exists(Seen(c, n))
        BY <1>1 DEF Chained, Seen
  <2>6. \A n \in Numbers : Exists(base[n])' => Exists(batch[n])'
        BY <1>1, <2>1, <2>4, <2>5 DEF Seen, Exists
  <2>7. \A n \in Numbers : Exists(base[n])' => \A m \in 1 .. n - 1 : Exists(base[m])'
        BY <1>1, <1>2, <2>4 DEF Chained
  \* What a transaction sees now: its own rows, and c's.
  <2>8. \A x \in Calls \ {c} : \A n \in Numbers :
            /\ Exists(Seen(x, n))' => Exists(Seen(x, n)) \/ Exists(Seen(c, n))
            /\ Exists(Seen(x, n)) \/ Exists(Seen(c, n)) => Exists(Seen(x, n))'
    <3> SUFFICES ASSUME NEW x \in Calls \ {c}, NEW n \in Numbers
                 PROVE  Exists(Seen(x, n))' <=> Exists(Seen(x, n)) \/ Exists(Seen(c, n))
        OBVIOUS
    <3>1. CASE lock[n] = x
      <4>1. lock'[n] = x /\ Seen(x, n) = batch[n] /\ Seen(c, n) = base[n]
            BY <2>3, <3>1 DEF Seen
      <4>2. Exists(Seen(x, n))' <=> Exists(batch[n])
            BY <2>1, <4>1 DEF Seen, Exists
      <4>3. QED BY <2>5, <4>1, <4>2
    <3>2. CASE lock[n] # x
      <4>1. lock'[n] # x /\ Seen(x, n) = base[n]
            BY <1>1, <2>3, <3>2 DEF Seen
      <4>2. Exists(Seen(x, n))' <=> Exists(Seen(c, n))
            BY <2>3, <4>1 DEF Seen, Exists
      <4>3. QED BY <2>5, <4>1, <4>2
    <3>3. QED BY <3>1, <3>2
  <2>9. \A n \in Numbers : Exists(Seen(c, n))' <=> Exists(Seen(c, n))
    <3>1. \A n \in Numbers : lock'[n] # c
          BY <1>1, <2>3
    <3>2. QED BY <2>3, <3>1 DEF Seen, Exists
  <2>10. \A x \in Calls : \A n \in Numbers :
            Exists(Seen(x, n)) => \A m \in 1 .. n - 1 : Exists(Seen(x, m))
         BY <1>1 DEF Chained
  <2>11. \A x \in Calls : \A n \in Numbers :
            Exists(Seen(x, n))' => \A m \in 1 .. n - 1 : Exists(Seen(x, m))'
         BY <1>2, <2>8, <2>9, <2>10
  <2>12. ASSUME NEW x \in Calls, tx'[x].pc = "insert", NEW m \in 1 .. tx'[x].got - 1
         PROVE  Exists(Seen(x, m))'
    <3>1. x # c /\ tx'[x] = tx[x]
          BY <2>2, <2>12
    <3>2. tx[x].got \in Numbers
          BY <1>1, <2>12, <3>1 DEF Locks
    <3>3. m \in Numbers
          BY <1>2, <2>12, <3>1, <3>2
    <3>4. Exists(Seen(x, m))
          BY <1>1, <2>12, <3>1 DEF Chained
    <3>5. QED BY <2>8, <3>1, <3>3, <3>4
  <2>13. QED BY <2>6, <2>7, <2>11, <2>12 DEF Chained
<1>12. ASSUME NEW c \in Calls, Rollback(c) PROVE Chained'
  <2>1. /\ \A n \in Numbers : /\ batch'[n] = IF lock[n] = c THEN base[n] ELSE batch[n]
                              /\ lock'[n] = IF lock[n] = c THEN Nobody ELSE lock[n]
        /\ base' = base
        /\ tx'[c] = [tx[c] EXCEPT !.pc = "failed"]
        /\ \A x \in Calls \ {c} : tx'[x] = tx[x]
        BY <1>1, <1>12, RollbackEffect
  <2>2. tx'[c].pc = "failed"
        BY <1>1, <2>1 DEF Tx
  <2>3. \A n \in Numbers : Exists(base[n])' => Exists(batch[n])'
        BY <1>1, <2>1 DEF Chained, Exists
  <2>4. \A n \in Numbers : Exists(base[n])' => \A m \in 1 .. n - 1 : Exists(base[m])'
        BY <1>1, <2>1 DEF Chained, Exists
  <2>5. \A x \in Calls \ {c} : \A n \in Numbers : Exists(Seen(x, n))' <=> Exists(Seen(x, n))
        BY <1>1, <2>1 DEF Seen, Exists
  <2>6. \A n \in Numbers : Exists(Seen(c, n))' <=> Exists(base[n])
    <3>1. \A n \in Numbers : lock'[n] # c
          BY <1>1, <2>1
    <3>2. QED BY <2>1, <3>1 DEF Seen, Exists
  <2>7. /\ \A x \in Calls : \A n \in Numbers :
              Exists(Seen(x, n)) => \A m \in 1 .. n - 1 : Exists(Seen(x, m))
        /\ \A n \in Numbers : Exists(base[n]) => \A m \in 1 .. n - 1 : Exists(base[m])
        BY <1>1 DEF Chained
  <2>8. \A x \in Calls : \A n \in Numbers :
            Exists(Seen(x, n))' => \A m \in 1 .. n - 1 : Exists(Seen(x, m))'
        BY <1>2, <2>5, <2>6, <2>7
  <2>9. ASSUME NEW x \in Calls, tx'[x].pc = "insert", NEW m \in 1 .. tx'[x].got - 1
        PROVE  Exists(Seen(x, m))'
    <3>1. x # c /\ tx'[x] = tx[x]
          BY <2>1, <2>2, <2>9
    <3>2. tx[x].got \in Numbers
          BY <1>1, <2>9, <3>1 DEF Locks
    <3>3. m \in Numbers
          BY <1>2, <2>9, <3>1, <3>2
    <3>4. Exists(Seen(x, m))
          BY <1>1, <2>9, <3>1 DEF Chained
    <3>5. QED BY <2>5, <3>1, <3>3, <3>4
  <2>10. QED BY <2>3, <2>4, <2>8, <2>9 DEF Chained
<1>13. QED
      BY <1>3, <1>5, <1>6, <1>7, <1>8, <1>9, <1>10, <1>11, <1>12 DEF BatchInv, BatchStep
-----------------------------------------------------------------------------
(* What requests have asked for and got.                                   *)

\* The parts that the allocations in S hold, one by one.
SharesIn(S) ==
    UNION {{[by |-> a.by, n |-> a.n, part |-> p] : p \in a.first .. a.last} : a \in S}

Mine(c) == {a \in rows : a.by = c}

\* Transaction r, which has made the allocations in S, holds what it has asked for but
\* for what is left.
AskedBy(r, S) ==
    /\ r.pc = "idle" => r.want = 0
    /\ r.pc \in InTx => /\ r.want # 0
                        /\ r.size \in Sizes
                        /\ IsFiniteSet(SharesIn(S))
                        /\ Cardinality(SharesIn(S)) + r.left = r.want
    /\ r.pc = "commit" => r.left = 0

Asked == \A c \in Calls : AskedBy(tx[c], Mine(c))

\* Batches are as large as the template had it when they were opened.
SizesUsed ==
    \A n \in Numbers : batch[n].parts \in Sizes \union {0} /\ base[n].parts \in Sizes \union {0}

\* An allocation holds as many parts as there are from its first to its last.
LEMMA SharesOfOne ==
    ASSUME NEW a, a.first \in Nat, a.last \in Nat, a.first <= a.last
    PROVE  /\ IsFiniteSet(SharesIn({a}))
           /\ Cardinality(SharesIn({a})) = a.last - a.first + 1
<1> DEFINE I    == a.first .. a.last
           T    == {[by |-> a.by, n |-> a.n, part |-> p] : p \in I}
           f    == [p \in I |-> [by |-> a.by, n |-> a.n, part |-> p]]
<1>1. SharesIn({a}) = T
      BY DEF SharesIn
<1>2. IsFiniteSet(I) /\ Cardinality(I) = a.last - a.first + 1
  <2> DEFINE lo == a.first
             hi == a.last
  <2>1. lo \in Nat /\ hi \in Nat /\ lo <= hi
        OBVIOUS
  <2> HIDE DEF lo, hi
  <2>2. lo \in Int /\ hi \in Int /\ ~ (lo > hi)
        BY <2>1
  <2>3. /\ IsFiniteSet(lo .. hi)
        /\ Cardinality(lo .. hi) = IF lo > hi THEN 0 ELSE hi - lo + 1
        BY <2>2, FS_Interval, Zenon
  <2>4. IsFiniteSet(lo .. hi) /\ Cardinality(lo .. hi) = hi - lo + 1
        BY <2>2, <2>3
  <2>5. QED BY <2>4, Zenon DEF lo, hi
<1>3. f \in Bijection(I, T)
  <2>1. f \in [I -> T]
        OBVIOUS
  <2>2. \A p, q \in I : f[p] = f[q] => p = q
    <3>1. \A p \in I : f[p].part = p
          OBVIOUS
    <3>2. QED BY <3>1
  <2>3. \A t \in T : \E p \in I : f[p] = t
        OBVIOUS
  <2> HIDE DEF f, T, I
  <2>4. f \in Injection(I, T)
        BY <2>1, <2>2 DEF Injection, IsInjective
  <2>5. f \in Surjection(I, T)
        BY <2>1, <2>3 DEF Surjection
  <2>6. QED BY <2>4, <2>5 DEF Bijection
<1>4. ExistsBijection(I, T)
      BY <1>3 DEF ExistsBijection
<1> HIDE DEF I, T
<1>5. IsFiniteSet(T) /\ Cardinality(T) = Cardinality(I)
      BY <1>2, <1>4, FS_Bijection
<1>6. QED BY <1>1, <1>2, <1>5

\* Allocations that hold none of the same parts hold all of them together.
LEMMA SharesAdd ==
    ASSUME NEW S, NEW a, IsFiniteSet(SharesIn(S)), a.first \in Nat, a.last \in Nat,
           a.first <= a.last,
           \A b \in S : b.n = a.n => b.last < a.first,
           \A b \in S : b.first \in Nat /\ b.last \in Nat
    PROVE  /\ IsFiniteSet(SharesIn(S \union {a}))
           /\ Cardinality(SharesIn(S \union {a})) =
                 Cardinality(SharesIn(S)) + (a.last - a.first + 1)
<1>1. SharesIn(S \union {a}) = SharesIn(S) \union SharesIn({a})
      BY DEF SharesIn
<1>2. SharesIn(S) \intersect SharesIn({a}) = {}
  <2> SUFFICES ASSUME NEW s \in SharesIn(S), s \in SharesIn({a}) PROVE FALSE
      OBVIOUS
  <2>1. PICK b \in S : \E p \in b.first .. b.last : s = [by |-> b.by, n |-> b.n, part |-> p]
        BY DEF SharesIn
  <2>2. \E p \in a.first .. a.last : s = [by |-> a.by, n |-> a.n, part |-> p]
        BY DEF SharesIn
  <2>3. s.n = b.n /\ s.n = a.n /\ s.part <= b.last /\ a.first <= s.part /\ s.part \in Nat
        BY <2>1, <2>2
  <2>4. b.last < a.first /\ b.last \in Nat
        BY <2>1, <2>3
  <2>5. QED BY <2>3, <2>4
<1>3. /\ IsFiniteSet(SharesIn({a}))
      /\ Cardinality(SharesIn({a})) = a.last - a.first + 1
      BY SharesOfOne
<1> DEFINE P == SharesIn(S)
           Q == SharesIn({a})
<1> HIDE DEF P, Q
<1>4. IsFiniteSet(P) /\ IsFiniteSet(Q) /\ P \intersect Q = {}
      BY <1>2, <1>3 DEF P, Q
<1>5. IsFiniteSet(P \union Q) /\ Cardinality(P \union Q) = Cardinality(P) + Cardinality(Q)
  <2>1. Cardinality(P \intersect Q) = 0
        BY <1>4, FS_EmptySet
  <2>2. Cardinality(P) \in Nat /\ Cardinality(Q) \in Nat
        BY <1>4, FS_CardinalityType
  <2>3. QED BY <1>4, <2>1, <2>2, FS_Union
<1>6. QED BY <1>1, <1>3, <1>5 DEF P, Q

\* One transaction changes, and the allocations of the others do not.
LEMMA AskedKept ==
    ASSUME Asked, NEW c \in Calls, \A x \in Calls \ {c} : tx'[x] = tx[x],
           \A x \in Calls \ {c} : Mine(x)' = Mine(x), AskedBy(tx'[c], Mine(c)')
    PROVE  Asked'
BY DEF Asked

\* A step of a transaction that allocates nothing and asks for nothing.
LEMMA AskedStill ==
    ASSUME Asked, NEW c \in Calls, \A x \in Calls \ {c} : tx'[x] = tx[x], rows' = rows,
           tx[c].pc \in InTx, tx'[c].pc \in InTx \ {"commit"},
           tx'[c].want = tx[c].want, tx'[c].left = tx[c].left, tx'[c].size = tx[c].size
    PROVE  Asked'
<1>1. \A x \in Calls : Mine(x)' = Mine(x)
      BY DEF Mine
<1>2. AskedBy(tx[c], Mine(c))
      BY DEF Asked
<1>3. AskedBy(tx'[c], Mine(c))
      BY <1>2 DEF AskedBy, InTx
<1>4. QED BY <1>1, <1>3, AskedKept

\* A request that has not begun holds nothing.
LEMMA NothingYet ==
    ASSUME BatchInv, NEW c \in Calls, tx[c].pc \notin InTx \union {"done"}
    PROVE  Mine(c) = {}
<1> SUFFICES ASSUME NEW a \in rows, a.by = c PROVE FALSE
    BY DEF Mine
<1>1. lock[a.n] = c /\ a.n \in Numbers
      BY RowsTyped DEF BatchInv, Sound
<1>2. c # Nobody
      BY BatchAssumption
<1>3. QED BY <1>1, <1>2 DEF BatchInv, Locks
\* A step keeps what has been asked for and got.
LEMMA AskedStep ==
    ASSUME BatchInv, Asked, BatchStep
    PROVE  Asked'
<1>1. /\ BatchTypeOK /\ Sound /\ tx \in [Calls -> Tx]
      BY DEF BatchInv, BatchTypeOK
<1>2. \A c \in Calls : AskedBy(tx[c], Mine(c))
      BY DEF Asked
<1>3. CASE UNCHANGED batchVars
      BY <1>2, <1>3 DEF batchVars, Asked, Mine
<1>4. ASSUME NEW c \in Calls, NEW d \in Donations, NEW want \in Requests, NEW size \in Sizes,
             Begin(c, d, want, size)
      PROVE  Asked'
  <2> DEFINE r == [NoTx EXCEPT !.pc = "select", !.d = d, !.want = want, !.left = want, !.size = size]
  <2>1. r.pc = "select" /\ r.want = want /\ r.left = want /\ r.size = size
        BY DEF NoTx
  <2>2. tx' = [tx EXCEPT ![c] = r] /\ rows' = rows /\ tx[c].pc = "idle"
        BY <1>4 DEF Begin
  <2> HIDE DEF r
  <2>3. tx'[c] = r /\ \A x \in Calls \ {c} : tx'[x] = tx[x]
        BY <1>1, <2>2
  <2>4. \A x \in Calls : Mine(x)' = Mine(x)
        BY <2>2 DEF Mine
  <2>5. Mine(c) = {}
        BY <2>2, NothingYet DEF InTx
  <2>6. IsFiniteSet(SharesIn({})) /\ Cardinality(SharesIn({})) = 0
    <3>1. SharesIn({}) = {}
          BY DEF SharesIn
    <3>2. QED BY <3>1, FS_EmptySet
  <2>7. want \in Nat /\ want # 0
        BY BatchAssumption
  <2>8. AskedBy(r, {})
    <3>1. 0 + want = want
          BY <2>7
    <3>2. QED BY <2>1, <2>6, <2>7, <3>1 DEF AskedBy
  <2>9. AskedBy(tx'[c], Mine(c)')
        BY <2>3, <2>4, <2>5, <2>8
  <2>10. QED BY <2>3, <2>4, <2>9, AskedKept
<1>5. ASSUME NEW c \in Calls, Select(c) PROVE Asked'
  <2> DEFINE open == {n \in Numbers : Open(Seen(c, n))}
             pc   == IF open = {} THEN "number" ELSE "lock"
  <2>1. tx' = [tx EXCEPT ![c].wait = open, ![c].got = 0, ![c].pc = pc] /\ pc \in {"number", "lock"}
          /\ rows' = rows /\ tx[c].pc = "select"
        BY <1>5 DEF Select
  <2> HIDE DEF open, pc
  <2>2. /\ tx'[c].pc = pc /\ tx'[c].want = tx[c].want /\ tx'[c].left = tx[c].left
        /\ tx'[c].size = tx[c].size /\ \A x \in Calls \ {c} : tx'[x] = tx[x]
        BY <1>1, <2>1 DEF Tx
  <2>3. QED BY <2>1, <2>2, AskedStill DEF InTx
<1>6. ASSUME NEW c \in Calls, Lock(c) PROVE Asked'
  <2> DEFINE n    == Max(tx[c].wait)
             rest == tx[c].wait \ {n}
             got  == IF tx[c].got = 0 /\ Open(batch[n]) THEN n ELSE tx[c].got
             pc   == IF rest # {} THEN "lock" ELSE IF got = 0 THEN "number" ELSE "take"
  <2>1. tx' = [tx EXCEPT ![c].wait = rest, ![c].got = got, ![c].pc = pc]
          /\ rows' = rows /\ tx[c].pc = "lock"
        BY <1>6 DEF Lock
  <2>2. pc \in {"number", "lock", "take"}
        OBVIOUS
  <2> HIDE DEF n, rest, got, pc
  <2>3. /\ tx'[c].pc = pc /\ tx'[c].want = tx[c].want /\ tx'[c].left = tx[c].left
        /\ tx'[c].size = tx[c].size /\ \A x \in Calls \ {c} : tx'[x] = tx[x]
        BY <1>1, <2>1 DEF Tx
  <2>4. QED BY <2>1, <2>2, <2>3, AskedStill DEF InTx
<1>7. ASSUME NEW c \in Calls, Number(c) PROVE Asked'
  <2>1. PICK next : tx' = [tx EXCEPT ![c].got = next, ![c].pc = "insert"]
        BY <1>7 DEF Number
  <2>2. /\ tx'[c].pc = "insert" /\ tx'[c].want = tx[c].want /\ tx'[c].left = tx[c].left
        /\ tx'[c].size = tx[c].size /\ \A x \in Calls \ {c} : tx'[x] = tx[x]
        BY <1>1, <2>1 DEF Tx
  <2>3. rows' = rows /\ tx[c].pc = "number"
        BY <1>7 DEF Number
  <2>4. QED BY <2>2, <2>3, AskedStill DEF InTx
<1>8. ASSUME NEW c \in Calls, Insert(c) PROVE Asked'
  <2>1. tx' = [tx EXCEPT ![c].pc = "take"] /\ rows' = rows /\ tx[c].pc = "insert"
        BY <1>8 DEF Insert
  <2>2. /\ tx'[c].pc = "take" /\ tx'[c].want = tx[c].want /\ tx'[c].left = tx[c].left
        /\ tx'[c].size = tx[c].size /\ \A x \in Calls \ {c} : tx'[x] = tx[x]
        BY <1>1, <2>1 DEF Tx
  <2>3. QED BY <2>1, <2>2, AskedStill DEF InTx
<1>9. ASSUME NEW c \in Calls, Take(c) PROVE Asked'
  <2>1. PICK n \in Numbers, take \in Nat, upto \in Nat : Taken(c, n, take, upto)
        BY <1>9, TakeEffect
  <2>2. batch[n].given \in Nat /\ tx[c].left \in Nat /\ tx[c].want \in Nat /\ tx[c].pc = "take"
        BY <1>1, <1>9 DEF BatchTypeOK, Batch, Tx, Take
  <2>3. take <= tx[c].left /\ upto = batch[n].given + take
        BY <2>1 DEF Taken
  <2> DEFINE left == tx[c].left - take
             pc   == IF take = tx[c].left THEN "commit" ELSE "select"
             a    == [by |-> c, d |-> tx[c].d, n |-> n, first |-> batch[n].given + 1, last |-> upto]
  <2>4. tx' = [tx EXCEPT ![c].left = left, ![c].pc = pc]
          /\ rows' = IF take = 0 THEN rows ELSE rows \union {a}
        BY <2>1 DEF Taken
  <2>5. left \in Nat /\ pc \in {"commit", "select"} /\ (pc = "commit" => left = 0)
        BY <2>2, <2>3
  <2>6. a.by = c /\ a.n = n /\ a.first = batch[n].given + 1 /\ a.last = upto
          /\ a.first \in Nat /\ a.last \in Nat
          /\ (take # 0 => a.first <= a.last /\ a.last - a.first + 1 = take)
    <3>1. a.by = c /\ a.n = n /\ a.first = batch[n].given + 1 /\ a.last = upto
          OBVIOUS
    <3> HIDE DEF a
    <3>2. QED BY <3>1, <2>1, <2>2, <2>3
  <2>7. left + take = tx[c].left
        BY <2>2, <2>3
  <2> HIDE DEF left, pc, a
  <2>8. /\ tx'[c].pc = pc /\ tx'[c].want = tx[c].want /\ tx'[c].left = left
        /\ tx'[c].size = tx[c].size /\ \A x \in Calls \ {c} : tx'[x] = tx[x]
        BY <1>1, <2>4 DEF Tx
  <2>9. \A x \in Calls \ {c} : Mine(x)' = Mine(x)
        BY <2>4, <2>6 DEF Mine
  <2>10. /\ tx[c].want # 0 /\ tx[c].size \in Sizes /\ IsFiniteSet(SharesIn(Mine(c)))
         /\ Cardinality(SharesIn(Mine(c))) + tx[c].left = tx[c].want
         BY <1>2, <2>2 DEF AskedBy, InTx
  <2>11. Cardinality(SharesIn(Mine(c))) \in Nat
         BY <2>10, FS_CardinalityType
  <2>12. /\ IsFiniteSet(SharesIn(Mine(c)'))
         /\ Cardinality(SharesIn(Mine(c)')) + left = tx[c].want
    <3>1. CASE take = 0
      <4>1. Mine(c)' = Mine(c) /\ left = tx[c].left
            BY <2>2, <2>4, <2>5, <2>7, <3>1 DEF Mine
      <4>2. QED BY <2>10, <4>1
    <3>2. CASE take # 0
      <4>1. Mine(c)' = Mine(c) \union {a}
            BY <2>4, <2>6, <3>2 DEF Mine
      <4>2. \A b \in Mine(c) : b.first \in Nat /\ b.last \in Nat
            BY <1>1, RowsTyped DEF Mine
      <4>3. \A b \in Mine(c) : b.n = a.n => b.last < a.first
        <5>1. SUFFICES ASSUME NEW b \in rows, b.n = n PROVE b.last < a.first
              BY <2>6 DEF Mine
        <5>2. Cover(rows, n, batch[n].given) /\ b.first <= b.last
              BY <1>1 DEF Sound
        <5>3. b.last \in Nat
              BY <1>1, RowsTyped
        <5>4. b.last <= batch[n].given
              BY <5>1, <5>2, <5>3 DEF Cover
        <5>5. QED BY <2>2, <2>6, <5>3, <5>4
      <4>4. /\ IsFiniteSet(SharesIn(Mine(c) \union {a}))
            /\ Cardinality(SharesIn(Mine(c) \union {a})) =
                  Cardinality(SharesIn(Mine(c))) + (a.last - a.first + 1)
            BY <2>6, <2>10, <3>2, <4>2, <4>3, SharesAdd
      <4>5. Cardinality(SharesIn(Mine(c))) + (a.last - a.first + 1) + left = tx[c].want
            BY <2>2, <2>5, <2>6, <2>7, <2>10, <2>11, <3>2
      <4>6. QED BY <4>1, <4>4, <4>5
    <3>3. QED BY <3>1, <3>2
  <2>13. AskedBy(tx'[c], Mine(c)')
         BY <2>5, <2>8, <2>10, <2>12 DEF AskedBy
  <2>14. QED BY <2>8, <2>9, <2>13, AskedKept
<1>10. ASSUME NEW c \in Calls, Commit(c) PROVE Asked'
  <2>1. tx' = [tx EXCEPT ![c].pc = "done"] /\ rows' = rows /\ tx[c].pc = "commit"
        BY <1>10 DEF Commit
  <2>2. /\ tx'[c].pc = "done"
        /\ \A x \in Calls \ {c} : tx'[x] = tx[x]
        BY <1>1, <2>1 DEF Tx
  <2>3. AskedBy(tx'[c], Mine(c)')
        BY <2>2 DEF AskedBy, InTx
  <2>4. \A x \in Calls : Mine(x)' = Mine(x)
        BY <2>1 DEF Mine
  <2>5. QED BY <2>2, <2>3, <2>4, AskedKept
<1>11. ASSUME NEW c \in Calls, tx[c].pc # "done", Rollback(c) PROVE Asked'
  <2>1. /\ rows' = {a \in rows : a.by # c}
        /\ tx'[c] = [tx[c] EXCEPT !.pc = "failed"]
        /\ \A x \in Calls \ {c} : tx'[x] = tx[x]
        BY <1>1, <1>11, RollbackEffect
  <2>2. tx'[c].pc = "failed"
        BY <1>1, <2>1 DEF Tx
  <2>3. AskedBy(tx'[c], Mine(c)')
        BY <2>2 DEF AskedBy, InTx
  <2>4. \A x \in Calls \ {c} : Mine(x)' = Mine(x)
        BY <2>1 DEF Mine
  <2>5. QED BY <2>1, <2>3, <2>4, AskedKept
<1>12. QED
      BY <1>3, <1>4, <1>5, <1>6, <1>7, <1>8, <1>9, <1>10, <1>11 DEF BatchStep

\* Batches are opened with the size of the template.
LEMMA SizesStep ==
    ASSUME BatchInv, Asked, SizesUsed, BatchStep
    PROVE  SizesUsed'
<1>1. /\ BatchTypeOK /\ Locks /\ batch \in [Numbers -> Batch] /\ tx \in [Calls -> Tx]
      BY DEF BatchInv, BatchTypeOK
<1>2. CASE UNCHANGED <<batch, base>>
      BY <1>2 DEF SizesUsed
<1>3. ASSUME NEW c \in Calls, Insert(c) PROVE SizesUsed'
  <2> DEFINE b == [parts |-> tx[c].size, given |-> 0, closed |-> FALSE]
  <2>1. batch' = [batch EXCEPT ![tx[c].got] = b] /\ base' = base /\ tx[c].pc = "insert"
        BY <1>3 DEF Insert
  <2>2. b.parts \in Sizes
        BY <2>1 DEF Asked, AskedBy, InTx
  <2> HIDE DEF b
  <2>3. QED BY <1>1, <2>1, <2>2 DEF SizesUsed
<1>4. ASSUME NEW c \in Calls, Take(c) PROVE SizesUsed'
  <2>1. PICK n \in Numbers, take \in Nat, upto \in Nat : Taken(c, n, take, upto)
        BY <1>4, TakeEffect
  <2> DEFINE cl == batch[n].closed \/ upto >= batch[n].parts
  <2>2. batch'[n] = [parts |-> batch[n].parts, given |-> upto, closed |-> cl]
          /\ (\A m \in Numbers \ {n} : batch'[m] = batch[m]) /\ base' = base
        BY <2>1 DEF Taken
  <2> HIDE DEF cl
  <2>3. \A m \in Numbers : batch'[m].parts = batch[m].parts
        BY <2>2
  <2>4. QED BY <2>2, <2>3 DEF SizesUsed
<1>5. ASSUME NEW c \in Calls, Commit(c) PROVE SizesUsed'
      BY <1>5 DEF Commit, Seen, SizesUsed
<1>6. ASSUME NEW c \in Calls, Rollback(c) PROVE SizesUsed'
      BY <1>6 DEF Rollback, SizesUsed
<1>7. QED
      BY <1>2, <1>3, <1>4, <1>5, <1>6 DEF BatchStep, batchVars, Begin, Select, Lock, Number

-----------------------------------------------------------------------------
(* The properties.                                                         *)

LEMMA BatchInitInv == BatchInit => BatchInv
<1> SUFFICES ASSUME BatchInit PROVE BatchInv
    OBVIOUS
<1>1. /\ batch = [n \in Numbers |-> NoBatch] /\ base = [n \in Numbers |-> NoBatch]
      /\ lock = [n \in Numbers |-> Nobody] /\ rows = {} /\ tx = [c \in Calls |-> NoTx]
      BY DEF BatchInit
<1>2. (CHOOSE d \in Donations : TRUE) \in Donations
      BY BatchAssumption
<1>3. NoTx \in Tx /\ NoTx.pc = "idle" /\ NoTx.got = 0
      BY <1>2 DEF NoTx, Tx, TxSteps
<1>4. NoBatch \in Batch /\ NoBatch.given = 0 /\ NoBatch.parts = 0 /\ Full(NoBatch)
      BY DEF NoBatch, Batch, Full
<1>5. BatchTypeOK
      BY <1>1, <1>3, <1>4 DEF BatchTypeOK
<1>6. Locks
      BY <1>1, <1>3 DEF Locks
<1>7. Sound
      BY <1>1, <1>4 DEF Sound, Cover, Committed
<1>8. \A n \in Numbers : ~Exists(base[n]) /\ ~Exists(batch[n])
      BY <1>1, <1>4 DEF Exists
<1>9. Chained
      BY <1>1, <1>3, <1>8 DEF Chained, Seen
<1>10. QED BY <1>5, <1>6, <1>7, <1>9 DEF BatchInv

\* The invariants are kept.
LEMMA BatchInvStep == BatchInv /\ BatchStep => BatchInv'
BY BatchTypeStep, LocksStep, SoundStep, ChainedStep DEF BatchInv

\* Parts that allocations hold are parts that are given, and none is beyond its batch.
LEMMA InvDisjoint == BatchInv => PartsDisjoint
<1> SUFFICES ASSUME BatchInv, NEW a \in rows
             PROVE  /\ 1 <= a.first /\ a.first <= a.last /\ a.last <= batch[a.n].parts
                    /\ \A b \in rows : a.n = b.n /\ a # b => a.last < b.first \/ b.last < a.first
    BY DEF PartsDisjoint
<1>1. a.n \in Numbers /\ a.first \in Nat /\ a.last \in Nat
      BY RowsTyped DEF BatchInv
<1>2. 1 <= a.first /\ a.first <= a.last
      BY DEF BatchInv, Sound
<1>3. batch[a.n] \in Batch /\ Cover(rows, a.n, batch[a.n].given) /\ Full(batch[a.n])
      BY <1>1 DEF BatchInv, BatchTypeOK, Sound
<1>4. a.last <= batch[a.n].given
      BY <1>1, <1>2, <1>3 DEF Cover
<1>5. a.last <= batch[a.n].parts
      BY <1>1, <1>3, <1>4 DEF Batch, Full
<1>6. \A b \in rows : a.n = b.n /\ a # b => a.last < b.first \/ b.last < a.first
      BY DEF BatchInv, Sound
<1>7. QED BY <1>2, <1>5, <1>6

\* The committed allocations of a batch hold the parts from 1 to what is given.
LEMMA InvTally == BatchInv => BatchesTally
<1> SUFFICES ASSUME BatchInv PROVE BatchesTally
    OBVIOUS
<1>1. ASSUME NEW n \in Numbers
      PROVE  UNION {a.first .. a.last : a \in {x \in Committed : x.n = n}} = 1 .. base[n].given
  <2>1. Cover(Committed, n, base[n].given) /\ base[n].given \in Nat
        BY DEF BatchInv, BatchTypeOK, Batch, Sound
  <2>2. \A a \in Committed : a.first \in Nat /\ a.last \in Nat
        BY RowsTyped DEF Committed, BatchInv
  <2>3. \A p : p \in UNION {a.first .. a.last : a \in {x \in Committed : x.n = n}}
                 <=> p \in Nat /\ \E a \in Committed : a.n = n /\ a.first <= p /\ p <= a.last
        BY <2>2
  <2>4. \A p : p \in 1 .. base[n].given <=> p \in Nat /\ 1 <= p /\ p <= base[n].given
        BY <2>1
  <2>5. QED BY <2>1, <2>3, <2>4 DEF Cover
<1>2. GivenIsAllocated
      BY <1>1 DEF GivenIsAllocated
<1>3. ClosedIsFull
      BY DEF BatchInv, Sound, Full, ClosedIsFull
<1>4. NumbersConsecutive
      BY DEF BatchInv, Chained, NumbersConsecutive
<1>5. QED BY <1>2, <1>3, <1>4 DEF BatchesTally

-----------------------------------------------------------------------------
(* What requests get is an allocation of parts.                            *)

\* The parts given out of a batch are those that are counted.
GivenUpTo == \A n \in Numbers : Parts!Given(n) = 1 .. base[n].given

LEMMA GivenCounted == BatchInv => GivenUpTo
<1> SUFFICES ASSUME BatchInv, NEW n \in Numbers
             PROVE  Parts!Given(n) = 1 .. base[n].given
    BY DEF GivenUpTo
<1>1. UNION {a.first .. a.last : a \in {x \in Committed : x.n = n}} = 1 .. base[n].given
      BY InvTally DEF BatchesTally, GivenIsAllocated
<1>2. ASSUME NEW p PROVE p \in Parts!Given(n) <=>
                            p \in UNION {a.first .. a.last : a \in {x \in Committed : x.n = n}}
  <2>1. ASSUME p \in Parts!Given(n)
        PROVE  p \in UNION {a.first .. a.last : a \in {x \in Committed : x.n = n}}
    <3>1. PICK s \in SharesIn(Committed) : s.n = n /\ s.part = p
          BY <2>1 DEF Parts!Given, SharesIn
    <3>2. PICK a \in Committed : \E q \in a.first .. a.last : s = [by |-> a.by, n |-> a.n, part |-> q]
          BY <3>1 DEF SharesIn
    <3>3. a.n = n /\ p \in a.first .. a.last
          BY <3>1, <3>2
    <3>4. QED BY <3>3
  <2>2. ASSUME p \in UNION {a.first .. a.last : a \in {x \in Committed : x.n = n}}
        PROVE  p \in Parts!Given(n)
    <3>1. PICK a \in Committed : a.n = n /\ p \in a.first .. a.last
          BY <2>2
    <3>2. [by |-> a.by, n |-> n, part |-> p] \in SharesIn(Committed)
          BY <3>1 DEF SharesIn
    <3>3. \E s \in SharesIn(Committed) : s.n = n /\ s.part = p
          BY <3>2
    <3>4. QED BY <3>3 DEF Parts!Given, SharesIn
  <2>3. QED BY <2>1, <2>2
<1>3. QED BY <1>1, <1>2

\* The parts requests have asked for, and those given out.
Wants  == [c \in Calls |-> tx[c].want]
Shares == SharesIn(Committed)

LEMMA MaxIntIsNumber == MaxInt \in Nat
BY SMT DEF MaxInt

\* The specification of allocations counts in the same way.
LEMMA CardinalityThere == \A S : Parts!Cardinality(S) = Cardinality(S)
BY DEF Parts!Cardinality, Cardinality

\* A commit gives a request all its parts.
LEMMA CommitGives ==
    ASSUME BatchInv, BatchInv', Asked, SizesUsed, SizesUsed', NEW c \in Calls, Commit(c)
    PROVE  Parts!Give(c)
<1>1. /\ BatchTypeOK /\ Sound /\ tx \in [Calls -> Tx] /\ base' \in [Numbers -> Batch]
      /\ AskedBy(tx[c], Mine(c)) /\ Sound'
      BY DEF BatchInv, BatchTypeOK, Asked
<1>2. tx' = [tx EXCEPT ![c].pc = "done"] /\ rows' = rows /\ tx[c].pc = "commit"
      BY DEF Commit
<1>3. /\ tx'[c].pc = "done" /\ tx'[c].want = tx[c].want
      /\ \A x \in Calls \ {c} : tx'[x] = tx[x]
      BY <1>1, <1>2 DEF Tx
<1>4. /\ tx[c].want \in Nat /\ tx[c].want # 0 /\ tx[c].size \in Sizes
      /\ IsFiniteSet(SharesIn(Mine(c))) /\ Cardinality(SharesIn(Mine(c))) = tx[c].want
  <2>1. /\ tx[c].want # 0 /\ tx[c].size \in Sizes /\ IsFiniteSet(SharesIn(Mine(c)))
        /\ Cardinality(SharesIn(Mine(c))) + 0 = tx[c].want
        BY <1>1, <1>2 DEF AskedBy, InTx
  <2>2. Cardinality(SharesIn(Mine(c))) \in Nat
        BY <2>1, FS_CardinalityType
  <2>3. tx[c].want \in Nat
        BY <1>1 DEF Tx
  <2>4. QED BY <2>1, <2>2, <2>3
<1>5. /\ \A s \in Shares : s.by # c
      /\ \A s \in SharesIn(Mine(c)) : s.by = c
      /\ Shares' = Shares \union SharesIn(Mine(c))
  <2>1. \A a \in Committed : a.by # c
        BY <1>2 DEF Committed
  <2>2. \A a \in rows : a \in Committed' <=> a \in Committed \/ a \in Mine(c)
        BY <1>1, <1>2, <1>3, RowsTyped DEF Committed, Mine
  <2>3. Committed' = Committed \union Mine(c)
        BY <1>2, <2>2 DEF Committed, Mine
  <2>4. SharesIn(Committed \union Mine(c)) = SharesIn(Committed) \union SharesIn(Mine(c))
        BY DEF SharesIn
  <2>5. Shares' = Shares \union SharesIn(Mine(c))
        BY <2>3, <2>4 DEF Shares
  <2>6. \A S, s : s \in SharesIn(S) => \E a \in S : s.by = a.by
        BY DEF SharesIn
  <2>7. QED BY <2>1, <2>5, <2>6 DEF Shares, Mine
<1> DEFINE new == Shares' \ Shares
<1>6. new = SharesIn(Mine(c))
      BY <1>5
<1>7. Max(Sizes) \in Nat /\ \A y \in Sizes : y \in Nat /\ y <= Max(Sizes)
  <2>1. Sizes \subseteq 1 .. MaxInt /\ MaxInt \in Nat /\ Sizes # {}
        BY <1>4, BatchAssumption, MaxIntIsNumber
  <2>2. Max(Sizes) \in Sizes /\ \A y \in Sizes : y <= Max(Sizes)
        BY <2>1, MaxIsGreatest
  <2>3. \A y \in Sizes : y \in Nat
        BY <2>1
  <2>4. QED BY <2>2, <2>3
<1>8. ASSUME NEW a \in Mine(c), NEW p \in a.first .. a.last
      PROVE  /\ a.by = c /\ a.n \in Numbers /\ p \in 1 .. Max(Sizes)
             /\ p \notin Parts!Given(a.n)
  <2>1. a \in rows /\ a.by = c /\ a.n \in Numbers /\ a.first \in Nat /\ a.last \in Nat
        BY <1>1, RowsTyped DEF Mine
  <2>2. 1 <= a.first /\ a.last <= batch[a.n].parts
        BY <2>1, InvDisjoint DEF PartsDisjoint
  <2>3. batch[a.n].parts \in Sizes \union {0}
        BY <2>1 DEF SizesUsed
  <2>4. p \in 1 .. Max(Sizes)
        BY <1>7, <2>1, <2>2, <2>3
  <2>5. ASSUME p \in Parts!Given(a.n) PROVE FALSE
    <3>1. p \in 1 .. base[a.n].given /\ base[a.n].given \in Nat
          BY <1>1, <2>1, <2>5, GivenCounted DEF BatchTypeOK, Batch, GivenUpTo
    <3>2. PICK b \in Committed : b.n = a.n /\ b.first <= p /\ p <= b.last
      <4>1. Cover(Committed, a.n, base[a.n].given)
            BY <1>1, <2>1 DEF Sound
      <4>2. QED BY <3>1, <4>1 DEF Cover
    <3>3. b \in rows /\ b # a
          BY <1>2, <2>1 DEF Committed
    <3>4. a.last < b.first \/ b.last < a.first
          BY <1>1, <2>1, <3>2, <3>3 DEF Sound
    <3>5. b.first \in Nat /\ b.last \in Nat
          BY <1>1, <3>3, RowsTyped
    <3>6. QED BY <2>1, <3>2, <3>4, <3>5
  <2>6. QED BY <2>1, <2>4, <2>5
<1>9. \A s \in new : s \in Parts!Share /\ s.by = c /\ s.part \notin Parts!Given(s.n)
  <2> SUFFICES ASSUME NEW s \in new
               PROVE  s \in Parts!Share /\ s.by = c /\ s.part \notin Parts!Given(s.n)
      OBVIOUS
  <2>1. PICK a \in Mine(c) : \E p \in a.first .. a.last : s = [by |-> a.by, n |-> a.n, part |-> p]
        BY <1>6 DEF SharesIn
  <2>2. PICK p \in a.first .. a.last : s = [by |-> a.by, n |-> a.n, part |-> p]
        BY <2>1
  <2>3. s.by = c /\ s.n = a.n /\ s.part = p
        BY <2>2, <1>8
  <2>4. s \in Parts!Share
        BY <1>8, <2>2 DEF Parts!Share
  <2>5. QED BY <1>8, <2>3, <2>4
<1>10. \A n \in Numbers : \E k \in 0 .. Max(Sizes) : Parts!Given(n)' = 1 .. k
  <2> SUFFICES ASSUME NEW n \in Numbers
               PROVE  \E k \in 0 .. Max(Sizes) : Parts!Given(n)' = 1 .. k
      OBVIOUS
  <2>1. Parts!Given(n)' = 1 .. base'[n].given
    <3>1. BatchInv' => GivenUpTo'
          BY GivenCounted, PTL
    <3>2. QED BY <3>1 DEF GivenUpTo
  <2>2. base'[n].given \in Nat /\ base'[n].parts \in Nat
        BY <1>1 DEF Batch
  <2>3. base'[n].given <= base'[n].parts
    <3>1. Full(base[n])'
          BY <1>1 DEF Sound
    <3>2. QED BY <3>1 DEF Full
  <2>4. base'[n].parts \in Sizes \union {0}
        BY DEF SizesUsed
  <2>5. base'[n].given \in 0 .. Max(Sizes)
        BY <1>7, <2>2, <2>3, <2>4
  <2>6. QED BY <2>1, <2>5
<1>11. Wants' = Wants /\ Wants[c] > 0
       BY <1>3, <1>4 DEF Wants
<1>12. Cardinality(new) = Wants[c]
       BY <1>4, <1>6 DEF Wants
<1>13. Shares \subseteq Shares' /\ ~ \E s \in Shares : s.by = c
       BY <1>5
<1> HIDE DEF new
<1>14. QED BY <1>9, <1>10, <1>11, <1>12, <1>13, CardinalityThere DEF Parts!Give, Wants, Shares, SharesIn, new

\* What is committed is the same if no transaction commits and no committed row goes.
LEMMA CommittedSame ==
    ASSUME BatchTypeOK, BatchTypeOK',
           \A x \in Calls : tx'[x].pc = "done" <=> tx[x].pc = "done",
           \A a \in rows : a \in rows' \/ tx[a.by].pc # "done",
           \A a \in rows' : a \in rows \/ tx[a.by].pc # "done"
    PROVE  Committed' = Committed
<1>1. \A a \in rows \union rows' : a.by \in Calls
      BY DEF BatchTypeOK, Allocation
<1>2. QED BY <1>1 DEF Committed

\* Neither asked nor given anything.
LEMMA PartsStutter ==
    ASSUME BatchTypeOK, BatchTypeOK', NEW c \in Calls,
           tx[c].pc # "done", tx'[c].pc # "done", tx'[c].want = tx[c].want,
           \A x \in Calls \ {c} : tx'[x] = tx[x],
           \A a \in rows : a \in rows' \/ a.by = c,
           \A a \in rows' : a \in rows \/ a.by = c
    PROVE  UNCHANGED Parts!vars
<1>1. Committed' = Committed
  <2>1. \A x \in Calls : tx'[x].pc = "done" <=> tx[x].pc = "done"
        BY OthersDone
  <2>2. QED BY <2>1, CommittedSame
<1>2. \A x \in Calls : tx'[x].want = tx[x].want
      OBVIOUS
<1>3. Wants' = Wants /\ Shares' = Shares
      BY <1>1, <1>2 DEF Wants, Shares
<1>4. QED BY <1>3 DEF Parts!vars, Wants, Shares, SharesIn

\* What every step keeps.
AllocInv == BatchInv /\ Asked /\ SizesUsed

\* A step of the requests asks for parts, gives them out, or does neither.
LEMMA PartsStep ==
    ASSUME AllocInv, AllocInv', BatchStep
    PROVE  [Parts!Next]_(Parts!vars)
<1>1. /\ BatchInv /\ BatchTypeOK /\ BatchTypeOK' /\ tx \in [Calls -> Tx]
      /\ Asked /\ SizesUsed /\ BatchInv' /\ SizesUsed'
      BY DEF AllocInv, BatchInv, BatchTypeOK
<1>2. CASE UNCHANGED batchVars
  <2>1. Committed' = Committed /\ tx' = tx
        BY <1>2 DEF batchVars, Committed
  <2>2. Wants' = Wants /\ Shares' = Shares
        BY <2>1 DEF Wants, Shares
  <2>3. QED BY <2>2 DEF Parts!vars, Wants, Shares, SharesIn
<1>3. ASSUME NEW c \in Calls, NEW d \in Donations, NEW want \in Requests, NEW size \in Sizes,
             Begin(c, d, want, size)
      PROVE  Parts!Ask(c)
  <2> DEFINE r == [NoTx EXCEPT !.pc = "select", !.d = d, !.want = want, !.left = want, !.size = size]
  <2>1. r.pc = "select" /\ r.want = want
        BY DEF NoTx
  <2>2. tx' = [tx EXCEPT ![c] = r] /\ rows' = rows /\ tx[c].pc = "idle"
        BY <1>3 DEF Begin
  <2> HIDE DEF r
  <2>3. tx'[c].pc = "select" /\ tx'[c].want = want /\ \A x \in Calls \ {c} : tx'[x] = tx[x]
        BY <1>1, <2>1, <2>2
  <2>4. tx[c].want = 0 /\ want > 0
        BY <1>1, <2>2, BatchAssumption DEF Asked, AskedBy
  <2>5. Committed' = Committed
    <3>1. \A x \in Calls : tx'[x].pc = "done" <=> tx[x].pc = "done"
          BY <2>2, <2>3, OthersDone
    <3>2. QED BY <1>1, <2>2, <3>1, CommittedSame
  <2>6. Shares' = Shares
        BY <2>5 DEF Shares
  <2>7. Wants[c] = 0 /\ Wants'[c] > 0 /\ Wants' = [Wants EXCEPT ![c] = Wants'[c]]
        BY <2>3, <2>4 DEF Wants
  <2>8. QED BY <2>6, <2>7 DEF Parts!Ask, Wants, Shares, SharesIn
<1>4. ASSUME NEW c \in Calls, Select(c) PROVE UNCHANGED Parts!vars
  <2> DEFINE open == {n \in Numbers : Open(Seen(c, n))}
             pc   == IF open = {} THEN "number" ELSE "lock"
  <2>1. tx' = [tx EXCEPT ![c].wait = open, ![c].got = 0, ![c].pc = pc] /\ pc # "done"
          /\ rows' = rows /\ tx[c].pc = "select"
        BY <1>4 DEF Select
  <2> HIDE DEF open, pc
  <2>2. tx'[c].pc = pc /\ tx'[c].want = tx[c].want /\ \A x \in Calls \ {c} : tx'[x] = tx[x]
        BY <1>1, <2>1 DEF Tx
  <2>3. QED BY <1>1, <2>1, <2>2, PartsStutter
<1>5. ASSUME NEW c \in Calls, Lock(c) PROVE UNCHANGED Parts!vars
  <2> DEFINE n    == Max(tx[c].wait)
             rest == tx[c].wait \ {n}
             got  == IF tx[c].got = 0 /\ Open(batch[n]) THEN n ELSE tx[c].got
             pc   == IF rest # {} THEN "lock" ELSE IF got = 0 THEN "number" ELSE "take"
  <2>1. tx' = [tx EXCEPT ![c].wait = rest, ![c].got = got, ![c].pc = pc]
          /\ rows' = rows /\ tx[c].pc = "lock"
        BY <1>5 DEF Lock
  <2>2. pc # "done"
        OBVIOUS
  <2> HIDE DEF n, rest, got, pc
  <2>3. tx'[c].pc = pc /\ tx'[c].want = tx[c].want /\ \A x \in Calls \ {c} : tx'[x] = tx[x]
        BY <1>1, <2>1 DEF Tx
  <2>4. QED BY <1>1, <2>1, <2>2, <2>3, PartsStutter
<1>6. ASSUME NEW c \in Calls, Number(c) PROVE UNCHANGED Parts!vars
  <2>1. PICK next : tx' = [tx EXCEPT ![c].got = next, ![c].pc = "insert"]
        BY <1>6 DEF Number
  <2>2. tx'[c].pc = "insert" /\ tx'[c].want = tx[c].want
          /\ \A x \in Calls \ {c} : tx'[x] = tx[x]
        BY <1>1, <2>1 DEF Tx
  <2>3. rows' = rows /\ tx[c].pc = "number"
        BY <1>6 DEF Number
  <2>4. QED BY <1>1, <2>2, <2>3, PartsStutter
<1>7. ASSUME NEW c \in Calls, Insert(c) PROVE UNCHANGED Parts!vars
  <2>1. tx' = [tx EXCEPT ![c].pc = "take"] /\ rows' = rows /\ tx[c].pc = "insert"
        BY <1>7 DEF Insert
  <2>2. tx'[c].pc = "take" /\ tx'[c].want = tx[c].want /\ \A x \in Calls \ {c} : tx'[x] = tx[x]
        BY <1>1, <2>1 DEF Tx
  <2>3. QED BY <1>1, <2>1, <2>2, PartsStutter
<1>8. ASSUME NEW c \in Calls, Take(c) PROVE UNCHANGED Parts!vars
  <2>1. PICK n \in Numbers, take \in Nat, upto \in Nat : Taken(c, n, take, upto)
        BY <1>1, <1>8, TakeEffect
  <2> DEFINE left == tx[c].left - take
             pc   == IF take = tx[c].left THEN "commit" ELSE "select"
             a    == [by |-> c, d |-> tx[c].d, n |-> n, first |-> batch[n].given + 1, last |-> upto]
  <2>2. tx' = [tx EXCEPT ![c].left = left, ![c].pc = pc] /\ pc # "done"
          /\ rows' = IF take = 0 THEN rows ELSE rows \union {a}
        BY <2>1 DEF Taken
  <2>3. a.by = c /\ tx[c].pc = "take"
        BY <1>8 DEF Take
  <2> HIDE DEF left, pc, a
  <2>4. tx'[c].pc = pc /\ tx'[c].want = tx[c].want /\ \A x \in Calls \ {c} : tx'[x] = tx[x]
        BY <1>1, <2>2 DEF Tx
  <2>5. /\ \A b \in rows : b \in rows' \/ b.by = c
        /\ \A b \in rows' : b \in rows \/ b.by = c
        BY <2>2, <2>3
  <2>6. QED BY <1>1, <2>2, <2>3, <2>4, <2>5, PartsStutter
<1>9. ASSUME NEW c \in Calls, tx[c].pc # "done", Rollback(c) PROVE UNCHANGED Parts!vars
  <2>1. /\ rows' = {a \in rows : a.by # c}
        /\ tx'[c] = [tx[c] EXCEPT !.pc = "failed"]
        /\ \A x \in Calls \ {c} : tx'[x] = tx[x]
        BY <1>1, <1>9, RollbackEffect
  <2>2. tx'[c].pc = "failed" /\ tx'[c].want = tx[c].want
        BY <1>1, <2>1 DEF Tx
  <2>3. /\ \A a \in rows : a \in rows' \/ a.by = c
        /\ \A a \in rows' : a \in rows \/ a.by = c
        BY <2>1
  <2>4. QED BY <1>1, <1>9, <2>1, <2>2, <2>3, PartsStutter
<1>10. ASSUME NEW c \in Calls, Commit(c) PROVE Parts!Give(c)
       BY <1>1, <1>10, CommitGives
<1>11. QED
  <2>1. CASE UNCHANGED Parts!vars
        BY <2>1
  <2>2. CASE \E c \in Calls : Parts!Ask(c) \/ Parts!Give(c)
        BY <2>2 DEF Parts!Next
  <2>3. QED BY <1>2, <1>3, <1>4, <1>5, <1>6, <1>7, <1>8, <1>9, <1>10, <2>1, <2>2 DEF BatchStep

\* At the start nothing has been asked for or given.
LEMMA AllocInit ==
    ASSUME BatchInit
    PROVE  AllocInv /\ Parts!Init
<1>1. /\ batch = [n \in Numbers |-> NoBatch] /\ base = [n \in Numbers |-> NoBatch]
      /\ rows = {} /\ tx = [c \in Calls |-> NoTx]
      BY DEF BatchInit
<1>2. NoTx.pc = "idle" /\ NoTx.want = 0 /\ NoBatch.parts = 0
      BY DEF NoTx, NoBatch
<1>3. Asked
      BY <1>1, <1>2 DEF Asked, AskedBy, InTx
<1>4. SizesUsed
      BY <1>1, <1>2 DEF SizesUsed
<1>5. Wants = [c \in Calls |-> 0] /\ Shares = {}
      BY <1>1, <1>2 DEF Wants, Shares, SharesIn, Committed
<1>6. Parts!Init
      BY <1>5 DEF Parts!Init, Wants, Shares, SharesIn
<1>7. QED BY <1>3, <1>4, <1>6, BatchInitInv DEF AllocInv

LEMMA AllocInvStep == AllocInv /\ BatchStep => AllocInv'
BY BatchInvStep, AskedStep, SizesStep DEF AllocInv

-----------------------------------------------------------------------------
(* The theorems.                                                           *)

\* Batches alone: locks, the versions of a row and the numbers of the batches are right at
\* every step of the transactions that allocate a donation (BatchInv).
THEOREM BatchesKept == BatchSpec => []BatchInv
<1>1. BatchInv /\ [BatchNext]_batchVars => BatchInv'
      BY BatchCases, BatchInvStep DEF BatchInv
<1>2. QED BY <1>1, BatchInitInv, PTL DEF BatchSpec

\* Batches alone: no part is allocated twice or beyond its batch.
THEOREM PartsAreDisjoint == BatchSpec => []PartsDisjoint
BY BatchesKept, InvDisjoint, PTL

\* Batches alone: what is committed adds up.
THEOREM BatchesAddUp == BatchSpec => []BatchesTally
BY BatchesKept, InvTally, PTL
\* Batches alone: requests that run side by side, wait for each other, fail and are
\* rolled back give out parts as if each ran alone.
THEOREM BatchesAllocate == BatchSpec => AllocatesParts
<1>1. BatchInit => AllocInv /\ Parts!Init
      BY AllocInit
<1>2. AllocInv /\ [BatchNext]_batchVars => AllocInv'
      BY BatchCases, AllocInvStep DEF AllocInv, BatchInv
<1>3. AllocInv /\ AllocInv' /\ [BatchNext]_batchVars => [Parts!Next]_(Parts!vars)
      BY BatchCases, PartsStep DEF AllocInv, BatchInv
<1>4. QED BY <1>1, <1>2, <1>3, PTL DEF BatchSpec, AllocatesParts, Parts!Spec

-----------------------------------------------------------------------------
(* The trackers.                                                           *)

\* What the trackers keep is of its type.
TrackTypeOK ==
    /\ trackers \in Seq(Tracker)
    /\ DOMAIN steps \subseteq StepId
    /\ \A i \in DOMAIN steps : steps[i] \in Step
    /\ call \in [Calls -> Call]
    /\ overlapped \subseteq Donations
    /\ raced \in BOOLEAN
    /\ grown \subseteq Nat

\* The steps that insert or archive rows of the tracker in hand.
WithTracker == {"insertSteps", "syncBatch", "syncInsert", "archive"}

\* Rows and calls refer to trackers there are.
Refs ==
    /\ \A i \in DOMAIN steps : i.t \in DOMAIN trackers
    /\ \A c \in Calls : call[c].pc \in WithTracker => call[c].t \in DOMAIN trackers

\* No call and no step.
LEMMA NoCallType == NoCall \in Call /\ NoStep \in StepId
<1>1. (CHOOSE k \in Keys : TRUE) \in Keys
      BY TrackerAssumption
<1>2. (CHOOSE d \in Donations : TRUE) \in Donations
      BY BatchAssumption
<1>3. NoStep \in StepId
      BY <1>1 DEF NoStep, StepId
<1>4. NoCall \in Call
      BY <1>2, <1>3 DEF NoCall, Call, AllKinds, CallSteps, ProgressStatus
<1>5. QED BY <1>3, <1>4

\* A call goes on.
LEMMA GotoType ==
    ASSUME call \in [Calls -> Call], NEW c \in Calls, NEW pc \in CallSteps, Goto(c, pc)
    PROVE  call' \in [Calls -> Call]
BY DEF Goto, Call

\* A call goes on with another value of one of its locals, or two.
LEMMA LocalType ==
    ASSUME NEW r \in Call, NEW pc \in CallSteps
    PROVE  /\ \A t \in Nat : [r EXCEPT !.pc = pc, !.t = t] \in Call
           /\ \A t \in Nat, ns \in SUBSET Numbers :
                 [r EXCEPT !.t = t, !.pc = pc, !.batches = ns] \in Call
           /\ \A n \in Numbers, ns \in SUBSET Numbers :
                 [r EXCEPT !.batches = ns, !.n = n, !.pc = pc] \in Call
           /\ \A ns \in SUBSET Numbers : [r EXCEPT !.batches = ns] \in Call
           /\ \A found \in SUBSET (Nat \X Overall) : [r EXCEPT !.found = found, !.pc = pc] \in Call
BY DEF Call

\* A call ends.
LEMMA EndType ==
    ASSUME call \in [Calls -> Call], NEW c \in Calls, End(c) \/ Stop(c, "dead")
    PROVE  call' \in [Calls -> Call]
<1> DEFINE r(pc) == [NoCall EXCEPT !.kind = call[c].kind, !.d = call[c].d, !.pc = pc]
<1>1. r("over") \in Call /\ r("dead") \in Call
      BY NoCallType DEF Call, CallSteps
<1>2. PICK pc \in {"over", "dead"} : call' = [call EXCEPT ![c] = r(pc)]
      BY DEF End, Stop
<1> HIDE DEF r
<1>3. QED BY <1>1, <1>2

\* A call arrives.
LEMMA ArriveType ==
    ASSUME call \in [Calls -> Call], overlapped \subseteq Donations, raced \in BOOLEAN,
           NEW c \in Calls, NEW kind, NEW d \in Donations, NEW r \in Call, Arrive(c, kind, d, r)
    PROVE  /\ call' \in [Calls -> Call]
           /\ overlapped' \subseteq Donations
           /\ raced' \in BOOLEAN
<1>1. kind \in AllKinds
      BY TrackerAssumption DEF Arrive
<1> DEFINE a == [r EXCEPT !.kind = kind, !.d = d]
<1>2. a \in Call
      BY <1>1 DEF Call
<1>3. call' = [call EXCEPT ![c] = a]
      BY DEF Arrive
<1> HIDE DEF a
<1>4. call' \in [Calls -> Call]
      BY <1>2, <1>3
<1>5. overlapped' \subseteq Donations
      BY DEF Arrive
<1>6. raced' \in BOOLEAN
      BY Zenon DEF Arrive
<1>7. QED BY <1>4, <1>5, <1>6

\* Rows of steps are inserted.
LEMMA InsertType ==
    ASSUME DOMAIN steps \subseteq StepId, \A i \in DOMAIN steps : steps[i] \in Step,
           NEW ids \in SUBSET StepId, InsertRows(ids)
    PROVE  DOMAIN steps' \subseteq StepId /\ \A i \in DOMAIN steps' : steps'[i] \in Step
<1>1. NewStep \in Step
      BY DEF NewStep, Step, ProgressStatus
<1>2. QED BY <1>1 DEF InsertRows

\* The rows of one set of steps.
LEMMA StepSetType ==
    ASSUME NEW t \in Nat, NEW n \in Numbers \union {0}, NEW by \in Calls \union {Nobody}
    PROVE  StepSet(t, n, by) \subseteq StepId
BY DEF StepSet, StepId

\* A status that steps add up to, and the trackers of a donation.
LEMMA DerivedType == \A t : Derived(t) \in Overall
BY DEF Derived, Overall

LEMMA TrackersType ==
    ASSUME trackers \in Seq(Tracker), NEW d
    PROVE  TrackersOf(d) \subseteq Nat /\ \A t \in DOMAIN trackers : trackers[t] \in Tracker
<1>1. DOMAIN trackers \subseteq Nat /\ \A t \in DOMAIN trackers : trackers[t] \in Tracker
      OBVIOUS
<1>2. QED BY <1>1 DEF TrackersOf

\* A tracker grows by a member of its own.
LEMMA GrowType ==
    ASSUME grown \subseteq Nat, NEW t \in Nat, Grow(t)
    PROVE  grown' \subseteq Nat
BY DEF Grow

\* An overall status is written.
LEMMA OverallType ==
    ASSUME trackers \in Seq(Tracker), NEW t \in Nat, NEW o \in Overall,
           trackers' = [trackers EXCEPT ![t].overall = o]
    PROVE  trackers' \in Seq(Tracker)
<1>1. \A x \in DOMAIN trackers : trackers[x] \in Tracker
      OBVIOUS
<1>2. DOMAIN trackers' = DOMAIN trackers /\ DOMAIN trackers = 1 .. Len(trackers)
      OBVIOUS
<1>3. \A x \in DOMAIN trackers : trackers'[x] \in Tracker
      BY <1>1 DEF Tracker
<1>4. trackers' \in [1 .. Len(trackers) -> Tracker]
      BY <1>2, <1>3
<1>5. QED BY <1>4

\* The initial state is of its type.
LEMMA TrackTypeInit == Init => TrackTypeOK
<1> SUFFICES ASSUME Init PROVE TrackTypeOK
    OBVIOUS
<1>1. PICK tracked \in Starts :
          trackers = [t \in DOMAIN tracked |-> [d |-> tracked[t], overall |-> "pending"]]
      BY DEF Init
<1>2. tracked \in Seq(Donations)
      BY TrackerAssumption
<1>3. trackers \in [1 .. Len(tracked) -> Tracker] /\ Len(tracked) \in Nat
      BY <1>1, <1>2 DEF Tracker, Overall
<1>4. trackers \in Seq(Tracker) /\ DOMAIN trackers \subseteq Nat
      BY <1>3
<1>5. NewStep \in Step
      BY DEF NewStep, Step, ProgressStatus
<1>6. \A t \in DOMAIN trackers : StepSet(t, 0, Nobody) \subseteq StepId
      BY <1>4, StepSetType
<1>7. DOMAIN steps \subseteq StepId /\ \A i \in DOMAIN steps : steps[i] \in Step
      BY <1>5, <1>6 DEF Init
<1>8. QED BY <1>4, <1>7, NoCallType DEF Init, TrackTypeOK

\* Calls arrive.
LEMMA StartType ==
    ASSUME TrackTypeOK, Refs, NEW c \in Calls, Start(c)
    PROVE  TrackTypeOK'
<1>1. /\ call \in [Calls -> Call] /\ overlapped \subseteq Donations /\ raced \in BOOLEAN
      /\ \A t \in DOMAIN trackers : trackers[t] \in Tracker
      BY TrackersType DEF TrackTypeOK
<1>2. SUFFICES /\ UNCHANGED <<trackers, steps, grown>>
               /\ \E kind : \E d \in Donations, r \in Call : Arrive(c, kind, d, r)
      BY <1>1, ArriveType DEF TrackTypeOK
<1>3. \A pc \in CallSteps : [NoCall EXCEPT !.pc = pc] \in Call
      BY NoCallType DEF Call
<1>4. CASE \E d \in Donations : Create(c, d)
  <2>1. PICK d \in Donations : Create(c, d)
        BY <1>4
  <2> DEFINE pc == IF TrackersOf(d) = {} THEN "insertTracker" ELSE "over"
  <2>2. pc \in CallSteps
        BY DEF CallSteps
  <2>3. Arrive(c, "create", d, [NoCall EXCEPT !.pc = pc]) /\ UNCHANGED <<trackers, steps, grown>>
        BY <2>1 DEF Create
  <2> HIDE DEF pc
  <2>4. QED BY <1>3, <2>2, <2>3
<1>5. CASE \E d \in Donations : New(c, d)
  <2>1. PICK d \in Donations : New(c, d)
        BY <1>5
  <2>2. "allocating" \in CallSteps /\ "check" \in CallSteps
        BY DEF CallSteps
  <2>3. UNCHANGED <<trackers, steps, grown>>
        BY <2>1 DEF New
  <2>4. \/ Arrive(c, "new", d, [NoCall EXCEPT !.pc = "allocating"])
        \/ Arrive(c, "new", d, [NoCall EXCEPT !.pc = "check"])
        BY <2>1 DEF New
  <2>5. QED BY <1>3, <2>2, <2>3, <2>4
<1>6. CASE \E d \in Donations : Paid(c, d)
  <2>1. PICK d \in Donations : Paid(c, d)
        BY <1>6
  <2> DEFINE pc == IF TrackersOf(d) = {} THEN "over" ELSE "check"
  <2>2. pc \in CallSteps
        BY DEF CallSteps
  <2>3. Arrive(c, "paid", d, [NoCall EXCEPT !.pc = pc]) /\ UNCHANGED <<trackers, steps, grown>>
        BY <2>1 DEF Paid
  <2> HIDE DEF pc
  <2>4. QED BY <1>3, <2>2, <2>3
<1>7. CASE \E t \in DOMAIN trackers : More(c, t)
  <2>1. PICK t \in DOMAIN trackers : More(c, t)
        BY <1>7
  <2>2. trackers[t].d \in Donations /\ "allocating" \in CallSteps
        BY <1>1 DEF Tracker, CallSteps
  <2>3. Arrive(c, "more", trackers[t].d, [NoCall EXCEPT !.pc = "allocating"])
          /\ UNCHANGED <<trackers, steps, grown>>
        BY <2>1 DEF More
  <2>4. QED BY <1>3, <2>2, <2>3
<1>8. CASE \E s \in DOMAIN steps, to \in Wanted : Update(c, s, to)
  <2>1. PICK s \in DOMAIN steps, to \in Wanted : Update(c, s, to)
        BY <1>8
  <2> DEFINE keep == to = "keep"
             want == IF keep THEN steps[s].status ELSE to
             r == [NoCall EXCEPT !.pc = "write", !.s = s, !.t = s.t, !.from = steps[s].status,
                                 !.to = want, !.given = ~keep]
  <2>2. s \in StepId /\ s.t \in Nat /\ steps[s].status \in ProgressStatus
        BY DEF TrackTypeOK, StepId, Step
  <2>3. want \in ProgressStatus
        BY <2>2, TrackerAssumption DEF ProgressStatus
  <2>4. Arrive(c, "step", trackers[s.t].d, r) /\ UNCHANGED <<trackers, steps, grown>>
        BY <2>1 DEF Update
  <2>5. (~keep) \in BOOLEAN
        OBVIOUS
  <2> HIDE DEF keep, want
  <2>6. r \in Call
        BY <2>2, <2>3, <2>5, NoCallType DEF Call, CallSteps
  <2> HIDE DEF r
  <2>7. trackers[s.t].d \in Donations
        BY <1>1 DEF Refs, Tracker
  <2>8. QED BY <2>4, <2>6, <2>7
<1>9. QED BY <1>4, <1>5, <1>6, <1>7, <1>8 DEF Start

\* Calls go on.
LEMMA StepType ==
    ASSUME TrackTypeOK, BatchTypeOK, NEW c \in Calls, CallStep(c)
    PROVE  TrackTypeOK'
<1>1. /\ trackers \in Seq(Tracker)
      /\ DOMAIN steps \subseteq StepId /\ \A i \in DOMAIN steps : steps[i] \in Step
      /\ call \in [Calls -> Call] /\ overlapped \subseteq Donations /\ raced \in BOOLEAN
      /\ grown \subseteq Nat
      BY DEF TrackTypeOK
<1>2. /\ call[c].t \in Nat /\ call[c].n \in Numbers \union {0} /\ call[c].s \in StepId
      /\ call[c].d \in Donations /\ call[c].from \in ProgressStatus
      /\ call[c].to \in ProgressStatus /\ call[c].batches \subseteq Numbers
      /\ call[c].found \subseteq Nat \X Overall
      BY <1>1 DEF Call
<1>3. DOMAIN trackers \subseteq Nat
      BY <1>1
<1>4. ASSUME call' \in [Calls -> Call], UNCHANGED <<trackers, steps, overlapped, raced, grown>>
      PROVE  TrackTypeOK'
      BY <1>1, <1>4 DEF TrackTypeOK
<1>5. ASSUME call' \in [Calls -> Call], UNCHANGED <<trackers, overlapped, raced>>,
             grown' \subseteq Nat, DOMAIN steps' \subseteq StepId,
             \A i \in DOMAIN steps' : steps'[i] \in Step
      PROVE  TrackTypeOK'
      BY <1>1, <1>5 DEF TrackTypeOK
<1>6. ASSUME NEW pc \in CallSteps, Goto(c, pc) PROVE call' \in [Calls -> Call]
      BY <1>1, <1>6, GotoType
<1>7. ASSUME End(c) PROVE call' \in [Calls -> Call]
      BY <1>1, <1>7, EndType
<1>8. CASE InsertTracker(c)
  <2> DEFINE t == [d |-> call[c].d, overall |-> "pending"]
  <2>1. t \in Tracker
        BY <1>2 DEF Tracker, Overall
  <2>2. trackers' = Append(trackers, t)
        BY <1>8 DEF InsertTracker
  <2> HIDE DEF t
  <2>3. trackers' \in Seq(Tracker) /\ Len(trackers) + 1 \in Nat
        BY <1>1, <2>1, <2>2
  <2>4. call' = [call EXCEPT ![c].pc = "insertSteps", ![c].t = Len(trackers) + 1]
        BY <1>8 DEF InsertTracker
  <2> DEFINE r == [call[c] EXCEPT !.pc = "insertSteps", !.t = Len(trackers) + 1]
  <2>5. call' \in [Calls -> Call]
    <3>1. r \in Call
          BY <1>1, <2>3, LocalType DEF CallSteps
    <3>2. call' = [call EXCEPT ![c] = r]
          BY <1>1, <2>4
    <3> HIDE DEF r
    <3>3. QED BY <1>1, <3>1, <3>2
  <2>6. QED BY <1>1, <1>8, <2>3, <2>5 DEF InsertTracker, TrackTypeOK
<1>9. CASE InsertSteps(c)
  <2>1. StepSet(call[c].t, 0, c) \in SUBSET StepId
        BY <1>2, StepSetType
  <2>2. DOMAIN steps' \subseteq StepId /\ \A i \in DOMAIN steps' : steps'[i] \in Step
        BY <1>1, <1>9, <2>1, InsertType DEF InsertSteps
  <2>3. QED BY <1>1, <1>5, <1>7, <1>9, <2>2 DEF InsertSteps
<1>10. CASE Check(c)
  <2>1. "allocating" \in CallSteps
        BY DEF CallSteps
  <2>2. call' \in [Calls -> Call]
        BY <1>6, <1>7, <1>10, <2>1 DEF Check
  <2>3. QED BY <1>4, <1>10, <2>2 DEF Check
<1>11. CASE AllocatedNothing(c)
       BY <1>4, <1>7, <1>11 DEF AllocatedNothing
<1>12. CASE Sync(c)
  <2> DEFINE ns == {a.n : a \in {x \in Committed : x.d = call[c].d}}
  <2>1. PICK t \in TrackersOf(call[c].d) :
            call' = [call EXCEPT ![c].t = t, ![c].pc = "syncBatch", ![c].batches = ns]
        BY <1>12 DEF Sync
  <2>2. ns \in SUBSET Numbers
        BY DEF Committed, BatchTypeOK, Allocation
  <2>3. t \in Nat
        BY <1>1, TrackersType
  <2> HIDE DEF ns
  <2>4. call' \in [Calls -> Call]
    <3> DEFINE r == [call[c] EXCEPT !.t = t, !.pc = "syncBatch", !.batches = ns]
    <3>1. r \in Call
          BY <1>1, <2>2, <2>3, LocalType DEF CallSteps
    <3>2. call' = [call EXCEPT ![c] = r]
          BY <1>1, <2>1
    <3> HIDE DEF r
    <3>3. QED BY <1>1, <3>1, <3>2
  <2>5. QED BY <1>4, <1>12, <2>4 DEF Sync
<1>13. CASE SyncBatch(c)
  <2> DEFINE todo == call[c].batches
             n    == Min(todo)
             rest == todo \ {n}
  <2>1. "archive" \in CallSteps
        BY DEF CallSteps
  <2>2. \/ Goto(c, "archive")
        \/ call' = [call EXCEPT ![c].batches = rest]
        \/ todo # {} /\ call' = [call EXCEPT ![c].batches = rest, ![c].n = n,
                                             ![c].pc = "syncInsert"]
        BY <1>13 DEF SyncBatch
  <2>3. rest \in SUBSET Numbers
        BY <1>2
  <2>4. todo # {} => n \in Numbers
    <3>1. todo \subseteq Nat
          BY <1>2 DEF Numbers
    <3>2. todo # {} => n \in todo
          BY <3>1, MinIsLeast
    <3>3. QED BY <3>2, <1>2
  <2> HIDE DEF todo, n, rest
  <2>5. call' \in [Calls -> Call]
    <3> DEFINE q == [call[c] EXCEPT !.batches = rest]
               r == [call[c] EXCEPT !.batches = rest, !.n = n, !.pc = "syncInsert"]
    <3>1. q \in Call
          BY <1>1, <2>1, <2>3, LocalType
    <3>2. n \in Numbers => r \in Call
          BY <1>1, <2>3, LocalType DEF CallSteps
    <3>3. \/ Goto(c, "archive")
          \/ call' = [call EXCEPT ![c] = q]
          \/ n \in Numbers /\ call' = [call EXCEPT ![c] = r]
          BY <1>1, <2>2, <2>4
    <3> HIDE DEF q, r
    <3>4. QED BY <1>1, <1>6, <2>1, <3>1, <3>2, <3>3
  <2>6. QED BY <1>4, <1>13, <2>5 DEF SyncBatch
<1>14. CASE SyncInsert(c)
  <2>1. StepSet(call[c].t, call[c].n, c) \in SUBSET StepId
        BY <1>2, StepSetType
  <2>2. DOMAIN steps' \subseteq StepId /\ \A i \in DOMAIN steps' : steps'[i] \in Step
        BY <1>1, <1>14, <2>1, InsertType DEF SyncInsert
  <2>3. grown' \subseteq Nat
        BY <1>1, <1>2, <1>14, GrowType DEF SyncInsert
  <2>4. "syncBatch" \in CallSteps
        BY DEF CallSteps
  <2>5. QED BY <1>5, <1>6, <1>14, <2>2, <2>3, <2>4 DEF SyncInsert
<1>15. CASE Archive(c)
  <2> DEFINE t    == call[c].t
             gone == IF \E n \in Numbers : OfBatch(t, n) # {} THEN OfBatch(t, 0) ELSE {}
  <2>1. steps' = [i \in DOMAIN steps |-> [steps[i] EXCEPT !.archived = @ \/ i \in gone]]
        BY <1>15 DEF Archive
  <2> HIDE DEF gone
  <2>2. \A i \in DOMAIN steps : (steps[i].archived \/ i \in gone) \in BOOLEAN
        OBVIOUS
  <2>3. \A i \in DOMAIN steps : steps'[i] \in Step
    <3> SUFFICES ASSUME NEW i \in DOMAIN steps PROVE steps'[i] \in Step
        OBVIOUS
    <3> DEFINE b == steps[i].archived \/ i \in gone
    <3>1. steps'[i] = [steps[i] EXCEPT !.archived = b] /\ b \in BOOLEAN
          BY <2>1, <2>2
    <3> HIDE DEF b
    <3>2. QED BY <1>1, <3>1 DEF Step
  <2>4. DOMAIN steps' = DOMAIN steps
        BY <2>1
  <2>5. grown' \subseteq Nat
        BY <1>1, <1>2, <1>15, GrowType DEF Archive
  <2>6. QED BY <1>1, <1>5, <1>7, <1>15, <2>3, <2>4, <2>5 DEF Archive
<1>16. CASE Write(c)
  <2> DEFINE pc == IF call[c].given /\ call[c].s.batch # 0 THEN "propagate" ELSE "ownRead"
  <2>1. pc \in CallSteps
        BY DEF CallSteps
  <2>2. Goto(c, pc) /\ steps' = [steps EXCEPT ![call[c].s].status = call[c].to]
        BY <1>16 DEF Write
  <2> HIDE DEF pc
  <2>3. DOMAIN steps' = DOMAIN steps /\ \A i \in DOMAIN steps : steps'[i] \in Step
        BY <1>1, <1>2, <2>2 DEF Step
  <2>4. QED BY <1>1, <1>5, <1>6, <1>16, <2>1, <2>2, <2>3 DEF Write
<1>17. CASE Propagate(c)
  <2> DEFINE same == {i \in Siblings(call[c].s) : steps[i].status = call[c].from}
  <2>1. steps' = [i \in DOMAIN steps |-> IF i \in same THEN [steps[i] EXCEPT !.status = call[c].to]
                                                       ELSE steps[i]]
        BY <1>17 DEF Propagate
  <2> HIDE DEF same
  <2>2. DOMAIN steps' = DOMAIN steps /\ \A i \in DOMAIN steps : steps'[i] \in Step
        BY <1>1, <1>2, <2>1 DEF Step
  <2>3. "affected" \in CallSteps
        BY DEF CallSteps
  <2>4. QED BY <1>1, <1>5, <1>6, <1>17, <2>2, <2>3 DEF Propagate
<1>18. CASE Affected(c)
  <2> DEFINE ts == {t \in DOMAIN trackers : OfBatch(t, call[c].s.batch) # {}}
             found == {<<t, Derived(t)>> : t \in ts}
  <2>1. call' = [call EXCEPT ![c].found = found, ![c].pc = "overall"]
        BY <1>18 DEF Affected
  <2>2. found \in SUBSET (Nat \X Overall)
        BY <1>3, DerivedType
  <2> HIDE DEF ts, found
  <2>3. call' \in [Calls -> Call]
    <3> DEFINE r == [call[c] EXCEPT !.found = found, !.pc = "overall"]
    <3>1. r \in Call
          BY <1>1, <2>2, LocalType DEF CallSteps
    <3>2. call' = [call EXCEPT ![c] = r]
          BY <1>1, <2>1
    <3> HIDE DEF r
    <3>3. QED BY <1>1, <3>1, <3>2
  <2>4. QED BY <1>4, <1>18, <2>3 DEF Affected
<1>19. CASE WriteOverall(c)
  <2>1. PICK p \in call[c].found :
            /\ trackers' = [trackers EXCEPT ![p[1]].overall = p[2]]
            /\ grown' = grown \ {p[1]}
            /\ call' = [call EXCEPT ![c].found = @ \ {p},
                                    ![c].pc = IF call[c].found = {p} THEN "ownRead" ELSE "overall"]
        BY <1>19 DEF WriteOverall
  <2> DEFINE rest == call[c].found \ {p}
             pc   == IF call[c].found = {p} THEN "ownRead" ELSE "overall"
  <2>2. rest \in SUBSET (Nat \X Overall) /\ pc \in CallSteps /\ p[1] \in Nat /\ p[2] \in Overall
        BY <1>2 DEF CallSteps
  <2>3. call' = [call EXCEPT ![c].found = rest, ![c].pc = pc]
        BY <2>1
  <2> HIDE DEF rest, pc
  <2>4. call' \in [Calls -> Call]
    <3> DEFINE r == [call[c] EXCEPT !.found = rest, !.pc = pc]
    <3>1. r \in Call
          BY <1>1, <2>2, LocalType
    <3>2. call' = [call EXCEPT ![c] = r]
          BY <1>1, <2>3
    <3> HIDE DEF r
    <3>3. QED BY <1>1, <3>1, <3>2
  <2>5. trackers' \in Seq(Tracker)
        BY <1>1, <2>1, <2>2, OverallType
  <2>6. grown' \subseteq Nat
        BY <1>1, <2>1
  <2>7. QED BY <1>1, <1>19, <2>4, <2>5, <2>6 DEF WriteOverall, TrackTypeOK
<1>20. CASE OwnRead(c)
  <2> DEFINE found == {<<call[c].t, Derived(call[c].t)>>}
  <2>1. call' = [call EXCEPT ![c].found = found, ![c].pc = "ownWrite"]
        BY <1>20 DEF OwnRead
  <2>2. found \in SUBSET (Nat \X Overall)
        BY <1>2, DerivedType
  <2> HIDE DEF found
  <2>3. call' \in [Calls -> Call]
    <3> DEFINE r == [call[c] EXCEPT !.found = found, !.pc = "ownWrite"]
    <3>1. r \in Call
          BY <1>1, <2>2, LocalType DEF CallSteps
    <3>2. call' = [call EXCEPT ![c] = r]
          BY <1>1, <2>1
    <3> HIDE DEF r
    <3>3. QED BY <1>1, <3>1, <3>2
  <2>4. QED BY <1>4, <1>20, <2>3 DEF OwnRead
<1>21. CASE OwnWrite(c)
  <2>1. PICK p \in call[c].found : /\ trackers' = [trackers EXCEPT ![p[1]].overall = p[2]]
                                   /\ grown' = grown \ {p[1]}
        BY <1>21 DEF OwnWrite
  <2>2. p[1] \in Nat /\ p[2] \in Overall
        BY <1>2
  <2>3. trackers' \in Seq(Tracker)
        BY <1>1, <2>1, <2>2, OverallType
  <2>4. "notify" \in CallSteps
        BY DEF CallSteps
  <2>5. call' \in [Calls -> Call]
        BY <1>6, <1>7, <1>21, <2>4 DEF OwnWrite
  <2>6. grown' \subseteq Nat
        BY <1>1, <2>1
  <2>7. QED BY <1>1, <1>21, <2>3, <2>5, <2>6 DEF OwnWrite, TrackTypeOK
<1>22. CASE Notify(c)
  <2>1. steps' = [steps EXCEPT ![call[c].s].told = TRUE]
        BY <1>22 DEF Notify
  <2>2. DOMAIN steps' = DOMAIN steps /\ \A i \in DOMAIN steps : steps'[i] \in Step
        BY <1>1, <2>1 DEF Step
  <2>3. QED BY <1>1, <1>5, <1>7, <1>22, <2>2 DEF Notify
<1>23. QED
      BY <1>8, <1>9, <1>10, <1>11, <1>12, <1>13, <1>14, <1>15, <1>16, <1>17, <1>18, <1>19,
         <1>20, <1>21, <1>22 DEF CallStep
-----------------------------------------------------------------------------
(* References.                                                             *)

\* One call changes, no tracker goes, and rows are inserted for trackers there are.
LEMMA RefsKept ==
    ASSUME Refs, NEW c \in Calls,
           DOMAIN trackers \subseteq DOMAIN trackers',
           \A i \in DOMAIN steps' : i \in DOMAIN steps \/ i.t \in DOMAIN trackers',
           \A x \in Calls \ {c} : call'[x] = call[x],
           call'[c].pc \in WithTracker => call'[c].t \in DOMAIN trackers'
    PROVE  Refs'
BY DEF Refs

\* Calls that arrive insert nothing yet.
LEMMA StartRefs ==
    ASSUME TrackTypeOK, Refs, NEW c \in Calls, Start(c)
    PROVE  Refs'
<1>1. call \in [Calls -> Call]
      BY DEF TrackTypeOK
<1>2. ASSUME NEW kind, NEW d, NEW r \in Call, r.pc \notin WithTracker, Arrive(c, kind, d, r),
             UNCHANGED <<trackers, steps>>
      PROVE  Refs'
  <2> DEFINE a == [r EXCEPT !.kind = kind, !.d = d]
  <2>1. a.pc = r.pc
        BY DEF Call
  <2>2. call' = [call EXCEPT ![c] = a]
        BY <1>2 DEF Arrive
  <2> HIDE DEF a
  <2>3. call'[c] = a /\ \A x \in Calls \ {c} : call'[x] = call[x]
        BY <1>1, <2>2
  <2>4. QED BY <1>2, <2>1, <2>3, RefsKept
<1>3. \A pc \in CallSteps : LET r == [NoCall EXCEPT !.pc = pc] IN r \in Call /\ r.pc = pc
      BY NoCallType DEF Call
<1>4. ASSUME NEW d, Create(c, d) PROVE Refs'
  <2> DEFINE pc == IF TrackersOf(d) = {} THEN "insertTracker" ELSE "over"
  <2>1. pc \in CallSteps /\ pc \notin WithTracker
        BY DEF CallSteps, WithTracker
  <2>2. Arrive(c, "create", d, [NoCall EXCEPT !.pc = pc]) /\ UNCHANGED <<trackers, steps>>
        BY <1>4 DEF Create
  <2> HIDE DEF pc
  <2>3. QED BY <1>2, <1>3, <2>1, <2>2
<1>5. ASSUME NEW d, New(c, d) PROVE Refs'
  <2>1. {"allocating", "check"} \subseteq CallSteps \ WithTracker
        BY DEF CallSteps, WithTracker
  <2>2. PICK pc \in {"allocating", "check"} : Arrive(c, "new", d, [NoCall EXCEPT !.pc = pc])
        BY <1>5 DEF New
  <2>3. UNCHANGED <<trackers, steps>>
        BY <1>5 DEF New
  <2>4. QED BY <1>2, <1>3, <2>1, <2>2, <2>3
<1>6. ASSUME NEW d, Paid(c, d) PROVE Refs'
  <2> DEFINE pc == IF TrackersOf(d) = {} THEN "over" ELSE "check"
  <2>1. pc \in CallSteps /\ pc \notin WithTracker
        BY DEF CallSteps, WithTracker
  <2>2. Arrive(c, "paid", d, [NoCall EXCEPT !.pc = pc]) /\ UNCHANGED <<trackers, steps>>
        BY <1>6 DEF Paid
  <2> HIDE DEF pc
  <2>3. QED BY <1>2, <1>3, <2>1, <2>2
<1>7. ASSUME NEW t, More(c, t) PROVE Refs'
  <2>1. "allocating" \in CallSteps \ WithTracker
        BY DEF CallSteps, WithTracker
  <2>2. QED BY <1>2, <1>3, <1>7, <2>1 DEF More
<1>8. ASSUME NEW s, NEW to, Update(c, s, to) PROVE Refs'
  <2> DEFINE keep == to = "keep"
             want == IF keep THEN steps[s].status ELSE to
             r == [NoCall EXCEPT !.pc = "write", !.s = s, !.t = s.t, !.from = steps[s].status,
                                 !.to = want, !.given = ~keep]
             a == [r EXCEPT !.kind = "step", !.d = trackers[s.t].d]
  <2>1. call' = [call EXCEPT ![c] = a] /\ UNCHANGED <<trackers, steps>>
        BY <1>8 DEF Update, Arrive
  <2>2. a.pc = "write"
        BY DEF NoCall
  <2> HIDE DEF a
  <2>3. call'[c] = a /\ \A x \in Calls \ {c} : call'[x] = call[x]
        BY <1>1, <2>1
  <2>4. call'[c].pc \notin WithTracker
        BY <2>2, <2>3 DEF WithTracker
  <2>5. QED BY <2>1, <2>3, <2>4, RefsKept
<1>9. QED BY <1>4, <1>5, <1>6, <1>7, <1>8 DEF Start

\* Calls that go on keep the tracker they have found.
LEMMA StepRefs ==
    ASSUME TrackTypeOK, Refs, NEW c \in Calls, CallStep(c)
    PROVE  Refs'
<1>1. call \in [Calls -> Call] /\ trackers \in Seq(Tracker)
      BY DEF TrackTypeOK
<1>2. call[c].pc \in WithTracker => call[c].t \in DOMAIN trackers
      BY DEF Refs
<1>3. ASSUME NEW pc, Goto(c, pc), pc \in WithTracker => call[c].t \in DOMAIN trackers,
             DOMAIN trackers' = DOMAIN trackers,
             \A i \in DOMAIN steps' : i \in DOMAIN steps \/ i.t \in DOMAIN trackers
      PROVE  Refs'
  <2>1. call'[c].pc = pc /\ call'[c].t = call[c].t /\ \A x \in Calls \ {c} : call'[x] = call[x]
        BY <1>1, <1>3 DEF Goto, Call
  <2>2. QED BY <1>3, <2>1, RefsKept
<1>4. ASSUME End(c), DOMAIN trackers' = DOMAIN trackers,
             \A i \in DOMAIN steps' : i \in DOMAIN steps \/ i.t \in DOMAIN trackers
      PROVE  Refs'
  <2>1. call'[c].pc = "over" /\ \A x \in Calls \ {c} : call'[x] = call[x]
        BY <1>1, <1>4 DEF End, Stop, NoCall
  <2>2. QED BY <1>4, <2>1, RefsKept DEF WithTracker
<1>5. ASSUME NEW found, NEW pc, pc \notin WithTracker,
             call' = [call EXCEPT ![c].found = found, ![c].pc = pc],
             DOMAIN trackers' = DOMAIN trackers, steps' = steps
      PROVE  Refs'
  <2>1. call'[c].pc = pc /\ \A x \in Calls \ {c} : call'[x] = call[x]
        BY <1>1, <1>5 DEF Call
  <2>2. QED BY <1>5, <2>1, RefsKept
<1>6. CASE InsertTracker(c)
  <2> DEFINE t == [d |-> call[c].d, overall |-> "pending"]
  <2>1. t \in Tracker
        BY <1>1 DEF Tracker, Overall, Call
  <2>2. trackers' = Append(trackers, t) /\ steps' = steps
          /\ call' = [call EXCEPT ![c].pc = "insertSteps", ![c].t = Len(trackers) + 1]
        BY <1>6 DEF InsertTracker
  <2> HIDE DEF t
  <2>3. DOMAIN trackers \subseteq DOMAIN trackers' /\ Len(trackers) + 1 \in DOMAIN trackers'
        BY <1>1, <2>1, <2>2
  <2>4. call'[c].t = Len(trackers) + 1 /\ \A x \in Calls \ {c} : call'[x] = call[x]
        BY <1>1, <2>2 DEF Call
  <2>5. QED BY <2>2, <2>3, <2>4, RefsKept
<1>7. CASE InsertSteps(c)
  <2>1. \A i \in StepSet(call[c].t, 0, c) : i.t = call[c].t
        BY DEF StepSet
  <2>2. call[c].t \in DOMAIN trackers
        BY <1>2, <1>7 DEF InsertSteps, WithTracker
  <2>3. \A i \in DOMAIN steps' : i \in DOMAIN steps \/ i.t \in DOMAIN trackers
        BY <1>7, <2>1, <2>2 DEF InsertSteps, InsertRows
  <2>4. QED BY <1>4, <1>7, <2>3 DEF InsertSteps
<1>8. CASE Check(c)
      BY <1>3, <1>4, <1>8 DEF Check, WithTracker
<1>9. CASE AllocatedNothing(c)
      BY <1>4, <1>9 DEF AllocatedNothing
<1>10. CASE Sync(c)
  <2> DEFINE ns == {a.n : a \in {x \in Committed : x.d = call[c].d}}
  <2>1. PICK t \in TrackersOf(call[c].d) :
            call' = [call EXCEPT ![c].t = t, ![c].pc = "syncBatch", ![c].batches = ns]
        BY <1>10 DEF Sync
  <2> HIDE DEF ns
  <2>2. t \in DOMAIN trackers
        BY DEF TrackersOf
  <2>3. call'[c].t = t /\ \A x \in Calls \ {c} : call'[x] = call[x]
        BY <1>1, <2>1 DEF Call
  <2>4. QED BY <1>10, <2>2, <2>3, RefsKept DEF Sync
<1>11. CASE SyncBatch(c)
  <2>1. call[c].t \in DOMAIN trackers /\ UNCHANGED <<trackers, steps>>
        BY <1>2, <1>11 DEF SyncBatch, WithTracker
  <2> DEFINE todo == call[c].batches
             n    == Min(todo)
             rest == todo \ {n}
  <2>2. \/ Goto(c, "archive")
        \/ call' = [call EXCEPT ![c].batches = rest]
        \/ call' = [call EXCEPT ![c].batches = rest, ![c].n = n, ![c].pc = "syncInsert"]
        BY <1>11 DEF SyncBatch
  <2> HIDE DEF todo, n, rest
  <2>3. call'[c].t = call[c].t /\ \A x \in Calls \ {c} : call'[x] = call[x]
        BY <1>1, <2>2 DEF Goto, Call
  <2>4. QED BY <2>1, <2>3, RefsKept
<1>12. CASE SyncInsert(c)
  <2>1. \A i \in StepSet(call[c].t, call[c].n, c) : i.t = call[c].t
        BY DEF StepSet
  <2>2. call[c].t \in DOMAIN trackers
        BY <1>2, <1>12 DEF SyncInsert, WithTracker
  <2>3. \A i \in DOMAIN steps' : i \in DOMAIN steps \/ i.t \in DOMAIN trackers
        BY <1>12, <2>1, <2>2 DEF SyncInsert, InsertRows
  <2>4. QED BY <1>3, <1>12, <2>2, <2>3 DEF SyncInsert
<1>13. CASE Archive(c)
       BY <1>4, <1>13 DEF Archive
<1>14. CASE Write(c)
  <2> DEFINE pc == IF call[c].given /\ call[c].s.batch # 0 THEN "propagate" ELSE "ownRead"
  <2>1. Goto(c, pc) /\ pc \notin WithTracker
        BY <1>14 DEF Write, WithTracker
  <2> HIDE DEF pc
  <2>2. QED BY <1>3, <1>14, <2>1 DEF Write
<1>15. CASE Propagate(c)
       BY <1>3, <1>15 DEF Propagate, WithTracker
<1>16. CASE Affected(c)
  <2>1. PICK found : call' = [call EXCEPT ![c].found = found, ![c].pc = "overall"]
        BY <1>16 DEF Affected
  <2>2. QED BY <1>5, <1>16, <2>1 DEF Affected, WithTracker
<1>17. CASE WriteOverall(c)
  <2>1. PICK p \in call[c].found :
            /\ trackers' = [trackers EXCEPT ![p[1]].overall = p[2]]
            /\ call' = [call EXCEPT ![c].found = @ \ {p},
                                    ![c].pc = IF call[c].found = {p} THEN "ownRead" ELSE "overall"]
        BY <1>17 DEF WriteOverall
  <2> DEFINE rest == call[c].found \ {p}
             pc   == IF call[c].found = {p} THEN "ownRead" ELSE "overall"
  <2>2. call' = [call EXCEPT ![c].found = rest, ![c].pc = pc] /\ pc \notin WithTracker
        BY <2>1 DEF WithTracker
  <2> HIDE DEF rest, pc
  <2>3. QED BY <1>5, <1>17, <2>1, <2>2 DEF WriteOverall
<1>18. CASE OwnRead(c)
  <2>1. PICK found : call' = [call EXCEPT ![c].found = found, ![c].pc = "ownWrite"]
        BY <1>18 DEF OwnRead
  <2>2. trackers' = trackers /\ steps' = steps /\ "ownWrite" \notin WithTracker
        BY <1>18 DEF OwnRead, WithTracker
  <2>3. QED BY <1>5, <2>1, <2>2
<1>19. CASE OwnWrite(c)
  <2>1. DOMAIN trackers' = DOMAIN trackers /\ steps' = steps
        BY <1>19 DEF OwnWrite
  <2>2. Goto(c, "notify") \/ End(c)
        BY <1>19 DEF OwnWrite
  <2>3. QED BY <1>3, <1>4, <2>1, <2>2 DEF WithTracker
<1>20. CASE Notify(c)
       BY <1>4, <1>20 DEF Notify
<1>21. QED
       BY <1>6, <1>7, <1>8, <1>9, <1>10, <1>11, <1>12, <1>13, <1>14, <1>15, <1>16, <1>17,
          <1>18, <1>19, <1>20 DEF CallStep
-----------------------------------------------------------------------------
(* The batches under the trackers.                                         *)

\* A step of the trackers is a step of the batches: nothing else happens to them.
LEMMA TrackerCases ==
    ASSUME TrackTypeOK, Refs, BatchTypeOK, [Next]_allVars
    PROVE  BatchStep
<1>1. CASE UNCHANGED batchVars
      BY <1>1 DEF BatchStep
<1>2. ASSUME NEW c \in Calls, NEW d \in Donations, Request(c, d)
      PROVE  BatchStep
      BY <1>2 DEF Request, BatchStep
<1>3. ASSUME NEW c \in Calls, Start(c) PROVE BatchStep
  <2>1. ASSUME NEW d \in Donations, Create(c, d) \/ New(c, d) \/ Paid(c, d) PROVE BatchStep
        BY <1>1, <1>2, <2>1 DEF Create, New, Paid
  <2>2. ASSUME NEW t \in DOMAIN trackers, More(c, t) PROVE BatchStep
    <3>1. trackers[t].d \in Donations
          BY TrackersType DEF TrackTypeOK, Tracker
    <3>2. QED BY <1>2, <2>2, <3>1 DEF More
  <2>3. ASSUME NEW s, NEW to, Update(c, s, to) PROVE BatchStep
        BY <1>1, <2>3 DEF Update
  <2>4. QED BY <1>3, <2>1, <2>2, <2>3 DEF Start
<1>4. ASSUME NEW c \in Calls, CallStep(c) PROVE BatchStep
  <2>1. CASE Check(c)
    <3>1. call[c].d \in Donations
          BY DEF TrackTypeOK, Call
    <3>2. QED BY <1>1, <1>2, <2>1, <3>1 DEF Check
  <2>2. CASE ~Check(c)
    <3>1. UNCHANGED batchVars
          BY <1>4, <2>2 DEF CallStep, InsertTracker, InsertSteps, AllocatedNothing, Sync,
             SyncBatch, SyncInsert, Archive, Write, Propagate, Affected, WriteOverall, OwnRead,
             OwnWrite, Notify
    <3>2. QED BY <1>1, <3>1
  <2>3. QED BY <2>1, <2>2
<1>5. ASSUME NEW c \in Calls, Transaction(c) PROVE BatchStep
      BY <1>5, TxCases DEF Transaction, BatchStep, InTx
<1>6. ASSUME NEW c \in Calls, Crash(c) PROVE BatchStep
      BY <1>1, <1>6 DEF Crash, Ended, BatchStep
<1>7. CASE UNCHANGED allVars
      BY <1>1, <1>7 DEF allVars
<1>8. QED BY <1>3, <1>4, <1>5, <1>6, <1>7 DEF Next

\* What holds of trackers and batches together.
TrackersInv == TrackTypeOK /\ Refs /\ BatchInv

LEMMA TrackersInit == Init => TrackersInv
<1>1. Init => Refs
  <2> SUFFICES ASSUME Init PROVE Refs
      OBVIOUS
  <2>1. \A i \in DOMAIN steps : i.t \in DOMAIN trackers
        BY DEF Init, StepSet
  <2>2. \A c \in Calls : call[c].pc = "idle"
        BY DEF Init, NoCall
  <2>3. QED BY <2>1, <2>2 DEF Refs, WithTracker
<1>2. QED BY <1>1, TrackTypeInit, BatchInitInv DEF Init, TrackersInv

\* A step keeps it.
LEMMA TrackersStep == TrackersInv /\ [Next]_allVars => TrackersInv'
<1> SUFFICES ASSUME TrackersInv, [Next]_allVars PROVE TrackersInv'
    OBVIOUS
<1>1. BatchInv'
      BY TrackerCases, BatchInvStep DEF TrackersInv, BatchInv
<1>2. CASE UNCHANGED allVars
      BY <1>1, <1>2 DEF allVars, trackVars, TrackersInv, TrackTypeOK, Refs
<1>3. ASSUME NEW c \in Calls, Start(c) PROVE TrackersInv'
      BY <1>1, <1>3, StartType, StartRefs DEF TrackersInv, BatchInv
<1>4. ASSUME NEW c \in Calls, CallStep(c) PROVE TrackersInv'
      BY <1>1, <1>4, StepType, StepRefs DEF TrackersInv, BatchInv
<1>5. ASSUME NEW c \in Calls, Transaction(c) PROVE TrackersInv'
      BY <1>1, <1>5 DEF Transaction, trackVars, TrackersInv, TrackTypeOK, Refs
<1>6. ASSUME NEW c \in Calls, Crash(c) PROVE TrackersInv'
  <2>1. UNCHANGED <<trackers, steps, overlapped, raced, grown>> /\ Stop(c, "dead")
        BY <1>6 DEF Crash
  <2>2. TrackTypeOK'
        BY <2>1, EndType DEF TrackersInv, TrackTypeOK
  <2>3. call'[c].pc = "dead" /\ \A x \in Calls \ {c} : call'[x] = call[x]
        BY <2>1 DEF TrackersInv, TrackTypeOK, Stop, NoCall
  <2>4. call'[c].pc \notin WithTracker
        BY <2>3 DEF WithTracker
  <2>5. Refs'
        BY <2>1, <2>3, <2>4, RefsKept DEF TrackersInv
  <2>6. QED BY <1>1, <2>2, <2>5 DEF TrackersInv
<1>7. QED BY <1>2, <1>3, <1>4, <1>5, <1>6 DEF Next

-----------------------------------------------------------------------------
(* What each step does to the call that takes it, in the terms the         *)
(* invariants below are stated in.                                         *)

Others(c) == \A x \in Calls \ {c} : call'[x] = call[x]

\* Call c goes from one statement to another.
On(c, from, to) ==
    /\ call[c].pc = from /\ call'[c].pc = to
    /\ Others(c)
    /\ call'[c].kind = call[c].kind /\ call'[c].d = call[c].d
    /\ overlapped' = overlapped /\ raced' = raced

\* An allocation for d begins.
Requested(c, d) ==
    /\ tx[c].pc = "idle" /\ tx'[c].pc = "select" /\ tx'[c].d = d
    /\ \A x \in Calls \ {c} : tx'[x] = tx[x]
    /\ rows' = rows

\* Rows ids are inserted.
Inserted(ids) ==
    /\ DOMAIN steps' = DOMAIN steps \union ids
    /\ \A i \in ids : steps'[i] = NewStep
    /\ \A i \in DOMAIN steps \ ids : steps'[i] = steps[i]

\* Statuses are written: the rows are the same.
SameRows ==
    /\ DOMAIN steps' = DOMAIN steps
    /\ \A i \in DOMAIN steps : steps'[i].archived = steps[i].archived

\* A call goes on with the step it updates.
SameStep(c) ==
    /\ call'[c].s = call[c].s /\ call'[c].t = call[c].t
    /\ call'[c].from = call[c].from /\ call'[c].to = call[c].to

Arrived(c) ==
    LET r == call'[c]
    IN  /\ call[c].pc = "idle" /\ Others(c)
        /\ UNCHANGED <<trackers, steps, grown>>
        /\ overlapped' = IF \E x \in Calls : Running(x) /\ call[x].d = r.d
                         THEN overlapped \union {r.d} ELSE overlapped
        /\ raced' <=> raced \/ \E x \in Calls : Running(x) /\ "step" \in {r.kind, call[x].kind}
        /\ \/ r.kind = "create" /\ r.pc \in {"insertTracker", "over"} /\ UNCHANGED batchVars
           \/ r.kind = "paid" /\ r.pc = "over" /\ UNCHANGED batchVars
           \/ r.kind \in {"new", "paid"} /\ r.pc = "check" /\ TrackersOf(r.d) # {}
                /\ UNCHANGED batchVars
           \/ r.kind \in {"new", "more"} /\ r.pc = "allocating" /\ Requested(c, r.d)
                /\ (r.kind = "more" => TrackersOf(r.d) # {})
           \/ /\ r.kind = "step" /\ r.pc = "write" /\ UNCHANGED batchVars
              /\ r.s \in DOMAIN steps /\ r.t = r.s.t /\ r.d = trackers[r.t].d
              /\ r.from \in Final => r.to = r.from

TrackerInserted(c) ==
    /\ On(c, "insertTracker", "insertSteps")
    /\ DOMAIN trackers' = DOMAIN trackers \union {call'[c].t}
    /\ call'[c].t \notin DOMAIN trackers
    /\ \A t \in DOMAIN trackers : trackers'[t] = trackers[t]
    /\ trackers'[call'[c].t] = [d |-> call[c].d, overall |-> "pending"]
    /\ UNCHANGED <<batchVars, steps, grown>>

StepsInserted(c) ==
    /\ On(c, "insertSteps", "over")
    /\ Inserted(StepSet(call[c].t, 0, c))
    /\ UNCHANGED <<batchVars, trackers, grown>>

Checked(c) ==
    /\ UNCHANGED <<trackers, steps, grown>>
    /\ \/ On(c, "check", "over") /\ UNCHANGED batchVars
       \/ On(c, "check", "allocating") /\ Requested(c, call[c].d)

GivenUp(c) ==
    /\ On(c, "allocating", "over")
    /\ tx[c].pc = "failed" \/ (tx[c].pc = "done" /\ TrackersOf(call[c].d) = {})
    /\ UNCHANGED <<batchVars, trackers, steps, grown>>

Found(c) ==
    /\ On(c, "allocating", "syncBatch")
    /\ tx[c].pc = "done"
    /\ call'[c].t \in TrackersOf(call[c].d)
    /\ \A a \in Committed : a.d = call[c].d => a.n \in call'[c].batches
    /\ UNCHANGED <<batchVars, trackers, steps, grown>>

\* Nothing is left to synchronise, n has steps, or n gets them.
Looked(c) ==
    /\ UNCHANGED <<batchVars, trackers, steps, grown>>
    /\ call'[c].t = call[c].t
    /\ \/ On(c, "syncBatch", "archive") /\ call[c].batches = {}
       \/ \E n \in call[c].batches :
             /\ call'[c].batches = call[c].batches \ {n}
             /\ \/ On(c, "syncBatch", "syncBatch") /\ OfBatch(call[c].t, n) # {}
                \/ On(c, "syncBatch", "syncInsert") /\ OfBatch(call[c].t, n) = {}
                     /\ call'[c].n = n

SetInserted(c) ==
    /\ On(c, "syncInsert", "syncBatch")
    /\ call'[c].t = call[c].t /\ call'[c].batches = call[c].batches
    /\ Inserted(StepSet(call[c].t, call[c].n, c))
    /\ Grow(call[c].t)
    /\ UNCHANGED <<batchVars, trackers>>

Archived(c) ==
    /\ On(c, "archive", "over")
    /\ DOMAIN steps' = DOMAIN steps
    /\ \A i \in DOMAIN steps :
          /\ steps'[i].status = steps[i].status
          /\ steps'[i].archived <=>
                \/ steps[i].archived
                \/ i \in OfBatch(call[c].t, 0) /\ \E n \in Numbers : OfBatch(call[c].t, n) # {}
    /\ Grow(call[c].t)
    /\ UNCHANGED <<batchVars, trackers>>

Written(c) ==
    /\ \/ On(c, "write", "propagate") /\ call[c].s.batch # 0
       \/ On(c, "write", "ownRead")
    /\ SameStep(c) /\ SameRows
    /\ \A i \in DOMAIN steps :
          steps'[i].status = IF i = call[c].s THEN call[c].to ELSE steps[i].status
    /\ UNCHANGED <<batchVars, trackers, grown>>

Propagated(c) ==
    /\ On(c, "propagate", "affected")
    /\ SameStep(c) /\ SameRows
    /\ \A i \in DOMAIN steps :
          steps'[i].status = IF i \in Siblings(call[c].s) /\ steps[i].status = call[c].from
                             THEN call[c].to ELSE steps[i].status
    /\ UNCHANGED <<batchVars, trackers, grown>>

Collected(c) ==
    /\ On(c, "affected", "overall")
    /\ SameStep(c)
    /\ call'[c].found = {<<t, Derived(t)>> :
                            t \in {u \in DOMAIN trackers : OfBatch(u, call[c].s.batch) # {}}}
    /\ UNCHANGED <<batchVars, trackers, steps, grown>>

\* The overall status of one of the trackers found is written.
OverallWritten(c, t, o) ==
    /\ <<t, o>> \in call[c].found
    /\ DOMAIN trackers' = DOMAIN trackers
    /\ \A u \in DOMAIN trackers :
          /\ trackers'[u].d = trackers[u].d
          /\ trackers'[u].overall = IF u = t THEN o ELSE trackers[u].overall
    /\ grown' = grown \ {t}
    /\ UNCHANGED <<batchVars, steps>>

OneWritten(c) ==
    /\ SameStep(c)
    /\ \E t, o : /\ OverallWritten(c, t, o)
                 /\ \/ On(c, "overall", "overall") /\ call'[c].found = call[c].found \ {<<t, o>>}
                    \/ On(c, "overall", "ownRead") /\ call[c].found = {<<t, o>>}

OwnFound(c) ==
    /\ On(c, "ownRead", "ownWrite")
    /\ SameStep(c)
    /\ call'[c].found = {<<call[c].t, Derived(call[c].t)>>}
    /\ UNCHANGED <<batchVars, trackers, steps, grown>>

OwnWritten(c) ==
    /\ \E t, o : OverallWritten(c, t, o)
    /\ \/ On(c, "ownWrite", "notify") /\ SameStep(c)
       \/ On(c, "ownWrite", "over")

Notified(c) ==
    /\ On(c, "notify", "over")
    /\ SameRows
    /\ \A i \in DOMAIN steps : steps'[i].status = steps[i].status
    /\ UNCHANGED <<batchVars, trackers, grown>>

\* A transaction goes on, or ends; the rows it adds are its own.
Transacted(c) ==
    /\ tx[c].pc \in InTx /\ tx'[c].pc \in InTx \union {"done", "failed"}
    /\ tx'[c].d = tx[c].d
    /\ \A x \in Calls \ {c} : tx'[x] = tx[x]
    /\ \A a \in rows' : a \in rows \/ (a.by = c /\ a.d = tx[c].d)
    /\ \A a \in rows : a \in rows' \/ a.by = c
    /\ UNCHANGED trackVars

\* A call dies, and its transaction with it.
Died(c) ==
    /\ Running(c)
    /\ \E from \in CallSteps : On(c, from, "dead")
    /\ \/ UNCHANGED batchVars /\ (call[c].pc = "allocating" => tx[c].pc \in {"done", "failed"})
       \/ /\ call[c].pc = "allocating" /\ tx[c].pc # "done"
          /\ tx'[c].pc = "failed" /\ tx'[c].d = tx[c].d
          /\ \A x \in Calls \ {c} : tx'[x] = tx[x]
          /\ rows' = {a \in rows : a.by # c}
    /\ UNCHANGED <<trackers, steps, grown>>

Went(c) ==
    \/ TrackerInserted(c) \/ StepsInserted(c) \/ Checked(c) \/ GivenUp(c) \/ Found(c)
    \/ Looked(c) \/ SetInserted(c) \/ Archived(c) \/ Written(c) \/ Propagated(c)
    \/ Collected(c) \/ OneWritten(c) \/ OwnFound(c) \/ OwnWritten(c) \/ Notified(c)

\* A statement after which the call goes on, or ends.
LEMMA GotoEffect ==
    ASSUME TrackTypeOK, NEW c \in Calls, NEW pc, Goto(c, pc),
           overlapped' = overlapped, raced' = raced
    PROVE  On(c, call[c].pc, pc) /\ SameStep(c)
             /\ call'[c].n = call[c].n /\ call'[c].batches = call[c].batches
             /\ call'[c].found = call[c].found
<1>1. call \in [Calls -> Call]
      BY DEF TrackTypeOK
<1>2. call'[c] = [call[c] EXCEPT !.pc = pc] /\ Others(c)
      BY <1>1 DEF Goto, Others
<1>3. QED BY <1>1, <1>2 DEF On, SameStep, Call

LEMMA StopEffect ==
    ASSUME TrackTypeOK, NEW c \in Calls, NEW pc, Stop(c, pc),
           overlapped' = overlapped, raced' = raced
    PROVE  On(c, call[c].pc, pc)
<1>1. call \in [Calls -> Call]
      BY DEF TrackTypeOK
<1> DEFINE r == [NoCall EXCEPT !.kind = call[c].kind, !.d = call[c].d, !.pc = pc]
<1>2. call' = [call EXCEPT ![c] = r]
      BY DEF Stop
<1>3. r.kind = call[c].kind /\ r.d = call[c].d /\ r.pc = pc
      BY DEF NoCall
<1> HIDE DEF r
<1>4. call'[c] = r /\ Others(c)
      BY <1>1, <1>2 DEF Others
<1>5. QED BY <1>3, <1>4 DEF On

LEMMA EndEffect ==
    ASSUME TrackTypeOK, NEW c \in Calls, End(c), overlapped' = overlapped, raced' = raced
    PROVE  On(c, call[c].pc, "over")
BY StopEffect DEF End

\* A call with some fields changed.
LEMMA FieldsEffect ==
    ASSUME TrackTypeOK, NEW c \in Calls, NEW r, call' = [call EXCEPT ![c] = r],
           r.kind = call[c].kind, r.d = call[c].d,
           overlapped' = overlapped, raced' = raced
    PROVE  On(c, call[c].pc, r.pc) /\ call'[c] = r
<1>1. call'[c] = r /\ Others(c)
      BY DEF TrackTypeOK, Others
<1>2. QED BY <1>1 DEF On

\* Rows inserted are there, the others unchanged.
LEMMA InsertEffect ==
    ASSUME NEW ids, InsertRows(ids)
    PROVE  Inserted(ids)
BY DEF InsertRows, Inserted

\* The request for parts.
LEMMA RequestEffect ==
    ASSUME BatchTypeOK, NEW c \in Calls, NEW d, Request(c, d)
    PROVE  Requested(c, d)
<1>1. PICK want \in Requests, size \in Sizes : Begin(c, d, want, size)
      BY DEF Request
<1> DEFINE r == [NoTx EXCEPT !.pc = "select", !.d = d, !.want = want, !.left = want, !.size = size]
<1>2. r.pc = "select" /\ r.d = d
      BY DEF NoTx
<1>3. tx' = [tx EXCEPT ![c] = r] /\ rows' = rows /\ tx[c].pc = "idle"
      BY <1>1 DEF Begin
<1> HIDE DEF r
<1>4. tx'[c] = r /\ \A x \in Calls \ {c} : tx'[x] = tx[x]
      BY <1>3 DEF BatchTypeOK
<1>5. QED BY <1>2, <1>3, <1>4 DEF Requested

\* Every call arrives with its kind and its donation, and goes on where it must.
LEMMA StartEffect ==
    ASSUME TrackTypeOK, BatchTypeOK, NEW c \in Calls, Start(c)
    PROVE  Arrived(c)
<1>1. ASSUME NEW kind, NEW d, NEW r, Arrive(c, kind, d, r), UNCHANGED <<trackers, steps, grown>>,
             LET q == [r EXCEPT !.kind = kind, !.d = d]
             IN  \/ q.kind = "create" /\ q.pc \in {"insertTracker", "over"} /\ UNCHANGED batchVars
                 \/ q.kind = "paid" /\ q.pc = "over" /\ UNCHANGED batchVars
                 \/ q.kind \in {"new", "paid"} /\ q.pc = "check" /\ TrackersOf(q.d) # {}
                      /\ UNCHANGED batchVars
                 \/ q.kind \in {"new", "more"} /\ q.pc = "allocating" /\ Requested(c, q.d)
                      /\ (q.kind = "more" => TrackersOf(q.d) # {})
                 \/ /\ q.kind = "step" /\ q.pc = "write" /\ UNCHANGED batchVars
                    /\ q.s \in DOMAIN steps /\ q.t = q.s.t /\ q.d = trackers[q.t].d
                    /\ q.from \in Final => q.to = q.from,
             LET q == [r EXCEPT !.kind = kind, !.d = d] IN q.kind = kind /\ q.d = d
      PROVE  Arrived(c)
  <2> DEFINE a == [r EXCEPT !.kind = kind, !.d = d]
  <2>0. Arrive(c, kind, d, r)
        BY <1>1
  <2>1. call' = [call EXCEPT ![c] = a] /\ call[c].pc = "idle"
        BY <2>0 DEF Arrive
  <2>2. overlapped' = IF \E x \in Calls : Running(x) /\ call[x].d = d
                      THEN overlapped \union {d} ELSE overlapped
        BY <2>0 DEF Arrive
  <2>3. raced' <=> raced \/ \E x \in Calls : Running(x) /\ "step" \in {kind, call[x].kind}
        BY <2>0, Zenon DEF Arrive
  <2>4. a.kind = kind /\ a.d = d
        BY <1>1
  <2>5. \/ a.kind = "create" /\ a.pc \in {"insertTracker", "over"} /\ UNCHANGED batchVars
        \/ a.kind = "paid" /\ a.pc = "over" /\ UNCHANGED batchVars
        \/ a.kind \in {"new", "paid"} /\ a.pc = "check" /\ TrackersOf(a.d) # {}
             /\ UNCHANGED batchVars
        \/ a.kind \in {"new", "more"} /\ a.pc = "allocating" /\ Requested(c, a.d)
             /\ (a.kind = "more" => TrackersOf(a.d) # {})
        \/ /\ a.kind = "step" /\ a.pc = "write" /\ UNCHANGED batchVars
           /\ a.s \in DOMAIN steps /\ a.t = a.s.t /\ a.d = trackers[a.t].d
           /\ a.from \in Final => a.to = a.from
        BY <1>1
  <2> HIDE DEF a
  <2>6. call'[c] = a /\ Others(c)
        BY <2>1 DEF Others, TrackTypeOK
  <2>7. raced' <=> raced \/ \E x \in Calls : Running(x) /\ "step" \in {call'[c].kind, call[x].kind}
        BY <2>3, <2>4, <2>6, Zenon
  <2>8. QED BY <1>1, <2>1, <2>2, <2>4, <2>5, <2>6, <2>7 DEF Arrived
<1>2. ASSUME NEW d \in Donations, Create(c, d) PROVE Arrived(c)
  <2> DEFINE pc == IF TrackersOf(d) = {} THEN "insertTracker" ELSE "over"
             r == [NoCall EXCEPT !.pc = pc]
             q == [r EXCEPT !.kind = "create", !.d = d]
  <2>1. Arrive(c, "create", d, r) /\ UNCHANGED <<batchVars, trackers, steps, grown>>
        BY <1>2 DEF Create
  <2>2. q.kind = "create" /\ q.d = d /\ q.pc \in {"insertTracker", "over"}
        BY DEF NoCall
  <2> HIDE DEF pc
  <2>3. QED BY <1>1, <2>1, <2>2
<1>3. ASSUME NEW d \in Donations, New(c, d) PROVE Arrived(c)
  <2> DEFINE r(pc) == [NoCall EXCEPT !.pc = pc]
             q(pc) == [r(pc) EXCEPT !.kind = "new", !.d = d]
  <2>1. \A pc \in CallSteps : q(pc).kind = "new" /\ q(pc).d = d /\ q(pc).pc = pc
        BY DEF NoCall
  <2>2. UNCHANGED <<trackers, steps, grown>>
        BY <1>3 DEF New
  <2>3. CASE TrackersOf(d) = {}
    <3>1. Arrive(c, "new", d, r("allocating")) /\ Requested(c, d)
          BY <1>3, <2>3, RequestEffect DEF New
    <3>2. q("allocating").kind = "new" /\ q("allocating").d = d /\ q("allocating").pc = "allocating"
          BY <2>1 DEF CallSteps
    <3>3. QED BY <1>1, <2>2, <3>1, <3>2
  <2>4. CASE TrackersOf(d) # {}
    <3>1. Arrive(c, "new", d, r("check")) /\ UNCHANGED batchVars
          BY <1>3, <2>4 DEF New
    <3>2. q("check").kind = "new" /\ q("check").d = d /\ q("check").pc = "check"
          BY <2>1 DEF CallSteps
    <3>3. QED BY <1>1, <2>2, <2>4, <3>1, <3>2
  <2>5. QED BY <2>3, <2>4
<1>4. ASSUME NEW d \in Donations, Paid(c, d) PROVE Arrived(c)
  <2> DEFINE pc == IF TrackersOf(d) = {} THEN "over" ELSE "check"
             r == [NoCall EXCEPT !.pc = pc]
             q == [r EXCEPT !.kind = "paid", !.d = d]
  <2>1. Arrive(c, "paid", d, r) /\ UNCHANGED <<batchVars, trackers, steps, grown>>
        BY <1>4 DEF Paid
  <2>2. q.kind = "paid" /\ q.d = d /\ (q.pc = "over" \/ (q.pc = "check" /\ TrackersOf(d) # {}))
        BY DEF NoCall
  <2> HIDE DEF pc
  <2>3. QED BY <1>1, <2>1, <2>2
<1>5. ASSUME NEW t \in DOMAIN trackers, More(c, t) PROVE Arrived(c)
  <2> DEFINE d == trackers[t].d
             r == [NoCall EXCEPT !.pc = "allocating"]
             q == [r EXCEPT !.kind = "more", !.d = d]
  <2>1. Arrive(c, "more", d, r) /\ UNCHANGED <<trackers, steps, grown>> /\ Requested(c, d)
        BY <1>5, RequestEffect DEF More
  <2>2. q.kind = "more" /\ q.d = d /\ q.pc = "allocating"
        BY DEF NoCall
  <2>3. TrackersOf(d) # {}
        BY DEF TrackersOf
  <2>4. QED BY <1>1, <2>1, <2>2, <2>3
<1>6. ASSUME NEW s \in DOMAIN steps, NEW to \in Wanted, Update(c, s, to) PROVE Arrived(c)
  <2> DEFINE keep == to = "keep"
             from == steps[s].status
             want == IF keep THEN from ELSE to
             d == trackers[s.t].d
             r == [NoCall EXCEPT !.pc = "write", !.s = s, !.t = s.t, !.from = from,
                                 !.to = want, !.given = ~keep]
             q == [r EXCEPT !.kind = "step", !.d = d]
  <2>1. Arrive(c, "step", d, r) /\ UNCHANGED <<batchVars, trackers, steps, grown>>
        BY <1>6 DEF Update
  <2>2. from \in Final => want = from
        BY <1>6 DEF Update, Allowed, Final
  <2>3. q.kind = "step" /\ q.d = d /\ q.pc = "write" /\ q.s = s /\ q.t = s.t /\ q.from = from
          /\ q.to = want
        BY DEF NoCall
  <2> HIDE DEF want, from
  <2>4. QED BY <1>1, <2>1, <2>2, <2>3
<1>7. QED BY <1>2, <1>3, <1>4, <1>5, <1>6 DEF Start

\* Writing an overall status.
LEMMA OverallEffect ==
    ASSUME TrackTypeOK, NEW c \in Calls, NEW p \in call[c].found,
           trackers' = [trackers EXCEPT ![p[1]].overall = p[2]],
           grown' = grown \ {p[1]}, UNCHANGED <<batchVars, steps>>
    PROVE  p = <<p[1], p[2]>> /\ OverallWritten(c, p[1], p[2])
<1>1. call[c].found \subseteq Nat \X Overall
      BY DEF TrackTypeOK, Call
<1>2. p = <<p[1], p[2]>>
      BY <1>1
<1>3. DOMAIN trackers' = DOMAIN trackers
      OBVIOUS
<1>4. ASSUME NEW u \in DOMAIN trackers
      PROVE  /\ trackers'[u].d = trackers[u].d
             /\ trackers'[u].overall = IF u = p[1] THEN p[2] ELSE trackers[u].overall
  <2>1. trackers[u] \in Tracker
        BY DEF TrackTypeOK
  <2>2. QED BY <2>1 DEF Tracker
<1>5. QED BY <1>2, <1>3, <1>4 DEF OverallWritten

\* The effects of the statements.
LEMMA StepEffect ==
    ASSUME TrackTypeOK, BatchTypeOK, NEW c \in Calls, CallStep(c)
    PROVE  Went(c)
<1>1. /\ trackers \in Seq(Tracker) /\ call \in [Calls -> Call] /\ call[c] \in Call
      /\ \A i \in DOMAIN steps : steps[i] \in Step
      BY DEF TrackTypeOK
<1>2. CASE InsertTracker(c)
  <2> DEFINE t == [d |-> call[c].d, overall |-> "pending"]
             k == Len(trackers) + 1
             r == [call[c] EXCEPT !.pc = "insertSteps", !.t = k]
  <2>1. t \in Tracker
        BY <1>1 DEF Tracker, Overall, Call
  <2>2. trackers' = Append(trackers, t) /\ UNCHANGED <<batchVars, steps, grown>>
        BY <1>2 DEF InsertTracker
  <2>3. call' = [call EXCEPT ![c] = r] /\ overlapped' = overlapped /\ raced' = raced
          /\ call[c].pc = "insertTracker"
        BY <1>1, <1>2 DEF InsertTracker
  <2> HIDE DEF t
  <2>4. /\ DOMAIN trackers' = DOMAIN trackers \union {k} /\ k \notin DOMAIN trackers
        /\ \A u \in DOMAIN trackers : trackers'[u] = trackers[u]
        /\ trackers'[k] = t
        BY <1>1, <2>1, <2>2
  <2>5. r.kind = call[c].kind /\ r.d = call[c].d /\ r.pc = "insertSteps" /\ r.t = k
        BY <1>1 DEF Call
  <2> HIDE DEF r, k
  <2>6. On(c, "insertTracker", "insertSteps") /\ call'[c] = r
        BY <2>3, <2>5, FieldsEffect
  <2>7. TrackerInserted(c)
        BY <2>2, <2>4, <2>5, <2>6 DEF TrackerInserted, t
  <2>8. QED BY <2>7 DEF Went
<1>3. CASE InsertSteps(c)
  <2>1. On(c, "insertSteps", "over")
        BY <1>3, EndEffect DEF InsertSteps
  <2>2. Inserted(StepSet(call[c].t, 0, c))
        BY <1>3, InsertEffect DEF InsertSteps
  <2>3. QED BY <1>3, <2>1, <2>2 DEF InsertSteps, StepsInserted, Went
<1>4. CASE Check(c)
  <2>1. CASE HasAllocations(call[c].d)
        BY <1>4, <2>1, EndEffect DEF Check, Checked, Went
  <2>2. CASE ~HasAllocations(call[c].d)
    <3>1. On(c, "check", "allocating")
          BY <1>4, <2>2, GotoEffect DEF Check
    <3>2. Requested(c, call[c].d)
          BY <1>4, <2>2, RequestEffect DEF Check
    <3>3. QED BY <1>4, <3>1, <3>2 DEF Check, Checked, Went
  <2>3. QED BY <2>1, <2>2
<1>5. CASE AllocatedNothing(c)
      BY <1>5, EndEffect DEF AllocatedNothing, GivenUp, Went
<1>6. CASE Sync(c)
  <2> DEFINE ns == {a.n : a \in {x \in Committed : x.d = call[c].d}}
  <2>1. PICK t \in TrackersOf(call[c].d) :
            call' = [call EXCEPT ![c].t = t, ![c].pc = "syncBatch", ![c].batches = ns]
        BY <1>6 DEF Sync
  <2> DEFINE r == [call[c] EXCEPT !.t = t, !.pc = "syncBatch", !.batches = ns]
  <2>2. \A a \in Committed : a.d = call[c].d => a.n \in ns
        OBVIOUS
  <2> HIDE DEF ns
  <2>3. call' = [call EXCEPT ![c] = r]
        BY <1>1, <2>1
  <2>4. r.kind = call[c].kind /\ r.d = call[c].d /\ r.pc = "syncBatch" /\ r.t = t /\ r.batches = ns
        BY <1>1 DEF Call
  <2> HIDE DEF r
  <2>5. On(c, "allocating", "syncBatch") /\ call'[c] = r
        BY <1>6, <2>3, <2>4, FieldsEffect DEF Sync
  <2>6. Found(c)
        BY <1>6, <2>2, <2>4, <2>5 DEF Sync, Found
  <2>7. QED BY <2>6 DEF Went
<1>7. CASE SyncBatch(c)
  <2> DEFINE todo == call[c].batches
             n    == Min(todo)
             rest == todo \ {n}
  <2>1. /\ call[c].pc = "syncBatch" /\ overlapped' = overlapped /\ raced' = raced
        /\ UNCHANGED <<batchVars, trackers, steps, grown>>
        BY <1>7 DEF SyncBatch
  <2>2. \/ todo = {} /\ Goto(c, "archive")
        \/ todo # {} /\ OfBatch(call[c].t, n) # {} /\ call' = [call EXCEPT ![c].batches = rest]
        \/ todo # {} /\ OfBatch(call[c].t, n) = {}
             /\ call' = [call EXCEPT ![c].batches = rest, ![c].n = n, ![c].pc = "syncInsert"]
        BY <1>7 DEF SyncBatch
  <2>3. todo # {} => n \in todo
    <3>1. todo \subseteq Nat
          BY <1>1 DEF Call, Numbers
    <3>2. QED BY <3>1, MinIsLeast
  <2>4. CASE todo = {} /\ Goto(c, "archive")
        BY <2>1, <2>4, GotoEffect DEF SameStep, Looked, Went
  <2>5. CASE todo # {} /\ OfBatch(call[c].t, n) # {} /\ call' = [call EXCEPT ![c].batches = rest]
    <3> DEFINE r == [call[c] EXCEPT !.batches = rest]
    <3>1. call' = [call EXCEPT ![c] = r]
          BY <1>1, <2>5
    <3>2. r.kind = call[c].kind /\ r.d = call[c].d /\ r.pc = "syncBatch" /\ r.t = call[c].t
            /\ r.batches = rest
          BY <1>1, <2>1 DEF Call
    <3> HIDE DEF r
    <3>3. On(c, call[c].pc, r.pc) /\ call'[c] = r
          BY <2>1, <3>1, <3>2, FieldsEffect
    <3>4. On(c, "syncBatch", "syncBatch")
          BY <2>1, <3>2, <3>3
    <3>5. Looked(c)
          BY <2>1, <2>3, <2>5, <3>2, <3>3, <3>4 DEF Looked
    <3>6. QED BY <3>5 DEF Went
  <2>6. CASE todo # {} /\ OfBatch(call[c].t, n) = {}
               /\ call' = [call EXCEPT ![c].batches = rest, ![c].n = n, ![c].pc = "syncInsert"]
    <3> DEFINE r == [call[c] EXCEPT !.batches = rest, !.n = n, !.pc = "syncInsert"]
    <3>1. call' = [call EXCEPT ![c] = r]
          BY <1>1, <2>6
    <3>2. r.kind = call[c].kind /\ r.d = call[c].d /\ r.pc = "syncInsert" /\ r.t = call[c].t
            /\ r.batches = rest /\ r.n = n
          BY <1>1 DEF Call
    <3> HIDE DEF r
    <3>3. On(c, "syncBatch", "syncInsert") /\ call'[c] = r
          BY <2>1, <3>1, <3>2, FieldsEffect
    <3>4. Looked(c)
          BY <2>1, <2>3, <2>6, <3>2, <3>3 DEF Looked
    <3>5. QED BY <3>4 DEF Went
  <2>7. QED BY <2>2, <2>4, <2>5, <2>6
<1>8. CASE SyncInsert(c)
  <2>1. On(c, "syncInsert", "syncBatch") /\ call'[c].t = call[c].t /\ call'[c].batches = call[c].batches
        BY <1>8, GotoEffect DEF SyncInsert, SameStep
  <2>2. Inserted(StepSet(call[c].t, call[c].n, c))
        BY <1>8, InsertEffect DEF SyncInsert
  <2>3. QED BY <1>8, <2>1, <2>2 DEF SyncInsert, SetInserted, Went
<1>9. CASE Archive(c)
  <2> DEFINE t    == call[c].t
             some == \E n \in Numbers : OfBatch(t, n) # {}
             gone == IF some THEN OfBatch(t, 0) ELSE {}
  <2>1. /\ steps' = [i \in DOMAIN steps |-> [steps[i] EXCEPT !.archived = @ \/ i \in gone]]
        /\ Grow(t) /\ UNCHANGED <<batchVars, trackers>>
        BY <1>9 DEF Archive
  <2>2. On(c, "archive", "over")
        BY <1>9, EndEffect DEF Archive
  <2>3. \A i : i \in gone <=> i \in OfBatch(t, 0) /\ some
        OBVIOUS
  <2> HIDE DEF gone
  <2>4. ASSUME NEW i \in DOMAIN steps
        PROVE  /\ steps'[i].status = steps[i].status
               /\ steps'[i].archived <=> steps[i].archived \/ i \in gone
    <3>1. steps'[i] = [steps[i] EXCEPT !.archived = steps[i].archived \/ i \in gone]
          BY <2>1
    <3>2. QED BY <1>1, <3>1, Zenon DEF Step
  <2>5. Archived(c)
        BY <2>1, <2>2, <2>3, <2>4 DEF Archived
  <2>6. QED BY <2>5 DEF Went
<1>10. CASE Write(c)
  <2> DEFINE r == call[c]
             pc == IF r.given /\ r.s.batch # 0 THEN "propagate" ELSE "ownRead"
  <2>1. Goto(c, pc) /\ steps' = [steps EXCEPT ![r.s].status = r.to] /\ call[c].pc = "write"
        BY <1>10 DEF Write
  <2>2. (pc = "propagate" /\ r.s.batch # 0) \/ pc = "ownRead"
        OBVIOUS
  <2> HIDE DEF pc
  <2>3. On(c, "write", pc) /\ SameStep(c)
        BY <1>10, <2>1, GotoEffect DEF Write
  <2>4. DOMAIN steps' = DOMAIN steps
        BY <2>1
  <2>5. ASSUME NEW i \in DOMAIN steps
        PROVE  /\ steps'[i].archived = steps[i].archived
               /\ steps'[i].status = IF i = r.s THEN r.to ELSE steps[i].status
        BY <1>1, <2>1 DEF Step
  <2>6. Written(c)
        BY <1>10, <2>2, <2>3, <2>4, <2>5 DEF Write, Written, SameRows
  <2>7. QED BY <2>6 DEF Went
<1>11. CASE Propagate(c)
  <2> DEFINE same == {i \in Siblings(call[c].s) : steps[i].status = call[c].from}
  <2>1. Goto(c, "affected")
          /\ steps' = [i \in DOMAIN steps |->
                          IF i \in same THEN [steps[i] EXCEPT !.status = call[c].to] ELSE steps[i]]
        BY <1>11 DEF Propagate
  <2>2. On(c, "propagate", "affected") /\ SameStep(c)
        BY <1>11, <2>1, GotoEffect DEF Propagate
  <2>3. DOMAIN steps' = DOMAIN steps
        BY <2>1
  <2>4. \A i : i \in same <=> i \in Siblings(call[c].s) /\ steps[i].status = call[c].from
        OBVIOUS
  <2> HIDE DEF same
  <2>5. ASSUME NEW i \in DOMAIN steps
        PROVE  /\ steps'[i].archived = steps[i].archived
               /\ steps'[i].status = IF i \in same THEN call[c].to ELSE steps[i].status
        BY <1>1, <2>1 DEF Step
  <2>6. Propagated(c)
        BY <1>11, <2>2, <2>3, <2>4, <2>5 DEF Propagate, Propagated, SameRows
  <2>7. QED BY <2>6 DEF Went
<1>12. ASSUME NEW found, NEW pc,
              call' = [call EXCEPT ![c].found = found, ![c].pc = pc],
              overlapped' = overlapped, raced' = raced
       PROVE  On(c, call[c].pc, pc) /\ SameStep(c) /\ call'[c].found = found
  <2> DEFINE r == [call[c] EXCEPT !.found = found, !.pc = pc]
  <2>1. call' = [call EXCEPT ![c] = r]
        BY <1>1, <1>12
  <2>2. r.kind = call[c].kind /\ r.d = call[c].d /\ r.pc = pc /\ r.found = found
          /\ r.s = call[c].s /\ r.t = call[c].t /\ r.from = call[c].from /\ r.to = call[c].to
        BY <1>1 DEF Call
  <2> HIDE DEF r
  <2>3. On(c, call[c].pc, pc) /\ call'[c] = r
        BY <1>12, <2>1, <2>2, FieldsEffect
  <2>4. QED BY <2>2, <2>3 DEF SameStep
<1>13. CASE Affected(c)
  <2> DEFINE found == {<<t, Derived(t)>> :
                          t \in {u \in DOMAIN trackers : OfBatch(u, call[c].s.batch) # {}}}
  <2>1. call' = [call EXCEPT ![c].found = found, ![c].pc = "overall"]
        BY <1>13 DEF Affected
  <2>2. UNCHANGED <<batchVars, trackers, steps, overlapped, raced, grown>> /\ call[c].pc = "affected"
        BY <1>13 DEF Affected
  <2>3. On(c, "affected", "overall") /\ SameStep(c) /\ call'[c].found = found
        BY <1>12, <2>1, <2>2
  <2>4. Collected(c)
        BY <2>2, <2>3 DEF Collected
  <2>5. QED BY <2>4 DEF Went
<1>14. CASE WriteOverall(c)
  <2>1. PICK p \in call[c].found :
            /\ trackers' = [trackers EXCEPT ![p[1]].overall = p[2]]
            /\ grown' = grown \ {p[1]}
            /\ call' = [call EXCEPT ![c].found = @ \ {p},
                                    ![c].pc = IF call[c].found = {p} THEN "ownRead" ELSE "overall"]
        BY <1>14 DEF WriteOverall
  <2>2. UNCHANGED <<batchVars, steps, overlapped, raced>> /\ call[c].pc = "overall"
        BY <1>14 DEF WriteOverall
  <2>3. p = <<p[1], p[2]>> /\ OverallWritten(c, p[1], p[2])
        BY <2>1, <2>2, OverallEffect
  <2> DEFINE rest == call[c].found \ {p}
             pc   == IF call[c].found = {p} THEN "ownRead" ELSE "overall"
  <2>4. call' = [call EXCEPT ![c].found = rest, ![c].pc = pc]
        BY <2>1
  <2>5. \/ pc = "overall"
        \/ pc = "ownRead" /\ call[c].found = {p}
        OBVIOUS
  <2> HIDE DEF pc
  <2>6. On(c, "overall", pc) /\ SameStep(c) /\ call'[c].found = call[c].found \ {p}
        BY <1>12, <2>2, <2>4
  <2>7. OneWritten(c)
        BY <2>3, <2>5, <2>6 DEF OneWritten
  <2>8. QED BY <2>7 DEF Went
<1>15. CASE OwnRead(c)
  <2> DEFINE found == {<<call[c].t, Derived(call[c].t)>>}
  <2>1. call' = [call EXCEPT ![c].found = found, ![c].pc = "ownWrite"]
        BY <1>15 DEF OwnRead
  <2>2. UNCHANGED <<batchVars, trackers, steps, overlapped, raced, grown>> /\ call[c].pc = "ownRead"
        BY <1>15 DEF OwnRead
  <2>3. On(c, "ownRead", "ownWrite") /\ SameStep(c) /\ call'[c].found = found
        BY <1>12, <2>1, <2>2
  <2>4. OwnFound(c)
        BY <2>2, <2>3 DEF OwnFound
  <2>5. QED BY <2>4 DEF Went
<1>16. CASE OwnWrite(c)
  <2>1. PICK p \in call[c].found :
            /\ trackers' = [trackers EXCEPT ![p[1]].overall = p[2]]
            /\ grown' = grown \ {p[1]}
        BY <1>16 DEF OwnWrite
  <2>2. UNCHANGED <<batchVars, steps, overlapped, raced>> /\ call[c].pc = "ownWrite"
          /\ (Goto(c, "notify") \/ End(c))
        BY <1>16 DEF OwnWrite
  <2>3. OverallWritten(c, p[1], p[2])
        BY <2>1, <2>2, OverallEffect
  <2>4. (On(c, "ownWrite", "notify") /\ SameStep(c)) \/ On(c, "ownWrite", "over")
        BY <2>2, GotoEffect, EndEffect
  <2>5. OwnWritten(c)
        BY <2>3, <2>4 DEF OwnWritten
  <2>6. QED BY <2>5 DEF Went
<1>17. CASE Notify(c)
  <2>1. steps' = [steps EXCEPT ![call[c].s].told = TRUE]
        BY <1>17 DEF Notify
  <2>2. On(c, "notify", "over")
        BY <1>17, EndEffect DEF Notify
  <2>3. DOMAIN steps' = DOMAIN steps
        BY <2>1
  <2>4. ASSUME NEW i \in DOMAIN steps
        PROVE  steps'[i].archived = steps[i].archived /\ steps'[i].status = steps[i].status
        BY <1>1, <2>1 DEF Step
  <2>5. Notified(c)
        BY <1>17, <2>2, <2>3, <2>4 DEF Notify, Notified, SameRows
  <2>6. QED BY <2>5 DEF Went
<1>18. QED
       BY <1>2, <1>3, <1>4, <1>5, <1>6, <1>7, <1>8, <1>9, <1>10, <1>11, <1>13, <1>14, <1>15,
          <1>16, <1>17 DEF CallStep

\* The effect of a rollback.
LEMMA RolledBack ==
    ASSUME BatchTypeOK, NEW c \in Calls, Rollback(c)
    PROVE  /\ tx'[c].pc = "failed" /\ tx'[c].d = tx[c].d
           /\ \A x \in Calls \ {c} : tx'[x] = tx[x]
           /\ rows' = {a \in rows : a.by # c}
<1>1. tx' = [tx EXCEPT ![c].pc = "failed"] /\ rows' = {a \in rows : a.by # c}
      BY DEF Rollback
<1>2. QED BY <1>1 DEF BatchTypeOK, Tx

\* The effects of a transaction's statements.
LEMMA TxEffect ==
    ASSUME BatchInv, NEW c \in Calls, Transaction(c)
    PROVE  Transacted(c)
<1>1. tx \in [Calls -> Tx] /\ tx[c] \in Tx /\ BatchTypeOK
      BY DEF BatchInv, BatchTypeOK
<1>2. UNCHANGED trackVars
      BY DEF Transaction
<1>3. ASSUME tx'[c].pc \in InTx \union {"done", "failed"}, tx[c].pc \in InTx,
             tx'[c].d = tx[c].d, \A x \in Calls \ {c} : tx'[x] = tx[x], rows' = rows
      PROVE  Transacted(c)
      BY <1>2, <1>3 DEF Transacted
<1>4. CASE Select(c)
  <2> DEFINE open == {n \in Numbers : Open(Seen(c, n))}
             pc   == IF open = {} THEN "number" ELSE "lock"
  <2>1. tx' = [tx EXCEPT ![c].wait = open, ![c].got = 0, ![c].pc = pc] /\ pc \in {"number", "lock"}
        BY <1>4 DEF Select
  <2> HIDE DEF open, pc
  <2>2. tx'[c].pc = pc /\ tx'[c].d = tx[c].d /\ \A x \in Calls \ {c} : tx'[x] = tx[x]
        BY <1>1, <2>1 DEF Tx
  <2>3. tx[c].pc = "select" /\ rows' = rows
        BY <1>4 DEF Select
  <2>4. pc \in InTx /\ tx[c].pc \in InTx
        BY <2>1, <2>3 DEF InTx
  <2>5. QED BY <1>3, <2>2, <2>3, <2>4
<1>5. CASE Lock(c)
  <2> DEFINE m    == Max(tx[c].wait)
             rest == tx[c].wait \ {m}
             got  == IF tx[c].got = 0 /\ Open(batch[m]) THEN m ELSE tx[c].got
             pc   == IF rest # {} THEN "lock" ELSE IF got = 0 THEN "number" ELSE "take"
  <2>1. tx' = [tx EXCEPT ![c].wait = rest, ![c].got = got, ![c].pc = pc]
        BY <1>5 DEF Lock
  <2>1a. pc \in {"number", "lock", "take"}
        OBVIOUS
  <2> HIDE DEF rest, got, pc
  <2>2. tx'[c].pc = pc /\ tx'[c].d = tx[c].d /\ \A x \in Calls \ {c} : tx'[x] = tx[x]
        BY <1>1, <2>1 DEF Tx
  <2>3. tx[c].pc = "lock" /\ rows' = rows
        BY <1>5 DEF Lock
  <2>4. pc \in InTx /\ tx[c].pc \in InTx
        BY <2>1a, <2>3 DEF InTx
  <2>5. QED BY <1>3, <2>2, <2>3, <2>4
<1>6. CASE Number(c)
  <2>1. PICK got : tx' = [tx EXCEPT ![c].got = got, ![c].pc = "insert"]
        BY <1>6 DEF Number
  <2>2. tx'[c].pc = "insert" /\ tx'[c].d = tx[c].d /\ \A x \in Calls \ {c} : tx'[x] = tx[x]
        BY <1>1, <2>1 DEF Tx
  <2>3. tx[c].pc = "number" /\ rows' = rows
        BY <1>6 DEF Number
  <2>4. QED BY <1>3, <2>2, <2>3 DEF InTx
<1>7. CASE Insert(c)
  <2>1. tx' = [tx EXCEPT ![c].pc = "take"] /\ tx[c].pc = "insert" /\ rows' = rows
        BY <1>7 DEF Insert
  <2>2. tx'[c].pc = "take" /\ tx'[c].d = tx[c].d /\ \A x \in Calls \ {c} : tx'[x] = tx[x]
        BY <1>1, <2>1 DEF Tx
  <2>3. QED BY <1>3, <2>1, <2>2 DEF InTx
<1>8. CASE Take(c)
  <2>1. PICK n \in Numbers, take \in Nat, upto \in Nat : Taken(c, n, take, upto)
        BY <1>8, TakeEffect
  <2> DEFINE left == tx[c].left - take
             pc   == IF take = tx[c].left THEN "commit" ELSE "select"
             a    == [by |-> c, d |-> tx[c].d, n |-> n, first |-> batch[n].given + 1, last |-> upto]
  <2>2. tx' = [tx EXCEPT ![c].left = left, ![c].pc = pc] /\ pc \in {"commit", "select"}
        BY <2>1 DEF Taken
  <2>3. rows' = rows \/ rows' = rows \union {a}
        BY <2>1 DEF Taken
  <2>4. a.by = c /\ a.d = tx[c].d
        OBVIOUS
  <2> HIDE DEF left, pc, a
  <2>5. tx'[c].pc = pc /\ tx'[c].d = tx[c].d /\ \A x \in Calls \ {c} : tx'[x] = tx[x]
        BY <1>1, <2>2 DEF Tx
  <2>6. tx[c].pc = "take"
        BY <1>8 DEF Take
  <2>7. (\A b \in rows' : b \in rows \/ (b.by = c /\ b.d = tx[c].d)) /\ \A b \in rows : b \in rows'
        BY <2>3, <2>4
  <2>8. QED BY <1>2, <2>2, <2>5, <2>6, <2>7 DEF Transacted, InTx
<1>9. CASE Commit(c)
  <2>1. tx' = [tx EXCEPT ![c].pc = "done"] /\ tx[c].pc = "commit" /\ rows' = rows
        BY <1>9 DEF Commit
  <2>2. tx'[c].pc = "done" /\ tx'[c].d = tx[c].d /\ \A x \in Calls \ {c} : tx'[x] = tx[x]
        BY <1>1, <2>1 DEF Tx
  <2>3. QED BY <1>3, <2>1, <2>2 DEF InTx
<1>10. CASE tx[c].pc \in InTx /\ Rollback(c)
       BY <1>1, <1>2, <1>10, RolledBack DEF Transacted
<1>11. QED
       BY <1>1, <1>4, <1>5, <1>6, <1>7, <1>8, <1>9, <1>10, TxCases DEF Transaction

\* The effect of a crash.
LEMMA CrashEffect ==
    ASSUME TrackTypeOK, BatchTypeOK, NEW c \in Calls, Crash(c)
    PROVE  Died(c)
<1>1. Running(c) /\ On(c, call[c].pc, "dead") /\ UNCHANGED <<trackers, steps, grown>>
      BY StopEffect DEF Crash
<1>2. call[c].pc \in CallSteps
      BY DEF TrackTypeOK, Call
<1>3. CASE call[c].pc = "allocating" /\ ~Ended(c)
  <2>1. Rollback(c) /\ tx[c].pc # "done"
        BY <1>3 DEF Crash, Ended
  <2>2. QED BY <1>1, <1>2, <1>3, <2>1, RolledBack DEF Died
<1>4. CASE ~(call[c].pc = "allocating" /\ ~Ended(c))
  <2>1. UNCHANGED batchVars /\ (call[c].pc = "allocating" => tx[c].pc \in {"done", "failed"})
        BY <1>4 DEF Crash, Ended
  <2>2. QED BY <1>1, <1>2, <2>1 DEF Died
<1>5. QED BY <1>3, <1>4

\* A step of the trackers, by what it does.
Acts(c) == Arrived(c) \/ Went(c) \/ Transacted(c) \/ Died(c)

LEMMA Effects ==
    ASSUME TrackersInv, [Next]_allVars
    PROVE  UNCHANGED allVars \/ \E c \in Calls : Acts(c)
<1>1. TrackTypeOK /\ BatchInv /\ BatchTypeOK
      BY DEF TrackersInv, BatchInv
<1>2. QED BY <1>1, StartEffect, StepEffect, TxEffect, CrashEffect DEF Next, Acts

\* No step takes a row or a tracker away, and a tracker keeps its donation; calls and
\* transactions change one at a time.
Keeps(c) ==
    /\ DOMAIN steps \subseteq DOMAIN steps'
    /\ DOMAIN trackers \subseteq DOMAIN trackers'
    /\ \A t \in DOMAIN trackers : trackers'[t].d = trackers[t].d
    /\ Others(c) /\ \A x \in Calls \ {c} : tx'[x] = tx[x]
    /\ overlapped \subseteq overlapped' /\ (raced => raced')

LEMMA ActsKeep ==
    ASSUME NEW c \in Calls, Acts(c)
    PROVE  Keeps(c)
<1>1. CASE Arrived(c)
      BY <1>1 DEF Arrived, Requested, batchVars, Keeps
<1>2. CASE Transacted(c)
      BY <1>2 DEF Transacted, trackVars, Others, Keeps
<1>3. CASE Died(c)
      BY <1>3 DEF Died, On, batchVars, Keeps
<1>4. CASE TrackerInserted(c)
      BY <1>4 DEF TrackerInserted, On, batchVars, Keeps
<1>5. CASE StepsInserted(c) \/ SetInserted(c)
      BY <1>5 DEF StepsInserted, SetInserted, Inserted, On, batchVars, Keeps
<1>6. CASE Checked(c)
      BY <1>6 DEF Checked, On, Requested, batchVars, Keeps
<1>7. CASE GivenUp(c) \/ Found(c) \/ Looked(c)
      BY <1>7 DEF GivenUp, Found, Looked, On, batchVars, Keeps
<1>8. CASE Archived(c)
      BY <1>8 DEF Archived, On, batchVars, Keeps
<1>9. CASE Written(c) \/ Propagated(c) \/ Notified(c)
      BY <1>9 DEF Written, Propagated, Notified, On, SameRows, batchVars, Keeps
<1>10. CASE Collected(c) \/ OwnFound(c)
      BY <1>10 DEF Collected, OwnFound, On, batchVars, Keeps
<1>11. CASE OneWritten(c) \/ OwnWritten(c)
  <2>1. PICK t, o : OverallWritten(c, t, o)
        BY <1>11 DEF OneWritten, OwnWritten
  <2>2. \E from, to : On(c, from, to)
        BY <1>11 DEF OneWritten, OwnWritten
  <2>3. QED BY <2>1, <2>2 DEF OverallWritten, On, batchVars, Keeps
<1>12. QED
       BY <1>1, <1>2, <1>3, <1>4, <1>5, <1>6, <1>7, <1>8, <1>9, <1>10, <1>11 DEF Acts, Went

-----------------------------------------------------------------------------
(* What a call is about at each of its statements, and the transaction that *)
(* serves it.                                                              *)

\* The statements of an update after the first.
OnStep == {"write", "propagate", "affected", "overall", "ownRead", "ownWrite", "notify"}

Serves(c) ==
    /\ call[c].pc \in {"idle", "insertTracker", "insertSteps", "check"} \union OnStep =>
          tx[c].pc = "idle"
    /\ call[c].pc \in {"syncBatch", "syncInsert", "archive"} => tx[c].pc = "done"
    /\ call[c].pc # "allocating" => tx[c].pc \in {"idle", "done", "failed"}
    /\ call[c].pc = "allocating" => tx[c].pc # "idle"
    /\ call[c].pc = "idle" => call[c].kind = "step"
    /\ tx[c].pc # "idle" => tx[c].d = call[c].d
    /\ call[c].pc \in {"insertTracker", "insertSteps"} => call[c].kind = "create"
    /\ call[c].pc \in {"check", "allocating", "syncBatch", "syncInsert", "archive"} =>
          call[c].kind \in {"new", "paid", "more"}
    /\ call[c].pc \in {"check", "allocating"} /\ call[c].kind # "new" =>
          TrackersOf(call[c].d) # {}
    /\ call[c].pc \in OnStep =>
          call[c].kind = "step" /\ call[c].s \in DOMAIN steps /\ call[c].t = call[c].s.t
    /\ call[c].pc \in WithTracker =>
          call[c].t \in DOMAIN trackers /\ trackers[call[c].t].d = call[c].d
    /\ call[c].pc = "syncInsert" => call[c].n \in Numbers /\ call[c].n \notin call[c].batches
    /\ call[c].pc \in {"write", "propagate"} /\ call[c].from \in Final => call[c].to = call[c].from

ServesAll == \A c \in Calls : Serves(c)

\* A call that does nothing is served as it was.
LEMMA ServesKept ==
    ASSUME NEW c, NEW x \in Calls \ {c}, Keeps(c), Serves(x)
    PROVE  Serves(x)'
<1>1. call'[x] = call[x] /\ tx'[x] = tx[x]
      BY DEF Keeps, Others
<1>2. TrackersOf(call[x].d) # {} => TrackersOf(call[x].d)' # {}
  <2>1. SUFFICES ASSUME NEW t \in TrackersOf(call[x].d) PROVE t \in TrackersOf(call[x].d)'
        OBVIOUS
  <2>2. t \in DOMAIN trackers' /\ trackers'[t].d = call[x].d
        BY <2>1 DEF Keeps, TrackersOf
  <2>3. QED BY <1>1, <2>2 DEF TrackersOf
<1>3. QED BY <1>1, <1>2 DEF Serves, Keeps

LEMMA ServesStep ==
    ASSUME TrackersInv, ServesAll, NEW c \in Calls, Acts(c)
    PROVE  ServesAll'
<1>1. Keeps(c)
      BY ActsKeep
<1>2. \A x \in Calls \ {c} : Serves(x)'
      BY <1>1, ServesKept DEF ServesAll
<1>3. Serves(c) /\ call[c] \in Call /\ call[c].batches \subseteq Numbers
      BY DEF ServesAll, TrackersInv, TrackTypeOK, Call
<1>4. \A d : TrackersOf(d) # {} => \E t \in DOMAIN trackers' : trackers'[t].d = d
      BY <1>1 DEF TrackersOf, Keeps
<1>5. CASE Arrived(c)
  <2>1. tx[c].pc = "idle" /\ UNCHANGED <<trackers, steps>>
        BY <1>3, <1>5 DEF Arrived, Serves
  <2>2. TrackersOf(call'[c].d) # {} => TrackersOf(call[c].d)' # {}
        BY <2>1 DEF TrackersOf
  <2>3. Serves(c)'
        BY <1>5, <2>1, <2>2 DEF Arrived, Requested, batchVars, Serves, OnStep, WithTracker
  <2>4. QED BY <1>2, <2>3 DEF ServesAll
<1>6. CASE Transacted(c)
  <2>1. call' = call /\ trackers' = trackers /\ steps' = steps
        BY <1>6 DEF Transacted, trackVars
  <2>2. call[c].pc = "allocating"
        BY <1>3, <1>6 DEF Transacted, Serves, InTx
  <2>3. TrackersOf(call[c].d)' = TrackersOf(call[c].d)
        BY <2>1 DEF TrackersOf
  <2>4. Serves(c)'
        BY <1>3, <1>6, <2>1, <2>2, <2>3 DEF Transacted, Serves, InTx, OnStep, WithTracker
  <2>5. QED BY <1>2, <2>4 DEF ServesAll
<1>7. CASE Died(c)
  <2>1. Serves(c)'
        BY <1>3, <1>7 DEF Died, On, batchVars, Serves, OnStep, WithTracker
  <2>2. QED BY <1>2, <2>1 DEF ServesAll
<1>8. CASE TrackerInserted(c)
  <2>1. Serves(c)'
        BY <1>3, <1>8 DEF TrackerInserted, On, batchVars, Serves, OnStep, WithTracker
  <2>2. QED BY <1>2, <2>1 DEF ServesAll
<1>9. CASE StepsInserted(c) \/ GivenUp(c) \/ Archived(c) \/ Notified(c)
  <2>1. Serves(c)'
        BY <1>3, <1>9 DEF StepsInserted, GivenUp, Archived, Notified, On, batchVars, Serves,
           OnStep, WithTracker
  <2>2. QED BY <1>2, <2>1 DEF ServesAll
<1>10. CASE Checked(c)
  <2>1. TrackersOf(call[c].d) # {} => TrackersOf(call[c].d)' # {}
        BY <1>10 DEF Checked, On, TrackersOf
  <2>2. Serves(c)'
        BY <1>3, <1>10, <2>1 DEF Checked, On, Requested, batchVars, Serves, OnStep, WithTracker
  <2>3. QED BY <1>2, <2>2 DEF ServesAll
<1>11. CASE Found(c)
  <2>1. Serves(c)'
        BY <1>3, <1>11 DEF Found, On, batchVars, Serves, OnStep, WithTracker, TrackersOf
  <2>2. QED BY <1>2, <2>1 DEF ServesAll
<1>12. CASE Looked(c)
  <2>1. Serves(c)'
        BY <1>3, <1>12 DEF Looked, On, batchVars, Serves, OnStep, WithTracker
  <2>2. QED BY <1>2, <2>1 DEF ServesAll
<1>13. CASE SetInserted(c)
  <2>1. Serves(c)'
        BY <1>3, <1>13 DEF SetInserted, On, batchVars, Serves, OnStep, WithTracker
  <2>2. QED BY <1>2, <2>1 DEF ServesAll
<1>14. CASE Written(c) \/ Propagated(c)
  <2>1. Serves(c)'
        BY <1>3, <1>14 DEF Written, Propagated, SameStep, SameRows, On, batchVars, Serves, OnStep,
           WithTracker
  <2>2. QED BY <1>2, <2>1 DEF ServesAll
<1>15. CASE Collected(c) \/ OneWritten(c) \/ OwnFound(c)
  <2>1. Serves(c)'
        BY <1>3, <1>15 DEF Collected, OneWritten, OverallWritten, OwnFound, SameStep, On, batchVars,
           Serves, OnStep, WithTracker
  <2>2. QED BY <1>2, <2>1 DEF ServesAll
<1>16. CASE OwnWritten(c)
  <2>1. Serves(c)'
        BY <1>3, <1>16 DEF OwnWritten, OverallWritten, SameStep, On, batchVars, Serves, OnStep,
           WithTracker
  <2>2. QED BY <1>2, <2>1 DEF ServesAll
<1>17. QED
       BY <1>5, <1>6, <1>7, <1>8, <1>9, <1>10, <1>11, <1>12, <1>13, <1>14, <1>15, <1>16
       DEF Acts, Went

-----------------------------------------------------------------------------
(* Every row is inserted once, by the call it names, with its whole set.   *)

\* The rows of a call are of batches it is through with.
RowOf(i, r) ==
    /\ r.pc \notin {"idle", "insertTracker", "insertSteps", "check", "allocating"}
    /\ r.pc \in {"syncBatch", "syncInsert"} => i.batch \notin r.batches
    /\ r.pc = "syncInsert" => i.batch # r.n

NotYet == \A i \in DOMAIN steps : i.by # Nobody => RowOf(i, call[i.by])

\* The rows of a batch are never archived, and there is one for every step.
Whole == \A i \in DOMAIN steps : i.batch # 0 =>
            ~steps[i].archived /\ \A k \in Keys : [i EXCEPT !.key = k] \in DOMAIN steps

\* The rows of one set.
LEMMA StepSetRows ==
    ASSUME NEW t, NEW n, NEW by
    PROVE  /\ \A i \in StepSet(t, n, by) : i.t = t /\ i.batch = n /\ i.by = by
           /\ \A i \in StepSet(t, n, by), k \in Keys : [i EXCEPT !.key = k] \in StepSet(t, n, by)
           /\ \A k \in Keys : [t |-> t, batch |-> n, key |-> k, by |-> by] \in StepSet(t, n, by)
BY DEF StepSet

\* A call inserts rows that are not there, under its own name; nobody else does.
LEMMA RowsFresh ==
    ASSUME TrackersInv, NotYet, NEW c \in Calls
    PROVE  /\ call[c].pc = "insertSteps" =>
                 \A i \in StepSet(call[c].t, 0, c) : i \notin DOMAIN steps
           /\ call[c].pc = "syncInsert" =>
                 \A i \in StepSet(call[c].t, call[c].n, c) : i \notin DOMAIN steps
<1>1. c # Nobody
      BY BatchAssumption
<1>2. QED BY <1>1, StepSetRows DEF NotYet, RowOf

LEMMA RowsBy ==
    ASSUME NEW c \in Calls, Acts(c)
    PROVE  /\ \A i \in DOMAIN steps' : i \in DOMAIN steps \/ i.by = c
           /\ StepsInserted(c) \/ SetInserted(c) \/ DOMAIN steps' = DOMAIN steps
<1>1. CASE StepsInserted(c) \/ SetInserted(c)
      BY <1>1, StepSetRows DEF StepsInserted, SetInserted, Inserted
<1>2. CASE OneWritten(c) \/ OwnWritten(c)
      BY <1>2 DEF OneWritten, OwnWritten, OverallWritten
<1>3. CASE ~(StepsInserted(c) \/ SetInserted(c) \/ OneWritten(c) \/ OwnWritten(c))
      BY <1>3 DEF Acts, Went, Arrived, Transacted, trackVars, Died, TrackerInserted,
         Checked, GivenUp, Found, Looked, Archived, Written, Propagated, SameRows, Collected,
         OwnFound, Notified
<1>4. QED BY <1>1, <1>2, <1>3

LEMMA NotYetStep ==
    ASSUME TrackersInv, ServesAll, NotYet, NEW c \in Calls, Acts(c)
    PROVE  NotYet'
<1>1. Keeps(c) /\ c # Nobody
      BY ActsKeep, BatchAssumption
<1>2. \A i \in DOMAIN steps' : i \in DOMAIN steps \/ i.by = c
      BY RowsBy
<1>3. \A i \in DOMAIN steps : i.by \in Calls \union {Nobody}
      BY DEF TrackersInv, TrackTypeOK, StepId
<1>4. SUFFICES ASSUME NEW i \in DOMAIN steps', i.by = c PROVE RowOf(i, call'[c])
  <2>1. SUFFICES ASSUME NEW i \in DOMAIN steps', i.by # Nobody PROVE RowOf(i, call'[i.by])
        BY DEF NotYet, RowOf
  <2>2. CASE i.by = c
        BY <1>4, <2>2
  <2>3. CASE i.by # c
        BY <1>1, <1>2, <1>3, <2>1, <2>3 DEF NotYet, Keeps, Others
  <2>4. QED BY <2>2, <2>3
<1>5. i \in DOMAIN steps => RowOf(i, call[c])
      BY <1>1, <1>4 DEF NotYet
<1>6. CASE StepsInserted(c)
      BY <1>6 DEF StepsInserted, On, RowOf
<1>7. CASE SetInserted(c)
  <2>1. call'[c].pc = "syncBatch" /\ call'[c].batches = call[c].batches
          /\ call[c].pc = "syncInsert" /\ call[c].n \notin call[c].batches
        BY <1>7 DEF SetInserted, On, ServesAll, Serves
  <2>2. i \in DOMAIN steps \/ i.batch = call[c].n
        BY <1>4, <1>7, StepSetRows DEF SetInserted, Inserted
  <2>3. QED BY <1>5, <2>1, <2>2 DEF RowOf
<1>8. CASE i \in DOMAIN steps /\ Went(c)
  <2>1. RowOf(i, call[c])
        BY <1>5, <1>8
  <2>2. CASE Looked(c)
        BY <2>1, <2>2 DEF Looked, On, RowOf
  <2>3. CASE Written(c) \/ Propagated(c) \/ Collected(c) \/ OneWritten(c) \/ OwnFound(c)
               \/ OwnWritten(c) \/ Notified(c)
        BY <2>1, <2>3 DEF Written, Propagated, Collected, OneWritten, OwnFound, OwnWritten, Notified,
           On, RowOf
  <2>4. CASE TrackerInserted(c) \/ StepsInserted(c) \/ Checked(c) \/ GivenUp(c) \/ Found(c)
               \/ Archived(c)
        BY <2>1, <2>4 DEF TrackerInserted, StepsInserted, Checked, GivenUp, Found, Archived, On,
           RowOf
  <2>5. QED BY <1>7, <1>8, <2>2, <2>3, <2>4 DEF Went
<1>9. CASE i \in DOMAIN steps /\ Died(c)
       BY <1>9 DEF Died, On, RowOf
<1>10. CASE Transacted(c)
       BY <1>4, <1>5, <1>10 DEF Transacted, trackVars
<1>11. CASE Arrived(c)
       BY <1>4, <1>5, <1>11 DEF Arrived, RowOf
<1>12. i \in DOMAIN steps \/ StepsInserted(c) \/ SetInserted(c)
       BY <1>4, RowsBy
<1>13. QED
       BY <1>6, <1>7, <1>8, <1>9, <1>10, <1>11, <1>12 DEF Acts

\* What happens to a row that is there: it may be archived, by a call that replaces
\* placeholders, and its status may be written.
LEMMA RowsKept ==
    ASSUME TrackersInv, NotYet, NEW c \in Calls, Acts(c), NEW i \in DOMAIN steps
    PROVE  /\ i \in DOMAIN steps'
           /\ steps[i].archived => steps'[i].archived
           /\ ~Archived(c) \/ i.batch # 0 => (steps'[i].archived <=> steps[i].archived)
           /\ ~Written(c) /\ ~Propagated(c) => steps'[i].status = steps[i].status
<1>1. CASE StepsInserted(c) \/ SetInserted(c)
  <2>1. steps'[i] = steps[i] /\ i \in DOMAIN steps'
        BY <1>1, RowsFresh DEF StepsInserted, SetInserted, Inserted, On
  <2>2. QED BY <2>1
<1>2. CASE Archived(c)
      BY <1>2 DEF Archived, OfBatch
<1>3. CASE Written(c) \/ Propagated(c) \/ Notified(c)
      BY <1>3 DEF Written, Propagated, Notified, SameRows
<1>4. CASE OneWritten(c) \/ OwnWritten(c)
      BY <1>4 DEF OneWritten, OwnWritten, OverallWritten
<1>5. CASE Arrived(c) \/ Transacted(c) \/ Died(c) \/ TrackerInserted(c) \/ Checked(c) \/ GivenUp(c)
             \/ Found(c) \/ Looked(c) \/ Collected(c) \/ OwnFound(c)
      BY <1>5 DEF Arrived, Transacted, trackVars, Died, TrackerInserted, Checked, GivenUp, Found,
         Looked, Collected, OwnFound
<1>6. QED BY <1>1, <1>2, <1>3, <1>4, <1>5 DEF Acts, Went

LEMMA WholeStep ==
    ASSUME TrackersInv, NotYet, Whole, NEW c \in Calls, Acts(c)
    PROVE  Whole'
<1> SUFFICES ASSUME NEW i \in DOMAIN steps', i.batch # 0
             PROVE  ~steps'[i].archived /\ \A k \in Keys : [i EXCEPT !.key = k] \in DOMAIN steps'
    BY DEF Whole
<1>1. CASE i \in DOMAIN steps
      BY <1>1, RowsKept, ActsKeep DEF Whole, Keeps
<1>2. CASE i \notin DOMAIN steps
  <2>1. PICK n : Inserted(StepSet(call[c].t, n, c)) /\ i \in StepSet(call[c].t, n, c)
        BY <1>2, RowsBy DEF StepsInserted, SetInserted, Inserted
  <2>2. steps'[i] = NewStep /\ ~NewStep.archived
        BY <2>1 DEF Inserted, NewStep
  <2>3. \A k \in Keys : [i EXCEPT !.key = k] \in DOMAIN steps'
        BY <2>1, StepSetRows DEF Inserted
  <2>4. QED BY <2>2, <2>3
<1>3. QED BY <1>1, <1>2

\* A final status is overwritten by nobody but a call that updates that very row.
LEMMA FinalStep ==
    ASSUME TrackersInv, ServesAll, NotYet, NEW c \in Calls, Acts(c), NEW i \in DOMAIN steps,
           steps[i].status \in Final, steps'[i].status # steps[i].status
    PROVE  call[c].pc = "write" /\ call[c].s = i
<1>1. Written(c) \/ Propagated(c)
      BY RowsKept
<1>2. CASE Written(c)
      BY <1>2 DEF Written, On
<1>3. CASE Propagated(c)
  <2>1. steps[i].status = call[c].from /\ steps'[i].status = call[c].to /\ call[c].pc = "propagate"
        BY <1>3 DEF Propagated, On
  <2>2. QED BY <2>1 DEF ServesAll, Serves
<1>4. QED BY <1>1, <1>2, <1>3

-----------------------------------------------------------------------------
(* Allocations that are committed are followed by sets of steps.           *)

\* Tracker t has rows of batch n.
Has(t, n) == \E i \in DOMAIN steps : i.t = t /\ i.batch = n

\* An allocation is for the donation its transaction is for.
RowsServe == \A a \in rows : tx[a.by].pc # "idle" /\ a.d = tx[a.by].d

\* A batch allocated is still to be looked at, has its rows or gets them next.
SyncedFor(a, r) ==
    /\ r.pc \in {"syncBatch", "syncInsert", "archive"} =>
          a.n \in r.batches \/ Has(r.t, a.n) \/ (r.pc = "syncInsert" /\ r.n = a.n)
    /\ r.pc = "archive" => Has(r.t, a.n)
    /\ r.pc = "over" /\ r.kind \in {"paid", "more"} => \E t \in TrackersOf(a.d) : Has(t, a.n)

Synced == \A a \in Committed : SyncedFor(a, call[a.by])

LEMMA RowsServeStep ==
    ASSUME TrackersInv, ServesAll, RowsServe, NEW c \in Calls, Acts(c)
    PROVE  RowsServe'
<1>1. CASE Transacted(c)
      BY <1>1 DEF Transacted, RowsServe, InTx, TrackersInv, BatchInv, BatchTypeOK, Allocation
<1>2. ASSUME NEW d, Requested(c, d) PROVE RowsServe'
      BY <1>2 DEF Requested, RowsServe, TrackersInv, BatchInv, BatchTypeOK, Allocation
<1>3. ASSUME UNCHANGED batchVars PROVE RowsServe'
      BY <1>3 DEF batchVars, RowsServe
<1>4. CASE Died(c)
      BY <1>3, <1>4 DEF Died, RowsServe, TrackersInv, BatchInv, BatchTypeOK, Allocation
<1>5. CASE Arrived(c)
      BY <1>2, <1>3, <1>5 DEF Arrived
<1>6. CASE Checked(c)
      BY <1>2, <1>3, <1>6 DEF Checked
<1>7. CASE Went(c) /\ ~Checked(c)
  <2>1. CASE OneWritten(c) \/ OwnWritten(c)
        BY <1>3, <2>1 DEF OneWritten, OwnWritten, OverallWritten
  <2>2. CASE ~(OneWritten(c) \/ OwnWritten(c))
        BY <1>3, <1>7, <2>2 DEF Went, TrackerInserted, StepsInserted, GivenUp, Found, Looked,
           SetInserted, Archived, Written, Propagated, Collected, OwnFound, Notified
  <2>3. QED BY <2>1, <2>2
<1>8. QED BY <1>1, <1>4, <1>5, <1>6, <1>7 DEF Acts

\* What is committed stays so; more is committed by the call that acts, and only while
\* it allocates.
LEMMA CommittedOf ==
    ASSUME TrackersInv, ServesAll, NEW c \in Calls, Acts(c), NEW a \in Committed'
    PROVE  /\ a.by \in Calls
           /\ a.by # c => a \in Committed
           /\ a.by = c => \/ a \in Committed /\ Went(c) /\ UNCHANGED batchVars
                          \/ call'[c].pc \in {"allocating", "dead"}
<1>1. a \in rows' /\ tx'[a.by].pc = "done"
      BY DEF Committed
<1>2. rows \subseteq Allocation /\ \A b \in rows : b.by \in Calls
      BY DEF TrackersInv, BatchInv, BatchTypeOK, Allocation
<1>3. a \in rows \/ a.by = c
  <2>1. CASE OneWritten(c) \/ OwnWritten(c)
        BY <1>1, <2>1 DEF OneWritten, OwnWritten, OverallWritten, batchVars
  <2>2. CASE ~(OneWritten(c) \/ OwnWritten(c))
        BY <1>1, <2>2 DEF Acts, Arrived, Requested, Transacted, Died, Went, TrackerInserted,
           StepsInserted, Checked, GivenUp, Found, Looked, SetInserted, Archived, Written, Propagated,
           Collected, OwnFound, Notified, batchVars
  <2>3. QED BY <2>1, <2>2
<1>4. \A x \in Calls \ {c} : tx'[x] = tx[x]
      BY ActsKeep DEF Keeps
<1>5. a.by # c => a \in Committed
      BY <1>1, <1>2, <1>3, <1>4 DEF Committed
<1>6. ASSUME a.by = c
      PROVE  \/ a \in Committed /\ Went(c) /\ UNCHANGED batchVars
             \/ call'[c].pc \in {"allocating", "dead"}
  <2>1. CASE Arrived(c)
    <3>1. tx[c].pc = "idle"
          BY <2>1 DEF Arrived, ServesAll, Serves
    <3>2. tx'[c].pc \in {"idle", "select"}
          BY <2>1, <3>1 DEF Arrived, Requested, batchVars
    <3>3. QED BY <1>1, <1>6, <3>2
  <2>2. CASE Transacted(c)
        BY <2>2 DEF Transacted, trackVars, ServesAll, Serves, InTx
  <2>3. CASE Died(c)
        BY <2>3 DEF Died, On
  <2>4. CASE Checked(c) /\ ~UNCHANGED batchVars
    <3>1. tx'[c].pc = "select"
          BY <2>4 DEF Checked, Requested
    <3>2. QED BY <1>1, <1>6, <3>1
  <2>5. CASE Went(c) /\ UNCHANGED batchVars
        BY <1>1, <2>5 DEF Committed, batchVars
  <2>6. Went(c) => Checked(c) \/ UNCHANGED batchVars
    <3>1. CASE OneWritten(c) \/ OwnWritten(c)
          BY <3>1 DEF OneWritten, OwnWritten, OverallWritten
    <3>2. CASE ~(OneWritten(c) \/ OwnWritten(c))
          BY <3>2 DEF Went, TrackerInserted, StepsInserted, GivenUp, Found, Looked, SetInserted,
             Archived, Written, Propagated, Collected, OwnFound, Notified
    <3>3. QED BY <3>1, <3>2
  <2>7. QED BY <2>1, <2>2, <2>3, <2>4, <2>5, <2>6 DEF Acts
<1>7. QED BY <1>2, <1>3, <1>5, <1>6

\* Rows and trackers stay.
LEMMA HasKept ==
    ASSUME NEW c \in Calls, Acts(c)
    PROVE  /\ \A t, n : Has(t, n) => Has(t, n)'
           /\ \A d, n : (\E t \in TrackersOf(d) : Has(t, n)) => \E t \in TrackersOf(d)' : Has(t, n)'
<1>1. Keeps(c)
      BY ActsKeep
<1>2. \A t, n : Has(t, n) => Has(t, n)'
      BY <1>1 DEF Keeps, Has
<1>3. \A d : \A t \in TrackersOf(d) : t \in TrackersOf(d)'
      BY <1>1 DEF Keeps, TrackersOf
<1>4. QED BY <1>2, <1>3

LEMMA SyncedStep ==
    ASSUME TrackersInv, ServesAll, RowsServe, Synced, NEW c \in Calls, Acts(c)
    PROVE  Synced'
<1> SUFFICES ASSUME NEW a \in Committed' PROVE SyncedFor(a, call[a.by])'
    BY DEF Synced
<1>1. Keeps(c)
      BY ActsKeep
<1>2. CASE a.by # c
  <2>1. a \in Committed /\ call'[a.by] = call[a.by]
        BY <1>1, <1>2, CommittedOf DEF Keeps, Others
  <2>2. SyncedFor(a, call[a.by])
        BY <2>1 DEF Synced
  <2>3. QED BY <2>1, <2>2, HasKept DEF SyncedFor
<1>3. CASE call'[a.by].pc \in {"allocating", "dead"}
      BY <1>3 DEF SyncedFor
<1>4. CASE a.by = c /\ a \in Committed /\ Went(c)
  <2>1. /\ tx[c].pc = "done" /\ a.d = tx[c].d /\ tx[c].d = call[c].d
        /\ a.n \in Numbers /\ SyncedFor(a, call[c])
        BY <1>4 DEF Committed, RowsServe, ServesAll, Serves, Synced, TrackersInv, BatchInv,
           BatchTypeOK, Allocation
  <2>2. call[c].pc \notin {"idle", "insertTracker", "insertSteps", "check"} \union OnStep
        BY <2>1 DEF ServesAll, Serves
  <2>3. CASE GivenUp(c)
    <3>1. call[c].kind = "new" /\ call'[c].kind = "new"
          BY <2>1, <2>3 DEF GivenUp, On, ServesAll, Serves
    <3>2. QED BY <1>4, <2>3, <3>1 DEF GivenUp, On, SyncedFor
  <2>4. CASE Found(c)
        BY <1>4, <2>1, <2>4 DEF Found, On, SyncedFor
  <2>5. CASE Looked(c)
    <3>1. UNCHANGED <<trackers, steps>> /\ call[c].pc = "syncBatch" /\ call'[c].t = call[c].t
          BY <2>5 DEF Looked, On
    <3>2. a.n \in call[c].batches \/ Has(call[c].t, a.n)
          BY <2>1, <3>1 DEF SyncedFor
    <3>3. Has(call[c].t, a.n) => Has(call[c].t, a.n)'
          BY <3>1 DEF Has
    <3>4. CASE On(c, "syncBatch", "archive") /\ call[c].batches = {}
          BY <1>4, <3>2, <3>3, <3>4 DEF On, SyncedFor
    <3>5. ASSUME NEW n \in call[c].batches, call'[c].batches = call[c].batches \ {n},
                 On(c, "syncBatch", "syncBatch"), OfBatch(call[c].t, n) # {}
          PROVE  SyncedFor(a, call[a.by])'
      <4>1. Has(call[c].t, n)
            BY <3>5 DEF OfBatch, Active, Has
      <4>2. QED BY <1>4, <3>2, <3>3, <3>5, <4>1 DEF On, SyncedFor
    <3>6. ASSUME NEW n \in call[c].batches, call'[c].batches = call[c].batches \ {n},
                 On(c, "syncBatch", "syncInsert"), call'[c].n = n
          PROVE  SyncedFor(a, call[a.by])'
          BY <1>4, <3>2, <3>3, <3>6 DEF On, SyncedFor
    <3>7. QED BY <2>5, <3>4, <3>5, <3>6 DEF Looked
  <2>6. CASE SetInserted(c)
    <3>1. \E i \in DOMAIN steps' : i.t = call[c].t /\ i.batch = call[c].n
      <4>1. PICK k \in Keys : TRUE
            BY TrackerAssumption
      <4> DEFINE i == [t |-> call[c].t, batch |-> call[c].n, key |-> k, by |-> c]
      <4>2. i \in StepSet(call[c].t, call[c].n, c)
            BY <4>1, StepSetRows
      <4>3. i \in DOMAIN steps' /\ i.t = call[c].t /\ i.batch = call[c].n
            BY <2>6, <4>2 DEF SetInserted, Inserted
      <4>4. QED BY <4>3
    <3>2. a.n \in call[c].batches \/ Has(call[c].t, a.n) \/ call[c].n = a.n
          BY <2>1, <2>6 DEF SetInserted, On, SyncedFor
    <3>3. a.n \in call'[c].batches \/ \E i \in DOMAIN steps' : i.t = call'[c].t /\ i.batch = a.n
          BY <1>1, <2>6, <3>1, <3>2 DEF SetInserted, Has, Keeps
    <3>4. QED BY <1>4, <2>6, <3>3 DEF SetInserted, On, SyncedFor, Has
  <2>7. CASE Archived(c)
    <3>1. Has(call[c].t, a.n) /\ call[c].t \in TrackersOf(a.d)
          BY <2>1, <2>7 DEF Archived, On, SyncedFor, ServesAll, Serves, WithTracker, TrackersOf
    <3>2. \E t \in TrackersOf(a.d)' : Has(t, a.n)'
          BY <3>1, HasKept
    <3>3. QED BY <1>4, <2>7, <3>2 DEF Archived, On, SyncedFor
  <2>8. QED
        BY <1>4, <2>2, <2>3, <2>4, <2>5, <2>6, <2>7 DEF Went, TrackerInserted, StepsInserted, Checked,
           Written, Propagated, Collected, OneWritten, OwnFound, OwnWritten, Notified, On, OnStep,
           ServesAll, Serves
<1>5. QED BY <1>2, <1>3, <1>4, CommittedOf

-----------------------------------------------------------------------------
(* One set of steps is inserted twice only by calls that overlap.          *)

\* The placeholders of a tracker come from one call.
OnePlaceholder ==
    /\ \A i, j \in DOMAIN steps : i.batch = 0 /\ j.batch = 0 /\ i.t = j.t => i.by = j.by
    /\ \A c \in Calls : call[c].pc = "insertSteps" =>
          /\ ~Has(call[c].t, 0)
          /\ \A x \in Calls : call[x].pc = "insertSteps" /\ call[x].t = call[c].t => x = c

\* Calls that run at the same time for one donation have been noted, and so has a set
\* that is inserted a second time.
Overlaps ==
    \A c, x \in Calls : c # x /\ Running(c) /\ Running(x) /\ call[c].d = call[x].d =>
        call[c].d \in overlapped

Again ==
    \A c \in Calls : call[c].pc = "syncInsert" /\ Has(call[c].t, call[c].n) =>
        call[c].d \in overlapped

TwinsOverlap == \A i, j \in DOMAIN steps : Twins(i, j) => trackers[i.t].d \in overlapped

LEMMA PlaceholderStep ==
    ASSUME TrackersInv, ServesAll, OnePlaceholder, NEW c \in Calls, Acts(c)
    PROVE  OnePlaceholder'
<1>1. Keeps(c)
      BY ActsKeep
<1>2. \A x \in Calls : call[x].pc = "insertSteps" => call[x].t \in DOMAIN trackers
      BY DEF TrackersInv, Refs, WithTracker
<1>3. \A i \in DOMAIN steps : i.t \in DOMAIN trackers
      BY DEF TrackersInv, Refs
<1>4. CASE StepsInserted(c)
  <2> DEFINE t == call[c].t
  <2>1. /\ call[c].pc = "insertSteps" /\ call'[c].pc = "over"
        /\ DOMAIN steps' = DOMAIN steps \union StepSet(t, 0, c)
        BY <1>4 DEF StepsInserted, On, Inserted
  <2>2. ~Has(t, 0) /\ \A x \in Calls : call[x].pc = "insertSteps" /\ call[x].t = t => x = c
        BY <2>1 DEF OnePlaceholder
  <2>3. \A i \in DOMAIN steps' : i \in DOMAIN steps \/ (i.t = t /\ i.batch = 0 /\ i.by = c)
        BY <2>1, StepSetRows
  <2>4. \A i \in DOMAIN steps : i.batch = 0 => i.t # t
        BY <2>2 DEF Has
  <2>5. \A i, j \in DOMAIN steps' : i.batch = 0 /\ j.batch = 0 /\ i.t = j.t => i.by = j.by
        BY <2>3, <2>4 DEF OnePlaceholder
  <2>6. ASSUME NEW x \in Calls, call'[x].pc = "insertSteps"
        PROVE  x # c /\ call[x].pc = "insertSteps" /\ call'[x] = call[x]
        BY <1>1, <2>1, <2>6 DEF Keeps, Others
  <2>7. ASSUME NEW x \in Calls, call'[x].pc = "insertSteps"
        PROVE  \A i \in DOMAIN steps' : ~(i.t = call'[x].t /\ i.batch = 0)
        BY <2>2, <2>3, <2>6, <2>7 DEF OnePlaceholder, Has
  <2>8. QED BY <2>5, <2>6, <2>7 DEF OnePlaceholder, Has
<1>5. CASE SetInserted(c)
  <2>1. /\ call'[c].pc = "syncBatch" /\ call[c].n # 0
        /\ DOMAIN steps' = DOMAIN steps \union StepSet(call[c].t, call[c].n, c)
        BY <1>5 DEF SetInserted, On, Inserted, ServesAll, Serves, Numbers
  <2>2. \A i \in DOMAIN steps' : i.batch = 0 => i \in DOMAIN steps
        BY <2>1, StepSetRows
  <2>3. \A x \in Calls : call'[x].pc = "insertSteps" => call'[x] = call[x]
        BY <1>1, <2>1 DEF Keeps, Others
  <2>4. QED BY <2>2, <2>3 DEF OnePlaceholder, Has
<1>6. CASE TrackerInserted(c)
  <2> DEFINE t == call'[c].t
  <2>1. t \notin DOMAIN trackers /\ steps' = steps
        BY <1>6 DEF TrackerInserted
  <2>2. \A x \in Calls \ {c} : call'[x] = call[x]
        BY <1>1 DEF Keeps, Others
  <2>3. ASSUME NEW x \in Calls, call'[x].pc = "insertSteps"
        PROVE  /\ \A i \in DOMAIN steps' : ~(i.t = call'[x].t /\ i.batch = 0)
               /\ \A y \in Calls : call'[y].pc = "insertSteps" /\ call'[y].t = call'[x].t => y = x
    <3>1. CASE x = c
          BY <1>2, <1>3, <2>1, <2>2, <3>1
    <3>2. CASE x # c
          BY <1>2, <2>1, <2>2, <2>3, <3>2 DEF OnePlaceholder, Has
    <3>3. QED BY <3>1, <3>2
  <2>4. QED BY <2>1, <2>3 DEF OnePlaceholder, Has
<1>7. CASE ~StepsInserted(c) /\ ~SetInserted(c) /\ ~TrackerInserted(c)
  <2>1. DOMAIN steps' = DOMAIN steps
        BY <1>7, RowsBy
  <2>2. call'[c].pc = "insertSteps" => call'[c] = call[c]
    <3>1. CASE OneWritten(c) \/ OwnWritten(c)
          BY <3>1 DEF OneWritten, OwnWritten, On
    <3>2. CASE ~(OneWritten(c) \/ OwnWritten(c))
          BY <1>7, <3>2 DEF Acts, Arrived, Transacted, trackVars, Died, Went, Checked, GivenUp,
             Found, Looked, Archived, Written, Propagated, Collected, OwnFound, Notified, On
    <3>3. QED BY <3>1, <3>2
  <2>3. \A x \in Calls : call'[x].pc = "insertSteps" => call'[x] = call[x]
        BY <1>1, <2>2 DEF Keeps, Others
  <2>4. QED BY <2>1, <2>3 DEF OnePlaceholder, Has
<1>8. QED BY <1>4, <1>5, <1>6, <1>7

\* A call that goes on keeps its kind and its donation, and its notes stay.
LEMMA Goes ==
    ASSUME NEW c \in Calls, Acts(c), ~Arrived(c)
    PROVE  /\ Running(c) \/ call' = call
           /\ call'[c].kind = call[c].kind /\ call'[c].d = call[c].d
           /\ overlapped' = overlapped /\ raced' = raced
<1>1. CASE Transacted(c)
      BY <1>1 DEF Transacted, trackVars
<1>2. CASE Died(c)
      BY <1>2 DEF Died, On
<1>3. CASE OneWritten(c) \/ OwnWritten(c)
      BY <1>3 DEF OneWritten, OwnWritten, On, Running
<1>4. CASE Went(c) /\ ~(OneWritten(c) \/ OwnWritten(c))
      BY <1>4 DEF Went, TrackerInserted, StepsInserted, Checked, GivenUp, Found, Looked, SetInserted,
         Archived, Written, Propagated, Collected, OwnFound, Notified, On, Running
<1>5. QED BY <1>1, <1>2, <1>3, <1>4 DEF Acts

LEMMA OverlapsStep ==
    ASSUME Overlaps, NEW c \in Calls, Acts(c)
    PROVE  Overlaps'
<1>1. Keeps(c)
      BY ActsKeep
<1>2. CASE Arrived(c)
  <2>1. \A x \in Calls \ {c} : Running(x) /\ call[x].d = call'[c].d => call'[c].d \in overlapped'
        BY <1>2 DEF Arrived
  <2>2. QED BY <1>1, <2>1 DEF Keeps, Others, Overlaps, Running
<1>3. CASE ~Arrived(c)
  <2>1. \A x \in Calls : Running(x)' => Running(x) /\ call'[x].d = call[x].d
        BY <1>1, <1>3, Goes DEF Keeps, Others, Running
  <2>2. QED BY <1>1, <2>1 DEF Keeps, Overlaps
<1>4. QED BY <1>2, <1>3

LEMMA AgainStep ==
    ASSUME TrackersInv, ServesAll, Whole, Overlaps, Again, NEW c \in Calls, Acts(c)
    PROVE  Again'
<1>1. Keeps(c)
      BY ActsKeep
<1> SUFFICES ASSUME NEW x \in Calls, call'[x].pc = "syncInsert",
                    \E i \in DOMAIN steps' : i.t = call'[x].t /\ i.batch = call'[x].n
             PROVE  call'[x].d \in overlapped'
    BY DEF Again, Has
<1>2. CASE x = c
  <2>1. Looked(c) \/ (Transacted(c) /\ call' = call /\ steps' = steps)
    <3>1. CASE OneWritten(c) \/ OwnWritten(c)
          BY <1>2, <3>1 DEF OneWritten, OwnWritten, On
    <3>2. CASE ~(OneWritten(c) \/ OwnWritten(c))
          BY <1>2, <3>2 DEF Acts, Arrived, Transacted, trackVars, Died, Went, TrackerInserted,
             StepsInserted, Checked, GivenUp, Found, SetInserted, Archived, Written, Propagated,
             Collected, OwnFound, Notified, On
    <3>3. QED BY <3>1, <3>2
  <2>2. CASE Looked(c)
    <3>1. /\ OfBatch(call[c].t, call'[c].n) = {} /\ steps' = steps /\ call'[c].t = call[c].t
          /\ call'[c].n \in call[c].batches
          BY <1>2, <2>2 DEF Looked, On
    <3>2. call'[c].n # 0
          BY <3>1 DEF TrackersInv, TrackTypeOK, Call, Numbers
    <3>3. QED BY <1>2, <3>1, <3>2 DEF OfBatch, Active, Whole
  <2>3. CASE call' = call /\ steps' = steps
        BY <1>1, <2>3 DEF Again, Has, Keeps
  <2>4. QED BY <2>1, <2>2, <2>3
<1>3. CASE x # c
  <2>1. call'[x] = call[x] /\ Running(x) /\ call[x].n # 0 /\ trackers[call[x].t].d = call[x].d
        BY <1>1, <1>3 DEF Keeps, Others, Running, ServesAll, Serves, WithTracker, Numbers
  <2>2. PICK i \in DOMAIN steps' : i.t = call[x].t /\ i.batch = call[x].n
        BY <2>1
  <2>3. CASE i \in DOMAIN steps
        BY <1>1, <2>1, <2>2, <2>3 DEF Again, Has, Keeps
  <2>4. CASE StepsInserted(c) /\ i \notin DOMAIN steps
        BY <2>1, <2>2, <2>4, StepSetRows DEF StepsInserted, Inserted
  <2>5. CASE SetInserted(c) /\ i \notin DOMAIN steps
    <3>1. i.t = call[c].t /\ call[c].pc = "syncInsert"
          BY <2>5, StepSetRows DEF SetInserted, Inserted, On
    <3>2. Running(c) /\ trackers[call[c].t].d = call[c].d
          BY <3>1 DEF Running, ServesAll, Serves, WithTracker
    <3>3. call[x].d \in overlapped
          BY <1>3, <2>1, <2>2, <3>1, <3>2 DEF Overlaps
    <3>4. QED BY <1>1, <2>1, <3>3 DEF Keeps
  <2>6. QED BY <2>3, <2>4, <2>5, RowsBy
<1>4. QED BY <1>2, <1>3

LEMMA TwinsStep ==
    ASSUME TrackersInv, ServesAll, NotYet, OnePlaceholder, Again, TwinsOverlap,
           NEW c \in Calls, Acts(c)
    PROVE  TwinsOverlap'
<1>1. Keeps(c)
      BY ActsKeep
<1> SUFFICES ASSUME NEW i \in DOMAIN steps', NEW j \in DOMAIN steps', i # j,
                    ~steps'[i].archived, ~steps'[j].archived,
                    i.t = j.t, i.batch = j.batch, i.key = j.key
             PROVE  trackers'[i.t].d \in overlapped'
    BY DEF TwinsOverlap, Twins
<1>2. CASE i \in DOMAIN steps /\ j \in DOMAIN steps
  <2>1. ~steps[i].archived /\ ~steps[j].archived
        BY <1>2, RowsKept
  <2>2. trackers[i.t].d \in overlapped /\ i.t \in DOMAIN trackers
        BY <1>2, <2>1 DEF TwinsOverlap, Twins, TrackersInv, Refs
  <2>3. QED BY <1>1, <2>2 DEF Keeps
<1>3. CASE StepsInserted(c) /\ ~(i \in DOMAIN steps /\ j \in DOMAIN steps)
  <2>1. call[c].pc = "insertSteps" /\ DOMAIN steps' = DOMAIN steps \union StepSet(call[c].t, 0, c)
        BY <1>3 DEF StepsInserted, Inserted, On
  <2>2. \A k \in DOMAIN steps : ~(k.t = call[c].t /\ k.batch = 0)
        BY <2>1 DEF OnePlaceholder, Has
  <2>3. i \in StepSet(call[c].t, 0, c) /\ j \in StepSet(call[c].t, 0, c)
        BY <1>3, <2>1, <2>2, StepSetRows
  <2>4. QED BY <2>3 DEF StepSet
<1>4. CASE SetInserted(c) /\ ~(i \in DOMAIN steps /\ j \in DOMAIN steps)
  <2> DEFINE ids == StepSet(call[c].t, call[c].n, c)
  <2>1. call[c].pc = "syncInsert" /\ DOMAIN steps' = DOMAIN steps \union ids
        BY <1>4 DEF SetInserted, Inserted, On
  <2>2. i.t = call[c].t /\ i.batch = call[c].n
        BY <1>4, <2>1, StepSetRows
  <2>3. ~(i \in ids /\ j \in ids)
        BY DEF StepSet
  <2>4. Has(call[c].t, call[c].n)
        BY <2>1, <2>2, <2>3 DEF Has
  <2>5. call[c].d \in overlapped /\ trackers[call[c].t].d = call[c].d /\ call[c].t \in DOMAIN trackers
        BY <2>1, <2>4 DEF Again, ServesAll, Serves, WithTracker
  <2>6. QED BY <1>1, <2>2, <2>5 DEF Keeps
<1>5. QED BY <1>2, <1>3, <1>4, RowsBy

-----------------------------------------------------------------------------
(* Placeholders give way to the steps of batches.                          *)

Mixed(t) == \E i, j \in Active(t) : i.batch = 0 /\ j.batch # 0

\* A tracker that shows both has a call that will see to it, one that died, or one that
\* inserted placeholders.
Replaces(r, t) ==
    /\ r.d = trackers[t].d
    /\ \/ r.pc = "dead"
       \/ r.kind = "create"
       \/ r.t = t /\ r.pc \in {"syncBatch", "syncInsert", "archive"}

Replacing == \A t \in DOMAIN trackers : Mixed(t) => \E c \in Calls : Replaces(call[c], t)

\* The rows of a tracker that counted before, and those that count now.
LEMMA ActiveKept ==
    ASSUME TrackersInv, NotYet, NEW c \in Calls, Acts(c), NEW t
    PROVE  \A i \in Active(t)' : i \in DOMAIN steps => i \in Active(t)
BY RowsKept DEF Active

LEMMA ReplacingStep ==
    ASSUME TrackersInv, ServesAll, NotYet, Replacing, NEW c \in Calls, Acts(c)
    PROVE  Replacing'
<1>1. Keeps(c)
      BY ActsKeep
<1> SUFFICES ASSUME NEW t \in DOMAIN trackers', NEW i \in Active(t)', NEW j \in Active(t)',
                    i.batch = 0, j.batch # 0
             PROVE  \E x \in Calls : Replaces(call[x], t)'
    BY DEF Replacing, Mixed
<1>2. i \in DOMAIN steps' /\ j \in DOMAIN steps' /\ i.t = t /\ j.t = t
        /\ ~steps'[i].archived /\ ~steps'[j].archived
      BY DEF Active
<1>3. CASE i \in DOMAIN steps /\ j \in DOMAIN steps
  <2>1. i \in Active(t) /\ j \in Active(t) /\ t \in DOMAIN trackers
        BY <1>2, <1>3, ActiveKept DEF TrackersInv, Refs
  <2>2. PICK x \in Calls : Replaces(call[x], t)
        BY <2>1 DEF Replacing, Mixed
  <2>3. CASE x # c
    <3>1. call'[x] = call[x]
          BY <1>1, <2>3 DEF Keeps, Others
    <3>2. Replaces(call[x], t)'
          BY <1>1, <2>1, <2>2, <3>1 DEF Replaces, Keeps
    <3>3. QED BY <3>2
  <2>4. CASE x = c
    <3>1. ~Arrived(c)
          BY <2>2, <2>4 DEF Replaces, Arrived, ServesAll, Serves
    <3>2. call'[c].kind = call[c].kind /\ call'[c].d = call[c].d /\ (Running(c) \/ call' = call)
          BY <3>1, Goes
    <3>3. CASE call[c].pc = "dead" \/ call[c].kind = "create" \/ call' = call
      <4>1. Replaces(call[c], t)'
            BY <1>1, <2>1, <2>2, <2>4, <3>2, <3>3 DEF Replaces, Keeps, Running
      <4>2. QED BY <4>1
    <3>4. CASE call[c].t = t /\ call[c].pc \in {"syncBatch", "syncInsert", "archive"}
      <4>1. CASE Archived(c)
        <5>1. j \in OfBatch(t, j.batch) /\ i \in OfBatch(t, 0)
              BY <2>1 DEF OfBatch
        <5>2. j.batch \in Numbers
              BY <1>3 DEF TrackersInv, TrackTypeOK, StepId
        <5>3. QED BY <1>2, <1>3, <3>4, <4>1, <5>1, <5>2 DEF Archived
      <4>2. CASE Died(c)
        <5>1. Replaces(call[c], t)'
              BY <1>1, <2>1, <2>2, <2>4, <3>2, <4>2 DEF Replaces, Keeps, Died, On
        <5>2. QED BY <5>1
      <4>3. CASE Looked(c) \/ SetInserted(c)
        <5>1. Replaces(call[c], t)'
              BY <1>1, <2>1, <2>2, <2>4, <3>2, <3>4, <4>3 DEF Replaces, Keeps, Looked, SetInserted, On
        <5>2. QED BY <5>1
      <4>4. CASE Transacted(c)
            BY <3>3, <4>4 DEF Transacted, trackVars
      <4>5. QED
            BY <3>1, <3>4, <4>1, <4>2, <4>3, <4>4 DEF Acts, Went, TrackerInserted, StepsInserted,
               Checked, GivenUp, Found, Written, Propagated, Collected, OneWritten, OwnFound,
               OwnWritten, Notified, On
    <3>5. QED BY <2>2, <2>4, <3>3, <3>4 DEF Replaces
  <2>5. QED BY <2>3, <2>4
<1>4. CASE StepsInserted(c) /\ ~(i \in DOMAIN steps /\ j \in DOMAIN steps)
  <2>1. t = call[c].t /\ call[c].pc = "insertSteps" /\ call'[c].kind = call[c].kind
          /\ call'[c].d = call[c].d
        BY <1>2, <1>4, StepSetRows DEF StepsInserted, Inserted, On
  <2>2. call[c].kind = "create" /\ t \in DOMAIN trackers /\ trackers[t].d = call[c].d
        BY <2>1 DEF ServesAll, Serves, WithTracker
  <2>3. Replaces(call[c], t)'
        BY <1>1, <2>1, <2>2 DEF Replaces, Keeps
  <2>4. QED BY <2>3
<1>5. CASE SetInserted(c) /\ ~(i \in DOMAIN steps /\ j \in DOMAIN steps)
  <2>1. t = call[c].t /\ call[c].pc = "syncInsert" /\ call'[c].d = call[c].d
          /\ call'[c].t = t /\ call'[c].pc = "syncBatch"
        BY <1>2, <1>5, StepSetRows DEF SetInserted, Inserted, On
  <2>2. t \in DOMAIN trackers /\ trackers[t].d = call[c].d
        BY <2>1 DEF ServesAll, Serves, WithTracker
  <2>3. Replaces(call[c], t)'
        BY <1>1, <2>1, <2>2 DEF Replaces, Keeps
  <2>4. QED BY <2>3
<1>6. QED BY <1>2, <1>3, <1>4, <1>5, RowsBy

-----------------------------------------------------------------------------
(* The overall statuses.                                                   *)

\* deriveOverallStatus of a set of statuses.
Sum(st) ==
    IF st = {"cancelled"} THEN "cancelled"
    ELSE IF st # {} /\ st \subseteq {"completed", "skipped"} THEN "completed"
    ELSE IF st \intersect {"in_progress", "completed"} # {} THEN "in_progress"
    ELSE "pending"

LEMMA DerivedSum == \A t : Derived(t) = Sum({steps[i].status : i \in Active(t)})
BY DEF Derived, Sum

\* The status is the same as long as the same rows count, with the same statuses.
LEMMA DerivedSame ==
    ASSUME NEW t, \A i : i \in Active(t)' <=> i \in Active(t),
           \A i \in Active(t) : steps'[i].status = steps[i].status
    PROVE  Derived(t)' = Derived(t)
<1> DEFINE st == {steps[i].status : i \in Active(t)}
<1>1. st' = st
      OBVIOUS
<1>2. Derived(t) = Sum(st) /\ Derived(t)' = Sum(st')
      BY DEF Derived, Sum
<1> HIDE DEF st
<1>3. QED BY <1>1, <1>2

\* Statuses of rows that are all pending, or of none, add up to pending.
LEMMA DerivedPending ==
    ASSUME \A i \in DOMAIN steps : steps[i] \in Step
    PROVE  \A t : (\A i \in Active(t) : steps[i].status = "pending") => Derived(t) = "pending"
<1> SUFFICES ASSUME NEW t, \A i \in Active(t) : steps[i].status = "pending"
             PROVE  Derived(t) = "pending"
    OBVIOUS
<1> DEFINE st == {steps[i].status : i \in Active(t)}
<1>1. st \subseteq {"pending"}
      OBVIOUS
<1>2. Derived(t) = Sum(st)
      BY DEF Derived, Sum
<1> HIDE DEF st
<1>3. QED BY <1>1, <1>2 DEF Sum

\* Nothing runs beside an update, unless calls have raced.
Alone ==
    \A c, x \in Calls : c # x /\ Running(c) /\ Running(x) => call[c].pc \notin OnStep

\* A tracker whose placeholders are still to be inserted has nothing but pending rows.
Bare ==
    \A c \in Calls : call[c].pc = "insertSteps" =>
        \A i \in DOMAIN steps : i.t = call[c].t => steps[i].status = "pending"

\* What an update has read is still what the steps add up to.
FoundRight ==
    \A c \in Calls :
        /\ call[c].pc = "overall" => \A t, o : <<t, o>> \in call[c].found => o = Derived(t)
        /\ call[c].pc = "ownWrite" => call[c].found = {<<call[c].t, Derived(call[c].t)>>}

\* The update of call r has still to write the overall status of t.
Due(r, t) ==
    \/ r.pc \in {"propagate", "affected", "overall", "ownRead", "ownWrite"} /\ t = r.t
    \/ r.pc = "affected" /\ OfBatch(t, r.s.batch) # {}
    \/ r.pc = "overall" /\ <<t, Derived(t)>> \in r.found

Right(t) == trackers[t].overall = Derived(t) \/ \E c \in Calls : Due(call[c], t)

Honest ==
    ~raced =>
        /\ Alone /\ Bare /\ FoundRight
        /\ (\A c \in Calls : call[c].pc # "dead") => \A t \in DOMAIN trackers \ grown : Right(t)

\* Updates neither race with what runs nor go unnoticed.
LEMMA AloneStep ==
    ASSUME ServesAll, Alone, NEW c \in Calls, Acts(c), ~raced', ServesAll'
    PROVE  Alone'
<1>1. Keeps(c) /\ \A x \in Calls \ {c} : call'[x] = call[x]
      BY ActsKeep DEF Keeps, Others
<1>2. \A x \in Calls : call'[x].pc \in OnStep => call'[x].kind = "step"
      BY DEF ServesAll, Serves
<1>3. CASE Arrived(c)
  <2>1. \A x \in Calls : Running(x) => call'[c].kind # "step" /\ call[x].kind # "step"
        BY <1>3 DEF Arrived
  <2>2. ~Running(c)
        BY <1>3 DEF Arrived, Running
  <2>3. QED BY <1>1, <1>2, <2>1, <2>2 DEF Alone, Running
<1>4. CASE ~Arrived(c)
  <2>1. Running(c)' => Running(c)
        BY <1>4, Goes DEF Running
  <2>2. call'[c].pc \in OnStep => call[c].pc \in OnStep
    <3>1. CASE OneWritten(c) \/ OwnWritten(c)
          BY <3>1 DEF OneWritten, OwnWritten, On, OnStep
    <3>2. CASE ~(OneWritten(c) \/ OwnWritten(c))
          BY <1>4, <3>2 DEF Acts, Transacted, trackVars, Died, Went, TrackerInserted, StepsInserted,
             Checked, GivenUp, Found, Looked, SetInserted, Archived, Written, Propagated, Collected,
             OwnFound, Notified, On, OnStep
    <3>3. QED BY <3>1, <3>2
  <2>3. QED BY <1>1, <2>1, <2>2 DEF Alone, Running
<1>5. QED BY <1>3, <1>4

\* Only an update of another call writes statuses, and none runs.
LEMMA BareStep ==
    ASSUME TrackersInv, ServesAll, NotYet, Alone, Bare, NEW c \in Calls, Acts(c)
    PROVE  Bare'
<1>1. Keeps(c) /\ \A x \in Calls \ {c} : call'[x] = call[x]
      BY ActsKeep DEF Keeps, Others
<1> SUFFICES ASSUME NEW x \in Calls, call'[x].pc = "insertSteps",
                    NEW i \in DOMAIN steps', i.t = call'[x].t
             PROVE  steps'[i].status = "pending"
    BY DEF Bare
<1>2. CASE i \notin DOMAIN steps
  <2>1. steps'[i] = NewStep
        BY <1>2, RowsBy DEF StepsInserted, SetInserted, Inserted
  <2>2. QED BY <2>1 DEF NewStep
<1>3. CASE i \in DOMAIN steps /\ TrackerInserted(c)
  <2>1. x # c
        BY <1>3 DEF TrackerInserted, TrackersInv, Refs
  <2>2. QED BY <1>1, <1>3, <2>1 DEF TrackerInserted, Bare
<1>4. CASE i \in DOMAIN steps /\ ~TrackerInserted(c)
  <2>1. call'[x] = call[x]
    <3>1. CASE OneWritten(c) \/ OwnWritten(c)
          BY <1>1, <3>1 DEF OneWritten, OwnWritten, On
    <3>2. CASE ~(OneWritten(c) \/ OwnWritten(c))
          BY <1>1, <1>4, <3>2 DEF Acts, Arrived, Transacted, trackVars, Died, Went, StepsInserted,
             Checked, GivenUp, Found, Looked, SetInserted, Archived, Written, Propagated, Collected,
             OwnFound, Notified, On
    <3>3. QED BY <3>1, <3>2
  <2>2. steps[i].status = "pending" /\ Running(x) /\ call[x].pc = "insertSteps"
        BY <1>4, <2>1 DEF Bare, Running
  <2>3. Written(c) \/ Propagated(c) => x # c /\ Running(c) /\ call[c].pc \in OnStep
        BY <2>2 DEF Written, Propagated, On, Running, OnStep
  <2>4. ~Written(c) /\ ~Propagated(c)
        BY <2>2, <2>3 DEF Alone
  <2>5. QED BY <1>4, <2>2, <2>4, RowsKept
<1>5. QED BY <1>2, <1>3, <1>4

\* What leaves the sum of a tracker's steps as it is.
LEMMA DerivedSteps ==
    ASSUME TrackersInv, NotYet, NEW c \in Calls, Acts(c), NEW t
    PROVE  /\ ~StepsInserted(c) /\ ~SetInserted(c) /\ ~Archived(c) /\ ~Written(c) /\ ~Propagated(c) =>
                 Derived(t)' = Derived(t)
           /\ (StepsInserted(c) \/ SetInserted(c) \/ Archived(c)) /\ t # call[c].t =>
                 Derived(t)' = Derived(t)
           /\ Written(c) /\ t # call[c].s.t => Derived(t)' = Derived(t)
           /\ Propagated(c) /\ OfBatch(t, call[c].s.batch) = {} => Derived(t)' = Derived(t)
<1>1. CASE ~StepsInserted(c) /\ ~SetInserted(c) /\ ~Archived(c)
  <2>1. \A i : i \in Active(t)' <=> i \in Active(t)
        BY <1>1, RowsBy, RowsKept DEF Active
  <2>2. \A i \in Active(t) : i \in DOMAIN steps /\ i.t = t /\ ~steps[i].archived
        BY DEF Active
  <2>3. ASSUME ~Written(c), ~Propagated(c) PROVE Derived(t)' = Derived(t)
    <3>1. \A i \in Active(t) : steps'[i].status = steps[i].status
          BY <2>2, <2>3, RowsKept
    <3>2. QED BY <2>1, <3>1, DerivedSame
  <2>4. ASSUME Written(c), t # call[c].s.t PROVE Derived(t)' = Derived(t)
    <3>1. \A i \in Active(t) : steps'[i].status = steps[i].status
          BY <2>2, <2>4 DEF Written
    <3>2. QED BY <2>1, <3>1, DerivedSame
  <2>5. ASSUME Propagated(c), OfBatch(t, call[c].s.batch) = {} PROVE Derived(t)' = Derived(t)
    <3>1. \A i \in Active(t) : i \notin Siblings(call[c].s)
          BY <2>5 DEF Siblings, OfBatch
    <3>2. \A i \in Active(t) : steps'[i].status = steps[i].status
          BY <2>2, <2>5, <3>1 DEF Propagated
    <3>3. QED BY <2>1, <3>2, DerivedSame
  <2>6. QED BY <1>1, <2>3, <2>4, <2>5
<1>2. CASE (StepsInserted(c) \/ SetInserted(c)) /\ t # call[c].t
  <2>1. PICK n : Inserted(StepSet(call[c].t, n, c)) /\ \A i \in StepSet(call[c].t, n, c) : i.t # t
        BY <1>2, StepSetRows DEF StepsInserted, SetInserted
  <2>2. \A i \in DOMAIN steps' : i.t = t => i \in DOMAIN steps
        BY <2>1 DEF Inserted
  <2>3. \A i \in DOMAIN steps : i.t = t => i \in DOMAIN steps' /\ steps'[i] = steps[i]
        BY <2>1 DEF Inserted
  <2>4. (\A i : i \in Active(t)' <=> i \in Active(t))
          /\ \A i \in Active(t) : steps'[i].status = steps[i].status
        BY <2>2, <2>3 DEF Active
  <2>5. Derived(t)' = Derived(t)
        BY <2>4, DerivedSame
  <2>6. QED
        BY <1>2, <2>5 DEF StepsInserted, SetInserted, Archived, Written, Propagated, On
<1>3. CASE Archived(c) /\ t # call[c].t
  <2>1. (\A i : i \in Active(t)' <=> i \in Active(t))
          /\ \A i \in Active(t) : steps'[i].status = steps[i].status
        BY <1>3 DEF Archived, Active, OfBatch
  <2>2. Derived(t)' = Derived(t)
        BY <2>1, DerivedSame
  <2>3. QED
        BY <1>3, <2>2 DEF StepsInserted, SetInserted, Archived, Written, Propagated, On
<1>4. CASE (StepsInserted(c) \/ SetInserted(c) \/ Archived(c)) /\ t = call[c].t
  <2>1. ~Written(c) /\ ~Propagated(c)
        BY <1>4 DEF StepsInserted, SetInserted, Archived, Written, Propagated, On
  <2>2. QED BY <1>4, <2>1
<1>5. QED BY <1>1, <1>2, <1>3, <1>4

\* A tracker whose sum another set of steps has changed is set apart.
LEMMA Grown ==
    ASSUME TrackersInv, NotYet, NEW c \in Calls, Acts(c), SetInserted(c) \/ Archived(c),
           NEW t, t \notin grown'
    PROVE  t \notin grown /\ Derived(t)' = Derived(t)
<1>1. Grow(call[c].t)
      BY DEF SetInserted, Archived
<1>2. PICK x \in {call[c].t} : grown' = IF Derived(x)' = Derived(x) THEN grown ELSE grown \union {x}
      BY <1>1 DEF Grow
<1>3. t \notin grown
      BY <1>2
<1>4. CASE t = call[c].t
  <2>1. t = x
        BY <1>2, <1>4
  <2>2. Derived(x)' = Derived(x)
        BY <1>2, <2>1
  <2>3. QED BY <1>3, <2>1, <2>2
<1>5. CASE t # call[c].t
      BY <1>3, <1>5, DerivedSteps
<1>6. QED BY <1>4, <1>5

\* No call but c is on an update while c runs; none runs while c is on one.
LEMMA AloneFacts ==
    ASSUME Alone, NEW c \in Calls, Running(c), NEW x \in Calls \ {c}
    PROVE  call[x].pc \notin OnStep /\ (call[c].pc \in OnStep => ~Running(x))
<1>1. call[x].pc \in OnStep => Running(x)
      BY DEF OnStep, Running
<1>2. QED BY <1>1 DEF Alone

LEMMA FoundRightStep ==
    ASSUME TrackersInv, ServesAll, NotYet, Alone, FoundRight, NEW c \in Calls, Acts(c)
    PROVE  FoundRight'
<1>1. \A x \in Calls \ {c} : call'[x] = call[x]
      BY ActsKeep DEF Keeps, Others
<1> DEFINE R(x) == /\ call'[x].pc = "overall" => \A t, o : <<t, o>> \in call'[x].found => o = Derived(t)'
                   /\ call'[x].pc = "ownWrite" =>
                         \A t \in {call'[x].t} : call'[x].found = {<<t, Derived(t)'>>}
<1>2. ASSUME NEW x \in Calls \ {c} PROVE R(x)
  <2>1. CASE ~Running(c)
    <3>1. Arrived(c) \/ Transacted(c)
          BY <2>1, Goes DEF Acts, Died, Went, TrackerInserted, StepsInserted, Checked, GivenUp,
             Found, Looked, SetInserted, Archived, Written, Propagated, Collected, OneWritten,
             OwnFound, OwnWritten, Notified, On, Running
    <3>2. steps' = steps
          BY <3>1 DEF Arrived, Transacted, trackVars
    <3>3. \A t : Derived(t)' = Derived(t)
          BY <3>2 DEF Derived, Active
    <3>4. QED BY <1>1, <3>3 DEF FoundRight
  <2>2. CASE Running(c)
    <3>1. call'[x].pc \notin OnStep
          BY <1>1, <2>2, AloneFacts
    <3>2. QED BY <3>1 DEF OnStep
  <2>3. QED BY <2>1, <2>2
<1>3. R(c)
  <2>1. CASE Arrived(c)
        BY <2>1 DEF Arrived
  <2>2. CASE Transacted(c)
    <3>1. call' = call /\ steps' = steps
          BY <2>2 DEF Transacted, trackVars
    <3>2. \A t : Derived(t)' = Derived(t)
          BY <3>1 DEF Derived, Active
    <3>3. QED BY <3>1, <3>2 DEF FoundRight
  <2>3. CASE Died(c)
        BY <2>3 DEF Died, On
  <2>4. CASE Collected(c) \/ OwnFound(c)
    <3>1. steps' = steps /\ call'[c].t = call[c].t
          BY <2>4 DEF Collected, OwnFound, SameStep
    <3>2. \A t : Derived(t)' = Derived(t)
          BY <3>1 DEF Derived, Active
    <3>3. CASE Collected(c)
          BY <3>2, <3>3 DEF Collected, On
    <3>4. CASE OwnFound(c)
          BY <3>1, <3>2, <3>4 DEF OwnFound, On
    <3>5. QED BY <2>4, <3>3, <3>4
  <2>5. CASE OneWritten(c)
    <3>1. steps' = steps
          BY <2>5 DEF OneWritten, OverallWritten
    <3>2. \A t : Derived(t)' = Derived(t)
          BY <3>1 DEF Derived, Active
    <3>3. call'[c].pc = "overall" => call[c].pc = "overall" /\ call'[c].found \subseteq call[c].found
          BY <2>5 DEF OneWritten, On
    <3>4. call'[c].pc # "ownWrite"
          BY <2>5 DEF OneWritten, On
    <3>5. QED BY <3>2, <3>3, <3>4 DEF FoundRight
  <2>6. CASE Went(c) /\ ~Collected(c) /\ ~OwnFound(c) /\ ~OneWritten(c)
    <3>1. call'[c].pc \notin {"overall", "ownWrite"}
          BY <2>6 DEF Went, TrackerInserted, StepsInserted, Checked, GivenUp, Found, Looked, SetInserted,
             Archived, Written, Propagated, OwnWritten, Notified, On
    <3>2. QED BY <3>1
  <2>7. QED BY <2>1, <2>2, <2>3, <2>4, <2>5, <2>6 DEF Acts
<1>4. \A x \in Calls : R(x)
      BY <1>2, <1>3
<1>5. QED BY <1>4 DEF FoundRight

\* A call that is not on an update has nothing to write.
LEMMA DueOnStep == \A r, t : Due(r, t) => r.pc \in OnStep
BY DEF Due, OnStep

\* Every tracker's overall status is right, or is still to be written.
LEMMA RightStep ==
    ASSUME TrackersInv, ServesAll, NotYet, Alone, Bare, FoundRight, NEW c \in Calls, Acts(c),
           (\A x \in Calls : call[x].pc # "dead") => \A t \in DOMAIN trackers \ grown : Right(t),
           \A x \in Calls : call'[x].pc # "dead"
    PROVE  \A t \in DOMAIN trackers' \ grown' : Right(t)'
<1>1. Keeps(c) /\ \A x \in Calls \ {c} : call'[x] = call[x]
      BY ActsKeep DEF Keeps, Others
<1>2. \A t \in DOMAIN trackers \ grown : Right(t)
  <2>1. call[c].pc # "dead"
        BY Goes DEF Arrived, Running
  <2>2. QED BY <1>1, <2>1
<1> SUFFICES ASSUME NEW t \in DOMAIN trackers', t \notin grown' PROVE Right(t)'
    OBVIOUS
<1>3. CASE Arrived(c) \/ Transacted(c)
  <2>1. steps' = steps /\ trackers' = trackers /\ grown' = grown
        BY <1>3 DEF Arrived, Transacted, trackVars
  <2>2. Right(t)
        BY <1>2, <2>1
  <2>3. Derived(t)' = Derived(t) /\ \A n : OfBatch(t, n)' = OfBatch(t, n)
        BY <2>1 DEF Derived, OfBatch, Active
  <2>4. ASSUME NEW x \in Calls, Due(call[x], t) PROVE Due(call[x], t)'
    <3>1. call[x].pc # "idle"
          BY <2>4, DueOnStep DEF OnStep
    <3>2. call'[x] = call[x]
          BY <1>1, <1>3, <3>1 DEF Arrived, Transacted, trackVars
    <3>3. QED BY <2>3, <2>4, <3>2 DEF Due
  <2>5. QED BY <2>1, <2>2, <2>3, <2>4 DEF Right
<1>4. CASE Went(c) /\ call[c].pc \notin OnStep
  <2>1. Running(c)
        BY <1>4 DEF Went, TrackerInserted, StepsInserted, Checked, GivenUp, Found, Looked, SetInserted,
           Archived, Written, Propagated, Collected, OneWritten, OwnFound, OwnWritten, Notified, On,
           Running
  <2>2. \A x \in Calls : ~Due(call[x], t)
        BY <1>4, <2>1, AloneFacts, DueOnStep
  <2>3. t \in DOMAIN trackers /\ t \notin grown => trackers[t].overall = Derived(t)
        BY <1>2, <2>2 DEF Right
  <2>4. /\ ~Written(c) /\ ~Propagated(c) /\ ~Collected(c) /\ ~OneWritten(c) /\ ~OwnFound(c)
        /\ ~OwnWritten(c) /\ ~Notified(c)
        BY <1>4 DEF Written, Propagated, Collected, OneWritten, OwnFound, OwnWritten, Notified, On,
           OnStep
  <2>5. CASE TrackerInserted(c)
    <3>1. CASE t = call'[c].t
      <4>1. t \notin DOMAIN trackers /\ trackers'[t].overall = "pending" /\ steps' = steps
            BY <2>5, <3>1 DEF TrackerInserted
      <4>2. \A i \in Active(t) : FALSE
            BY <4>1 DEF Active, TrackersInv, Refs
      <4>3. Derived(t) = "pending"
            BY <4>2, DerivedPending DEF TrackersInv, TrackTypeOK
      <4>4. Derived(t)' = Derived(t)
            BY <4>1 DEF Derived, Active
      <4>5. QED BY <4>1, <4>3, <4>4 DEF Right
    <3>2. CASE t # call'[c].t
      <4>1. t \in DOMAIN trackers /\ trackers'[t] = trackers[t] /\ grown' = grown /\ steps' = steps
            BY <2>5, <3>2 DEF TrackerInserted
      <4>2. Derived(t)' = Derived(t)
            BY <4>1 DEF Derived, Active
      <4>3. QED BY <2>3, <4>1, <4>2 DEF Right
    <3>3. QED BY <3>1, <3>2
  <2>6. CASE StepsInserted(c)
    <3>1. trackers' = trackers /\ grown' = grown /\ trackers[t].overall = Derived(t)
          BY <2>3, <2>6 DEF StepsInserted
    <3>2. CASE t # call[c].t
      <4>1. Derived(t)' = Derived(t)
            BY <2>6, <3>2, DerivedSteps
      <4>2. QED BY <3>1, <4>1 DEF Right
    <3>3. CASE t = call[c].t
      <4>1. \A i \in DOMAIN steps : i.t = t => steps[i].status = "pending"
            BY <2>6, <3>3 DEF Bare, StepsInserted, On
      <4>2. \A i \in DOMAIN steps' : i.t = t => steps'[i].status = "pending"
        <5>1. NewStep.status = "pending"
              BY DEF NewStep
        <5>2. Inserted(StepSet(call[c].t, 0, c))
              BY <2>6 DEF StepsInserted
        <5>3. QED BY <4>1, <5>1, <5>2 DEF Inserted
      <4>3. Derived(t) = "pending"
        <5>1. \A i \in Active(t) : steps[i].status = "pending"
              BY <4>1 DEF Active
        <5>2. QED BY <5>1, DerivedPending DEF TrackersInv, TrackTypeOK
      <4>4. Derived(t)' = "pending"
        <5> DEFINE st == {steps[i].status : i \in Active(t)}
        <5>1. st' \subseteq {"pending"}
              BY <4>2 DEF Active
        <5>2. Derived(t)' = Sum(st')
              BY DEF Derived, Sum
        <5> HIDE DEF st
        <5>3. QED BY <5>1, <5>2 DEF Sum
      <4>5. QED BY <3>1, <4>3, <4>4 DEF Right
    <3>4. QED BY <3>2, <3>3
  <2>7. CASE SetInserted(c) \/ Archived(c)
    <3>1. t \notin grown /\ Derived(t)' = Derived(t)
          BY <2>7, Grown
    <3>2. trackers' = trackers
          BY <2>7 DEF SetInserted, Archived
    <3>3. QED BY <2>3, <3>1, <3>2 DEF Right
  <2>8. CASE Checked(c) \/ GivenUp(c) \/ Found(c) \/ Looked(c)
    <3>1. trackers' = trackers /\ grown' = grown /\ steps' = steps
          BY <2>8 DEF Checked, GivenUp, Found, Looked
    <3>2. Derived(t)' = Derived(t)
          BY <3>1 DEF Derived, Active
    <3>3. QED BY <2>3, <3>1, <3>2 DEF Right
  <2>9. QED BY <1>4, <2>4, <2>5, <2>6, <2>7, <2>8 DEF Went
<1>5. CASE Went(c) /\ call[c].pc \in OnStep
  <2>1. Running(c) /\ \A x \in Calls \ {c} : call[x].pc \notin OnStep
        BY <1>5, AloneFacts DEF Running, OnStep
  <2>2. \A x \in Calls \ {c} : ~Due(call[x], t)
        BY <2>1, DueOnStep
  <2>3. t \in DOMAIN trackers /\ t \notin grown =>
            trackers[t].overall = Derived(t) \/ Due(call[c], t)
        BY <1>2, <2>2 DEF Right
  <2>4. call[c].t = call[c].s.t
        BY <1>5 DEF ServesAll, Serves
  <2>5. SUFFICES trackers'[t].overall = Derived(t)' \/ Due(call[c], t)'
        BY DEF Right
  <2>6. CASE Written(c)
    <3>1. trackers' = trackers /\ grown' = grown /\ call[c].pc = "write" /\ call'[c].t = call[c].t
            /\ call'[c].pc \in {"propagate", "ownRead"}
          BY <2>6 DEF Written, SameStep, On
    <3>2. CASE t = call[c].t
          BY <3>1, <3>2 DEF Due
    <3>3. CASE t # call[c].t
      <4>1. Derived(t)' = Derived(t)
            BY <2>4, <2>6, <3>3, DerivedSteps
      <4>2. QED BY <2>3, <3>1, <4>1 DEF Due
    <3>4. QED BY <3>2, <3>3
  <2>7. CASE Propagated(c)
    <3>1. /\ trackers' = trackers /\ grown' = grown /\ call[c].pc = "propagate"
          /\ call'[c].t = call[c].t /\ call'[c].s = call[c].s /\ call'[c].pc = "affected" /\ SameRows
          BY <2>7 DEF Propagated, SameStep, On
    <3>2. OfBatch(t, call[c].s.batch)' = OfBatch(t, call[c].s.batch)
          BY <3>1 DEF SameRows, OfBatch, Active
    <3>3. CASE t = call[c].t \/ OfBatch(t, call[c].s.batch) # {}
          BY <3>1, <3>2, <3>3 DEF Due
    <3>4. CASE t # call[c].t /\ OfBatch(t, call[c].s.batch) = {}
      <4>1. Derived(t)' = Derived(t)
            BY <2>7, <3>4, DerivedSteps
      <4>2. QED BY <2>3, <3>1, <3>4, <4>1 DEF Due
    <3>5. QED BY <3>3, <3>4
  <2>8. CASE Collected(c)
    <3>1. /\ trackers' = trackers /\ grown' = grown /\ steps' = steps /\ call[c].pc = "affected"
          /\ call'[c].t = call[c].t /\ call'[c].pc = "overall"
          /\ call'[c].found = {<<u, Derived(u)>> :
                                  u \in {v \in DOMAIN trackers : OfBatch(v, call[c].s.batch) # {}}}
          BY <2>8 DEF Collected, SameStep, On
    <3>2. Derived(t)' = Derived(t)
          BY <3>1 DEF Derived, Active
    <3>3. QED BY <2>3, <3>1, <3>2 DEF Due
  <2>9. CASE OneWritten(c)
    <3>1. PICK u, o : /\ OverallWritten(c, u, o)
                      /\ \/ On(c, "overall", "overall") /\ call'[c].found = call[c].found \ {<<u, o>>}
                         \/ On(c, "overall", "ownRead") /\ call[c].found = {<<u, o>>}
          BY <2>9 DEF OneWritten
    <3>2. /\ call[c].pc = "overall" /\ call'[c].t = call[c].t /\ o = Derived(u) /\ steps' = steps
          /\ t \in DOMAIN trackers /\ grown' = grown \ {u}
          /\ trackers'[t].overall = IF t = u THEN o ELSE trackers[t].overall
          BY <2>9, <3>1 DEF OneWritten, OverallWritten, SameStep, On, FoundRight
    <3>3. Derived(t)' = Derived(t)
          BY <3>2 DEF Derived, Active
    <3>4. CASE t = u
          BY <3>2, <3>3, <3>4
    <3>5. CASE t # u
      <4>1. trackers[t].overall = Derived(t) \/ Due(call[c], t)
            BY <2>3, <3>2, <3>5
      <4>2. CASE Due(call[c], t)
            BY <3>1, <3>2, <3>3, <3>5, <4>2 DEF Due, On
      <4>3. CASE trackers[t].overall = Derived(t)
            BY <3>2, <3>3, <3>5, <4>3
      <4>4. QED BY <4>1, <4>2, <4>3
    <3>6. QED BY <3>4, <3>5
  <2>10. CASE OwnFound(c)
    <3>1. /\ trackers' = trackers /\ grown' = grown /\ steps' = steps /\ call[c].pc = "ownRead"
          /\ call'[c].t = call[c].t /\ call'[c].pc = "ownWrite"
          BY <2>10 DEF OwnFound, SameStep, On
    <3>2. Derived(t)' = Derived(t)
          BY <3>1 DEF Derived, Active
    <3>3. QED BY <2>3, <3>1, <3>2 DEF Due
  <2>11. CASE OwnWritten(c)
    <3>1. PICK u, o : OverallWritten(c, u, o)
          BY <2>11 DEF OwnWritten
    <3>2. call[c].pc = "ownWrite"
          BY <2>11 DEF OwnWritten, On
    <3>3. u = call[c].t /\ o = Derived(u)
          BY <3>1, <3>2 DEF FoundRight, OverallWritten
    <3>4. /\ t \in DOMAIN trackers /\ grown' = grown \ {u} /\ steps' = steps
          /\ trackers'[t].overall = IF t = u THEN o ELSE trackers[t].overall
          BY <3>1 DEF OverallWritten
    <3>5. Derived(t)' = Derived(t)
          BY <3>4 DEF Derived, Active
    <3>6. QED BY <2>3, <3>2, <3>3, <3>4, <3>5 DEF Due
  <2>12. CASE Notified(c)
    <3>1. trackers' = trackers /\ grown' = grown /\ call[c].pc = "notify"
          BY <2>12 DEF Notified, On
    <3>2. Derived(t)' = Derived(t)
          BY <2>12, DerivedSteps DEF Notified, StepsInserted, SetInserted, Archived, Written, Propagated,
             On
    <3>3. QED BY <2>3, <3>1, <3>2 DEF Due
  <2>13. QED
         BY <1>5, <2>6, <2>7, <2>8, <2>9, <2>10, <2>11, <2>12 DEF Went, TrackerInserted, StepsInserted,
            Checked, GivenUp, Found, Looked, SetInserted, Archived, On, OnStep
<1>6. ~Died(c)
      BY DEF Died, On
<1>7. QED BY <1>3, <1>4, <1>5, <1>6 DEF Acts

LEMMA HonestStep ==
    ASSUME TrackersInv, ServesAll, NotYet, Honest, NEW c \in Calls, Acts(c), ServesAll'
    PROVE  Honest'
<1> SUFFICES ASSUME ~raced'
             PROVE  /\ Alone' /\ Bare' /\ FoundRight'
                    /\ (\A x \in Calls : call'[x].pc # "dead") =>
                          \A t \in DOMAIN trackers' \ grown' : Right(t)'
    BY DEF Honest
<1>1. ~raced
      BY ActsKeep DEF Keeps
<1>2. /\ Alone /\ Bare /\ FoundRight
      /\ (\A x \in Calls : call[x].pc # "dead") => \A t \in DOMAIN trackers \ grown : Right(t)
      BY <1>1 DEF Honest
<1>3. Alone' /\ Bare' /\ FoundRight'
      BY <1>2, AloneStep, BareStep, FoundRightStep
<1>4. ASSUME \A x \in Calls : call'[x].pc # "dead"
      PROVE  \A t \in DOMAIN trackers' \ grown' : Right(t)'
      BY <1>2, <1>4, RightStep
<1>5. QED BY <1>3, <1>4

-----------------------------------------------------------------------------
\* What holds of calls, rows and trackers together.
FollowInv ==
    /\ TrackersInv
    /\ ServesAll /\ NotYet /\ Whole
    /\ RowsServe /\ Synced
    /\ OnePlaceholder /\ Overlaps /\ Again /\ TwinsOverlap
    /\ Replacing /\ Honest

LEMMA FollowInit == Init => FollowInv
<1> SUFFICES ASSUME Init PROVE FollowInv
    OBVIOUS
<1>1. \A c \in Calls : call[c].pc = "idle" /\ call[c].kind = "step"
      BY DEF Init, NoCall
<1>2. rows = {} /\ \A c \in Calls : tx[c].pc = "idle"
      BY DEF Init, BatchInit, NoTx
<1>3. /\ DOMAIN steps = UNION {StepSet(t, 0, Nobody) : t \in DOMAIN trackers}
      /\ \A i \in DOMAIN steps : steps[i] = NewStep
      BY DEF Init
<1>4. \A i \in DOMAIN steps : /\ i.batch = 0 /\ i.by = Nobody
                              /\ i = [t |-> i.t, batch |-> 0, key |-> i.key, by |-> Nobody]
      BY <1>3 DEF StepSet
<1>5. ServesAll
      BY <1>1, <1>2 DEF ServesAll, Serves, OnStep, WithTracker
<1>6. NotYet /\ Whole /\ RowsServe /\ Synced
      BY <1>2, <1>4 DEF NotYet, Whole, RowsServe, Synced, Committed
<1>7. OnePlaceholder /\ Overlaps /\ Again
      BY <1>1, <1>4 DEF OnePlaceholder, Overlaps, Again, Running
<1>8. TwinsOverlap
  <2>1. ASSUME NEW i \in DOMAIN steps, NEW j \in DOMAIN steps, i.t = j.t, i.key = j.key
        PROVE  i = j
        BY <1>4, <2>1
  <2>2. QED BY <2>1 DEF TwinsOverlap, Twins
<1>9. Replacing
      BY <1>4 DEF Replacing, Mixed, Active
<1>10. Honest
  <2>1. \A t \in DOMAIN trackers : trackers[t].overall = "pending"
        BY DEF Init
  <2>2. \A i \in DOMAIN steps : steps[i] \in Step /\ steps[i].status = "pending"
        BY <1>3, TrackTypeInit DEF TrackTypeOK, NewStep
  <2>3. \A t : Derived(t) = "pending"
        BY <2>2, DerivedPending DEF Active
  <2>4. QED BY <1>1, <2>1, <2>3 DEF Honest, Alone, Bare, FoundRight, Right, Running
<1>11. QED
       BY <1>5, <1>6, <1>7, <1>8, <1>9, <1>10, TrackersInit DEF FollowInv

\* A step changes nothing, or is the act of a call.
LEMMA FollowStep == FollowInv /\ [Next]_allVars => FollowInv'
<1> SUFFICES ASSUME FollowInv, [Next]_allVars PROVE FollowInv'
    OBVIOUS
<1>1. TrackersInv'
      BY TrackersStep DEF FollowInv
<1>2. CASE UNCHANGED allVars
  <2>1. UNCHANGED <<rows, tx, trackers, steps, call, overlapped, raced, grown>>
        BY <1>2 DEF allVars, batchVars, trackVars
  <2>2. /\ \A d : TrackersOf(d)' = TrackersOf(d)
        /\ \A t : Active(t)' = Active(t) /\ Derived(t)' = Derived(t)
        /\ \A t, n : OfBatch(t, n)' = OfBatch(t, n) /\ (Has(t, n)' <=> Has(t, n))
        /\ Committed' = Committed
        /\ \A i, j : Twins(i, j)' <=> Twins(i, j)
        BY <2>1 DEF TrackersOf, Active, Derived, OfBatch, Has, Committed, Twins
  <2>3. ServesAll'
        BY <2>1, <2>2 DEF FollowInv, ServesAll, Serves
  <2>4. NotYet' /\ Whole' /\ RowsServe'
        BY <2>1 DEF FollowInv, NotYet, RowOf, Whole, RowsServe
  <2>5. Synced'
        BY <2>1, <2>2 DEF FollowInv, Synced, SyncedFor
  <2>6. OnePlaceholder' /\ Overlaps' /\ Again' /\ TwinsOverlap'
        BY <2>1, <2>2 DEF FollowInv, OnePlaceholder, Overlaps, Again, TwinsOverlap, Running
  <2>7. Replacing'
        BY <2>1, <2>2 DEF FollowInv, Replacing, Replaces, Mixed
  <2>8. Honest'
        BY <2>1, <2>2 DEF FollowInv, Honest, Alone, Bare, FoundRight, Right, Due, Running
  <2>9. QED BY <1>1, <2>3, <2>4, <2>5, <2>6, <2>7, <2>8 DEF FollowInv
<1>3. ASSUME NEW c \in Calls, Acts(c) PROVE FollowInv'
  <2>1. ServesAll'
        BY <1>3, ServesStep DEF FollowInv
  <2>2. NotYet' /\ Whole' /\ RowsServe' /\ Synced'
        BY <1>3, NotYetStep, WholeStep, RowsServeStep, SyncedStep DEF FollowInv
  <2>3. OnePlaceholder' /\ Overlaps' /\ Again' /\ TwinsOverlap'
        BY <1>3, PlaceholderStep, OverlapsStep, AgainStep, TwinsStep DEF FollowInv
  <2>4. Replacing' /\ Honest'
        BY <1>3, <2>1, ReplacingStep, HonestStep DEF FollowInv
  <2>5. QED BY <1>1, <2>1, <2>2, <2>3, <2>4 DEF FollowInv
<1>4. QED BY <1>2, <1>3, Effects DEF FollowInv

\* The batches stay sound with the trackers around them, and every tracker, part and step
\* refers to what there is (TrackersInv).
THEOREM TrackersKept == Spec => []TrackersInv
BY TrackersInit, TrackersStep, PTL DEF Spec

\* Every variable of trackers and batches is of its type, and no row refers to a
\* tracker that is not there.
THEOREM TrackersTyped == Spec => []TypeOK
<1>1. TrackersInv => TypeOK
      BY DEF TrackersInv, TrackTypeOK, BatchInv, Refs, TypeOK
<1>2. QED BY <1>1, TrackersKept, PTL

\* No part of a batch is given to two allocations, whichever payments, extra requests
\* and step updates run side by side, fail or die.
THEOREM TrackersDisjoint == Spec => []PartsDisjoint
<1>1. TrackersInv => PartsDisjoint
      BY InvDisjoint DEF TrackersInv
<1>2. QED BY <1>1, TrackersKept, PTL

\* What a reader sees of the batches adds up: the parts counted are the parts
\* allocated, a closed batch is full, and the numbers have no gap.
THEOREM TrackersTally == Spec => []BatchesTally
<1>1. TrackersInv => BatchesTally
      BY InvTally DEF TrackersInv
<1>2. QED BY <1>1, TrackersKept, PTL

\* The parts handed out under the trackers are handed out as PartAllocation promises:
\* whatever the calls around them do, a request gets all its parts in one step or none.
THEOREM TrackersAllocate == Spec => AllocatesParts
<1>1. Init => AllocInv /\ Parts!Init
      BY AllocInit DEF Init
<1>2. TrackersInv /\ AllocInv /\ [Next]_allVars => AllocInv'
      BY TrackerCases, AllocInvStep DEF TrackersInv, BatchInv
<1>3. TrackersInv /\ AllocInv /\ AllocInv' /\ [Next]_allVars => [Parts!Next]_(Parts!vars)
      BY TrackerCases, PartsStep DEF TrackersInv, BatchInv
<1>4. QED BY <1>1, <1>2, <1>3, TrackersKept, PTL DEF Spec, AllocatesParts, Parts!Spec

\* The steps of a tracker follow the rows of its batches, and its status its steps, but for
\* what a call under way has yet to bring up to date (FollowInv).
THEOREM FollowKept == Spec => []FollowInv
BY FollowInit, FollowStep, PTL DEF Spec

\* Once nothing runs, a donation whose payment or extra parts were allocated has a whole
\* set of steps for every batch it got, whatever ran at the same time; and it has two
\* rows for the same step only where calls on it overlapped.
THEOREM TrackersFollow == Spec => []StepSetsFollow
<1>1. FollowInv => StepSetsFollow
  <2> SUFFICES ASSUME FollowInv PROVE StepSetsFollow
      OBVIOUS
  <2>1. \A i, j \in DOMAIN steps : Twins(i, j) => trackers[i.t].d \in overlapped
        BY DEF FollowInv, TwinsOverlap
  <2>2. ASSUME NEW a \in Committed, call[a.by].pc = "over", call[a.by].kind \in {"paid", "more"}
        PROVE  \E t \in TrackersOf(a.d) : {i.key : i \in OfBatch(t, a.n)} = Keys
    <3>1. PICK t \in TrackersOf(a.d) : Has(t, a.n)
          BY <2>2 DEF FollowInv, Synced, SyncedFor
    <3>2. a.n # 0
          BY DEF Committed, FollowInv, TrackersInv, BatchInv, BatchTypeOK, Allocation, Numbers
    <3>3. PICK i \in DOMAIN steps : i.t = t /\ i.batch = a.n
          BY <3>1 DEF Has
    <3>4. DOMAIN steps \subseteq StepId
          BY DEF FollowInv, TrackersInv, TrackTypeOK
    <3>5. ASSUME NEW k \in Keys
          PROVE  [i EXCEPT !.key = k] \in OfBatch(t, a.n) /\ [i EXCEPT !.key = k].key = k
      <4> DEFINE j == [i EXCEPT !.key = k]
      <4>1. j \in DOMAIN steps
            BY <3>2, <3>3 DEF FollowInv, Whole
      <4>2. i \in StepId
            BY <3>4
      <4>3. j.t = t /\ j.batch = a.n /\ j.key = k
            BY <3>3, <4>2 DEF StepId
      <4> HIDE DEF j
      <4>4. ~steps[j].archived
            BY <3>2, <4>1, <4>3 DEF FollowInv, Whole
      <4>5. QED BY <4>1, <4>3, <4>4 DEF OfBatch, Active, j
    <3>6. \A j \in OfBatch(t, a.n) : j.key \in Keys
          BY <3>4 DEF OfBatch, Active, StepId
    <3>7. {j.key : j \in OfBatch(t, a.n)} = Keys
          BY <3>5, <3>6
    <3>8. QED BY <3>7
  <2>3. QED BY <2>1, <2>2 DEF StepSetsFollow
<1>2. QED BY <1>1, FollowKept, PTL

\* A tracker made with its donation shows placeholders or the steps of batches, never
\* both, once nothing runs and unless a call on it died.
THEOREM TrackersReplaced == Spec => []PlaceholdersReplaced
<1>1. FollowInv => PlaceholdersReplaced
  <2> SUFFICES ASSUME FollowInv, Quiet, NEW t \in DOMAIN trackers,
                      \A c \in Calls : call[c].d = trackers[t].d =>
                          call[c].pc # "dead" /\ call[c].kind # "create",
                      OfBatch(t, 0) # {}, Active(t) # OfBatch(t, 0)
               PROVE  FALSE
      BY DEF PlaceholdersReplaced
  <2>1. Mixed(t)
        BY DEF OfBatch, Mixed
  <2>2. PICK c \in Calls : Replaces(call[c], t)
        BY <2>1 DEF FollowInv, Replacing
  <2>3. QED BY <2>2 DEF Replaces, Quiet, Running
<1>2. QED BY <1>1, FollowKept, PTL

\* A tracker's overall status is the one its steps add up to, in every donation of the
\* batch, once nothing runs and unless updates raced or died, or a set of steps was added
\* that no update has counted yet.
THEOREM TrackersHonest == Spec => []OverallHonest
<1>1. FollowInv => OverallHonest
      BY DueOnStep DEF FollowInv, Honest, Right, OverallHonest, Quiet, Running, OnStep
<1>2. QED BY <1>1, FollowKept, PTL

\* A step in a final status is taken back by nobody but a call that updates that very
\* step: what other donations of the batch report never overwrites it.
THEOREM TrackersFinal == Spec => FinalOnlyDirectly
<1> DEFINE Direct == \A i \in DOMAIN steps :
                         steps[i].status \in Final /\ steps'[i].status # steps[i].status =>
                             \E c \in Calls : call[c].pc = "write" /\ call[c].s = i
<1>1. FollowInv /\ [Next]_allVars => [Direct]_steps
  <2> SUFFICES ASSUME FollowInv, [Next]_allVars, steps' # steps PROVE Direct
      OBVIOUS
  <2>1. PICK c \in Calls : Acts(c)
        BY Effects DEF FollowInv, allVars, trackVars
  <2>2. QED BY <2>1, FinalStep DEF FollowInv
<1>2. QED BY <1>1, FollowKept, PTL DEF Spec, FinalOnlyDirectly
=============================================================================
