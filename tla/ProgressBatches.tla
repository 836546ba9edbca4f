--------------------------- MODULE ProgressBatches --------------------------
(***************************************************************************)
(* allocateDonationIntoBatches of progress-batches.service.ts: a donation  *)
(* asks for parts of a workflow template, which hands them out in numbered *)
(* batches of a fixed size.                                                *)
(*                                                                         *)
(* Each request runs in one PostgreSQL transaction at READ COMMITTED.  A   *)
(* statement sees what was committed when it began and the transaction's   *)
(* own writes; a row lock is held to the end of the transaction, and a     *)
(* statement that waited for one looks at the row as it is then.  A row    *)
(* has therefore two versions here: batch, the newest, which belongs to    *)
(* the transaction that holds the lock, and base, the committed one.       *)
(* Requests for different templates touch different rows: one template is  *)
(* modelled.                                                               *)
(***************************************************************************)
EXTENDS Naturals, FiniteSets, FiniteSetsExt

CONSTANTS
    Calls,      \* requests, each used once
    Donations,  \* donations that ask for parts
    Nobody,     \* no call
    Sizes,      \* the values template.batch_parts may have over time
    Requests,   \* the numbers of parts a request may ask for
    MaxBatch,   \* bound on batch numbers
    MayFail     \* the calls whose connection may be lost

\* The largest value of an integer column, as batch_parts is one.
MaxInt == 2147483647

ASSUME BatchAssumption ==
    /\ IsFiniteSet(Calls)
    /\ Donations # {}
    /\ Nobody \notin Calls
    /\ Sizes \subseteq 1 .. MaxInt
    /\ Requests \subseteq Nat \ {0}
    /\ MaxBatch \in Nat \ {0}
    /\ MayFail \subseteq Calls

Numbers == 1 .. MaxBatch

\* parts = 0: no such row.
Batch   == [parts : Nat, given : Nat, closed : BOOLEAN]
NoBatch == [parts |-> 0, given |-> 0, closed |-> TRUE]

Allocation == [by : Calls, d : Donations, n : Numbers, first : Nat, last : Nat]

TxSteps == {"idle", "select", "lock", "number", "insert", "take", "commit", "done", "failed"}

Tx == [pc : TxSteps,
       d : Donations,
       want : Nat,             \* params.parts_requested
       left : Nat,             \* remaining
       size : Nat,             \* batch_parts, read from the template before the transaction
       wait : SUBSET Numbers,  \* the rows the locking query has still to lock
       got : Nat]              \* the batch in hand, 0 when there is none

VARIABLES
    batch,    \* progress_workflow_batches, the newest version of each row
    base,     \* the committed version of each row
    lock,     \* the transaction that holds each row's lock
    rows,     \* donation_batch_allocations, those not committed included
    tx        \* the transactions

batchVars == <<batch, base, lock, rows, tx>>

NoTx == [pc |-> "idle", d |-> CHOOSE d \in Donations : TRUE, want |-> 0, left |-> 0,
         size |-> 0, wait |-> {}, got |-> 0]

BatchInit ==
    /\ batch = [n \in Numbers |-> NoBatch]
    /\ base = [n \in Numbers |-> NoBatch]
    /\ lock = [n \in Numbers |-> Nobody]
    /\ rows = {}
    /\ tx = [c \in Calls |-> NoTx]

-----------------------------------------------------------------------------
Exists(b) == b.parts > 0
Open(b)   == Exists(b) /\ ~b.closed

\* The version of row n a statement of c sees.
Seen(c, n) == IF lock[n] = c THEN batch[n] ELSE base[n]

Committed == {a \in rows : tx[a.by].pc = "done"}

\* hasAllocationsForDonationTemplate, outside any transaction.
HasAllocations(d) == \E a \in Committed : a.d = d

Ended(c) == tx[c].pc \in {"done", "failed"}

\* The row whose lock c waits for next: the highest number first.
NextRow(c) == IF tx[c].pc = "insert" THEN tx[c].got ELSE Max(tx[c].wait)

Locking(c) == tx[c].pc = "insert" \/ (tx[c].pc = "lock" /\ tx[c].wait # {})

WaitsFor(c, x) ==
    /\ Locking(c)
    /\ x # c
    /\ lock[NextRow(c)] = x

\* Every transaction of a cycle waits for another one of it.
Deadlocked(c) ==
    \E S \in SUBSET Calls :
        /\ c \in S
        /\ \A x \in S : \E y \in S : WaitsFor(x, y)
        /\ \A y \in S : \E x \in S : WaitsFor(x, y)

-----------------------------------------------------------------------------
\* The template is read and its configuration checked; then the transaction starts.
Begin(c, d, want, size) ==
    /\ tx[c].pc = "idle"
    /\ want \in Requests
    /\ size \in Sizes
    /\ tx' = [tx EXCEPT ![c] = [NoTx EXCEPT !.pc = "select", !.d = d, !.want = want,
                                            !.left = want, !.size = size]]
    /\ UNCHANGED <<batch, base, lock, rows>>

\* The locking query finds the open batches it can see.
Select(c) ==
    /\ tx[c].pc = "select"
    /\ LET open == {n \in Numbers : Open(Seen(c, n))}
       IN  tx' = [tx EXCEPT ![c].wait = open, ![c].got = 0,
                            ![c].pc = IF open = {} THEN "number" ELSE "lock"]
    /\ UNCHANGED <<batch, base, lock, rows>>

\* Mutant: the query takes no lock.
LockNone(c) ==
    /\ tx[c].pc = "lock"
    /\ LET n    == Max(tx[c].wait)
           rest == tx[c].wait \ {n}
           got  == IF tx[c].got = 0 /\ Open(batch[n]) THEN n ELSE tx[c].got
       IN  tx' = [tx EXCEPT ![c].wait = rest, ![c].got = got,
                            ![c].pc = IF rest # {} THEN "lock"
                                      ELSE IF got = 0 THEN "number" ELSE "take"]
    /\ UNCHANGED <<batch, base, lock, rows>>

\* It locks them one by one, highest number first, and keeps every lock.  A row
\* that was closed while it waited is no longer in its result; a row another
\* transaction has inserted meanwhile is not either.  getOne takes the first row.
Lock(c) ==
    /\ tx[c].pc = "lock"
    /\ LET n    == Max(tx[c].wait)
           rest == tx[c].wait \ {n}
           got  == IF tx[c].got = 0 /\ Open(batch[n]) THEN n ELSE tx[c].got
       IN  /\ lock[n] \in {Nobody, c}
           /\ lock' = [lock EXCEPT ![n] = c]
           /\ tx' = [tx EXCEPT ![c].wait = rest, ![c].got = got,
                               ![c].pc = IF rest # {} THEN "lock"
                                         ELSE IF got = 0 THEN "number" ELSE "take"]
    /\ UNCHANGED <<batch, base, rows>>

\* Without an open batch: the highest number so far, plus one.
Number(c) ==
    /\ tx[c].pc = "number"
    /\ LET used == {n \in Numbers : Exists(Seen(c, n))}
           next == IF used = {} THEN 1 ELSE Max(used) + 1
       IN  /\ next <= MaxBatch
           /\ tx' = [tx EXCEPT ![c].got = next, ![c].pc = "insert"]
    /\ UNCHANGED <<batch, base, lock, rows>>

\* The unique index: the insert waits while another transaction holds the number,
\* and goes on only if that one was rolled back.
Insert(c) ==
    /\ tx[c].pc = "insert"
    /\ LET n == tx[c].got
       IN  /\ lock[n] = Nobody
           /\ ~Exists(base[n])
           /\ lock' = [lock EXCEPT ![n] = c]
           /\ batch' = [batch EXCEPT ![n] = [parts |-> tx[c].size, given |-> 0,
                                             closed |-> FALSE]]
    /\ tx' = [tx EXCEPT ![c].pc = "take"]
    /\ UNCHANGED <<base, rows>>

\* Mutant: the request ends with its first batch.
TakeOnce(c) ==
    /\ tx[c].pc = "take"
    /\ LET n    == tx[c].got
           b    == Seen(c, n)
           take == Min({tx[c].left, b.parts - b.given})
           upto == b.given + take
       IN  /\ batch' = [batch EXCEPT ![n].given = upto, ![n].closed = @ \/ upto >= b.parts]
           /\ rows' = IF take = 0 THEN rows
                      ELSE rows \union {[by |-> c, d |-> tx[c].d, n |-> n,
                                         first |-> b.given + 1, last |-> upto]}
           /\ tx' = [tx EXCEPT ![c].left = @ - take, ![c].pc = "commit"]
    /\ UNCHANGED <<base, lock>>

\* Parts are taken from the batch in hand, which is closed by its last part; a
\* batch without any is closed and passed over.
Take(c) ==
    /\ tx[c].pc = "take"
    /\ LET n    == tx[c].got
           b    == Seen(c, n)
           take == Min({tx[c].left, b.parts - b.given})
           upto == b.given + take
       IN  /\ batch' = [batch EXCEPT ![n].given = upto, ![n].closed = @ \/ upto >= b.parts]
           /\ rows' = IF take = 0 THEN rows
                      ELSE rows \union {[by |-> c, d |-> tx[c].d, n |-> n,
                                         first |-> b.given + 1, last |-> upto]}
           /\ tx' = [tx EXCEPT ![c].left = @ - take,
                               ![c].pc = IF take = tx[c].left THEN "commit" ELSE "select"]
    /\ UNCHANGED <<base, lock>>

Release(c) == lock' = [n \in Numbers |-> IF lock[n] = c THEN Nobody ELSE lock[n]]

Commit(c) ==
    /\ tx[c].pc = "commit"
    /\ base' = [n \in Numbers |-> Seen(c, n)]
    /\ Release(c)
    /\ tx' = [tx EXCEPT ![c].pc = "done"]
    /\ UNCHANGED <<batch, rows>>

\* Mutant: an error ends the request without a rollback.
RollbackForgotten(c) ==
    /\ tx' = [tx EXCEPT ![c].pc = "failed"]
    /\ UNCHANGED <<batch, base, lock, rows>>

\* Mutant: the batches are saved outside the transaction.
RollbackCounts(c) ==
    /\ base' = [n \in Numbers |-> Seen(c, n)]
    /\ rows' = {a \in rows : a.by # c}
    /\ Release(c)
    /\ tx' = [tx EXCEPT ![c].pc = "failed"]
    /\ UNCHANGED batch

\* The catch block: the writes of the transaction are undone and its locks released.
Rollback(c) ==
    /\ batch' = [n \in Numbers |-> IF lock[n] = c THEN base[n] ELSE batch[n]]
    /\ rows' = {a \in rows : a.by # c}
    /\ Release(c)
    /\ tx' = [tx EXCEPT ![c].pc = "failed"]
    /\ UNCHANGED base

\* The insert finds its number taken.
Duplicate(c) ==
    /\ tx[c].pc = "insert"
    /\ lock[tx[c].got] = Nobody
    /\ Exists(base[tx[c].got])
    /\ Rollback(c)

\* PostgreSQL breaks a cycle of waiting transactions by failing one of them.
BreakDeadlock(c) == Deadlocked(c) /\ Rollback(c)

\* The connection is lost, or the process dies: the server rolls back.
Disconnect(c) ==
    /\ c \in MayFail
    /\ tx[c].pc \notin {"idle", "done", "failed"}
    /\ Rollback(c)

-----------------------------------------------------------------------------
TxStep(c) ==
    \/ Select(c)
    \/ Lock(c)
    \/ Number(c)
    \/ Insert(c)
    \/ Take(c)
    \/ Commit(c)
    \/ Duplicate(c)
    \/ BreakDeadlock(c)

BatchNext ==
    \E c \in Calls :
        \/ \E d \in Donations, want \in Requests, size \in Sizes : Begin(c, d, want, size)
        \/ TxStep(c)
        \/ Disconnect(c)

BatchSpec == BatchInit /\ [][BatchNext]_batchVars

-----------------------------------------------------------------------------
\* Every variable is of its type.
BatchTypeOK ==
    /\ batch \in [Numbers -> Batch]
    /\ base \in [Numbers -> Batch]
    /\ lock \in [Numbers -> Calls \union {Nobody}]
    /\ rows \subseteq Allocation
    /\ tx \in [Calls -> Tx]

\* No part of a batch is allocated twice, whatever the requests that fill it at the
\* same time, and none beyond the batch's size.
PartsDisjoint ==
    \A a \in rows :
        /\ 1 <= a.first /\ a.first <= a.last /\ a.last <= batch[a.n].parts
        /\ \A b \in rows : a.n = b.n /\ a # b => a.last < b.first \/ b.last < a.first

\* allocated_parts counts exactly the parts that allocation rows hold, for a reader
\* between two transactions as well: nothing is counted that a rollback took away.
GivenIsAllocated ==
    \A n \in Numbers :
        UNION {a.first .. a.last : a \in {x \in Committed : x.n = n}} = 1 .. base[n].given

\* A closed batch is full: no part is left behind by requests that close it.
ClosedIsFull ==
    \A n \in Numbers : base[n].closed => base[n].given = base[n].parts

\* Batches are numbered 1, 2, 3, ... without a gap, though the requests that open
\* them may fail.
NumbersConsecutive ==
    \A n \in Numbers : Exists(base[n]) => \A m \in 1 .. n - 1 : Exists(base[m])

\* What is committed adds up.
BatchesTally == GivenIsAllocated /\ ClosedIsFull /\ NumbersConsecutive

\* The committed allocations are an allocation of parts.
Parts == INSTANCE PartAllocation WITH
    MaxParts <- Max(Sizes),
    want <- [c \in Calls |-> tx[c].want],
    shares <- UNION {{[by |-> a.by, n |-> a.n, part |-> p] : p \in a.first .. a.last} :
                        a \in Committed}

\* Requests that run side by side give out parts as if each ran alone.
AllocatesParts == Parts!Spec
=============================================================================
