------------------------ MODULE RecurringLedgerProofs -----------------------
(***************************************************************************)
(* Proofs about RecurringLedger that hold for every set of donations, calls *)
(* and plans, on every calendar, and for any number of calls side by side.  *)
(* The first part proves what the unique invoice key is worth when calls    *)
(* interleave (Books, Coverages), the second what the ledger keeps as long  *)
(* as they do not (Serial).  Neither depends on what the functions of the   *)
(* calendar compute: their results are only known to be numbers.  The third *)
(* part is about just that: what the calendar functions compute by stepping *)
(* is what they stand for (CalendarExact).                                  *)
(***************************************************************************)
EXTENDS RecurringLedger, FiniteSetTheorems, WellFoundedInduction, TLAPS

-----------------------------------------------------------------------------
(* Min chooses an element, and there is one to choose.                     *)

\* Min picks a least element of a set of numbers, finite or not.
LEMMA MinIsLeast ==
    ASSUME NEW S, S \subseteq Nat, S # {}
    PROVE  Min(S) \in S /\ \A y \in S : Min(S) <= y
<1> DEFINE Less == {ss \in Nat \X Nat : ss[1] < ss[2]}
<1>1. PICK x \in S : \A y \in S : ~ (<<y, x>> \in Less)
  <2>1. IsWellFoundedOn(Less, Nat)
        BY NatLessThanWellFounded DEF OpToRel
  <2>2. QED BY <2>1, WFMin
<1>2. ASSUME NEW y \in S PROVE x <= y
  <2>1. <<y, x>> \in Nat \X Nat /\ <<y, x>>[1] = y /\ <<y, x>>[2] = x
        OBVIOUS
  <2>2. ~ (y < x)
        BY <1>1, <2>1
  <2>3. QED BY <2>2
<1>3. QED BY <1>2 DEF Min

-----------------------------------------------------------------------------
(* Periods are numbers.                                                    *)

\* The periods of a due list are numbers.
LEMMA PeriodsAreNumbers ==
    ASSUME NEW freq, NEW from, NEW to, NEW max
    PROVE  PeriodsBetween(freq, from, to, max) \subseteq Nat
BY DEF PeriodsBetween

\* The periods a prepayment covers are numbers.
LEMMA CoveredAreNumbers ==
    ASSUME NEW freq, NEW day, NEW n
    PROVE  PrepaidPeriods(freq, day, n) \subseteq Nat
<1>1. CASE n = 0
      BY <1>1 DEF PrepaidPeriods
<1>2. CASE n # 0
      BY <1>2, PeriodsAreNumbers, Zenon DEF PrepaidPeriods
<1>3. QED BY <1>1, <1>2

\* The missing dues are numbers.
LEMMA MissingAreNumbers == ASSUME NEW upTo PROVE Missing(upTo) \subseteq Nat
<1>1. DuePeriods(sub.plan.freq, sub.start, upTo) \subseteq Nat
      BY PeriodsAreNumbers DEF DuePeriods
<1>2. QED BY <1>1 DEF Missing

-----------------------------------------------------------------------------
(* The invariant.                                                          *)

\* What a row says of its payment: a row that is due has no payer, and the payer
\* of a covered period is the first donation.
RowOK(r) ==
    /\ DOMAIN r = {"period", "paid", "key"}
    /\ r.paid \in BOOLEAN
    /\ ~r.paid => r.period \in Nat /\ r.key = Unpaid
    /\ r.key.by = "donation" => /\ r.key = PaidBy(r.key.d)
                                /\ ~(r.key.d = First /\ sub.covered # {})
    /\ r.key.by = "prepaid" => /\ r.key = PrepaidBy(First, r.period)
                               /\ r.period \in sub.covered

ByDonor == {"donation", "prepaid"}

KeysUnique ==
    \A i, j \in DOMAIN rows :
        i # j /\ rows[i].key.by \in ByDonor => rows[i].key # rows[j].key

RowsOK ==
    /\ \E S : rows \in Seq(S)
    /\ \A i \in DOMAIN rows : RowOK(rows[i])
    /\ KeysUnique

PrepaidLoop == {"prepaidKey", "prepaidRow", "prepaidUpdate", "prepaidLast", "prepaidInsert"}
DueSteps    == {"dues", "open", "oldest", "settle"}

\* What the locals of a call are at each step.  A donation that prepaid never comes
\* to the dues.
CallOK(l) ==
    /\ DOMAIN l = {"pc", "kind", "d", "upTo", "todo", "target", "made"}
    /\ l.pc \in Steps
    /\ l.todo \subseteq Nat
    /\ l.pc \in PrepaidLoop \union {"prepaid", "coverage"} =>
          l.kind = "record" /\ l.d = First /\ sub.covered # {}
    /\ l.pc \in PrepaidLoop => l.todo # {} /\ l.todo \subseteq sub.covered
    /\ l.pc \in PrepaidLoop \union {"coverage"} => sub.covered \ l.todo \subseteq PaidPeriods
    /\ l.pc = "coverage" => l.todo = {}
    /\ l.pc = "prepaidUpdate" => /\ l.target \in DOMAIN rows
                                 /\ rows[l.target].period = Min(l.todo)
    /\ l.pc \in DueSteps /\ l.kind = "record" => ~(l.d = First /\ sub.covered # {})
    /\ l.pc \in {"open", "mark"} => l.todo # {}
    /\ l.pc = "mark" => l.todo \subseteq DOMAIN rows /\ l.kind = "mark"
    /\ l.pc \in {"exists", "oldest", "settle"} => l.kind = "record"

CallsOK ==
    /\ DOMAIN call = Calls
    /\ \A c \in Calls : CallOK(call[c])

Start ==
    /\ sub.covered \subseteq Nat
    /\ ~Subscribed => rows = <<>> /\ \A c \in Calls : call[c].pc = "idle"

Books == RowsOK /\ CallsOK /\ Start

-----------------------------------------------------------------------------
(* How the rows change.                                                    *)

\* Appending adds one place.
LEMMA AppendPlace ==
    ASSUME NEW S, NEW s \in Seq(S), NEW e
    PROVE  /\ Append(s, e) \in Seq(S \union {e})
           /\ DOMAIN Append(s, e) = DOMAIN s \union {Len(s) + 1}
           /\ Len(s) + 1 \notin DOMAIN s
           /\ \A i \in DOMAIN s : Append(s, e)[i] = s[i]
           /\ Append(s, e)[Len(s) + 1] = e
<1>1. s \in Seq(S \union {e}) /\ e \in S \union {e}
      OBVIOUS
<1>2. QED BY <1>1

\* No row disappears, changes its period or becomes unpaid.
Grows ==
    \A i \in DOMAIN rows :
        /\ i \in DOMAIN rows'
        /\ rows'[i].period = rows[i].period
        /\ rows[i].paid => rows'[i].paid

\* The row a statement that pays has touched.
Touched(k, id, p, key) ==
    /\ k \in DOMAIN rows'
    /\ DOMAIN rows' = DOMAIN rows \union {k}
    /\ \A i \in DOMAIN rows \ {k} : rows'[i] = rows[i]
    /\ DOMAIN rows'[k] = {"period", "paid", "key"}
    /\ rows'[k].paid = TRUE /\ rows'[k].key = key
    /\ rows'[k].period = p
    /\ id \in DOMAIN rows => k = id /\ rows[k].period = p
    /\ id \notin DOMAIN rows => k \notin DOMAIN rows

\* The period a statement that pays is about.
PeriodOf(id, period) == IF id \in DOMAIN rows THEN rows[id].period ELSE period

\* A statement that pays touches one row.
LEMMA PayPlace ==
    ASSUME RowsOK, NEW id, NEW period, NEW key, Pay(id, period, key)
    PROVE  /\ \E k : Touched(k, id, PeriodOf(id, period), key)
           /\ \E S : rows' \in Seq(S)
<1>1. CASE id \in DOMAIN rows
  <2>1. rows' = [rows EXCEPT ![id].paid = TRUE, ![id].key = key]
        BY <1>1 DEF Pay
  <2>2. DOMAIN rows[id] = {"period", "paid", "key"}
        BY <1>1 DEF RowsOK, RowOK
  <2>3. PICK S : rows \in Seq(S)
        BY DEF RowsOK
  <2>4. /\ DOMAIN rows' = DOMAIN rows
        /\ \A i \in DOMAIN rows \ {id} : rows'[i] = rows[i]
        /\ rows'[id] = [[rows[id] EXCEPT !.paid = TRUE] EXCEPT !.key = key]
        BY <1>1, <2>1
  <2>5. /\ DOMAIN rows'[id] = {"period", "paid", "key"}
        /\ rows'[id].paid = TRUE /\ rows'[id].key = key
        /\ rows'[id].period = rows[id].period
        BY <2>2, <2>4
  <2>6. rows' \in Seq(S \union {rows'[id]})
    <3> DEFINE new == rows'[id]
               U   == S \union {new}
    <3>1. Len(rows) \in Nat /\ DOMAIN rows = 1..Len(rows) /\ rows \in [1..Len(rows) -> S]
          BY <2>3
    <3>2. rows' = [rows EXCEPT ![id] = new]
          BY <1>1, <2>1
    <3> HIDE DEF new
    <3>3. rows' \in [1..Len(rows) -> U]
          BY <1>1, <3>1, <3>2
    <3>4. QED BY <3>1, <3>3 DEF new
  <2>7. Touched(id, id, rows[id].period, key)
        BY <1>1, <2>4, <2>5 DEF Touched
  <2>8. QED BY <1>1, <2>6, <2>7 DEF PeriodOf
<1>2. CASE id \notin DOMAIN rows
  <2> DEFINE r == [period |-> period, paid |-> TRUE, key |-> key]
  <2>1. rows' = Append(rows, r)
        BY <1>2 DEF Pay
  <2>2. PICK S : rows \in Seq(S)
        BY DEF RowsOK
  <2>3. /\ DOMAIN r = {"period", "paid", "key"}
        /\ r.period = period /\ r.paid = TRUE /\ r.key = key
        OBVIOUS
  <2> HIDE DEF r
  <2>4. /\ DOMAIN rows' = DOMAIN rows \union {Len(rows) + 1}
        /\ Len(rows) + 1 \notin DOMAIN rows
        /\ \A i \in DOMAIN rows : rows'[i] = rows[i]
        /\ rows'[Len(rows) + 1] = r
        /\ rows' \in Seq(S \union {r})
        BY <2>1, <2>2, AppendPlace
  <2>5. Touched(Len(rows) + 1, id, period, key)
        BY <1>2, <2>3, <2>4 DEF Touched
  <2>6. QED BY <1>2, <2>4, <2>5 DEF PeriodOf
<1>3. QED BY <1>1, <1>2

\* Paying keeps the rows in order when the key is free and fits its row, and leaves
\* the period paid.
LEMMA PayRows ==
    ASSUME RowsOK, UNCHANGED sub, NEW id, NEW period, NEW key, Pay(id, period, key),
           NEW p, p = PeriodOf(id, period),
           key.by \in ByDonor => Free(key, id),
           key.by = "donation" => key = PaidBy(key.d) /\ ~(key.d = First /\ sub.covered # {}),
           key.by = "prepaid" => key = PrepaidBy(First, p) /\ p \in sub.covered
    PROVE  RowsOK' /\ Grows /\ p \in PaidPeriods'
<1>1. PICK k : Touched(k, id, p, key)
      BY PayPlace
<1>2. Grows
  <2>1. ASSUME NEW i \in DOMAIN rows
        PROVE  /\ i \in DOMAIN rows' /\ rows'[i].period = rows[i].period
               /\ rows[i].paid => rows'[i].paid
        BY <1>1 DEF Touched
  <2>2. QED BY <2>1 DEF Grows
<1>3. p \in PaidPeriods'
      BY <1>1 DEF Touched, PaidPeriods
<1>4. ASSUME NEW i \in DOMAIN rows' PROVE RowOK(rows[i])'
  <2>1. CASE i = k
        BY <1>1, <2>1 DEF Touched, RowOK
  <2>2. CASE i # k
    <3>1. i \in DOMAIN rows /\ rows'[i] = rows[i]
          BY <1>1, <2>2 DEF Touched
    <3>2. RowOK(rows[i])
          BY <3>1 DEF RowsOK
    <3>3. QED BY <3>1, <3>2 DEF RowOK
  <2>3. QED BY <2>1, <2>2
<1>5. KeysUnique'
  <2> SUFFICES ASSUME NEW i \in DOMAIN rows', NEW j \in DOMAIN rows', i # j,
                      rows'[i].key.by \in ByDonor, rows'[i].key = rows'[j].key
               PROVE  FALSE
      BY DEF KeysUnique
  <2>1. CASE i # k /\ j # k
        BY <1>1, <2>1 DEF Touched, RowsOK, KeysUnique
  <2>2. ASSUME key.by \in ByDonor, NEW other \in DOMAIN rows, other # k, rows[other].key = key
        PROVE  FALSE
        BY <1>1, <2>2 DEF Touched, Free
  <2>3. CASE i = k
        BY <1>1, <2>2, <2>3 DEF Touched
  <2>4. CASE j = k
        BY <1>1, <2>2, <2>4 DEF Touched
  <2>5. QED BY <2>1, <2>3, <2>4
<1>6. QED BY PayPlace, <1>2, <1>3, <1>4, <1>5 DEF RowsOK

-----------------------------------------------------------------------------
(* How the calls change.                                                   *)

\* One call moves.
Only(c) ==
    /\ DOMAIN call' = Calls
    /\ \A b \in Calls : b # c => call'[b] = call[b]

\* The locals of a call other than its step stay.
SameLocals(c) ==
    /\ DOMAIN call'[c] = DOMAIN call[c]
    /\ call'[c].kind = call[c].kind
    /\ call'[c].d = call[c].d
    /\ call'[c].todo = call[c].todo
    /\ call'[c].target = call[c].target

\* Goto moves a call to a step.
LEMMA GotoMoves ==
    ASSUME CallsOK, NEW c \in Calls, NEW pc, Goto(c, pc)
    PROVE  Only(c) /\ SameLocals(c) /\ call'[c].pc = pc
<1>1. DOMAIN call = Calls /\ "pc" \in DOMAIN call[c]
      BY DEF CallsOK, CallOK
<1>2. call'[c] = [call[c] EXCEPT !.pc = pc] /\ Only(c)
      BY <1>1 DEF Goto, Only
<1>3. QED BY <1>1, <1>2 DEF SameLocals

\* A call that ends is in order.
LEMMA EndMoves ==
    ASSUME CallsOK, NEW c \in Calls, End(c)
    PROVE  /\ Only(c) /\ CallOK(call[c])'
           /\ call'[c].pc = "done" /\ call'[c].kind = call[c].kind /\ call'[c].d = call[c].d
<1>1. DOMAIN call = Calls
      BY DEF CallsOK
<1>2. call'[c] = [Idle EXCEPT !.pc = "done", !.kind = call[c].kind, !.d = call[c].d] /\ Only(c)
      BY <1>1 DEF End, Only
<1>3. /\ DOMAIN call'[c] = {"pc", "kind", "d", "upTo", "todo", "target", "made"}
      /\ call'[c].pc = "done" /\ call'[c].todo = {}
      /\ call'[c].kind = call[c].kind /\ call'[c].d = call[c].d
      BY <1>2 DEF Idle
<1>4. QED BY <1>2, <1>3 DEF CallOK, Steps, PrepaidLoop, DueSteps

\* Periods stay paid while rows grow.
LEMMA PaidGrow == ASSUME Grows PROVE PaidPeriods \subseteq PaidPeriods'
BY DEF Grows, PaidPeriods

\* A call that stays where it is stays in order while rows grow.
LEMMA CallKept ==
    ASSUME NEW b \in Calls, CallOK(call[b]), call'[b] = call[b], Grows, UNCHANGED sub
    PROVE  CallOK(call[b])'
<1>1. PaidPeriods \subseteq PaidPeriods'
      BY PaidGrow
<1>2. call[b].pc = "prepaidUpdate" => /\ call[b].target \in DOMAIN rows'
                                      /\ rows'[call[b].target].period = Min(call[b].todo)
      BY DEF CallOK, Grows
<1>3. call[b].pc = "mark" => call[b].todo \subseteq DOMAIN rows'
      BY DEF CallOK, Grows
<1>4. QED BY <1>1, <1>2, <1>3 DEF CallOK

\* One call moves, and the books stay in order.
LEMMA BooksMove ==
    ASSUME Books, NEW c \in Calls, Only(c), call[c].pc # "idle", CallOK(call[c])',
           Grows, UNCHANGED sub, RowsOK'
    PROVE  Books'
<1>1. \A b \in Calls : CallOK(call[b])'
  <2> TAKE b \in Calls
  <2>1. CASE b = c
        BY <2>1
  <2>2. CASE b # c
        BY <2>2, CallKept DEF Books, CallsOK, Only
  <2>3. QED BY <2>1, <2>2
<1>2. CallsOK'
      BY <1>1 DEF CallsOK, Only
<1>3. Subscribed
      BY DEF Books, Start
<1>4. Start'
      BY <1>3 DEF Books, Start, Subscribed
<1>5. QED BY <1>2, <1>4 DEF Books

\* Where the rows stay, they stay in order.
LEMMA RowsStay ==
    ASSUME RowsOK, UNCHANGED <<rows, sub>>
    PROVE  RowsOK' /\ Grows /\ PaidPeriods' = PaidPeriods
BY DEF RowsOK, RowOK, KeysUnique, Grows, PaidPeriods

-----------------------------------------------------------------------------
(* The steps of a call keep the books.                                     *)

\* The check for an earlier record sends only donations that did not prepay to the dues.
LEMMA ExistsBooks ==
    ASSUME Books, NEW c \in Calls, Exists(c)
    PROVE  Books'
<1> USE DEF Books
<1>1. RowsOK' /\ Grows /\ UNCHANGED <<rows, sub>> /\ call[c].pc = "exists"
      BY RowsStay DEF Exists
<1>2. CallOK(call[c])
      BY DEF CallsOK
<1>3. CASE End(c)
      BY <1>1, <1>3, EndMoves, BooksMove
<1>4. CASE call[c].d = First /\ sub.covered # {} /\ Goto(c, "prepaid")
  <2>1. Only(c) /\ SameLocals(c) /\ call'[c].pc = "prepaid"
        BY <1>4, GotoMoves
  <2>2. CallOK(call[c])'
        BY <1>1, <1>2, <1>4, <2>1
           DEF CallOK, SameLocals, Steps, PrepaidLoop, DueSteps
  <2>3. QED BY <1>1, <2>1, <2>2, BooksMove
<1>5. CASE ~(call[c].d = First /\ sub.covered # {}) /\ Goto(c, "dues")
  <2>1. Only(c) /\ SameLocals(c) /\ call'[c].pc = "dues"
        BY <1>5, GotoMoves
  <2>2. CallOK(call[c])'
        BY <1>1, <1>2, <1>5, <2>1
           DEF CallOK, SameLocals, Steps, PrepaidLoop, DueSteps
  <2>3. QED BY <1>1, <2>1, <2>2, BooksMove
<1>6. QED BY <1>3, <1>4, <1>5 DEF Exists

\* Unless everything is paid, the prepaid loop starts with all the covered periods.
LEMMA PrepaidBooks ==
    ASSUME Books, NEW c \in Calls, Prepaid(c)
    PROVE  Books'
<1> USE DEF Books
<1>1. RowsOK' /\ Grows /\ UNCHANGED <<rows, sub>> /\ call[c].pc = "prepaid"
      BY RowsStay DEF Prepaid
<1>2. CallOK(call[c]) /\ DOMAIN call = Calls
      BY DEF CallsOK
<1>3. CASE End(c)
      BY <1>1, <1>3, EndMoves, BooksMove
<1>4. CASE call' = [call EXCEPT ![c].pc = "prepaidKey", ![c].todo = sub.covered]
  <2>1. Only(c)
        BY <1>2, <1>4 DEF Only
  <2>2. /\ DOMAIN call'[c] = DOMAIN call[c]
        /\ call'[c].pc = "prepaidKey" /\ call'[c].todo = sub.covered
        /\ call'[c].kind = call[c].kind /\ call'[c].d = call[c].d
        BY <1>2, <1>4 DEF CallOK
  <2>3. CallOK(call[c])'
        BY <1>1, <1>2, <2>2 DEF CallOK, Start, Steps, PrepaidLoop, DueSteps
  <2>4. QED BY <1>1, <2>1, <2>3, BooksMove
<1>5. QED BY <1>3, <1>4 DEF Prepaid

\* A period that is paid leaves the loop.
LEMMA NextPeriodMoves ==
    ASSUME Books, NEW c \in Calls, NEW made, NextPeriod(c, made), call[c].pc \in PrepaidLoop,
           Grows, UNCHANGED sub, Min(call[c].todo) \in PaidPeriods'
    PROVE  Only(c) /\ CallOK(call[c])'
<1> DEFINE rest == call[c].todo \ {Min(call[c].todo)}
<1>1. CallOK(call[c]) /\ DOMAIN call = Calls
      BY DEF Books, CallsOK
<1>2. CASE End(c)
      BY <1>2, EndMoves DEF Books
<1>3. CASE call' = [call EXCEPT ![c].todo = rest, ![c].made = made,
                                ![c].pc = IF rest = {} THEN "coverage" ELSE "prepaidKey"]
  <2>1. Only(c)
        BY <1>1, <1>3 DEF Only
  <2>2. /\ DOMAIN call'[c] = DOMAIN call[c]
        /\ call'[c].pc = IF rest = {} THEN "coverage" ELSE "prepaidKey"
        /\ call'[c].todo = rest
        /\ call'[c].kind = call[c].kind /\ call'[c].d = call[c].d
        BY <1>1, <1>3 DEF CallOK
  <2>3. sub.covered \ rest \subseteq PaidPeriods'
        BY <1>1, PaidGrow DEF CallOK
  <2>4. CallOK(call[c])'
        BY <1>1, <2>2, <2>3 DEF CallOK, Steps, PrepaidLoop, DueSteps
  <2>5. QED BY <2>1, <2>4
<1>4. QED BY <1>2, <1>3 DEF NextPeriod

\* A period that the donation has credited is paid.
LEMMA PrepaidKeyBooks ==
    ASSUME Books, NEW c \in Calls, PrepaidKey(c)
    PROVE  Books'
<1> DEFINE period == Min(call[c].todo)
<1>1. RowsOK' /\ Grows /\ PaidPeriods' = PaidPeriods /\ UNCHANGED <<rows, sub>>
      BY RowsStay DEF PrepaidKey, Books
<1>2. CallOK(call[c]) /\ call[c].pc = "prepaidKey"
      BY DEF Books, CallsOK, PrepaidKey
<1>3. CASE Goto(c, "prepaidRow")
  <2>1. Only(c) /\ SameLocals(c) /\ call'[c].pc = "prepaidRow"
        BY <1>3, GotoMoves DEF Books
  <2>2. CallOK(call[c])'
        BY <1>1, <1>2, <2>1 DEF CallOK, SameLocals, Steps, PrepaidLoop, DueSteps
  <2>3. QED BY <1>1, <1>2, <2>1, <2>2, BooksMove
<1>4. CASE ~Free(PrepaidBy(call[c].d, period), 0) /\ NextPeriod(c, call[c].made)
  <2>1. PICK id \in DOMAIN rows : rows[id].key = PrepaidBy(call[c].d, period)
        BY <1>4 DEF Free
  <2>2. rows[id].period = period /\ rows[id].paid
    <3>1. RowOK(rows[id])
          BY DEF Books, RowsOK
    <3>2. rows[id].key.by = "prepaid" /\ rows[id].key.period = period
          BY <2>1 DEF PrepaidBy
    <3>3. Unpaid.by = "nobody" /\ PrepaidBy(First, rows[id].period).period = rows[id].period
          BY DEF Unpaid, PrepaidBy
    <3>4. QED BY <3>1, <3>2, <3>3 DEF RowOK
  <2>3. period \in PaidPeriods'
        BY <1>1, <2>2 DEF PaidPeriods
  <2>4. Only(c) /\ CallOK(call[c])'
        BY <1>1, <1>2, <1>4, <2>3, NextPeriodMoves DEF PrepaidLoop
  <2>5. QED BY <1>1, <1>2, <2>4, BooksMove
<1>5. QED BY <1>3, <1>4 DEF PrepaidKey

\* The row that is taken is one of the period's.
LEMMA PrepaidRowBooks ==
    ASSUME Books, NEW c \in Calls, PrepaidRow(c)
    PROVE  Books'
<1>1. RowsOK' /\ Grows /\ PaidPeriods' = PaidPeriods /\ UNCHANGED <<rows, sub>>
      BY RowsStay DEF PrepaidRow, Books
<1>2. CallOK(call[c]) /\ call[c].pc = "prepaidRow" /\ DOMAIN call = Calls
      BY DEF Books, CallsOK, PrepaidRow
<1>3. CASE Goto(c, "prepaidLast")
  <2>1. Only(c) /\ SameLocals(c) /\ call'[c].pc = "prepaidLast"
        BY <1>3, GotoMoves DEF Books
  <2>2. CallOK(call[c])'
        BY <1>1, <1>2, <2>1 DEF CallOK, SameLocals, Steps, PrepaidLoop, DueSteps
  <2>3. QED BY <1>1, <1>2, <2>1, <2>2, BooksMove
<1>4. ASSUME NEW id \in RowsOf(Min(call[c].todo)),
             call' = [call EXCEPT ![c].pc = "prepaidUpdate", ![c].target = id]
      PROVE  Books'
  <2>1. Only(c)
        BY <1>2, <1>4 DEF Only
  <2>2. /\ DOMAIN call'[c] = DOMAIN call[c]
        /\ call'[c].pc = "prepaidUpdate" /\ call'[c].target = id
        /\ call'[c].kind = call[c].kind /\ call'[c].d = call[c].d
        /\ call'[c].todo = call[c].todo
        BY <1>2, <1>4 DEF CallOK
  <2>3. CallOK(call[c])'
        BY <1>1, <1>2, <2>2 DEF CallOK, RowsOf, Steps, PrepaidLoop, DueSteps
  <2>4. QED BY <1>1, <1>2, <2>1, <2>3, BooksMove
<1>5. QED BY <1>3, <1>4 DEF PrepaidRow

\* A period found paid at the last look leaves the loop.
LEMMA PrepaidLastBooks ==
    ASSUME Books, NEW c \in Calls, PrepaidLast(c)
    PROVE  Books'
<1>1. RowsOK' /\ Grows /\ PaidPeriods' = PaidPeriods /\ UNCHANGED <<rows, sub>>
      BY RowsStay DEF PrepaidLast, Books
<1>2. CallOK(call[c]) /\ call[c].pc = "prepaidLast"
      BY DEF Books, CallsOK, PrepaidLast
<1>3. CASE Goto(c, "prepaidInsert")
  <2>1. Only(c) /\ SameLocals(c) /\ call'[c].pc = "prepaidInsert"
        BY <1>3, GotoMoves DEF Books
  <2>2. CallOK(call[c])'
        BY <1>1, <1>2, <2>1 DEF CallOK, SameLocals, Steps, PrepaidLoop, DueSteps
  <2>3. QED BY <1>1, <1>2, <2>1, <2>2, BooksMove
<1>4. CASE Min(call[c].todo) \in PaidPeriods /\ NextPeriod(c, call[c].made)
  <2>1. Only(c) /\ CallOK(call[c])'
        BY <1>1, <1>2, <1>4, NextPeriodMoves DEF PrepaidLoop
  <2>2. QED BY <1>1, <1>2, <2>1, BooksMove
<1>5. QED BY <1>3, <1>4 DEF PrepaidLast

\* A covered period is credited under a free key, in a row of that period.
LEMMA PrepaidWriteBooks ==
    ASSUME Books, NEW c \in Calls, PrepaidWrite(c)
    PROVE  Books'
<1> DEFINE period == Min(call[c].todo)
           key    == PrepaidBy(call[c].d, period)
           id     == IF call[c].pc = "prepaidUpdate" THEN call[c].target ELSE 0
<1>1. /\ CallOK(call[c]) /\ call[c].pc \in {"prepaidUpdate", "prepaidInsert"}
      /\ UNCHANGED sub
      BY DEF Books, CallsOK, PrepaidWrite
<1>2. CASE ~Free(key, id)
  <2>1. End(c) /\ UNCHANGED rows
        BY <1>2 DEF PrepaidWrite
  <2>2. RowsOK' /\ Grows
        BY <1>1, <2>1, RowsStay DEF Books
  <2>3. QED BY <1>1, <2>1, <2>2, EndMoves, BooksMove DEF Books
<1>3. CASE Free(key, id)
  <2>1. Pay(id, period, key) /\ NextPeriod(c, TRUE)
        BY <1>3 DEF PrepaidWrite
  <2>2. call[c].d = First /\ period \in call[c].todo /\ period \in sub.covered
        BY <1>1, MinIsLeast DEF CallOK, PrepaidLoop
  <2>3. PeriodOf(id, period) = period
    <3>1. CASE call[c].pc = "prepaidUpdate"
          BY <1>1, <3>1 DEF CallOK, PeriodOf
    <3>2. CASE call[c].pc = "prepaidInsert"
      <4>1. 0 \notin DOMAIN rows
        <5>1. PICK S : rows \in Seq(S)
              BY DEF Books, RowsOK
        <5>2. QED BY <5>1
      <4>2. QED BY <3>2, <4>1 DEF PeriodOf
    <3>3. QED BY <1>1, <3>1, <3>2
  <2>4. key.by = "prepaid" /\ key = PrepaidBy(First, period)
        BY <2>2 DEF PrepaidBy
  <2> HIDE DEF key, id, period
  <2>5. RowsOK' /\ Grows /\ period \in PaidPeriods'
        BY <1>1, <1>3, <2>1, <2>2, <2>3, <2>4, PayRows DEF Books
  <2>6. Only(c) /\ CallOK(call[c])'
        BY <1>1, <2>1, <2>5, NextPeriodMoves DEF period, PrepaidLoop
  <2>7. QED BY <1>1, <2>5, <2>6, BooksMove
<1>4. QED BY <1>2, <1>3

\* A donation that prepaid ends here: all it covers is paid.
LEMMA CoverageBooks ==
    ASSUME Books, NEW c \in Calls, Coverage(c)
    PROVE  Books'
<1>1. /\ RowsOK' /\ Grows /\ UNCHANGED sub /\ call[c].pc = "coverage"
      /\ CallOK(call[c])
      BY RowsStay DEF Coverage, Books, CallsOK
<1>2. sub.covered \subseteq PaidPeriods
      BY <1>1 DEF CallOK
<1>3. End(c)
      BY <1>2 DEF Coverage
<1>4. QED BY <1>1, <1>3, EndMoves, BooksMove DEF Books

\* Once the dues are open a payment goes on, and other calls end.
LEMMA AfterDuesMoves ==
    ASSUME Books, NEW c \in Calls, AfterDues(c), call[c].pc \in {"dues", "open"},
           Grows, UNCHANGED sub
    PROVE  Only(c) /\ CallOK(call[c])'
<1>1. CallOK(call[c])
      BY DEF Books, CallsOK
<1>2. CASE call[c].kind = "record" /\ Goto(c, "oldest")
  <2>1. Only(c) /\ SameLocals(c) /\ call'[c].pc = "oldest"
        BY <1>2, GotoMoves DEF Books
  <2>2. CallOK(call[c])'
        BY <1>1, <1>2, <2>1 DEF CallOK, SameLocals, Steps, PrepaidLoop, DueSteps
  <2>3. QED BY <2>1, <2>2
<1>3. CASE End(c)
      BY <1>3, EndMoves DEF Books
<1>4. QED BY <1>2, <1>3 DEF AfterDues

\* The periods to open are numbers.
LEMMA DuesBooks ==
    ASSUME Books, NEW c \in Calls, Dues(c)
    PROVE  Books'
<1> DEFINE upTo == IF call[c].kind = "remind" THEN call[c].upTo
                   ELSE PeriodKey(sub.plan.freq, today)
<1>1. /\ RowsOK' /\ Grows /\ UNCHANGED <<rows, sub>> /\ call[c].pc = "dues"
      /\ CallOK(call[c]) /\ DOMAIN call = Calls
      BY RowsStay DEF Dues, Books, CallsOK
<1>2. CASE AfterDues(c)
      BY <1>1, <1>2, AfterDuesMoves, BooksMove
<1>3. CASE Missing(upTo) # {} /\ call' = [call EXCEPT ![c].todo = Missing(upTo), ![c].pc = "open"]
  <2> DEFINE periods == Missing(upTo)
  <2>1. Only(c)
        BY <1>1, <1>3 DEF Only
  <2>2. periods \subseteq Nat /\ periods # {}
        BY <1>3, MissingAreNumbers
  <2> HIDE DEF periods
  <2>3. call' = [call EXCEPT ![c].todo = periods, ![c].pc = "open"]
        BY <1>3 DEF periods
  <2>4. /\ DOMAIN call'[c] = DOMAIN call[c]
        /\ call'[c].pc = "open" /\ call'[c].todo = periods
        /\ call'[c].kind = call[c].kind /\ call'[c].d = call[c].d
        BY <1>1, <2>3 DEF CallOK
  <2>5. CallOK(call[c])'
        BY <1>1, <2>2, <2>4 DEF CallOK, Steps, PrepaidLoop, DueSteps
  <2>6. QED BY <1>1, <2>1, <2>5, BooksMove
<1>4. QED BY <1>2, <1>3 DEF Dues

\* A row that is due is appended.
LEMMA OpenRows ==
    ASSUME RowsOK, UNCHANGED sub, NEW period \in Nat,
           rows' = Append(rows, [period |-> period, paid |-> FALSE, key |-> Unpaid])
    PROVE  /\ RowsOK' /\ Grows
           /\ \E new : /\ new \notin DOMAIN rows /\ DOMAIN rows' = DOMAIN rows \union {new}
                       /\ rows'[new].period = period /\ ~rows'[new].paid
           /\ \A i \in DOMAIN rows : rows'[i] = rows[i]
<1> DEFINE r == [period |-> period, paid |-> FALSE, key |-> Unpaid]
           new == Len(rows) + 1
<1>1. PICK S : rows \in Seq(S)
      BY DEF RowsOK
<1>2. /\ DOMAIN r = {"period", "paid", "key"}
      /\ r.period = period /\ r.paid = FALSE /\ r.key = Unpaid
      OBVIOUS
<1>3. r.key.by = "nobody"
      BY <1>2 DEF Unpaid
<1> HIDE DEF r
<1>4. /\ DOMAIN rows' = DOMAIN rows \union {new}
      /\ new \notin DOMAIN rows
      /\ \A i \in DOMAIN rows : rows'[i] = rows[i]
      /\ rows'[new] = r
      /\ rows' \in Seq(S \union {r})
      BY <1>1, AppendPlace DEF r
<1> HIDE DEF new
<1>5. Grows
      BY <1>4 DEF Grows
<1>6. ASSUME NEW i \in DOMAIN rows' PROVE RowOK(rows[i])'
  <2>1. CASE i = new
        BY <1>2, <1>3, <1>4, <2>1 DEF RowOK
  <2>2. CASE i # new
    <3>1. i \in DOMAIN rows /\ rows'[i] = rows[i] /\ RowOK(rows[i])
          BY <1>4, <2>2 DEF RowsOK
    <3>2. QED BY <3>1 DEF RowOK
  <2>3. QED BY <2>1, <2>2
<1>7. KeysUnique'
      BY <1>3, <1>4 DEF RowsOK, KeysUnique, ByDonor
<1>8. RowsOK'
      BY <1>4, <1>6, <1>7 DEF RowsOK
<1>9. QED BY <1>2, <1>4, <1>5, <1>8

\* Dues are opened one by one.
LEMMA OpenBooks ==
    ASSUME Books, NEW c \in Calls, Open(c)
    PROVE  Books'
<1> DEFINE period == Min(call[c].todo)
           rest   == call[c].todo \ {period}
<1>1. /\ CallOK(call[c]) /\ call[c].pc = "open" /\ UNCHANGED sub /\ DOMAIN call = Calls
      BY DEF Books, CallsOK, Open
<1>2. period \in Nat
      BY <1>1, MinIsLeast DEF CallOK
<1>3. RowsOK' /\ Grows
      BY <1>1, <1>2, OpenRows DEF Open, Books
<1>4. CASE AfterDues(c)
      BY <1>1, <1>3, <1>4, AfterDuesMoves, BooksMove
<1>5. CASE rest # {} /\ call' = [call EXCEPT ![c].todo = rest]
  <2>1. Only(c)
        BY <1>1, <1>5 DEF Only
  <2>2. /\ DOMAIN call'[c] = DOMAIN call[c]
        /\ call'[c].pc = "open" /\ call'[c].todo = rest
        /\ call'[c].kind = call[c].kind /\ call'[c].d = call[c].d
        BY <1>1, <1>5 DEF CallOK
  <2>3. CallOK(call[c])'
        BY <1>1, <1>5, <2>2 DEF CallOK, Steps, PrepaidLoop, DueSteps
  <2>4. QED BY <1>1, <1>3, <2>1, <2>3, BooksMove
<1>6. QED BY <1>4, <1>5 DEF Open

\* Picking a row changes nothing.
LEMMA PickOldestBooks ==
    ASSUME Books, NEW c \in Calls, PickOldest(c)
    PROVE  Books'
<1> DEFINE id == IF Pending = {} THEN 0 ELSE Oldest
<1>1. /\ RowsOK' /\ Grows /\ UNCHANGED <<rows, sub>> /\ call[c].pc = "oldest"
      /\ CallOK(call[c]) /\ DOMAIN call = Calls
      BY RowsStay DEF PickOldest, Books, CallsOK
<1>2. call' = [call EXCEPT ![c].pc = "settle", ![c].target = id]
      BY DEF PickOldest
<1> HIDE DEF id
<1>3. Only(c)
      BY <1>1, <1>2 DEF Only
<1>4. /\ DOMAIN call'[c] = DOMAIN call[c]
      /\ call'[c].pc = "settle" /\ call'[c].todo = call[c].todo
      /\ call'[c].kind = call[c].kind /\ call'[c].d = call[c].d
      BY <1>1, <1>2 DEF CallOK
<1>5. CallOK(call[c])'
      BY <1>1, <1>4 DEF CallOK, Steps, PrepaidLoop, DueSteps
<1>6. QED BY <1>1, <1>3, <1>5, BooksMove

\* A donation that did not prepay settles a row under its free key.
LEMMA SettleBooks ==
    ASSUME Books, NEW c \in Calls, Settle(c)
    PROVE  Books'
<1> DEFINE d   == call[c].d
           id  == call[c].target
           now == PeriodKey(sub.plan.freq, today)
           key == PaidBy(d)
<1>1. /\ CallOK(call[c]) /\ call[c].pc = "settle" /\ UNCHANGED sub /\ End(c)
      BY DEF Books, CallsOK, Settle
<1>2. ~(d = First /\ sub.covered # {})
      BY <1>1 DEF CallOK, DueSteps
<1>3. key.by = "donation" /\ key.d = d
      BY DEF PaidBy
<1>4. RowsOK' /\ Grows
  <2>1. CASE Free(key, id)
    <3>1. Pay(id, now, key)
          BY <2>1 DEF Settle
    <3> HIDE DEF key, id, now, d
    <3>2. key = PaidBy(key.d)
          BY <1>3 DEF key
    <3>3. QED BY <1>1, <1>2, <1>3, <2>1, <3>1, <3>2, PayRows DEF Books
  <2>2. CASE ~Free(key, id)
        BY <1>1, <2>2, RowsStay DEF Settle, Books
  <2>3. QED BY <2>1, <2>2
<1>5. QED BY <1>1, <1>4, EndMoves, BooksMove DEF Books

\* Staff mark the rows they found.
LEMMA MarkRowBooks ==
    ASSUME Books, NEW c \in Calls, MarkRow(c)
    PROVE  Books'
<1> DEFINE id   == Min(call[c].todo)
           rest == call[c].todo \ {id}
           key  == MarkedByStaff(id)
<1>1. /\ CallOK(call[c]) /\ call[c].pc = "mark" /\ UNCHANGED sub /\ DOMAIN call = Calls
      /\ Pay(id, rows[id].period, key)
      BY DEF Books, CallsOK, MarkRow
<1>2. key.by = "staff"
      BY DEF MarkedByStaff
<1>3. RowsOK' /\ Grows
  <2> DEFINE period == rows[id].period
  <2>1. Pay(id, period, key)
        BY <1>1
  <2> HIDE DEF key, period
  <2>2. QED BY <1>1, <1>2, <2>1, PayRows DEF Books, ByDonor
<1>4. CASE End(c)
      BY <1>1, <1>3, <1>4, EndMoves, BooksMove DEF Books
<1>5. CASE rest # {} /\ call' = [call EXCEPT ![c].todo = rest]
  <2>1. Only(c)
        BY <1>1, <1>5 DEF Only
  <2>2. /\ DOMAIN call'[c] = DOMAIN call[c]
        /\ call'[c].pc = "mark" /\ call'[c].todo = rest
        /\ call'[c].kind = call[c].kind /\ call'[c].d = call[c].d
        BY <1>1, <1>5 DEF CallOK
  <2>3. rest \subseteq DOMAIN rows'
        BY <1>1, <1>3 DEF CallOK, Grows
  <2>4. CallOK(call[c])'
        BY <1>1, <1>5, <2>2, <2>3 DEF CallOK, Steps, PrepaidLoop, DueSteps
  <2>5. QED BY <1>1, <1>3, <2>1, <2>4, BooksMove
<1>6. QED BY <1>4, <1>5 DEF MarkRow

\* Every step of a call keeps the books.
LEMMA StepBooks ==
    ASSUME Books, NEW c \in Calls, Step(c)
    PROVE  Books'
BY ExistsBooks, PrepaidBooks, PrepaidKeyBooks, PrepaidRowBooks, PrepaidLastBooks,
   PrepaidWriteBooks, CoverageBooks, DuesBooks, OpenBooks, PickOldestBooks, SettleBooks,
   MarkRowBooks DEF Step

-----------------------------------------------------------------------------
(* The donor, the calendar and the arrivals keep the books.                *)

\* A call arrives.
LEMMA ArriveBooks ==
    ASSUME Books, NEW c \in Calls, NEW kind, NEW l, Arrive(c, kind, l), CallOK(l)
    PROVE  Books'
<1>1. UNCHANGED <<rows, sub>> /\ Subscribed /\ DOMAIN call = Calls
      BY DEF Arrive, Books, CallsOK
<1>2. RowsOK' /\ Grows
      BY <1>1, RowsStay DEF Books
<1>3. call'[c] = l /\ Only(c)
      BY <1>1 DEF Arrive, Only
<1>4. CallOK(call[c])'
      BY <1>1, <1>3 DEF CallOK, PaidPeriods
<1>5. \A b \in Calls : CallOK(call[b])'
      BY <1>1, <1>2, <1>3, <1>4, CallKept DEF Only, Books, CallsOK
<1>6. CallsOK' /\ Start'
      BY <1>1, <1>3, <1>5 DEF CallsOK, Only, Books, Start, Subscribed
<1>7. QED BY <1>2, <1>6 DEF Books

\* Each kind of call arrives in order.
LEMMA ArrivalsBooks ==
    ASSUME Books, NEW c \in Calls,
           \/ \E d \in Donations : Record(c, d)
           \/ View(c)
           \/ Remind(c)
           \/ \E ids \in SUBSET Pending : Mark(c, ids)
    PROVE  Books'
<1>1. ASSUME NEW d \in Donations, Record(c, d)
      PROVE  Books'
  <2> DEFINE l == [Idle EXCEPT !.pc = "exists", !.kind = "record", !.d = d]
  <2>1. CallOK(l)
        BY DEF CallOK, Idle, Steps, PrepaidLoop, DueSteps
  <2>2. Arrive(c, "record", l)
        BY <1>1 DEF Record
  <2> HIDE DEF l
  <2>3. QED BY <2>1, <2>2, ArriveBooks
<1>2. CASE View(c)
  <2> DEFINE l == [Idle EXCEPT !.pc = "dues", !.kind = "view"]
  <2>1. CallOK(l)
        BY DEF CallOK, Idle, Steps, PrepaidLoop, DueSteps
  <2>2. Arrive(c, "view", l)
        BY <1>2 DEF View
  <2> HIDE DEF l
  <2>3. QED BY <2>1, <2>2, ArriveBooks
<1>3. CASE Remind(c)
  <2>1. PICK period : Arrive(c, "remind", [Idle EXCEPT !.pc = "dues", !.kind = "remind",
                                                        !.upTo = period])
        BY <1>3 DEF Remind
  <2> DEFINE l == [Idle EXCEPT !.pc = "dues", !.kind = "remind", !.upTo = period]
  <2>2. CallOK(l)
        BY DEF CallOK, Idle, Steps, PrepaidLoop, DueSteps
  <2>3. Arrive(c, "remind", l)
        BY <2>1
  <2> HIDE DEF l
  <2>4. QED BY <2>2, <2>3, ArriveBooks
<1>4. ASSUME NEW ids \in SUBSET Pending, Mark(c, ids)
      PROVE  Books'
  <2> DEFINE l == [Idle EXCEPT !.pc = "mark", !.kind = "mark", !.todo = ids]
  <2>1. ids # {} /\ ids \subseteq DOMAIN rows
        BY <1>4 DEF Mark, Pending
  <2>2. ids \subseteq Nat
    <3>1. PICK S : rows \in Seq(S)
          BY DEF Books, RowsOK
    <3>2. DOMAIN rows \subseteq Nat
          BY <3>1
    <3>3. QED BY <2>1, <3>2
  <2>3. CallOK(l)
        BY <2>1, <2>2 DEF CallOK, Idle, Steps, PrepaidLoop, DueSteps
  <2>4. Arrive(c, "mark", l)
        BY <1>4 DEF Mark
  <2> HIDE DEF l
  <2>5. QED BY <2>3, <2>4, ArriveBooks
<1>5. QED BY <1>1, <1>2, <1>3, <1>4

\* A subscription begins with no rows and no calls.
LEMMA SubscribeBooks ==
    ASSUME Books, NEW plan, Subscribe(plan)
    PROVE  Books'
<1>1. rows = <<>> /\ UNCHANGED <<rows, call>> /\ \A c \in Calls : call[c].pc = "idle"
      BY DEF Subscribe, Books, Start
<1>2. sub'.covered \subseteq Nat
      BY CoveredAreNumbers DEF Subscribe
<1>3. RowsOK'
      BY <1>1 DEF Books, RowsOK, KeysUnique
<1>4. CallsOK'
      BY <1>1 DEF Books, CallsOK, CallOK, PrepaidLoop, DueSteps
<1>5. Start'
      BY <1>1, <1>2 DEF Start
<1>6. QED BY <1>3, <1>4, <1>5 DEF Books

\* Books is an invariant.
THEOREM BooksKept == Spec => []Books
<1>1. Init => Books
  <2> SUFFICES ASSUME Init PROVE Books
      OBVIOUS
  <2>1. rows = <<>> /\ sub.covered = {} /\ call = [c \in Calls |-> Idle]
        BY DEF Init, NoSub
  <2>2. RowsOK
        BY <2>1 DEF RowsOK, KeysUnique
  <2>3. CallOK(Idle)
        BY DEF CallOK, Idle, Steps, PrepaidLoop, DueSteps
  <2>4. CallsOK
        BY <2>1, <2>3 DEF CallsOK
  <2>5. Start
        BY <2>1 DEF Start, Idle
  <2>6. QED BY <2>2, <2>4, <2>5 DEF Books
<1>2. Books /\ [Next]_vars => Books'
  <2> SUFFICES ASSUME Books, [Next]_vars PROVE Books'
      OBVIOUS
  <2>1. ASSUME UNCHANGED <<rows, sub, call>>
        PROVE  Books'
        BY <2>1, RowsStay DEF Books, CallsOK, CallOK, Start, Subscribed
  <2>2. CASE UNCHANGED vars
        BY <2>1, <2>2 DEF vars
  <2>3. ASSUME NEW d \in Donations, Complete(d)
        PROVE  Books'
        BY <2>1, <2>3 DEF Complete
  <2>4. ASSUME NEW day \in Today, NextDay(day)
        PROVE  Books'
        BY <2>1, <2>4 DEF NextDay
  <2>5. QED BY <2>2, <2>3, <2>4, SubscribeBooks, ArrivalsBooks, StepBooks DEF Next
<1>3. QED BY <1>1, <1>2, PTL DEF Spec

\* The unique invoice key suffices: whatever calls report the payment of a donation at
\* once, it pays for one installment, or for each covered period once.
THEOREM CreditIsGivenOnce == Spec => []CreditedOnce
<1>1. Books => CreditedOnce
  <2> SUFFICES ASSUME Books, NEW d \in Donations, NEW i \in CreditsOf(d), NEW j \in CreditsOf(d),
                      i # j
               PROVE  /\ d = First
                      /\ {rows[i].period, rows[j].period} \subseteq sub.covered
                      /\ rows[i].period # rows[j].period
      BY DEF CreditedOnce
  <2>1. /\ i \in DOMAIN rows /\ rows[i].key.by \in ByDonor /\ rows[i].key.d = d
        /\ j \in DOMAIN rows /\ rows[j].key.by \in ByDonor /\ rows[j].key.d = d
        BY DEF CreditsOf, ByDonor
  <2>2. RowOK(rows[i]) /\ RowOK(rows[j]) /\ rows[i].key # rows[j].key
        BY <2>1 DEF Books, RowsOK, KeysUnique
  <2>3. PrepaidBy(First, rows[i].period).d = First /\ PrepaidBy(First, rows[j].period).d = First
        BY DEF PrepaidBy
  <2>4. ~(rows[i].key.by = "donation" /\ rows[j].key.by = "donation")
        BY <2>1, <2>2 DEF RowOK
  <2>5. rows[i].key.by = "prepaid" /\ rows[j].key.by = "prepaid"
        BY <2>1, <2>2, <2>3, <2>4 DEF RowOK, ByDonor
  <2>6. QED BY <2>1, <2>2, <2>3, <2>5 DEF RowOK
<1>2. QED BY <1>1, BooksKept, PTL

-----------------------------------------------------------------------------
(* What a donation that prepaid has credited, once its calls are over.     *)

\* All covered periods are paid, or a call is at work on later periods only.
Ahead(p) ==
    \/ sub.covered \subseteq PaidPeriods
    \/ \E c \in Calls : call[c].pc \in PrepaidLoop /\ \A q \in call[c].todo : p < q

\* A call that finds a period credited under the key of its donation and throws
\* leaves the later periods to the call that credited it, or to one ahead of that.
RunsAhead == \A i \in DOMAIN rows : rows[i].key.by = "prepaid" => Ahead(rows[i].period)

\* Whoever ended, the coverage is credited or a call is still at it.
StillCredits ==
    First \in Recorded =>
        \/ sub.covered \subseteq PaidPeriods
        \/ \E c \in Calls : call[c].pc \in PrepaidLoop

Coverages == RunsAhead /\ StillCredits

\* Calls in the prepaid loop stay there and take up no period, or all is paid.
LoopsGoOn ==
    \/ sub.covered \subseteq PaidPeriods'
    \/ \A b \in Calls : call[b].pc \in PrepaidLoop =>
           call'[b].pc \in PrepaidLoop /\ call'[b].todo \subseteq call[b].todo

\* No row is credited to the coverage.
NoCredit ==
    \A i \in DOMAIN rows' : rows'[i].key.by = "prepaid" =>
        i \in DOMAIN rows /\ rows[i].key.by = "prepaid"

\* No call ends as the record of the first donation, or nothing was covered.
NotRecorded == First \in Recorded' => First \in Recorded \/ sub.covered \subseteq PaidPeriods'

\* Who was ahead of a period stays ahead.
LEMMA AheadStays ==
    ASSUME NEW p, Ahead(p), Grows, UNCHANGED sub, LoopsGoOn
    PROVE  Ahead(p)'
<1>1. PaidPeriods \subseteq PaidPeriods'
      BY PaidGrow
<1>2. CASE sub.covered \subseteq PaidPeriods'
      BY <1>2 DEF Ahead
<1>3. CASE ~(sub.covered \subseteq PaidPeriods')
  <2>1. PICK b \in Calls : call[b].pc \in PrepaidLoop /\ \A q \in call[b].todo : p < q
        BY <1>1, <1>3 DEF Ahead
  <2>2. call'[b].pc \in PrepaidLoop /\ call'[b].todo \subseteq call[b].todo
        BY <1>3, <2>1 DEF LoopsGoOn
  <2>3. QED BY <2>1, <2>2 DEF Ahead
<1>4. QED BY <1>2, <1>3

\* Who credits stays at it.
LEMMA CreditsStay ==
    ASSUME StillCredits, Grows, UNCHANGED sub, LoopsGoOn, NotRecorded
    PROVE  StillCredits'
<1>1. PaidPeriods \subseteq PaidPeriods'
      BY PaidGrow
<1>2. SUFFICES ASSUME First \in Recorded', ~(sub.covered \subseteq PaidPeriods')
               PROVE  \E c \in Calls : call'[c].pc \in PrepaidLoop
      BY DEF StillCredits
<1>3. PICK b \in Calls : call[b].pc \in PrepaidLoop
      BY <1>1, <1>2 DEF StillCredits, NotRecorded
<1>4. QED BY <1>2, <1>3 DEF LoopsGoOn

\* Coverages lasts through a step that credits no period and gives up none.
LEMMA CoveragesStay ==
    ASSUME Coverages, Grows, UNCHANGED sub, LoopsGoOn, NoCredit, NotRecorded
    PROVE  Coverages'
<1>1. RunsAhead'
  <2>1. ASSUME NEW i \in DOMAIN rows', rows'[i].key.by = "prepaid", NEW p, p = rows'[i].period
        PROVE  Ahead(p)'
    <3>1. i \in DOMAIN rows /\ rows[i].key.by = "prepaid"
          BY <2>1 DEF NoCredit
    <3>2. p = rows[i].period
          BY <2>1, <3>1 DEF Grows
    <3>3. Ahead(p)
          BY <3>1, <3>2 DEF Coverages, RunsAhead
    <3>4. QED BY <3>3, AheadStays
  <2>2. QED BY <2>1 DEF RunsAhead, Ahead
<1>2. QED BY <1>1, CreditsStay DEF Coverages

\* One call moves outside the loop, or within it.
LEMMA LoopMoves ==
    ASSUME NEW c \in Calls, Only(c),
           call[c].pc \in PrepaidLoop =>
               call'[c].pc \in PrepaidLoop /\ call'[c].todo \subseteq call[c].todo
    PROVE  LoopsGoOn
BY DEF LoopsGoOn, Only

\* One call moves, and does not end as the record of the first donation.
LEMMA RecordMoves ==
    ASSUME NEW c \in Calls, Only(c),
           \/ call'[c].pc # "done"
           \/ call'[c].kind # "record"
           \/ call'[c].d # First
           \/ sub.covered \subseteq PaidPeriods'
    PROVE  NotRecorded
BY DEF NotRecorded, Recorded, Only

\* Where the rows stay, nothing is credited.
LEMMA NothingCredited == ASSUME UNCHANGED rows PROVE NoCredit
BY DEF NoCredit

\* A period that is paid leaves the loop, and the loop stays ahead of it.
LEMMA NextPeriodAhead ==
    ASSUME Books, NEW c \in Calls, NEW made, NextPeriod(c, made), call[c].pc \in PrepaidLoop,
           Grows, UNCHANGED sub, Min(call[c].todo) \in PaidPeriods'
    PROVE  \/ sub.covered \subseteq PaidPeriods'
           \/ /\ call'[c].pc \in PrepaidLoop
              /\ call'[c].todo \subseteq call[c].todo
              /\ \A q \in call'[c].todo : Min(call[c].todo) < q
<1> DEFINE least == Min(call[c].todo)
           rest  == call[c].todo \ {least}
<1>1. CallOK(call[c]) /\ DOMAIN call = Calls
      BY DEF Books, CallsOK
<1>2. /\ call[c].todo \subseteq Nat
      /\ least \in call[c].todo /\ \A q \in call[c].todo : least <= q
      BY <1>1, MinIsLeast DEF CallOK
<1>3. sub.covered \ rest \subseteq PaidPeriods'
      BY <1>1, PaidGrow DEF CallOK
<1>4. CASE rest = {}
      BY <1>3, <1>4
<1>5. CASE rest # {}
  <2>1. call' = [call EXCEPT ![c].todo = rest, ![c].made = made, ![c].pc = "prepaidKey"]
        BY <1>5 DEF NextPeriod
  <2>2. call'[c].pc = "prepaidKey" /\ call'[c].todo = rest
        BY <1>1, <2>1 DEF CallOK
  <2>3. \A q \in rest : least < q
        BY <1>2
  <2>4. QED BY <2>2, <2>3 DEF PrepaidLoop
<1>6. QED BY <1>4, <1>5

\* The call that leaves a period it did not credit keeps Coverages.
LEMMA NextPeriodCoverages ==
    ASSUME Books, Coverages, NEW c \in Calls, NEW made, NextPeriod(c, made),
           call[c].pc \in PrepaidLoop, UNCHANGED <<rows, sub>>,
           Min(call[c].todo) \in PaidPeriods
    PROVE  Coverages'
<1>1. Grows /\ PaidPeriods' = PaidPeriods
      BY RowsStay DEF Books
<1>2. Only(c)
      BY <1>1, NextPeriodMoves
<1>3. \/ sub.covered \subseteq PaidPeriods'
      \/ call'[c].pc \in PrepaidLoop /\ call'[c].todo \subseteq call[c].todo
      BY <1>1, NextPeriodAhead
<1>4. LoopsGoOn
      BY <1>2, <1>3 DEF LoopsGoOn, Only
<1>5. NotRecorded
  <2>1. CASE sub.covered \subseteq PaidPeriods'
        BY <2>1 DEF NotRecorded
  <2>2. CASE call'[c].pc \in PrepaidLoop
        BY <1>2, <2>2, RecordMoves DEF PrepaidLoop
  <2>3. QED BY <1>3, <2>1, <2>2
<1>6. QED BY <1>1, <1>4, <1>5, NothingCredited, CoveragesStay

-----------------------------------------------------------------------------
(* The steps of a call.                                                    *)

\* A step inside or outside the loop that does not end the call and keeps the rows.
LEMMA MoveCoverages ==
    ASSUME Books, Coverages, NEW c \in Calls, Only(c), UNCHANGED <<rows, sub>>,
           call[c].pc \in PrepaidLoop =>
               call'[c].pc \in PrepaidLoop /\ call'[c].todo \subseteq call[c].todo,
           \/ call'[c].pc # "done"
           \/ call'[c].kind # "record"
           \/ call'[c].d # First
           \/ sub.covered \subseteq PaidPeriods
    PROVE  Coverages'
<1>1. Grows /\ PaidPeriods' = PaidPeriods
      BY RowsStay DEF Books
<1>2. LoopsGoOn
      BY LoopMoves
<1>3. NotRecorded
      BY <1>1, RecordMoves
<1>4. QED BY <1>1, <1>2, <1>3, NothingCredited, CoveragesStay

\* A first donation that has an installment of its own covers nothing.
LEMMA ExistsCoverages ==
    ASSUME Books, Coverages, NEW c \in Calls, Exists(c)
    PROVE  Coverages'
<1>1. CallsOK /\ call[c].pc = "exists" /\ UNCHANGED <<rows, sub>>
      BY DEF Books, Exists
<1>2. call[c].pc \notin PrepaidLoop
      BY <1>1 DEF PrepaidLoop
<1>3. CASE ~Free(PaidBy(call[c].d), 0) /\ End(c)
  <2>1. PICK i \in DOMAIN rows : rows[i].key = PaidBy(call[c].d)
        BY <1>3 DEF Free
  <2>2. rows[i].key.by = "donation" /\ rows[i].key.d = call[c].d
        BY <2>1 DEF PaidBy
  <2>3. ~(call[c].d = First /\ sub.covered # {})
        BY <2>2 DEF Books, RowsOK, RowOK
  <2>4. Only(c) /\ call'[c].d = call[c].d
        BY <1>1, <1>3, EndMoves
  <2>5. QED BY <1>1, <1>2, <2>3, <2>4, MoveCoverages
<1>4. ASSUME NEW pc, pc \in {"prepaid", "dues"}, Goto(c, pc)
      PROVE  Coverages'
  <2>1. Only(c) /\ call'[c].pc = pc
        BY <1>1, <1>4, GotoMoves
  <2>2. QED BY <1>1, <1>2, <1>4, <2>1, MoveCoverages
<1>5. QED BY <1>3, <1>4 DEF Exists

\* The coverage is settled already, or the loop starts.
LEMMA PrepaidCoverages ==
    ASSUME Books, Coverages, NEW c \in Calls, Prepaid(c)
    PROVE  Coverages'
<1>1. CallsOK /\ DOMAIN call = Calls /\ call[c].pc = "prepaid" /\ UNCHANGED <<rows, sub>>
      BY DEF Books, Prepaid, CallsOK
<1>2. call[c].pc \notin PrepaidLoop
      BY <1>1 DEF PrepaidLoop
<1>3. CASE sub.covered \subseteq PaidPeriods /\ End(c)
      BY <1>1, <1>2, <1>3, EndMoves, MoveCoverages
<1>4. CASE call' = [call EXCEPT ![c].pc = "prepaidKey", ![c].todo = sub.covered]
  <2>1. Only(c) /\ call'[c].pc = "prepaidKey"
        BY <1>1, <1>4 DEF Only, CallsOK, CallOK
  <2>2. QED BY <1>1, <1>2, <2>1, MoveCoverages
<1>5. QED BY <1>3, <1>4 DEF Prepaid

\* The steps of the loop before a row is written.
LEMMA LoopCoverages ==
    ASSUME Books, Coverages, NEW c \in Calls,
           PrepaidKey(c) \/ PrepaidRow(c) \/ PrepaidLast(c)
    PROVE  Coverages'
<1> DEFINE period == Min(call[c].todo)
<1>1. /\ CallsOK /\ CallOK(call[c]) /\ DOMAIN call = Calls
      /\ call[c].pc \in PrepaidLoop /\ UNCHANGED <<rows, sub>>
      BY DEF Books, CallsOK, PrepaidKey, PrepaidRow, PrepaidLast, PrepaidLoop
<1>2. ASSUME NEW pc \in PrepaidLoop, Goto(c, pc)
      PROVE  Coverages'
  <2>1. Only(c) /\ call'[c].pc = pc /\ call'[c].todo = call[c].todo
        BY <1>1, <1>2, GotoMoves DEF SameLocals
  <2>2. QED BY <1>1, <1>2, <2>1, MoveCoverages DEF PrepaidLoop
<1>3. ASSUME NEW id, call' = [call EXCEPT ![c].pc = "prepaidUpdate", ![c].target = id]
      PROVE  Coverages'
  <2>1. Only(c) /\ call'[c].pc = "prepaidUpdate" /\ call'[c].todo = call[c].todo
        BY <1>1, <1>3 DEF Only, CallOK
  <2>2. QED BY <1>1, <2>1, MoveCoverages DEF PrepaidLoop
<1>4. ASSUME NEW made, NextPeriod(c, made), period \in PaidPeriods
      PROVE  Coverages'
      BY <1>1, <1>4, NextPeriodCoverages
<1>5. CASE PrepaidKey(c) /\ ~Free(PrepaidBy(call[c].d, period), 0)
  <2>1. PICK i \in DOMAIN rows : rows[i].key = PrepaidBy(call[c].d, period)
        BY <1>5 DEF Free
  <2>2. rows[i].period = period /\ rows[i].paid
    <3>1. RowOK(rows[i])
          BY DEF Books, RowsOK
    <3>2. rows[i].key.by = "prepaid" /\ rows[i].key.period = period
          BY <2>1 DEF PrepaidBy
    <3>3. Unpaid.by = "nobody" /\ PrepaidBy(First, rows[i].period).period = rows[i].period
          BY DEF Unpaid, PrepaidBy
    <3>4. QED BY <3>1, <3>2, <3>3 DEF RowOK
  <2>3. period \in PaidPeriods
        BY <2>2 DEF PaidPeriods
  <2>4. QED BY <1>4, <1>5, <2>3 DEF PrepaidKey
<1>6. CASE PrepaidKey(c) /\ Free(PrepaidBy(call[c].d, period), 0)
      BY <1>2, <1>6 DEF PrepaidKey, PrepaidLoop
<1>7. CASE PrepaidRow(c)
      BY <1>2, <1>3, <1>7 DEF PrepaidRow, PrepaidLoop
<1>8. CASE PrepaidLast(c)
      BY <1>2, <1>4, <1>8 DEF PrepaidLast, PrepaidLoop
<1>9. QED BY <1>5, <1>6, <1>7, <1>8

\* The period is credited already: the call that throws was behind another one.
LEMMA ThrowCoverages ==
    ASSUME Books, Coverages, NEW c \in Calls, PrepaidWrite(c), End(c), UNCHANGED rows,
           NEW other \in DOMAIN rows,
           rows[other].key = PrepaidBy(call[c].d, Min(call[c].todo))
    PROVE  Coverages'
<1>1. /\ CallsOK /\ CallOK(call[c]) /\ call[c].pc \in PrepaidLoop /\ UNCHANGED <<rows, sub>>
      BY DEF Books, CallsOK, PrepaidWrite, PrepaidLoop
<1>2. PICK q : q = Min(call[c].todo)
      OBVIOUS
<1>3. q \in Nat /\ q \in call[c].todo
      BY <1>1, <1>2, MinIsLeast DEF CallOK
<1>4. rows[other].key.by = "prepaid" /\ rows[other].period = q
  <2>1. RowOK(rows[other])
        BY DEF Books, RowsOK
  <2>2. rows[other].key.by = "prepaid" /\ rows[other].key.period = q
        BY <1>2 DEF PrepaidBy
  <2>3. PrepaidBy(First, rows[other].period).period = rows[other].period
        BY DEF PrepaidBy
  <2>4. QED BY <2>1, <2>2, <2>3 DEF RowOK
<1>5. Grows /\ PaidPeriods' = PaidPeriods
      BY <1>1, RowsStay DEF Books
<1>6. Only(c)
      BY <1>1, EndMoves
<1>7. Ahead(q)
      BY <1>4 DEF Coverages, RunsAhead
<1>8. CASE sub.covered \subseteq PaidPeriods
  <2>1. LoopsGoOn /\ NotRecorded
        BY <1>5, <1>8 DEF LoopsGoOn, NotRecorded
  <2>2. QED BY <1>1, <1>5, <2>1, NothingCredited, CoveragesStay
<1>9. CASE ~(sub.covered \subseteq PaidPeriods)
  <2>1. PICK b \in Calls : call[b].pc \in PrepaidLoop /\ \A r \in call[b].todo : q < r
        BY <1>7, <1>9 DEF Ahead
  <2>2. b # c
        BY <1>3, <2>1
  <2>3. /\ call'[b] = call[b] /\ call[b].todo \subseteq Nat
        BY <1>6, <2>2 DEF Only, Books, CallsOK, CallOK
  <2>4. ASSUME NEW i \in DOMAIN rows', rows'[i].key.by = "prepaid", NEW p, p = rows'[i].period
        PROVE  Ahead(p)'
    <3>1. Ahead(p) /\ p \in Nat
      <4>1. Ahead(p) /\ p \in sub.covered
            BY <1>1, <2>4 DEF Coverages, RunsAhead, Books, RowsOK, RowOK
      <4>2. QED BY <4>1 DEF Books, Start
    <3>2. PICK a \in Calls : call[a].pc \in PrepaidLoop /\ \A r \in call[a].todo : p < r
          BY <1>9, <3>1 DEF Ahead
    <3>3. CASE a # c
          BY <1>6, <3>2, <3>3 DEF Only, Ahead
    <3>4. CASE a = c
      <4>1. p < q
            BY <1>3, <3>2, <3>4
      <4>2. \A r \in call[b].todo : p < r
            BY <1>3, <2>1, <2>3, <3>1, <4>1
      <4>3. QED BY <2>1, <2>3, <4>2 DEF Ahead
    <3>5. QED BY <3>3, <3>4
  <2>5. RunsAhead'
        BY <2>4 DEF RunsAhead, Ahead
  <2>6. StillCredits'
        BY <2>1, <2>3 DEF StillCredits
  <2>7. QED BY <2>5, <2>6 DEF Coverages
<1>10. QED BY <1>8, <1>9

\* A call that credits a period goes on to later ones, or has paid the last.
LEMMA CreditCoverages ==
    ASSUME Books, Coverages, NEW c \in Calls, PrepaidWrite(c), NEW period,
           period = Min(call[c].todo), NEW id, NEW key,
           key.by = "prepaid", key.by \in ByDonor => Free(key, id),
           key.by = "prepaid" => key = PrepaidBy(First, period) /\ period \in sub.covered,
           Pay(id, period, key), NextPeriod(c, TRUE), period = PeriodOf(id, period)
    PROVE  Coverages'
<1>1. /\ CallsOK /\ CallOK(call[c]) /\ call[c].pc \in PrepaidLoop /\ UNCHANGED sub
      BY DEF Books, CallsOK, PrepaidWrite, PrepaidLoop
<1>2. Grows /\ period \in PaidPeriods'
      BY <1>1, PayRows DEF Books
<1>3. PICK k : Touched(k, id, period, key)
      BY PayPlace DEF Books
<1>4. Only(c)
      BY <1>1, <1>2, NextPeriodMoves
<1>5. \/ sub.covered \subseteq PaidPeriods'
      \/ /\ call'[c].pc \in PrepaidLoop
         /\ call'[c].todo \subseteq call[c].todo
         /\ \A q \in call'[c].todo : period < q
      BY <1>1, <1>2, NextPeriodAhead
<1>6. LoopsGoOn
      BY <1>4, <1>5 DEF LoopsGoOn, Only
<1>7. NotRecorded
  <2>1. CASE sub.covered \subseteq PaidPeriods'
        BY <2>1 DEF NotRecorded
  <2>2. CASE call'[c].pc \in PrepaidLoop
        BY <1>4, <2>2, RecordMoves DEF PrepaidLoop
  <2>3. QED BY <1>5, <2>1, <2>2
<1>8. ASSUME NEW i \in DOMAIN rows', rows'[i].key.by = "prepaid", NEW p, p = rows'[i].period
      PROVE  Ahead(p)'
  <2>1. CASE i = k
    <3>1. p = period
          BY <1>3, <1>8, <2>1 DEF Touched
    <3>2. QED BY <1>1, <1>5, <3>1 DEF Ahead
  <2>2. CASE i # k
    <3>1. i \in DOMAIN rows /\ rows'[i] = rows[i]
          BY <1>3, <2>2 DEF Touched
    <3>2. Ahead(p)
          BY <1>8, <3>1 DEF Coverages, RunsAhead
    <3>3. QED BY <1>1, <1>2, <1>6, <3>2, AheadStays
  <2>3. QED BY <2>1, <2>2
<1>9. RunsAhead'
      BY <1>8 DEF RunsAhead, Ahead
<1>10. StillCredits'
      BY <1>1, <1>2, <1>6, <1>7, CreditsStay DEF Coverages
<1>11. QED BY <1>9, <1>10 DEF Coverages

\* A covered period is written, or is credited already.
LEMMA PrepaidWriteCoverages ==
    ASSUME Books, Coverages, NEW c \in Calls, PrepaidWrite(c)
    PROVE  Coverages'
<1> DEFINE period == Min(call[c].todo)
           key    == PrepaidBy(call[c].d, period)
           id     == IF call[c].pc = "prepaidUpdate" THEN call[c].target ELSE 0
<1>1. /\ CallOK(call[c]) /\ call[c].pc \in {"prepaidUpdate", "prepaidInsert"}
      BY DEF Books, CallsOK, PrepaidWrite
<1>2. CASE ~Free(key, id)
  <2>1. End(c) /\ UNCHANGED rows
        BY <1>2 DEF PrepaidWrite
  <2>2. PICK other \in DOMAIN rows : rows[other].key = key
        BY <1>2 DEF Free
  <2>3. QED BY <2>1, <2>2, ThrowCoverages
<1>3. CASE Free(key, id)
  <2>1. Pay(id, period, key) /\ NextPeriod(c, TRUE)
        BY <1>3 DEF PrepaidWrite
  <2>2. call[c].d = First /\ period \in call[c].todo /\ period \in sub.covered
        BY <1>1, MinIsLeast DEF CallOK, PrepaidLoop
  <2>3. PeriodOf(id, period) = period
    <3>1. CASE call[c].pc = "prepaidUpdate"
          BY <1>1, <3>1 DEF CallOK, PeriodOf
    <3>2. CASE call[c].pc = "prepaidInsert"
      <4>1. 0 \notin DOMAIN rows
        <5>1. PICK S : rows \in Seq(S)
              BY DEF Books, RowsOK
        <5>2. QED BY <5>1
      <4>2. QED BY <3>2, <4>1 DEF PeriodOf
    <3>3. QED BY <1>1, <3>1, <3>2
  <2>4. key.by = "prepaid" /\ key = PrepaidBy(First, period)
        BY <2>2 DEF PrepaidBy
  <2>5. period = Min(call[c].todo)
        OBVIOUS
  <2> HIDE DEF key, id, period
  <2>6. QED BY <1>3, <2>1, <2>2, <2>3, <2>4, <2>5, CreditCoverages
<1>4. QED BY <1>2, <1>3

\* After the loop all covered periods are paid.
LEMMA CoverageCoverages ==
    ASSUME Books, Coverages, NEW c \in Calls, Coverage(c)
    PROVE  Coverages'
<1>1. /\ CallsOK /\ CallOK(call[c]) /\ call[c].pc = "coverage" /\ UNCHANGED <<rows, sub>>
      BY DEF Books, CallsOK, Coverage
<1>2. sub.covered \subseteq PaidPeriods
      BY <1>1 DEF CallOK
<1>3. End(c)
      BY <1>2 DEF Coverage
<1>4. Only(c) /\ call[c].pc \notin PrepaidLoop
      BY <1>1, <1>3, EndMoves DEF PrepaidLoop
<1>5. QED BY <1>1, <1>2, <1>4, MoveCoverages

\* Outside the prepaid loop a call credits no covered period, and the first donation
\* comes to the dues only when it covers none.
LEMMA OutsideCoverages ==
    ASSUME Books, Coverages, NEW c \in Calls, Only(c), UNCHANGED sub, Grows, NoCredit,
           call[c].pc \in DueSteps \union {"mark"},
           \/ call'[c].pc # "done"
           \/ call'[c].kind = call[c].kind /\ call'[c].d = call[c].d
    PROVE  Coverages'
<1>1. CallOK(call[c]) /\ call[c].pc \notin PrepaidLoop
      BY DEF Books, CallsOK, DueSteps, PrepaidLoop
<1>2. LoopsGoOn
      BY <1>1, LoopMoves
<1>3. NotRecorded
  <2>1. CASE call'[c].pc # "done"
        BY <2>1, RecordMoves
  <2>2. CASE call'[c].kind = call[c].kind /\ call'[c].d = call[c].d
    <3>1. CASE call[c].pc = "mark"
          BY <1>1, <2>2, <3>1, RecordMoves DEF CallOK
    <3>2. CASE call[c].pc \in DueSteps
      <4>1. \/ call'[c].kind # "record" \/ call'[c].d # First \/ sub.covered = {}
            BY <1>1, <2>2, <3>2 DEF CallOK
      <4>2. QED BY <4>1, RecordMoves
    <3>3. QED BY <3>1, <3>2
  <2>3. QED BY <2>1, <2>2
<1>4. QED BY <1>2, <1>3, CoveragesStay

\* The end of the dues, or the way to the oldest.
LEMMA AfterDuesCoverages ==
    ASSUME Books, Coverages, NEW c \in Calls, AfterDues(c), call[c].pc \in {"dues", "open"},
           UNCHANGED sub, Grows, NoCredit
    PROVE  Coverages'
<1>1. CallsOK /\ call[c].pc \in DueSteps \union {"mark"}
      BY DEF Books, DueSteps
<1>2. CASE Goto(c, "oldest")
      BY <1>1, <1>2, GotoMoves, OutsideCoverages
<1>3. CASE End(c)
      BY <1>1, <1>3, EndMoves, OutsideCoverages
<1>4. QED BY <1>2, <1>3 DEF AfterDues

\* The dues are looked up.
LEMMA DuesCoverages ==
    ASSUME Books, Coverages, NEW c \in Calls, Dues(c)
    PROVE  Coverages'
<1>1. /\ Grows /\ NoCredit /\ UNCHANGED <<rows, sub>> /\ call[c].pc = "dues"
      /\ CallOK(call[c]) /\ DOMAIN call = Calls
      BY RowsStay, NothingCredited DEF Dues, Books, CallsOK
<1>2. CASE AfterDues(c)
      BY <1>1, <1>2, AfterDuesCoverages
<1>3. ASSUME NEW periods, call' = [call EXCEPT ![c].todo = periods, ![c].pc = "open"]
      PROVE  Coverages'
  <2>1. Only(c) /\ call'[c].pc = "open"
        BY <1>1, <1>3 DEF Only, CallOK
  <2>2. QED BY <1>1, <2>1, OutsideCoverages DEF DueSteps
<1>4. QED BY <1>2, <1>3 DEF Dues

\* A due that is opened is nobody's credit.
LEMMA OpenCoverages ==
    ASSUME Books, Coverages, NEW c \in Calls, Open(c)
    PROVE  Coverages'
<1> DEFINE period == Min(call[c].todo)
           rest   == call[c].todo \ {period}
           r      == [period |-> period, paid |-> FALSE, key |-> Unpaid]
<1>1. /\ CallOK(call[c]) /\ call[c].pc = "open" /\ UNCHANGED sub /\ DOMAIN call = Calls
      BY DEF Books, CallsOK, Open
<1>2. period \in Nat
      BY <1>1, MinIsLeast DEF CallOK
<1>3. Grows
      BY <1>1, <1>2, OpenRows DEF Open, Books
<1>4. NoCredit
  <2>1. PICK S : rows \in Seq(S)
        BY DEF Books, RowsOK
  <2>2. r.key.by = "nobody"
        BY DEF Unpaid
  <2>3. rows' = Append(rows, r)
        BY DEF Open
  <2> HIDE DEF r
  <2>4. /\ DOMAIN rows' = DOMAIN rows \union {Len(rows) + 1}
        /\ \A i \in DOMAIN rows : rows'[i] = rows[i]
        /\ rows'[Len(rows) + 1] = r
        BY <2>1, <2>3, AppendPlace
  <2>5. QED BY <2>2, <2>4 DEF NoCredit
<1>5. CASE AfterDues(c)
      BY <1>1, <1>3, <1>4, <1>5, AfterDuesCoverages
<1>6. CASE call' = [call EXCEPT ![c].todo = rest]
  <2>1. Only(c) /\ call'[c].pc = "open"
        BY <1>1, <1>6 DEF Only, CallOK
  <2>2. QED BY <1>1, <1>3, <1>4, <2>1, OutsideCoverages DEF DueSteps
<1>7. QED BY <1>5, <1>6 DEF Open

\* The oldest due is picked.
LEMMA PickOldestCoverages ==
    ASSUME Books, Coverages, NEW c \in Calls, PickOldest(c)
    PROVE  Coverages'
<1> DEFINE id == IF Pending = {} THEN 0 ELSE Oldest
<1>1. /\ Grows /\ NoCredit /\ UNCHANGED <<rows, sub>> /\ call[c].pc = "oldest"
      /\ CallOK(call[c]) /\ DOMAIN call = Calls
      BY RowsStay, NothingCredited DEF PickOldest, Books, CallsOK
<1>2. call' = [call EXCEPT ![c].pc = "settle", ![c].target = id]
      BY DEF PickOldest
<1> HIDE DEF id
<1>3. Only(c) /\ call'[c].pc = "settle"
      BY <1>1, <1>2 DEF Only, CallOK
<1>4. QED BY <1>1, <1>3, OutsideCoverages DEF DueSteps

\* Rows paid under the key of another donation, or by staff, are no coverage.
LEMMA PayCoverages ==
    ASSUME Books, UNCHANGED sub, NEW id, NEW period, NEW key, Pay(id, period, key),
           key.by # "prepaid", key.by \in ByDonor => Free(key, id),
           key.by = "donation" => key = PaidBy(key.d) /\ ~(key.d = First /\ sub.covered # {})
    PROVE  Grows /\ NoCredit
<1>1. PICK p : p = PeriodOf(id, period)
      OBVIOUS
<1>2. Grows
      BY <1>1, PayRows DEF Books
<1>3. PICK k : Touched(k, id, PeriodOf(id, period), key)
      BY PayPlace DEF Books
<1>4. NoCredit
      BY <1>3 DEF Touched, NoCredit
<1>5. QED BY <1>2, <1>4

\* A donation that did not prepay settles a due.
LEMMA SettleCoverages ==
    ASSUME Books, Coverages, NEW c \in Calls, Settle(c)
    PROVE  Coverages'
<1> DEFINE d   == call[c].d
           id  == call[c].target
           now == PeriodKey(sub.plan.freq, today)
           key == PaidBy(d)
<1>1. /\ CallsOK /\ CallOK(call[c]) /\ call[c].pc = "settle" /\ UNCHANGED sub /\ End(c)
      BY DEF Books, CallsOK, Settle
<1>2. ~(d = First /\ sub.covered # {})
      BY <1>1 DEF CallOK, DueSteps
<1>3. key.by = "donation" /\ key.d = d
      BY DEF PaidBy
<1>4. Grows /\ NoCredit
  <2>1. CASE Free(key, id)
    <3>1. Pay(id, now, key)
          BY <2>1 DEF Settle
    <3> HIDE DEF key, id, now, d
    <3>2. key = PaidBy(key.d)
          BY <1>3 DEF key
    <3>3. QED BY <1>1, <1>2, <1>3, <2>1, <3>1, <3>2, PayCoverages
  <2>2. CASE ~Free(key, id)
        BY <1>1, <2>2, RowsStay, NothingCredited DEF Settle, Books
  <2>3. QED BY <2>1, <2>2
<1>5. QED BY <1>1, <1>4, EndMoves, OutsideCoverages DEF DueSteps

\* Staff mark a row.
LEMMA MarkRowCoverages ==
    ASSUME Books, Coverages, NEW c \in Calls, MarkRow(c)
    PROVE  Coverages'
<1> DEFINE id   == Min(call[c].todo)
           rest == call[c].todo \ {id}
           key  == MarkedByStaff(id)
<1>1. /\ CallsOK /\ CallOK(call[c]) /\ call[c].pc = "mark" /\ UNCHANGED sub
      /\ DOMAIN call = Calls /\ Pay(id, rows[id].period, key)
      BY DEF Books, CallsOK, MarkRow
<1>2. key.by = "staff"
      BY DEF MarkedByStaff
<1>3. Grows /\ NoCredit
  <2> DEFINE period == rows[id].period
  <2>1. Pay(id, period, key)
        BY <1>1
  <2> HIDE DEF key, period
  <2>2. QED BY <1>1, <1>2, <2>1, PayCoverages DEF ByDonor
<1>4. CASE End(c)
      BY <1>1, <1>3, <1>4, EndMoves, OutsideCoverages
<1>5. CASE call' = [call EXCEPT ![c].todo = rest]
  <2>1. Only(c) /\ call'[c].pc = "mark"
        BY <1>1, <1>5 DEF Only, CallOK
  <2>2. QED BY <1>1, <1>3, <2>1, OutsideCoverages
<1>6. QED BY <1>4, <1>5 DEF MarkRow

\* Every step of a call keeps Coverages.
LEMMA StepCoverages ==
    ASSUME Books, Coverages, NEW c \in Calls, Step(c)
    PROVE  Coverages'
BY ExistsCoverages, PrepaidCoverages, LoopCoverages, PrepaidWriteCoverages,
   CoverageCoverages, DuesCoverages, OpenCoverages, PickOldestCoverages, SettleCoverages,
   MarkRowCoverages DEF Step

\* A call that arrives is no record yet.
LEMMA ArriveCoverages ==
    ASSUME Books, Coverages, NEW c \in Calls, NEW kind, NEW l, Arrive(c, kind, l),
           l.pc # "done"
    PROVE  Coverages'
<1>1. UNCHANGED <<rows, sub>> /\ DOMAIN call = Calls /\ call[c].pc = "idle"
      BY DEF Arrive, Books, CallsOK
<1>2. call'[c] = l /\ Only(c)
      BY <1>1 DEF Arrive, Only
<1>3. call[c].pc \notin PrepaidLoop
      BY <1>1 DEF PrepaidLoop
<1>4. QED BY <1>1, <1>2, <1>3, MoveCoverages

\* Whatever calls credit a prepaid donation, and wherever the unique key turns one of
\* them away: once its payment was recorded and nothing runs, all it covers is paid.
THEOREM CoverageIsCredited == Spec => []CoverageCredited
<1>1. Init => Coverages
  <2> SUFFICES ASSUME Init PROVE Coverages
      OBVIOUS
  <2>1. rows = <<>> /\ sub.covered = {}
        BY DEF Init, NoSub
  <2>2. QED BY <2>1 DEF Coverages, RunsAhead, StillCredits
<1>2. Books /\ Coverages /\ [Next]_vars => Coverages'
  <2> SUFFICES ASSUME Books, Coverages, [Next]_vars PROVE Coverages'
      OBVIOUS
  <2>1. ASSUME UNCHANGED <<rows, sub, call>>
        PROVE  Coverages'
        BY <2>1 DEF Coverages, RunsAhead, StillCredits, Ahead, Recorded, PaidPeriods
  <2>2. CASE UNCHANGED vars
        BY <2>1, <2>2 DEF vars
  <2>3. ASSUME NEW d \in Donations, Complete(d)
        PROVE  Coverages'
        BY <2>1, <2>3 DEF Complete
  <2>4. ASSUME NEW day \in Today, NextDay(day)
        PROVE  Coverages'
        BY <2>1, <2>4 DEF NextDay
  <2>5. ASSUME NEW plan \in Plans, Subscribe(plan)
        PROVE  Coverages'
    <3>1. rows = <<>> /\ UNCHANGED <<rows, call>> /\ \A c \in Calls : call[c].pc = "idle"
          BY <2>5 DEF Subscribe, Books, Start
    <3>2. QED BY <3>1 DEF Coverages, RunsAhead, StillCredits, Recorded
  <2>6. ASSUME NEW c \in Calls,
               \/ \E d \in Donations : Record(c, d)
               \/ View(c)
               \/ Remind(c)
               \/ \E ids \in SUBSET Pending : Mark(c, ids)
        PROVE  Coverages'
    <3>1. \E kind, l : Arrive(c, kind, l) /\ l.pc # "done"
      <4>1. CASE \E d \in Donations : Record(c, d)
        <5>1. PICK d \in Donations : Record(c, d)
              BY <4>1
        <5>2. [Idle EXCEPT !.pc = "exists", !.kind = "record", !.d = d].pc # "done"
              BY DEF Idle
        <5>3. QED BY <5>1, <5>2, Zenon DEF Record
      <4>2. CASE View(c)
        <5>1. [Idle EXCEPT !.pc = "dues", !.kind = "view"].pc # "done"
              BY DEF Idle
        <5>2. QED BY <4>2, <5>1, Zenon DEF View
      <4>3. CASE Remind(c)
        <5>1. PICK period : Arrive(c, "remind", [Idle EXCEPT !.pc = "dues", !.kind = "remind",
                                                              !.upTo = period])
              BY <4>3 DEF Remind
        <5>2. [Idle EXCEPT !.pc = "dues", !.kind = "remind", !.upTo = period].pc # "done"
              BY DEF Idle
        <5>3. QED BY <5>1, <5>2, Zenon
      <4>4. CASE \E ids \in SUBSET Pending : Mark(c, ids)
        <5>1. PICK ids \in SUBSET Pending : Mark(c, ids)
              BY <4>4
        <5>2. [Idle EXCEPT !.pc = "mark", !.kind = "mark", !.todo = ids].pc # "done"
              BY DEF Idle
        <5>3. QED BY <5>1, <5>2, Zenon DEF Mark
      <4>5. QED BY <2>6, <4>1, <4>2, <4>3, <4>4
    <3>2. QED BY <3>1, ArriveCoverages
  <2>7. QED BY <2>2, <2>3, <2>4, <2>5, <2>6, StepCoverages DEF Next
<1>3. Books /\ Coverages => CoverageCredited
  <2>1. ASSUME Quiet, NEW c \in Calls PROVE call[c].pc \notin PrepaidLoop
        BY <2>1 DEF Quiet, Running, PrepaidLoop
  <2>2. QED BY <2>1 DEF Coverages, StillCredits, CoverageCredited
<1>4. QED BY <1>1, <1>2, <1>3, BooksKept, PTL DEF Spec

-----------------------------------------------------------------------------
(* What the ledger keeps as long as no two calls run at once.              *)

\* Nothing that is paid is due as well, and nothing is due twice.
OneDue == \A id \in Pending : RowsOf(rows[id].period) = {id}

\* What a call has found out still holds.
Current(c) ==
    /\ call[c].pc = "open" => \A period \in call[c].todo : RowsOf(period) = {}
    /\ call[c].pc \in {"prepaidLast", "prepaidInsert"} => RowsOf(Min(call[c].todo)) = {}
    /\ call[c].pc = "settle" => call[c].target = IF Pending = {} THEN 0 ELSE Oldest
    /\ call[c].pc = "mark" => call[c].todo \subseteq Pending

Kept == sub.covered = {} => \A d \in Recorded : CreditsOf(d) # {}

Serial ==
    ~overlapped => /\ \A b, c \in Calls : Running(b) /\ Running(c) => b = c
                   /\ OneDue
                   /\ \A c \in Calls : Current(c)
                   /\ Kept

\* The row picked to be settled is due, and none is due for an older period.
LEMMA OldestIsOldest ==
    ASSUME Books, Pending # {}
    PROVE  /\ Oldest \in Pending
           /\ \A other \in Pending : rows[Oldest].period <= rows[other].period
<1> DEFINE periods == {rows[id].period : id \in Pending}
           p == Min(periods)
           ids == {id \in Pending : rows[id].period = p}
           i == Min(ids)
<1>1. \A id \in Pending : rows[id].period \in Nat
      BY DEF Books, RowsOK, RowOK, Pending
<1>2. p \in periods /\ \A q \in periods : p <= q
      BY <1>1, MinIsLeast
<1>3. Pending \subseteq Nat
  <2>1. PICK S : rows \in Seq(S)
        BY DEF Books, RowsOK
  <2>2. QED BY <2>1 DEF Pending
<1>4. i \in ids /\ \A j \in ids : i <= j
  <2>1. ids \subseteq Nat /\ ids # {}
        BY <1>2, <1>3
  <2> HIDE DEF ids
  <2>2. QED BY <2>1, MinIsLeast
<1> HIDE DEF p, i
<1>5. ASSUME NEW other \in Pending
      PROVE  \/ rows[i].period < rows[other].period
             \/ rows[i].period = rows[other].period /\ i <= other
  <2>1. rows[i].period = p /\ p <= rows[other].period /\ p \in Nat /\ rows[other].period \in Nat
        BY <1>1, <1>2, <1>4
  <2>2. CASE rows[other].period = p
        BY <1>4, <2>1, <2>2
  <2>3. CASE rows[other].period # p
        BY <2>1, <2>3
  <2>4. QED BY <2>2, <2>3
<1>6. /\ Oldest \in Pending
      /\ \A other \in Pending :
            \/ rows[Oldest].period < rows[other].period
            \/ rows[Oldest].period = rows[other].period /\ Oldest <= other
      BY <1>4, <1>5 DEF Oldest
<1>7. QED BY <1>1, <1>6

\* A call that moves alone leaves Serial to what it did itself.
LEMMA SerialMove ==
    ASSUME Serial, NEW c \in Calls, Running(c), Only(c), UNCHANGED overlapped,
           ~overlapped => OneDue' /\ Current(c)' /\ Kept'
    PROVE  Serial'
<1> SUFFICES ASSUME ~overlapped PROVE Serial'
    BY DEF Serial
<1>1. \A b \in Calls : b # c => ~Running(b) /\ call'[b] = call[b]
      BY DEF Serial, Only
<1>2. \A b \in Calls : b # c => ~Running(b)' /\ Current(b)'
      BY <1>1 DEF Running, Current
<1>3. QED BY <1>2 DEF Serial

\* A call records a donation only when it ends as a record.
LEMMA KeptMove ==
    ASSUME Kept, CallsOK, NEW c \in Calls, Only(c), UNCHANGED sub,
           \A d : CreditsOf(d) \subseteq CreditsOf(d)',
           call'[c].pc # "done" \/ call'[c].kind # "record" \/ CreditsOf(call[c].d)' # {}
    PROVE  Kept'
<1> SUFFICES ASSUME sub.covered = {}, NEW d \in Recorded', CreditsOf(d)' = {}
             PROVE  FALSE
    BY DEF Kept
<1>1. CreditsOf(d) = {} /\ d \notin Recorded
      BY DEF Kept
<1>2. PICK b \in Calls : call'[b].pc = "done" /\ call'[b].kind = "record" /\ call'[b].d = d
      BY DEF Recorded
<1>3. b = c
      BY <1>1, <1>2 DEF Recorded, Only
<1>4. QED BY <1>2, <1>3

\* Where the rows stay, dues and credits stay.
LEMMA DuesStay ==
    ASSUME UNCHANGED rows
    PROVE  /\ OneDue => OneDue'
           /\ Pending' = Pending
           /\ Oldest' = Oldest
           /\ \A d : CreditsOf(d)' = CreditsOf(d)
           /\ \A period : RowsOf(period)' = RowsOf(period)
BY DEF OneDue, Pending, RowsOf, CreditsOf, Oldest

\* An update of a row that is due takes nobody's credit, and no update or insertion
\* makes a period due twice unless it pays one that is due elsewhere.
LEMMA PaySerial ==
    ASSUME Books, NEW k, NEW id, NEW p, NEW key, Touched(k, id, p, key)
    PROVE  /\ Pending' = Pending \ {k}
           /\ k \in Pending \/ k \notin DOMAIN rows => \A d : CreditsOf(d) \subseteq CreditsOf(d)'
           /\ OneDue /\ id \in DOMAIN rows => OneDue'
           /\ OneDue /\ RowsOf(p) = {} => OneDue'
           /\ Pending = {} => OneDue'
<1>1. Pending' = Pending \ {k}
      BY DEF Touched, Pending
<1>2. ASSUME k \in Pending \/ k \notin DOMAIN rows, NEW d
      PROVE  CreditsOf(d) \subseteq CreditsOf(d)'
  <2>1. k \notin CreditsOf(d)
        BY <1>2 DEF CreditsOf, Pending, Books, RowsOK, RowOK, Unpaid
  <2>2. QED BY <2>1 DEF CreditsOf, Touched
<1>3. CASE OneDue /\ id \in DOMAIN rows
  <2>1. \A period : RowsOf(period)' = RowsOf(period)
        BY <1>3 DEF RowsOf, Touched
  <2>2. \A i \in Pending' : i \in Pending /\ rows'[i].period = rows[i].period
        BY <1>1 DEF Touched, Pending
  <2>3. ASSUME NEW i \in Pending' PROVE RowsOf(rows[i].period)' = {i}
    <3>1. RowsOf(rows[i].period) = {i} /\ rows'[i].period = rows[i].period
          BY <1>3, <2>2, <2>3 DEF OneDue
    <3>2. RowsOf(rows[i].period)' = RowsOf(rows[i].period)
          BY <1>3, <3>1 DEF RowsOf, Touched
    <3>3. QED BY <3>1, <3>2
  <2>4. OneDue'
        BY <2>3 DEF OneDue
  <2>5. QED BY <1>1, <1>2, <1>3, <2>4
<1>4. CASE OneDue /\ RowsOf(p) = {} /\ id \notin DOMAIN rows
  <2>1. ASSUME NEW i \in Pending' PROVE RowsOf(rows[i].period)' = {i}
    <3>1. i \in Pending /\ rows'[i] = rows[i] /\ i # k
          BY <1>1, <2>1 DEF Touched, Pending
    <3>2. rows[i].period # p
          BY <1>4, <3>1 DEF RowsOf, Pending
    <3>3. RowsOf(rows[i].period)' = RowsOf(rows[i].period)
          BY <1>4, <3>1, <3>2 DEF RowsOf, Touched
    <3>4. QED BY <1>4, <3>1, <3>3 DEF OneDue
  <2>2. OneDue'
        BY <2>1 DEF OneDue
  <2>3. QED BY <1>1, <1>2, <1>4, <2>2
<1>5. Pending = {} => OneDue'
      BY <1>1 DEF OneDue
<1>6. QED BY <1>1, <1>2, <1>3, <1>4, <1>5

\* A step that leaves the rows as they are leaves what was true of them.
LEMMA QuietSerial ==
    ASSUME Books, Serial, NEW c \in Calls, Running(c), Only(c), UNCHANGED <<rows, sub, overlapped>>,
           ~overlapped => Current(c)',
           \/ sub.covered # {}
           \/ call'[c].pc # "done"
           \/ call'[c].kind # "record"
           \/ CreditsOf(call[c].d)' # {}
    PROVE  Serial'
<1>1. CASE ~overlapped
  <2>1. OneDue'
        BY <1>1, DuesStay DEF Serial
  <2>2. Kept'
    <3>1. CASE sub.covered # {}
          BY <3>1 DEF Kept
    <3>2. CASE sub.covered = {}
          BY <1>1, <3>2, DuesStay, KeptMove DEF Serial, Books
    <3>3. QED BY <3>1, <3>2
  <2>3. QED BY <2>1, <2>2, SerialMove
<1>2. CASE overlapped
      BY <1>2, SerialMove
<1>3. QED BY <1>1, <1>2

\* Steps that do nothing a later one depends on.
LEMMA PlainSerial ==
    ASSUME Books, Serial, NEW c \in Calls,
           Exists(c) \/ Prepaid(c) \/ PrepaidKey(c) \/ Coverage(c)
    PROVE  Serial'
<1>1. /\ UNCHANGED <<rows, sub, overlapped>> /\ CallOK(call[c]) /\ DOMAIN call = Calls
      /\ call[c].pc \in {"exists", "prepaid", "prepaidKey", "coverage"} /\ Running(c)
      BY DEF Exists, Prepaid, PrepaidKey, Coverage, Books, CallsOK, Running
<1>2. ASSUME NEW pc \in Steps \ {"open", "prepaidLast", "prepaidInsert", "settle", "mark", "done"},
             Goto(c, pc)
      PROVE  Serial'
  <2>1. Only(c) /\ call'[c].pc = pc
        BY <1>2, GotoMoves DEF Books
  <2>2. QED BY <1>1, <1>2, <2>1, QuietSerial DEF Current
<1>3. ASSUME End(c), sub.covered # {} \/ CreditsOf(call[c].d) # {}
      PROVE  Serial'
  <2>1. Only(c) /\ call'[c].pc = "done" /\ call'[c].d = call[c].d
        BY <1>3, EndMoves DEF Books
  <2>2. CreditsOf(call[c].d)' = CreditsOf(call[c].d)
        BY <1>1, <2>1 DEF CreditsOf
  <2>3. QED BY <1>1, <1>3, <2>1, <2>2, QuietSerial DEF Current
<1>4. ASSUME NEW todo, NEW made, NEW pc \in {"prepaidKey", "coverage"},
             call' = [call EXCEPT ![c].todo = todo, ![c].made = made, ![c].pc = pc]
      PROVE  Serial'
  <2>1. Only(c) /\ call'[c].pc = pc
        BY <1>1, <1>4 DEF Only, CallOK
  <2>2. QED BY <1>1, <1>4, <2>1, QuietSerial DEF Current
<1>5. CASE Exists(c)
  <2>1. ~Free(PaidBy(call[c].d), 0) => CreditsOf(call[c].d) # {}
        BY DEF Free, CreditsOf, PaidBy
  <2>2. {"prepaid", "dues"} \subseteq Steps
        BY DEF Steps
  <2>3. QED BY <1>2, <1>3, <1>5, <2>1, <2>2 DEF Exists
<1>6. CASE Prepaid(c)
  <2>1. sub.covered # {}
        BY <1>1, <1>6 DEF Prepaid, CallOK
  <2>2. CASE call' = [call EXCEPT ![c].pc = "prepaidKey", ![c].todo = sub.covered]
    <3>1. Only(c) /\ call'[c].pc = "prepaidKey"
          BY <1>1, <2>2 DEF Only, CallOK
    <3>2. QED BY <1>1, <3>1, QuietSerial DEF Current
  <2>3. QED BY <1>3, <1>6, <2>1, <2>2 DEF Prepaid
<1>7. CASE PrepaidKey(c)
  <2>1. sub.covered # {}
        BY <1>1, <1>7 DEF PrepaidKey, CallOK, PrepaidLoop
  <2>2. "prepaidRow" \in Steps
        BY DEF Steps
  <2>3. QED BY <1>2, <1>3, <1>4, <1>7, <2>1, <2>2 DEF PrepaidKey, NextPeriod
<1>8. CASE Coverage(c)
  <2>1. sub.covered # {}
        BY <1>1, <1>8 DEF Coverage, CallOK
  <2>2. "dues" \in Steps
        BY DEF Steps
  <2>3. QED BY <1>2, <1>3, <1>8, <2>1, <2>2 DEF Coverage
<1>9. QED BY <1>5, <1>6, <1>7, <1>8

\* A step that changes rows keeps what the ledger keeps, when it leaves every period
\* with one due and takes nobody's credit.
LEMMA WriteSerial ==
    ASSUME Books, Serial, NEW c \in Calls, Running(c), Only(c), UNCHANGED <<sub, overlapped>>,
           ~overlapped => OneDue' /\ Current(c)',
           \/ overlapped
           \/ sub.covered # {}
           \/ /\ \A d : CreditsOf(d) \subseteq CreditsOf(d)'
              /\ call'[c].pc # "done" \/ call'[c].kind # "record" \/ CreditsOf(call[c].d)' # {}
    PROVE  Serial'
<1>1. ~overlapped => Kept'
  <2>1. CASE sub.covered # {}
        BY <2>1 DEF Kept
  <2>2. CASE ~overlapped /\ sub.covered = {}
        BY <2>2, KeptMove DEF Serial, Books
  <2>3. QED BY <2>1, <2>2
<1>2. QED BY <1>1, SerialMove

\* A period that is to get a row has none.
LEMMA PrepaidLookSerial ==
    ASSUME Books, Serial, NEW c \in Calls, PrepaidRow(c) \/ PrepaidLast(c)
    PROVE  Serial'
<1>1. /\ UNCHANGED <<rows, sub, overlapped>> /\ CallOK(call[c]) /\ DOMAIN call = Calls
      /\ call[c].pc \in {"prepaidRow", "prepaidLast"} /\ Running(c)
      BY DEF PrepaidRow, PrepaidLast, Books, CallsOK, Running
<1>2. sub.covered # {}
      BY <1>1 DEF CallOK, PrepaidLoop
<1>3. ASSUME NEW pc \in {"prepaidLast", "prepaidInsert"}, Goto(c, pc),
             ~overlapped => RowsOf(Min(call[c].todo)) = {}
      PROVE  Serial'
  <2>1. Only(c) /\ call'[c].pc = pc /\ call'[c].todo = call[c].todo
        BY <1>3, GotoMoves DEF Books, SameLocals
  <2>2. ~overlapped => Current(c)'
        BY <1>1, <1>3, <2>1 DEF Current, RowsOf
  <2>3. QED BY <1>1, <1>2, <2>1, <2>2, QuietSerial
<1>4. ASSUME NEW pc \in {"prepaidUpdate", "prepaidKey", "coverage", "done"},
             Only(c), call'[c].pc = pc
      PROVE  Serial'
  <2>1. Current(c)'
        BY <1>4 DEF Current
  <2>2. QED BY <1>1, <1>2, <1>4, <2>1, QuietSerial
<1>5. CASE PrepaidRow(c)
  <2>1. ASSUME NEW id, call' = [call EXCEPT ![c].pc = "prepaidUpdate", ![c].target = id]
        PROVE  Serial'
    <3>1. Only(c) /\ call'[c].pc = "prepaidUpdate"
          BY <1>1, <2>1 DEF Only, CallOK
    <3>2. QED BY <1>4, <3>1
  <2>2. QED BY <1>3, <1>5, <2>1 DEF PrepaidRow
<1>6. CASE PrepaidLast(c)
  <2>1. ~overlapped => RowsOf(Min(call[c].todo)) = {}
        BY <1>6 DEF PrepaidLast, Serial, Current
  <2>2. ASSUME NextPeriod(c, call[c].made) PROVE Serial'
    <3>1. CASE End(c)
      <4>1. Only(c) /\ call'[c].pc = "done"
            BY <3>1, EndMoves DEF Books
      <4>2. QED BY <1>4, <4>1
    <3>2. ASSUME NEW todo, NEW pc \in {"coverage", "prepaidKey"}, NEW made,
                 call' = [call EXCEPT ![c].todo = todo, ![c].made = made, ![c].pc = pc]
          PROVE  Serial'
      <4>1. Only(c) /\ call'[c].pc = pc
            BY <1>1, <3>2 DEF Only, CallOK
      <4>2. QED BY <1>4, <4>1
    <3>3. QED BY <2>2, <3>1, <3>2 DEF NextPeriod
  <2>3. QED BY <1>3, <1>6, <2>1, <2>2 DEF PrepaidLast
<1>7. QED BY <1>5, <1>6

\* Crediting a covered period leaves no other due of it.
LEMMA PrepaidWriteSerial ==
    ASSUME Books, Serial, NEW c \in Calls, PrepaidWrite(c)
    PROVE  Serial'
<1> DEFINE period == Min(call[c].todo)
           key    == PrepaidBy(call[c].d, period)
           id     == IF call[c].pc = "prepaidUpdate" THEN call[c].target ELSE 0
<1>1. /\ UNCHANGED <<sub, overlapped>> /\ CallOK(call[c]) /\ DOMAIN call = Calls
      /\ call[c].pc \in {"prepaidUpdate", "prepaidInsert"} /\ Running(c)
      BY DEF PrepaidWrite, Books, CallsOK, Running
<1>2. sub.covered # {}
      BY <1>1 DEF CallOK, PrepaidLoop
<1>3. ASSUME NEW pc \in {"prepaidKey", "coverage", "done"},
             Only(c), call'[c].pc = pc, ~overlapped => OneDue'
      PROVE  Serial'
  <2>1. Current(c)'
        BY <1>3 DEF Current
  <2>2. QED BY <1>1, <1>2, <1>3, <2>1, WriteSerial
<1>4. CASE ~Free(key, id)
  <2>1. End(c) /\ UNCHANGED rows
        BY <1>4 DEF PrepaidWrite
  <2>2. Only(c) /\ call'[c].pc = "done"
        BY <2>1, EndMoves DEF Books
  <2>3. ~overlapped => OneDue'
        BY <2>1, DuesStay DEF Serial
  <2>4. QED BY <1>3, <2>2, <2>3
<1>5. CASE Free(key, id)
  <2>1. Pay(id, period, key) /\ NextPeriod(c, TRUE)
        BY <1>5 DEF PrepaidWrite
  <2>2. ~overlapped => OneDue'
    <3> SUFFICES ASSUME ~overlapped PROVE OneDue'
        OBVIOUS
    <3>1. OneDue
          BY DEF Serial
    <3>2. PeriodOf(id, period) = period \/ id \in DOMAIN rows
          BY DEF PeriodOf
    <3>3. id \in DOMAIN rows \/ RowsOf(period) = {}
          BY <1>1 DEF CallOK, Serial, Current
    <3> HIDE DEF key, id, period
    <3>4. PICK k : Touched(k, id, PeriodOf(id, period), key)
          BY <2>1, PayPlace DEF Books
    <3>5. QED BY <3>1, <3>2, <3>3, <3>4, PaySerial
  <2>3. CASE End(c)
    <3>1. Only(c) /\ call'[c].pc = "done"
          BY <2>3, EndMoves DEF Books
    <3>2. QED BY <1>3, <2>2, <3>1
  <2>4. ASSUME NEW todo, NEW pc \in {"coverage", "prepaidKey"}, NEW made,
               call' = [call EXCEPT ![c].todo = todo, ![c].made = made, ![c].pc = pc]
        PROVE  Serial'
    <3>1. Only(c) /\ call'[c].pc = pc
          BY <1>1, <2>4 DEF Only, CallOK
    <3>2. QED BY <1>3, <2>2, <3>1
  <2>5. QED BY <2>1, <2>3, <2>4 DEF NextPeriod
<1>6. QED BY <1>4, <1>5

\* Once the dues are open a payment goes on, and a call that records nothing ends.
LEMMA AfterDuesSerial ==
    ASSUME Books, NEW c \in Calls, AfterDues(c)
    PROVE  /\ Only(c) /\ Current(c)'
           /\ call'[c].pc # "done" \/ call'[c].kind # "record"
<1>1. CASE call[c].kind = "record" /\ Goto(c, "oldest")
  <2>1. Only(c) /\ call'[c].pc = "oldest"
        BY <1>1, GotoMoves DEF Books
  <2>2. QED BY <2>1 DEF Current
<1>2. CASE call[c].kind # "record" /\ End(c)
  <2>1. Only(c) /\ call'[c].pc = "done" /\ call'[c].kind = call[c].kind
        BY <1>2, EndMoves DEF Books
  <2>2. QED BY <1>2, <2>1 DEF Current
<1>3. QED BY <1>1, <1>2 DEF AfterDues

\* The periods that are to be opened have no rows.
LEMMA DuesSerial ==
    ASSUME Books, Serial, NEW c \in Calls, Dues(c)
    PROVE  Serial'
<1> DEFINE upTo == IF call[c].kind = "remind" THEN call[c].upTo
                   ELSE PeriodKey(sub.plan.freq, today)
           periods == Missing(upTo)
<1>1. /\ UNCHANGED <<rows, sub, overlapped>> /\ CallOK(call[c]) /\ DOMAIN call = Calls
      /\ call[c].pc = "dues" /\ Running(c)
      BY DEF Dues, Books, CallsOK, Running
<1>2. CASE AfterDues(c)
      BY <1>1, <1>2, AfterDuesSerial, QuietSerial
<1>3. CASE call' = [call EXCEPT ![c].todo = periods, ![c].pc = "open"]
  <2>1. \A period \in periods : RowsOf(period) = {}
        BY DEF Missing, RowsOf
  <2> HIDE DEF periods
  <2>2. Only(c) /\ call'[c].pc = "open" /\ call'[c].todo = periods
        BY <1>1, <1>3 DEF Only, CallOK
  <2>3. Current(c)'
        BY <1>1, <2>1, <2>2 DEF Current, RowsOf
  <2>4. QED BY <1>1, <2>2, <2>3, QuietSerial
<1>4. QED BY <1>2, <1>3 DEF Dues

\* A due is opened for a period that has no row, and the periods left still have none.
LEMMA OpenSerial ==
    ASSUME Books, Serial, NEW c \in Calls, Open(c)
    PROVE  Serial'
<1> DEFINE period == Min(call[c].todo)
           rest   == call[c].todo \ {period}
<1>1. /\ UNCHANGED <<sub, overlapped>> /\ CallOK(call[c]) /\ DOMAIN call = Calls
      /\ call[c].pc = "open" /\ Running(c)
      BY DEF Open, Books, CallsOK, Running
<1>2. period \in call[c].todo /\ period \in Nat
      BY <1>1, MinIsLeast DEF CallOK
<1>3. /\ AfterDues(c) \/ (rest # {} /\ call' = [call EXCEPT ![c].todo = rest])
      /\ rows' = Append(rows, [period |-> period, paid |-> FALSE, key |-> Unpaid])
      BY DEF Open
<1>4. ~overlapped => \A q \in call[c].todo : RowsOf(q) = {}
      BY <1>1 DEF Serial, Current
<1>5. /\ Only(c)
      /\ AfterDues(c) => Current(c)'
      /\ call'[c].pc # "done" \/ call'[c].kind # "record"
      /\ ~AfterDues(c) => call'[c].pc = "open" /\ call'[c].todo = rest
  <2>1. CASE AfterDues(c)
        BY <2>1, AfterDuesSerial
  <2>2. CASE ~AfterDues(c)
        BY <1>1, <1>3, <2>2 DEF Only, CallOK
  <2>3. QED BY <2>1, <2>2
<1> HIDE DEF period, rest
<1>6. PICK new : /\ new \notin DOMAIN rows /\ DOMAIN rows' = DOMAIN rows \union {new}
                 /\ rows'[new].period = period /\ ~rows'[new].paid
      BY <1>1, <1>2, <1>3, OpenRows DEF Books
<1>7. \A i \in DOMAIN rows : rows'[i] = rows[i]
      BY <1>1, <1>2, <1>3, OpenRows DEF Books
<1>8. \A q : q # period => RowsOf(q)' = RowsOf(q)
      BY <1>6, <1>7 DEF RowsOf
<1>9. ~overlapped => OneDue'
  <2> SUFFICES ASSUME ~overlapped, NEW i \in Pending' PROVE RowsOf(rows[i].period)' = {i}
      BY DEF OneDue
  <2>1. RowsOf(period) = {} /\ OneDue
        BY <1>2, <1>4 DEF Serial
  <2>2. CASE i = new
        BY <1>6, <1>7, <2>1, <2>2 DEF RowsOf
  <2>3. CASE i # new
    <3>1. i \in Pending /\ rows'[i] = rows[i]
          BY <1>6, <1>7, <2>3 DEF Pending
    <3>2. rows[i].period # period
          BY <2>1, <3>1 DEF RowsOf, Pending
    <3>3. RowsOf(rows[i].period) = {i}
          BY <2>1, <3>1 DEF OneDue
    <3>4. QED BY <1>6, <1>7, <3>1, <3>2, <3>3 DEF RowsOf
  <2>4. QED BY <2>2, <2>3
<1>10. ~overlapped => Current(c)'
  <2>1. CASE AfterDues(c)
        BY <1>5, <2>1
  <2>2. CASE ~AfterDues(c)
    <3>1. \A q \in rest : q \in call[c].todo /\ q # period
          BY DEF rest
    <3>2. QED BY <1>4, <1>5, <1>8, <2>2, <3>1 DEF Current
  <2>3. QED BY <2>1, <2>2
<1>11. \A d : CreditsOf(d) \subseteq CreditsOf(d)'
       BY <1>6, <1>7 DEF CreditsOf
<1>12. QED BY <1>1, <1>5, <1>9, <1>10, <1>11, WriteSerial

\* A payment picks the oldest due.
LEMMA PickOldestSerial ==
    ASSUME Books, Serial, NEW c \in Calls, PickOldest(c)
    PROVE  Serial'
<1> DEFINE id == IF Pending = {} THEN 0 ELSE Oldest
<1>1. /\ UNCHANGED <<rows, sub, overlapped>> /\ CallOK(call[c]) /\ DOMAIN call = Calls
      /\ call[c].pc = "oldest" /\ Running(c)
      /\ call' = [call EXCEPT ![c].pc = "settle", ![c].target = id]
      BY DEF PickOldest, Books, CallsOK, Running
<1>2. id' = id
      BY <1>1, DuesStay
<1> HIDE DEF id
<1>3. Only(c) /\ call'[c].pc = "settle" /\ call'[c].target = id
      BY <1>1 DEF Only, CallOK
<1>4. Current(c)'
      BY <1>2, <1>3 DEF Current, id
<1>5. QED BY <1>1, <1>3, <1>4, QuietSerial

\* A payment settles the oldest due, or inserts a row when nothing is due; where its
\* key is taken it has its installment already.
LEMMA SettleSerial ==
    ASSUME Books, Serial, NEW c \in Calls, Settle(c)
    PROVE  Serial'
<1> DEFINE d   == call[c].d
           id  == call[c].target
           now == PeriodKey(sub.plan.freq, today)
           key == PaidBy(d)
<1>1. /\ UNCHANGED <<sub, overlapped>> /\ CallOK(call[c]) /\ call[c].pc = "settle"
      /\ Running(c) /\ End(c)
      BY DEF Settle, Books, CallsOK, Running
<1>2. Only(c) /\ call'[c].pc = "done" /\ call'[c].d = call[c].d
      BY <1>1, EndMoves DEF Books
<1>3. Current(c)'
      BY <1>2 DEF Current
<1>4. CASE ~Free(key, id)
  <2>1. UNCHANGED rows
        BY <1>4 DEF Settle
  <2>2. CreditsOf(d) # {}
        BY <1>4 DEF Free, CreditsOf, PaidBy
  <2>3. CreditsOf(call[c].d)' # {}
        BY <1>2, <2>1, <2>2 DEF CreditsOf
  <2>4. QED BY <1>1, <1>2, <1>3, <2>1, <2>3, QuietSerial
<1>5. CASE overlapped
      BY <1>1, <1>2, <1>3, <1>5, WriteSerial
<1>6. CASE Free(key, id) /\ ~overlapped
  <2>1. Pay(id, now, key)
        BY <1>6 DEF Settle
  <2>2. key.by = "donation" /\ key.d = d
        BY DEF PaidBy
  <2>3. OneDue /\ id = IF Pending = {} THEN 0 ELSE Oldest
        BY <1>1, <1>6 DEF Serial, Current
  <2>4. Pending # {} => id \in Pending
        BY <2>3, OldestIsOldest
  <2>5. 0 \notin DOMAIN rows
    <3>1. PICK S : rows \in Seq(S)
          BY DEF Books, RowsOK
    <3>2. QED BY <3>1
  <2> HIDE DEF key, now, id, d
  <2>6. PICK k : Touched(k, id, PeriodOf(id, now), key)
        BY <2>1, PayPlace DEF Books
  <2>7. id \in DOMAIN rows => k = id
        BY <2>6 DEF Touched
  <2>8. k \in Pending \/ k \notin DOMAIN rows
        BY <2>3, <2>4, <2>5, <2>6 DEF Touched
  <2>9. OneDue'
        BY <2>3, <2>4, <2>6, PaySerial DEF Pending
  <2>10. \A e : CreditsOf(e) \subseteq CreditsOf(e)'
         BY <2>6, <2>8, PaySerial
  <2>11. k \in CreditsOf(call[c].d)'
         BY <1>2, <2>2, <2>6 DEF Touched, CreditsOf, d
  <2>12. QED BY <1>1, <1>2, <1>3, <2>9, <2>10, <2>11, WriteSerial
<1>7. QED BY <1>4, <1>5, <1>6

\* Staff mark what is due.
LEMMA MarkRowSerial ==
    ASSUME Books, Serial, NEW c \in Calls, MarkRow(c)
    PROVE  Serial'
<1> DEFINE id     == Min(call[c].todo)
           rest   == call[c].todo \ {id}
           key    == MarkedByStaff(id)
           period == rows[id].period
<1>1. /\ UNCHANGED <<sub, overlapped>> /\ CallOK(call[c]) /\ DOMAIN call = Calls
      /\ call[c].pc = "mark" /\ Running(c) /\ call[c].kind = "mark"
      /\ Pay(id, period, key)
      BY DEF MarkRow, Books, CallsOK, CallOK, Running
<1>2. id \in call[c].todo /\ id \in DOMAIN rows
      BY <1>1, MinIsLeast DEF CallOK
<1>3. CASE overlapped
  <2>1. Only(c)
    <3>1. CASE End(c)
          BY <3>1, EndMoves DEF Books
    <3>2. CASE call' = [call EXCEPT ![c].todo = rest]
          BY <1>1, <3>2 DEF Only
    <3>3. QED BY <3>1, <3>2 DEF MarkRow
  <2>2. QED BY <1>1, <1>3, <2>1, WriteSerial
<1>4. CASE ~overlapped
  <2>1. call[c].todo \subseteq Pending /\ OneDue
        BY <1>1, <1>4 DEF Serial, Current
  <2>2. End(c) \/ (rest # {} /\ call' = [call EXCEPT ![c].todo = rest])
        BY DEF MarkRow
  <2>3. rest \subseteq Pending \ {id}
        BY <2>1
  <2> HIDE DEF key, period, id, rest
  <2>4. PICK k : Touched(k, id, PeriodOf(id, period), key)
        BY <1>1, PayPlace DEF Books
  <2>5. k = id
        BY <1>2, <2>4 DEF Touched
  <2>6. /\ OneDue'
        /\ \A e : CreditsOf(e) \subseteq CreditsOf(e)'
        /\ Pending' = Pending \ {id}
        BY <1>2, <2>1, <2>4, <2>5, PaySerial
  <2>7. CASE End(c)
    <3>1. Only(c) /\ call'[c].pc = "done" /\ call'[c].kind = "mark"
          BY <1>1, <2>7, EndMoves DEF Books
    <3>2. Current(c)'
          BY <3>1 DEF Current
    <3>3. QED BY <1>1, <2>6, <3>1, <3>2, WriteSerial
  <2>8. CASE rest # {} /\ call' = [call EXCEPT ![c].todo = rest]
    <3>1. Only(c) /\ call'[c].pc = "mark" /\ call'[c].todo = rest
          BY <1>1, <2>8 DEF Only, CallOK
    <3>2. Current(c)'
          BY <2>3, <2>6, <3>1 DEF Current
    <3>3. QED BY <1>1, <2>6, <3>1, <3>2, WriteSerial
  <2>9. QED BY <2>2, <2>7, <2>8
<1>5. QED BY <1>3, <1>4

\* Every step of a call keeps what the ledger keeps.
LEMMA StepSerial ==
    ASSUME Books, Serial, NEW c \in Calls, Step(c)
    PROVE  Serial'
BY PlainSerial, PrepaidLookSerial, PrepaidWriteSerial, DuesSerial, OpenSerial,
   PickOldestSerial, SettleSerial, MarkRowSerial DEF Step

\* A call that arrives alone finds out nothing but what staff selected.
LEMMA ArriveSerial ==
    ASSUME Books, Serial, NEW c \in Calls, NEW kind, NEW l, Arrive(c, kind, l),
           l.pc \in {"exists", "dues"} \/ (l.pc = "mark" /\ l.todo \subseteq Pending)
    PROVE  Serial'
<1>1. /\ UNCHANGED <<rows, sub>> /\ call' = [call EXCEPT ![c] = l] /\ DOMAIN call = Calls
      /\ overlapped' = (overlapped \/ \E k \in Calls : Running(k))
      BY DEF Arrive, Books, CallsOK
<1> SUFFICES ASSUME ~overlapped' PROVE Serial'
    BY DEF Serial
<1>2. ~overlapped /\ \A k \in Calls : ~Running(k)
      BY <1>1
<1>3. Only(c) /\ call'[c] = l
      BY <1>1 DEF Only
<1>4. \A b \in Calls : b # c => ~Running(b)' /\ Current(b)'
      BY <1>2, <1>3 DEF Only, Running, Current
<1>5. Current(c)'
      BY <1>1, <1>3, DuesStay DEF Current
<1>6. OneDue'
      BY <1>1, <1>2, DuesStay DEF Serial
<1>7. Kept'
  <2>1. l.pc # "done"
        OBVIOUS
  <2>2. \A d : CreditsOf(d) \subseteq CreditsOf(d)'
        BY <1>1, DuesStay
  <2>3. QED BY <1>1, <1>2, <1>3, <2>1, <2>2, KeptMove DEF Serial, Books
<1>8. QED BY <1>4, <1>5, <1>6, <1>7 DEF Serial

\* Each kind of call that arrives alone keeps what the ledger keeps.
LEMMA ArrivalsSerial ==
    ASSUME Books, Serial, NEW c \in Calls,
           \/ \E d \in Donations : Record(c, d)
           \/ View(c)
           \/ Remind(c)
           \/ \E ids \in SUBSET Pending : Mark(c, ids)
    PROVE  Serial'
<1>1. ASSUME NEW d \in Donations, Record(c, d)
      PROVE  Serial'
  <2> DEFINE l == [Idle EXCEPT !.pc = "exists", !.kind = "record", !.d = d]
  <2>1. l.pc = "exists" /\ Arrive(c, "record", l)
        BY <1>1 DEF Idle, Record
  <2> HIDE DEF l
  <2>2. QED BY <2>1, ArriveSerial
<1>2. CASE View(c)
  <2> DEFINE l == [Idle EXCEPT !.pc = "dues", !.kind = "view"]
  <2>1. l.pc = "dues" /\ Arrive(c, "view", l)
        BY <1>2 DEF Idle, View
  <2> HIDE DEF l
  <2>2. QED BY <2>1, ArriveSerial
<1>3. CASE Remind(c)
  <2>1. PICK period : Arrive(c, "remind", [Idle EXCEPT !.pc = "dues", !.kind = "remind",
                                                        !.upTo = period])
        BY <1>3 DEF Remind
  <2> DEFINE l == [Idle EXCEPT !.pc = "dues", !.kind = "remind", !.upTo = period]
  <2>2. l.pc = "dues" /\ Arrive(c, "remind", l)
        BY <2>1 DEF Idle
  <2> HIDE DEF l
  <2>3. QED BY <2>2, ArriveSerial
<1>4. ASSUME NEW ids \in SUBSET Pending, Mark(c, ids)
      PROVE  Serial'
  <2> DEFINE l == [Idle EXCEPT !.pc = "mark", !.kind = "mark", !.todo = ids]
  <2>1. l.pc = "mark" /\ l.todo \subseteq Pending /\ Arrive(c, "mark", l)
        BY <1>4 DEF Idle, Mark
  <2> HIDE DEF l
  <2>2. QED BY <2>1, ArriveSerial
<1>5. QED BY <1>1, <1>2, <1>3, <1>4

\* A subscription begins with nothing due and nothing recorded.
LEMMA SubscribeSerial ==
    ASSUME Books, NEW plan, Subscribe(plan)
    PROVE  Serial'
<1>1. /\ rows = <<>> /\ UNCHANGED <<rows, call>> /\ \A c \in Calls : call[c].pc = "idle"
      BY DEF Subscribe, Books, Start
<1>2. Pending' = {} /\ Recorded' = {}
      BY <1>1 DEF Pending, Recorded
<1>3. \A c \in Calls : ~Running(c)' /\ Current(c)'
      BY <1>1 DEF Running, Current
<1>4. QED BY <1>2, <1>3 DEF Serial, OneDue, Kept

\* Serial is an invariant.
THEOREM SerialKept == Spec => []Serial
<1>1. Init => Serial
  <2> SUFFICES ASSUME Init PROVE Serial
      OBVIOUS
  <2>1. rows = <<>> /\ call = [c \in Calls |-> Idle]
        BY DEF Init
  <2>2. Pending = {} /\ Recorded = {}
        BY <2>1 DEF Pending, Recorded, Idle
  <2>3. \A c \in Calls : ~Running(c) /\ Current(c)
        BY <2>1 DEF Running, Current, Idle
  <2>4. QED BY <2>2, <2>3 DEF Serial, OneDue, Kept
<1>2. Books /\ Serial /\ [Next]_vars => Serial'
  <2> SUFFICES ASSUME Books, Serial, [Next]_vars PROVE Serial'
      OBVIOUS
  <2>1. ASSUME UNCHANGED <<rows, sub, call, overlapped>>
        PROVE  Serial'
    <3>1. OneDue => OneDue'
          BY <2>1, DuesStay
    <3>2. Kept => Kept'
          BY <2>1 DEF Kept, Recorded, CreditsOf
    <3>3. \A c \in Calls : (Running(c)' <=> Running(c)) /\ (Current(c) => Current(c)')
          BY <2>1, DuesStay DEF Running, Current
    <3>4. QED BY <2>1, <3>1, <3>2, <3>3 DEF Serial
  <2>2. CASE UNCHANGED vars
        BY <2>1, <2>2 DEF vars
  <2>3. ASSUME NEW d \in Donations, Complete(d)
        PROVE  Serial'
        BY <2>1, <2>3 DEF Complete
  <2>4. ASSUME NEW day \in Today, NextDay(day)
        PROVE  Serial'
        BY <2>1, <2>4 DEF NextDay
  <2>5. QED BY <2>2, <2>3, <2>4, SubscribeSerial, ArrivalsSerial, StepSerial DEF Next
<1>3. QED BY <1>1, <1>2, BooksKept, PTL DEF Spec

\* While calls come one after another, every period that is due has one row: no period
\* is due twice, and none is due that is paid.
THEOREM DuesAreSingle == Spec => []OneDuePerPeriod
<1>1. Serial => OneDuePerPeriod
      BY DEF Serial, OneDue, OneDuePerPeriod
<1>2. QED BY <1>1, SerialKept, PTL

\* While calls come one after another, no donation that was recorded loses its
\* installment, unless the subscription has prepaid coverage.
THEOREM PaymentsAreKept == Spec => []SerialPaymentKept
<1>1. Serial => SerialPaymentKept
      BY DEF Serial, Kept, SerialPaymentKept, PaymentKept
<1>2. QED BY <1>1, SerialKept, PTL

\* A step that turns a due row into one a donation paid takes the oldest.
LEMMA SettleTakesOldest ==
    ASSUME Books, Serial, NEW c \in Calls, Step(c), ~overlapped',
           NEW id \in Pending, NEW other \in Pending, rows'[id].key.by = "donation"
    PROVE  rows[id].period <= rows[other].period
<1>1. /\ rows[id].key = Unpaid /\ id \in DOMAIN rows
      /\ UNCHANGED overlapped /\ CallOK(call[c])
      BY DEF Books, RowsOK, RowOK, CallsOK, Pending, Step, Exists, Prepaid, PrepaidKey,
             PrepaidRow, PrepaidLast, PrepaidWrite, Coverage, Dues, Open, PickOldest,
             Settle, MarkRow
<1>2. rows[id].key.by # "donation"
      BY <1>1 DEF Unpaid
<1>3. ASSUME NEW i, NEW period, NEW key, Pay(i, period, key)
      PROVE  key.by = "donation" /\ (i \in DOMAIN rows => id = i)
  <2>1. PICK k : Touched(k, i, PeriodOf(i, period), key)
        BY <1>3, PayPlace DEF Books
  <2>2. QED BY <1>1, <1>2, <2>1 DEF Touched
<1>4. CASE UNCHANGED rows
      BY <1>2, <1>4
<1>5. CASE PrepaidWrite(c)
  <2> DEFINE period == Min(call[c].todo)
             key    == PrepaidBy(call[c].d, period)
             i      == IF call[c].pc = "prepaidUpdate" THEN call[c].target ELSE 0
  <2>1. Pay(i, period, key) \/ UNCHANGED rows
        BY <1>5 DEF PrepaidWrite
  <2>2. key.by # "donation"
        BY DEF PrepaidBy
  <2> HIDE DEF key, i, period
  <2>3. QED BY <1>3, <1>4, <2>1, <2>2
<1>6. CASE Open(c)
  <2>1. UNCHANGED sub /\ Min(call[c].todo) \in Nat
        BY <1>1, <1>6, MinIsLeast DEF Open, CallOK
  <2>2. rows'[id] = rows[id]
        BY <1>1, <1>6, <2>1, OpenRows DEF Open, Books
  <2>3. QED BY <1>2, <2>2
<1>7. CASE MarkRow(c)
  <2> DEFINE i      == Min(call[c].todo)
             key    == MarkedByStaff(i)
             period == rows[i].period
  <2>1. Pay(i, period, key)
        BY <1>7 DEF MarkRow
  <2>2. key.by # "donation"
        BY DEF MarkedByStaff
  <2> HIDE DEF key, i, period
  <2>3. QED BY <1>3, <2>1, <2>2
<1>8. CASE Settle(c)
  <2> DEFINE i   == call[c].target
             now == PeriodKey(sub.plan.freq, today)
             key == PaidBy(call[c].d)
  <2>1. Pay(i, now, key) \/ UNCHANGED rows
        BY <1>8 DEF Settle
  <2>2. i = Oldest
        BY <1>1, <1>8 DEF Settle, Serial, Current
  <2>3. i \in Pending
        BY <2>2, OldestIsOldest
  <2> HIDE DEF key, i, now
  <2>4. UNCHANGED rows \/ id = i
        BY <1>3, <2>1, <2>3 DEF Pending
  <2>5. QED BY <1>4, <2>2, <2>4, OldestIsOldest
<1>9. QED BY <1>4, <1>5, <1>6, <1>7, <1>8 DEF Step, Exists, Prepaid, PrepaidKey,
             PrepaidRow, PrepaidLast, Coverage, Dues, PickOldest

\* First in, first out: while calls come one after another a donation settles the
\* oldest period that is due.
THEOREM SettlesInOrder == Spec => OldestFirst
<1>1. Books /\ Serial /\ [Next]_vars =>
         [~overlapped' =>
            \A id, other \in Pending :
               rows'[id].key.by = "donation" => rows[id].period <= rows[other].period]_rows
  <2> SUFFICES ASSUME Books, Serial, [Next]_vars, ~ UNCHANGED rows, ~overlapped',
                      NEW id \in Pending, NEW other \in Pending,
                      rows'[id].key.by = "donation"
               PROVE  rows[id].period <= rows[other].period
      OBVIOUS
  <2>1. PICK c \in Calls : Step(c)
        BY DEF Next, vars, Subscribe, Complete, NextDay, Record, View, Remind, Mark, Arrive
  <2>2. QED BY <2>1, SettleTakesOldest
<1>2. QED BY <1>1, BooksKept, SerialKept, PTL DEF Spec, OldestFirst

-----------------------------------------------------------------------------
(* What the recursive functions of the calendar are.                       *)

\* The first days follow each other at the length of the months.
LEMMA FirstDayIs ==
    /\ FirstDay[1] = 1
    /\ \A m \in Months : FirstDay[m + 1] = FirstDay[m] + MonthLength[m]
<1> DEFINE L == Len(MonthLength) + 1
           Next1(g, m) == IF m = 1 THEN 1 ELSE g[m - 1] + MonthLength[m - 1]
           Upto(g, n) == /\ g = [m \in 1..L |-> g[m]]
                         /\ \A m \in 1..L : m <= n => g[m] = Next1(g, m)
           Fails == {n \in Nat : ~ \E g : Upto(g, n)}
<1>1. L \in Nat /\ L > 1
      BY CalendarAssumption
<1>2. Fails = {}
  <2> SUFFICES ASSUME Fails # {} PROVE FALSE
      OBVIOUS
  <2>1. PICK n \in Fails : \A k \in Fails : n <= k
    <3>1. Fails \subseteq Nat
          OBVIOUS
    <3> HIDE DEF Fails
    <3>2. QED BY <3>1, MinIsLeast
  <2>2. CASE n = 0
    <3> DEFINE g == [m \in 1..L |-> 0]
    <3>1. g = [m \in 1..L |-> g[m]]
          OBVIOUS
    <3>2. \A m \in 1..L : ~ (m <= 0)
          OBVIOUS
    <3>3. Upto(g, 0)
          BY <3>1, <3>2
    <3>4. \E k : Upto(k, 0)
          BY <3>3
    <3>5. QED BY <2>1, <2>2, <3>4
  <2>3. CASE n # 0
    <3>1. n - 1 \in Nat /\ n - 1 \notin Fails
      <4>1. n \in Nat
            OBVIOUS
      <4> HIDE DEF Fails
      <4>2. QED BY <2>1, <2>3, <4>1
    <3>2. PICK g : Upto(g, n - 1)
          BY <3>1
    <3> DEFINE h == [m \in 1..L |-> IF m <= n - 1 THEN g[m] ELSE Next1(g, m)]
    <3>3. h = [m \in 1..L |-> h[m]]
          OBVIOUS
    <3>4. ASSUME NEW m \in 1..L, m <= n PROVE h[m] = Next1(h, m)
      <4>1. h[m] = Next1(g, m)
            BY <3>2
      <4>2. CASE m = 1
            BY <4>1, <4>2
      <4>3. CASE m # 1
        <5>1. m - 1 \in 1..L /\ m - 1 <= n - 1
              BY <3>4, <4>3
        <5>2. h[m - 1] = g[m - 1]
              BY <5>1
        <5>3. QED BY <4>1, <4>3, <5>2
      <4>4. QED BY <4>2, <4>3
    <3>5. Upto(h, n)
          BY <3>3, <3>4
    <3>6. \E k : Upto(k, n)
          BY <3>5
    <3>7. QED BY <2>1, <3>6
  <2>4. QED BY <2>2, <2>3
<1>3. PICK g : Upto(g, L)
      BY <1>1, <1>2
<1>4. g = [m \in 1..L |-> Next1(g, m)]
  <2>1. \A m \in 1..L : m <= L
        BY <1>1
  <2>2. \A m \in 1..L : g[m] = Next1(g, m)
        BY <1>3, <2>1
  <2>3. g = [m \in 1..L |-> g[m]]
        BY <1>3
  <2> HIDE DEF Next1
  <2>4. [m \in 1..L |-> g[m]] = [m \in 1..L |-> Next1(g, m)]
        BY <2>2
  <2>5. QED BY <2>3, <2>4
<1>5. FirstDay = [m \in 1..L |-> Next1(FirstDay, m)]
      BY <1>4, Zenon DEF FirstDay
<1> DEFINE F == FirstDay
<1>6. F = [m \in 1..L |-> Next1(F, m)]
      BY <1>5
<1> HIDE DEF F
<1>7. F[1] = 1
      BY <1>1, <1>6
<1>8. ASSUME NEW m \in Months PROVE F[m + 1] = F[m] + MonthLength[m]
  <2>1. m + 1 \in 1..L /\ m + 1 # 1 /\ (m + 1) - 1 = m
        BY <1>1, CalendarAssumption DEF Months
  <2> HIDE DEF L
  <2>2. QED BY <1>6, <2>1
<1>9. QED BY <1>7, <1>8 DEF F

\* Stepping period by period from a day on.
LEMMA AdvanceByIs ==
    ASSUME NEW freq, NEW day
    PROVE  /\ AdvanceBy(freq, day, 0) = day
           /\ \A n \in Nat : AdvanceBy(freq, day, n + 1) = Advance(freq, AdvanceBy(freq, day, n))
<1> DEFINE Next1(g, i) == IF i = 0 THEN day ELSE Advance(freq, g[i - 1])
           Upto(g, n) == \A i \in 0..n : g[i] = Next1(g, i)
           Fails == {n \in Nat : ~ \E g : Upto(g, n)}
<1>1. Fails = {}
  <2> SUFFICES ASSUME Fails # {} PROVE FALSE
      OBVIOUS
  <2>1. PICK n \in Fails : \A k \in Fails : n <= k
    <3>1. Fails \subseteq Nat
          OBVIOUS
    <3> HIDE DEF Fails
    <3>2. QED BY <3>1, MinIsLeast
  <2>2. CASE n = 0
    <3> DEFINE g == [i \in Nat |-> day]
    <3>1. Upto(g, 0)
          OBVIOUS
    <3>2. \E k : Upto(k, 0)
          BY <3>1
    <3>3. QED BY <2>1, <2>2, <3>2
  <2>3. CASE n # 0
    <3>1. n - 1 \in Nat /\ n - 1 \notin Fails
      <4>1. n \in Nat
            OBVIOUS
      <4> HIDE DEF Fails
      <4>2. QED BY <2>1, <2>3, <4>1
    <3>2. PICK g : Upto(g, n - 1)
          BY <3>1
    <3> DEFINE h == [i \in Nat |-> IF i <= n - 1 THEN g[i] ELSE Next1(g, i)]
    <3>4. ASSUME NEW i \in 0..n PROVE h[i] = Next1(h, i)
      <4>1. i \in Nat /\ (i <= n - 1 => i \in 0..(n - 1))
            BY <3>1
      <4>2. h[i] = Next1(g, i)
            BY <3>2, <4>1
      <4>3. CASE i = 0
            BY <4>2, <4>3
      <4>4. CASE i # 0
        <5>1. i - 1 \in Nat /\ i - 1 <= n - 1
              BY <3>4, <4>4
        <5>2. h[i - 1] = g[i - 1]
              BY <5>1
        <5>3. QED BY <4>2, <4>4, <5>2
      <4>5. QED BY <4>3, <4>4
    <3>5. Upto(h, n)
          BY <3>4
    <3>6. \E k : Upto(k, n)
          BY <3>5
    <3>7. QED BY <2>1, <3>6
  <2>4. QED BY <2>2, <2>3
<1> DEFINE G(n) == CHOOSE g : Upto(g, n)
<1>2. ASSUME NEW n \in Nat PROVE Upto(G(n), n)
      BY <1>1
\* Two of them agree as far as both go.
<1>3. ASSUME NEW g, NEW k, NEW n \in Nat, Upto(g, n), Upto(k, n)
      PROVE  \A i \in 0..n : g[i] = k[i]
  <2> DEFINE Differ == {i \in 0..n : g[i] # k[i]}
  <2> SUFFICES ASSUME Differ # {} PROVE FALSE
      OBVIOUS
  <2>1. PICK i \in Differ : \A j \in Differ : i <= j
    <3>1. Differ \subseteq Nat
          OBVIOUS
    <3> HIDE DEF Differ
    <3>2. QED BY <3>1, MinIsLeast
  <2>2. i # 0
        BY <1>3, <2>1
  <2>3. i - 1 \in 0..n /\ i - 1 \notin Differ
    <3>1. i \in 0..n
          OBVIOUS
    <3>2. i - 1 \in 0..n /\ ~ (i <= i - 1)
          BY <2>2, <3>1
    <3> HIDE DEF Differ
    <3>3. QED BY <2>1, <3>2
  <2>4. g[i - 1] = k[i - 1]
        BY <2>3
  <2>5. QED BY <1>3, <2>1, <2>2, <2>4
<1> DEFINE h == [n \in Nat |-> G(n)[n]]
<1>4. ASSUME NEW n \in Nat PROVE h[n] = Next1(h, n)
  <2>1. G(n)[n] = Next1(G(n), n)
        BY <1>2
  <2>2. CASE n = 0
        BY <2>1, <2>2
  <2>3. CASE n # 0
    <3>1. n - 1 \in Nat /\ n - 1 \in 0..(n - 1) /\ n - 1 \in 0..n
          BY <2>3
    <3>2. Upto(G(n), n - 1)
      <4>1. \A i \in 0..(n - 1) : i \in 0..n
            OBVIOUS
      <4> HIDE DEF G, Next1
      <4>2. QED BY <1>2, <4>1
    <3>3. Upto(G(n - 1), n - 1)
          BY <1>2, <3>1
    <3> HIDE DEF G, Upto
    <3>4. G(n)[n - 1] = G(n - 1)[n - 1]
          BY <1>3, <3>1, <3>2, <3>3
    <3>5. QED BY <2>1, <2>3, <3>1, <3>4
  <2>4. QED BY <2>2, <2>3
<1> HIDE DEF G
<1>5. h = [n \in Nat |-> Next1(h, n)]
      BY <1>4
<1> DEFINE after == CHOOSE f : f = [n \in Nat |-> Next1(f, n)]
<1>6. after = [n \in Nat |-> Next1(after, n)]
      BY <1>5, Zenon
<1>7. \A n : AdvanceBy(freq, day, n) = after[n]
      BY Zenon DEF AdvanceBy
<1> HIDE DEF after
<1>8. after[0] = day
      BY <1>6
<1>9. ASSUME NEW n \in Nat PROVE after[n + 1] = Advance(freq, after[n])
  <2>1. n + 1 \in Nat /\ n + 1 # 0 /\ n + 1 - 1 = n
        OBVIOUS
  <2>2. QED BY <1>6, <2>1
<1>10. QED BY <1>7, <1>8, <1>9, Zenon

-----------------------------------------------------------------------------
(* Months and their days.                                                  *)

\* A month has 28 to 31 days, and its first day is a number.
LEMMA MonthsAreNumbers ==
    /\ Len(MonthLength) \in Nat \ {0}
    /\ \A m \in Months : MonthLength[m] \in 28..31
    /\ \A m \in 1..(Len(MonthLength) + 1) : FirstDay[m] \in Nat \ {0}
<1>1. Len(MonthLength) \in Nat \ {0}
      BY CalendarAssumption
<1>2. \A m \in Months : MonthLength[m] \in 28..31
      BY CalendarAssumption DEF Months
<1> DEFINE L == Len(MonthLength)
           Fails == {m \in 1..(L + 1) : FirstDay[m] \notin Nat \ {0}}
<1>3. Fails = {}
  <2> SUFFICES ASSUME Fails # {} PROVE FALSE
      OBVIOUS
  <2>1. PICK m \in Fails : \A k \in Fails : m <= k
    <3>1. Fails \subseteq Nat
          BY <1>1
    <3> HIDE DEF Fails
    <3>2. QED BY <3>1, MinIsLeast
  <2>2. m \in 1..(L + 1) /\ m # 1
        BY FirstDayIs
  <2>3. m - 1 \in Months /\ m - 1 \in 1..(L + 1) /\ (m - 1) + 1 = m /\ ~ (m <= m - 1)
        BY <1>1, <2>2 DEF Months
  <2>4. FirstDay[m - 1] \in Nat \ {0}
        BY <2>1, <2>3
  <2>5. FirstDay[m] = FirstDay[m - 1] + MonthLength[m - 1]
        BY <2>3, FirstDayIs
  <2>6. QED BY <1>2, <2>1, <2>3, <2>4, <2>5
<1>4. QED BY <1>1, <1>2, <1>3

\* A month begins after the whole of every month before it.
LEMMA MonthsApart ==
    ASSUME NEW m \in Months, NEW n \in 1..(Len(MonthLength) + 1), m < n
    PROVE  FirstDay[m] + MonthLength[m] <= FirstDay[n]
<1> DEFINE L == Len(MonthLength)
           Fails == {k \in 1..(L + 1) : m < k /\ ~ (FirstDay[m] + MonthLength[m] <= FirstDay[k])}
<1>1. L \in Nat
      BY MonthsAreNumbers
<1>2. Fails = {}
  <2> SUFFICES ASSUME Fails # {} PROVE FALSE
      OBVIOUS
  <2>1. PICK k \in Fails : \A j \in Fails : k <= j
    <3>1. Fails \subseteq Nat
          BY <1>1
    <3> HIDE DEF Fails
    <3>2. QED BY <3>1, MinIsLeast
  <2>2. /\ k - 1 \in Months /\ k - 1 \in 1..(L + 1) /\ (k - 1) + 1 = k
        /\ ~ (k <= k - 1) /\ m <= k - 1
        BY <1>1, <2>1 DEF Months
  <2>3. FirstDay[k] = FirstDay[k - 1] + MonthLength[k - 1]
        BY <2>2, FirstDayIs
  <2>4. FirstDay[k] \in Nat /\ FirstDay[k - 1] \in Nat /\ MonthLength[k - 1] \in Nat
        BY <2>1, <2>2, MonthsAreNumbers
  <2>5. FirstDay[m] \in Nat /\ MonthLength[m] \in Nat
    <3>1. m \in 1..(L + 1)
          BY <1>1 DEF Months
    <3>2. QED BY <3>1, MonthsAreNumbers
  <2>6. CASE m = k - 1
        BY <2>1, <2>3, <2>5, <2>6
  <2>7. CASE m < k - 1
    <3>1. k - 1 \notin Fails
          BY <2>1, <2>2
    <3>2. FirstDay[m] + MonthLength[m] <= FirstDay[k - 1]
          BY <2>2, <2>7, <3>1
    <3>3. QED BY <2>1, <2>3, <2>4, <2>5, <3>2
  <2>8. QED BY <2>2, <2>6, <2>7 DEF Months
<1>3. QED BY <1>2

\* The month of a day is the one month that holds it.
LEMMA MonthIs ==
    ASSUME NEW m \in Months, NEW d \in Int,
           FirstDay[m] <= d, d < FirstDay[m] + MonthLength[m]
    PROVE  MonthOf(d) = m /\ DayOfMonth(d) = d - FirstDay[m] + 1
<1>1. /\ Len(MonthLength) \in Nat
      /\ \A k \in Months : k \in Nat /\ k + 1 \in 1..(Len(MonthLength) + 1)
      /\ \A k \in Months : FirstDay[k] \in Nat /\ MonthLength[k] \in Nat
      /\ \A k \in Months : FirstDay[k + 1] = FirstDay[k] + MonthLength[k]
  <2>1. /\ Len(MonthLength) \in Nat
        /\ \A k \in Months : k \in Nat /\ k \in 1..(Len(MonthLength) + 1)
        /\ \A k \in Months : k + 1 \in 1..(Len(MonthLength) + 1)
        BY MonthsAreNumbers DEF Months
  <2>2. QED BY <2>1, MonthsAreNumbers, FirstDayIs
<1>2. FirstDay[m] <= d /\ d < FirstDay[m + 1]
      BY <1>1
<1>3. ASSUME NEW k \in Months, FirstDay[k] <= d, d < FirstDay[k + 1] PROVE k = m
  <2>1. CASE k < m
    <3>1. FirstDay[k] + MonthLength[k] <= FirstDay[m]
          BY <1>1, <2>1, MonthsApart DEF Months
    <3>2. QED BY <1>1, <1>3, <3>1
  <2>2. CASE m < k
    <3>1. FirstDay[m] + MonthLength[m] <= FirstDay[k]
          BY <1>1, <2>2, MonthsApart DEF Months
    <3>2. QED BY <1>1, <1>3, <3>1
  <2>3. QED BY <1>1, <2>1, <2>2
<1>4. MonthOf(d) = m
      BY <1>2, <1>3 DEF MonthOf
<1>5. QED BY <1>4 DEF DayOfMonth

\* Every day of the calendar has a month and a place in it.
LEMMA DayHasMonth ==
    ASSUME NEW d \in Days
    PROVE  /\ MonthOf(d) \in Months
           /\ FirstDay[MonthOf(d)] \in Nat \ {0}
           /\ MonthLength[MonthOf(d)] \in 28..31
           /\ DayOfMonth(d) \in 1..MonthLength[MonthOf(d)]
           /\ d = FirstDay[MonthOf(d)] + (DayOfMonth(d) - 1)
<1> DEFINE L == Len(MonthLength)
           Later == {m \in 1..(L + 1) : d < FirstDay[m]}
<1>1. /\ L \in Nat \ {0}
      /\ FirstDay[L + 1] \in Nat
      BY MonthsAreNumbers
<1>2. d \in Nat /\ 1 <= d /\ d < FirstDay[L + 1]
      BY <1>1 DEF Days
<1>3. PICK n \in Later : \A k \in Later : n <= k
  <2>1. Later \subseteq Nat /\ L + 1 \in Later
        BY <1>1, <1>2
  <2> HIDE DEF Later
  <2>2. QED BY <2>1, MinIsLeast
<1>4. n # 1
      BY <1>2, <1>3, FirstDayIs
<1> DEFINE m == n - 1
<1>5. /\ m \in Months /\ m \in 1..(L + 1) /\ m + 1 = n /\ ~ (n <= m)
      BY <1>1, <1>3, <1>4 DEF Months
<1> HIDE DEF m
<1>6. m \notin Later
      BY <1>3, <1>5
<1>7. FirstDay[m] \in Nat \ {0} /\ MonthLength[m] \in 28..31
      BY <1>5, MonthsAreNumbers
<1>8. FirstDay[m] <= d
      BY <1>2, <1>5, <1>6, <1>7
<1>9. d < FirstDay[m] + MonthLength[m]
      BY <1>3, <1>5, FirstDayIs
<1>10. MonthOf(d) = m /\ DayOfMonth(d) = d - FirstDay[m] + 1
      BY <1>2, <1>5, <1>8, <1>9, MonthIs
<1>11. QED BY <1>2, <1>5, <1>7, <1>8, <1>9, <1>10

\* A date in a month lies in it, on the day of the month it was asked for or the last.
LEMMA DateInMonth ==
    ASSUME NEW m \in Months, NEW k \in 1..31
    PROVE  /\ DateIn(m, k) \in Days
           /\ DateIn(m, k) = FirstDay[m] + (Least(k, MonthLength[m]) - 1)
           /\ MonthOf(DateIn(m, k)) = m
           /\ DayOfMonth(DateIn(m, k)) = Least(k, MonthLength[m])
<1> DEFINE L == Len(MonthLength)
           d == DateIn(m, k)
<1>1. /\ L \in Nat \ {0}
      /\ m \in 1..(L + 1) /\ m < L + 1 /\ L + 1 \in 1..(L + 1)
      BY MonthsAreNumbers DEF Months
<1>2. FirstDay[m] \in Nat \ {0} /\ MonthLength[m] \in 28..31 /\ FirstDay[L + 1] \in Nat
      BY <1>1, MonthsAreNumbers
<1>3. Least(k, MonthLength[m]) \in 1..MonthLength[m]
      BY <1>2 DEF Least
<1>4. d = FirstDay[m] + (Least(k, MonthLength[m]) - 1)
      BY DEF DateIn
<1> HIDE DEF d
<1>5. d \in Int /\ FirstDay[m] <= d /\ d < FirstDay[m] + MonthLength[m]
      BY <1>2, <1>3, <1>4
<1>6. MonthOf(d) = m /\ DayOfMonth(d) = d - FirstDay[m] + 1
      BY <1>5, MonthIs
<1>7. FirstDay[m] + MonthLength[m] <= FirstDay[L + 1]
      BY <1>1, MonthsApart
<1>8. d \in Days
      BY <1>2, <1>5, <1>7 DEF Days
<1>9. DayOfMonth(d) = Least(k, MonthLength[m])
      BY <1>2, <1>3, <1>4, <1>6
<1>10. QED BY <1>4, <1>6, <1>8, <1>9 DEF d

\* A date in a month is a number.
LEMMA DateIsNumber == ASSUME NEW m \in Months, NEW k \in 1..31 PROVE DateIn(m, k) \in Nat
<1>1. DateIn(m, k) \in Days
      BY DateInMonth
<1>2. QED BY <1>1 DEF Days

\* The same day in a later month is four weeks later at least.
LEMMA DateInGrows ==
    ASSUME NEW m \in Months, NEW n \in Months, NEW k \in 1..31, m < n
    PROVE  DateIn(m, k) + 28 <= DateIn(n, k)
<1>1. /\ FirstDay[m] \in Nat /\ FirstDay[n] \in Nat
      /\ MonthLength[m] \in 28..31 /\ MonthLength[n] \in 28..31
      BY MonthsAreNumbers DEF Months
<1>2. FirstDay[m] + MonthLength[m] <= FirstDay[n]
      BY MonthsAreNumbers, MonthsApart DEF Months
<1>3. QED BY <1>1, <1>2 DEF DateIn, Least

-----------------------------------------------------------------------------
(* Stepping and listing.                                                   *)

\* What begins at a day and goes on as Advance does is what stepping from the day gives.
LEMMA SteppingIs ==
    ASSUME NEW freq, NEW day, NEW n \in Nat, NEW date,
           date[0] = day, \A i \in 0..(n - 1) : date[i + 1] = Advance(freq, date[i])
    PROVE  AdvanceBy(freq, day, n) = date[n]
<1> DEFINE Fails == {i \in 0..n : AdvanceBy(freq, day, i) # date[i]}
<1> SUFFICES ASSUME Fails # {} PROVE FALSE
  <2>1. n \in 0..n
        OBVIOUS
  <2>2. QED BY <2>1
<1>1. PICK k \in Fails : \A i \in Fails : k <= i
  <2>1. Fails \subseteq Nat
        OBVIOUS
  <2> HIDE DEF Fails
  <2>2. QED BY <2>1, MinIsLeast
<1>2. k # 0
      BY <1>1, AdvanceByIs, Zenon
<1>3. /\ k - 1 \in Nat /\ k - 1 \in 0..n /\ k - 1 \in 0..(n - 1)
      /\ (k - 1) + 1 = k /\ ~ (k <= k - 1)
      BY <1>2
<1>4. AdvanceBy(freq, day, k - 1) = date[k - 1]
      BY <1>1, <1>3
<1>5. AdvanceBy(freq, day, (k - 1) + 1) = Advance(freq, AdvanceBy(freq, day, k - 1))
      BY <1>3, AdvanceByIs, Zenon
<1>6. AdvanceBy(freq, day, k) = date[k]
      BY <1>3, <1>4, <1>5
<1>7. QED BY <1>1, <1>6

\* Stepping by days.
LEMMA DaysOn ==
    ASSUME NEW day \in Nat, NEW n \in Nat
    PROVE  AdvanceBy("day", day, n) = day + n
<1> DEFINE date == [i \in Nat |-> day + i]
<1>1. date[0] = day /\ date[n] = day + n
      OBVIOUS
<1>2. \A i \in 0..(n - 1) : date[i + 1] = Advance("day", date[i])
      BY DEF Advance
<1> HIDE DEF date
<1>3. AdvanceBy("day", day, n) = date[n]
      BY <1>1, <1>2, SteppingIs
<1>4. QED BY <1>1, <1>3

\* Stepping by weeks.
LEMMA WeeksOn ==
    ASSUME NEW day \in Nat, NEW n \in Nat
    PROVE  AdvanceBy("week", day, n) = day + 7 * n
<1> DEFINE date == [i \in Nat |-> day + 7 * i]
<1>1. date[0] = day /\ date[n] = day + 7 * n
      OBVIOUS
<1>2. \A i \in 0..(n - 1) : date[i + 1] = Advance("week", date[i])
      BY DEF Advance
<1> HIDE DEF date
<1>3. AdvanceBy("week", day, n) = date[n]
      BY <1>1, <1>2, SteppingIs
<1>4. QED BY <1>1, <1>3

\* Stepping by months from one of the first 28 days of a month on.
LEMMA MonthsOn ==
    ASSUME NEW m \in Months, NEW k \in 1..28, NEW n \in Nat, m + n \in Months
    PROVE  AdvanceBy("month", FirstDay[m] + (k - 1), n) = FirstDay[m + n] + (k - 1)
<1> DEFINE date == [i \in Nat |-> FirstDay[m + i] + (k - 1)]
<1>1. date[0] = FirstDay[m] + (k - 1) /\ date[n] = FirstDay[m + n] + (k - 1)
      BY DEF Months
<1>2. ASSUME NEW i \in 0..(n - 1) PROVE date[i + 1] = Advance("month", date[i])
  <2>1. m + i \in Months /\ i \in Nat /\ i + 1 \in Nat /\ m + (i + 1) = (m + i) + 1
        BY MonthsAreNumbers DEF Months
  <2>2. FirstDay[m + i] \in Nat /\ MonthLength[m + i] \in 28..31
        BY <2>1, MonthsAreNumbers DEF Months
  <2> DEFINE d == date[i]
  <2>3. d = FirstDay[m + i] + (k - 1)
        BY <2>1
  <2> HIDE DEF d
  <2>4. d \in Int /\ FirstDay[m + i] <= d /\ d < FirstDay[m + i] + MonthLength[m + i]
        BY <2>2, <2>3
  <2>5. MonthOf(d) = m + i /\ DayOfMonth(d) = d - FirstDay[m + i] + 1
        BY <2>1, <2>4, MonthIs
  <2>6. DayOfMonth(d) = k
        BY <2>2, <2>3, <2>5
  <2>7. Advance("month", d) = FirstDay[(m + i) + 1] + (k - 1)
        BY <2>5, <2>6 DEF Advance
  <2>8. QED BY <2>1, <2>7 DEF d
<1> DEFINE from == FirstDay[m] + (k - 1)
<1>3. date[0] = from
      BY <1>1
<1> HIDE DEF date, from
<1>4. AdvanceBy("month", from, n) = date[n]
      BY <1>2, <1>3, SteppingIs
<1>5. QED BY <1>1, <1>4 DEF from

\* A listing whose periods follow each other up to the period of the other date, and
\* that does not run ahead of that date ...
Lists(freq, from, to, first, last) ==
    /\ {from, to, first, last} \subseteq Nat
    /\ first <= last /\ from <= to + 1
    /\ PeriodKey(freq, to) = last
    /\ \A i \in 0..(last - first) : PeriodKey(freq, AdvanceBy(freq, from, i)) = first + i
    /\ \A i \in 1..(last - first) : ~ (AdvanceBy(freq, from, i) > to + 1)

\* ... has them all.
LEMMA ListIs ==
    ASSUME NEW freq, NEW from, NEW to, NEW first, NEW last, NEW max \in Nat,
           Lists(freq, from, to, first, last), last - first < max
    PROVE  PeriodsBetween(freq, from, to, max) = first..last
<1> DEFINE n == last - first
           date(i) == AdvanceBy(freq, from, i)
           ends(i) == \/ i + 1 = max
                      \/ PeriodKey(freq, date(i)) = PeriodKey(freq, to)
                      \/ date(i + 1) > to + 1
           ending(i) == ends(i) /\ \A j \in 0..(i - 1) : ~ends(j)
<1>0. /\ from \in Nat /\ to \in Nat /\ first \in Nat /\ last \in Nat
      /\ n \in 0..(max - 1) /\ first + n = last /\ from <= to + 1
      BY DEF Lists
<1>1. ends(n)
  <2>1. n \in 0..(last - first) /\ first + n = last
        BY <1>0
  <2>2. QED BY <2>1 DEF Lists
<1>2. ASSUME NEW j \in 0..(n - 1) PROVE ~ends(j)
  <2>1. j + 1 # max /\ j \in 0..(last - first) /\ j + 1 \in 1..(last - first) /\ first + j # last
        BY <1>0
  <2>2. PeriodKey(freq, date(j)) # PeriodKey(freq, to)
        BY <2>1 DEF Lists
  <2>3. ~ (date(j + 1) > to + 1)
        BY <2>1 DEF Lists
  <2>4. QED BY <2>1, <2>2, <2>3
<1>3. ASSUME NEW i \in 0..n PROVE PeriodKey(freq, date(i)) = first + i
      BY DEF Lists
<1> HIDE DEF ends, n
<1>4. ending(n)
      BY <1>1, <1>2
<1>5. ASSUME NEW i \in 0..(max - 1), ending(i) PROVE i = n
  <2>1. ~ (i < n)
        BY <1>0, <1>2, <1>5
  <2>2. ~ (n < i)
    <3>1. n < i => n \in 0..(i - 1)
          BY <1>0
    <3>2. QED BY <1>1, <1>5, <3>1
  <2>3. QED BY <1>0, <2>1, <2>2
<1>6. LastStep(freq, from, to, max) = n
  <2>1. LastStep(freq, from, to, max) = CHOOSE i \in 0..(max - 1) : ending(i)
        BY Zenon DEF LastStep, ends
  <2> HIDE DEF ending
  <2>2. QED BY <1>0, <1>4, <1>5, <2>1
<1>7. Walk(freq, from, to, max) = {PeriodKey(freq, date(i)) : i \in 0..n}
      BY <1>0, <1>6 DEF Walk
<1>8. {PeriodKey(freq, date(i)) : i \in 0..n} = {first + i : i \in 0..n}
      BY <1>3
<1>9. {first + i : i \in 0..n} = first..last
  <2>1. ASSUME NEW p \in first..last PROVE \E i \in 0..n : p = first + i
    <3>1. p - first \in 0..n /\ p = first + (p - first)
          BY <1>0
    <3>2. QED BY <3>1
  <2>2. ASSUME NEW i \in 0..n PROVE first + i \in first..last
        BY <1>0
  <2>3. QED BY <2>1, <2>2
<1>10. first..last \subseteq Nat
      BY <1>0
<1>11. QED BY <1>7, <1>8, <1>9, <1>10 DEF PeriodsBetween

-----------------------------------------------------------------------------
(* Start dates.                                                            *)

\* The month a start date moves to is the first one from the given month on whose
\* date is far enough from today, when there is any.
LEMMA FarEnoughIs ==
    ASSUME NEW month \in Months, NEW k \in 1..31, NEW day \in Nat,
           NEW some \in Months, month <= some, DateIn(some, k) >= day + MinGap
    PROVE  /\ FarEnough(month, k, day) \in Months
           /\ month <= FarEnough(month, k, day)
           /\ DateIn(FarEnough(month, k, day), k) >= day + MinGap
           /\ \A j \in Months : month <= j /\ j < FarEnough(month, k, day)
                                    => DateIn(j, k) < day + MinGap
<1> DEFINE Far(m) == DateIn(m, k) >= day + MinGap
           Fars == {m \in Months : month <= m /\ Far(m)}
           first(m) == /\ m >= month /\ Far(m)
                       /\ \A j \in month..(m - 1) : DateIn(j, k) < day + MinGap
<1>1. Months \subseteq Nat /\ month \in Nat
      BY DEF Months
<1>2. ASSUME NEW m \in Months PROVE DateIn(m, k) \in Nat
      BY DateIsNumber
<1>3. ASSUME NEW m \in Months, NEW j \in month..(m - 1) PROVE j \in Months
      BY <1>1, MonthsAreNumbers DEF Months
<1>4. PICK n \in Fars : \A m \in Fars : n <= m
  <2>1. Fars \subseteq Nat /\ some \in Fars
        BY <1>1
  <2> HIDE DEF Fars
  <2>2. QED BY <2>1, MinIsLeast
<1>5. first(n)
  <2>1. ASSUME NEW j \in month..(n - 1) PROVE DateIn(j, k) < day + MinGap
    <3>1. j \in Months /\ month <= j /\ ~ (n <= j)
          BY <1>1, <1>3, <1>4
    <3>2. j \notin Fars
          BY <1>4, <3>1
    <3>3. ~Far(j)
          BY <3>1, <3>2
    <3>4. QED BY <1>2, <3>1, <3>3 DEF MinGap
  <2>2. QED BY <1>1, <1>4, <2>1
<1> DEFINE m == FarEnough(month, k, day)
<1>6. m = CHOOSE i \in Months : first(i)
      BY DEF FarEnough
<1> HIDE DEF m
<1>7. m \in Months /\ first(m)
  <2> HIDE DEF first
  <2>1. QED BY <1>4, <1>5, <1>6
<1>8. ASSUME NEW j \in Months, month <= j, j < m PROVE DateIn(j, k) < day + MinGap
  <2>1. j \in month..(m - 1)
        BY <1>1, <1>7, <1>8
  <2>2. QED BY <1>7, <2>1
<1>9. month <= m /\ Far(m)
      BY <1>1, <1>7
<1>10. QED BY <1>7, <1>8, <1>9 DEF m

\* The first of a set of dates, all of the dates on one day of the month from a bound on.
LEMMA EarliestIs ==
    ASSUME NEW k \in 1..31, NEW bound \in Nat, NEW m \in Months, DateIn(m, k) >= bound,
           \A j \in Months : j < m => DateIn(j, k) < bound
    PROVE  Min({date \in Days : /\ date >= bound
                                /\ DayOfMonth(date) = Least(k, MonthLength[MonthOf(date)])})
               = DateIn(m, k)
<1> DEFINE S == {date \in Days : /\ date >= bound
                                 /\ DayOfMonth(date) = Least(k, MonthLength[MonthOf(date)])}
           d == DateIn(m, k)
<1>1. S \subseteq Nat
      BY DEF Days
<1>2. d \in S
      BY DateInMonth
<1>3. ASSUME NEW date \in S PROVE d <= date
  <2>1. date \in Days /\ date >= bound
        OBVIOUS
  <2> DEFINE n == MonthOf(date)
  <2>2. n \in Months /\ date = FirstDay[n] + (DayOfMonth(date) - 1)
        BY <2>1, DayHasMonth
  <2>3. date = DateIn(n, k)
    <3>1. DayOfMonth(date) = Least(k, MonthLength[n])
          OBVIOUS
    <3> HIDE DEF n
    <3>2. QED BY <2>2, <3>1, DateInMonth
  <2> HIDE DEF n, S
  <2>4. ~ (n < m)
    <3>1. SUFFICES ASSUME n < m PROVE FALSE
          OBVIOUS
    <3>2. date < bound
          BY <2>2, <2>3, <3>1
    <3>3. date \in Nat
          BY <2>1 DEF Days
    <3>4. QED BY <2>1, <3>2, <3>3
  <2>5. CASE n = m
    <3>1. date \in Nat
          BY <2>1 DEF Days
    <3>2. QED BY <2>3, <2>5, <3>1
  <2>6. CASE m < n
    <3>1. d + 28 <= date
          BY <2>2, <2>3, <2>6, DateInGrows
    <3>2. d \in Nat /\ date \in Nat
          BY <1>1, <1>2, <2>1 DEF Days
    <3> HIDE DEF d
    <3>3. QED BY <3>1, <3>2
  <2>7. QED BY <2>2, <2>4, <2>5, <2>6 DEF Months
<1> HIDE DEF S, d
<1>4. Min(S) \in S /\ Min(S) <= d
      BY <1>1, <1>2, MinIsLeast
<1>5. d <= Min(S)
      BY <1>3, <1>4
<1>6. Min(S) \in Nat /\ d \in Nat
      BY <1>1, <1>2, <1>4
<1>7. Min(S) = d
      BY <1>4, <1>5, <1>6
<1>8. QED BY <1>7 DEF S, d

\* buildStartDateForDayOfMonth finds the first such day a gap after today.
LEMMA StartOnDayIs ==
    ASSUME NEW day \in Days, MonthOf(day) + 2 \in Months, NEW k \in 1..31
    PROVE  \E m \in Months :
              /\ StartOnDayOfMonth(k, day) = DateIn(m, k)
              /\ DateIn(m, k) >= day + MinGap
              /\ \A j \in Months : j < m => DateIn(j, k) < day + MinGap
<1> DEFINE M == MonthOf(day)
           next == IF DateIn(M, k) < day THEN M + 1 ELSE M
           m == FarEnough(next, k, day)
<1>1. /\ M \in Months /\ FirstDay[M] \in Nat /\ MonthLength[M] \in 28..31
      /\ FirstDay[M] <= day /\ day < FirstDay[M] + MonthLength[M] /\ day \in Nat
  <2>1. day \in Nat
        BY DEF Days
  <2>2. QED BY <2>1, DayHasMonth
<1>2. M + 2 \in Months
      OBVIOUS
<1> HIDE DEF M
<1>3. M \in Nat /\ M + 1 \in Months /\ next \in Months /\ next <= M + 2
      BY <1>1, <1>2, MonthsAreNumbers DEF Months
<1>4. DateIn(M + 2, k) >= day + MinGap
  <2>1. FirstDay[M + 1] = FirstDay[M] + MonthLength[M]
        BY <1>1, FirstDayIs
  <2>2. FirstDay[M + 1] + MonthLength[M + 1] <= FirstDay[M + 2]
    <3>1. M + 2 \in 1..(Len(MonthLength) + 1) /\ M + 1 < M + 2
          BY <1>2, <1>3, MonthsAreNumbers DEF Months
    <3>2. QED BY <1>3, <3>1, MonthsApart
  <2>3. /\ MonthLength[M + 1] \in 28..31 /\ MonthLength[M + 2] \in 28..31
        /\ FirstDay[M + 2] \in Nat
        BY <1>2, <1>3, MonthsAreNumbers DEF Months
  <2>4. QED BY <1>1, <2>1, <2>2, <2>3 DEF DateIn, Least, MinGap
<1> HIDE DEF next, m
<1>5. /\ m \in Months /\ next <= m /\ DateIn(m, k) >= day + MinGap
      /\ \A j \in Months : next <= j /\ j < m => DateIn(j, k) < day + MinGap
      BY <1>1, <1>2, <1>3, <1>4, FarEnoughIs DEF m
<1>6. ASSUME NEW j \in Months, j < m PROVE DateIn(j, k) < day + MinGap
  <2>1. j \in Nat /\ next \in Nat
        BY <1>3 DEF Months
  <2>2. CASE next <= j
        BY <1>5, <1>6, <2>2
  <2>3. CASE j = M /\ DateIn(M, k) < day
    <3>1. DateIn(M, k) \in Nat
          BY <1>1, DateIsNumber
    <3>2. QED BY <1>1, <2>3, <3>1 DEF MinGap
  <2>4. CASE j < M
    <3>1. DateIn(j, k) + 28 <= DateIn(M, k)
          BY <1>1, <2>4, DateInGrows
    <3>2. DateIn(M, k) \in Nat /\ DateIn(j, k) \in Nat
          BY <1>1, DateIsNumber
    <3>3. DateIn(M, k) < FirstDay[M] + MonthLength[M]
          BY <1>1 DEF DateIn, Least
    <3>4. QED BY <1>1, <3>1, <3>2, <3>3 DEF MinGap
  <2>5. QED BY <1>3, <2>1, <2>2, <2>3, <2>4 DEF next
<1>7. StartOnDayOfMonth(k, day) = DateIn(m, k)
      BY DEF StartOnDayOfMonth, m, next, M
<1>8. QED BY <1>5, <1>6, <1>7

\* ensureMinMonthlyGapStartDate finds the first such day a gap after today, and not
\* before the date asked for.
LEMMA WithMinGapIs ==
    ASSUME NEW day \in Days, MonthOf(day) + 2 \in Months,
           NEW asked \in Days, MonthOf(asked) + 1 \in Months
    PROVE  \E m \in Months :
              /\ WithMinGap(asked, day) = DateIn(m, DayOfMonth(asked))
              /\ DateIn(m, DayOfMonth(asked)) >= day + MinGap
              /\ DateIn(m, DayOfMonth(asked)) >= asked
              /\ \A j \in Months : j < m => \/ DateIn(j, DayOfMonth(asked)) < day + MinGap
                                            \/ DateIn(j, DayOfMonth(asked)) < asked
<1> DEFINE k == DayOfMonth(asked)
           A == MonthOf(asked)
           m == FarEnough(A, k, day)
<1>1. /\ A \in Months /\ FirstDay[A] \in Nat /\ MonthLength[A] \in 28..31
      /\ k \in 1..MonthLength[A] /\ k \in 1..31 /\ asked = FirstDay[A] + (k - 1)
      /\ A + 1 \in Months
  <2>1. /\ A \in Months /\ FirstDay[A] \in Nat /\ MonthLength[A] \in 28..31
        /\ k \in 1..MonthLength[A] /\ asked = FirstDay[A] + (k - 1)
        BY DayHasMonth
  <2>2. A + 1 \in Months
        OBVIOUS
  <2> HIDE DEF A, k
  <2>3. QED BY <2>1, <2>2
<1>2. asked \in Nat /\ day \in Nat
      BY DEF Days
<1>3. CASE asked < day
  <2>1. WithMinGap(asked, day) = StartOnDayOfMonth(k, day)
        BY <1>3 DEF WithMinGap
  <2> HIDE DEF k
  <2>2. PICK n \in Months : /\ StartOnDayOfMonth(k, day) = DateIn(n, k)
                            /\ DateIn(n, k) >= day + MinGap
                            /\ \A j \in Months : j < n => DateIn(j, k) < day + MinGap
        BY <1>1, StartOnDayIs
  <2>3. DateIn(n, k) \in Nat
        BY <1>1, DateIsNumber
  <2>4. DateIn(n, k) >= asked
        BY <1>2, <1>3, <2>2, <2>3 DEF MinGap
  <2>5. QED BY <2>1, <2>2, <2>4 DEF k
<1>4. CASE ~ (asked < day)
  <2>1. WithMinGap(asked, day) = DateIn(m, k)
        BY <1>4 DEF WithMinGap
  <2> HIDE DEF k, A, m
  <2>2. DateIn(A, k) = asked
        BY <1>1 DEF DateIn, Least
  <2>3. A < A + 1
        BY <1>1 DEF Months
  <2>4. DateIn(A, k) + 28 <= DateIn(A + 1, k)
        BY <1>1, <2>3, DateInGrows
  <2>5. DateIn(A + 1, k) \in Nat
        BY <1>1, DateIsNumber
  <2>6. DateIn(A + 1, k) >= day + MinGap /\ A <= A + 1
        BY <1>1, <1>2, <1>4, <2>2, <2>4, <2>5 DEF MinGap, Months
  <2>7. /\ m \in Months /\ A <= m /\ DateIn(m, k) >= day + MinGap
        /\ \A j \in Months : A <= j /\ j < m => DateIn(j, k) < day + MinGap
        BY <1>1, <1>2, <2>6, FarEnoughIs DEF m
  <2>8. ASSUME NEW n \in Months, A < n PROVE DateIn(n, k) >= asked /\ ~ (DateIn(n, k) < asked)
    <3>1. DateIn(A, k) + 28 <= DateIn(n, k)
          BY <1>1, <2>8, DateInGrows
    <3>2. DateIn(n, k) \in Nat
          BY <1>1, DateIsNumber
    <3>3. QED BY <1>2, <2>2, <3>1, <3>2
  <2>9. DateIn(m, k) >= asked
    <3>1. m = A \/ A < m
          BY <1>1, <2>7 DEF Months
    <3>2. QED BY <1>2, <2>2, <2>7, <2>8, <3>1
  <2>10. ASSUME NEW j \in Months, j < A PROVE DateIn(j, k) < asked
    <3>1. DateIn(j, k) + 28 <= DateIn(A, k)
          BY <1>1, <2>10, DateInGrows
    <3>2. DateIn(j, k) \in Nat
          BY <1>1, DateIsNumber
    <3>3. QED BY <1>2, <2>2, <3>1, <3>2
  <2>11. ASSUME NEW j \in Months, j < m
         PROVE  DateIn(j, k) < day + MinGap \/ DateIn(j, k) < asked
    <3>1. j < A \/ A <= j
          BY <1>1 DEF Months
    <3>2. QED BY <2>7, <2>10, <2>11, <3>1
  <2>12. QED BY <2>1, <2>7, <2>9, <2>11 DEF k
<1>5. QED BY <1>3, <1>4

-----------------------------------------------------------------------------
(* The listing that the dues and the coverage come from.                   *)

\* Days are listed one by one.
LEMMA DaysListed ==
    ASSUME NEW first \in Nat, NEW last \in Nat, NEW max \in Nat,
           first <= last, last - first < max
    PROVE  PeriodsBetween("day", first, last, max) = first..last
<1>1. ASSUME NEW i \in 0..(last - first) PROVE AdvanceBy("day", first, i) = first + i
      BY DaysOn
<1>2. \A i \in 0..(last - first) : PeriodKey("day", AdvanceBy("day", first, i)) = first + i
      BY <1>1 DEF PeriodKey
<1>3. \A i \in 1..(last - first) : ~ (AdvanceBy("day", first, i) > last + 1)
      BY <1>1
<1>4. PeriodKey("day", last) = last
      BY DEF PeriodKey
<1>5. Lists("day", first, last, first, last)
      BY <1>2, <1>3, <1>4 DEF Lists
<1>6. QED BY <1>5, ListIs

\* Weeks from a Monday or a Tuesday to a Monday are listed one by one.
LEMMA WeeksListed ==
    ASSUME NEW from \in Nat, NEW first \in Nat, NEW last \in Nat, NEW max \in Nat,
           from = 7 * (first - 1) + 1 \/ from = 7 * (first - 1) + 2,
           first <= last, last - first < max
    PROVE  PeriodsBetween("week", from, ReferenceDate("week", last), max) = first..last
<1> DEFINE to == 7 * (last - 1) + 1
<1>1. first >= 1
      OBVIOUS
<1>2. to \in Nat /\ from <= to + 1 /\ PeriodKey("week", to) = last
      BY <1>1 DEF PeriodKey
<1>3. ASSUME NEW i \in 0..(last - first) PROVE AdvanceBy("week", from, i) = from + 7 * i
      BY WeeksOn
<1>4. \A i \in 0..(last - first) : PeriodKey("week", AdvanceBy("week", from, i)) = first + i
      BY <1>1, <1>3 DEF PeriodKey
<1>5. \A i \in 1..(last - first) : ~ (AdvanceBy("week", from, i) > to + 1)
      BY <1>1, <1>3
<1> HIDE DEF to
<1>6. Lists("week", from, to, first, last)
      BY <1>2, <1>4, <1>5 DEF Lists
<1>7. PeriodsBetween("week", from, to, max) = first..last
      BY <1>6, ListIs
<1>8. QED BY <1>7 DEF to, ReferenceDate

\* Months from the 16th or before to a 15th are listed one by one.
LEMMA MonthsListed ==
    ASSUME NEW first \in Months, NEW from \in Nat,
           FirstDay[first] <= from, from <= FirstDay[first] + 15,
           NEW last \in Months, NEW max \in Nat, first <= last, last - first < max
    PROVE  PeriodsBetween("month", from, ReferenceDate("month", last), max) = first..last
<1> DEFINE to == FirstDay[last] + 14
           n  == last - first
           k  == from - FirstDay[first] + 1
<1>0. k \in 1..16 /\ from = FirstDay[first] + (k - 1)
  <2>1. FirstDay[first] \in Nat
        BY MonthsAreNumbers DEF Months
  <2>2. QED BY <2>1
<1> HIDE DEF k
<1>1. first \in Nat /\ last \in Nat /\ n \in Nat /\ first + n = last
      BY DEF Months
<1> HIDE DEF n
<1>2. ASSUME NEW i \in 0..n
      PROVE  /\ first + i \in Months /\ i \in Nat
             /\ FirstDay[first + i] \in Nat /\ MonthLength[first + i] \in 28..31
             /\ FirstDay[first + i] <= FirstDay[last]
  <2>1. /\ first + i \in Months /\ first + i \in 1..(Len(MonthLength) + 1) /\ i \in Nat
        /\ last \in 1..(Len(MonthLength) + 1)
        BY <1>1, MonthsAreNumbers DEF Months
  <2>2. /\ FirstDay[first + i] \in Nat /\ MonthLength[first + i] \in 28..31
        /\ FirstDay[last] \in Nat
        BY <2>1, MonthsAreNumbers
  <2>3. CASE first + i = last
        BY <2>1, <2>2, <2>3
  <2>4. CASE first + i # last
    <3>1. first + i < last
          BY <1>1, <2>4
    <3>2. FirstDay[first + i] + MonthLength[first + i] <= FirstDay[last]
          BY <2>1, <3>1, MonthsApart
    <3>3. QED BY <2>1, <2>2, <3>2
  <2>5. QED BY <2>3, <2>4
<1>3. ASSUME NEW i \in 0..n
      PROVE  AdvanceBy("month", from, i) = FirstDay[first + i] + (k - 1)
  <2>1. first + i \in Months /\ i \in Nat /\ k \in 1..28
        BY <1>0, <1>2
  <2>2. QED BY <1>0, <2>1, MonthsOn
<1>4. \A i \in 0..n : PeriodKey("month", AdvanceBy("month", from, i)) = first + i
  <2> SUFFICES ASSUME NEW i \in 0..n
               PROVE  PeriodKey("month", AdvanceBy("month", from, i)) = first + i
      OBVIOUS
  <2> DEFINE d == FirstDay[first + i] + (k - 1)
  <2>1. /\ first + i \in Months /\ d \in Int
        /\ FirstDay[first + i] <= d /\ d < FirstDay[first + i] + MonthLength[first + i]
        BY <1>0, <1>2
  <2>2. MonthOf(d) = first + i
    <3> HIDE DEF d
    <3>1. QED BY <2>1, MonthIs
  <2>3. QED BY <1>3, <2>2 DEF PeriodKey
<1>5. \A i \in 1..n : ~ (AdvanceBy("month", from, i) > to + 1)
  <2> SUFFICES ASSUME NEW i \in 1..n PROVE ~ (AdvanceBy("month", from, i) > to + 1)
      OBVIOUS
  <2>1. i \in 0..n /\ n \in 0..n
        BY <1>1
  <2>2. /\ FirstDay[first + i] \in Nat /\ FirstDay[last] \in Nat
        /\ FirstDay[first + i] <= FirstDay[last]
        BY <1>1, <1>2, <2>1
  <2>3. AdvanceBy("month", from, i) = FirstDay[first + i] + (k - 1)
        BY <1>3, <2>1
  <2>4. QED BY <1>0, <2>2, <2>3
<1>6. /\ from \in Nat /\ to \in Nat /\ from <= to + 1
      /\ PeriodKey("month", to) = last
  <2>1. 0 \in 0..n /\ n \in 0..n /\ first + 0 = first
        BY <1>1
  <2>2. FirstDay[first] \in Nat /\ FirstDay[first] <= FirstDay[last]
        BY <1>2, <2>1
  <2>3. FirstDay[last] \in Nat /\ MonthLength[last] \in 28..31
        BY <1>1, <1>2, <2>1
  <2>4. to \in Int /\ FirstDay[last] <= to /\ to < FirstDay[last] + MonthLength[last]
        BY <2>3
  <2>5. MonthOf(to) = last
    <3> HIDE DEF to
    <3>1. QED BY <2>4, MonthIs
  <2>6. QED BY <1>0, <2>2, <2>3, <2>5 DEF PeriodKey
<1> HIDE DEF to
<1>7. Lists("month", from, to, first, last)
  <2>1. n = last - first
        BY DEF n
  <2>2. QED BY <1>1, <1>4, <1>5, <1>6, <2>1 DEF Lists
<1>8. PeriodsBetween("month", from, to, max) = first..last
      BY <1>7, ListIs
<1>9. QED BY <1>8 DEF to, ReferenceDate

\* The dues from a start date that is not past the reference date of its period (or
\* the day after) run to the period of a day without a gap.
LEMMA DuesListed ==
    ASSUME NEW freq \in Frequencies, NEW start \in Nat \ {0}, NEW day \in Days, start <= day,
           start <= ReferenceDate(freq, PeriodKey(freq, start)) + 1,
           PeriodKey(freq, day) - PeriodKey(freq, start) < 36
    PROVE  DuePeriods(freq, start, PeriodKey(freq, day))
               = PeriodKey(freq, start)..PeriodKey(freq, day)
<1>1. day \in Nat
      BY DEF Days
<1>2. CASE freq = "day"
  <2>1. PeriodKey(freq, start) = start /\ PeriodKey(freq, day) = day
        BY <1>2 DEF PeriodKey
  <2>2. PeriodsBetween("day", start, day, 36) = start..day
        BY <1>1, <2>1, DaysListed
  <2>3. DuePeriods(freq, start, day) = PeriodsBetween("day", start, day, 36)
        BY <1>2 DEF DuePeriods, ReferenceDate
  <2>4. QED BY <2>1, <2>2, <2>3
<1>3. CASE freq = "week"
  <2> DEFINE first == 1 + (start - 1) \div 7
             now   == 1 + (day - 1) \div 7
  <2>1. PeriodKey(freq, start) = first /\ PeriodKey(freq, day) = now
        BY <1>3 DEF PeriodKey
  <2>2. first \in Nat /\ now \in Nat /\ first <= now
        BY <1>1
  <2>3. start = 7 * (first - 1) + 1 \/ start = 7 * (first - 1) + 2
    <3>1. start <= (7 * (first - 1) + 1) + 1
          BY <1>3, <2>1 DEF ReferenceDate
    <3>2. QED BY <3>1
  <2>4. now - first < 36
        BY <2>1
  <2>5. DuePeriods(freq, start, now) = PeriodsBetween("week", start, ReferenceDate("week", now), 36)
        BY <1>3 DEF DuePeriods
  <2> HIDE DEF first, now
  <2>6. PeriodsBetween("week", start, ReferenceDate("week", now), 36) = first..now
        BY <2>2, <2>3, <2>4, WeeksListed
  <2>7. QED BY <2>1, <2>5, <2>6
<1>4. CASE freq = "month"
  <2> DEFINE m   == MonthOf(start)
             now == MonthOf(day)
             k   == DayOfMonth(start)
  <2>1. PeriodKey(freq, start) = m /\ PeriodKey(freq, day) = now
        BY <1>4 DEF PeriodKey
  <2>2. start \in Days
        BY <1>1, MonthsAreNumbers DEF Days
  <2>3. /\ m \in Months /\ FirstDay[m] \in Nat /\ MonthLength[m] \in 28..31
        /\ k \in 1..MonthLength[m] /\ start = FirstDay[m] + (k - 1)
        BY <2>2, DayHasMonth
  <2>4. /\ now \in Months /\ FirstDay[now] \in Nat /\ MonthLength[now] \in 28..31
        /\ FirstDay[now] <= day /\ day < FirstDay[now] + MonthLength[now]
        BY <1>1, DayHasMonth
  <2>5. DuePeriods(freq, start, now) = PeriodsBetween("month", start, ReferenceDate("month", now), 36)
        BY <1>4 DEF DuePeriods
  <2>6. start <= (FirstDay[m] + 14) + 1
        BY <1>4, <2>1 DEF ReferenceDate
  <2> HIDE DEF m, now, k
  <2>7. FirstDay[m] <= start /\ start <= FirstDay[m] + 15
        BY <2>3, <2>6
  <2>8. m <= now
    <3>1. SUFFICES ASSUME now < m PROVE FALSE
          BY <2>3, <2>4 DEF Months
    <3>2. m \in 1..(Len(MonthLength) + 1)
          BY <2>3, MonthsAreNumbers DEF Months
    <3>3. FirstDay[now] + MonthLength[now] <= FirstDay[m]
          BY <2>4, <3>1, <3>2, MonthsApart
    <3>4. QED BY <1>1, <2>3, <2>4, <3>3
  <2>9. now - m < 36
        BY <2>1
  <2>10. PeriodsBetween("month", start, ReferenceDate("month", now), 36) = m..now
        BY <2>3, <2>4, <2>7, <2>8, <2>9, MonthsListed
  <2>11. QED BY <2>1, <2>5, <2>10
<1>5. QED BY <1>2, <1>3, <1>4 DEF Frequencies

\* A payment of n days covers them from its day on.
LEMMA DaysCovered ==
    ASSUME NEW day \in Nat, NEW n \in 1..36
    PROVE  PrepaidPeriods("day", day, n) = day..(day + (n - 1))
<1> DEFINE last == day + (n - 1)
<1>1. n - 1 \in Nat /\ last \in Nat /\ day <= last /\ last - day < 48 /\ n # 0
      OBVIOUS
<1>2. AdvanceBy("day", day, n - 1) = last
      BY <1>1, DaysOn
<1> HIDE DEF last
<1>3. PeriodsBetween("day", day, last, 48) = day..last
      BY <1>1, DaysListed
<1>4. PrepaidPeriods("day", day, n) = PeriodsBetween("day", day, last, 48)
      BY <1>1, <1>2 DEF PrepaidPeriods, PeriodKey, ReferenceDate
<1>5. QED BY <1>3, <1>4 DEF last

\* A payment of n months before the 29th covers them from its month on.
LEMMA MonthsCovered ==
    ASSUME NEW day \in Days, NEW n \in 1..36, MonthOf(day) + n \in Months, DayOfMonth(day) <= 28
    PROVE  PrepaidPeriods("month", day, n) = MonthOf(day)..(MonthOf(day) + (n - 1))
<1> DEFINE M == MonthOf(day)
           k == DayOfMonth(day)
           last == M + (n - 1)
<1>1. M \in Months /\ k \in 1..28 /\ day = FirstDay[M] + (k - 1)
      BY DayHasMonth
<1>2. M + n \in Months
      OBVIOUS
<1> HIDE DEF M, k
<1>3. /\ n - 1 \in Nat /\ last \in Months /\ M <= last /\ last - M < 48 /\ n # 0
      /\ M + (n - 1) \in Months
      BY <1>1, <1>2, MonthsAreNumbers DEF Months
<1>4. FirstDay[last] \in Nat /\ MonthLength[last] \in 28..31 /\ FirstDay[M] \in Nat
      BY <1>1, <1>3, MonthsAreNumbers DEF Months
<1>5. AdvanceBy("month", day, n - 1) = FirstDay[last] + (k - 1)
      BY <1>1, <1>3, MonthsOn
<1> HIDE DEF last
<1> DEFINE d == FirstDay[last] + (k - 1)
<1>6. MonthOf(d) = last
  <2>1. d \in Int /\ FirstDay[last] <= d /\ d < FirstDay[last] + MonthLength[last]
        BY <1>1, <1>4
  <2> HIDE DEF d
  <2>2. QED BY <1>3, <2>1, MonthIs
<1>7. PrepaidPeriods("month", day, n)
        = PeriodsBetween("month", ReferenceDate("month", M), ReferenceDate("month", last), 48)
      BY <1>3, <1>5, <1>6 DEF PrepaidPeriods, PeriodKey, M
<1>8. ReferenceDate("month", M) = FirstDay[M] + 14
      BY DEF ReferenceDate
<1>9. PeriodsBetween("month", FirstDay[M] + 14, ReferenceDate("month", last), 48) = M..last
  <2> DEFINE from == FirstDay[M] + 14
  <2>1. from \in Nat /\ FirstDay[M] <= from /\ from <= FirstDay[M] + 15
        BY <1>4
  <2> HIDE DEF from
  <2>2. PeriodsBetween("month", from, ReferenceDate("month", last), 48) = M..last
        BY <1>1, <1>3, <2>1, MonthsListed
  <2>3. QED BY <2>2 DEF from
<1>10. QED BY <1>7, <1>8, <1>9 DEF last, M

\* A number interval of n elements from a number on has n elements and a last one.
LEMMA IntervalIs ==
    ASSUME NEW first \in Nat, NEW n \in Nat \ {0}
    PROVE  /\ Cardinality(first..(first + (n - 1))) = n
           /\ Max(first..(first + (n - 1))) = first + (n - 1)
<1> DEFINE last == first + (n - 1)
<1>1. last \in Int /\ first <= last /\ last - first + 1 = n /\ last \in first..last
      OBVIOUS
<1>2. Cardinality(first..last) = n
      BY <1>1, FS_Interval
<1>3. \A x \in first..last : (\A y \in first..last : x >= y) => x = last
      BY <1>1
<1>4. \A y \in first..last : last >= y
      BY <1>1
<1> HIDE DEF last
<1>5. Max(first..last) = last
      BY <1>1, <1>3, <1>4 DEF Max
<1>6. QED BY <1>2, <1>5 DEF last

-----------------------------------------------------------------------------
(* The calendar of a subscription.                                         *)

\* A subscription is what its plan made of it on the day of the checkout.
Opened ==
    /\ today \in Today
    /\ \/ sub = NoSub
       \/ \E plan \in Plans : \E created \in Today :
            /\ plan.prepaid > 0 => KeyWidth[plan.freq] <= ColumnWidth
            /\ sub = [plan |-> plan, created |-> created, start |-> StartDate(plan, created),
                      covered |-> PrepaidPeriods(plan.freq, created, plan.prepaid)]

\* Only a checkout makes a subscription, and nothing changes it.
LEMMA OpenedStep == ASSUME Opened, [Next]_vars PROVE Opened'
<1>1. CASE \E plan \in Plans : Subscribe(plan)
  <2>1. PICK plan \in Plans : Subscribe(plan)
        BY <1>1
  <2>2. QED BY <2>1 DEF Opened, Subscribe
<1>2. CASE \E day \in Today : NextDay(day)
      BY <1>2 DEF Opened, NextDay
<1>3. CASE UNCHANGED <<today, sub>>
      BY <1>3 DEF Opened
<1>4. ASSUME NEW c \in Calls PROVE /\ \A d \in Donations : Record(c, d) => UNCHANGED <<today, sub>>
                                   /\ View(c) => UNCHANGED <<today, sub>>
                                   /\ Remind(c) => UNCHANGED <<today, sub>>
                                   /\ \A ids \in SUBSET Pending : Mark(c, ids) => UNCHANGED <<today, sub>>
      BY DEF Record, View, Remind, Mark, Arrive
<1>5. ASSUME NEW c \in Calls, Step(c) PROVE UNCHANGED <<today, sub>>
      BY <1>5 DEF Step, Exists, Prepaid, PrepaidKey, PrepaidRow, PrepaidLast, PrepaidWrite,
                  Coverage, Dues, Open, PickOldest, Settle, MarkRow
<1>6. ASSUME NEW d \in Donations, Complete(d) PROVE UNCHANGED <<today, sub>>
      BY <1>6 DEF Complete
<1>7. UNCHANGED vars => UNCHANGED <<today, sub>>
      BY DEF vars
<1>8. QED BY <1>1, <1>2, <1>3, <1>4, <1>5, <1>6, <1>7 DEF Next

\* The start date a plan gives is a number, and for months a day of the calendar; the
\* first billing on a chosen day of the month is the earliest there can be.
LEMMA FirstBilling ==
    ASSUME NEW plan \in Plans, NEW created \in Today,
           plan.prepaid = 0, plan.mode # "same_date",
           sub.plan = plan, sub.created = created, sub.start = StartDate(plan, created)
    PROVE  FirstBillingIsEarliest /\ sub.start \in Nat
<1>1. /\ plan.mode \in {"first_of_month", "day_of_month", "custom"} /\ ~ (plan.prepaid > 0)
      /\ created \in Days /\ created \in Nat /\ MonthOf(created) + 2 \in Months
      BY LedgerAssumption, ReachAssumption DEF Plan, Modes, Days
<1> DEFINE k == CASE plan.mode = "first_of_month" -> 1
                  [] plan.mode = "day_of_month"   -> plan.date
                  [] plan.mode = "custom"         -> DayOfMonth(plan.date)
                  [] OTHER                        -> 0
           OnDay(date) == DayOfMonth(date) = Least(k, MonthLength[MonthOf(date)])
           Billable == {date \in Days : /\ date >= created + MinGap
                                        /\ plan.mode = "custom" => date >= plan.date
                                        /\ OnDay(date)}
<1>2. ASSUME plan.mode # "custom" PROVE sub.start = Min(Billable) /\ sub.start \in Nat
  <2>1. k \in 1..31 /\ sub.start = StartOnDayOfMonth(k, created)
        BY <1>1, <1>2, ReachAssumption DEF StartDate
  <2>2. Billable = {date \in Days : date >= created + MinGap /\ OnDay(date)}
        BY <1>2
  <2> HIDE DEF k, Billable
  <2>3. PICK m \in Months : /\ StartOnDayOfMonth(k, created) = DateIn(m, k)
                            /\ DateIn(m, k) >= created + MinGap
                            /\ \A j \in Months : j < m => DateIn(j, k) < created + MinGap
        BY <1>1, <2>1, StartOnDayIs
  <2> DEFINE bound == created + MinGap
  <2>4. bound \in Nat
        BY <1>1 DEF MinGap
  <2>5. /\ DateIn(m, k) >= bound
        /\ \A j \in Months : j < m => DateIn(j, k) < bound
        BY <2>3
  <2>6. Billable = {date \in Days : date >= bound /\ OnDay(date)}
        BY <2>2
  <2> HIDE DEF bound
  <2>7. Min(Billable) = DateIn(m, k)
        BY <2>1, <2>4, <2>5, <2>6, EarliestIs
  <2>8. QED BY <2>1, <2>3, <2>7, DateIsNumber
<1>3. ASSUME plan.mode = "custom" PROVE sub.start = Min(Billable) /\ sub.start \in Nat
  <2> DEFINE asked == plan.date
  <2>1. asked \in Days /\ MonthOf(asked) + 1 \in Months
        BY <1>3, ReachAssumption
  <2>2. k = DayOfMonth(asked) /\ sub.start = WithMinGap(asked, created)
        BY <1>1, <1>3 DEF StartDate
  <2>3. k \in 1..31
        BY <2>1, <2>2, DayHasMonth
  <2>4. Billable = {date \in Days : date >= created + MinGap /\ date >= asked /\ OnDay(date)}
        BY <1>3
  <2> HIDE DEF k, Billable, asked
  <2>5. PICK m \in Months : /\ WithMinGap(asked, created) = DateIn(m, k)
                            /\ DateIn(m, k) >= created + MinGap
                            /\ DateIn(m, k) >= asked
                            /\ \A j \in Months : j < m => \/ DateIn(j, k) < created + MinGap
                                                          \/ DateIn(j, k) < asked
        BY <1>1, <2>1, <2>2, WithMinGapIs
  <2> DEFINE bound == IF asked < created + MinGap THEN created + MinGap ELSE asked
  <2>6. /\ bound \in Nat
        /\ \A x \in Nat : x >= bound <=> x >= created + MinGap /\ x >= asked
        /\ \A x \in Nat : x < created + MinGap \/ x < asked => x < bound
        BY <1>1, <2>1 DEF Days, MinGap
  <2> HIDE DEF bound
  <2>7. /\ DateIn(m, k) >= bound
        /\ \A j \in Months : j < m => DateIn(j, k) < bound
        BY <2>3, <2>5, <2>6, DateIsNumber
  <2>8. Billable = {date \in Days : date >= bound /\ OnDay(date)}
        BY <2>4, <2>6 DEF Days
  <2>9. Min(Billable) = DateIn(m, k)
        BY <2>3, <2>6, <2>7, <2>8, EarliestIs
  <2>10. QED BY <2>2, <2>3, <2>5, <2>9, DateIsNumber
<1>4. sub.start = Min(Billable) /\ sub.start \in Nat
      BY <1>2, <1>3
<1>5. FirstBillingIsEarliest
      BY <1>4 DEF FirstBillingIsEarliest
<1>6. QED BY <1>4, <1>5

\* What a prepaid plan covers, and where its billing goes on.
LEMMA PrepaidCovers ==
    ASSUME NEW plan \in Plans, NEW created \in Today,
           plan.prepaid > 0, plan.freq # "week",
           sub.plan = plan, sub.created = created, sub.start = StartDate(plan, created),
           sub.covered = PrepaidPeriods(plan.freq, created, plan.prepaid)
    PROVE  CoverageExact /\ sub.start \in Nat
<1> DEFINE n == plan.prepaid
           M == MonthOf(created)
           k == DayOfMonth(created)
<1>1. /\ plan.freq \in {"day", "month"} /\ n \in 1..36
      /\ created \in Days /\ created \in Nat
      BY LedgerAssumption DEF Plan, Frequencies, Days
<1>2. M + n \in Months
      BY ReachAssumption
<1>3. M \in Months /\ M \in Nat /\ M + n \in Nat /\ k \in 1..31
      /\ created = FirstDay[M] + (k - 1) /\ FirstDay[M] \in Nat
      /\ n \in Nat \ {0}
  <2>1. /\ M \in Months /\ MonthLength[M] \in 28..31 /\ k \in 1..MonthLength[M]
        /\ created = FirstDay[M] + (k - 1) /\ FirstDay[M] \in Nat
        BY <1>1, DayHasMonth
  <2> HIDE DEF M, k, n
  <2>2. QED BY <1>1, <1>2, <2>1 DEF Months
<1>4. CASE plan.freq = "day"
  <2>1. sub.start = created + n
    <3>1. sub.start = AdvanceBy("day", created, n)
          BY <1>4 DEF StartDate, StartAfterPrepaid
    <3> HIDE DEF n
    <3>2. QED BY <1>1, <1>3, <3>1, DaysOn
  <2>2. sub.covered = PrepaidPeriods("day", created, n)
        BY <1>4
  <2> HIDE DEF n
  <2>3. sub.covered = created..(created + (n - 1))
        BY <1>1, <2>2, DaysCovered
  <2>4. Cardinality(sub.covered) = n /\ Max(sub.covered) = created + (n - 1)
        BY <1>1, <1>3, <2>3, IntervalIs
  <2>5. PeriodKey("day", sub.start) = Max(sub.covered) + 1
        BY <1>1, <1>3, <2>1, <2>4 DEF PeriodKey
  <2>6. sub.start \in Nat
        BY <1>1, <1>3, <2>1
  <2>7. QED BY <1>4, <2>4, <2>5, <2>6 DEF CoverageExact, n
<1>5. CASE plan.freq = "month"
  <2> DEFINE date == DateIn(M + n, k)
  <2>1. sub.start = WithMinGap(date, created)
        BY <1>5 DEF StartDate, StartAfterPrepaid
  <2>2. sub.covered = PrepaidPeriods("month", created, n)
        BY <1>5
  <2> HIDE DEF n, M, k
  <2>3. /\ DateIn(M, k) \in Nat /\ DateIn(M, k) + 28 <= date /\ date \in Nat
        /\ MonthOf(date) = M + n /\ DayOfMonth(date) = Least(k, MonthLength[M + n])
        /\ date = FirstDay[M + n] + (Least(k, MonthLength[M + n]) - 1)
    <3>1. M < M + n
          BY <1>3
    <3>2. QED BY <1>2, <1>3, <3>1, DateInGrows, DateInMonth, DateIsNumber
  <2>4. MonthLength[M + n] \in 28..31 /\ FirstDay[M + n] \in Nat /\ MonthLength[M] \in 28..31
        BY <1>2, <1>3, MonthsAreNumbers DEF Months
  <2>5. created <= DateIn(M, k) + 3
        BY <1>3, <2>4 DEF DateIn, Least
  <2> DEFINE j == Least(k, MonthLength[M + n])
  <2>6. j \in 1..31 /\ DateIn(M + n, j) = date
        BY <1>3, <2>4 DEF DateIn, Least
  <2>7. date >= created + MinGap /\ ~ (date < created)
        BY <1>1, <2>3, <2>5 DEF MinGap
  <2>8. sub.start = DateIn(FarEnough(M + n, j, created), j)
        BY <2>1, <2>3, <2>7 DEF WithMinGap
  <2> HIDE DEF j, date
  <2>9. FarEnough(M + n, j, created) = M + n
    <3> DEFINE far == FarEnough(M + n, j, created)
    <3>1. M + n <= M + n /\ DateIn(M + n, j) >= created + MinGap
          BY <1>3, <2>6, <2>7
    <3>2. /\ far \in Months /\ M + n <= far
          /\ \A i \in Months : M + n <= i /\ i < far => DateIn(i, j) < created + MinGap
          BY <1>1, <1>2, <2>6, <3>1, FarEnoughIs
    <3> HIDE DEF far
    <3>3. ~ (M + n < far)
      <4>1. SUFFICES ASSUME M + n < far PROVE FALSE
            OBVIOUS
      <4>2. date < created + MinGap
            BY <1>2, <2>6, <3>1, <3>2, <4>1
      <4>3. QED BY <1>1, <2>3, <2>7, <4>2 DEF MinGap
    <3>4. far = M + n
          BY <1>3, <3>2, <3>3 DEF Months
    <3>5. QED BY <3>4 DEF far
  <2>10. sub.start = date
        BY <2>6, <2>8, <2>9
  <2>11. PeriodKey("month", sub.start) = M + n
        BY <2>3, <2>10 DEF PeriodKey
  <2>12. ASSUME k <= 28 PROVE /\ Cardinality(sub.covered) = n
                              /\ PeriodKey("month", sub.start) = Max(sub.covered) + 1
    <3>1. sub.covered = M..(M + (n - 1))
          BY <1>1, <1>2, <2>2, <2>12, MonthsCovered DEF M, k
    <3>2. Cardinality(sub.covered) = n /\ Max(sub.covered) = M + (n - 1)
          BY <1>3, <3>1, IntervalIs
    <3>3. QED BY <1>3, <2>11, <3>2
  <2>13. QED BY <1>5, <2>3, <2>10, <2>12 DEF CoverageExact, n, k
<1>6. QED BY <1>1, <1>4, <1>5

\* The calendar utilities step period by period: they list exactly the periods between
\* a start date and a day, start billing on the earliest day there is, and cover as many
\* periods as were paid for.
THEOREM CalendarIsExact == Spec => []CalendarExact
<1>1. Init => Opened
      BY DEF Init, Opened
<1>2. Opened /\ [Next]_vars => Opened'
      BY OpenedStep
<1>3. Opened => CalendarExact
  <2> SUFFICES ASSUME Opened PROVE CalendarExact
      OBVIOUS
  <2>1. CASE ~Subscribed
        BY <2>1 DEF CalendarExact, DueListExact, FirstBillingIsEarliest, CoverageExact
  <2>2. CASE Subscribed
    <3>1. sub # NoSub
          BY <2>2 DEF Subscribed, NoSub
    <3>2. PICK plan \in Plans, created \in Today :
              /\ plan.prepaid > 0 => KeyWidth[plan.freq] <= ColumnWidth
              /\ sub = [plan |-> plan, created |-> created, start |-> StartDate(plan, created),
                        covered |-> PrepaidPeriods(plan.freq, created, plan.prepaid)]
          BY <3>1 DEF Opened
    <3>3. /\ sub.plan = plan /\ sub.created = created /\ sub.start = StartDate(plan, created)
          /\ sub.covered = PrepaidPeriods(plan.freq, created, plan.prepaid)
          BY <3>2
    <3>4. /\ plan.freq \in Frequencies /\ plan.mode \in Modes /\ plan.prepaid \in 0..36
          /\ today \in Days /\ created \in Days /\ created \in Nat
          BY LedgerAssumption DEF Opened, Plan, Days
    <3>5. CoverageExact /\ FirstBillingIsEarliest /\ sub.start \in Nat
      <4>1. CASE plan.prepaid > 0
        <5>1. plan.freq # "week"
              BY <3>2, <4>1 DEF KeyWidth, ColumnWidth
        <5>2. CoverageExact /\ sub.start \in Nat
              BY <3>3, <4>1, <5>1, PrepaidCovers
        <5>3. FirstBillingIsEarliest
              BY <3>3, <3>4, <4>1 DEF FirstBillingIsEarliest
        <5>4. QED BY <5>2, <5>3
      <4>2. CASE ~ (plan.prepaid > 0)
        <5>1. CoverageExact
              BY <3>3, <4>2 DEF CoverageExact
        <5>2. plan.prepaid = 0
              BY <3>4, <4>2
        <5>3. CASE plan.mode = "same_date"
          <6>1. sub.start = created
                BY <3>3, <4>2, <5>3 DEF StartDate
          <6>2. FirstBillingIsEarliest
                BY <3>3, <5>3 DEF FirstBillingIsEarliest
          <6>3. QED BY <3>4, <5>1, <6>1, <6>2
        <5>4. CASE plan.mode # "same_date"
              BY <3>3, <5>1, <5>2, <5>4, FirstBilling
        <5>5. QED BY <5>3, <5>4
      <4>3. QED BY <4>1, <4>2
    <3>6. DueListExact
      <4>1. sub.start \in Nat \ {0}
            BY <2>2, <3>5 DEF Subscribed
      <4>2. QED BY <3>3, <3>4, <4>1, DuesListed DEF DueListExact
    <3>7. QED BY <3>5, <3>6 DEF CalendarExact
  <2>3. QED BY <2>1, <2>2
<1>4. QED BY <1>1, <1>2, <1>3, PTL DEF Spec
=============================================================================
