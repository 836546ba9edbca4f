----------------------- MODULE PledgeRemindersProofs ------------------------
(***************************************************************************)
(* Proofs about PledgeReminders that hold for every number of pledges,     *)
(* channels, days and handlers side by side, and any number of overlaps,   *)
(* deaths and forced runs.                                                 *)
(*                                                                         *)
(* First the types, and where a run is in its work (CallOK).  Then the     *)
(* donor's flag (Flagging), the links (LinksCounted), and what may still   *)
(* be sent: of each thanks and of each reminder it is shown that those     *)
(* sent and those that the handlers under way may still send are one and   *)
(* the troubles there were (ThanksCounted, RemindersCounted).              *)
(***************************************************************************)
EXTENDS PledgeReminders, FiniteSetTheorems, WellFoundedInduction, TLAPS

-----------------------------------------------------------------------------
(* Where a handler is.                                                     *)

\* What a run may have to go through: some of the frequencies, in this order.
Todos == {<<>>, <<"daily">>, <<"weekly">>, <<"monthly">>, <<"daily", "weekly">>,
          <<"daily", "monthly">>, <<"weekly", "monthly">>, <<"daily", "weekly", "monthly">>}

Left(todo) == {todo[i] : i \in DOMAIN todo}

\* The pledges that a run has not read yet, and those it has read and not come to.
InRun(k) == k.op = "job" /\ k.pc \in RunPcs

Later(k) == {p \in Pledges : /\ InRun(k)
                             /\ freq[p] \in Left(k.todo)
                             /\ freq[p] = Head(k.todo) => p > k.last}

Queue(k) == {p \in DOMAIN k.rows : /\ InRun(k)
                                   /\ k.pc = "lookup" \/ (k.pc \in Working /\ p \in k.ids)}

Coming(k) == Later(k) \union Queue(k)

\* Which statements belong to which handler.
PlaceOK(k) ==
    /\ k.op = "none" => k = NoCall
    /\ k.op = "job" => k.pc \in RunPcs \union SubPcs
    /\ k.op = "pay" => k.pc \in PayPcs
    /\ k.op = "cleanup" => k.pc \in {"today", "archive"}
    /\ k.op = "create" => k.pc \in {"create", "recurring"}
    /\ k.op \in {"update", "remove"} => k.pc \in {"load", "save", "count", "recurring"}

ToRemind(k, p) == k.force \/ k.rows[p].reminded # KeyOf(freq[p], day)

\* A run that has read a chunk of pledges.
ChunkOK(k) ==
    /\ k.todo # <<>>
    /\ \A q \in DOMAIN k.rows : freq[q] = Head(k.todo) /\ q <= k.last
    /\ k.marks \union k.thanked \union k.given \subseteq DOMAIN k.rows
    /\ k.ids \subseteq DOMAIN k.rows
    /\ k.pc = "lookup" => k.ids # {}
    /\ k.pc = "mark" => k.marks \union k.thanked # {}
    /\ k.pc \in Working =>
          /\ k.p \in DOMAIN k.rows \ k.ids
          /\ k.chans # {}
          /\ IF k.pc \in {"findOpen", "insert", "remind"}
             THEN k.p \notin k.given /\ ToRemind(k, k.p) ELSE k.p \in k.given
          /\ k.pc \in {"thank", "flag"} => k.d \in DOMAIN donation /\ donation[k.d].for = k.p

RunOK(k) == InRun(k) => /\ k.todo \in Todos /\ Left(k.todo) \subseteq Left(DueOn(day)) /\ k.size # 0
                        /\ k.pc \in {"chunk", "lookup"} => k.marks = {}
                        /\ k.pc # "chunk" => ChunkOK(k)

RemindDays == DOMAIN EarlyFor \union BillingDays

SubOK(k) ==
    /\ k.pc \in SubPcs \ {"subRead"} => k.p = Sub
    /\ k.pc \in SubPcs \ {"subRead", "subMark"} => k.chans # {}
    /\ k.pc \in SubPcs \ {"subRead", "subInitial"} => day \in RemindDays
    /\ k.pc \in SubPcs \ {"subRead", "subInitial", "subSettled"} =>
          k.force \/ k.key # SubKey(day)

OtherOK(k) ==
    /\ k.pc \in PayPcs => k.d \in DOMAIN donation /\ k.chans # {}
    /\ k.pc = "archive" => k.ids # {} /\ k.ids \subseteq DOMAIN donation
    /\ k.op \in Staff => k.p \in Pledges
    /\ k.pc = "save" => DOMAIN k.rows = {k.p}

CallOK(k) == PlaceOK(k) /\ RunOK(k) /\ SubOK(k) /\ OtherOK(k)

Placed == TypeOK /\ \A c \in Calls : CallOK(call[c])

-----------------------------------------------------------------------------
(* The donor's flag.                                                       *)

AnyActive == \E p \in Pledges : pledge[p].status = "active"

Changing(c) == call[c].op \in Staff

\* As long as changes of pledges do not overlap, the flag is right until one of them has
\* changed a pledge, and what it is about to be set to is right.
Flagging ==
    ~crossed =>
        /\ \A c, x \in Calls : Changing(c) /\ Changing(x) => c = x
        /\ (\A c \in Calls : Changing(c) => call[c].pc \in {"create", "load", "save"}) =>
              (recurring <=> AnyActive)
        /\ \A c \in Calls : Changing(c) /\ call[c].pc = "recurring" => (call[c].ok <=> AnyActive)

-----------------------------------------------------------------------------
(* The links.                                                              *)

Busy == {c \in Calls : Running(c)}

Links(t) == {d \in DOMAIN donation : /\ donation[d].for = t /\ donation[d].link
                                     /\ Open(donation[d].status) /\ ~donation[d].archived}

Inserting(t) == {c \in Calls : call[c].pc \in {"insert", "subInsert"} /\ call[c].p = t}

LinksCounted ==
    /\ Cardinality(Busy) <= 1 + overlaps
    /\ \A t \in Targets : Cardinality(Links(t)) + Cardinality(Inserting(t)) <= 1 + overlaps

-----------------------------------------------------------------------------
(* What may still be sent.  A message is sent once because it is noted in  *)
(* a row.  Of the handlers under way, some will send it whatever the row   *)
(* says, having looked already (H); some may take the note back (U); some  *)
(* have yet to look (W).  Once it is noted and nobody takes that back, the *)
(* first only count; before, all of them do, and if there are none the     *)
(* next handler will send it, unless one is about to note it (G).          *)

Pot(noted, H, U, W, G) ==
    IF noted /\ U = {} THEN Cardinality(H)
    ELSE IF H \union U \union W # {} THEN Cardinality(H \union U \union W)
    ELSE IF G # {} THEN 0 ELSE 1

\* Of thanks for donation d on channel ch.
Sends(k, d, ch) == /\ k.op = "job" /\ k.d = d
                   /\ \/ k.pc = "thank" /\ ch \in k.chans
                      \/ k.pc = "flag" /\ ch \in Others(k)

Holds(k, d, ch) == k.pc \in {"send", "release"} /\ k.d = d /\ ch = First(k)

MayThank(k, d, ch) ==
    \/ donation[d].for \in Coming(k)
    \/ InRun(k) /\ k.pc = "findPaid" /\ k.p = donation[d].for
    \/ k.pc \in {"complete", "settle", "claim"} /\ k.d = d /\ ch \in k.chans
    \/ k.pc \in {"send", "release"} /\ k.d = d /\ ch \in Others(k)

Flags(k, d, ch) == k.pc = "flag" /\ k.d = d /\ ch = First(k)

Senders(d, ch)  == {c \in Calls : Sends(call[c], d, ch)}
Holders(d, ch)  == {c \in Calls : Holds(call[c], d, ch)}
Thankers(d, ch) == {c \in Calls : MayThank(call[c], d, ch)}
Flaggers(d, ch) == {c \in Calls : Flags(call[c], d, ch)}

ThanksOf(d, ch) == {t \in thanks : t[1] = d /\ t[2] = ch}

ThanksPot(d, ch) ==
    Pot(ch \in donation[d].sent, Senders(d, ch), Holders(d, ch), Thankers(d, ch), Flaggers(d, ch))

OneHolder ==
    \A c \in Calls : call[c].pc \in {"send", "release"} =>
        /\ First(call[c]) \in donation[call[c].d].sent
        /\ \A x \in Calls : Holds(call[x], call[c].d, First(call[c])) => x = c

ThanksKept ==
    /\ IsFiniteSet(thanks)
    /\ \A t \in thanks : /\ t[1] \in DOMAIN donation /\ t[2] \in Channel
                         /\ t[3] \in Nat /\ t[3] <= Cardinality(ThanksOf(t[1], t[2]))

ThanksCounted ==
    /\ ThanksKept
    /\ \A d \in DOMAIN donation, ch \in Channel :
          Cardinality(ThanksOf(d, ch)) + ThanksPot(d, ch) <= 1 + overlaps + deaths

\* Of the reminder of pledge p today.
KeyToday(p) == KeyOf(freq[p], day)

Reminds(k, p) ==
    /\ k.op = "job"
    /\ \/ p \in Later(k) /\ k.force
       \/ p \in Queue(k) /\ ToRemind(k, p)
       \/ k.pc \in {"findOpen", "insert", "remind"} /\ k.p = p /\ ~k.ok

Reverts(k, p) == k.pc = "save" /\ k.p = p /\ k.rows[p].reminded # KeyToday(p)

MayRemind(k, p) ==
    \/ p \in Later(k) /\ ~k.force
    \/ k.pc = "load" /\ k.p = p

Marks(k, p) ==
    InRun(k) /\ (p \in k.marks \/ (k.pc = "remind" /\ k.p = p /\ k.ok))

\* Of the reminder of the subscription today.
SubReminds(k) ==
    /\ k.op = "job"
    /\ \/ k.pc \in RunPcs \union {"subRead"} /\ k.force
       \/ /\ k.pc \in SubPcs \ {"subRead", "subMark"}
          /\ k.force \/ k.key # SubKey(day)
          /\ k.pc = "subRemind" => ~k.ok

SubMay(k) == k.op = "job" /\ k.pc \in RunPcs \union {"subRead"} /\ ~k.force

SubMarks(k) == k.pc = "subMark" \/ (k.pc = "subRemind" /\ k.ok)

\* Of the reminder of either today.
Noted(t) == IF t = Sub THEN mark = SubKey(day) ELSE pledge[t].reminded = KeyToday(t)

Reminding(t) == {c \in Calls : IF t = Sub THEN SubReminds(call[c]) ELSE Reminds(call[c], t)}
Reverting(t) == {c \in Calls : t # Sub /\ Reverts(call[c], t)}
Pending(t)   == {c \in Calls : IF t = Sub THEN SubMay(call[c]) ELSE MayRemind(call[c], t)}
Marking(t)   == {c \in Calls : IF t = Sub THEN SubMarks(call[c]) ELSE Marks(call[c], t)}

RemindPot(t) == Pot(Noted(t), Reminding(t), Reverting(t), Pending(t), Marking(t))

\* The days on which it is due, its key of a day, and the reminders with a key.
DueDays(t) ==
    IF t = Sub THEN RemindDays ELSE {d \in 1 .. Days : freq[t] \in Left(DueOn(d))}

KeyFor(t, d) == IF t = Sub THEN SubKey(d) ELSE KeyOf(freq[t], d)

RemindersOf(t, key) == {r \in reminders : r[1] = t /\ r[2] = key}

\* The key of a week does not fit, so nothing is noted.
Counted(t) == t = Sub \/ Fits(freq[t])

RemindersKept ==
    /\ IsFiniteSet(reminders)
    /\ \A r \in reminders :
          /\ r[1] \in Targets
          /\ r[2] \in {KeyFor(r[1], d) : d \in {x \in DueDays(r[1]) : x <= day}}
          /\ r[3] \in Nat /\ r[3] <= Cardinality(RemindersOf(r[1], r[2]))

RemindersCounted ==
    /\ RemindersKept
    /\ \A r \in reminders : Counted(r[1]) =>
          Cardinality(RemindersOf(r[1], r[2])) <= 1 + overlaps + deaths + forced
    /\ \A t \in Targets : Counted(t) /\ day \in DueDays(t) =>
          Cardinality(RemindersOf(t, KeyFor(t, day))) + RemindPot(t)
              <= 1 + overlaps + deaths + forced

-----------------------------------------------------------------------------
(* Numbers and frequencies.                                                *)

\* Min picks a least element of a set of numbers, finite or not.
LEMMA MinIsLeast ==
    ASSUME NEW S, S \subseteq Nat, S # {}
    PROVE  Min(S) \in S /\ \A y \in S : Min(S) <= y
<1> DEFINE Less == {ss \in Nat \X Nat : ss[1] < ss[2]}
<1>1. PICK x \in S : \A y \in S : ~ (<<y, x>> \in Less)
  <2>1. IsWellFoundedOn(Less, Nat)
        BY NatLessThanWellFounded DEF OpToRel
  <2>2. QED BY <2>1, WFMin
<1>2. ASSUME NEW y \in S PROVE x <= y
  <2>1. <<y, x>> \in Nat \X Nat /\ <<y, x>>[1] = y /\ <<y, x>>[2] = x
        OBVIOUS
  <2>2. ~ (y < x)
        BY <1>1, <2>1
  <2>3. QED BY <2>2
<1>3. QED BY <1>2 DEF Min

\* Max picks a greatest element of a set of numbers up to k.
LEMMA MaxIsGreatest ==
    ASSUME NEW k \in Nat, NEW S, S \subseteq 1 .. k, S # {}
    PROVE  Max(S) \in S /\ \A y \in S : y <= Max(S)
<1> DEFINE T == {k - y : y \in S}
<1>1. T \subseteq Nat /\ T # {}
  <2>1. ASSUME NEW y \in S PROVE k - y \in Nat
    <3>1. y \in Nat /\ y <= k
          OBVIOUS
    <3>2. QED BY <3>1
  <2>2. QED BY <2>1, Zenon
<1>2. Min(T) \in T /\ \A u \in T : Min(T) <= u
      BY <1>1, MinIsLeast
<1>3. PICK x \in S : Min(T) = k - x
      BY <1>2
<1>4. ASSUME NEW y \in S PROVE x >= y
  <2>1. Min(T) <= k - y
        BY <1>2
  <2>2. k \in Int /\ x \in Int /\ y \in Int
        OBVIOUS
  <2>3. QED BY <1>3, <2>1, <2>2
<1>5. QED BY <1>4 DEF Max

\* What is left of a run's frequencies once it is through with the first.
LEMMA TodoNext ==
    ASSUME NEW s \in Todos, s # <<>>
    PROVE  /\ Head(s) \in Freqs /\ Head(s) \in Left(s)
           /\ Tail(s) \in Todos
           /\ Left(Tail(s)) \subseteq Left(s) \ {Head(s)}
<1>1. CASE s = <<"daily">> BY <1>1 DEF Todos, Left, Freqs
<1>2. CASE s = <<"weekly">> BY <1>2 DEF Todos, Left, Freqs
<1>3. CASE s = <<"monthly">> BY <1>3 DEF Todos, Left, Freqs
<1>4. CASE s = <<"daily", "weekly">> BY <1>4 DEF Todos, Left, Freqs
<1>5. CASE s = <<"daily", "monthly">> BY <1>5 DEF Todos, Left, Freqs
<1>6. CASE s = <<"weekly", "monthly">> BY <1>6 DEF Todos, Left, Freqs
<1>7. CASE s = <<"daily", "weekly", "monthly">> BY <1>7 DEF Todos, Left, Freqs
<1>8. QED BY <1>1, <1>2, <1>3, <1>4, <1>5, <1>6, <1>7 DEF Todos

\* The frequencies that are due on a day are such a sequence.
LEMMA DueTodo ==
    ASSUME NEW d PROVE DueOn(d) \in Todos
BY DEF DueOn, Todos

\* They are sequences of frequencies.
LEMMA TodoSeq == Todos \subseteq Seq(Freqs)
BY DEF Todos, Freqs

-----------------------------------------------------------------------------
(* A run goes on to the next pledge.                                       *)

\* A run that is through with a pledge of its chunk; k.ids are those still to come.
Between(k) ==
    /\ k \in Call /\ k.op = "job" /\ k.pc \in RunPcs \ {"chunk"}
    /\ k.todo \in Todos \ {<<>>} /\ Left(k.todo) \subseteq Left(DueOn(day)) /\ k.size # 0
    /\ \A q \in DOMAIN k.rows : freq[q] = Head(k.todo) /\ q <= k.last
    /\ k.marks \union k.thanked \union k.given \subseteq DOMAIN k.rows
    /\ k.ids \subseteq DOMAIN k.rows

\* Where r is after k, whose marks were M by then: at a pledge that was still to come, at
\* the marks, or at the next chunk.
Passed(k, r, M) ==
    /\ r.op = "job" /\ r.force = k.force /\ r.due = k.due
    /\ r.pc \in {"findPaid", "template", "findOpen", "mark", "chunk"}
    /\ Later(r) \subseteq Later(k)
    /\ Queue(r) \subseteq Queue(k)
    /\ r.pc \in Working => r.p \in Queue(k) \ Queue(r) /\ r.rows = k.rows /\ ~r.ok
    /\ IF r.pc = "chunk" THEN M = {} ELSE r.marks = M

LEMMA SomeChannel == Channel # {} /\ Channel \subseteq Nat
<1>1. 1 \in Channel
      BY ReminderAssumption DEF Channel
<1>2. QED BY <1>1 DEF Channel

LEMMA FirstIsLeft ==
    ASSUME NEW k \in Call, k.chans # {}
    PROVE  First(k) \in k.chans /\ First(k) \in Channel /\ Others(k) \subseteq k.chans
<1>1. k.chans \subseteq Channel
      BY DEF Call
<1>2. QED BY <1>1, SomeChannel, MinIsLeast DEF First, Others

LEMMA RowsAreRows ==
    ASSUME NEW k \in Call
    PROVE  /\ DOMAIN k.rows \subseteq Pledges
           /\ \A q \in DOMAIN k.rows : k.rows[q] \in Pledge
<1>1. PICK ps \in SUBSET Pledges : k.rows \in [ps -> Pledge]
      BY DEF Call
<1>2. QED BY <1>1

LEMMA NextFreqGoes ==
    ASSUME NEW k \in Call, k.op = "job", k.pc \in RunPcs, k.todo \in Todos \ {<<>>},
           Left(k.todo) \subseteq Left(DueOn(day)), k.size # 0, k.marks = {}
    PROVE  LET r == NextFreq(k)
           IN  /\ r \in Call /\ CallOK(r)
               /\ r.op = "job" /\ r.force = k.force /\ r.due = k.due /\ r.pc = "chunk"
               /\ Later(r) \subseteq Later(k) /\ Queue(r) = {}
<1> DEFINE r == NextFreq(k)
<1>1. /\ Tail(k.todo) \in Todos /\ Tail(k.todo) \in Seq(Freqs)
      /\ Left(Tail(k.todo)) \subseteq Left(k.todo) \ {Head(k.todo)}
      BY TodoNext, TodoSeq
<1>2. 0 \in Targets
      BY DEF Targets, Sub
<1>3. r \in Call
      BY <1>1, <1>2 DEF NextFreq, Call, Places, RunPcs
<1>4. /\ r.op = "job" /\ r.pc = "chunk" /\ r.force = k.force /\ r.due = k.due
      /\ r.todo = Tail(k.todo) /\ r.size = k.size /\ r.marks = k.marks
      BY DEF NextFreq, Call
<1>5. CallOK(r)
      BY <1>1, <1>4 DEF CallOK, PlaceOK, RunOK, SubOK, OtherOK, RunPcs, SubPcs, PayPcs, Staff, Working,
                        InRun
<1>6. Later(r) \subseteq Later(k)
      BY <1>1, <1>4 DEF Later, InRun
<1>7. Queue(r) = {}
      BY <1>4 DEF Queue, Working
<1>8. QED BY <1>3, <1>4, <1>5, <1>6, <1>7

LEMMA AfterChunkGoes ==
    ASSUME NEW k, Between(k), k.marks = {}
    PROVE  LET r == AfterChunk(k)
           IN  /\ r \in Call /\ CallOK(r)
               /\ r.op = "job" /\ r.force = k.force /\ r.due = k.due /\ r.pc = "chunk"
               /\ Later(r) \subseteq Later(k) /\ Queue(r) = {}
<1> DEFINE s == [k EXCEPT !.pc = "chunk"]
<1>1. /\ s \in Call /\ s.op = "job" /\ s.pc = "chunk" /\ s.force = k.force /\ s.due = k.due
      /\ s.todo = k.todo /\ s.size = k.size /\ s.marks = {} /\ s.last = k.last
      BY DEF Between, Call, Places, RunPcs
<1>2. CallOK(s)
      BY <1>1 DEF CallOK, PlaceOK, RunOK, SubOK, OtherOK, RunPcs, SubPcs, PayPcs, Staff, Working,
                  InRun, Between
<1>3. Later(s) \subseteq Later(k) /\ Queue(s) = {}
      BY <1>1 DEF Later, Queue, InRun, Between, Working
<1>4. /\ k \in Call /\ k.op = "job" /\ k.pc \in RunPcs /\ k.todo \in Todos \ {<<>>} /\ k.size # 0
      /\ Left(k.todo) \subseteq Left(DueOn(day))
      BY DEF Between
<1> HIDE DEF s
<1>5. AfterChunk(k) = s \/ AfterChunk(k) = NextFreq(k)
      BY DEF AfterChunk, s
<1>6. QED BY <1>1, <1>2, <1>3, <1>4, <1>5, NextFreqGoes

\* What a run does with a pledge of the chunk.
LEMMA WorkIs ==
    ASSUME NEW k, Between(k), NEW p \in k.ids
    PROVE  /\ Work(k, p) \in {"skip", "template", "findPaid", "findOpen"}
           /\ Work(k, p) \in {"template", "findPaid"} => p \in k.given
           /\ Work(k, p) = "findOpen" => p \notin k.given /\ ToRemind(k, p)
<1>1. Head(k.todo) = freq[p]
      BY DEF Between
<1>2. QED BY <1>1 DEF Work, ToRemind

LEMMA OnwardGoes ==
    ASSUME NEW k, Between(k)
    PROVE  LET r == Onward(k)
           IN  /\ r \in Call /\ CallOK(r)
               /\ r.op = "job" /\ r.force = k.force /\ r.due = k.due
               /\ r.pc \in {"findPaid", "template", "findOpen", "mark", "chunk"}
               /\ Later(r) \subseteq Later(k)
               /\ Queue(r) \subseteq k.ids
               /\ r.pc \in Working => r.p \in k.ids \ Queue(r) /\ r.rows = k.rows /\ ~r.ok
               /\ IF r.pc = "chunk" THEN k.marks = {} ELSE r.marks = k.marks
<1> DEFINE ps == {p \in k.ids : Work(k, p) # "skip"}
           m  == Min(ps)
           w  == [k EXCEPT !.p = m, !.ids = {p \in @ : p > m}, !.ok = FALSE,
                           !.chans = Channel, !.pc = Work(k, m)]
           s  == [k EXCEPT !.pc = "mark"]
<1>1. k \in Call /\ k.ids \subseteq Pledges /\ k.ids \subseteq DOMAIN k.rows
      BY RowsAreRows DEF Between
<1>2. CASE ps # {}
  <2>1. m \in ps
        BY <1>1, <1>2, MinIsLeast DEF Pledges
  <2>2. /\ Work(k, m) \in {"template", "findPaid", "findOpen"} /\ m \in k.ids /\ m \in Targets
        /\ Work(k, m) \in {"template", "findPaid"} => m \in k.given
        /\ Work(k, m) = "findOpen" => m \notin k.given /\ ToRemind(k, m)
        BY <2>1, <1>1, WorkIs DEF Targets
  <2>3. Onward(k) = w
        BY <1>2 DEF Onward
  <2> HIDE DEF ps, m
  <2>4. w \in Call
        BY <1>1, <2>2, SomeChannel DEF Call, Places, RunPcs, Working
  <2>5. /\ w.op = "job" /\ w.force = k.force /\ w.due = k.due /\ w.pc = Work(k, m) /\ w.p = m
        /\ w.ids \subseteq k.ids /\ m \notin w.ids /\ w.rows = k.rows /\ ~w.ok /\ w.marks = k.marks
        /\ w.todo = k.todo /\ w.last = k.last /\ w.size = k.size /\ w.chans = Channel
        /\ w.given = k.given /\ w.thanked = k.thanked
    <3>1. m \notin {p \in k.ids : p > m}
          BY <1>1, <2>2 DEF Pledges
    <3>2. QED BY <1>1, <3>1 DEF Call, Between
  <2> HIDE DEF w
  <2>6. CallOK(w)
    <3>1. ToRemind(k, m) => ToRemind(w, m)
          BY <2>5 DEF ToRemind
    <3>2. ChunkOK(w)
          BY <1>1, <2>2, <2>5, <3>1, SomeChannel DEF ChunkOK, Between, Working
    <3>3. QED BY <2>2, <2>5, <3>2 DEF CallOK, PlaceOK, RunOK, SubOK, OtherOK, RunPcs, SubPcs, PayPcs, Staff,
                                      Working, InRun, Between
  <2>7. Later(w) \subseteq Later(k)
        BY <2>2, <2>5 DEF Later, InRun, RunPcs, Working, Between
  <2>8. Queue(w) \subseteq w.ids
        BY <2>2, <2>5 DEF Queue
  <2>9. w.pc \in Working /\ w.pc # "chunk"
        BY <2>2, <2>5 DEF Working
  <2>10. QED BY <2>2, <2>3, <2>4, <2>5, <2>6, <2>7, <2>8, <2>9
<1>3. CASE ps = {} /\ k.marks \union k.thanked # {}
  <2>1. Onward(k) = s
        BY <1>3 DEF Onward
  <2>2. /\ s \in Call /\ s.op = "job" /\ s.force = k.force /\ s.due = k.due /\ s.pc = "mark"
        /\ s.rows = k.rows /\ s.marks = k.marks /\ s.todo = k.todo /\ s.last = k.last
        /\ s.size = k.size /\ s.given = k.given /\ s.thanked = k.thanked /\ s.ids = k.ids
        BY <1>1 DEF Call, Places, RunPcs, Between
  <2> HIDE DEF s
  <2>3. ChunkOK(s)
        BY <1>1, <1>3, <2>2 DEF ChunkOK, Between, Working
  <2>4. CallOK(s)
        BY <2>2, <2>3 DEF CallOK, PlaceOK, RunOK, SubOK, OtherOK, RunPcs, SubPcs, PayPcs, Staff, Working,
                          InRun, Between
  <2>5. Later(s) \subseteq Later(k) /\ Queue(s) = {}
        BY <2>2 DEF Later, Queue, InRun, Between, Working
  <2>6. QED BY <2>1, <2>2, <2>4, <2>5 DEF Working
<1>4. CASE ps = {} /\ k.marks \union k.thanked = {}
  <2>1. Onward(k) = AfterChunk(k)
        BY <1>4 DEF Onward
  <2>2. k.marks = {}
        BY <1>4
  <2>3. QED BY <2>1, <2>2, AfterChunkGoes DEF Working
<1>5. QED BY <1>2, <1>3, <1>4

-----------------------------------------------------------------------------
(* What the steps of a handler do, in the terms of the invariants.         *)

\* The same handler; what a run owes is left out, as others may excuse it.
Like(k, r) == r = [k EXCEPT !.due = r.due]

Only(c) ==
    /\ call' \in [Calls -> Call]
    /\ \A x \in Calls \ {c} : /\ Like(call[x], call'[x])
                              /\ call[x] = NoCall => call'[x] = NoCall

\* Donations come and are never taken back, nor are they given for something else.
DonationsStay ==
    /\ donation' \in Seq(Donation)
    /\ DOMAIN donation \subseteq DOMAIN donation'
    /\ \A d \in DOMAIN donation : donation'[d].for = donation[d].for

\* A run stays at its pledge.
Stays(k, r) ==
    /\ r.op = "job" /\ r.force = k.force /\ r.due = k.due
    /\ r.p = k.p /\ r.rows = k.rows /\ r.marks = k.marks
    /\ Later(r) \subseteq Later(k) /\ Queue(r) \subseteq Queue(k)

\* A run goes on with its pledge at pc on the other channels, or is through with it.
GoesOn(k, r, pc, M) ==
    \/ Stays(k, r) /\ r.pc = pc /\ r.d = k.d /\ r.chans = Others(k)
    \/ Passed(k, r, M)

ReadsChunk(c) ==
    LET k == call[c]
        r == call'[c]
    IN  /\ k.op = "job" /\ k.pc = "chunk" /\ r.op = "job" /\ r.force = k.force /\ r.due = k.due
        /\ Later(r) \subseteq Later(k)
        /\ r.marks = {}
        /\ \/ r.pc \in {"subRead", "chunk"}
           \/ /\ r.pc = "lookup"
              /\ DOMAIN r.rows \subseteq Later(k)
              /\ \A q \in DOMAIN r.rows : r.rows[q] = pledge[q]
        /\ UNCHANGED <<rowVars, donation, ledgerVars, historyVars, countVars>>

Looks(c) ==
    LET k == call[c]
        r == call'[c]
    IN  /\ k.op = "job" /\ k.pc = "lookup"
        /\ (Stays(k, r) /\ r.pc = "lookup") \/ Passed(k, r, {})
        /\ UNCHANGED <<rowVars, donation, ledgerVars, historyVars, countVars>>

FindsPaid(c) ==
    LET k == call[c]
        r == call'[c]
    IN  /\ k.op = "job" /\ k.pc = "findPaid"
        /\ \/ /\ Stays(k, r) /\ r.pc = "thank"
              /\ r.d \in DOMAIN donation /\ donation[r.d].for = k.p
              /\ r.chans = Channel \ donation[r.d].sent
           \/ Passed(k, r, k.marks)
        /\ UNCHANGED <<rowVars, donation, ledgerVars, historyVars, countVars>>

RunThanks(c) ==
    LET k == call[c]
        r == call'[c]
    IN  /\ k.op = "job" /\ k.pc = "thank"
        /\ \/ /\ Thanked(k.d, First(k))
              /\ Stays(k, r) /\ r.pc = "flag" /\ r.d = k.d /\ r.chans = k.chans
           \/ GoesOn(k, r, "thank", k.marks) /\ UNCHANGED thanks
        /\ UNCHANGED <<rowVars, donation, ledgerVars, reminders, countVars>>

RunFlags(c) ==
    LET k == call[c]
        r == call'[c]
    IN  /\ k.op = "job" /\ k.pc = "flag"
        /\ donation' = [donation EXCEPT ![k.d].sent = @ \union {First(k)}]
        /\ GoesOn(k, r, "thank", k.marks)
        /\ UNCHANGED <<rowVars, ledgerVars, historyVars, countVars>>

RunTemplates(c) ==
    LET k == call[c]
        r == call'[c]
    IN  /\ k.op = "job" /\ k.pc = "template"
        /\ GoesOn(k, r, "template", k.marks)
        /\ UNCHANGED <<rowVars, donation, ledgerVars, reminders, thanks, countVars>>

OpenFor(t) == {d \in DOMAIN donation : donation[d].for = t /\ Open(donation[d].status)}

FindsOpen(c) ==
    LET k == call[c]
        r == call'[c]
    IN  /\ k.op = "job" /\ k.pc = "findOpen"
        /\ Stays(k, r) /\ r.pc \in {"insert", "remind"} /\ r.ok = k.ok
        /\ r.pc = "insert" => OpenFor(k.p) = {}
        /\ UNCHANGED <<rowVars, donation, ledgerVars, historyVars, countVars>>

NewLink(t) == [for |-> t, link |-> TRUE, day |-> day, archived |-> FALSE, status |-> "pending",
               sent |-> {}]

RunInserts(c) ==
    LET k == call[c]
        r == call'[c]
    IN  /\ k.op = "job" /\ k.pc = "insert"
        /\ donation' = Append(donation, NewLink(k.p))
        /\ Stays(k, r) /\ r.pc = "remind" /\ r.ok = k.ok
        /\ UNCHANGED <<rowVars, ledgerVars, historyVars, countVars>>

RunReminds(c) ==
    LET k == call[c]
        r == call'[c]
    IN  /\ k.op = "job" /\ k.pc = "remind"
        /\ \E ok \in BOOLEAN :
              /\ k.ok => ok
              /\ IF ok /\ ~k.ok THEN Reminded(k.p, KeyToday(k.p)) ELSE UNCHANGED reminders
              /\ \/ Stays(k, r) /\ r.pc = "remind" /\ r.ok = ok
                 \/ Passed(k, r, IF ok THEN k.marks \union {k.p} ELSE k.marks)
        /\ UNCHANGED <<rowVars, donation, ledgerVars, thanks, countVars>>

RunMarks(c) ==
    LET k == call[c]
        r == call'[c]
    IN  /\ k.op = "job" /\ k.pc = "mark"
        /\ \/ r = NoCall /\ Head(k.todo) = "weekly" /\ UNCHANGED pledge
           \/ /\ r.op = "job" /\ r.force = k.force /\ r.due = k.due /\ r.pc \in {"mark", "chunk"}
              /\ Later(r) \subseteq Later(k) /\ Queue(r) = {}
              /\ \/ \E p \in k.marks :
                       /\ pledge' = [pledge EXCEPT ![p].reminded = KeyOf(Head(k.todo), day)]
                       /\ r.marks = k.marks \ {p}
                 \/ \E p \in k.thanked :
                       /\ pledge' = [pledge EXCEPT ![p].thanked = PeriodOf(Head(k.todo), day)]
                       /\ r.marks = {} /\ k.marks = {}
        /\ UNCHANGED <<recurring, donation, ledgerVars, historyVars, countVars>>

LEMMA SetMeans ==
    ASSUME Placed, NEW c \in Calls, NEW r \in Call, Set(c, r)
    PROVE  Only(c) /\ call'[c] = r
<1>1. call \in [Calls -> Call] /\ call' = [call EXCEPT ![c] = r]
      BY DEF Placed, TypeOK, Set
<1>2. call' \in [Calls -> Call] /\ call'[c] = r /\ \A x \in Calls \ {c} : call'[x] = call[x]
      BY <1>1
<1>3. ASSUME NEW k \in Call PROVE Like(k, k)
      BY DEF Call, Like
<1>4. QED BY <1>1, <1>2, <1>3 DEF Only

LEMMA ExcusedMeans ==
    ASSUME Placed, NEW c \in Calls, NEW r \in Call, NEW ts, Excused(c, r, ts)
    PROVE  Only(c) /\ call'[c] = r
<1>1. call' = [x \in Calls |-> IF x = c THEN r ELSE [call[x] EXCEPT !.due = @ \ ts]]
      BY DEF Excused
<1>2. call'[c] = r
      BY <1>1
<1>3. ASSUME NEW x \in Calls \ {c}
      PROVE  /\ call'[x] \in Call /\ Like(call[x], call'[x])
             /\ call[x] = NoCall => call'[x] = NoCall
  <2> DEFINE k == call[x]
             s == [k EXCEPT !.due = @ \ ts]
  <2>1. k \in Call /\ call'[x] = s
        BY <1>1 DEF Placed, TypeOK
  <2>2. s \in Call /\ s.due = k.due \ ts
        BY <2>1 DEF Call
  <2>3. s = [k EXCEPT !.due = s.due]
        BY <2>1, <2>2 DEF Call
  <2>4. k = NoCall => s = NoCall
    <3>1. {} \ ts = {}
          OBVIOUS
    <3>2. k = NoCall => s.due = NoCall.due
          BY <2>2, <3>1 DEF NoCall
    <3>3. NoCall = [NoCall EXCEPT !.due = NoCall.due]
          BY DEF NoCall
    <3> HIDE DEF s, k
    <3>4. QED BY <2>3, <3>2, <3>3
  <2>5. QED BY <2>1, <2>2, <2>3, <2>4 DEF Like
<1>4. call' \in [Calls -> Call]
      BY <1>1, <1>2, <1>3
<1>5. QED BY <1>2, <1>3, <1>4 DEF Only

\* A call that is in order in itself is so in the next state.
LEMMA CallOKStays ==
    ASSUME NEW c \in Calls, CallOK(call'[c]), DonationsStay, freq' = freq, day' = day
    PROVE  CallOK(call[c])'
<1>1. PlaceOK(call[c])' /\ SubOK(call[c])'
      BY DEF CallOK, PlaceOK, SubOK, SubKey
<1>2. OtherOK(call[c])'
      BY DEF CallOK, OtherOK, DonationsStay
<1>3. ASSUME ChunkOK(call'[c]) PROVE ChunkOK(call[c])'
  <2>1. ToRemind(call'[c], call'[c].p) => ToRemind(call[c], call[c].p)'
        BY DEF ToRemind, KeyOf, PeriodOf
  <2>2. QED BY <1>3, <2>1 DEF ChunkOK, DonationsStay
<1>4. RunOK(call[c])'
      BY <1>3 DEF CallOK, RunOK, InRun
<1>5. QED BY <1>1, <1>2, <1>4 DEF CallOK

\* The other calls stay in order.
LEMMA LikeMeans ==
    ASSUME NEW k \in Call, NEW r \in Call, Like(k, r)
    PROVE  /\ r.op = k.op /\ r.pc = k.pc /\ r.force = k.force /\ r.size = k.size
           /\ r.todo = k.todo /\ r.last = k.last /\ r.rows = k.rows /\ r.given = k.given
           /\ r.ids = k.ids /\ r.p = k.p /\ r.d = k.d /\ r.chans = k.chans /\ r.ok = k.ok
           /\ r.marks = k.marks /\ r.thanked = k.thanked /\ r.key = k.key /\ r.want = k.want
<1>1. PICK S : r = [k EXCEPT !.due = S]
      BY DEF Like
<1>2. QED BY <1>1 DEF Call

LEMMA LikeOK ==
    ASSUME NEW k \in Call, NEW r \in Call, Like(k, r), CallOK(k), k = NoCall => r = NoCall
    PROVE  CallOK(r)
<1>1. /\ r.op = k.op /\ r.pc = k.pc /\ r.force = k.force /\ r.size = k.size
      /\ r.todo = k.todo /\ r.last = k.last /\ r.rows = k.rows /\ r.given = k.given
      /\ r.ids = k.ids /\ r.p = k.p /\ r.d = k.d /\ r.chans = k.chans
      /\ r.marks = k.marks /\ r.thanked = k.thanked /\ r.key = k.key
      BY LikeMeans
<1>2. PlaceOK(r) /\ SubOK(r) /\ OtherOK(r)
      BY <1>1 DEF CallOK, PlaceOK, SubOK, OtherOK
<1>3. ChunkOK(k) => ChunkOK(r)
      BY <1>1 DEF ChunkOK, ToRemind
<1>4. RunOK(r)
      BY <1>1, <1>3 DEF CallOK, RunOK, InRun
<1>5. QED BY <1>2, <1>4 DEF CallOK

\* Calls stay in order over a step of one of them.
LEMMA StepOK ==
    ASSUME Placed, NEW c \in Calls, Only(c), CallOK(call'[c]), DonationsStay,
           freq' = freq, day' = day
    PROVE  \A x \in Calls : CallOK(call[x])'
<1> SUFFICES ASSUME NEW x \in Calls PROVE CallOK(call[x])'
    OBVIOUS
<1>1. CASE x = c
      BY <1>1, CallOKStays
<1>2. CASE x # c
  <2>1. call[x] \in Call /\ call'[x] \in Call /\ CallOK(call[x])
        BY DEF Placed, TypeOK, Only
  <2>2. Like(call[x], call'[x]) /\ (call[x] = NoCall => call'[x] = NoCall)
        BY <1>2 DEF Only
  <2>3. CallOK(call'[x])
        BY <2>1, <2>2, LikeOK
  <2>4. QED BY <2>3, CallOKStays
<1>3. QED BY <1>1, <1>2

LEMMA SameDonations == ASSUME Placed, donation' = donation PROVE DonationsStay
BY DEF Placed, TypeOK, DonationsStay

\* What a run that has read a chunk is.
LEMMA ChunkBetween ==
    ASSUME NEW k \in Call, k.op = "job", k.pc \in RunPcs \ {"chunk"}, CallOK(k)
    PROVE  Between(k)
<1>1. ChunkOK(k) /\ k.todo \in Todos /\ k.size # 0 /\ Left(k.todo) \subseteq Left(DueOn(day))
      BY DEF CallOK, RunOK, InRun
<1>2. k.ids \subseteq DOMAIN k.rows
      BY <1>1 DEF ChunkOK, RunPcs
<1>3. QED BY <1>1, <1>2 DEF Between, ChunkOK

\* A run is through with its pledge, which is marked if something was sent.
LEMMA DoneGoes ==
    ASSUME NEW k, Between(k), k.p \in DOMAIN k.rows
    PROVE  LET r == Done(k)
               M == IF k.ok /\ k.p \notin k.given THEN k.marks \union {k.p} ELSE k.marks
           IN  /\ r \in Call /\ CallOK(r)
               /\ r.op = "job" /\ r.force = k.force /\ r.due = k.due
               /\ r.pc \in {"findPaid", "template", "findOpen", "mark", "chunk"}
               /\ Later(r) \subseteq Later(k)
               /\ Queue(r) \subseteq k.ids
               /\ r.pc \in Working => r.p \in k.ids \ Queue(r) /\ r.rows = k.rows /\ ~r.ok
               /\ IF r.pc = "chunk" THEN M = {} ELSE r.marks = M
<1> DEFINE f == IF k.ok THEN {k.p} ELSE {}
           s == [k EXCEPT !.thanked = @ \union f]
           t == [k EXCEPT !.marks = @ \union f]
           M == IF k.ok /\ k.p \notin k.given THEN k.marks \union {k.p} ELSE k.marks
           u == IF k.p \in k.given THEN s ELSE t
<1>1. k \in Call /\ k.p \in Pledges /\ DOMAIN k.rows \subseteq Pledges
      BY RowsAreRows DEF Between
<1>2. /\ u \in Call /\ u.op = k.op /\ u.pc = k.pc /\ u.force = k.force /\ u.due = k.due
      /\ u.todo = k.todo /\ u.size = k.size /\ u.rows = k.rows /\ u.last = k.last
      /\ u.ids = k.ids /\ u.given = k.given /\ u.marks = M
      /\ u.thanked \subseteq k.thanked \union {k.p}
      BY <1>1 DEF Call
<1>3. Done(k) = Onward(u)
      BY DEF Done
<1> HIDE DEF u, M
<1>4. M \subseteq k.marks \union {k.p}
      BY DEF M
<1>5. Between(u)
      BY <1>2, <1>4 DEF Between
<1>6. Later(u) = Later(k)
      BY <1>2 DEF Later, InRun
<1>7. QED BY <1>2, <1>3, <1>5, <1>6, OnwardGoes DEF M

\* A run goes to the next channel, or is through with its pledge.
LEMMA NextChannelGoes ==
    ASSUME NEW k \in Call, CallOK(k), k.op = "job", k.pc \in {"thank", "template", "remind"}
    PROVE  LET r == NextChannel(k)
               M == IF k.ok /\ k.pc = "remind" THEN k.marks \union {k.p} ELSE k.marks
           IN  /\ r \in Call /\ CallOK(r)
               /\ \/ Stays(k, r) /\ r.pc = k.pc /\ r.d = k.d /\ r.chans = Others(k) /\ r.ok = k.ok
                  \/ Passed(k, r, M)
<1> DEFINE s == [k EXCEPT !.chans = Others(k)]
           t == [k EXCEPT !.chans = {}]
           M == IF k.ok /\ k.pc = "remind" THEN k.marks \union {k.p} ELSE k.marks
<1>1. /\ ChunkOK(k) /\ k.todo \in Todos /\ k.size # 0 /\ k.pc \in Working /\ k.pc \in RunPcs
      /\ Left(k.todo) \subseteq Left(DueOn(day))
      BY DEF CallOK, RunOK, InRun, RunPcs, Working
<1>2. /\ k.p \in DOMAIN k.rows \ k.ids /\ k.ids \subseteq DOMAIN k.rows /\ k.chans # {}
      /\ k.p \in k.given <=> k.pc # "remind"
      BY <1>1 DEF ChunkOK
<1>3. CASE Others(k) # {}
  <2>1. NextChannel(k) = s
        BY <1>3 DEF NextChannel
  <2>2. Others(k) \subseteq Channel
        BY DEF Others, Call
  <2>3. /\ s \in Call /\ s.op = k.op /\ s.pc = k.pc /\ s.force = k.force /\ s.due = k.due
        /\ s.todo = k.todo /\ s.size = k.size /\ s.rows = k.rows /\ s.last = k.last /\ s.ok = k.ok
        /\ s.ids = k.ids /\ s.given = k.given /\ s.marks = k.marks /\ s.thanked = k.thanked
        /\ s.p = k.p /\ s.d = k.d /\ s.chans = Others(k)
        BY <2>2 DEF Call
  <2> HIDE DEF s
  <2>4. ChunkOK(s)
        BY <1>1, <1>3, <2>3 DEF ChunkOK, ToRemind
  <2>5. CallOK(s)
        BY <1>1, <2>3, <2>4 DEF CallOK, PlaceOK, RunOK, SubOK, OtherOK, RunPcs, SubPcs, PayPcs, Staff,
                                Working, InRun
  <2>6. Stays(k, s)
        BY <2>3 DEF Stays, Later, Queue, InRun
  <2>7. QED BY <2>1, <2>3, <2>5, <2>6
<1>4. CASE Others(k) = {}
  <2>1. NextChannel(k) = Done(t)
        BY <1>4 DEF NextChannel
  <2>2. /\ t \in Call /\ t.op = k.op /\ t.pc = k.pc /\ t.force = k.force /\ t.due = k.due
        /\ t.todo = k.todo /\ t.size = k.size /\ t.rows = k.rows /\ t.last = k.last /\ t.ok = k.ok
        /\ t.ids = k.ids /\ t.given = k.given /\ t.marks = k.marks /\ t.thanked = k.thanked
        /\ t.p = k.p
        BY DEF Call
  <2> HIDE DEF t
  <2>3. Between(t)
        BY <1>1, <1>2, <2>2 DEF Between, ChunkOK, RunPcs, Working
  <2>4. Later(t) = Later(k) /\ Queue(k) = k.ids
        BY <1>1, <1>2, <2>2 DEF Later, Queue, InRun, Working
  <2> DEFINE r == Done(t)
  <2>5. /\ r \in Call /\ CallOK(r) /\ r.op = "job" /\ r.force = k.force /\ r.due = k.due
        /\ r.pc \in {"findPaid", "template", "findOpen", "mark", "chunk"}
        /\ Later(r) \subseteq Later(k)
        /\ Queue(r) \subseteq k.ids
        /\ r.pc \in Working => r.p \in k.ids \ Queue(r) /\ r.rows = k.rows /\ ~r.ok
        /\ IF r.pc = "chunk" THEN M = {} ELSE r.marks = M
        BY <1>2, <2>2, <2>3, <2>4, DoneGoes
  <2> HIDE DEF r
  <2>6. Passed(k, r, M)
        BY <2>4, <2>5 DEF Passed
  <2>7. QED BY <2>1, <2>5, <2>6 DEF r
<1>5. QED BY <1>3, <1>4

\* The statements of a due run belong to one.
LEMMA JobIs ==
    ASSUME Placed, NEW c \in Calls
    PROVE  /\ call[c] \in Call /\ CallOK(call[c])
           /\ call[c].pc \in RunPcs \union SubPcs => call[c].op = "job"
           /\ call[c].pc \in RunPcs =>
                 /\ InRun(call[c]) /\ call[c].todo \in Todos /\ call[c].size # 0
                 /\ Left(call[c].todo) \subseteq Left(DueOn(day))
<1>1. call[c] \in Call /\ CallOK(call[c]) /\ call[c].op \in Ops
      BY DEF Placed, TypeOK, Call
<1>2. call[c].pc \in RunPcs \union SubPcs => call[c].op = "job"
      BY <1>1 DEF CallOK, PlaceOK, NoCall, RunPcs, SubPcs, PayPcs, Working, Staff, Ops
<1>3. QED BY <1>1, <1>2 DEF CallOK, RunOK, InRun

LEMMA ChunkDoes ==
    ASSUME Placed, NEW c \in Calls, Chunk(c)
    PROVE  Only(c) /\ CallOK(call'[c]) /\ DonationsStay /\ ReadsChunk(c)
<1> DEFINE k    == call[c]
           ps   == {p \in Pledges : /\ p > k.last
                                    /\ pledge[p].status = "active"
                                    /\ freq[p] = Head(k.todo)}
           some == {p \in ps : Cardinality({q \in ps : q <= p}) <= k.size}
           a    == [k EXCEPT !.pc = "subRead"]
           b    == [k EXCEPT !.rows = [p \in some |-> pledge[p]], !.ids = some,
                                 !.given = {}, !.marks = {}, !.thanked = {},
                                 !.last = Max(some), !.pc = "lookup"]
<1>1. /\ k \in Call /\ CallOK(k) /\ k.op = "job" /\ InRun(k) /\ k.todo \in Todos /\ k.size # 0
      /\ Left(k.todo) \subseteq Left(DueOn(day))
      /\ k.pc = "chunk" /\ k.pc \in RunPcs
      BY JobIs DEF Chunk, RunPcs
<1>2. k.marks = {}
      BY <1>1 DEF CallOK, RunOK
<1>3. UNCHANGED <<rowVars, donation, ledgerVars, historyVars, countVars>>
      BY DEF Chunk
<1>4. DonationsStay
      BY <1>3, SameDonations
<1>5. ASSUME NEW r \in Call, Set(c, r), CallOK(r), r.op = "job", r.force = k.force, r.due = k.due,
             Later(r) \subseteq Later(k), r.marks = {},
             \/ r.pc \in {"subRead", "chunk"}
             \/ /\ r.pc = "lookup"
                /\ DOMAIN r.rows \subseteq Later(k)
                /\ \A q \in DOMAIN r.rows : r.rows[q] = pledge[q]
      PROVE  Only(c) /\ CallOK(call'[c]) /\ DonationsStay /\ ReadsChunk(c)
  <2>1. Only(c) /\ call'[c] = r
        BY <1>5, SetMeans
  <2>2. QED BY <1>1, <1>3, <1>4, <1>5, <2>1 DEF ReadsChunk
<1>6. CASE k.todo = <<>>
  <2>1. Set(c, a)
        BY <1>6 DEF Chunk
  <2>2. /\ a \in Call /\ a.op = "job" /\ a.pc = "subRead" /\ a.force = k.force /\ a.due = k.due
        /\ a.marks = {}
        BY <1>1, <1>2 DEF Call, Places, SubPcs
  <2> HIDE DEF a
  <2>3. CallOK(a)
        BY <2>2 DEF CallOK, PlaceOK, RunOK, SubOK, OtherOK, RunPcs, SubPcs, PayPcs, Staff, Working, InRun
  <2>4. Later(a) \subseteq Later(k)
        BY <2>2 DEF Later, InRun, RunPcs, Working
  <2>5. QED BY <1>5, <2>1, <2>2, <2>3, <2>4
<1>7. CASE k.todo # <<>> /\ ps = {}
  <2>1. Set(c, NextFreq(k))
        BY <1>7 DEF Chunk
  <2>2. NextFreq(k).marks = {}
        BY <1>1, <1>2 DEF NextFreq, Call
  <2>3. QED BY <1>1, <1>2, <1>5, <1>7, <2>1, <2>2, NextFreqGoes
<1>8. CASE k.todo # <<>> /\ ps # {}
  <2>1. Set(c, b)
        BY <1>8 DEF Chunk
  <2>2. k.last \in Nat /\ k.size \in Nat \ {0} /\ ps \subseteq Nat /\ ps \subseteq 1 .. Last /\ Last \in Nat
        BY <1>1, ReminderAssumption DEF Call, Targets, Sub, Pledges
  <2>3. some # {}
    <3>1. Min(ps) \in ps /\ \A q \in ps : Min(ps) <= q
          BY <1>8, <2>2, MinIsLeast
    <3>2. \A q \in ps : q <= Min(ps) => q = Min(ps)
      <4>1. SUFFICES ASSUME NEW q \in ps, q <= Min(ps) PROVE q = Min(ps)
            OBVIOUS
      <4>2. q \in Nat /\ Min(ps) \in Nat /\ Min(ps) <= q
            BY <3>1, <2>2
      <4>3. QED BY <4>1, <4>2
    <3>6. {q \in ps : q <= Min(ps)} = {Min(ps)}
      <4>1. Min(ps) <= Min(ps)
            BY <3>1, <2>2
      <4>2. QED BY <3>1, <3>2, <4>1, Zenon
    <3>3. Cardinality({q \in ps : q <= Min(ps)}) = 1
          BY <3>6, FS_Singleton
    <3>4. Cardinality({q \in ps : q <= Min(ps)}) <= k.size
          BY <3>3, <2>2
    <3>5. QED BY <3>1, <3>4
  <2>4. Max(some) \in some /\ \A y \in some : y <= Max(some)
        BY <2>2, <2>3, MaxIsGreatest
  <2>5. Head(k.todo) \in Left(k.todo)
        BY <1>1, <1>8, TodoNext
  <2>6. \A p \in some : /\ p \in Pledges /\ p > k.last /\ freq[p] = Head(k.todo) /\ pledge[p] \in Pledge
        BY DEF Placed, TypeOK
  <2>7. DOMAIN [p \in some |-> pledge[p]] = some /\ \A q \in some : [p \in some |-> pledge[p]][q] = pledge[q]
        OBVIOUS
  <2> DEFINE rows == [p \in some |-> pledge[p]]
             m    == Max(some)
  <2>8. rows \in [some -> Pledge] /\ some \in SUBSET Pledges
        BY <2>6
  <2> HIDE DEF rows, m
  <2>9. rows \in UNION {[qs -> Pledge] : qs \in SUBSET Pledges}
        BY <2>8
  <2>10. b = [k EXCEPT !.rows = rows, !.ids = some, !.given = {}, !.marks = {}, !.thanked = {},
                       !.last = m, !.pc = "lookup"]
        BY DEF rows, m
  <2>11. m \in some /\ \A y \in some : y <= m
        BY <2>4 DEF m
  <2>12. DOMAIN rows = some /\ \A q \in some : rows[q] = pledge[q]
        BY <2>7 DEF rows
  <2> HIDE DEF b, some
  <2>13. some \subseteq Pledges /\ some \subseteq Nat /\ m \in Targets
        BY <2>6, <2>11 DEF Targets, Pledges
  <2>14. b \in Call
        BY <1>1, <2>9, <2>10, <2>13 DEF Call, Places, RunPcs
  <2>15. /\ b.op = "job" /\ b.pc = "lookup" /\ b.force = k.force /\ b.due = k.due /\ b.marks = {}
         /\ b.given = {} /\ b.thanked = {} /\ b.ids = some /\ b.rows = rows /\ b.last = m
         /\ b.todo = k.todo /\ b.size = k.size
        BY <1>1, <2>10 DEF Call
  <2>16. ChunkOK(b)
        BY <1>8, <2>3, <2>6, <2>11, <2>12, <2>15 DEF ChunkOK, Working
  <2>17. CallOK(b)
        BY <1>1, <2>15, <2>16 DEF CallOK, PlaceOK, RunOK, SubOK, OtherOK, RunPcs, SubPcs, PayPcs, Staff,
                                  Working, InRun
  <2>18. Later(b) \subseteq Later(k)
    <3>1. m \in Nat /\ m > k.last
          BY <2>6, <2>11, <2>13
    <3>2. \A p \in Pledges : p > m => p > k.last
          BY <3>1, <2>2 DEF Pledges
    <3>3. QED BY <1>1, <2>15, <3>2 DEF Later
  <2>19. some \subseteq Later(k)
        BY <1>1, <2>5, <2>6 DEF Later
  <2>20. QED BY <1>5, <2>1, <2>12, <2>14, <2>15, <2>17, <2>18, <2>19
<1>9. QED BY <1>6, <1>7, <1>8

LEMMA LookupDoes ==
    ASSUME Placed, NEW c \in Calls, Lookup(c)
    PROVE  Only(c) /\ CallOK(call'[c]) /\ DonationsStay /\ Looks(c)
<1> DEFINE k == call[c]
           p == Min(k.ids)
           g == IF PaidFor(p, freq[p]) # {} THEN k.given \union {p} ELSE k.given
           r == [k EXCEPT !.ids = @ \ {p},
                          !.given = IF PaidFor(p, freq[p]) # {} THEN @ \union {p} ELSE @]
           s == [r EXCEPT !.ids = DOMAIN r.rows]
<1>1. /\ k \in Call /\ CallOK(k) /\ k.op = "job" /\ InRun(k) /\ k.todo \in Todos /\ k.size # 0
      /\ Left(k.todo) \subseteq Left(DueOn(day))
      /\ k.pc = "lookup" /\ k.pc \in RunPcs
      BY JobIs DEF Lookup, RunPcs
<1>2. k.marks = {} /\ ChunkOK(k)
      BY <1>1 DEF CallOK, RunOK
<1>3. UNCHANGED <<rowVars, donation, ledgerVars, historyVars, countVars>>
      BY DEF Lookup
<1>4. DonationsStay
      BY <1>3, SameDonations
<1>5. /\ k.ids # {} /\ k.ids \subseteq DOMAIN k.rows /\ DOMAIN k.rows \subseteq Pledges
      /\ k.ids \subseteq Nat
      BY <1>1, <1>2, RowsAreRows DEF ChunkOK, Pledges
<1>6. p \in k.ids
      BY <1>5, MinIsLeast
<1>7. g \subseteq k.given \union {p}
      OBVIOUS
<1> HIDE DEF p, g
<1>8. Set(c, IF r.ids = {} THEN Onward(s) ELSE r)
      BY DEF Lookup, p
<1>9. r = [k EXCEPT !.ids = k.ids \ {p}, !.given = g]
      BY <1>1 DEF g, Call
<1> HIDE DEF r
<1>10. /\ r \in Call /\ r.op = "job" /\ r.pc = "lookup" /\ r.force = k.force /\ r.due = k.due
       /\ r.todo = k.todo /\ r.size = k.size /\ r.rows = k.rows /\ r.last = k.last
       /\ r.ids = k.ids \ {p} /\ r.given = g /\ r.marks = k.marks /\ r.thanked = k.thanked
       /\ r.p = k.p
  <2>1. p \in Pledges
        BY <1>5, <1>6
  <2>2. QED BY <1>1, <1>5, <1>7, <1>9, <2>1 DEF Call
<1>11. CASE r.ids = {}
  <2>1. Set(c, Onward(s))
        BY <1>8, <1>11
  <2>2. /\ s \in Call /\ s.op = "job" /\ s.pc = "lookup" /\ s.force = k.force /\ s.due = k.due
        /\ s.todo = k.todo /\ s.size = k.size /\ s.rows = k.rows /\ s.last = k.last
        /\ s.ids = DOMAIN k.rows /\ s.given = g /\ s.marks = k.marks /\ s.thanked = k.thanked
        BY <1>5, <1>10 DEF Call, Pledges
  <2> HIDE DEF s
  <2>3. Between(s)
        BY <1>1, <1>2, <1>5, <1>6, <1>7, <2>2 DEF Between, ChunkOK
  <2>4. Later(s) = Later(k) /\ Queue(k) = DOMAIN k.rows
        BY <1>1, <2>2 DEF Later, Queue, InRun
  <2> DEFINE t == Onward(s)
  <2>5. /\ t \in Call /\ CallOK(t)
        /\ t.op = "job" /\ t.force = s.force /\ t.due = s.due
        /\ t.pc \in {"findPaid", "template", "findOpen", "mark", "chunk"}
        /\ Later(t) \subseteq Later(s)
        /\ Queue(t) \subseteq s.ids
        /\ t.pc \in Working => t.p \in s.ids \ Queue(t) /\ t.rows = s.rows /\ ~t.ok
        /\ IF t.pc = "chunk" THEN s.marks = {} ELSE t.marks = s.marks
        BY <2>3, OnwardGoes
  <2> HIDE DEF t
  <2>6. Passed(k, t, {})
        BY <1>2, <2>2, <2>4, <2>5 DEF Passed
  <2>7. Only(c) /\ call'[c] = t
        BY <2>1, <2>5, SetMeans DEF t
  <2>8. QED BY <1>1, <1>3, <1>4, <2>5, <2>6, <2>7 DEF Looks
<1>12. CASE r.ids # {}
  <2>1. Only(c) /\ call'[c] = r
        BY <1>8, <1>10, <1>12, SetMeans
  <2>2. ChunkOK(r)
        BY <1>2, <1>5, <1>6, <1>7, <1>10, <1>12 DEF ChunkOK, Working
  <2>3. CallOK(r)
        BY <1>1, <1>2, <1>10, <2>2 DEF CallOK, PlaceOK, RunOK, SubOK, OtherOK, RunPcs, SubPcs, PayPcs, Staff,
                                 Working, InRun
  <2>4. Stays(k, r)
        BY <1>1, <1>10 DEF Stays, Later, Queue, InRun
  <2>5. QED BY <1>1, <1>3, <1>4, <1>10, <2>1, <2>3, <2>4 DEF Looks
<1>13. QED BY <1>11, <1>12

\* A run that finds a paid donation thanks for it on the channels not yet thanked on.
LEMMA FindPaidDoes ==
    ASSUME Placed, NEW c \in Calls, FindPaid(c)
    PROVE  Only(c) /\ CallOK(call'[c]) /\ DonationsStay /\ FindsPaid(c)
<1> DEFINE k   == call[c]
           ds  == PaidFor(k.p, freq[k.p])
           d   == Max(ds)
           new == Channel \ donation[d].sent
           r   == [k EXCEPT !.d = d, !.chans = new, !.ok = new # Channel, !.pc = "thank"]
<1>1. /\ k \in Call /\ CallOK(k) /\ k.op = "job" /\ InRun(k) /\ k.todo \in Todos /\ k.size # 0
      /\ Left(k.todo) \subseteq Left(DueOn(day))
      /\ k.pc = "findPaid" /\ k.pc \in RunPcs /\ k.pc \in Working
      BY JobIs DEF FindPaid, RunPcs, Working
<1>2. ChunkOK(k) /\ Between(k)
      BY <1>1, ChunkBetween DEF CallOK, RunOK
<1>3. UNCHANGED <<rowVars, donation, ledgerVars, historyVars, countVars>>
      BY DEF FindPaid
<1>4. DonationsStay
      BY <1>3, SameDonations
<1>5. k.p \in DOMAIN k.rows \ k.ids /\ k.p \in k.given /\ k.p \in Pledges /\ Queue(k) = k.ids
      BY <1>1, <1>2, RowsAreRows DEF ChunkOK, Queue, InRun, Working
<1>6. CASE ds = {}
  <2>1. Set(c, Onward(k))
        BY <1>6 DEF FindPaid
  <2> DEFINE t == Onward(k)
  <2>2. /\ t \in Call /\ CallOK(t)
        /\ t.op = "job" /\ t.force = k.force /\ t.due = k.due
        /\ t.pc \in {"findPaid", "template", "findOpen", "mark", "chunk"}
        /\ Later(t) \subseteq Later(k)
        /\ Queue(t) \subseteq k.ids
        /\ t.pc \in Working => t.p \in k.ids \ Queue(t) /\ t.rows = k.rows /\ ~t.ok
        /\ IF t.pc = "chunk" THEN k.marks = {} ELSE t.marks = k.marks
        BY <1>2, OnwardGoes
  <2>3. Only(c) /\ call'[c] = t
        BY <2>1, <2>2, SetMeans
  <2> HIDE DEF t
  <2>4. Passed(k, t, k.marks)
        BY <1>5, <2>2 DEF Passed
  <2>5. QED BY <1>1, <1>3, <1>4, <2>2, <2>3, <2>4 DEF FindsPaid
<1>7. CASE ds # {}
  <2>1. ds \subseteq DOMAIN donation /\ donation \in Seq(Donation) /\ DOMAIN donation = 1 .. Len(donation)
        BY DEF PaidFor, Placed, TypeOK
  <2>2. d \in ds
        BY <1>7, <2>1, MaxIsGreatest
  <2>3. d \in DOMAIN donation /\ donation[d].for = k.p /\ d \in Nat
        BY <2>1, <2>2 DEF PaidFor
  <2>4. Set(c, IF new = {} THEN Done(r) ELSE r)
        BY <1>7 DEF FindPaid
  <2> HIDE DEF d
  <2>5. /\ r \in Call /\ r.op = "job" /\ r.pc = "thank" /\ r.force = k.force /\ r.due = k.due
        /\ r.todo = k.todo /\ r.size = k.size /\ r.rows = k.rows /\ r.last = k.last
        /\ r.ids = k.ids /\ r.given = k.given /\ r.marks = k.marks /\ r.thanked = k.thanked
        /\ r.p = k.p /\ r.d = d /\ r.chans = new
        BY <1>1, <2>3 DEF Call, Places, RunPcs, Working
  <2> HIDE DEF r
  <2>6. Later(r) = Later(k) /\ Queue(r) = Queue(k)
        BY <1>1, <2>5 DEF Later, Queue, InRun, RunPcs, Working
  <2>7. CASE new = {}
    <3>1. Between(r)
          BY <1>2, <2>5 DEF Between, RunPcs, Working
    <3> DEFINE t == Done(r)
    <3>2. /\ t \in Call /\ CallOK(t)
          /\ t.op = "job" /\ t.force = r.force /\ t.due = r.due
          /\ t.pc \in {"findPaid", "template", "findOpen", "mark", "chunk"}
          /\ Later(t) \subseteq Later(r)
          /\ Queue(t) \subseteq r.ids
          /\ t.pc \in Working => t.p \in r.ids \ Queue(t) /\ t.rows = r.rows /\ ~t.ok
          /\ IF t.pc = "chunk" THEN r.marks = {} ELSE t.marks = r.marks
          BY <1>5, <2>5, <3>1, DoneGoes
    <3>3. Only(c) /\ call'[c] = t
          BY <2>4, <2>7, <3>2, SetMeans
    <3> HIDE DEF t
    <3>4. Passed(k, t, k.marks)
          BY <1>5, <2>5, <2>6, <3>2 DEF Passed
    <3>5. QED BY <1>1, <1>3, <1>4, <3>2, <3>3, <3>4 DEF FindsPaid
  <2>8. CASE new # {}
    <3>1. Only(c) /\ call'[c] = r
          BY <2>4, <2>5, <2>8, SetMeans
    <3>2. ChunkOK(r)
          BY <1>1, <1>2, <1>5, <2>3, <2>5, <2>8 DEF ChunkOK, Working
    <3>3. CallOK(r)
          BY <1>1, <2>5, <3>2 DEF CallOK, PlaceOK, RunOK, SubOK, OtherOK, RunPcs, SubPcs, PayPcs, Staff,
                                   Working, InRun
    <3>4. Stays(k, r)
          BY <2>5, <2>6 DEF Stays
    <3>5. QED BY <1>1, <1>3, <1>4, <2>3, <2>5, <3>1, <3>3, <3>4 DEF FindsPaid
  <2>9. QED BY <2>7, <2>8
<1>8. QED BY <1>6, <1>7

\* One donation changes and is still for what it was.
LEMMA OneDonation ==
    ASSUME Placed, NEW d \in DOMAIN donation, NEW e \in Donation, e.for = donation[d].for,
           donation' = [donation EXCEPT ![d] = e]
    PROVE  DonationsStay
<1>1. donation \in Seq(Donation)
      BY DEF Placed, TypeOK
<1>2. DOMAIN donation' = DOMAIN donation /\ donation' \in Seq(Donation)
      BY <1>1
<1>3. QED BY <1>1, <1>2 DEF DonationsStay

\* A run that is at its pledge and only writes down what it did there.
LEMMA AtPledge ==
    ASSUME NEW k \in Call, CallOK(k), k.op = "job", k.pc \in Working,
           NEW r \in Call, r.pc \in Working,
           r.op = "job", r.force = k.force, r.due = k.due, r.todo = k.todo, r.size = k.size,
           r.rows = k.rows, r.last = k.last, r.ids = k.ids, r.given = k.given, r.marks = k.marks,
           r.thanked = k.thanked, r.p = k.p, r.chans # {},
           IF r.pc \in {"findOpen", "insert", "remind"} THEN k.pc \in {"findOpen", "insert", "remind"}
                                                        ELSE k.pc \notin {"findOpen", "insert", "remind"},
           r.pc \in {"thank", "flag"} => r.d = k.d /\ k.pc \in {"thank", "flag"}
    PROVE  CallOK(r) /\ Stays(k, r) /\ Later(r) = Later(k) /\ Queue(r) = Queue(k)
<1>1. ChunkOK(k) /\ k.todo \in Todos /\ k.size # 0 /\ InRun(k) /\ InRun(r)
      BY DEF CallOK, RunOK, InRun, RunPcs, Working
<1>2. ToRemind(k, k.p) => ToRemind(r, r.p)
      BY DEF ToRemind
<1>3. ChunkOK(r)
      BY <1>1, <1>2 DEF ChunkOK, Working
<1>4. CallOK(r)
      BY <1>1, <1>3 DEF CallOK, PlaceOK, RunOK, SubOK, OtherOK, RunPcs, SubPcs, PayPcs, Staff, Working
<1>5. Later(r) = Later(k)
      BY <1>1 DEF Later
<1>6. Queue(r) = Queue(k)
      BY <1>1 DEF Queue, Working
<1>7. QED BY <1>4, <1>5, <1>6 DEF Stays

LEMMA ThankDoes ==
    ASSUME Placed, NEW c \in Calls, Thank(c)
    PROVE  Only(c) /\ CallOK(call'[c]) /\ DonationsStay /\ RunThanks(c)
<1> DEFINE k == call[c]
           r == [k EXCEPT !.ok = TRUE, !.pc = "flag"]
<1>1. k \in Call /\ CallOK(k) /\ k.op = "job" /\ k.pc = "thank" /\ k.pc \in Working
      BY JobIs DEF Thank, RunPcs, Working
<1>2. UNCHANGED <<rowVars, donation, ledgerVars, reminders, countVars>>
      BY DEF Thank
<1>3. DonationsStay
      BY <1>2, SameDonations
<1>4. CASE Thanked(k.d, First(k)) /\ Set(c, r)
  <2>1. /\ r \in Call /\ r.op = "job" /\ r.pc = "flag" /\ r.force = k.force /\ r.due = k.due
        /\ r.todo = k.todo /\ r.size = k.size /\ r.rows = k.rows /\ r.last = k.last
        /\ r.ids = k.ids /\ r.given = k.given /\ r.marks = k.marks /\ r.thanked = k.thanked
        /\ r.p = k.p /\ r.d = k.d /\ r.chans = k.chans
        BY <1>1 DEF Call, Places, RunPcs, Working
  <2>2. Only(c) /\ call'[c] = r
        BY <1>4, <2>1, SetMeans
  <2> HIDE DEF r
  <2>3. k.chans # {}
        BY <1>1 DEF CallOK, RunOK, ChunkOK, InRun, RunPcs, Working
  <2>4. CallOK(r) /\ Stays(k, r)
        BY <1>1, <2>1, <2>3, AtPledge DEF Working
  <2>5. QED BY <1>1, <1>2, <1>3, <1>4, <2>1, <2>2, <2>4 DEF RunThanks
<1>5. CASE Set(c, NextChannel(k)) /\ UNCHANGED thanks
  <2> DEFINE t == NextChannel(k)
  <2>1. /\ t \in Call /\ CallOK(t)
        /\ \/ Stays(k, t) /\ t.pc = k.pc /\ t.d = k.d /\ t.chans = Others(k)
           \/ Passed(k, t, k.marks)
        BY <1>1, NextChannelGoes
  <2>2. Only(c) /\ call'[c] = t
        BY <1>5, <2>1, SetMeans
  <2> HIDE DEF t
  <2>3. GoesOn(k, t, "thank", k.marks)
        BY <1>1, <2>1 DEF GoesOn
  <2>4. QED BY <1>1, <1>2, <1>3, <1>5, <2>1, <2>2, <2>3 DEF RunThanks
<1>6. QED BY <1>4, <1>5 DEF Thank

LEMMA FlagDoes ==
    ASSUME Placed, NEW c \in Calls, Flag(c)
    PROVE  Only(c) /\ CallOK(call'[c]) /\ DonationsStay /\ RunFlags(c)
<1> DEFINE k == call[c]
           s == [k EXCEPT !.pc = "thank"]
           e == [donation[k.d] EXCEPT !.sent = @ \union {First(k)}]
<1>1. k \in Call /\ CallOK(k) /\ k.op = "job" /\ k.pc = "flag" /\ k.pc \in Working
      BY JobIs DEF Flag, RunPcs, Working
<1>2. /\ donation' = [donation EXCEPT ![k.d].sent = @ \union {First(k)}] /\ Set(c, NextChannel(s))
      /\ UNCHANGED <<rowVars, ledgerVars, historyVars, countVars>>
      BY DEF Flag
<1>3. k.chans # {} /\ k.d \in DOMAIN donation
      BY <1>1 DEF CallOK, RunOK, ChunkOK, InRun, RunPcs, Working
<1>4. DonationsStay
  <2>1. donation' = [donation EXCEPT ![k.d] = e]
        BY <1>2
  <2>2. donation[k.d] \in Donation
        BY <1>3 DEF Placed, TypeOK
  <2>3. e \in Donation /\ e.for = donation[k.d].for
        BY <1>1, <1>3, <2>2, FirstIsLeft DEF Donation
  <2> HIDE DEF e
  <2>4. QED BY <1>3, <2>1, <2>3, OneDonation
<1>5. /\ s \in Call /\ s.op = "job" /\ s.pc = "thank" /\ s.force = k.force /\ s.due = k.due
      /\ s.todo = k.todo /\ s.size = k.size /\ s.rows = k.rows /\ s.last = k.last
      /\ s.ids = k.ids /\ s.given = k.given /\ s.marks = k.marks /\ s.thanked = k.thanked
      /\ s.p = k.p /\ s.d = k.d /\ s.chans = k.chans
      BY <1>1 DEF Call, Places, RunPcs, Working
<1> HIDE DEF s
<1>6. CallOK(s) /\ Later(s) = Later(k) /\ Queue(s) = Queue(k)
      BY <1>1, <1>3, <1>5, AtPledge DEF Working
<1>7. Others(s) = Others(k)
      BY <1>5 DEF Others, First
<1> DEFINE t == NextChannel(s)
<1>8. /\ t \in Call /\ CallOK(t)
      /\ \/ Stays(s, t) /\ t.pc = s.pc /\ t.d = s.d /\ t.chans = Others(s)
         \/ Passed(s, t, s.marks)
      BY <1>5, <1>6, NextChannelGoes
<1>9. Only(c) /\ call'[c] = t
      BY <1>2, <1>8, SetMeans
<1> HIDE DEF t
<1>10. GoesOn(k, t, "thank", k.marks)
       BY <1>5, <1>6, <1>7, <1>8 DEF GoesOn, Stays, Passed
<1>11. QED BY <1>1, <1>2, <1>4, <1>8, <1>9, <1>10 DEF RunFlags

LEMMA TemplateDoes ==
    ASSUME Placed, NEW c \in Calls, Template(c)
    PROVE  Only(c) /\ CallOK(call'[c]) /\ DonationsStay /\ RunTemplates(c)
<1> DEFINE k == call[c]
<1>1. k \in Call /\ CallOK(k) /\ k.op = "job" /\ k.pc = "template" /\ k.pc \in Working
      BY JobIs DEF Template, RunPcs, Working
<1>2. UNCHANGED <<rowVars, donation, ledgerVars, reminders, thanks, countVars>>
      BY DEF Template
<1>3. DonationsStay
      BY <1>2, SameDonations
<1>4. k.chans # {}
      BY <1>1 DEF CallOK, RunOK, ChunkOK, InRun, RunPcs, Working
<1>5. PICK ok \in BOOLEAN : Set(c, NextChannel([k EXCEPT !.ok = @ \/ ok]))
      BY DEF Template
<1> DEFINE s == [k EXCEPT !.ok = @ \/ ok]
<1>6. /\ s \in Call /\ s.op = "job" /\ s.pc = "template" /\ s.force = k.force /\ s.due = k.due
      /\ s.todo = k.todo /\ s.size = k.size /\ s.rows = k.rows /\ s.last = k.last
      /\ s.ids = k.ids /\ s.given = k.given /\ s.marks = k.marks /\ s.thanked = k.thanked
      /\ s.p = k.p /\ s.d = k.d /\ s.chans = k.chans
      BY <1>1 DEF Call
<1>7. Set(c, NextChannel(s))
      BY <1>5
<1> HIDE DEF s
<1>8. CallOK(s) /\ Later(s) = Later(k) /\ Queue(s) = Queue(k)
      BY <1>1, <1>4, <1>6, AtPledge DEF Working
<1>9. Others(s) = Others(k)
      BY <1>6 DEF Others, First
<1> DEFINE t == NextChannel(s)
<1>10. /\ t \in Call /\ CallOK(t)
       /\ \/ Stays(s, t) /\ t.pc = s.pc /\ t.d = s.d /\ t.chans = Others(s)
          \/ Passed(s, t, s.marks)
       BY <1>6, <1>8, NextChannelGoes
<1>11. Only(c) /\ call'[c] = t
       BY <1>7, <1>10, SetMeans
<1> HIDE DEF t
<1>12. GoesOn(k, t, "template", k.marks)
       BY <1>6, <1>8, <1>9, <1>10 DEF GoesOn, Stays, Passed
<1>13. QED BY <1>1, <1>2, <1>3, <1>10, <1>11, <1>12 DEF RunTemplates

LEMMA RemindDoes ==
    ASSUME Placed, NEW c \in Calls, Remind(c)
    PROVE  Only(c) /\ CallOK(call'[c]) /\ DonationsStay /\ RunReminds(c)
<1> DEFINE k == call[c]
           s == [k EXCEPT !.ok = TRUE]
<1>1. k \in Call /\ CallOK(k) /\ k.op = "job" /\ k.pc = "remind" /\ k.pc \in Working
      BY JobIs DEF Remind, RunPcs, Working
<1>2. UNCHANGED <<rowVars, donation, ledgerVars, thanks, countVars>>
      BY DEF Remind
<1>3. DonationsStay
      BY <1>2, SameDonations
<1>4. k.chans # {} /\ k.ok \in BOOLEAN
      BY <1>1 DEF CallOK, RunOK, ChunkOK, InRun, RunPcs, Working, Call
<1>5. CASE /\ IF k.ok THEN UNCHANGED reminders ELSE Reminded(k.p, KeyOf(freq[k.p], day))
           /\ Set(c, NextChannel(s))
  <2>1. /\ s \in Call /\ s.op = "job" /\ s.pc = "remind" /\ s.force = k.force /\ s.due = k.due
        /\ s.todo = k.todo /\ s.size = k.size /\ s.rows = k.rows /\ s.last = k.last
        /\ s.ids = k.ids /\ s.given = k.given /\ s.marks = k.marks /\ s.thanked = k.thanked
        /\ s.p = k.p /\ s.d = k.d /\ s.chans = k.chans /\ s.ok
        BY <1>1 DEF Call
  <2>2. Set(c, NextChannel(s))
        BY <1>5
  <2> HIDE DEF s
  <2>3. CallOK(s) /\ Later(s) = Later(k) /\ Queue(s) = Queue(k)
        BY <1>1, <1>4, <2>1, AtPledge DEF Working
  <2> DEFINE t == NextChannel(s)
  <2>4. /\ t \in Call /\ CallOK(t)
        /\ \/ Stays(s, t) /\ t.pc = s.pc /\ t.ok = s.ok
           \/ Passed(s, t, s.marks \union {s.p})
        BY <2>1, <2>3, NextChannelGoes
  <2>5. Only(c) /\ call'[c] = t
        BY <2>2, <2>4, SetMeans
  <2> HIDE DEF t
  <2>6. \/ Stays(k, t) /\ t.pc = "remind" /\ t.ok = TRUE
        \/ Passed(k, t, k.marks \union {k.p})
        BY <2>1, <2>3, <2>4 DEF Stays, Passed
  <2>7. IF TRUE /\ ~k.ok THEN Reminded(k.p, KeyToday(k.p)) ELSE UNCHANGED reminders
        BY <1>5 DEF KeyToday
  <2>8. RunReminds(c)
        BY <1>1, <1>2, <2>5, <2>6, <2>7 DEF RunReminds
  <2>9. QED BY <1>3, <2>4, <2>5, <2>8
<1>6. CASE Set(c, NextChannel(k)) /\ UNCHANGED reminders
  <2> DEFINE t == NextChannel(k)
  <2>1. /\ t \in Call /\ CallOK(t)
        /\ \/ Stays(k, t) /\ t.pc = k.pc /\ t.ok = k.ok
           \/ Passed(k, t, IF k.ok THEN k.marks \union {k.p} ELSE k.marks)
        BY <1>1, NextChannelGoes
  <2>2. Only(c) /\ call'[c] = t
        BY <1>6, <2>1, SetMeans
  <2> HIDE DEF t
  <2>3. RunReminds(c)
        BY <1>1, <1>2, <1>4, <1>6, <2>1, <2>2 DEF RunReminds
  <2>4. QED BY <1>3, <2>1, <2>2, <2>3
<1>7. QED BY <1>5, <1>6 DEF Remind

LEMMA FindOpenDoes ==
    ASSUME Placed, NEW c \in Calls, FindOpen(c)
    PROVE  Only(c) /\ CallOK(call'[c]) /\ DonationsStay /\ FindsOpen(c)
<1> DEFINE k  == call[c]
           ds == {d \in DOMAIN donation : donation[d].for = k.p /\ Open(donation[d].status)}
           r  == IF ds = {} THEN [k EXCEPT !.pc = "insert"]
                            ELSE [k EXCEPT !.d = Max(ds), !.pc = "remind"]
<1>1. k \in Call /\ CallOK(k) /\ k.op = "job" /\ k.pc = "findOpen" /\ k.pc \in Working
      BY JobIs DEF FindOpen, RunPcs, Working
<1>2. Set(c, r) /\ UNCHANGED <<rowVars, donation, ledgerVars, historyVars, countVars>>
      BY DEF FindOpen
<1>3. DonationsStay
      BY <1>2, SameDonations
<1>4. ds # {} => Max(ds) \in Nat
  <2>1. donation \in Seq(Donation) /\ DOMAIN donation = 1 .. Len(donation) /\ Len(donation) \in Nat
        BY DEF Placed, TypeOK
  <2>2. ds \subseteq DOMAIN donation
        OBVIOUS
  <2>3. ds # {} => Max(ds) \in ds
        BY <2>1, <2>2, MaxIsGreatest
  <2>4. QED BY <2>1, <2>2, <2>3
<1>5. r.pc = "insert" => OpenFor(k.p) = {}
      BY <1>1 DEF OpenFor, Call
<1>6. /\ r \in Call /\ r.op = "job" /\ r.pc \in {"insert", "remind"} /\ r.force = k.force /\ r.due = k.due
      /\ r.todo = k.todo /\ r.size = k.size /\ r.rows = k.rows /\ r.last = k.last
      /\ r.ids = k.ids /\ r.given = k.given /\ r.marks = k.marks /\ r.thanked = k.thanked
      /\ r.p = k.p /\ r.chans = k.chans /\ r.ok = k.ok
  <2>1. CASE ds = {}
        BY <1>1, <2>1 DEF Call, Places, RunPcs, Working
  <2>2. CASE ds # {}
    <3> DEFINE m == Max(ds)
    <3>1. r = [k EXCEPT !.d = m, !.pc = "remind"] /\ m \in Nat
          BY <1>4, <2>2
    <3> HIDE DEF m, r
    <3>2. QED BY <1>1, <3>1 DEF Call, Places, RunPcs, Working
  <2>3. QED BY <2>1, <2>2
<1> HIDE DEF r, ds
<1>7. k.chans # {}
      BY <1>1 DEF CallOK, RunOK, ChunkOK, InRun, RunPcs, Working
<1>8. CallOK(r) /\ Stays(k, r)
      BY <1>1, <1>6, <1>7, AtPledge DEF Working
<1>9. Only(c) /\ call'[c] = r
      BY <1>2, <1>6, SetMeans
<1>10. QED BY <1>1, <1>2, <1>3, <1>5, <1>6, <1>8, <1>9 DEF FindsOpen

\* A link is a new donation.
LEMMA LinkAppended ==
    ASSUME Placed, NEW t \in Targets, donation' = Append(donation, NewLink(t))
    PROVE  /\ DonationsStay
           /\ DOMAIN donation' = DOMAIN donation \union {Len(donation) + 1}
           /\ Len(donation) + 1 \notin DOMAIN donation
           /\ \A d \in DOMAIN donation : donation'[d] = donation[d]
           /\ donation'[Len(donation) + 1] = NewLink(t)
<1>1. NewLink(t) \in Donation /\ donation \in Seq(Donation)
      BY DEF NewLink, Donation, Placed, TypeOK
<1>2. /\ donation' \in Seq(Donation) /\ Len(donation') = Len(donation) + 1
      /\ \A d \in 1 .. Len(donation) : donation'[d] = donation[d]
      /\ donation'[Len(donation) + 1] = NewLink(t)
      BY <1>1
<1>3. DOMAIN donation = 1 .. Len(donation) /\ DOMAIN donation' = 1 .. Len(donation) + 1
      BY <1>1, <1>2
<1>4. QED BY <1>1, <1>2, <1>3 DEF DonationsStay

\* The same for the subscription.
SubInserts(c) ==
    LET k == call[c]
        r == call'[c]
    IN  /\ k.op = "job" /\ k.pc = "subInsert"
        /\ donation' = Append(donation, NewLink(Sub))
        /\ r.op = "job" /\ r.pc = "subRemind" /\ r.force = k.force /\ r.due = k.due
        /\ r.key = k.key /\ r.ok = k.ok
        /\ UNCHANGED <<rowVars, ledgerVars, historyVars, countVars>>

LEMMA InsertDoes ==
    ASSUME Placed, NEW c \in Calls, InsertLink(c)
    PROVE  Only(c) /\ CallOK(call'[c]) /\ DonationsStay /\ (RunInserts(c) \/ SubInserts(c))
<1> DEFINE k == call[c]
           n == Len(donation) + 1
           a == [k EXCEPT !.d = n, !.pc = "remind"]
           b == [k EXCEPT !.d = n, !.pc = "subRemind"]
<1>1. k \in Call /\ CallOK(k) /\ k.op = "job" /\ k.p \in Targets
      BY JobIs DEF InsertLink, RunPcs, Working, SubPcs, Call
<1>2. /\ donation' = Append(donation, NewLink(k.p))
      /\ UNCHANGED <<rowVars, ledgerVars, historyVars, countVars>>
      BY DEF InsertLink, NewLink
<1>3. DonationsStay
      BY <1>1, <1>2, LinkAppended
<1>4. n \in Nat
      BY DEF Placed, TypeOK
<1> HIDE DEF n
<1>5. CASE k.pc = "insert"
  <2>1. Set(c, a)
        BY <1>1, <1>5 DEF InsertLink, Call, n
  <2>2. /\ a \in Call /\ a.op = "job" /\ a.pc = "remind" /\ a.force = k.force /\ a.due = k.due
        /\ a.todo = k.todo /\ a.size = k.size /\ a.rows = k.rows /\ a.last = k.last
        /\ a.ids = k.ids /\ a.given = k.given /\ a.marks = k.marks /\ a.thanked = k.thanked
        /\ a.p = k.p /\ a.chans = k.chans /\ a.ok = k.ok
        BY <1>1, <1>4 DEF Call, Places, RunPcs, Working
  <2> HIDE DEF a
  <2>3. k.chans # {}
        BY <1>1, <1>5 DEF CallOK, RunOK, ChunkOK, InRun, RunPcs, Working
  <2>4. CallOK(a) /\ Stays(k, a)
        BY <1>1, <1>5, <2>2, <2>3, AtPledge DEF Working
  <2>5. Only(c) /\ call'[c] = a
        BY <2>1, <2>2, SetMeans
  <2>6. QED BY <1>1, <1>2, <1>3, <1>5, <2>2, <2>4, <2>5 DEF RunInserts
<1>6. CASE k.pc = "subInsert"
  <2>1. Set(c, b)
        BY <1>1, <1>6 DEF InsertLink, Call, n
  <2>2. /\ b \in Call /\ b.op = "job" /\ b.pc = "subRemind" /\ b.force = k.force /\ b.due = k.due
        /\ b.p = k.p /\ b.chans = k.chans /\ b.ok = k.ok /\ b.key = k.key
        BY <1>1, <1>4 DEF Call, Places, SubPcs
  <2> HIDE DEF b
  <2>3. k.p = Sub
        BY <1>1, <1>6 DEF CallOK, SubOK, SubPcs
  <2>4. CallOK(b)
        BY <1>1, <1>6, <2>2 DEF CallOK, PlaceOK, RunOK, SubOK, OtherOK, RunPcs, SubPcs, PayPcs, Staff,
                                Working, InRun
  <2>5. Only(c) /\ call'[c] = b
        BY <2>1, <2>2, SetMeans
  <2>6. QED BY <1>1, <1>2, <1>3, <1>6, <2>2, <2>3, <2>4, <2>5 DEF SubInserts
<1>7. QED BY <1>5, <1>6 DEF InsertLink

LEMMA NoCallOK == NoCall \in Call /\ CallOK(NoCall)
<1>1. <<>> \in [{} -> Pledge] /\ {} \in SUBSET Pledges /\ 0 \in Targets /\ NoKey \in Key
      BY ReminderAssumption DEF Targets, Sub, NoKey, Key
<1>2. <<>> \in UNION {[ps -> Pledge] : ps \in SUBSET Pledges}
      BY <1>1
<1>3. NoCall \in Call
      BY <1>1, <1>2 DEF NoCall, Call, Ops, Places
<1>4. NoCall.op = "none" /\ NoCall.pc = "none"
      BY DEF NoCall
<1>5. CallOK(NoCall)
  <2>1. PlaceOK(NoCall)
        BY <1>4 DEF PlaceOK, Staff
  <2>2. RunOK(NoCall) /\ SubOK(NoCall) /\ OtherOK(NoCall)
        BY <1>4 DEF RunOK, SubOK, OtherOK, RunPcs, SubPcs, PayPcs, Staff, Working, InRun
  <2>3. QED BY <2>1, <2>2 DEF CallOK
<1>6. QED BY <1>3, <1>5

\* A call that ends is forgotten.
LEMMA EndMeans ==
    ASSUME Placed, NEW c \in Calls, End(c)
    PROVE  Only(c) /\ call'[c] = NoCall /\ CallOK(call'[c])
BY NoCallOK, SetMeans DEF End

LEMMA MarkDoes ==
    ASSUME Placed, NEW c \in Calls, Mark(c)
    PROVE  Only(c) /\ CallOK(call'[c]) /\ DonationsStay /\ RunMarks(c)
<1> DEFINE k  == call[c]
           f  == Head(k.todo)
           p  == Min(IF k.marks # {} THEN k.marks ELSE k.thanked)
           g  == IF k.marks # {} THEN k.thanked ELSE k.thanked \ {p}
           r  == [k EXCEPT !.marks = @ \ {p}, !.thanked = IF k.marks # {} THEN @ ELSE @ \ {p}]
           t  == IF r.marks \union r.thanked = {} THEN AfterChunk(r) ELSE r
<1>1. /\ k \in Call /\ CallOK(k) /\ k.op = "job" /\ InRun(k) /\ k.todo \in Todos /\ k.size # 0
      /\ Left(k.todo) \subseteq Left(DueOn(day))
      /\ k.pc = "mark" /\ k.pc \in RunPcs
      BY JobIs DEF Mark, RunPcs
<1>2. ChunkOK(k) /\ k.marks \union k.thanked # {}
      BY <1>1 DEF CallOK, RunOK, ChunkOK
<1>3. UNCHANGED <<recurring, donation, ledgerVars, historyVars, countVars>>
      BY DEF Mark
<1>4. DonationsStay
      BY <1>3, SameDonations
<1>5. CASE ~Fits(f)
  <2>1. End(c) /\ UNCHANGED pledge
        BY <1>5 DEF Mark
  <2>2. f = "weekly"
        BY <1>5 DEF Fits
  <2>3. QED BY <1>1, <1>3, <1>4, <2>1, <2>2, EndMeans DEF RunMarks
<1>6. CASE Fits(f)
  <2>1. /\ pledge' = IF k.marks # {} THEN [pledge EXCEPT ![p].reminded = KeyOf(f, day)]
                                     ELSE [pledge EXCEPT ![p].thanked = PeriodOf(f, day)]
        /\ \E ts : Excused(c, t, ts)
        BY <1>6 DEF Mark
  <2>2. k.marks \union k.thanked \subseteq DOMAIN k.rows /\ DOMAIN k.rows \subseteq Pledges
        BY <1>1, <1>2, RowsAreRows DEF ChunkOK
  <2>3. IF k.marks # {} THEN p \in k.marks ELSE p \in k.thanked
    <3>1. k.marks \subseteq Nat /\ k.thanked \subseteq Nat
          BY <2>2 DEF Pledges
    <3>2. CASE k.marks # {}
          BY <3>1, <3>2, MinIsLeast
    <3>3. CASE k.marks = {}
          BY <1>2, <3>1, <3>3, MinIsLeast
    <3>4. QED BY <3>2, <3>3
  <2>4. r = [k EXCEPT !.marks = k.marks \ {p}, !.thanked = g]
        BY <1>1 DEF Call
  <2>5. g \subseteq k.thanked
        OBVIOUS
  <2> HIDE DEF p, g, r
  <2>6. /\ r \in Call /\ r.op = "job" /\ r.pc = "mark" /\ r.force = k.force /\ r.due = k.due
        /\ r.todo = k.todo /\ r.size = k.size /\ r.rows = k.rows /\ r.last = k.last
        /\ r.ids = k.ids /\ r.given = k.given /\ r.marks = k.marks \ {p} /\ r.thanked = g
        BY <1>1, <2>4, <2>5 DEF Call
  <2>7. Later(r) = Later(k) /\ Queue(r) = {}
        BY <1>1, <2>6 DEF Later, Queue, InRun, Working
  <2>8. /\ t \in Call /\ CallOK(t)
        /\ t.op = "job" /\ t.force = k.force /\ t.due = k.due /\ t.pc \in {"mark", "chunk"}
        /\ Later(t) \subseteq Later(k) /\ Queue(t) = {} /\ t.marks = k.marks \ {p}
    <3>1. CASE r.marks \union r.thanked = {}
      <4>1. Between(r) /\ r.marks = {}
            BY <1>1, <1>2, <2>2, <2>5, <2>6, <3>1 DEF Between, ChunkOK
      <4>2. AfterChunk(r).marks = {}
            BY <4>1 DEF AfterChunk, NextFreq, Between, Call
      <4>3. t = AfterChunk(r)
            BY <3>1
      <4> HIDE DEF t
      <4>4. QED BY <2>6, <2>7, <4>1, <4>2, <4>3, AfterChunkGoes
    <3>2. CASE r.marks \union r.thanked # {}
      <4>1. ChunkOK(r)
            BY <1>2, <2>2, <2>5, <2>6, <3>2 DEF ChunkOK, Working
      <4>2. CallOK(r)
            BY <1>1, <2>6, <4>1 DEF CallOK, PlaceOK, RunOK, SubOK, OtherOK, RunPcs, SubPcs, PayPcs, Staff,
                                    Working, InRun
      <4>3. t = r
            BY <3>2
      <4>4. QED BY <2>6, <2>7, <4>2, <4>3
    <3>3. QED BY <3>1, <3>2
  <2> HIDE DEF t
  <2>9. Only(c) /\ call'[c] = t
        BY <2>1, <2>8, ExcusedMeans
  <2>10. CASE k.marks # {}
    <3>1. p \in k.marks /\ pledge' = [pledge EXCEPT ![p].reminded = KeyOf(f, day)]
          BY <2>1, <2>3, <2>10
    <3>2. RunMarks(c)
          BY <1>1, <1>3, <2>8, <2>9, <3>1 DEF RunMarks
    <3>3. QED BY <1>4, <2>8, <2>9, <3>2
  <2>11. CASE k.marks = {}
    <3>1. /\ p \in k.thanked /\ pledge' = [pledge EXCEPT ![p].thanked = PeriodOf(f, day)]
          /\ t.marks = {}
          BY <2>1, <2>3, <2>8, <2>11
    <3>2. RunMarks(c)
          BY <1>1, <1>3, <2>8, <2>9, <2>11, <3>1 DEF RunMarks
    <3>3. QED BY <1>4, <2>8, <2>9, <3>2
  <2>12. QED BY <2>10, <2>11
<1>7. QED BY <1>5, <1>6

-----------------------------------------------------------------------------
(* The subscription's part of a run.                                       *)

SubReads(c) ==
    LET k == call[c]
        r == call'[c]
    IN  /\ k.op = "job" /\ k.pc = "subRead"
        /\ r.op = "job" /\ r.pc = "subInitial" /\ r.force = k.force /\ r.key = mark /\ ~r.ok
        /\ UNCHANGED <<rowVars, donation, ledgerVars, historyVars, countVars>>

SubPasses(c) ==
    LET k == call[c]
        r == call'[c]
    IN  /\ k.op = "job" /\ k.pc \in {"subInitial", "subSettled", "subDonated", "subOpen"}
        /\ \/ r = NoCall
           \/ /\ r.op = "job" /\ r.force = k.force /\ r.key = k.key /\ r.p = Sub
              /\ r.pc \in {"subSettled", "subDonated", "subOpen", "subInsert", "subRemind"}
              /\ k.pc = "subOpen" => r.ok = k.ok
              /\ r.pc = "subInsert" => Links(Sub) = {}
        /\ UNCHANGED <<rowVars, donation, ledgerVars, historyVars, countVars>>

SubSends(c) ==
    LET k == call[c]
        r == call'[c]
    IN  /\ k.op = "job" /\ k.pc = "subRemind"
        /\ \E got \in BOOLEAN :
              /\ IF got /\ ~k.ok THEN Reminded(Sub, SubKey(day)) ELSE UNCHANGED reminders
              /\ \/ /\ r.op = "job" /\ r.pc = "subRemind" /\ r.force = k.force /\ r.key = k.key
                    /\ r.ok = (k.ok \/ got)
                 \/ r.op = "job" /\ r.pc = "subMark" /\ (k.ok \/ got)
                 \/ r = NoCall /\ ~k.ok /\ ~got
        /\ UNCHANGED <<rowVars, donation, ledgerVars, thanks, countVars>>

SubNotes(c) ==
    /\ call[c].op = "job" /\ call[c].pc = "subMark"
    /\ mark' = SubKey(day)
    /\ call'[c] = NoCall
    /\ UNCHANGED <<rowVars, donation, settled, historyVars, countVars>>

\* Where a run is in the subscription's part.
LEMMA SubPlace ==
    ASSUME NEW k \in Call, k.op = "job", k.pc \in SubPcs,
           k.pc \in SubPcs \ {"subRead"} => k.p = Sub,
           k.pc \in SubPcs \ {"subRead", "subMark"} => k.chans # {},
           k.pc \in SubPcs \ {"subRead", "subInitial"} => day \in RemindDays,
           k.pc \in SubPcs \ {"subRead", "subInitial", "subSettled"} =>
               k.force \/ k.key # SubKey(day)
    PROVE  CallOK(k)
BY DEF CallOK, PlaceOK, RunOK, SubOK, OtherOK, RunPcs, SubPcs, PayPcs, Staff, Working, InRun

LEMMA SubReadDoes ==
    ASSUME Placed, NEW c \in Calls, SubRead(c)
    PROVE  Only(c) /\ CallOK(call'[c]) /\ DonationsStay /\ SubReads(c)
<1> DEFINE k == call[c]
           r == [k EXCEPT !.p = Sub, !.key = mark, !.ok = FALSE, !.chans = Channel, !.pc = "subInitial"]
<1>1. k \in Call /\ k.op = "job" /\ k.pc = "subRead"
      BY JobIs DEF SubRead, SubPcs
<1>2. Set(c, r) /\ UNCHANGED <<rowVars, donation, ledgerVars, historyVars, countVars>>
      BY DEF SubRead
<1>3. mark \in Key /\ Sub \in Targets
      BY DEF Placed, TypeOK, Targets
<1>4. /\ r \in Call /\ r.op = "job" /\ r.pc = "subInitial" /\ r.force = k.force /\ r.key = mark
      /\ ~r.ok /\ r.p = Sub /\ r.chans = Channel
      BY <1>1, <1>3, SomeChannel DEF Call, Places, SubPcs
<1> HIDE DEF r
<1>5. CallOK(r)
      BY <1>4, SomeChannel, SubPlace DEF SubPcs
<1>6. Only(c) /\ call'[c] = r
      BY <1>2, <1>4, SetMeans
<1>7. QED BY <1>1, <1>2, <1>4, <1>5, <1>6, SameDonations DEF SubReads

LEMMA SubMarkDoes ==
    ASSUME Placed, NEW c \in Calls, SubMark(c)
    PROVE  Only(c) /\ CallOK(call'[c]) /\ DonationsStay /\ SubNotes(c)
<1>1. call[c] \in Call /\ call[c].op = "job" /\ call[c].pc = "subMark"
      BY JobIs DEF SubMark, SubPcs
<1>2. /\ mark' = SubKey(day) /\ End(c)
      /\ UNCHANGED <<rowVars, donation, settled, historyVars, countVars>>
      BY DEF SubMark
<1>3. QED BY <1>1, <1>2, EndMeans, SameDonations DEF SubNotes

\* A run that goes on in the subscription's part.
LEMMA SubGoes ==
    ASSUME Placed, NEW c \in Calls, call[c].op = "job",
           call[c].pc \in {"subInitial", "subSettled", "subDonated", "subOpen"},
           UNCHANGED <<rowVars, donation, ledgerVars, historyVars, countVars>>,
           NEW pc \in {"subSettled", "subDonated", "subOpen", "subInsert", "subRemind"},
           NEW d \in Nat, Set(c, [call[c] EXCEPT !.d = d, !.pc = pc]),
           day \in RemindDays,
           pc # "subSettled" => call[c].force \/ call[c].key # SubKey(day),
           pc = "subInsert" => Links(Sub) = {}
    PROVE  Only(c) /\ CallOK(call'[c]) /\ DonationsStay /\ SubPasses(c)
<1> DEFINE k == call[c]
           r == [k EXCEPT !.d = d, !.pc = pc]
<1>1. k \in Call /\ CallOK(k) /\ k.p = Sub /\ k.chans # {}
      BY JobIs DEF CallOK, SubOK, SubPcs
<1>2. /\ r \in Call /\ r.op = "job" /\ r.pc = pc /\ r.force = k.force /\ r.key = k.key
      /\ r.ok = k.ok /\ r.p = Sub /\ r.chans = k.chans
      BY <1>1 DEF Call, Places, SubPcs
<1>3. Set(c, r)
      OBVIOUS
<1> HIDE DEF r
<1>4. CallOK(r)
      BY <1>1, <1>2, SubPlace DEF SubPcs
<1>5. Only(c) /\ call'[c] = r
      BY <1>2, <1>3, SetMeans
<1>6. QED BY <1>2, <1>4, <1>5, SameDonations DEF SubPasses

LEMMA SubPassDoes ==
    ASSUME Placed, NEW c \in Calls, SubInitial(c) \/ SubSettled(c) \/ SubDonated(c) \/ SubLink(c)
    PROVE  Only(c) /\ CallOK(call'[c]) /\ DonationsStay /\ SubPasses(c)
<1> DEFINE k == call[c]
<1>1. /\ k \in Call /\ CallOK(k) /\ k.op = "job"
      /\ k.pc \in {"subInitial", "subSettled", "subDonated", "subOpen"}
      BY JobIs DEF SubInitial, SubSettled, SubDonated, SubLink, SubPcs
<1>2. UNCHANGED <<rowVars, donation, ledgerVars, historyVars, countVars>>
      BY DEF SubInitial, SubSettled, SubDonated, SubLink
<1>3. CASE End(c)
      BY <1>1, <1>2, <1>3, EndMeans, SameDonations DEF SubPasses
<1>4. ASSUME NEW pc, Goto(c, pc) PROVE Set(c, [k EXCEPT !.d = k.d, !.pc = pc]) /\ k.d \in Nat
  <2>1. [k EXCEPT !.d = k.d, !.pc = pc] = [k EXCEPT !.pc = pc] /\ k.d \in Nat
        BY <1>1 DEF Call
  <2>2. call' = [call EXCEPT ![c] = [k EXCEPT !.pc = pc]]
        BY <1>4 DEF Goto
  <2>3. QED BY <2>1, <2>2 DEF Set
<1>5. CASE SubInitial(c) /\ ~End(c)
  <2>1. Goto(c, "subSettled") /\ day \in RemindDays
        BY <1>5 DEF SubInitial, RemindDays
  <2>2. QED BY <1>1, <1>2, <1>4, <2>1, SubGoes
<1>6. CASE SubSettled(c) /\ ~End(c)
  <2>1. Goto(c, "subDonated") /\ (k.force \/ k.key # SubKey(day)) /\ day \in RemindDays
        BY <1>1, <1>6 DEF SubSettled, CallOK, SubOK, SubPcs
  <2>2. QED BY <1>1, <1>2, <1>4, <2>1, SubGoes
<1>7. CASE SubDonated(c) /\ ~End(c)
  <2>1. Goto(c, "subOpen") /\ (k.force \/ k.key # SubKey(day)) /\ day \in RemindDays
        BY <1>1, <1>7 DEF SubDonated, CallOK, SubOK, SubPcs
  <2>2. QED BY <1>1, <1>2, <1>4, <2>1, SubGoes
<1>8. CASE SubLink(c)
  <2> DEFINE ds == {d \in DOMAIN donation : /\ donation[d].for = Sub /\ ~donation[d].archived
                                            /\ Open(donation[d].status)}
  <2>1. (k.force \/ k.key # SubKey(day)) /\ day \in RemindDays
        BY <1>1, <1>8 DEF SubLink, CallOK, SubOK, SubPcs
  <2>2. Set(c, IF ds = {} THEN [k EXCEPT !.pc = "subInsert"]
                          ELSE [k EXCEPT !.d = Max(ds), !.pc = "subRemind"])
        BY <1>8 DEF SubLink
  <2>3. CASE ds = {}
    <3>1. Links(Sub) = {}
          BY <2>3 DEF Links
    <3>2. k.d \in Nat /\ [k EXCEPT !.d = k.d, !.pc = "subInsert"] = [k EXCEPT !.pc = "subInsert"]
          BY <1>1 DEF Call
    <3>3. Set(c, [k EXCEPT !.d = k.d, !.pc = "subInsert"])
          BY <2>2, <2>3, <3>2
    <3>4. QED BY <1>1, <1>2, <2>1, <3>1, <3>2, <3>3, SubGoes
  <2>4. CASE ds # {}
    <3> DEFINE m == Max(ds)
    <3>1. donation \in Seq(Donation) /\ DOMAIN donation = 1 .. Len(donation) /\ Len(donation) \in Nat
          BY DEF Placed, TypeOK
    <3>2. ds \subseteq DOMAIN donation
          OBVIOUS
    <3>3. m \in ds
          BY <2>4, <3>1, <3>2, MaxIsGreatest
    <3>4. m \in Nat /\ Set(c, [k EXCEPT !.d = m, !.pc = "subRemind"])
          BY <2>2, <2>4, <3>1, <3>2, <3>3
    <3> HIDE DEF m, ds
    <3>5. QED BY <1>1, <1>2, <2>1, <3>4, SubGoes
  <2>5. QED BY <2>3, <2>4
<1>9. QED BY <1>3, <1>5, <1>6, <1>7, <1>8

LEMMA SubRemindDoes ==
    ASSUME Placed, NEW c \in Calls, SubRemind(c)
    PROVE  Only(c) /\ CallOK(call'[c]) /\ DonationsStay /\ SubSends(c)
<1> DEFINE k == call[c]
<1>1. k \in Call /\ CallOK(k) /\ k.op = "job" /\ k.pc = "subRemind"
      BY JobIs DEF SubRemind, SubPcs
<1>2. UNCHANGED <<rowVars, donation, ledgerVars, thanks, countVars>>
      BY DEF SubRemind
<1>3. k.p = Sub /\ day \in RemindDays /\ (k.force \/ k.key # SubKey(day)) /\ k.ok \in BOOLEAN
      BY <1>1 DEF CallOK, SubOK, SubPcs, Call
<1>4. PICK got \in BOOLEAN :
         LET r == [k EXCEPT !.ok = @ \/ got, !.chans = Others(k)]
         IN  /\ IF got /\ ~k.ok THEN Reminded(Sub, SubKey(day)) ELSE UNCHANGED reminders
             /\ IF r.chans # {} THEN Set(c, r)
                ELSE IF r.ok THEN Set(c, [r EXCEPT !.pc = "subMark"]) ELSE End(c)
      BY DEF SubRemind
<1> DEFINE r == [k EXCEPT !.ok = @ \/ got, !.chans = Others(k)]
           s == [r EXCEPT !.pc = "subMark"]
<1>5. /\ IF got /\ ~k.ok THEN Reminded(Sub, SubKey(day)) ELSE UNCHANGED reminders
      /\ IF r.chans # {} THEN Set(c, r) ELSE IF r.ok THEN Set(c, s) ELSE End(c)
      BY <1>4
<1>6. Others(k) \subseteq Channel
      BY <1>1 DEF Others, Call
<1>7. /\ r \in Call /\ r.op = "job" /\ r.pc = "subRemind" /\ r.force = k.force /\ r.key = k.key
      /\ r.p = Sub /\ r.ok = (k.ok \/ got)
      BY <1>1, <1>3, <1>6 DEF Call
<1>8. CASE r.chans # {}
  <2>1. Set(c, r)
        BY <1>5, <1>8
  <2> HIDE DEF r
  <2>2. CallOK(r)
        BY <1>3, <1>7, <1>8, SubPlace DEF SubPcs
  <2>3. Only(c) /\ call'[c] = r
        BY <1>7, <2>1, SetMeans
  <2>4. SubSends(c)
        BY <1>1, <1>2, <1>5, <1>7, <2>3 DEF SubSends
  <2>5. QED BY <1>2, <2>2, <2>3, <2>4, SameDonations
<1>9. CASE r.chans = {} /\ r.ok
  <2>1. Set(c, s)
        BY <1>5, <1>9
  <2> HIDE DEF r
  <2>2. /\ s \in Call /\ s.op = "job" /\ s.pc = "subMark" /\ s.force = k.force /\ s.key = k.key
        /\ s.p = Sub
        BY <1>7 DEF Call, Places, SubPcs
  <2> HIDE DEF s
  <2>3. CallOK(s)
        BY <1>3, <2>2, SubPlace DEF SubPcs
  <2>4. Only(c) /\ call'[c] = s
        BY <2>1, <2>2, SetMeans
  <2>5. k.ok \/ got
        BY <1>7, <1>9
  <2>6. SubSends(c)
        BY <1>1, <1>2, <1>5, <2>2, <2>4, <2>5 DEF SubSends
  <2>7. QED BY <1>2, <2>3, <2>4, <2>6, SameDonations
<1>10. CASE r.chans = {} /\ ~r.ok
  <2>1. End(c) /\ ~k.ok /\ ~got
        BY <1>5, <1>7, <1>10
  <2>2. QED BY <1>1, <1>2, <1>5, <2>1, EndMeans, SameDonations DEF SubSends
<1>11. QED BY <1>8, <1>9, <1>10

-----------------------------------------------------------------------------
(* Payments and the cleanup.                                               *)

Completes(c) ==
    LET k == call[c]
        r == call'[c]
    IN  /\ k.op = "pay" /\ k.pc = "complete"
        /\ donation' = [donation EXCEPT ![k.d].status = "completed"]
        /\ r.op = "pay" /\ r.pc \in {"settle", "claim"} /\ r.d = k.d /\ r.chans = k.chans
        /\ UNCHANGED <<rowVars, ledgerVars, historyVars, countVars>>

Settles(c) ==
    LET k == call[c]
        r == call'[c]
    IN  /\ k.op = "pay" /\ k.pc = "settle"
        /\ settled' \subseteq Nat
        /\ r.op = "pay" /\ r.pc = "claim" /\ r.d = k.d /\ r.chans = k.chans
        /\ UNCHANGED <<rowVars, donation, mark, historyVars, countVars>>

\* A payment goes on with the other channels, or ends.
ClaimsNext(k, r) ==
    r = NoCall \/ (r.op = "pay" /\ r.pc = "claim" /\ r.d = k.d /\ r.chans = Others(k))

Claims(c) ==
    LET k == call[c]
        r == call'[c]
    IN  /\ k.op = "pay" /\ k.pc = "claim"
        /\ donation' = [donation EXCEPT ![k.d].sent = @ \union {First(k)}]
        /\ IF First(k) \in donation[k.d].sent THEN ClaimsNext(k, r)
           ELSE r.op = "pay" /\ r.pc = "send" /\ r.d = k.d /\ r.chans = k.chans
        /\ UNCHANGED <<rowVars, ledgerVars, historyVars, countVars>>

PaySends(c) ==
    LET k == call[c]
        r == call'[c]
    IN  /\ k.op = "pay" /\ k.pc = "send"
        /\ \/ Thanked(k.d, First(k)) /\ ClaimsNext(k, r)
           \/ /\ r.op = "pay" /\ r.pc = "release" /\ r.d = k.d /\ r.chans = k.chans
              /\ UNCHANGED thanks
        /\ UNCHANGED <<rowVars, donation, ledgerVars, tried, reminders, countVars>>

Releases(c) ==
    LET k == call[c]
        r == call'[c]
    IN  /\ k.op = "pay" /\ k.pc = "release"
        /\ donation' = [donation EXCEPT ![k.d].sent = @ \ {First(k)}]
        /\ ClaimsNext(k, r)
        /\ UNCHANGED <<rowVars, ledgerVars, historyVars, countVars>>

Cleans(c) ==
    LET k == call[c]
        r == call'[c]
    IN  /\ k.op = "cleanup"
        /\ r = NoCall \/ (r.op = "cleanup" /\ r.pc = "archive")
        /\ \/ donation' = donation
           \/ \E d \in DOMAIN donation : donation' = [donation EXCEPT ![d].archived = TRUE]
        /\ UNCHANGED <<rowVars, ledgerVars, historyVars, countVars>>

\* Where a payment is.
LEMMA PayPlace ==
    ASSUME NEW k \in Call, k.op = "pay", k.pc \in PayPcs, k.d \in DOMAIN donation, k.chans # {}
    PROVE  CallOK(k)
BY DEF CallOK, PlaceOK, RunOK, SubOK, OtherOK, RunPcs, SubPcs, PayPcs, Staff, Working, InRun

LEMMA PayIs ==
    ASSUME Placed, NEW c \in Calls, call[c].pc \in PayPcs
    PROVE  /\ call[c] \in Call /\ CallOK(call[c]) /\ call[c].op = "pay"
           /\ call[c].d \in DOMAIN donation /\ call[c].chans # {}
           /\ donation[call[c].d] \in Donation
<1>1. call[c] \in Call /\ CallOK(call[c]) /\ call[c].op \in Ops
      BY DEF Placed, TypeOK, Call
<1>2. call[c].op = "pay" /\ call[c].d \in DOMAIN donation /\ call[c].chans # {}
      BY <1>1 DEF CallOK, PlaceOK, OtherOK, NoCall, RunPcs, SubPcs, PayPcs, Working, Staff, Ops
<1>3. QED BY <1>1, <1>2 DEF Placed, TypeOK

\* What a payment becomes.
LEMMA PayStays ==
    ASSUME Placed, NEW c \in Calls, call[c].pc \in PayPcs, NEW pc \in PayPcs
    PROVE  LET r == [call[c] EXCEPT !.pc = pc]
           IN  /\ r \in Call /\ CallOK(r) /\ r.op = "pay" /\ r.pc = pc /\ r.d = call[c].d
               /\ r.chans = call[c].chans
<1> DEFINE r == [call[c] EXCEPT !.pc = pc]
<1>1. /\ call[c] \in Call /\ call[c].op = "pay" /\ call[c].d \in DOMAIN donation
      /\ call[c].chans # {}
      BY PayIs
<1>2. r \in Call /\ r.op = "pay" /\ r.pc = pc /\ r.d = call[c].d /\ r.chans = call[c].chans
      BY <1>1 DEF Call, Places
<1> HIDE DEF r
<1>3. CallOK(r)
      BY <1>1, <1>2, PayPlace
<1>4. QED BY <1>2, <1>3 DEF r

LEMMA NextClaimDoes ==
    ASSUME Placed, NEW c \in Calls, call[c].pc \in PayPcs, NextClaim(c)
    PROVE  Only(c) /\ CallOK(call'[c]) /\ ClaimsNext(call[c], call'[c])
<1> DEFINE r == [call[c] EXCEPT !.chans = Others(call[c]), !.pc = "claim"]
<1>1. CASE Others(call[c]) = {}
      BY <1>1, EndMeans DEF NextClaim, ClaimsNext
<1>2. CASE Others(call[c]) # {}
  <2>1. Set(c, r)
        BY <1>2 DEF NextClaim
  <2>2. /\ call[c] \in Call /\ call[c].op = "pay" /\ call[c].d \in DOMAIN donation
        /\ Others(call[c]) \subseteq Channel
        BY PayIs DEF Others, Call
  <2>3. /\ r \in Call /\ r.op = "pay" /\ r.pc = "claim" /\ r.d = call[c].d
        /\ r.chans = Others(call[c])
        BY <2>2 DEF Call, Places, PayPcs
  <2> HIDE DEF r
  <2>4. CallOK(r)
        BY <1>2, <2>2, <2>3, PayPlace DEF PayPcs
  <2>5. Only(c) /\ call'[c] = r
        BY <2>1, <2>3, SetMeans
  <2>6. QED BY <2>3, <2>4, <2>5 DEF ClaimsNext
<1>3. QED BY <1>1, <1>2

LEMMA CompleteDoes ==
    ASSUME Placed, NEW c \in Calls, Complete(c)
    PROVE  Only(c) /\ CallOK(call'[c]) /\ DonationsStay /\ Completes(c)
<1> DEFINE k  == call[c]
           pc == IF donation[k.d].for = Sub /\ k.d # Initial THEN "settle" ELSE "claim"
           r  == [k EXCEPT !.pc = pc]
           e  == [donation[k.d] EXCEPT !.status = "completed"]
<1>1. k.pc = "complete" /\ k.pc \in PayPcs
      BY DEF Complete, PayPcs
<1>2. /\ k \in Call /\ k.op = "pay" /\ k.d \in DOMAIN donation /\ donation[k.d] \in Donation
      BY <1>1, PayIs
<1>3. /\ donation' = [donation EXCEPT ![k.d].status = "completed"]
      /\ Excused(c, r, {Sub})
      /\ UNCHANGED <<rowVars, ledgerVars, historyVars, countVars>>
      BY DEF Complete
<1>4. DonationsStay
  <2>1. donation' = [donation EXCEPT ![k.d] = e] /\ e \in Donation /\ e.for = donation[k.d].for
        BY <1>2, <1>3 DEF Donation
  <2> HIDE DEF e
  <2>2. QED BY <1>2, <2>1, OneDonation
<1>5. pc \in {"settle", "claim"} /\ pc \in PayPcs
      BY DEF PayPcs
<1> HIDE DEF pc
<1>6. r \in Call /\ CallOK(r) /\ r.op = "pay" /\ r.pc = pc /\ r.d = k.d /\ r.chans = k.chans
      BY <1>1, <1>5, PayStays
<1> HIDE DEF r
<1>7. Only(c) /\ call'[c] = r
      BY <1>3, <1>6, ExcusedMeans
<1>8. QED BY <1>1, <1>2, <1>3, <1>4, <1>5, <1>6, <1>7 DEF Completes

\* The periods of keys are numbers.
LEMMA SubKeyIsKey ==
    ASSUME NEW d \in RemindDays
    PROVE  SubKey(d) \in Key
<1>1. d \in 1 .. Days /\ Days \in Nat
      BY ReminderAssumption DEF RemindDays
<1>2. CASE d \in DOMAIN EarlyFor
  <2>1. EarlyFor[d] \in 1 .. Days /\ Month \in [1 .. Days -> Nat \ {0}]
        BY <1>2, ReminderAssumption
  <2>2. Month[EarlyFor[d]] \in Nat
        BY <2>1
  <2>3. QED BY <1>1, <1>2, <2>2 DEF SubKey, Key
<1>3. CASE d \notin DOMAIN EarlyFor
  <2>1. Month[d] \in Nat
        BY <1>1, ReminderAssumption
  <2>2. QED BY <1>1, <1>3, <2>1 DEF SubKey, Key
<1>4. QED BY <1>2, <1>3

LEMMA SettleDoes ==
    ASSUME Placed, NEW c \in Calls, Settle(c)
    PROVE  Only(c) /\ CallOK(call'[c]) /\ DonationsStay /\ Settles(c)
<1> DEFINE r  == [call[c] EXCEPT !.pc = "claim"]
           ms == {SubKey(d).period : d \in {x \in DOMAIN EarlyFor \union BillingDays : x <= day}}
<1>1. call[c].pc = "settle" /\ call[c].pc \in PayPcs
      BY DEF Settle, PayPcs
<1>2. UNCHANGED <<rowVars, donation, mark, historyVars, countVars>>
      BY DEF Settle
<1>3. \E ts : Excused(c, r, ts)
      BY DEF Settle
<1>4. /\ r \in Call /\ CallOK(r) /\ r.op = "pay" /\ r.pc = "claim" /\ r.d = call[c].d
      /\ r.chans = call[c].chans
      BY <1>1, PayStays DEF PayPcs
<1> HIDE DEF r
<1>5. Only(c) /\ call'[c] = r
      BY <1>3, <1>4, ExcusedMeans
<1>6. settled' = IF ms \ settled = {} THEN settled ELSE settled \union {Min(ms \ settled)}
      BY DEF Settle
<1>7. ms \subseteq Nat
      BY SubKeyIsKey DEF RemindDays, Key
<1> HIDE DEF ms
<1>8. settled' \subseteq Nat
      BY <1>6, <1>7, MinIsLeast DEF Placed, TypeOK
<1>9. QED BY <1>1, <1>2, <1>4, <1>5, <1>8, PayIs, SameDonations DEF Settles

LEMMA ClaimDoes ==
    ASSUME Placed, NEW c \in Calls, Claim(c)
    PROVE  Only(c) /\ CallOK(call'[c]) /\ DonationsStay /\ Claims(c)
<1> DEFINE k  == call[c]
           r  == [k EXCEPT !.pc = "send"]
           e  == [donation[k.d] EXCEPT !.sent = @ \union {First(k)}]
<1>1. k.pc = "claim" /\ k.pc \in PayPcs
      BY DEF Claim, PayPcs
<1>2. /\ k \in Call /\ k.op = "pay" /\ k.d \in DOMAIN donation /\ donation[k.d] \in Donation
      /\ k.chans # {}
      BY <1>1, PayIs
<1>3. /\ donation' = [donation EXCEPT ![k.d].sent = @ \union {First(k)}]
      /\ IF First(k) \in donation[k.d].sent THEN NextClaim(c)
         ELSE Excused(c, r, {donation[k.d].for})
      /\ UNCHANGED <<rowVars, ledgerVars, historyVars, countVars>>
      BY DEF Claim
<1>4. DonationsStay
  <2>1. donation' = [donation EXCEPT ![k.d] = e] /\ e \in Donation /\ e.for = donation[k.d].for
        BY <1>2, <1>3, FirstIsLeft DEF Donation
  <2> HIDE DEF e
  <2>2. QED BY <1>2, <2>1, OneDonation
<1>5. CASE First(k) \in donation[k.d].sent
      BY <1>1, <1>2, <1>3, <1>4, <1>5, NextClaimDoes DEF Claims
<1>6. CASE First(k) \notin donation[k.d].sent
  <2>1. r \in Call /\ CallOK(r) /\ r.op = "pay" /\ r.pc = "send" /\ r.d = k.d /\ r.chans = k.chans
        BY <1>1, PayStays DEF PayPcs
  <2> HIDE DEF r
  <2>2. Only(c) /\ call'[c] = r
        BY <1>3, <1>6, <2>1, ExcusedMeans
  <2>3. QED BY <1>1, <1>2, <1>3, <1>4, <1>6, <2>1, <2>2 DEF Claims
<1>7. QED BY <1>5, <1>6

LEMMA SendThanksDoes ==
    ASSUME Placed, NEW c \in Calls, SendThanks(c)
    PROVE  Only(c) /\ CallOK(call'[c]) /\ DonationsStay /\ PaySends(c)
<1> DEFINE k  == call[c]
           r  == [k EXCEPT !.pc = "release"]
<1>1. k.pc = "send" /\ k.pc \in PayPcs
      BY DEF SendThanks, PayPcs
<1>2. k.op = "pay" /\ UNCHANGED <<rowVars, donation, ledgerVars, tried, reminders, countVars>>
      BY <1>1, PayIs DEF SendThanks
<1>3. CASE Thanked(k.d, First(k)) /\ NextClaim(c)
      BY <1>1, <1>2, <1>3, NextClaimDoes, SameDonations DEF PaySends
<1>4. CASE Goto(c, "release") /\ UNCHANGED thanks
  <2>1. Set(c, r)
        BY <1>4 DEF Goto, Set
  <2>2. r \in Call /\ CallOK(r) /\ r.op = "pay" /\ r.pc = "release" /\ r.d = k.d /\ r.chans = k.chans
        BY <1>1, PayStays DEF PayPcs
  <2> HIDE DEF r
  <2>3. Only(c) /\ call'[c] = r
        BY <2>1, <2>2, SetMeans
  <2>4. QED BY <1>1, <1>2, <1>4, <2>2, <2>3, SameDonations DEF PaySends
<1>5. QED BY <1>3, <1>4 DEF SendThanks

LEMMA ReleaseDoes ==
    ASSUME Placed, NEW c \in Calls, Release(c)
    PROVE  Only(c) /\ CallOK(call'[c]) /\ DonationsStay /\ Releases(c)
<1> DEFINE k  == call[c]
           e  == [donation[k.d] EXCEPT !.sent = @ \ {First(k)}]
<1>1. k.pc = "release" /\ k.pc \in PayPcs
      BY DEF Release, PayPcs
<1>2. k.op = "pay" /\ k.d \in DOMAIN donation /\ donation[k.d] \in Donation
      BY <1>1, PayIs
<1>3. /\ donation' = [donation EXCEPT ![k.d].sent = @ \ {First(k)}] /\ NextClaim(c)
      /\ UNCHANGED <<rowVars, ledgerVars, historyVars, countVars>>
      BY DEF Release
<1>4. DonationsStay
  <2>1. donation' = [donation EXCEPT ![k.d] = e] /\ e \in Donation /\ e.for = donation[k.d].for
        BY <1>2, <1>3 DEF Donation
  <2> HIDE DEF e
  <2>2. QED BY <1>2, <2>1, OneDonation
<1>5. QED BY <1>1, <1>2, <1>3, <1>4, NextClaimDoes DEF Releases

\* Where a cleanup is.
LEMMA CleanIs ==
    ASSUME Placed, NEW c \in Calls, call[c].pc \in {"today", "archive"}
    PROVE  call[c] \in Call /\ CallOK(call[c]) /\ call[c].op = "cleanup"
<1>1. call[c] \in Call /\ CallOK(call[c]) /\ call[c].op \in Ops
      BY DEF Placed, TypeOK, Call
<1>2. call[c].op = "cleanup"
      BY <1>1 DEF CallOK, PlaceOK, NoCall, RunPcs, SubPcs, PayPcs, Working, Staff, Ops
<1>3. QED BY <1>1, <1>2

LEMMA CleanPlace ==
    ASSUME NEW k \in Call, k.op = "cleanup", k.pc = "archive", k.ids # {},
           k.ids \subseteq DOMAIN donation
    PROVE  CallOK(k)
BY DEF CallOK, PlaceOK, RunOK, SubOK, OtherOK, RunPcs, SubPcs, PayPcs, Staff, Working, InRun

LEMMA TodayDoes ==
    ASSUME Placed, NEW c \in Calls, Today(c)
    PROVE  Only(c) /\ CallOK(call'[c]) /\ DonationsStay /\ Cleans(c)
<1> DEFINE r  == [call[c] EXCEPT !.ids = Superfluous, !.pc = "archive"]
<1>1. call[c] \in Call /\ call[c].op = "cleanup"
      BY CleanIs DEF Today
<1>2. UNCHANGED <<rowVars, donation, ledgerVars, historyVars, countVars>>
      BY DEF Today
<1>3. CASE Superfluous = {}
      BY <1>1, <1>2, <1>3, EndMeans, SameDonations DEF Today, Cleans
<1>4. CASE Superfluous # {}
  <2>1. Set(c, r)
        BY <1>4 DEF Today
  <2>2. Superfluous \subseteq Nat /\ Superfluous \subseteq DOMAIN donation
        BY DEF Superfluous, Placed, TypeOK
  <2>3. r \in Call /\ r.op = "cleanup" /\ r.pc = "archive" /\ r.ids # {} /\ r.ids = Superfluous
        BY <1>1, <1>4, <2>2 DEF Call, Places
  <2> HIDE DEF r
  <2>4. Only(c) /\ call'[c] = r
        BY <2>1, <2>3, SetMeans
  <2>5. QED BY <1>1, <1>2, <2>2, <2>3, <2>4, CleanPlace, SameDonations DEF Cleans
<1>5. QED BY <1>3, <1>4

LEMMA ArchiveDoes ==
    ASSUME Placed, NEW c \in Calls, Archive(c)
    PROVE  Only(c) /\ CallOK(call'[c]) /\ DonationsStay /\ Cleans(c)
<1> DEFINE k == call[c]
           d == Min(k.ids)
           s == [k EXCEPT !.ids = @ \ {d}]
           r == IF k.ids = {d} THEN NoCall ELSE s
           e == [donation[d] EXCEPT !.archived = TRUE]
<1>1. k \in Call /\ k.op = "cleanup" /\ CallOK(k) /\ k.pc = "archive"
      BY CleanIs DEF Archive
<1>2. k.ids # {} /\ k.ids \subseteq DOMAIN donation /\ k.ids \subseteq Nat
      BY <1>1 DEF CallOK, OtherOK, Call
<1>3. d \in k.ids
      BY <1>2, MinIsLeast
<1>4. /\ donation' = [donation EXCEPT ![d].archived = TRUE]
      /\ \E ts : Excused(c, r, ts)
      /\ UNCHANGED <<rowVars, ledgerVars, historyVars, countVars>>
      BY DEF Archive
<1> HIDE DEF d
<1>5. DonationsStay
  <2>1. donation[d] \in Donation
        BY <1>2, <1>3 DEF Placed, TypeOK
  <2>2. donation' = [donation EXCEPT ![d] = e] /\ e \in Donation /\ e.for = donation[d].for
        BY <1>4, <2>1 DEF Donation
  <2> HIDE DEF e
  <2>3. QED BY <1>2, <1>3, <2>2, OneDonation
<1>6. r \in Call /\ CallOK(r) /\ (r = NoCall \/ (r.op = "cleanup" /\ r.pc = "archive"))
  <2>1. CASE k.ids = {d}
        BY <2>1, NoCallOK
  <2>2. CASE k.ids # {d}
    <3>1. s \in Call /\ s.op = "cleanup" /\ s.pc = "archive" /\ s.ids = k.ids \ {d}
          BY <1>1 DEF Call
    <3> HIDE DEF s
    <3>2. s.ids # {}
          BY <1>2, <1>3, <2>2, <3>1
    <3>3. CallOK(s)
          BY <1>2, <3>1, <3>2, CleanPlace
    <3>4. QED BY <2>2, <3>1, <3>3
  <2>3. QED BY <2>1, <2>2
<1> HIDE DEF r
<1>7. Only(c) /\ call'[c] = r
      BY <1>4, <1>6, ExcusedMeans
<1>8. Cleans(c)
      BY <1>1, <1>2, <1>3, <1>4, <1>6, <1>7 DEF Cleans
<1>9. QED BY <1>5, <1>6, <1>7, <1>8

-----------------------------------------------------------------------------
(* The staff, and how handlers begin and die.                              *)

Creates(c) ==
    LET k == call[c]
        r == call'[c]
    IN  /\ k.op \in Staff /\ k.pc = "create" /\ k.p \in Pledges
        /\ \/ r = NoCall /\ UNCHANGED pledge
           \/ /\ r.op = k.op /\ r.pc = "recurring" /\ r.ok
              /\ pledge' = [pledge EXCEPT ![k.p].status = "active"]
        /\ UNCHANGED <<recurring, donation, ledgerVars, historyVars, countVars>>

Loads(c) ==
    LET k == call[c]
        r == call'[c]
    IN  /\ k.op \in Staff /\ k.pc = "load"
        /\ \/ r = NoCall
           \/ r.op = k.op /\ r.pc = "save" /\ r.p = k.p /\ r.rows[k.p] = pledge[k.p]
        /\ UNCHANGED <<rowVars, donation, ledgerVars, historyVars, countVars>>

Saves(c) ==
    LET k == call[c]
        r == call'[c]
    IN  /\ k.op \in Staff /\ k.pc = "save" /\ k.p \in Pledges
        /\ \E e \in Pledge : /\ e.reminded = k.rows[k.p].reminded
                             /\ pledge' = [pledge EXCEPT ![k.p] = e]
        /\ r.op = k.op /\ r.pc = "count"
        /\ UNCHANGED <<recurring, donation, ledgerVars, historyVars, countVars>>

Counts(c) ==
    LET k == call[c]
        r == call'[c]
    IN  /\ k.op \in Staff /\ k.pc = "count"
        /\ r.op = k.op /\ r.pc = "recurring" /\ (r.ok <=> AnyActive)
        /\ UNCHANGED <<rowVars, donation, ledgerVars, historyVars, countVars>>

FlagsDonor(c) ==
    /\ call[c].op \in Staff /\ call[c].pc = "recurring"
    /\ recurring' = call[c].ok
    /\ call'[c] = NoCall
    /\ UNCHANGED <<pledge, donation, ledgerVars, historyVars, countVars>>

LEMMA StaffIs ==
    ASSUME Placed, NEW c \in Calls, call[c].pc \in {"create", "load", "save", "count", "recurring"}
    PROVE  /\ call[c] \in Call /\ CallOK(call[c]) /\ call[c].op \in Staff /\ call[c].p \in Pledges
           /\ call[c].op = "create" => call[c].pc \in {"create", "recurring"}
           /\ call[c].pc = "create" => call[c].op = "create"
<1>1. call[c] \in Call /\ CallOK(call[c]) /\ call[c].op \in Ops
      BY DEF Placed, TypeOK, Call
<1>2. call[c].op \in Staff
      BY <1>1 DEF CallOK, PlaceOK, NoCall, RunPcs, SubPcs, PayPcs, Working, Staff, Ops
<1>3. QED BY <1>1, <1>2 DEF CallOK, PlaceOK, OtherOK, Staff

\* Where a change of a pledge is.
LEMMA StaffPlace ==
    ASSUME NEW k \in Call, k.op \in Staff, k.p \in Pledges,
           IF k.op = "create" THEN k.pc \in {"create", "recurring"}
                              ELSE k.pc \in {"load", "save", "count", "recurring"},
           k.pc = "save" => DOMAIN k.rows = {k.p}
    PROVE  CallOK(k)
BY DEF CallOK, PlaceOK, RunOK, SubOK, OtherOK, RunPcs, SubPcs, PayPcs, Staff, Working, InRun

LEMMA CreateDoes ==
    ASSUME Placed, NEW c \in Calls, CreatePledge(c)
    PROVE  Only(c) /\ CallOK(call'[c]) /\ DonationsStay /\ Creates(c)
<1> DEFINE k == call[c]
           r == [k EXCEPT !.ok = TRUE, !.pc = "recurring"]
<1>1. k \in Call /\ k.pc = "create" /\ k.op \in Staff /\ k.op = "create" /\ k.p \in Pledges
      BY StaffIs DEF CreatePledge
<1>2. UNCHANGED <<recurring, donation, ledgerVars, historyVars, countVars>>
      BY DEF CreatePledge
<1>3. CASE End(c) /\ UNCHANGED pledge
      BY <1>1, <1>2, <1>3, EndMeans, SameDonations DEF Creates
<1>4. CASE pledge' = [pledge EXCEPT ![k.p].status = "active"] /\ Set(c, r)
  <2>1. r \in Call /\ r.op = k.op /\ r.pc = "recurring" /\ r.ok /\ r.p = k.p
        BY <1>1 DEF Call, Places
  <2>2. Only(c) /\ call'[c] = r
        BY <1>4, <2>1, SetMeans
  <2> HIDE DEF r
  <2>3. CallOK(r)
        BY <1>1, <2>1, StaffPlace
  <2>4. QED BY <1>1, <1>2, <1>4, <2>1, <2>2, <2>3, SameDonations DEF Creates
<1>5. QED BY <1>3, <1>4 DEF CreatePledge

LEMMA LoadDoes ==
    ASSUME Placed, NEW c \in Calls, Load(c)
    PROVE  Only(c) /\ CallOK(call'[c]) /\ DonationsStay /\ Loads(c)
<1> DEFINE k    == call[c]
           rows == [q \in {k.p} |-> pledge[k.p]]
           r    == [k EXCEPT !.rows = rows, !.pc = "save"]
<1>1. k \in Call /\ k.pc = "load" /\ k.op \in Staff /\ k.op # "create" /\ k.p \in Pledges
      BY StaffIs DEF Load
<1>2. UNCHANGED <<rowVars, donation, ledgerVars, historyVars, countVars>>
      BY DEF Load
<1>3. CASE End(c)
      BY <1>1, <1>2, <1>3, EndMeans, SameDonations DEF Loads
<1>4. CASE Set(c, r)
  <2>1. DOMAIN rows = {k.p} /\ rows[k.p] = pledge[k.p] /\ pledge[k.p] \in Pledge
        BY <1>1 DEF Placed, TypeOK
  <2>2. rows \in [{k.p} -> Pledge] /\ {k.p} \in SUBSET Pledges
        BY <1>1, <2>1
  <2> HIDE DEF rows
  <2>3. rows \in UNION {[ps -> Pledge] : ps \in SUBSET Pledges}
        BY <2>2
  <2>4. r \in Call /\ r.op = k.op /\ r.pc = "save" /\ r.p = k.p /\ r.rows = rows
        BY <1>1, <2>3 DEF Call, Places
  <2>5. Only(c) /\ call'[c] = r
        BY <1>4, <2>4, SetMeans
  <2> HIDE DEF r
  <2>6. CallOK(r)
        BY <1>1, <2>1, <2>4, StaffPlace
  <2>7. QED BY <1>1, <1>2, <2>1, <2>4, <2>5, <2>6, SameDonations DEF Loads
<1>5. QED BY <1>3, <1>4 DEF Load

LEMMA SaveDoes ==
    ASSUME Placed, NEW c \in Calls, Save(c)
    PROVE  Only(c) /\ CallOK(call'[c]) /\ DonationsStay /\ Saves(c)
<1> DEFINE k == call[c]
           w == k.rows[k.p]
           e == IF k.want = "covered" THEN [w EXCEPT !.covered = TRUE] ELSE [w EXCEPT !.status = k.want]
           r == [k EXCEPT !.pc = "count"]
<1>1. k \in Call /\ k.pc = "save" /\ k.op \in Staff /\ k.op # "create" /\ k.p \in Pledges /\ CallOK(k)
      BY StaffIs DEF Save
<1>2. /\ pledge' = [pledge EXCEPT ![k.p] = e] /\ Excused(c, r, {k.p})
      /\ UNCHANGED <<recurring, donation, ledgerVars, historyVars, countVars>>
      BY DEF Save
<1>3. w \in Pledge
      BY <1>1, RowsAreRows DEF CallOK, OtherOK
<1>4. k.want \in {"active", "paused", "covered", "none", "removed"}
      BY <1>1, ReminderAssumption DEF Call
<1> HIDE DEF w
<1>5. e \in Pledge /\ e.reminded = w.reminded
  <2>1. CASE k.want = "covered"
        BY <1>3, <2>1 DEF Pledge
  <2>2. CASE k.want # "covered"
    <3>1. k.want \in {"none", "active", "paused", "removed"}
          BY <1>4, <2>2
    <3>2. QED BY <1>3, <2>2, <3>1 DEF Pledge
  <2>3. QED BY <2>1, <2>2
<1> HIDE DEF e
<1>6. r \in Call /\ r.op = k.op /\ r.pc = "count" /\ r.p = k.p
      BY <1>1 DEF Call, Places
<1> HIDE DEF r
<1>7. CallOK(r)
      BY <1>1, <1>6, StaffPlace
<1>8. Only(c) /\ call'[c] = r
      BY <1>2, <1>6, ExcusedMeans
<1>9. Saves(c)
      BY <1>1, <1>2, <1>5, <1>6, <1>8 DEF Saves, w
<1>10. QED BY <1>2, <1>7, <1>8, <1>9, SameDonations

LEMMA CountDoes ==
    ASSUME Placed, NEW c \in Calls, Count(c)
    PROVE  Only(c) /\ CallOK(call'[c]) /\ DonationsStay /\ Counts(c)
<1> DEFINE k == call[c]
           r == [k EXCEPT !.ok = \E p \in Pledges : pledge[p].status = "active", !.pc = "recurring"]
<1>1. k \in Call /\ k.pc = "count" /\ k.op \in Staff /\ k.op # "create" /\ k.p \in Pledges
      BY StaffIs DEF Count
<1>2. Set(c, r) /\ UNCHANGED <<rowVars, donation, ledgerVars, historyVars, countVars>>
      BY DEF Count
<1> DEFINE any == \E p \in Pledges : pledge[p].status = "active"
<1>3. any \in BOOLEAN /\ (any <=> AnyActive)
      BY DEF AnyActive
<1>4. r = [k EXCEPT !.ok = any, !.pc = "recurring"]
      OBVIOUS
<1> HIDE DEF any, r
<1>5. r \in Call /\ r.op = k.op /\ r.pc = "recurring" /\ r.p = k.p /\ r.ok = any
      BY <1>1, <1>3, <1>4 DEF Call, Places
<1>6. Only(c) /\ call'[c] = r
      BY <1>2, <1>5, SetMeans
<1>7. CallOK(r)
      BY <1>1, <1>5, StaffPlace
<1>8. QED BY <1>1, <1>2, <1>3, <1>5, <1>6, <1>7, SameDonations DEF Counts

LEMMA FlagDonorDoes ==
    ASSUME Placed, NEW c \in Calls, FlagDonor(c)
    PROVE  Only(c) /\ CallOK(call'[c]) /\ DonationsStay /\ FlagsDonor(c)
<1>1. call[c].pc = "recurring" /\ call[c].op \in Staff
      BY StaffIs DEF FlagDonor
<1>2. /\ recurring' = call[c].ok /\ End(c)
      /\ UNCHANGED <<pledge, donation, ledgerVars, historyVars, countVars>>
      BY DEF FlagDonor
<1>3. QED BY <1>1, <1>2, EndMeans, SameDonations DEF FlagsDonor

\* A handler that begins has the place of one that is over.
Starts(c) ==
    LET r == call'[c]
    IN  /\ call[c] = NoCall
        /\ \/ r.op = "job" /\ r.pc = "chunk" /\ r.marks = {}
           \/ r.op = "pay" /\ r.pc = "complete"
           \/ r.op = "cleanup" /\ r.pc = "today"
           \/ r.op \in Staff /\ r.pc \in {"create", "load"}
        /\ left' = left - 1 /\ left' \in Nat
        /\ overlaps' = IF Quiet THEN overlaps ELSE overlaps + 1
        /\ forced' = IF r.force THEN forced + 1 ELSE forced
        /\ crossed' = (crossed \/ (r.op \in Staff /\ \E x \in Calls : Changing(x)))
        /\ overlaps' + deaths + forced' <= MaxTroubles
        /\ UNCHANGED <<rowVars, donation, ledgerVars, historyVars, freq, day, deaths>>

Dies(c) ==
    /\ call[c].op # "none" /\ call'[c] = NoCall
    /\ deaths' = deaths + 1 /\ overlaps + deaths' + forced <= MaxTroubles
    /\ crossed' = (crossed \/ Changing(c))
    /\ UNCHANGED <<rowVars, donation, ledgerVars, historyVars, freq, day, left, overlaps, forced>>

LEMMA BeginMeans ==
    ASSUME Placed, NEW c \in Calls, NEW k \in Call, CallOK(k), Begin(c, k),
           \/ k.op = "job" /\ k.pc = "chunk" /\ k.marks = {}
           \/ k.op = "pay" /\ k.pc = "complete"
           \/ k.op = "cleanup" /\ k.pc = "today"
           \/ k.op \in Staff /\ k.pc \in {"create", "load"}
    PROVE  Only(c) /\ CallOK(call'[c]) /\ DonationsStay /\ Starts(c)
<1>1. Only(c) /\ call'[c] = k
      BY SetMeans DEF Begin
<1>2. call[c] = NoCall
      BY DEF Begin, Running, Placed, CallOK, PlaceOK
<1>3. UNCHANGED <<rowVars, donation, ledgerVars, historyVars, freq, day, deaths>>
      BY DEF Begin
<1>4. left' = left - 1 /\ left' \in Nat
      BY ReminderAssumption DEF Begin, Placed, TypeOK
<1>5. Starts(c)
      BY <1>1, <1>2, <1>3, <1>4 DEF Starts, Begin, Changing
<1>6. QED BY <1>1, <1>3, <1>5, SameDonations

LEMMA JobDoes ==
    ASSUME Placed, NEW c \in Calls, Job(c)
    PROVE  Only(c) /\ CallOK(call'[c]) /\ DonationsStay /\ Starts(c)
<1>1. PICK force \in BOOLEAN, n \in ChunkSizes :
         Begin(c, [NoCall EXCEPT !.op = "job", !.pc = "chunk", !.force = force, !.size = n,
                                 !.todo = DueOn(day), !.due = Owed])
      BY DEF Job
<1> DEFINE due  == Owed
           todo == DueOn(day)
           k    == [NoCall EXCEPT !.op = "job", !.pc = "chunk", !.force = force, !.size = n,
                                  !.todo = todo, !.due = due]
<1>2. Begin(c, k)
      BY <1>1
<1>3. due \subseteq Targets
      BY DEF Owed, Targets
<1>4. todo \in Todos /\ todo \in Seq(Freqs) /\ Left(todo) \subseteq Left(DueOn(day))
      BY DueTodo, TodoSeq
<1>5. n \in Nat /\ n # 0
      BY ReminderAssumption
<1>6. NoCall.marks = {}
      BY DEF NoCall
<1> HIDE DEF due, todo
<1>7. /\ k \in Call /\ k.op = "job" /\ k.pc = "chunk" /\ k.marks = {} /\ k.todo = todo /\ k.size = n
      BY <1>3, <1>4, <1>5, <1>6, NoCallOK DEF Call, Ops, Places, RunPcs
<1> HIDE DEF k
<1>8. CallOK(k)
      BY <1>4, <1>5, <1>7 DEF CallOK, PlaceOK, RunOK, SubOK, OtherOK, RunPcs, SubPcs, PayPcs, Staff, Working,
                              InRun
<1>9. QED BY <1>2, <1>7, <1>8, BeginMeans

LEMMA PayDoes ==
    ASSUME Placed, NEW c \in Calls, Pay(c)
    PROVE  Only(c) /\ CallOK(call'[c]) /\ DonationsStay /\ Starts(c)
<1>1. PICK d \in DOMAIN donation :
         Begin(c, [NoCall EXCEPT !.op = "pay", !.pc = "complete", !.d = d, !.chans = Channel])
      BY DEF Pay
<1> DEFINE k == [NoCall EXCEPT !.op = "pay", !.pc = "complete", !.d = d, !.chans = Channel]
<1>2. Begin(c, k)
      BY <1>1
<1>3. d \in Nat
      BY DEF Placed, TypeOK
<1>4. k \in Call /\ k.op = "pay" /\ k.pc = "complete" /\ k.d = d /\ k.chans = Channel
      BY <1>3, NoCallOK, SomeChannel DEF Call, Ops, Places, PayPcs
<1> HIDE DEF k
<1>5. CallOK(k)
      BY <1>4, SomeChannel, PayPlace DEF PayPcs
<1>6. QED BY <1>2, <1>4, <1>5, BeginMeans

LEMMA CleanupDoes ==
    ASSUME Placed, NEW c \in Calls, Cleanup(c)
    PROVE  Only(c) /\ CallOK(call'[c]) /\ DonationsStay /\ Starts(c)
<1> DEFINE k == [NoCall EXCEPT !.op = "cleanup", !.pc = "today"]
<1>1. Begin(c, k)
      BY DEF Cleanup
<1>2. k \in Call /\ k.op = "cleanup" /\ k.pc = "today"
      BY NoCallOK DEF Call, Ops, Places
<1> HIDE DEF k
<1>3. CallOK(k)
      BY <1>2 DEF CallOK, PlaceOK, RunOK, SubOK, OtherOK, RunPcs, SubPcs, PayPcs, Staff, Working, InRun
<1>4. QED BY <1>1, <1>2, <1>3, BeginMeans

LEMMA ChangeDoes ==
    ASSUME Placed, NEW c \in Calls, Change(c)
    PROVE  Only(c) /\ CallOK(call'[c]) /\ DonationsStay /\ Starts(c)
<1>1. PICK p \in Pledges :
         \/ \E w \in Changes :
               Begin(c, [NoCall EXCEPT !.op = "update", !.pc = "load", !.p = p, !.want = w])
         \/ Begin(c, [NoCall EXCEPT !.op = "remove", !.pc = "load", !.p = p, !.want = "removed"])
         \/ Begin(c, [NoCall EXCEPT !.op = "create", !.pc = "create", !.p = p])
      BY Zenon DEF Change
<1>2. p \in Targets
      BY DEF Targets
<1>3. ASSUME NEW w \in Changes,
             Begin(c, [NoCall EXCEPT !.op = "update", !.pc = "load", !.p = p, !.want = w])
      PROVE  Only(c) /\ CallOK(call'[c]) /\ DonationsStay /\ Starts(c)
  <2> DEFINE k == [NoCall EXCEPT !.op = "update", !.pc = "load", !.p = p, !.want = w]
  <2>1. k \in Call /\ k.op = "update" /\ k.pc = "load" /\ k.p = p /\ Begin(c, k)
        BY <1>2, <1>3, NoCallOK DEF Call, Ops, Staff, Places
  <2> HIDE DEF k
  <2>2. CallOK(k)
        BY <2>1, StaffPlace DEF Staff
  <2>3. QED BY <2>1, <2>2, BeginMeans DEF Staff
<1>4. CASE Begin(c, [NoCall EXCEPT !.op = "remove", !.pc = "load", !.p = p, !.want = "removed"])
  <2> DEFINE k == [NoCall EXCEPT !.op = "remove", !.pc = "load", !.p = p, !.want = "removed"]
  <2>1. k \in Call /\ k.op = "remove" /\ k.pc = "load" /\ k.p = p /\ Begin(c, k)
        BY <1>2, <1>4, NoCallOK DEF Call, Ops, Staff, Places
  <2> HIDE DEF k
  <2>2. CallOK(k)
        BY <2>1, StaffPlace DEF Staff
  <2>3. QED BY <2>1, <2>2, BeginMeans DEF Staff
<1>5. CASE Begin(c, [NoCall EXCEPT !.op = "create", !.pc = "create", !.p = p])
  <2> DEFINE k == [NoCall EXCEPT !.op = "create", !.pc = "create", !.p = p]
  <2>1. k \in Call /\ k.op = "create" /\ k.pc = "create" /\ k.p = p /\ Begin(c, k)
        BY <1>2, <1>5, NoCallOK DEF Call, Ops, Staff, Places
  <2> HIDE DEF k
  <2>2. CallOK(k)
        BY <2>1, StaffPlace DEF Staff
  <2>3. QED BY <2>1, <2>2, BeginMeans DEF Staff
<1>6. QED BY <1>1, <1>3, <1>4, <1>5

LEMMA CrashDoes ==
    ASSUME Placed, NEW c \in Calls, Crash(c)
    PROVE  Only(c) /\ CallOK(call'[c]) /\ DonationsStay /\ Dies(c)
<1>1. UNCHANGED <<rowVars, donation, ledgerVars, historyVars, freq, day, left, overlaps, forced>>
      BY DEF Crash
<1>2. Only(c) /\ call'[c] = NoCall /\ CallOK(call'[c])
      BY EndMeans DEF Crash
<1>3. deaths' = deaths + 1 /\ overlaps + deaths' + forced <= MaxTroubles
  <2>1. overlaps \in Nat /\ deaths \in Nat /\ forced \in Nat /\ MaxTroubles \in Nat
        BY ReminderAssumption DEF Placed, TypeOK
  <2>2. QED BY <2>1 DEF Crash
<1>4. QED BY <1>1, <1>2, <1>3, SameDonations DEF Dies, Crash, Running, Changing

-----------------------------------------------------------------------------
(* Every step of a handler is one of these.                                *)

RunDoes(c) ==
    \/ ReadsChunk(c) \/ Looks(c) \/ FindsPaid(c) \/ RunThanks(c) \/ RunFlags(c) \/ RunTemplates(c)
    \/ FindsOpen(c) \/ RunInserts(c) \/ RunReminds(c) \/ RunMarks(c)

SubDoes(c) == SubReads(c) \/ SubPasses(c) \/ SubInserts(c) \/ SubSends(c) \/ SubNotes(c)

OtherDoes(c) ==
    \/ Completes(c) \/ Settles(c) \/ Claims(c) \/ PaySends(c) \/ Releases(c) \/ Cleans(c)
    \/ Creates(c) \/ Loads(c) \/ Saves(c) \/ Counts(c) \/ FlagsDonor(c)

Does(c) == RunDoes(c) \/ SubDoes(c) \/ OtherDoes(c) \/ Starts(c) \/ Dies(c)

LEMMA StepDoes ==
    ASSUME Placed, NEW c \in Calls,
           \/ Job(c) \/ Pay(c) \/ Cleanup(c) \/ Change(c) \/ RunStep(c) \/ OtherStep(c) \/ Crash(c)
    PROVE  Only(c) /\ CallOK(call'[c]) /\ DonationsStay /\ Does(c)
<1>1. CASE Job(c) \/ Pay(c) \/ Cleanup(c) \/ Change(c) \/ Crash(c)
      BY <1>1, JobDoes, PayDoes, CleanupDoes, ChangeDoes, CrashDoes DEF Does
<1>2. CASE RunStep(c)
  <2>1. CASE Chunk(c) \/ Lookup(c) \/ FindPaid(c) \/ Thank(c) \/ Flag(c)
        BY <2>1, ChunkDoes, LookupDoes, FindPaidDoes, ThankDoes, FlagDoes DEF Does, RunDoes
  <2>2. CASE Template(c) \/ FindOpen(c) \/ InsertLink(c) \/ Remind(c) \/ Mark(c)
        BY <2>2, TemplateDoes, FindOpenDoes, InsertDoes, RemindDoes, MarkDoes DEF Does, RunDoes, SubDoes
  <2>3. CASE SubRead(c) \/ SubInitial(c) \/ SubSettled(c) \/ SubDonated(c) \/ SubLink(c)
             \/ SubRemind(c) \/ SubMark(c)
        BY <2>3, SubReadDoes, SubPassDoes, SubRemindDoes, SubMarkDoes DEF Does, SubDoes
  <2>4. QED BY <1>2, <2>1, <2>2, <2>3 DEF RunStep
<1>3. CASE OtherStep(c)
  <2>1. CASE Complete(c) \/ Settle(c) \/ Claim(c) \/ SendThanks(c) \/ Release(c)
        BY <2>1, CompleteDoes, SettleDoes, ClaimDoes, SendThanksDoes, ReleaseDoes DEF Does, OtherDoes
  <2>2. CASE Today(c) \/ Archive(c)
        BY <2>2, TodayDoes, ArchiveDoes DEF Does, OtherDoes
  <2>3. CASE CreatePledge(c) \/ Load(c) \/ Save(c) \/ Count(c) \/ FlagDonor(c)
        BY <2>3, CreateDoes, LoadDoes, SaveDoes, CountDoes, FlagDonorDoes DEF Does, OtherDoes
  <2>4. QED BY <1>3, <2>1, <2>2, <2>3 DEF OtherStep
<1>4. QED BY <1>1, <1>2, <1>3

-----------------------------------------------------------------------------
(* The types.                                                              *)

LEMMA PeriodIsPeriod ==
    ASSUME NEW f \in Freqs, NEW d \in 1 .. Days
    PROVE  PeriodOf(f, d) \in Nat /\ KeyOf(f, d) \in Key
<1>1. Days \in Nat /\ Week[d] \in Nat /\ Month[d] \in Nat /\ d \in Nat
      BY ReminderAssumption
<1>2. PeriodOf(f, d) \in Nat
      BY <1>1 DEF PeriodOf, Freqs
<1>3. d \in 0 .. Days /\ 0 \in 0 .. Days
      BY <1>1
<1>4. QED BY <1>2, <1>3 DEF KeyOf, Key

LEMMA SumBounds ==
    ASSUME NEW a \in Nat, NEW b \in Nat, NEW e \in Nat, NEW m \in Nat, a + b + e <= m
    PROVE  a \in 0 .. m /\ b \in 0 .. m /\ e \in 0 .. m
OBVIOUS

LEMMA TypeStays ==
    ASSUME Placed, NEW c \in Calls, Only(c), DonationsStay, Does(c)
    PROVE  TypeOK'
<1>1. call' \in [Calls -> Call] /\ donation' \in Seq(Donation)
      BY DEF Only, DonationsStay
<1>2. /\ freq \in Plans /\ pledge \in [Pledges -> Pledge] /\ recurring \in BOOLEAN /\ mark \in Key
      /\ settled \subseteq Nat /\ day \in 1 .. Days /\ left \in 0 .. MaxRequests
      /\ {overlaps, deaths, forced} \subseteq 0 .. MaxTroubles /\ crossed \in BOOLEAN
      /\ call[c] \in Call /\ CallOK(call[c])
      BY DEF Placed, TypeOK
<1>3. CASE UNCHANGED <<rowVars, ledgerVars, countVars>>
      BY <1>1, <1>2, <1>3 DEF TypeOK, rowVars, ledgerVars, countVars
<1>4. CASE pledge' \in [Pledges -> Pledge] /\ UNCHANGED <<recurring, ledgerVars, countVars>>
      BY <1>1, <1>2, <1>4 DEF TypeOK, ledgerVars, countVars
<1>5. CASE RunMarks(c)
  <2> DEFINE k == call[c]
  <2>1. k.todo \in Todos \ {<<>>} /\ k.marks \union k.thanked \subseteq Pledges
    <3>1. RunOK(k) /\ InRun(k) /\ k.pc # "chunk"
          BY <1>2, <1>5 DEF RunMarks, CallOK, InRun, RunPcs
    <3>2. QED BY <1>2, <3>1, RowsAreRows DEF RunOK, ChunkOK
  <2>2. Head(k.todo) \in Freqs
        BY <2>1, TodoNext
  <2>3. KeyOf(Head(k.todo), day) \in Key /\ PeriodOf(Head(k.todo), day) \in Nat
        BY <1>2, <2>2, PeriodIsPeriod
  <2>4. UNCHANGED <<recurring, ledgerVars, countVars>>
        BY <1>5 DEF RunMarks
  <2>5. ASSUME NEW p \in k.marks, pledge' = [pledge EXCEPT ![p].reminded = KeyOf(Head(k.todo), day)]
        PROVE  pledge' \in [Pledges -> Pledge]
    <3> DEFINE e == [pledge[p] EXCEPT !.reminded = KeyOf(Head(k.todo), day)]
    <3>1. e \in Pledge /\ pledge' = [pledge EXCEPT ![p] = e]
          BY <1>2, <2>1, <2>3, <2>5 DEF Pledge
    <3> HIDE DEF e
    <3>2. QED BY <1>2, <3>1
  <2>6. ASSUME NEW p \in k.thanked, pledge' = [pledge EXCEPT ![p].thanked = PeriodOf(Head(k.todo), day)]
        PROVE  pledge' \in [Pledges -> Pledge]
    <3> DEFINE e == [pledge[p] EXCEPT !.thanked = PeriodOf(Head(k.todo), day)]
    <3>1. e \in Pledge /\ pledge' = [pledge EXCEPT ![p] = e]
          BY <1>2, <2>1, <2>3, <2>6 DEF Pledge
    <3> HIDE DEF e
    <3>2. QED BY <1>2, <3>1
  <2>7. pledge' \in [Pledges -> Pledge]
        BY <1>2, <1>5, <2>5, <2>6 DEF RunMarks
  <2>8. QED BY <1>4, <2>4, <2>7
<1>6. CASE RunDoes(c) /\ ~RunMarks(c)
      BY <1>3, <1>6 DEF RunDoes, ReadsChunk, Looks, FindsPaid, RunThanks, RunFlags, RunTemplates,
                        FindsOpen, RunInserts, RunReminds
<1>7. CASE SubNotes(c)
  <2>1. day \in RemindDays
        BY <1>2, <1>7 DEF SubNotes, CallOK, SubOK, SubPcs
  <2>2. mark' \in Key
        BY <1>7, <2>1, SubKeyIsKey DEF SubNotes
  <2>3. UNCHANGED <<rowVars, settled, countVars>>
        BY <1>7 DEF SubNotes
  <2>4. QED BY <1>1, <1>2, <2>2, <2>3 DEF TypeOK, rowVars, countVars
<1>8. CASE SubDoes(c) /\ ~SubNotes(c)
      BY <1>3, <1>8 DEF SubDoes, SubReads, SubPasses, SubInserts, SubSends
<1>9. CASE Settles(c)
  <2>1. settled' \subseteq Nat /\ UNCHANGED <<rowVars, mark, countVars>>
        BY <1>9 DEF Settles
  <2>2. QED BY <1>1, <1>2, <2>1 DEF TypeOK, rowVars, countVars
<1>10. CASE Completes(c) \/ Claims(c) \/ PaySends(c) \/ Releases(c) \/ Cleans(c) \/ Loads(c) \/ Counts(c)
      BY <1>3, <1>10 DEF Completes, Claims, PaySends, Releases, Cleans, Loads, Counts
<1>11. CASE Creates(c)
  <2> DEFINE k == call[c]
             e == [pledge[k.p] EXCEPT !.status = "active"]
  <2>1. e \in Pledge
        BY <1>2, <1>11 DEF Creates, Pledge
  <2>2. pledge' = [pledge EXCEPT ![k.p] = e] \/ pledge' = pledge
        BY <1>11 DEF Creates
  <2> HIDE DEF e
  <2>3. pledge' \in [Pledges -> Pledge]
        BY <1>2, <2>1, <2>2
  <2>4. UNCHANGED <<recurring, ledgerVars, countVars>>
        BY <1>11 DEF Creates
  <2>5. QED BY <1>4, <2>3, <2>4
<1>12. CASE Saves(c)
  <2>1. pledge' \in [Pledges -> Pledge] /\ UNCHANGED <<recurring, ledgerVars, countVars>>
        BY <1>2, <1>12 DEF Saves
  <2>2. QED BY <1>4, <2>1
<1>13. CASE FlagsDonor(c)
  <2>1. recurring' \in BOOLEAN /\ UNCHANGED <<pledge, ledgerVars, countVars>>
        BY <1>2, <1>13 DEF FlagsDonor, Call
  <2>2. QED BY <1>1, <1>2, <2>1 DEF TypeOK, ledgerVars, countVars
<1>14. CASE Starts(c)
  <2>1. /\ UNCHANGED <<rowVars, ledgerVars, freq, day, deaths>>
        /\ left' = left - 1 /\ left' \in Nat
        /\ overlaps' \in {overlaps, overlaps + 1} /\ forced' \in {forced, forced + 1}
        /\ crossed' \in BOOLEAN
        /\ overlaps' + deaths + forced' <= MaxTroubles
        BY <1>2, <1>14 DEF Starts
  <2>2. left' \in 0 .. MaxRequests
        BY <1>2, <2>1, ReminderAssumption
  <2>3. /\ overlaps \in Nat /\ deaths \in Nat /\ forced \in Nat /\ MaxTroubles \in Nat
        /\ deaths \in 0 .. MaxTroubles
        BY <1>2, ReminderAssumption
  <2>6. overlaps' \in Nat /\ forced' \in Nat /\ deaths' \in 0 .. MaxTroubles
        BY <2>1, <2>3
  <2>7. overlaps' + deaths + forced' <= MaxTroubles
        BY <2>1
  <2>4. overlaps' \in 0 .. MaxTroubles /\ forced' \in 0 .. MaxTroubles /\ deaths' \in 0 .. MaxTroubles
        BY <2>3, <2>6, <2>7, SumBounds
  <2>5. QED BY <1>1, <1>2, <2>1, <2>2, <2>4 DEF TypeOK, rowVars, ledgerVars
<1>15. CASE Dies(c)
  <2>1. /\ UNCHANGED <<rowVars, ledgerVars, freq, day, left, overlaps, forced>>
        /\ deaths' = deaths + 1 /\ overlaps + deaths' + forced <= MaxTroubles
        /\ crossed' \in BOOLEAN
        BY <1>2, <1>15 DEF Dies
  <2>2. overlaps \in Nat /\ deaths \in Nat /\ forced \in Nat /\ MaxTroubles \in Nat
        BY <1>2, ReminderAssumption
  <2>3. deaths' \in 0 .. MaxTroubles
        BY <2>1, <2>2
  <2>4. QED BY <1>1, <1>2, <2>1, <2>3 DEF TypeOK, rowVars, ledgerVars
<1>16. QED BY <1>5, <1>6, <1>7, <1>8, <1>9, <1>10, <1>11, <1>12, <1>13, <1>14, <1>15
           DEF Does, SubDoes, OtherDoes

\* The handlers leave the campaigns and the day alone.
LEMMA SameDay ==
    ASSUME NEW c \in Calls, Does(c)
    PROVE  freq' = freq /\ day' = day
<1>1. CASE RunDoes(c)
      BY <1>1 DEF RunDoes, ReadsChunk, Looks, FindsPaid, RunThanks, RunFlags, RunTemplates,
                  FindsOpen, RunInserts, RunReminds, RunMarks, countVars
<1>2. CASE SubDoes(c)
      BY <1>2 DEF SubDoes, SubReads, SubPasses, SubInserts, SubSends, SubNotes, countVars
<1>3. CASE OtherDoes(c)
      BY <1>3 DEF OtherDoes, Completes, Settles, Claims, PaySends, Releases, Cleans, Creates, Loads,
                  Saves, Counts, FlagsDonor, countVars
<1>4. CASE Starts(c) \/ Dies(c)
      BY <1>4 DEF Starts, Dies
<1>5. QED BY <1>1, <1>2, <1>3, <1>4 DEF Does

LEMMA PlacedStays ==
    ASSUME Placed, NEW c \in Calls, Only(c), CallOK(call'[c]), DonationsStay, Does(c)
    PROVE  Placed'
BY TypeStays, SameDay, StepOK DEF Placed

\* A donor's card is declined.
Declines(d) ==
    /\ d \in DOMAIN donation /\ donation[d].status = "pending"
    /\ donation' = [donation EXCEPT ![d].status = "failed"]
    /\ left' \in 0 .. MaxRequests
    /\ UNCHANGED <<rowVars, ledgerVars, call, historyVars, freq, day, overlaps, deaths, forced,
                   crossed>>

LEMMA DeclineDoes ==
    ASSUME Placed, NEW d \in DOMAIN donation, Decline(d)
    PROVE  Declines(d) /\ DonationsStay /\ Placed'
<1> DEFINE e == [donation[d] EXCEPT !.status = "failed"]
<1>1. left' \in 0 .. MaxRequests
      BY ReminderAssumption DEF Decline, Placed, TypeOK
<1>2. Declines(d)
      BY <1>1 DEF Decline, Declines
<1>3. donation[d] \in Donation
      BY DEF Placed, TypeOK
<1>4. e \in Donation /\ e.for = donation[d].for /\ donation' = [donation EXCEPT ![d] = e]
      BY <1>2, <1>3 DEF Donation, Declines
<1> HIDE DEF e
<1>5. DonationsStay
      BY <1>4, OneDonation
<1>6. TypeOK'
      BY <1>2, <1>5 DEF Declines, DonationsStay, Placed, TypeOK, rowVars, ledgerVars
<1>7. ASSUME NEW c \in Calls PROVE CallOK(call[c])'
  <2>1. call' = call /\ freq' = freq /\ day' = day
        BY <1>2 DEF Declines
  <2>2. CallOK(call'[c])
        BY <2>1 DEF Placed
  <2>3. QED BY <1>5, <2>1, <2>2, CallOKStays
<1>8. QED BY <1>2, <1>5, <1>6, <1>7 DEF Placed

LEMMA NextDayPlaced ==
    ASSUME Placed, NextDay
    PROVE  Placed' /\ \A c \in Calls : call[c] = NoCall
<1>1. \A c \in Calls : call[c] = NoCall
      BY DEF NextDay, Quiet, Running, Placed, CallOK, PlaceOK
<1>2. UNCHANGED <<rowVars, donation, ledgerVars, call, historyVars, freq, left, overlaps,
                  deaths, forced, crossed>>
      BY DEF NextDay
<1>3. day' \in 1 .. Days
      BY ReminderAssumption DEF NextDay, Placed, TypeOK
<1>4. TypeOK'
      BY <1>2, <1>3 DEF Placed, TypeOK, rowVars, ledgerVars
<1>5. ASSUME NEW c \in Calls PROVE CallOK(call[c])'
  <2>1. call'[c] = NoCall /\ NoCall.op = "none" /\ NoCall.pc = "none"
        BY <1>1, <1>2 DEF NoCall
  <2>2. PlaceOK(call'[c])
        BY <2>1 DEF PlaceOK, Staff
  <2>3. PlaceOK(call[c])'
        BY <2>2 DEF PlaceOK
  <2>4. RunOK(call[c])' /\ SubOK(call[c])' /\ OtherOK(call[c])'
        BY <2>1 DEF RunOK, SubOK, OtherOK, RunPcs, SubPcs, PayPcs, Staff, Working, InRun
  <2>5. QED BY <2>3, <2>4 DEF CallOK
<1>6. QED BY <1>1, <1>4, <1>5 DEF Placed

LEMMA InitPlaced == Init => Placed
<1> SUFFICES ASSUME Init PROVE Placed
    OBVIOUS
<1>1. NoKey \in Key /\ 0 \in 0 .. MaxTroubles /\ MaxRequests \in 0 .. MaxRequests /\ 1 \in 1 .. Days
      BY ReminderAssumption DEF NoKey, Key
<1>2. freq \in [Pledges -> Freqs] /\ \E p \in Pledges : freq[p] = "monthly"
      BY ReminderAssumption DEF Init
<1>3. pledge \in [Pledges -> Pledge]
  <2>1. ASSUME NEW s \in {"none", "active"}
        PROVE  [status |-> s, covered |-> FALSE, reminded |-> NoKey, thanked |-> 0] \in Pledge
        BY <1>1 DEF Pledge
  <2>2. QED BY <2>1 DEF Init
<1>4. donation \in Seq(Donation)
  <2> DEFINE m    == Min({p \in Pledges : freq[p] = "monthly"})
             D(i) == [for |-> IF i = Initial THEN Sub ELSE m, link |-> FALSE, day |-> 1,
                      archived |-> FALSE, status |-> "pending", sent |-> {}]
  <2>1. m \in Targets
    <3>1. {p \in Pledges : freq[p] = "monthly"} # {} /\ {p \in Pledges : freq[p] = "monthly"} \subseteq Nat
          BY <1>2 DEF Pledges
    <3>2. m \in {p \in Pledges : freq[p] = "monthly"}
          BY <3>1, MinIsLeast
    <3>3. QED BY <3>2 DEF Targets
  <2>2. donation = [i \in 1 .. 2 |-> D(i)]
        BY DEF Init
  <2> HIDE DEF m
  <2>3. \A i \in 1 .. 2 : D(i) \in Donation
        BY <1>1, <2>1 DEF Donation, Targets
  <2> HIDE DEF D
  <2>4. QED BY <2>2, <2>3
<1>5. call \in [Calls -> Call] /\ \A c \in Calls : CallOK(call[c])
      BY NoCallOK DEF Init
<1>6. TypeOK
      BY <1>1, <1>3, <1>4, <1>5 DEF Init, TypeOK
<1>7. QED BY <1>5, <1>6 DEF Placed

\* Every step keeps handlers in their places.
LEMMA NextPlaced == Placed /\ [Next]_vars => Placed'
<1> SUFFICES ASSUME Placed, [Next]_vars PROVE Placed'
    OBVIOUS
<1>1. CASE NextDay
      BY <1>1, NextDayPlaced
<1>2. ASSUME NEW d \in DOMAIN donation, Decline(d) PROVE Placed'
      BY <1>2, DeclineDoes
<1>3. ASSUME NEW c \in Calls,
             Job(c) \/ Pay(c) \/ Cleanup(c) \/ Change(c) \/ RunStep(c) \/ OtherStep(c) \/ Crash(c)
      PROVE  Placed'
      BY <1>3, StepDoes, PlacedStays
<1>4. CASE UNCHANGED vars
  <2>1. /\ UNCHANGED <<freq, pledge, recurring, donation, mark, settled, day, call, left>>
        /\ UNCHANGED <<overlaps, deaths, forced, crossed>>
        BY <1>4 DEF vars, rowVars, ledgerVars, countVars
  <2>2. TypeOK'
        BY <2>1 DEF Placed, TypeOK
  <2>3. ASSUME NEW c \in Calls PROVE CallOK(call[c])'
    <3>1. CallOK(call'[c]) /\ DonationsStay
          BY <2>1, SameDonations DEF Placed
    <3>2. QED BY <2>1, <3>1, CallOKStays
  <2>4. QED BY <2>2, <2>3 DEF Placed
<1>5. QED BY <1>1, <1>2, <1>3, <1>4 DEF Next

\* Whatever runs, payments, cleanups and staff do beside each other, every variable is of
\* its type, and every handler is at a statement of its own with what that needs: a run at
\* a pledge has it among the rows it read, and has a channel left; a payment has a donation.
THEOREM PlacedInvariant == Spec => []Placed
BY InitPlaced, NextPlaced, PTL DEF Spec

\* Every variable is of its type.
THEOREM Types == Spec => []TypeOK
<1>1. Placed => TypeOK
      BY DEF Placed
<1>2. QED BY <1>1, PlacedInvariant, PTL

-----------------------------------------------------------------------------
(* The donor's flag.                                                       *)

\* The other handlers are as they were.
LEMMA OthersAre ==
    ASSUME Placed, NEW c \in Calls, Only(c), NEW x \in Calls, x # c
    PROVE  /\ call[x] \in Call /\ call'[x] \in Call
           /\ call'[x].op = call[x].op /\ call'[x].pc = call[x].pc /\ call'[x].force = call[x].force
           /\ call'[x].todo = call[x].todo /\ call'[x].last = call[x].last
           /\ call'[x].rows = call[x].rows /\ call'[x].ids = call[x].ids /\ call'[x].p = call[x].p
           /\ call'[x].d = call[x].d /\ call'[x].chans = call[x].chans /\ call'[x].ok = call[x].ok
           /\ call'[x].marks = call[x].marks /\ call'[x].key = call[x].key
<1>1. call[x] \in Call /\ call'[x] \in Call /\ Like(call[x], call'[x])
      BY DEF Placed, TypeOK, Only
<1>2. QED BY <1>1, LikeMeans

\* Steps that are not those of a change of a pledge leave who is active and the flag alone.
LEMMA FlagSame ==
    ASSUME Placed, NEW c \in Calls, Flagging, Only(c), ~Changing(c), call'[c].op \notin Staff,
           recurring' = recurring, crossed' = crossed,
           pledge' \in [Pledges -> Pledge],
           \A p \in Pledges : pledge'[p].status = pledge[p].status
    PROVE  Flagging'
<1>1. \A x \in Calls : /\ Changing(x)' <=> Changing(x)
                       /\ Changing(x) => call'[x].pc = call[x].pc /\ call'[x].ok = call[x].ok
      BY OthersAre DEF Changing
<1>2. AnyActive' <=> AnyActive
      BY DEF AnyActive
<1>3. QED BY <1>1, <1>2 DEF Flagging

\* So do the steps of runs, payments and cleanups.
LEMMA FlagRest ==
    ASSUME Placed, NEW c \in Calls, Flagging, Only(c),
           \/ RunDoes(c) \/ SubDoes(c) \/ Completes(c) \/ Settles(c) \/ Claims(c) \/ PaySends(c)
           \/ Releases(c) \/ Cleans(c)
    PROVE  Flagging'
<1>1. pledge \in [Pledges -> Pledge] /\ NoCall.op = "none" /\ call[c] \in Call /\ CallOK(call[c])
      BY DEF Placed, TypeOK, NoCall
<1>2. CASE UNCHANGED <<rowVars, countVars>> /\ call[c].op \notin Staff /\ call'[c].op \notin Staff
      BY <1>1, <1>2, FlagSame DEF Changing, rowVars, countVars
<1>3. CASE RunMarks(c)
  <2>1. UNCHANGED <<recurring, countVars>> /\ call[c].op \notin Staff /\ call'[c].op \notin Staff
        BY <1>1, <1>3 DEF RunMarks, Staff
  <2>2. pledge' \in [Pledges -> Pledge] /\ \A p \in Pledges : pledge'[p].status = pledge[p].status
    <3>1. ASSUME NEW p, NEW v, pledge' = [pledge EXCEPT ![p].reminded = v]
          PROVE  \A q \in Pledges : pledge'[q].status = pledge[q].status
          BY <1>1, <3>1 DEF Pledge
    <3>2. ASSUME NEW p, NEW v, pledge' = [pledge EXCEPT ![p].thanked = v]
          PROVE  \A q \in Pledges : pledge'[q].status = pledge[q].status
          BY <1>1, <3>2 DEF Pledge
    <3>3. DonationsStay /\ Does(c)
          BY <1>3, SameDonations DEF RunMarks, Does, RunDoes
    <3>4. pledge' \in [Pledges -> Pledge]
          BY <3>3, TypeStays DEF TypeOK
    <3>5. QED BY <1>3, <3>1, <3>2, <3>4 DEF RunMarks
  <2>3. QED BY <2>1, <2>2, FlagSame DEF Changing, countVars
<1>4. CASE RunDoes(c) /\ ~RunMarks(c)
  <2>1. CASE ReadsChunk(c) \/ Looks(c) \/ FindsOpen(c) \/ FindsPaid(c)
        BY <1>2, <2>1 DEF ReadsChunk, Looks, FindsPaid, FindsOpen, Stays, Passed, Staff
  <2>2. CASE RunThanks(c) \/ RunFlags(c) \/ RunTemplates(c)
        BY <1>2, <2>2 DEF RunThanks, RunFlags, RunTemplates, GoesOn, Stays, Passed, Staff
  <2>3. CASE RunInserts(c) \/ RunReminds(c)
        BY <1>2, <2>3 DEF RunInserts, RunReminds, Stays, Passed, Staff
  <2>4. QED BY <1>4, <2>1, <2>2, <2>3 DEF RunDoes
<1>5. CASE SubDoes(c)
      BY <1>1, <1>2, <1>5 DEF SubDoes, SubReads, SubPasses, SubInserts, SubSends, SubNotes, Staff
<1>6. CASE Completes(c) \/ Settles(c) \/ Claims(c) \/ PaySends(c) \/ Releases(c) \/ Cleans(c)
      BY <1>1, <1>2, <1>6 DEF Completes, Settles, Claims, PaySends, Releases, Cleans, ClaimsNext, Staff
<1>7. QED BY <1>3, <1>4, <1>5, <1>6

LEMMA FlagStays ==
    ASSUME Placed, NEW c \in Calls, Flagging, Only(c), CallOK(call'[c]), Does(c)
    PROVE  Flagging'
<1>1. \A x \in Calls \ {c} : /\ Changing(x)' <=> Changing(x)
                             /\ call'[x].pc = call[x].pc /\ call'[x].ok = call[x].ok
      BY OthersAre DEF Changing
<1>2. pledge \in [Pledges -> Pledge] /\ NoCall.op = "none"
      BY DEF Placed, TypeOK, NoCall
<1>3. ASSUME ~crossed, Changing(c) PROVE \A x \in Calls \ {c} : ~Changing(x)'
      BY <1>1, <1>3 DEF Flagging
<1>4. Changing(c)' <=> call'[c].op \in Staff
      BY DEF Changing
<1>5. CASE Creates(c)
  <2>1. SUFFICES ASSUME ~crossed' PROVE Flagging'
        BY DEF Flagging
  <2>2. ~crossed /\ Changing(c) /\ recurring' = recurring /\ (recurring <=> AnyActive)
    <3>1. ~crossed /\ Changing(c) /\ recurring' = recurring /\ call[c].pc = "create"
          BY <1>5, <2>1 DEF Creates, countVars, Changing
    <3>2. \A x \in Calls : Changing(x) => x = c
          BY <3>1 DEF Flagging
    <3>3. QED BY <3>1, <3>2 DEF Flagging
  <2>3. CASE call'[c] = NoCall /\ UNCHANGED pledge
    <3>1. AnyActive' <=> AnyActive
          BY <2>3 DEF AnyActive
    <3>2. \A x \in Calls : ~Changing(x)'
          BY <1>2, <1>3, <1>4, <2>2, <2>3 DEF Staff
    <3>3. QED BY <2>2, <3>1, <3>2 DEF Flagging
  <2>4. CASE ~(call'[c] = NoCall /\ UNCHANGED pledge)
    <3> DEFINE p == call[c].p
    <3>1. /\ call'[c].pc = "recurring" /\ call'[c].ok /\ p \in Pledges
          /\ pledge' = [pledge EXCEPT ![p].status = "active"]
          BY <1>5, <2>4 DEF Creates
    <3>2. pledge'[p].status = "active"
          BY <1>2, <3>1 DEF Pledge
    <3>3. AnyActive'
          BY <3>1, <3>2 DEF AnyActive
    <3>4. \A x \in Calls : Changing(x)' => x = c
          BY <1>3, <2>2
    <3>5. Changing(c)'
          BY <1>4, <1>5, <2>4 DEF Creates
    <3>6. QED BY <3>1, <3>3, <3>4, <3>5 DEF Flagging
  <2>5. QED BY <2>3, <2>4
<1>6. CASE Loads(c)
  <2>1. SUFFICES ASSUME ~crossed' PROVE Flagging'
        BY DEF Flagging
  <2>2. ~crossed /\ Changing(c) /\ recurring' = recurring /\ (recurring <=> AnyActive)
    <3>1. ~crossed /\ Changing(c) /\ recurring' = recurring /\ call[c].pc = "load"
          BY <1>6, <2>1 DEF Loads, countVars, rowVars, Changing
    <3>2. \A x \in Calls : Changing(x) => x = c
          BY <3>1 DEF Flagging
    <3>3. QED BY <3>1, <3>2 DEF Flagging
  <2>3. AnyActive' <=> AnyActive
        BY <1>6 DEF AnyActive, Loads, rowVars
  <2>4. \A x \in Calls : Changing(x)' => x = c /\ call'[x].pc = "save"
        BY <1>2, <1>3, <1>4, <1>6, <2>2 DEF Loads, Staff
  <2>5. QED BY <2>2, <2>3, <2>4 DEF Flagging
<1>7. CASE Saves(c) \/ Counts(c)
  <2>1. SUFFICES ASSUME ~crossed' PROVE Flagging'
        BY DEF Flagging
  <2>2. ~crossed /\ Changing(c)
        BY <1>7, <2>1 DEF Saves, Counts, countVars, Changing
  <2>3. \A x \in Calls : Changing(x)' => x = c
        BY <1>3, <2>2
  <2>4. /\ Changing(c)' /\ call'[c].pc \in {"count", "recurring"}
        /\ call'[c].pc = "recurring" => (call'[c].ok <=> AnyActive')
    <3>1. CASE Saves(c)
          BY <1>4, <3>1 DEF Saves
    <3>2. CASE Counts(c)
      <4>1. AnyActive' <=> AnyActive
            BY <3>2 DEF AnyActive, Counts, rowVars
      <4>2. QED BY <1>4, <3>2, <4>1 DEF Counts
    <3>3. QED BY <1>7, <3>1, <3>2
  <2>5. QED BY <2>3, <2>4 DEF Flagging
<1>8. CASE FlagsDonor(c)
  <2>1. SUFFICES ASSUME ~crossed' PROVE Flagging'
        BY DEF Flagging
  <2>2. ~crossed /\ Changing(c) /\ call[c].pc = "recurring" /\ (recurring' <=> call[c].ok)
        BY <1>8, <2>1 DEF FlagsDonor, countVars, Changing
  <2>3. AnyActive' <=> AnyActive
        BY <1>8 DEF AnyActive, FlagsDonor
  <2>4. \A x \in Calls : ~Changing(x)'
        BY <1>2, <1>3, <1>4, <1>8, <2>2 DEF FlagsDonor, Staff
  <2>5. call[c].ok <=> AnyActive
        BY <2>2 DEF Flagging
  <2>6. QED BY <2>2, <2>3, <2>4, <2>5 DEF Flagging
<1>9. CASE Starts(c)
  <2>1. SUFFICES ASSUME ~crossed' PROVE Flagging'
        BY DEF Flagging
  <2>2. /\ ~crossed /\ recurring' = recurring /\ UNCHANGED pledge /\ ~Changing(c)
        /\ Changing(c)' => \A x \in Calls : ~Changing(x)
        /\ Changing(c)' => call'[c].pc \in {"create", "load"}
        BY <1>2, <1>4, <1>9, <2>1 DEF Starts, rowVars, Changing, Staff
  <2>3. AnyActive' <=> AnyActive
        BY <2>2 DEF AnyActive
  <2>4. CASE Changing(c)'
    <3>1. \A x \in Calls : Changing(x)' => x = c
          BY <1>1, <2>2, <2>4
    <3>2. recurring <=> AnyActive
          BY <2>2, <2>4 DEF Flagging
    <3>3. QED BY <2>2, <2>3, <2>4, <3>1, <3>2 DEF Flagging
  <2>5. CASE ~Changing(c)'
    <3>1. \A x \in Calls : Changing(x)' <=> Changing(x)
          BY <1>1, <2>2, <2>5
    <3>2. \A x \in Calls : Changing(x) => x # c
          BY <2>2
    <3>3. QED BY <1>1, <2>2, <2>3, <3>1, <3>2 DEF Flagging
  <2>6. QED BY <2>4, <2>5
<1>10. CASE Dies(c)
  <2>1. SUFFICES ASSUME ~crossed' PROVE Flagging'
        BY DEF Flagging
  <2>2. ~crossed /\ ~Changing(c) /\ recurring' = recurring /\ UNCHANGED pledge /\ ~Changing(c)'
        BY <1>2, <1>4, <1>10, <2>1 DEF Dies, rowVars, Staff
  <2>3. AnyActive' <=> AnyActive
        BY <2>2 DEF AnyActive
  <2>4. \A x \in Calls : Changing(x)' <=> Changing(x)
        BY <1>1, <2>2
  <2>5. \A x \in Calls : Changing(x) => x # c
        BY <2>2
  <2>6. QED BY <1>1, <2>2, <2>3, <2>4, <2>5 DEF Flagging
<1>11. QED BY <1>5, <1>6, <1>7, <1>8, <1>9, <1>10, FlagRest DEF Does, OtherDoes

LEMMA NextFlagging == Placed /\ Flagging /\ [Next]_vars => Flagging'
<1> SUFFICES ASSUME Placed, Flagging, [Next]_vars PROVE Flagging'
    OBVIOUS
<1>1. CASE NextDay \/ UNCHANGED vars \/ \E d \in DOMAIN donation : Decline(d)
  <2>1. UNCHANGED <<recurring, pledge, call, crossed>>
        BY <1>1 DEF NextDay, Decline, vars, rowVars, countVars
  <2>2. QED BY <2>1 DEF Flagging, Changing, AnyActive
<1>2. ASSUME NEW c \in Calls,
             Job(c) \/ Pay(c) \/ Cleanup(c) \/ Change(c) \/ RunStep(c) \/ OtherStep(c) \/ Crash(c)
      PROVE  Flagging'
      BY <1>2, StepDoes, FlagStays
<1>3. QED BY <1>1, <1>2 DEF Next

\* As long as changes of pledges do not overlap and none of them dies, the flag says
\* whether a pledge is active until one of them has changed a pledge, and what that one is
\* about to set it to is right.
THEOREM FlaggingInvariant == Spec => []Flagging
<1>1. Init => Flagging
  <2>1. SUFFICES ASSUME Init PROVE Flagging
        OBVIOUS
  <2>5. call = [c \in Calls |-> NoCall] /\ NoCall.op = "none"
        BY <2>1 DEF Init, NoCall
  <2>2. \A c \in Calls : ~Changing(c)
        BY <2>5 DEF Changing, Staff
  <2>6. recurring = \E p \in Pledges : pledge[p].status = "active"
        BY <2>1 DEF Init
  <2>3. recurring <=> AnyActive
        BY <2>6, Zenon DEF AnyActive
  <2>4. QED BY <2>2, <2>3 DEF Flagging
<1>2. QED BY <1>1, NextFlagging, PlacedInvariant, PTL DEF Spec

\* The donor's flag says whether a pledge is active whenever no change of a pledge is under
\* way, as long as changes of pledges did not overlap and none of them died.
THEOREM FlagFollows == Spec => []RecurringFollows
<1>3. Placed => recurring \in BOOLEAN
      BY DEF Placed, TypeOK
<1>1. Placed /\ Flagging => RecurringFollows
  <2>1. SUFFICES ASSUME Placed, Flagging, ~crossed, \A c \in Calls : call[c].op \notin Staff
                 PROVE  recurring = \E p \in Pledges : pledge[p].status = "active"
        BY DEF RecurringFollows
  <2>2. recurring <=> AnyActive
        BY <2>1 DEF Flagging, Changing
  <2>3. recurring \in BOOLEAN
        BY <1>3, <2>1
  <2>4. recurring <=> \E p \in Pledges : pledge[p].status = "active"
        BY <2>2 DEF AnyActive
  <2>5. QED BY <2>3, <2>4, Zenon
<1>2. QED BY <1>1, PlacedInvariant, FlaggingInvariant, PTL

-----------------------------------------------------------------------------
(* The links.                                                              *)

\* Sizes of sets of handlers.
LEMMA CallsAreFinite ==
    ASSUME NEW S, S \subseteq Calls
    PROVE  IsFiniteSet(S) /\ Cardinality(S) \in Nat
BY ReminderAssumption, FS_Subset, FS_CardinalityType

LEMMA CardSubset ==
    ASSUME NEW S, NEW T, IsFiniteSet(T), S \subseteq T
    PROVE  /\ IsFiniteSet(S) /\ Cardinality(S) \in Nat /\ Cardinality(T) \in Nat
           /\ Cardinality(S) <= Cardinality(T)
BY FS_Subset, FS_CardinalityType

LEMMA CardOneMore ==
    ASSUME NEW S, NEW T, NEW x, IsFiniteSet(T), S \subseteq T \union {x}
    PROVE  IsFiniteSet(S) /\ Cardinality(S) \in Nat /\ Cardinality(S) <= Cardinality(T) + 1
<1>1. IsFiniteSet(T \union {x}) /\ Cardinality(T) \in Nat
      BY FS_AddElement, FS_CardinalityType
<1>2. Cardinality(T \union {x}) <= Cardinality(T) + 1
      BY <1>1, FS_AddElement
<1>3. /\ IsFiniteSet(S) /\ Cardinality(S) \in Nat /\ Cardinality(T \union {x}) \in Nat
      /\ Cardinality(S) <= Cardinality(T \union {x})
      BY <1>1, CardSubset
<1>4. QED BY <1>1, <1>2, <1>3

LEMMA CardOneLess ==
    ASSUME NEW S, NEW T, NEW x \in T, IsFiniteSet(T), S \subseteq T \ {x}
    PROVE  IsFiniteSet(S) /\ Cardinality(S) \in Nat /\ Cardinality(S) + 1 <= Cardinality(T)
<1>1. IsFiniteSet(T \ {x}) /\ Cardinality(T \ {x}) = Cardinality(T) - 1 /\ Cardinality(T) \in Nat
      BY FS_RemoveElement, FS_CardinalityType
<1>2. /\ IsFiniteSet(S) /\ Cardinality(S) \in Nat /\ Cardinality(T \ {x}) \in Nat
      /\ Cardinality(S) <= Cardinality(T \ {x})
      BY <1>1, CardSubset
<1>3. QED BY <1>1, <1>2

\* A handler's step, unless it begins.
LEMMA WasBusy ==
    ASSUME NEW c \in Calls, RunDoes(c) \/ SubDoes(c) \/ OtherDoes(c) \/ Dies(c)
    PROVE  call[c].op # "none"
<1>1. CASE RunDoes(c) \/ SubDoes(c)
      BY <1>1 DEF RunDoes, ReadsChunk, Looks, FindsPaid, RunThanks, RunFlags, RunTemplates, FindsOpen,
                  RunInserts, RunReminds, RunMarks,
                  SubDoes, SubReads, SubPasses, SubInserts, SubSends, SubNotes
<1>2. CASE OtherDoes(c) \/ Dies(c)
      BY <1>2 DEF OtherDoes, Completes, Settles, Claims, PaySends, Releases, Cleans, Creates, Loads,
                  Saves, Counts, FlagsDonor, Dies, Staff
<1>3. QED BY <1>1, <1>2

\* Only those that begin and those that die are troubles.
LEMMA SameCounts ==
    ASSUME NEW c \in Calls, RunDoes(c) \/ SubDoes(c) \/ OtherDoes(c)
    PROVE  overlaps' = overlaps /\ deaths' = deaths /\ forced' = forced
<1>1. CASE RunDoes(c) \/ SubDoes(c)
      BY <1>1 DEF RunDoes, ReadsChunk, Looks, FindsPaid, RunThanks, RunFlags, RunTemplates, FindsOpen,
                  RunInserts, RunReminds, RunMarks, countVars,
                  SubDoes, SubReads, SubPasses, SubInserts, SubSends, SubNotes
<1>2. CASE OtherDoes(c)
      BY <1>2 DEF OtherDoes, Completes, Settles, Claims, PaySends, Releases, Cleans, Creates, Loads,
                  Saves, Counts, FlagsDonor, countVars
<1>3. QED BY <1>1, <1>2

LEMMA BusyStays ==
    ASSUME Placed, NEW c \in Calls, Only(c), Does(c), Cardinality(Busy) <= 1 + overlaps
    PROVE  Cardinality(Busy') <= 1 + overlaps' /\ overlaps \in Nat /\ overlaps' \in {overlaps, overlaps + 1}
<1>1. \A x \in Calls \ {c} : Running(x)' <=> Running(x)
      BY OthersAre DEF Running
<1>2. Busy \subseteq Calls /\ Busy' \subseteq Calls
      BY DEF Busy
<1>3. overlaps \in Nat /\ IsFiniteSet(Busy) /\ Cardinality(Busy) \in Nat /\ Cardinality(Busy') \in Nat
      BY <1>2, CallsAreFinite DEF Placed, TypeOK
<1>4. CASE Starts(c)
  <2>1. Busy' \subseteq Busy \union {c}
        BY <1>1 DEF Busy
  <2>5. Cardinality(Busy') <= Cardinality(Busy) + 1
        BY <1>3, <2>1, CardOneMore
  <2>2. CASE Quiet
    <3>1. Busy = {} /\ overlaps' = overlaps
          BY <1>4, <2>2 DEF Quiet, Busy, Starts
    <3>2. Cardinality(Busy) = 0
          BY <3>1, FS_EmptySet
    <3>3. QED BY <1>3, <2>5, <3>1, <3>2
  <2>3. CASE ~Quiet
    <3>1. overlaps' = overlaps + 1
          BY <1>4, <2>3 DEF Starts
    <3>2. QED BY <1>3, <2>5, <3>1
  <2>4. QED BY <2>2, <2>3
<1>5. CASE ~Starts(c)
  <2>1. Busy' \subseteq Busy /\ overlaps' = overlaps
    <3>1. call[c].op # "none"
          BY <1>5, WasBusy DEF Does
    <3>2. overlaps' = overlaps
          BY <1>5, SameCounts DEF Does, Dies
    <3>3. QED BY <1>1, <3>1, <3>2 DEF Busy, Running
  <2>2. QED BY <1>3, <2>1, CardSubset
<1>6. QED BY <1>4, <1>5

\* Only a run that found nothing to pay with is about to insert a link.
LEMMA NotInserting ==
    ASSUME Placed, NEW c \in Calls, Does(c), ~FindsOpen(c), ~SubPasses(c)
    PROVE  call'[c].pc \notin {"insert", "subInsert"}
<1>1. NoCall.pc = "none"
      BY DEF NoCall
<1>2. CASE RunDoes(c)
  <2>1. CASE ReadsChunk(c) \/ Looks(c) \/ FindsPaid(c)
        BY <2>1 DEF ReadsChunk, Looks, FindsPaid, Stays, Passed
  <2>2. CASE RunThanks(c) \/ RunFlags(c) \/ RunTemplates(c)
        BY <2>2 DEF RunThanks, RunFlags, RunTemplates, GoesOn, Stays, Passed
  <2>3. CASE RunInserts(c) \/ RunReminds(c) \/ RunMarks(c)
        BY <1>1, <2>3 DEF RunInserts, RunReminds, RunMarks, Stays, Passed
  <2>4. QED BY <1>2, <2>1, <2>2, <2>3 DEF RunDoes
<1>3. CASE SubDoes(c)
      BY <1>1, <1>3 DEF SubDoes, SubReads, SubInserts, SubSends, SubNotes
<1>4. CASE OtherDoes(c)
      BY <1>1, <1>4 DEF OtherDoes, Completes, Settles, Claims, PaySends, Releases, Cleans, Creates, Loads,
                  Saves, Counts, FlagsDonor, ClaimsNext
<1>5. CASE Starts(c) \/ Dies(c)
      BY <1>1, <1>5 DEF Starts, Dies
<1>6. QED BY <1>2, <1>3, <1>4, <1>5 DEF Does

\* No donation becomes a link to pay with by changing.
NoneOpened ==
    /\ DOMAIN donation' = DOMAIN donation
    /\ \A d \in DOMAIN donation :
          /\ donation'[d].for = donation[d].for /\ donation'[d].link = donation[d].link
          /\ Open(donation'[d].status) /\ ~donation'[d].archived =>
                Open(donation[d].status) /\ ~donation[d].archived

LEMMA OneChanges ==
    ASSUME Placed, NEW d \in DOMAIN donation, NEW e, donation' = [donation EXCEPT ![d] = e],
           e.for = donation[d].for, e.link = donation[d].link,
           Open(e.status) /\ ~e.archived => Open(donation[d].status) /\ ~donation[d].archived
    PROVE  NoneOpened
BY DEF Placed, TypeOK, NoneOpened

LEMMA NothingOpened ==
    ASSUME Placed, NEW c \in Calls, Only(c), Does(c), ~RunInserts(c), ~SubInserts(c)
    PROVE  NoneOpened
<1>1. ASSUME donation' = donation PROVE NoneOpened
      BY <1>1 DEF NoneOpened
<1>2. \A d \in DOMAIN donation : donation[d] \in Donation
      BY DEF Placed, TypeOK
<1>3. ASSUME NEW d \in DOMAIN donation, NEW s, donation' = [donation EXCEPT ![d].sent = s]
      PROVE  NoneOpened
  <2> DEFINE e == [donation[d] EXCEPT !.sent = s]
  <2>1. /\ donation' = [donation EXCEPT ![d] = e] /\ e.for = donation[d].for
        /\ e.link = donation[d].link /\ e.status = donation[d].status
        /\ e.archived = donation[d].archived
        BY <1>2, <1>3 DEF Donation
  <2> HIDE DEF e
  <2>2. QED BY <2>1, OneChanges
<1>4. ASSUME NEW d \in DOMAIN donation, NEW s \in {"completed", "failed"},
             s = "failed" => Open(donation[d].status),
             donation' = [donation EXCEPT ![d].status = s]
      PROVE  NoneOpened
  <2> DEFINE e == [donation[d] EXCEPT !.status = s]
  <2>1. /\ donation' = [donation EXCEPT ![d] = e] /\ e.for = donation[d].for
        /\ e.link = donation[d].link /\ e.status = s
        /\ e.archived = donation[d].archived
        BY <1>2, <1>4 DEF Donation
  <2> HIDE DEF e
  <2>2. Open(e.status) => Open(donation[d].status)
        BY <1>4, <2>1 DEF Open
  <2>3. QED BY <2>1, <2>2, OneChanges
<1>5. ASSUME NEW d \in DOMAIN donation, donation' = [donation EXCEPT ![d].archived = TRUE]
      PROVE  NoneOpened
  <2> DEFINE e == [donation[d] EXCEPT !.archived = TRUE]
  <2>1. /\ donation' = [donation EXCEPT ![d] = e] /\ e.for = donation[d].for
        /\ e.link = donation[d].link /\ e.archived
        BY <1>2, <1>5 DEF Donation
  <2> HIDE DEF e
  <2>2. QED BY <2>1, OneChanges
<1>6. CASE RunFlags(c)
  <2>1. call[c].d \in DOMAIN donation
    <3>1. CallOK(call[c]) /\ call[c].pc = "flag" /\ call[c].op = "job"
          BY <1>6 DEF RunFlags, Placed
    <3>2. QED BY <3>1 DEF CallOK, RunOK, ChunkOK, InRun, RunPcs, Working
  <2>2. QED BY <1>3, <1>6, <2>1 DEF RunFlags
<1>7. CASE RunDoes(c) /\ ~RunFlags(c)
      BY <1>1, <1>7 DEF RunDoes, ReadsChunk, Looks, FindsPaid, RunThanks, RunTemplates, FindsOpen,
                  RunReminds, RunMarks
<1>8. CASE SubDoes(c)
      BY <1>1, <1>8 DEF SubDoes, SubReads, SubPasses, SubSends, SubNotes
<1>9. CASE Completes(c) \/ Claims(c) \/ Releases(c)
  <2>1. call[c].d \in DOMAIN donation
        BY <1>9, PayIs DEF Completes, Claims, Releases, PayPcs
  <2>2. QED BY <1>3, <1>4, <1>9, <2>1 DEF Completes, Claims, Releases
<1>10. CASE Cleans(c)
      BY <1>1, <1>5, <1>10 DEF Cleans
<1>11. CASE OtherDoes(c) /\ ~Completes(c) /\ ~Claims(c) /\ ~Releases(c) /\ ~Cleans(c)
      BY <1>1, <1>11 DEF OtherDoes, Settles, PaySends, Creates, Loads, Saves, Counts, FlagsDonor
<1>12. CASE Starts(c) \/ Dies(c)
      BY <1>1, <1>12 DEF Starts, Dies
<1>13. QED BY <1>6, <1>7, <1>8, <1>9, <1>10, <1>11, <1>12 DEF Does

LEMMA LinksStay ==
    ASSUME Placed, Placed', LinksCounted, NEW c \in Calls, Only(c), DonationsStay, Does(c)
    PROVE  LinksCounted'
<1>1. /\ Cardinality(Busy') <= 1 + overlaps' /\ overlaps \in Nat /\ overlaps' \in Nat
      /\ overlaps <= overlaps'
      BY BusyStays DEF LinksCounted
<1>2. ASSUME NEW t \in Targets
      PROVE  Cardinality(Links(t)') + Cardinality(Inserting(t)') <= 1 + overlaps'
  <2> DEFINE L  == Links(t)
             I  == Inserting(t)
             L2 == Links(t)'
             I2 == Inserting(t)'
             k  == call[c]
             r  == call'[c]
             n  == Len(donation) + 1
  <2>1. IsFiniteSet(L) /\ Cardinality(L) \in Nat /\ IsFiniteSet(I) /\ Cardinality(I) \in Nat
    <3>1. donation \in Seq(Donation) /\ DOMAIN donation = 1 .. Len(donation) /\ Len(donation) \in Nat
          BY DEF Placed, TypeOK
    <3>2. IsFiniteSet(1 .. Len(donation))
          BY <3>1, FS_Interval
    <3>3. L \subseteq 1 .. Len(donation) /\ I \subseteq Calls
          BY <3>1 DEF Links, Inserting
    <3>4. QED BY <3>2, <3>3, CardSubset, CallsAreFinite
  <2>2. Cardinality(L) + Cardinality(I) <= 1 + overlaps
        BY DEF LinksCounted
  <2>3. \A x \in Calls \ {c} : call'[x].pc = call[x].pc /\ call'[x].p = call[x].p
        BY OthersAre
  <2>4. I2 \subseteq I \union {c}
        BY <2>3 DEF Inserting
  <2>5. r.pc \notin {"insert", "subInsert"} \/ r.p # t => I2 \subseteq I
        BY <2>3 DEF Inserting
  <2>6. NoneOpened => L2 \subseteq L
        BY DEF NoneOpened, Links
  <2>7. CASE L2 \subseteq L /\ I2 \subseteq I
    <3> HIDE DEF L, I, L2, I2
    <3>1. /\ Cardinality(L2) <= Cardinality(L) /\ Cardinality(I2) <= Cardinality(I)
          /\ Cardinality(L2) \in Nat /\ Cardinality(I2) \in Nat
          BY <2>1, <2>7, CardSubset
    <3>2. Cardinality(L2) + Cardinality(I2) <= 1 + overlaps'
          BY <1>1, <2>1, <2>2, <3>1
    <3>3. QED BY <3>2 DEF L2, I2
  <2>8. CASE RunInserts(c) \/ SubInserts(c)
    <3>1. k.p \in Targets /\ donation' = Append(donation, NewLink(k.p))
      <4>1. CallOK(k) /\ k \in Call
            BY DEF Placed, TypeOK
      <4>2. SubInserts(c) => k.p = Sub
            BY <4>1 DEF SubInserts, CallOK, SubOK, SubPcs
      <4>3. QED BY <2>8, <4>1, <4>2 DEF RunInserts, SubInserts, Call
    <3>2. /\ DOMAIN donation' = DOMAIN donation \union {n}
          /\ \A d \in DOMAIN donation : donation'[d] = donation[d]
          /\ donation'[n] = NewLink(k.p)
          BY <3>1, LinkAppended
    <3>3. r.pc \notin {"insert", "subInsert"}
          BY <2>8, NotInserting DEF RunInserts, SubInserts, FindsOpen, SubPasses
    <3>4. CASE k.p = t
      <4>1. L2 \subseteq L \union {n}
            BY <3>2 DEF Links
      <4>2. c \in I /\ I2 \subseteq I \ {c}
            BY <2>3, <2>8, <3>3, <3>4 DEF Inserting, RunInserts, SubInserts
      <4> HIDE DEF L, I, L2, I2, n
      <4>3. Cardinality(L2) <= Cardinality(L) + 1 /\ Cardinality(L2) \in Nat
            BY <2>1, <4>1, CardOneMore
      <4>4. Cardinality(I2) + 1 <= Cardinality(I) /\ Cardinality(I2) \in Nat
            BY <2>1, <4>2, CardOneLess
      <4>5. Cardinality(L2) + Cardinality(I2) <= 1 + overlaps'
            BY <1>1, <2>1, <2>2, <4>3, <4>4
      <4>6. QED BY <4>5 DEF L2, I2
    <3>5. CASE k.p # t
      <4>1. L2 \subseteq L
            BY <3>2, <3>5 DEF Links, NewLink
      <4>2. QED BY <2>5, <2>7, <3>3, <4>1
    <3>6. QED BY <3>4, <3>5
  <2>9. CASE FindsOpen(c) \/ SubPasses(c)
    <3>1. NoneOpened
      <4>1. donation' = donation
            BY <2>9 DEF FindsOpen, SubPasses
      <4>2. QED BY <4>1 DEF NoneOpened
    <3>2. CASE r.pc \in {"insert", "subInsert"} /\ r.p = t
      <4>1. L = {}
            BY <2>9, <3>2 DEF FindsOpen, SubPasses, OpenFor, Links, Stays, NoCall
      <4>2. L2 = {}
            BY <2>6, <3>1, <4>1
      <4>3. I2 \subseteq Busy'
            BY DEF Placed, CallOK, PlaceOK, Inserting, Busy, Running, NoCall
      <4>4. Busy' \subseteq Calls
            BY DEF Busy
      <4> DEFINE B2 == Busy'
      <4> HIDE DEF I2, B2, L2
      <4>5. Cardinality(I2) <= Cardinality(B2) /\ Cardinality(I2) \in Nat /\ Cardinality(B2) \in Nat
            BY <4>3, <4>4, CardSubset, CallsAreFinite DEF B2
      <4>6. Cardinality(L2) = 0
            BY <4>2, FS_EmptySet
      <4>7. Cardinality(B2) <= 1 + overlaps'
            BY <1>1 DEF B2
      <4>8. Cardinality(L2) + Cardinality(I2) <= 1 + overlaps'
            BY <1>1, <4>5, <4>6, <4>7
      <4>9. QED BY <4>8 DEF L2, I2
    <3>3. CASE ~(r.pc \in {"insert", "subInsert"} /\ r.p = t)
          BY <2>5, <2>6, <2>7, <3>1, <3>3
    <3>4. QED BY <3>2, <3>3
  <2>10. CASE ~RunInserts(c) /\ ~SubInserts(c) /\ ~FindsOpen(c) /\ ~SubPasses(c)
    <3>1. NoneOpened /\ r.pc \notin {"insert", "subInsert"}
          BY <2>10, NothingOpened, NotInserting
    <3>2. QED BY <2>5, <2>6, <2>7, <3>1
  <2>11. QED BY <2>8, <2>9, <2>10
<1>3. QED BY <1>1, <1>2 DEF LinksCounted

\* What happens outside of the handlers opens no link.
LEMMA LinksElsewhere ==
    ASSUME Placed, LinksCounted, NoneOpened, call' = call, overlaps' = overlaps
    PROVE  LinksCounted'
<1>1. Busy' = Busy
      BY DEF Busy, Running
<1>2. ASSUME NEW t \in Targets
      PROVE  Cardinality(Links(t)') + Cardinality(Inserting(t)') <= 1 + overlaps'
  <2> DEFINE L  == Links(t)
             I  == Inserting(t)
             L2 == Links(t)'
  <2>1. IsFiniteSet(L) /\ Cardinality(I) \in Nat /\ overlaps \in Nat
    <3>1. donation \in Seq(Donation) /\ DOMAIN donation = 1 .. Len(donation) /\ Len(donation) \in Nat
          BY DEF Placed, TypeOK
    <3>2. IsFiniteSet(1 .. Len(donation))
          BY <3>1, FS_Interval
    <3>3. L \subseteq 1 .. Len(donation) /\ I \subseteq Calls
          BY <3>1 DEF Links, Inserting
    <3>4. overlaps \in Nat
          BY DEF Placed, TypeOK
    <3>5. QED BY <3>2, <3>3, <3>4, CardSubset, CallsAreFinite
  <2>2. Inserting(t)' = I
        BY DEF Inserting
  <2>3. L2 \subseteq L
        BY DEF NoneOpened, Links
  <2>4. Cardinality(L) + Cardinality(I) <= 1 + overlaps
        BY DEF LinksCounted
  <2> HIDE DEF L, I, L2
  <2>5. Cardinality(L2) <= Cardinality(L) /\ Cardinality(L2) \in Nat /\ Cardinality(L) \in Nat
        BY <2>1, <2>3, CardSubset
  <2>6. Cardinality(L2) + Cardinality(I) <= 1 + overlaps'
        BY <2>1, <2>4, <2>5
  <2>7. QED BY <2>2, <2>6 DEF L2
<1>3. QED BY <1>1, <1>2 DEF LinksCounted

LEMMA NextLinks == Placed /\ LinksCounted /\ [Next]_vars => LinksCounted'
<1> SUFFICES ASSUME Placed, LinksCounted, [Next]_vars PROVE LinksCounted'
    OBVIOUS
<1>1. CASE NextDay \/ UNCHANGED vars
  <2>1. donation' = donation /\ call' = call /\ overlaps' = overlaps
        BY <1>1 DEF NextDay, vars, countVars
  <2>2. NoneOpened
        BY <2>1 DEF NoneOpened
  <2>3. QED BY <2>1, <2>2, LinksElsewhere
<1>2. ASSUME NEW d \in DOMAIN donation, Decline(d) PROVE LinksCounted'
  <2> DEFINE e == [donation[d] EXCEPT !.status = "failed"]
  <2>1. Declines(d) /\ donation[d] \in Donation
        BY <1>2, DeclineDoes DEF Placed, TypeOK
  <2>2. /\ donation' = [donation EXCEPT ![d] = e] /\ e.for = donation[d].for
        /\ e.link = donation[d].link /\ Open(donation[d].status)
        /\ e.archived = donation[d].archived
        BY <2>1 DEF Declines, Donation, Open
  <2> HIDE DEF e
  <2>3. NoneOpened
        BY <2>2, OneChanges
  <2>4. QED BY <2>1, <2>3, LinksElsewhere DEF Declines
<1>3. ASSUME NEW c \in Calls,
             Job(c) \/ Pay(c) \/ Cleanup(c) \/ Change(c) \/ RunStep(c) \/ OtherStep(c) \/ Crash(c)
      PROVE  LinksCounted'
      BY <1>3, StepDoes, PlacedStays, LinksStay
<1>4. QED BY <1>1, <1>2, <1>3 DEF Next

\* There are no more handlers under way than one and the overlaps there were; and for each
\* pledge and the subscription no more links that can be paid with, counted with those
\* that a run has found missing and is about to insert.
THEOREM LinksInvariant == Spec => []LinksCounted
<1>1. Init => LinksCounted
  <2> SUFFICES ASSUME Init PROVE LinksCounted
      OBVIOUS
  <2>1. /\ call = [c \in Calls |-> NoCall] /\ NoCall.op = "none" /\ NoCall.pc = "none"
        /\ overlaps = 0 /\ DOMAIN donation = 1 .. 2
        /\ \A d \in DOMAIN donation : ~donation[d].link
        BY DEF Init, NoCall
  <2>2. Busy = {} /\ \A t \in Targets : Links(t) = {} /\ Inserting(t) = {}
        BY <2>1 DEF Busy, Running, Links, Inserting
  <2>3. Cardinality({}) = 0
        BY FS_EmptySet
  <2>4. QED BY <2>1, <2>2, <2>3 DEF LinksCounted
<1>2. QED BY <1>1, NextLinks, PlacedInvariant, PTL DEF Spec

-----------------------------------------------------------------------------
(* What may still be sent.                                                 *)

\* What a step of handler c does to what may still be sent, as far as c goes: n is noted
\* before and n2 after, and c belongs to H, U, W and G if h, u, w and g hold before, and
\* if h2, u2, w2 and g2 hold after.
Calm(n, n2, h, u, w, g, h2, u2, w2, g2) ==
    /\ n /\ ~u => n2 /\ ~u2 /\ (h2 => h)
    /\ h2 \/ u2 \/ w2 => h \/ u \/ w
    /\ g /\ ~n /\ ~h /\ ~u /\ ~w => g2 \/ n2

Sending(n, n2, h, u, w, h2, u2, w2, g2) ==
    /\ h \/ u \/ w
    /\ n /\ ~u => n2 /\ h
    /\ ~h2 /\ ~u2 /\ ~w2
    /\ n2 \/ g2

\* Nobody but c comes or goes.
Apart(S, S2, c) == S \ {c} = S2 \ {c}

LEMMA PotIsNumber ==
    ASSUME NEW n, NEW H, NEW U, NEW W, NEW G, H \subseteq Calls, U \subseteq Calls, W \subseteq Calls
    PROVE  /\ Cardinality(H) \in Nat /\ Cardinality(H \union U \union W) \in Nat
           /\ Cardinality(H) <= Cardinality(H \union U \union W)
           /\ H \union U \union W # {} => Cardinality(H \union U \union W) >= 1
           /\ Pot(n, H, U, W, G) \in Nat
           /\ Pot(n, H, U, W, G) <= Cardinality(H \union U \union W) + 1
           /\ H \union U \union W # {} => Pot(n, H, U, W, G) <= Cardinality(H \union U \union W)
           /\ ~(n /\ U = {}) => Cardinality(H \union U \union W) <= Pot(n, H, U, W, G)
<1> DEFINE A == H \union U \union W
<1>1. IsFiniteSet(A) /\ Cardinality(A) \in Nat
      BY CallsAreFinite
<1>2. Cardinality(H) \in Nat /\ Cardinality(H) <= Cardinality(A)
      BY <1>1, CardSubset
<1>3. A # {} => Cardinality(A) >= 1
      BY <1>1, FS_EmptySet
<1>4. A = {} => Cardinality(A) = 0
      BY FS_EmptySet
<1>5. Pot(n, H, U, W, G) = IF n /\ U = {} THEN Cardinality(H) ELSE IF A # {} THEN Cardinality(A)
                           ELSE IF G # {} THEN 0 ELSE 1
      BY DEF Pot
<1> HIDE DEF A
<1>6. QED BY <1>1, <1>2, <1>3, <1>4, <1>5 DEF A

\* A step that sends nothing leaves no more to send.
LEMMA PotCalm ==
    ASSUME NEW c \in Calls, NEW n \in BOOLEAN, NEW n2 \in BOOLEAN,
           NEW H, NEW U, NEW W, NEW G, NEW H2, NEW U2, NEW W2, NEW G2,
           H \subseteq Calls, U \subseteq Calls, W \subseteq Calls,
           Apart(H, H2, c), Apart(U, U2, c), Apart(W, W2, c), Apart(G, G2, c),
           Calm(n, n2, c \in H, c \in U, c \in W, c \in G, c \in H2, c \in U2, c \in W2, c \in G2)
    PROVE  Pot(n2, H2, U2, W2, G2) <= Pot(n, H, U, W, G)
<1> DEFINE A  == H \union U \union W
           A2 == H2 \union U2 \union W2
<1>1. /\ n /\ U = {} => n2 /\ U2 = {} /\ H2 \subseteq H
      /\ A2 \subseteq A
      /\ A = {} /\ G # {} /\ ~n => G2 # {} \/ n2
      BY DEF Calm, Apart
<1>2. H2 \subseteq Calls /\ U2 \subseteq Calls /\ W2 \subseteq Calls
      BY <1>1
<1>3. CASE n /\ U = {}
  <2>1. Cardinality(H2) <= Cardinality(H)
        BY <1>1, <1>3, CallsAreFinite, CardSubset
  <2>2. QED BY <1>1, <1>3, <2>1 DEF Pot
<1>4. CASE ~(n /\ U = {}) /\ A # {}
  <2>1. Pot(n, H, U, W, G) = Cardinality(A)
        BY <1>4 DEF Pot
  <2>2. Cardinality(A2) <= Cardinality(A) /\ Cardinality(A2) \in Nat /\ Cardinality(A) \in Nat
        BY <1>1, CallsAreFinite, CardSubset
  <2>3. Cardinality(A) >= 1
        BY <1>4, PotIsNumber
  <2>4. Pot(n2, H2, U2, W2, G2) \in Nat /\ (A2 # {} => Pot(n2, H2, U2, W2, G2) <= Cardinality(A2))
        BY <1>2, PotIsNumber
  <2>5. A2 = {} => Pot(n2, H2, U2, W2, G2) <= 1
    <3>1. A2 = {} => Cardinality(A2) = 0
          BY FS_EmptySet
    <3>2. Pot(n2, H2, U2, W2, G2) <= Cardinality(A2) + 1
          BY <1>2, PotIsNumber
    <3>3. QED BY <3>1, <3>2
  <2> HIDE DEF A, A2
  <2>6. QED BY <2>1, <2>2, <2>3, <2>4, <2>5
<1>5. CASE ~(n /\ U = {}) /\ A = {}
  <2>1. A2 = {} /\ H2 = {} /\ U2 = {} /\ ~n
        BY <1>1, <1>5
  <2>2. Cardinality(H2) = 0
        BY <2>1, FS_EmptySet
  <2>3. QED BY <1>1, <1>5, <2>1, <2>2 DEF Pot
<1>6. QED BY <1>3, <1>4, <1>5

\* A step that sends leaves one less to send.
LEMMA PotSending ==
    ASSUME NEW c \in Calls, NEW n \in BOOLEAN, NEW n2 \in BOOLEAN,
           NEW H, NEW U, NEW W, NEW G, NEW H2, NEW U2, NEW W2, NEW G2,
           H \subseteq Calls, U \subseteq Calls, W \subseteq Calls,
           Apart(H, H2, c), Apart(U, U2, c), Apart(W, W2, c), Apart(G, G2, c),
           Sending(n, n2, c \in H, c \in U, c \in W, c \in H2, c \in U2, c \in W2, c \in G2)
    PROVE  Pot(n2, H2, U2, W2, G2) + 1 <= Pot(n, H, U, W, G)
<1> DEFINE A  == H \union U \union W
           A2 == H2 \union U2 \union W2
<1>1. /\ n /\ U = {} => n2 /\ U2 = {} /\ H2 \subseteq H \ {c} /\ c \in H
      /\ A2 \subseteq A \ {c} /\ c \in A
      /\ G2 # {} \/ n2
      BY DEF Sending, Apart
<1>2. H2 \subseteq Calls /\ U2 \subseteq Calls /\ W2 \subseteq Calls
      BY <1>1
<1>3. CASE n /\ U = {}
  <2>1. Cardinality(H2) + 1 <= Cardinality(H)
        BY <1>1, <1>3, CallsAreFinite, CardOneLess
  <2>2. QED BY <1>1, <1>3, <2>1 DEF Pot
<1>4. CASE ~(n /\ U = {})
  <2>1. Pot(n, H, U, W, G) = Cardinality(A)
        BY <1>1, <1>4 DEF Pot
  <2>2. Cardinality(A2) + 1 <= Cardinality(A) /\ Cardinality(A2) \in Nat /\ Cardinality(A) \in Nat
        BY <1>1, CallsAreFinite, CardOneLess
  <2>3. Pot(n2, H2, U2, W2, G2) \in Nat /\ (A2 # {} => Pot(n2, H2, U2, W2, G2) <= Cardinality(A2))
        BY <1>2, PotIsNumber
  <2>4. A2 = {} => Pot(n2, H2, U2, W2, G2) = 0
    <3>1. Cardinality({}) = 0
          BY FS_EmptySet
    <3>2. QED BY <1>1, <3>1 DEF Pot
  <2> HIDE DEF A, A2
  <2>5. QED BY <2>1, <2>2, <2>3, <2>4
<1>5. QED BY <1>3, <1>4

\* A trouble adds one at most.
LEMMA PotTrouble ==
    ASSUME NEW c \in Calls, NEW n \in BOOLEAN,
           NEW H, NEW U, NEW W, NEW G, NEW H2, NEW U2, NEW W2, NEW G2,
           H \subseteq Calls, U \subseteq Calls, W \subseteq Calls,
           Apart(H, H2, c), Apart(U, U2, c), Apart(W, W2, c), c \notin U2
    PROVE  Pot(n, H2, U2, W2, G2) <= Pot(n, H, U, W, G) + 1
<1> DEFINE A  == H \union U \union W
           A2 == H2 \union U2 \union W2
<1>1. U2 \subseteq U /\ H2 \subseteq H \union {c} /\ A2 \subseteq A \union {c}
      BY DEF Apart
<1>2. H2 \subseteq Calls /\ U2 \subseteq Calls /\ W2 \subseteq Calls
      BY <1>1
<1>3. CASE n /\ U = {}
  <2>1. Cardinality(H2) <= Cardinality(H) + 1
        BY <1>1, CallsAreFinite, CardOneMore
  <2>2. QED BY <1>1, <1>3, <2>1 DEF Pot
<1>4. CASE ~(n /\ U = {})
  <2>1. Cardinality(A) <= Pot(n, H, U, W, G) /\ Pot(n, H, U, W, G) \in Nat
        BY <1>4, PotIsNumber
  <2>2. Cardinality(A2) <= Cardinality(A) + 1 /\ Cardinality(A2) \in Nat /\ Cardinality(A) \in Nat
        BY <1>1, CallsAreFinite, CardOneMore
  <2>3. Pot(n, H2, U2, W2, G2) \in Nat /\ (A2 # {} => Pot(n, H2, U2, W2, G2) <= Cardinality(A2))
        BY <1>2, PotIsNumber
  <2>4. A2 = {} => Pot(n, H2, U2, W2, G2) <= 1
    <3>1. A2 = {} => Cardinality(A2) = 0
          BY FS_EmptySet
    <3>2. Pot(n, H2, U2, W2, G2) <= Cardinality(A2) + 1
          BY <1>2, PotIsNumber
    <3>3. QED BY <3>1, <3>2
  <2> HIDE DEF A, A2
  <2>5. QED BY <2>1, <2>2, <2>3, <2>4
<1>5. QED BY <1>3, <1>4

\* The first handler under way has no more to send than the next one had.
LEMMA PotStart ==
    ASSUME NEW c \in Calls, NEW n \in BOOLEAN, NEW W2, NEW G2, W2 \subseteq {c}
    PROVE  Pot(n, {}, {}, W2, G2) <= Pot(n, {}, {}, {}, {})
<1>1. Cardinality({}) = 0 /\ Cardinality({c}) = 1
      BY FS_EmptySet, FS_Singleton
<1>2. W2 = {} \/ W2 = {c}
      OBVIOUS
<1>3. {} \union {} \union W2 = W2 /\ {} \union {} \union {} = {}
      OBVIOUS
<1>4. QED BY <1>1, <1>2, <1>3 DEF Pot

-----------------------------------------------------------------------------
(* The thanks.                                                             *)

\* Handler c and the thanks for donation d on channel ch, before and after its step.
ThanksCalm(c, d, ch) ==
    LET k == call[c]
        r == call'[c]
    IN  Calm(ch \in donation[d].sent, ch \in donation'[d].sent,
             Sends(k, d, ch), Holds(k, d, ch), MayThank(k, d, ch), Flags(k, d, ch),
             Sends(r, d, ch), Holds(r, d, ch), MayThank(r, d, ch), Flags(r, d, ch))

ThanksSent(c, d, ch) ==
    LET k == call[c]
        r == call'[c]
    IN  Sending(ch \in donation[d].sent, ch \in donation'[d].sent,
                Sends(k, d, ch), Holds(k, d, ch), MayThank(k, d, ch),
                Sends(r, d, ch), Holds(r, d, ch), MayThank(r, d, ch), Flags(r, d, ch))

\* What a step of c does to those who may send thanks.
LEMMA ThankersStep ==
    ASSUME Placed, NEW c \in Calls, Only(c), DonationsStay, freq' = freq,
           NEW d \in DOMAIN donation, NEW ch
    PROVE  /\ Apart(Senders(d, ch), Senders(d, ch)', c)
           /\ Apart(Holders(d, ch), Holders(d, ch)', c)
           /\ Apart(Thankers(d, ch), Thankers(d, ch)', c)
           /\ Apart(Flaggers(d, ch), Flaggers(d, ch)', c)
           /\ Senders(d, ch) \subseteq Calls /\ Holders(d, ch) \subseteq Calls
           /\ Thankers(d, ch) \subseteq Calls
           /\ c \in Senders(d, ch) <=> Sends(call[c], d, ch)
           /\ c \in Holders(d, ch) <=> Holds(call[c], d, ch)
           /\ c \in Thankers(d, ch) <=> MayThank(call[c], d, ch)
           /\ c \in Flaggers(d, ch) <=> Flags(call[c], d, ch)
           /\ c \in Senders(d, ch)' <=> Sends(call'[c], d, ch)
           /\ c \in Holders(d, ch)' <=> Holds(call'[c], d, ch)
           /\ c \in Thankers(d, ch)' <=> MayThank(call'[c], d, ch)
           /\ c \in Flaggers(d, ch)' <=> Flags(call'[c], d, ch)
<1>1. ASSUME NEW x \in Calls
      PROVE  /\ Sends(call[x], d, ch)' <=> Sends(call'[x], d, ch)
             /\ Holds(call[x], d, ch)' <=> Holds(call'[x], d, ch)
             /\ Flags(call[x], d, ch)' <=> Flags(call'[x], d, ch)
             /\ MayThank(call[x], d, ch)' <=> MayThank(call'[x], d, ch)
  <2>1. donation'[d].for = donation[d].for
        BY DEF DonationsStay
  <2>2. Coming(call[x])' = Coming(call'[x])
        BY DEF Coming, Later, Queue, InRun
  <2>3. MayThank(call[x], d, ch)' <=> MayThank(call'[x], d, ch)
        BY <2>1, <2>2 DEF MayThank, InRun, Others, First
  <2>4. QED BY <2>3 DEF Sends, Holds, Flags, Others, First
<1>2. ASSUME NEW x \in Calls \ {c}
      PROVE  /\ Sends(call'[x], d, ch) <=> Sends(call[x], d, ch)
             /\ Holds(call'[x], d, ch) <=> Holds(call[x], d, ch)
             /\ Flags(call'[x], d, ch) <=> Flags(call[x], d, ch)
             /\ MayThank(call'[x], d, ch) <=> MayThank(call[x], d, ch)
  <2>1. /\ call'[x].op = call[x].op /\ call'[x].pc = call[x].pc
        /\ call'[x].todo = call[x].todo /\ call'[x].last = call[x].last
        /\ call'[x].rows = call[x].rows /\ call'[x].ids = call[x].ids /\ call'[x].p = call[x].p
        /\ call'[x].d = call[x].d /\ call'[x].chans = call[x].chans
        BY OthersAre
  <2>2. Coming(call'[x]) = Coming(call[x])
        BY <2>1 DEF Coming, Later, Queue, InRun
  <2>3. QED BY <2>1, <2>2 DEF Sends, Holds, Flags, MayThank, InRun, Others, First
<1>3. QED BY <1>1, <1>2 DEF Senders, Holders, Thankers, Flaggers, Apart

LEMMA ThanksPotCalm ==
    ASSUME Placed, NEW c \in Calls, Only(c), DonationsStay, freq' = freq,
           NEW d \in DOMAIN donation, NEW ch, ThanksCalm(c, d, ch)
    PROVE  ThanksPot(d, ch)' <= ThanksPot(d, ch)
<1> DEFINE n  == ch \in donation[d].sent
           n2 == ch \in donation'[d].sent
<1>1. n \in BOOLEAN /\ n2 \in BOOLEAN
      OBVIOUS
<1>2. Calm(n, n2, c \in Senders(d, ch), c \in Holders(d, ch), c \in Thankers(d, ch),
           c \in Flaggers(d, ch), c \in Senders(d, ch)', c \in Holders(d, ch)',
           c \in Thankers(d, ch)', c \in Flaggers(d, ch)')
      BY ThankersStep DEF ThanksCalm, Calm
<1>3. Pot(n2, Senders(d, ch)', Holders(d, ch)', Thankers(d, ch)', Flaggers(d, ch)')
          <= Pot(n, Senders(d, ch), Holders(d, ch), Thankers(d, ch), Flaggers(d, ch))
      BY <1>1, <1>2, ThankersStep, PotCalm
<1>4. QED BY <1>3 DEF ThanksPot

LEMMA ThanksPotSent ==
    ASSUME Placed, NEW c \in Calls, Only(c), DonationsStay, freq' = freq,
           NEW d \in DOMAIN donation, NEW ch, ThanksSent(c, d, ch)
    PROVE  ThanksPot(d, ch)' + 1 <= ThanksPot(d, ch)
<1> DEFINE n  == ch \in donation[d].sent
           n2 == ch \in donation'[d].sent
<1>1. n \in BOOLEAN /\ n2 \in BOOLEAN
      OBVIOUS
<1>2. Sending(n, n2, c \in Senders(d, ch), c \in Holders(d, ch), c \in Thankers(d, ch),
              c \in Senders(d, ch)', c \in Holders(d, ch)', c \in Thankers(d, ch)',
              c \in Flaggers(d, ch)')
      BY ThankersStep DEF ThanksSent, Sending
<1>3. Pot(n2, Senders(d, ch)', Holders(d, ch)', Thankers(d, ch)', Flaggers(d, ch)') + 1
          <= Pot(n, Senders(d, ch), Holders(d, ch), Thankers(d, ch), Flaggers(d, ch))
      BY <1>1, <1>2, ThankersStep, PotSending
<1>4. QED BY <1>3 DEF ThanksPot

\* A run does not come back to the pledge it is at.
LEMMA NotComing ==
    ASSUME NEW k \in Call, CallOK(k), k.op = "job", k.pc \in Working
    PROVE  k.p \in Pledges /\ freq[k.p] = Head(k.todo) /\ k.p \notin Coming(k) /\ k.chans # {}
<1>1. ChunkOK(k)
      BY DEF CallOK, RunOK, InRun, RunPcs, Working
<1>2. k.p \in DOMAIN k.rows \ k.ids /\ freq[k.p] = Head(k.todo) /\ k.p <= k.last /\ k.chans # {}
      BY <1>1 DEF ChunkOK
<1>3. k.p \in Pledges /\ k.p \in Int /\ k.last \in Int
      BY <1>2, RowsAreRows DEF Call, Targets, Pledges, Sub
<1>4. k.p \notin Queue(k)
      BY <1>2 DEF Queue, Working
<1>5. k.p \notin Later(k)
      BY <1>2, <1>3 DEF Later
<1>6. QED BY <1>2, <1>3, <1>4, <1>5 DEF Coming

\* The flags of a donation when one of them changes.
LEMMA SentIs ==
    ASSUME Placed, NEW d \in DOMAIN donation, NEW e \in DOMAIN donation, NEW S,
           donation' = [donation EXCEPT ![e].sent = S]
    PROVE  donation'[d].sent = IF d = e THEN S ELSE donation[d].sent
<1>1. donation[d] \in Donation /\ donation[e] \in Donation
      BY DEF Placed, TypeOK
<1>2. QED BY <1>1 DEF Donation

\* A run that stays at its pledge, not to send thanks, or goes on to another.
LEMMA ThanksMoves ==
    ASSUME NEW c \in Calls, call'[c].pc \notin {"thank", "flag"} \union PayPcs,
           call[c].pc # "flag",
           Coming(call'[c]) \subseteq Coming(call[c]),
           call'[c].pc = "findPaid" => call'[c].p \in Coming(call[c]),
           NEW d \in DOMAIN donation, NEW ch, donation'[d].sent = donation[d].sent
    PROVE  ThanksCalm(c, d, ch)
BY DEF ThanksCalm, Calm, Sends, Holds, MayThank, Flags, PayPcs

\* A run goes on with thanks, or with another pledge.
LEMMA PassedComing ==
    ASSUME NEW k \in Call, NEW r \in Call, NEW M, Passed(k, r, M)
    PROVE  /\ Coming(r) \subseteq Coming(k)
           /\ r.pc = "findPaid" => r.p \in Coming(k)
           /\ r.pc \in {"findPaid", "template", "findOpen", "mark", "chunk"}
BY DEF Passed, Coming, Working

LEMMA RunThanksCalm ==
    ASSUME Placed, NEW c \in Calls, CallOK(call'[c]), Only(c),
           ReadsChunk(c) \/ Looks(c) \/ RunTemplates(c) \/ FindsOpen(c) \/ RunReminds(c) \/ RunMarks(c),
           NEW d \in DOMAIN donation, NEW ch
    PROVE  ThanksCalm(c, d, ch)
<1> DEFINE k == call[c]
           r == call'[c]
<1>1. k \in Call /\ r \in Call
      BY DEF Placed, TypeOK, Only
<1>2. ASSUME Stays(k, r), r.pc \in {"lookup", "template", "insert", "remind"}
      PROVE  r.pc \notin {"thank", "flag"} \union PayPcs /\ Coming(r) \subseteq Coming(k)
             /\ r.pc # "findPaid"
      BY <1>2 DEF Stays, Coming, PayPcs
<1>3. ASSUME NEW M, Passed(k, r, M)
      PROVE  r.pc \notin {"thank", "flag"} \union PayPcs /\ Coming(r) \subseteq Coming(k)
             /\ (r.pc = "findPaid" => r.p \in Coming(k))
      BY <1>1, <1>3, PassedComing DEF PayPcs
<1>4. CASE ReadsChunk(c)
  <2>1. r.pc \in {"subRead", "chunk", "lookup"} /\ donation' = donation /\ k.pc = "chunk"
        BY <1>4 DEF ReadsChunk
  <2>2. Coming(r) \subseteq Coming(k)
        BY <1>4 DEF ReadsChunk, Coming, Queue, InRun, Working, RunPcs
  <2>3. QED BY <2>1, <2>2, ThanksMoves DEF PayPcs
<1>5. CASE Looks(c)
  <2>1. k.pc = "lookup" /\ donation' = donation
        BY <1>5 DEF Looks
  <2>2. (Stays(k, r) /\ r.pc = "lookup") \/ Passed(k, r, {})
        BY <1>5 DEF Looks
  <2>3. QED BY <1>2, <1>3, <2>1, <2>2, ThanksMoves
<1>6. CASE RunTemplates(c)
  <2>1. k.pc = "template" /\ donation' = donation
        BY <1>6 DEF RunTemplates
  <2>2. (Stays(k, r) /\ r.pc = "template") \/ Passed(k, r, k.marks)
        BY <1>6 DEF RunTemplates, GoesOn
  <2>3. QED BY <1>2, <1>3, <2>1, <2>2, ThanksMoves
<1>7. CASE FindsOpen(c)
  <2>1. k.pc = "findOpen" /\ donation' = donation /\ Stays(k, r) /\ r.pc \in {"insert", "remind"}
        BY <1>7 DEF FindsOpen
  <2>2. QED BY <1>2, <2>1, ThanksMoves
<1>8. CASE RunReminds(c)
  <2>1. k.pc = "remind" /\ donation' = donation
        BY <1>8 DEF RunReminds
  <2>2. (Stays(k, r) /\ r.pc = "remind") \/ \E M : Passed(k, r, M)
        BY <1>8 DEF RunReminds
  <2>3. QED BY <1>2, <1>3, <2>1, <2>2, ThanksMoves
<1>9. CASE RunMarks(c)
  <2>1. k.pc = "mark" /\ donation' = donation
        BY <1>9 DEF RunMarks
  <2>2. r = NoCall \/ (r.pc \in {"mark", "chunk"} /\ Later(r) \subseteq Later(k) /\ Queue(r) = {})
        BY <1>9 DEF RunMarks
  <2>3. r = NoCall => r.pc = "none" /\ Later(r) = {} /\ Queue(r) = {}
        BY DEF NoCall, Later, Queue, InRun
  <2>4. Coming(r) \subseteq Coming(k) /\ r.pc \in {"none", "mark", "chunk"}
        BY <2>2, <2>3 DEF Coming
  <2>5. QED BY <2>1, <2>4, ThanksMoves DEF PayPcs
<1>10. QED BY <1>4, <1>5, <1>6, <1>7, <1>8, <1>9

\* A run finds flags that are not set yet.
LEMMA FindsPaidCalm ==
    ASSUME Placed, NEW c \in Calls, Only(c), FindsPaid(c), NEW d \in DOMAIN donation, NEW ch
    PROVE  ThanksCalm(c, d, ch)
<1> DEFINE k == call[c]
           r == call'[c]
<1>1. k \in Call /\ r \in Call /\ donation' = donation /\ k.op = "job" /\ k.pc = "findPaid"
      BY DEF Placed, TypeOK, Only, FindsPaid
<1>2. CASE Passed(k, r, k.marks)
      BY <1>1, <1>2, PassedComing, ThanksMoves DEF PayPcs
<1>3. CASE Stays(k, r) /\ r.pc = "thank" /\ donation[r.d].for = k.p
           /\ r.chans = Channel \ donation[r.d].sent
  <2>1. Sends(r, d, ch) => ch \notin donation[d].sent /\ MayThank(k, d, ch)
        BY <1>1, <1>3 DEF Sends, MayThank, InRun, RunPcs, Working
  <2>2. ~Holds(r, d, ch) /\ ~Flags(r, d, ch) /\ ~Flags(k, d, ch)
        BY <1>1, <1>3 DEF Holds, Flags
  <2>3. MayThank(r, d, ch) => MayThank(k, d, ch)
        BY <1>3 DEF MayThank, Stays, Coming
  <2>4. QED BY <1>1, <2>1, <2>2, <2>3 DEF ThanksCalm, Calm
<1>4. QED BY <1>2, <1>3 DEF FindsPaid

\* A run sends thanks, and then sets the flag.
LEMMA RunThanksSent ==
    ASSUME Placed, NEW c \in Calls, Only(c), CallOK(call'[c]), RunThanks(c),
           NEW d \in DOMAIN donation, NEW ch
    PROVE  LET k == call[c]
           IN  /\ k.d \in DOMAIN donation /\ First(k) \in Channel
               /\ \/ /\ Thanked(k.d, First(k))
                     /\ IF d = k.d /\ ch = First(k) THEN ThanksSent(c, d, ch) ELSE ThanksCalm(c, d, ch)
                  \/ thanks' = thanks /\ ThanksCalm(c, d, ch)
<1> DEFINE k == call[c]
           r == call'[c]
<1>1. /\ k \in Call /\ r \in Call /\ donation' = donation /\ k.op = "job" /\ k.pc = "thank"
      /\ CallOK(k)
      BY DEF Placed, TypeOK, Only, RunThanks
<1>2. k.chans # {} /\ k.p \notin Coming(k)
      BY <1>1, NotComing DEF Working
<1>3. First(k) \in k.chans /\ First(k) \in Channel
      BY <1>1, <1>2, FirstIsLeft
<1>4. k.d \in DOMAIN donation /\ donation[k.d].for = k.p
      BY <1>1 DEF CallOK, RunOK, ChunkOK, InRun, RunPcs, Working
<1>5. CASE Thanked(k.d, First(k)) /\ Stays(k, r) /\ r.pc = "flag" /\ r.d = k.d /\ r.chans = k.chans
  <2>1. First(r) = First(k) /\ Others(r) = Others(k)
        BY <1>5 DEF First, Others
  <2>2. Coming(r) \subseteq Coming(k)
        BY <1>5 DEF Stays, Coming
  <2>3. MayThank(r, d, ch) => MayThank(k, d, ch)
        BY <1>5, <2>2 DEF MayThank
  <2>4. ~Holds(r, d, ch) /\ ~Flags(k, d, ch) /\ ~Holds(k, d, ch)
        BY <1>1, <1>5 DEF Holds, Flags
  <2>5. CASE d = k.d /\ ch = First(k)
    <3>1. Sends(k, d, ch) /\ Flags(r, d, ch) /\ ~Sends(r, d, ch)
          BY <1>1, <1>3, <1>5, <2>1, <2>5 DEF Sends, Flags, Others
    <3>2. ~MayThank(r, d, ch)
          BY <1>2, <1>4, <1>5, <2>2, <2>5 DEF MayThank
    <3>3. ThanksSent(c, d, ch)
          BY <1>1, <2>4, <3>1, <3>2 DEF ThanksSent, Sending
    <3>4. QED BY <1>3, <1>4, <1>5, <2>5, <3>3
  <2>6. CASE ~(d = k.d /\ ch = First(k))
    <3>1. Sends(r, d, ch) => Sends(k, d, ch)
          BY <1>1, <1>5, <2>1 DEF Sends, Others
    <3>2. ThanksCalm(c, d, ch)
          BY <1>1, <2>3, <2>4, <3>1 DEF ThanksCalm, Calm
    <3>3. QED BY <1>3, <1>4, <1>5, <2>6, <3>2
  <2>7. QED BY <2>5, <2>6
<1>6. CASE GoesOn(k, r, "thank", k.marks) /\ thanks' = thanks
  <2>1. CASE Passed(k, r, k.marks)
    <3>1. ThanksCalm(c, d, ch)
          BY <1>1, <2>1, PassedComing, ThanksMoves DEF PayPcs
    <3>2. QED BY <1>3, <1>4, <1>6, <3>1
  <2>2. CASE Stays(k, r) /\ r.pc = "thank" /\ r.d = k.d /\ r.chans = Others(k)
    <3>1. Sends(r, d, ch) => Sends(k, d, ch)
          BY <1>1, <2>2 DEF Sends, Others
    <3>2. MayThank(r, d, ch) => MayThank(k, d, ch)
          BY <2>2 DEF MayThank, Stays, Coming
    <3>3. ~Holds(r, d, ch) /\ ~Flags(r, d, ch) /\ ~Flags(k, d, ch)
          BY <1>1, <2>2 DEF Holds, Flags
    <3>4. ThanksCalm(c, d, ch)
          BY <1>1, <3>1, <3>2, <3>3 DEF ThanksCalm, Calm
    <3>5. QED BY <1>3, <1>4, <1>6, <3>4
  <2>3. QED BY <1>6, <2>1, <2>2 DEF GoesOn
<1>7. QED BY <1>5, <1>6 DEF RunThanks

LEMMA RunFlagsCalm ==
    ASSUME Placed, NEW c \in Calls, Only(c), RunFlags(c), NEW d \in DOMAIN donation, NEW ch
    PROVE  ThanksCalm(c, d, ch)
<1> DEFINE k == call[c]
           r == call'[c]
<1>1. k \in Call /\ r \in Call /\ k.op = "job" /\ k.pc = "flag" /\ CallOK(k)
      BY DEF Placed, TypeOK, Only, RunFlags
<1>2. k.d \in DOMAIN donation
      BY <1>1 DEF CallOK, RunOK, ChunkOK, InRun, RunPcs, Working
<1>3. donation'[d].sent = IF d = k.d THEN donation[k.d].sent \union {First(k)} ELSE donation[d].sent
      BY <1>2, SentIs DEF RunFlags
<1>4. ~Holds(r, d, ch) /\ ~Flags(r, d, ch) /\ (Sends(r, d, ch) => Sends(k, d, ch))
      /\ (MayThank(r, d, ch) => MayThank(k, d, ch))
  <2>1. CASE Passed(k, r, k.marks)
    <3>1. /\ Coming(r) \subseteq Coming(k) /\ (r.pc = "findPaid" => r.p \in Coming(k))
          /\ r.pc \in {"findPaid", "template", "findOpen", "mark", "chunk"}
          BY <1>1, <2>1, PassedComing
    <3>2. QED BY <3>1 DEF Holds, Flags, Sends, MayThank
  <2>2. CASE Stays(k, r) /\ r.pc = "thank" /\ r.d = k.d /\ r.chans = Others(k)
    <3>1. Sends(r, d, ch) => Sends(k, d, ch)
          BY <1>1, <2>2 DEF Sends
    <3>2. MayThank(r, d, ch) => MayThank(k, d, ch)
          BY <2>2 DEF MayThank, Stays, Coming
    <3>3. QED BY <2>2, <3>1, <3>2 DEF Holds, Flags
  <2>3. QED BY <2>1, <2>2 DEF RunFlags, GoesOn
<1>5. Flags(k, d, ch) => ch \in donation'[d].sent
      BY <1>3 DEF Flags
<1>6. ch \in donation[d].sent => ch \in donation'[d].sent
      BY <1>3
<1>7. QED BY <1>4, <1>5, <1>6 DEF ThanksCalm, Calm

\* A handler that has nothing to do with thanks any more.
LEMMA ThanksOut ==
    ASSUME NEW c \in Calls, call'[c].pc \notin RunPcs \union PayPcs, call[c].pc # "flag",
           NEW d \in DOMAIN donation, NEW ch, ch \in donation[d].sent => ch \in donation'[d].sent
    PROVE  ThanksCalm(c, d, ch)
BY DEF ThanksCalm, Calm, Sends, Holds, MayThank, Flags, Coming, Later, Queue, InRun, RunPcs, Working,
       PayPcs

LEMMA RunInsertsCalm ==
    ASSUME Placed, NEW c \in Calls, Only(c), RunInserts(c), NEW d \in DOMAIN donation, NEW ch
    PROVE  ThanksCalm(c, d, ch)
<1> DEFINE k == call[c]
           r == call'[c]
<1>1. /\ k \in Call /\ k.pc = "insert" /\ Stays(k, r) /\ r.pc = "remind"
      /\ donation' = Append(donation, NewLink(k.p))
      BY DEF Placed, TypeOK, RunInserts
<1>2. k.p \in Targets
      BY <1>1 DEF Call
<1>3. donation'[d] = donation[d]
      BY <1>1, <1>2, LinkAppended
<1>4. Coming(r) \subseteq Coming(k)
      BY <1>1 DEF Stays, Coming
<1>5. QED BY <1>1, <1>3, <1>4, ThanksMoves DEF PayPcs

LEMMA SubThanksCalm ==
    ASSUME Placed, NEW c \in Calls, Only(c), SubDoes(c), NEW d \in DOMAIN donation, NEW ch
    PROVE  ThanksCalm(c, d, ch)
<1> DEFINE k == call[c]
           r == call'[c]
<1>1. NoCall.pc = "none"
      BY DEF NoCall
<1>2. k.pc # "flag" /\ r.pc \in SubPcs \union {"none"}
      BY <1>1 DEF SubDoes, SubReads, SubPasses, SubInserts, SubSends, SubNotes, SubPcs
<1>3. r.pc \notin RunPcs \union PayPcs
      BY <1>2 DEF SubPcs, RunPcs, PayPcs, Working
<1>4. donation'[d] = donation[d]
  <2>1. CASE SubInserts(c)
    <3>1. Sub \in Targets /\ donation' = Append(donation, NewLink(Sub))
          BY <2>1 DEF SubInserts, Targets
    <3>2. QED BY <3>1, LinkAppended
  <2>2. CASE ~SubInserts(c)
        BY <2>2 DEF SubDoes, SubReads, SubPasses, SubSends, SubNotes
  <2>3. QED BY <2>1, <2>2
<1>5. QED BY <1>2, <1>3, <1>4, ThanksOut

\* A payment that goes on with the other channels.
LEMMA NextClaimMay ==
    ASSUME NEW k, NEW r, ClaimsNext(k, r), NEW d, NEW ch
    PROVE  /\ ~Sends(r, d, ch) /\ ~Holds(r, d, ch) /\ ~Flags(r, d, ch)
           /\ MayThank(r, d, ch) => k.d = d /\ ch \in Others(k)
<1>1. CASE r = NoCall
      BY <1>1 DEF NoCall, Sends, Holds, Flags, MayThank, Coming, Later, Queue, InRun
<1>2. CASE r.op = "pay" /\ r.pc = "claim" /\ r.d = k.d /\ r.chans = Others(k)
      BY <1>2 DEF Sends, Holds, Flags, MayThank, Coming, Later, Queue, InRun
<1>3. QED BY <1>1, <1>2 DEF ClaimsNext

LEMMA ClaimsCalm ==
    ASSUME Placed, NEW c \in Calls, Only(c), Claims(c), NEW d \in DOMAIN donation, NEW ch
    PROVE  ThanksCalm(c, d, ch)
<1> DEFINE k == call[c]
           r == call'[c]
           f == First(k)
<1>1. /\ k \in Call /\ k.op = "pay" /\ k.pc = "claim" /\ k.d \in DOMAIN donation /\ k.chans # {}
      BY PayIs DEF Claims, PayPcs
<1>2. f \in k.chans
      BY <1>1, FirstIsLeft
<1>3. donation'[d].sent = IF d = k.d THEN donation[k.d].sent \union {f} ELSE donation[d].sent
      BY <1>1, SentIs DEF Claims
<1>4. /\ ~Flags(k, d, ch)
      /\ MayThank(k, d, ch) <=> (k.d = d /\ ch \in k.chans)
      BY <1>1 DEF Flags, MayThank, Coming, Later, Queue, InRun
<1>5. CASE f \in donation[k.d].sent
  <2>1. ~Sends(r, d, ch) /\ ~Holds(r, d, ch) /\ (MayThank(r, d, ch) => k.d = d /\ ch \in Others(k))
        BY <1>5, NextClaimMay DEF Claims
  <2>2. MayThank(r, d, ch) => MayThank(k, d, ch)
        BY <1>4, <2>1 DEF Others
  <2>3. QED BY <1>3, <1>4, <2>1, <2>2 DEF ThanksCalm, Calm
<1>6. CASE f \notin donation[k.d].sent
  <2>1. r.op = "pay" /\ r.pc = "send" /\ r.d = k.d /\ r.chans = k.chans
        BY <1>6 DEF Claims
  <2>2. First(r) = f /\ Others(r) = Others(k)
        BY <2>1 DEF First, Others
  <2>3. ~Sends(r, d, ch)
        BY <2>1 DEF Sends
  <2>4. MayThank(r, d, ch) => MayThank(k, d, ch)
        BY <1>4, <2>1, <2>2 DEF MayThank, Coming, Later, Queue, InRun, Others
  <2>5. Holds(r, d, ch) => MayThank(k, d, ch) /\ ch \notin donation[d].sent
        BY <1>2, <1>4, <1>6, <2>1, <2>2 DEF Holds
  <2>6. QED BY <1>3, <1>4, <2>3, <2>4, <2>5 DEF ThanksCalm, Calm
<1>7. QED BY <1>5, <1>6

\* A payment sends thanks while it holds the flag.
LEMMA PaySendsSent ==
    ASSUME Placed, NEW c \in Calls, Only(c), PaySends(c), NEW d \in DOMAIN donation, NEW ch,
           First(call[c]) \in donation[call[c].d].sent
    PROVE  LET k == call[c]
           IN  /\ k.d \in DOMAIN donation /\ First(k) \in Channel
               /\ \/ /\ Thanked(k.d, First(k))
                     /\ IF d = k.d /\ ch = First(k) THEN ThanksSent(c, d, ch) ELSE ThanksCalm(c, d, ch)
                  \/ thanks' = thanks /\ ThanksCalm(c, d, ch)
<1> DEFINE k == call[c]
           r == call'[c]
           f == First(k)
<1>1. /\ k \in Call /\ k.op = "pay" /\ k.pc = "send" /\ k.d \in DOMAIN donation /\ k.chans # {}
      /\ donation' = donation
      BY PayIs DEF PaySends, PayPcs
<1>2. f \in k.chans /\ f \in Channel
      BY <1>1, FirstIsLeft
<1>3. /\ ~Flags(k, d, ch) /\ ~Sends(k, d, ch)
      /\ MayThank(k, d, ch) <=> (k.d = d /\ ch \in Others(k))
      /\ Holds(k, d, ch) <=> (k.d = d /\ ch = f)
      BY <1>1 DEF Flags, Sends, Holds, MayThank, Coming, Later, Queue, InRun
<1>4. CASE Thanked(k.d, f) /\ ClaimsNext(k, r)
  <2>1. ~Sends(r, d, ch) /\ ~Holds(r, d, ch) /\ (MayThank(r, d, ch) => k.d = d /\ ch \in Others(k))
        BY <1>4, NextClaimMay
  <2>2. CASE d = k.d /\ ch = f
    <3>1. ~MayThank(r, d, ch)
          BY <2>1, <2>2 DEF Others
    <3>2. ThanksSent(c, d, ch)
          BY <1>1, <1>3, <2>1, <2>2, <3>1 DEF ThanksSent, Sending
    <3>3. QED BY <1>1, <1>2, <1>4, <2>2, <3>2
  <2>3. CASE ~(d = k.d /\ ch = f)
    <3>1. ThanksCalm(c, d, ch)
          BY <1>1, <1>3, <2>1 DEF ThanksCalm, Calm
    <3>2. QED BY <1>1, <1>2, <1>4, <2>3, <3>1
  <2>4. QED BY <2>2, <2>3
<1>5. CASE r.op = "pay" /\ r.pc = "release" /\ r.d = k.d /\ r.chans = k.chans /\ thanks' = thanks
  <2>1. First(r) = f /\ Others(r) = Others(k)
        BY <1>5 DEF First, Others
  <2>2. /\ ~Sends(r, d, ch) /\ ~Flags(r, d, ch)
        /\ MayThank(r, d, ch) => MayThank(k, d, ch)
        /\ Holds(r, d, ch) => Holds(k, d, ch)
        BY <1>3, <1>5, <2>1 DEF Flags, Sends, Holds, MayThank, Coming, Later, Queue, InRun
  <2>3. ThanksCalm(c, d, ch)
        BY <1>1, <1>3, <2>2 DEF ThanksCalm, Calm
  <2>4. QED BY <1>1, <1>2, <1>5, <2>3
<1>6. QED BY <1>4, <1>5 DEF PaySends

LEMMA ReleasesCalm ==
    ASSUME Placed, NEW c \in Calls, Only(c), Releases(c), NEW d \in DOMAIN donation, NEW ch
    PROVE  ThanksCalm(c, d, ch)
<1> DEFINE k == call[c]
           r == call'[c]
           f == First(k)
<1>1. /\ k \in Call /\ k.op = "pay" /\ k.pc = "release" /\ k.d \in DOMAIN donation /\ k.chans # {}
      BY PayIs DEF Releases, PayPcs
<1>2. /\ ~Flags(k, d, ch)
      /\ MayThank(k, d, ch) <=> (k.d = d /\ ch \in Others(k))
      /\ Holds(k, d, ch) <=> (k.d = d /\ ch = f)
      BY <1>1 DEF Flags, MayThank, Holds, Coming, Later, Queue, InRun
<1>3. donation'[d].sent = IF d = k.d THEN donation[k.d].sent \ {f} ELSE donation[d].sent
      BY <1>1, SentIs DEF Releases
<1>4. ~Sends(r, d, ch) /\ ~Holds(r, d, ch) /\ (MayThank(r, d, ch) => k.d = d /\ ch \in Others(k))
      BY NextClaimMay DEF Releases
<1>5. ch \in donation[d].sent /\ ~Holds(k, d, ch) => ch \in donation'[d].sent
      BY <1>2, <1>3
<1>6. QED BY <1>2, <1>4, <1>5 DEF ThanksCalm, Calm

\* The other steps of payments, cleanups and changes of pledges.
LEMMA OtherThanksCalm ==
    ASSUME Placed, NEW c \in Calls, Only(c), OtherDoes(c), ~Claims(c), ~PaySends(c), ~Releases(c),
           NEW d \in DOMAIN donation, NEW ch
    PROVE  ThanksCalm(c, d, ch)
<1> DEFINE k == call[c]
           r == call'[c]
<1>1. \A e \in DOMAIN donation : donation[e] \in Donation
      BY DEF Placed, TypeOK
<1>2. CASE Completes(c) \/ Settles(c)
  <2>1. /\ k.op = "pay" /\ k.pc \in {"complete", "settle"} /\ k.d \in DOMAIN donation
        /\ r.op = "pay" /\ r.pc \in {"settle", "claim"} /\ r.d = k.d /\ r.chans = k.chans
        BY <1>2, PayIs DEF Completes, Settles, PayPcs
  <2>2. donation'[d].sent = donation[d].sent
        BY <1>1, <1>2, <2>1 DEF Completes, Settles, Donation
  <2>3. /\ ~Flags(k, d, ch) /\ ~Sends(r, d, ch) /\ ~Holds(r, d, ch)
        /\ MayThank(r, d, ch) => MayThank(k, d, ch)
        BY <2>1 DEF Flags, Sends, Holds, MayThank, Coming, Later, Queue, InRun
  <2>4. QED BY <2>2, <2>3 DEF ThanksCalm, Calm
<1>3. CASE Cleans(c)
  <2>1. r.pc \in {"none", "archive"} /\ k.pc # "flag"
    <3>1. NoCall.pc = "none"
          BY DEF NoCall
    <3>2. CallOK(k) /\ k.op = "cleanup"
          BY <1>3 DEF Cleans, Placed
    <3>3. k.pc \in {"today", "archive"}
          BY <3>2 DEF CallOK, PlaceOK
    <3>4. QED BY <1>3, <3>1, <3>3 DEF Cleans
  <2>2. donation'[d].sent = donation[d].sent
        BY <1>1, <1>3 DEF Cleans, Donation
  <2>3. QED BY <2>1, <2>2, ThanksOut DEF RunPcs, Working, PayPcs
<1>4. CASE Creates(c) \/ Loads(c) \/ Saves(c) \/ Counts(c) \/ FlagsDonor(c)
  <2>1. NoCall.pc = "none"
        BY DEF NoCall
  <2>2. /\ r.pc \in {"none", "recurring", "save", "count"} /\ donation' = donation
        /\ k.pc \in {"create", "load", "save", "count", "recurring"}
        BY <1>4, <2>1 DEF Creates, Loads, Saves, Counts, FlagsDonor
  <2>3. QED BY <2>2, ThanksOut DEF RunPcs, Working, PayPcs
<1>5. QED BY <1>2, <1>3, <1>4 DEF OtherDoes

\* At each donation and channel a handler's step sends nothing, or what it may send once less.
ThanksStep(c, d, ch) ==
    \/ thanks' = thanks /\ ThanksCalm(c, d, ch)
    \/ \E e \in DOMAIN donation, f \in Channel :
          /\ Thanked(e, f)
          /\ IF d = e /\ ch = f THEN ThanksSent(c, d, ch) ELSE ThanksCalm(c, d, ch)

LEMMA HandlerThanks ==
    ASSUME Placed, OneHolder, NEW c \in Calls, Only(c), CallOK(call'[c]),
           RunDoes(c) \/ SubDoes(c) \/ OtherDoes(c), NEW d \in DOMAIN donation, NEW ch
    PROVE  ThanksStep(c, d, ch)
<1>1. CASE RunThanks(c)
  <2> DEFINE k == call[c]
  <2>1. k.d \in DOMAIN donation /\ First(k) \in Channel
        BY <1>1, RunThanksSent
  <2>2. \/ /\ Thanked(k.d, First(k))
           /\ IF d = k.d /\ ch = First(k) THEN ThanksSent(c, d, ch) ELSE ThanksCalm(c, d, ch)
        \/ thanks' = thanks /\ ThanksCalm(c, d, ch)
        BY <1>1, RunThanksSent
  <2> HIDE DEF k
  <2>3. QED BY <2>1, <2>2 DEF ThanksStep
<1>2. CASE PaySends(c)
  <2> DEFINE k == call[c]
  <2>1. First(k) \in donation[k.d].sent
        BY <1>2 DEF PaySends, OneHolder
  <2>2. k.d \in DOMAIN donation /\ First(k) \in Channel
        BY <1>2, <2>1, PaySendsSent
  <2>3. \/ /\ Thanked(k.d, First(k))
           /\ IF d = k.d /\ ch = First(k) THEN ThanksSent(c, d, ch) ELSE ThanksCalm(c, d, ch)
        \/ thanks' = thanks /\ ThanksCalm(c, d, ch)
        BY <1>2, <2>1, PaySendsSent
  <2> HIDE DEF k
  <2>4. QED BY <2>2, <2>3 DEF ThanksStep
<1>3. CASE RunDoes(c) /\ ~RunThanks(c)
  <2>1. thanks' = thanks
        BY <1>3 DEF RunDoes, ReadsChunk, Looks, FindsPaid, RunFlags, RunTemplates, FindsOpen,
                    RunInserts, RunReminds, RunMarks, historyVars
  <2>2. ThanksCalm(c, d, ch)
        BY <1>3, RunThanksCalm, FindsPaidCalm, RunFlagsCalm, RunInsertsCalm DEF RunDoes
  <2>3. QED BY <2>1, <2>2 DEF ThanksStep
<1>4. CASE SubDoes(c)
  <2>1. thanks' = thanks
        BY <1>4 DEF SubDoes, SubReads, SubPasses, SubInserts, SubSends, SubNotes, historyVars
  <2>2. QED BY <1>4, <2>1, SubThanksCalm DEF ThanksStep
<1>5. CASE OtherDoes(c) /\ ~PaySends(c)
  <2>1. thanks' = thanks
        BY <1>5 DEF OtherDoes, Completes, Settles, Claims, Releases, Cleans, Creates, Loads, Saves,
                    Counts, FlagsDonor, historyVars
  <2>2. ThanksCalm(c, d, ch)
        BY <1>5, ClaimsCalm, ReleasesCalm, OtherThanksCalm
  <2>3. QED BY <2>1, <2>2 DEF ThanksStep
<1>6. QED BY <1>1, <1>2, <1>3, <1>4, <1>5

LEMMA OneMoreThanks ==
    ASSUME ThanksKept, NEW e \in DOMAIN donation, NEW f \in Channel, Thanked(e, f),
           DOMAIN donation \subseteq DOMAIN donation'
    PROVE  /\ ThanksKept'
           /\ \A d, ch : /\ Cardinality(ThanksOf(d, ch)) \in Nat
                         /\ Cardinality(ThanksOf(d, ch)') \in Nat
                         /\ Cardinality(ThanksOf(d, ch)') =
                               IF d = e /\ ch = f THEN Cardinality(ThanksOf(d, ch)) + 1
                                                  ELSE Cardinality(ThanksOf(d, ch))
<1> DEFINE n   == Cardinality(ThanksOf(e, f))
           new == <<e, f, n + 1>>
<1>1. thanks' = thanks \union {new}
      BY DEF Thanked, ThanksOf
<1>2. ASSUME NEW d, NEW ch PROVE IsFiniteSet(ThanksOf(d, ch)) /\ Cardinality(ThanksOf(d, ch)) \in Nat
  <2>1. ThanksOf(d, ch) \subseteq thanks
        BY DEF ThanksOf
  <2>2. QED BY <2>1, CardSubset DEF ThanksKept
<1>3. n \in Nat /\ IsFiniteSet(ThanksOf(e, f))
      BY <1>2
<1>4. new[1] = e /\ new[2] = f /\ new[3] = n + 1
      OBVIOUS
<1> HIDE DEF n, new
<1>5. new \notin ThanksOf(e, f)
  <2>1. SUFFICES ASSUME new \in ThanksOf(e, f) PROVE FALSE
        OBVIOUS
  <2>2. new \in thanks
        BY <2>1 DEF ThanksOf
  <2>3. n + 1 <= n
        BY <1>4, <2>2 DEF ThanksKept, n
  <2>4. QED BY <1>3, <2>3
<1>6. ThanksOf(e, f)' = ThanksOf(e, f) \union {new}
      BY <1>1, <1>4 DEF ThanksOf
<1>7. Cardinality(ThanksOf(e, f)') = n + 1
      BY <1>3, <1>5, <1>6, FS_AddElement DEF n
<1>8. ASSUME NEW d, NEW ch, ~(d = e /\ ch = f)
      PROVE  ThanksOf(d, ch)' = ThanksOf(d, ch)
      BY <1>1, <1>4, <1>8 DEF ThanksOf
<1>9. ASSUME NEW d, NEW ch
      PROVE  Cardinality(ThanksOf(d, ch)') = IF d = e /\ ch = f THEN Cardinality(ThanksOf(d, ch)) + 1
                                                                ELSE Cardinality(ThanksOf(d, ch))
      BY <1>7, <1>8 DEF n
<1>10. IsFiniteSet(thanks')
      BY <1>1, FS_AddElement DEF ThanksKept
<1>11. ASSUME NEW t \in thanks'
       PROVE  /\ t[1] \in DOMAIN donation' /\ t[2] \in Channel
              /\ t[3] \in Nat /\ t[3] <= Cardinality(ThanksOf(t[1], t[2])')
  <2>1. CASE t = new
        BY <1>3, <1>4, <1>7, <2>1
  <2>2. CASE t \in thanks
    <3>1. t[1] \in DOMAIN donation /\ t[2] \in Channel /\ t[3] \in Nat
          /\ t[3] <= Cardinality(ThanksOf(t[1], t[2]))
          BY <2>2 DEF ThanksKept
    <3>2. Cardinality(ThanksOf(t[1], t[2])) \in Nat
          BY <1>2
    <3>3. Cardinality(ThanksOf(t[1], t[2])') \in Nat
          /\ Cardinality(ThanksOf(t[1], t[2])) <= Cardinality(ThanksOf(t[1], t[2])')
          BY <1>9, <3>2
    <3>4. QED BY <3>1, <3>2, <3>3
  <2>3. QED BY <1>1, <2>1, <2>2
<1>12. \A t \in thanks' : /\ t[1] \in DOMAIN donation' /\ t[2] \in Channel
                          /\ t[3] \in Nat /\ t[3] <= Cardinality(ThanksOf(t[1], t[2])')
      BY <1>11
<1>13. ThanksKept'
  <2>1. \A t \in thanks' : ThanksOf(t[1], t[2])' = {u \in thanks' : u[1] = t[1] /\ u[2] = t[2]}
        BY DEF ThanksOf
  <2>2. QED BY <1>10, <1>12 DEF ThanksKept
<1>14. QED BY <1>2, <1>9, <1>13

\* A claimed flag is held by one payment.
LEMMA HolderStays ==
    ASSUME Placed, OneHolder, NEW c \in Calls, Only(c), CallOK(call'[c]), DonationsStay, Does(c)
    PROVE  OneHolder'
<1> DEFINE k == call[c]
           r == call'[c]
<1>1. ASSUME NEW x \in Calls, call[x].pc \in {"send", "release"}
      PROVE  /\ call[x].d \in DOMAIN donation /\ First(call[x]) \in donation[call[x].d].sent
             /\ \A y \in Calls : Holds(call[y], call[x].d, First(call[x])) => y = x
      BY <1>1, PayIs DEF OneHolder, PayPcs
<1>2. \A x \in Calls \ {c} : /\ call'[x].pc = call[x].pc /\ call'[x].d = call[x].d
                             /\ First(call'[x]) = First(call[x])
      BY OthersAre DEF First
<1>3. NoCall.pc = "none"
      BY DEF NoCall
<1>4. CASE Claims(c) /\ r.pc = "send"
  <2> DEFINE f == First(k)
  <2>1. /\ k.d \in DOMAIN donation /\ f \notin donation[k.d].sent
        /\ r.d = k.d /\ r.chans = k.chans /\ k.pc = "claim"
        /\ donation' = [donation EXCEPT ![k.d].sent = @ \union {f}]
        BY <1>3, <1>4, PayIs DEF Claims, ClaimsNext, PayPcs
  <2>2. First(r) = f
        BY <2>1 DEF First
  <2>3. \A d \in DOMAIN donation : donation'[d].sent = IF d = k.d THEN donation[k.d].sent \union {f}
                                                                  ELSE donation[d].sent
        BY <2>1, SentIs
  <2>4. ASSUME NEW x \in Calls, call'[x].pc \in {"send", "release"}
        PROVE  /\ First(call'[x]) \in donation'[call'[x].d].sent
               /\ \A y \in Calls : Holds(call'[y], call'[x].d, First(call'[x])) => y = x
    <3>1. CASE x = c
      <4>1. ASSUME NEW y \in Calls, y # c, Holds(call'[y], k.d, f) PROVE FALSE
        <5>1. Holds(call[y], k.d, f)
              BY <1>2, <4>1 DEF Holds
        <5>2. QED BY <1>1, <2>1, <5>1 DEF Holds
      <4>2. QED BY <2>1, <2>2, <2>3, <3>1, <4>1
    <3>2. CASE x # c
      <4>1. /\ call[x].pc \in {"send", "release"} /\ call'[x].d = call[x].d
            /\ First(call'[x]) = First(call[x])
            BY <1>2, <2>4, <3>2
      <4>2. /\ call[x].d \in DOMAIN donation /\ First(call[x]) \in donation[call[x].d].sent
            /\ \A y \in Calls : Holds(call[y], call[x].d, First(call[x])) => y = x
            BY <1>1, <4>1
      <4>3. ~(call[x].d = k.d /\ First(call[x]) = f)
            BY <2>1, <4>2
      <4>4. ~Holds(r, call[x].d, First(call[x]))
            BY <2>1, <2>2, <4>3 DEF Holds
      <4>5. QED BY <1>2, <2>3, <4>1, <4>2, <4>4 DEF Holds
    <3>3. QED BY <3>1, <3>2
  <2>5. QED BY <2>4 DEF OneHolder, Holds, First
<1>5. CASE Releases(c)
  <2> DEFINE f == First(k)
  <2>1. /\ k.d \in DOMAIN donation /\ k.pc = "release"
        /\ donation' = [donation EXCEPT ![k.d].sent = @ \ {f}]
        BY <1>5, PayIs DEF Releases, PayPcs
  <2>2. r.pc \notin {"send", "release"}
        BY <1>3, <1>5 DEF Releases, ClaimsNext
  <2>3. \A d \in DOMAIN donation : donation'[d].sent = IF d = k.d THEN donation[k.d].sent \ {f}
                                                                  ELSE donation[d].sent
        BY <2>1, SentIs
  <2>4. ASSUME NEW x \in Calls, call'[x].pc \in {"send", "release"}
        PROVE  /\ First(call'[x]) \in donation'[call'[x].d].sent
               /\ \A y \in Calls : Holds(call'[y], call'[x].d, First(call'[x])) => y = x
    <3>1. /\ x # c /\ call[x].pc \in {"send", "release"} /\ call'[x].d = call[x].d
          /\ First(call'[x]) = First(call[x])
          BY <1>2, <2>2, <2>4
    <3>2. /\ call[x].d \in DOMAIN donation /\ First(call[x]) \in donation[call[x].d].sent
          /\ \A y \in Calls : Holds(call[y], call[x].d, First(call[x])) => y = x
          BY <1>1, <3>1
    <3>3. ~(call[x].d = k.d /\ First(call[x]) = f)
          BY <2>1, <3>1, <3>2 DEF Holds
    <3>4. QED BY <1>2, <2>2, <2>3, <3>1, <3>2, <3>3 DEF Holds
  <2>5. QED BY <2>4 DEF OneHolder, Holds, First
<1>6. CASE ~Releases(c) /\ ~(Claims(c) /\ r.pc = "send")
  <2>1. \A d \in DOMAIN donation : donation[d].sent \subseteq donation'[d].sent
    <3>1. SUFFICES ASSUME NEW d \in DOMAIN donation, NEW ch \in donation[d].sent
                   PROVE  ch \in donation'[d].sent
          OBVIOUS
    <3>2. CASE RunFlags(c)
      <4>1. k.d \in DOMAIN donation
        <5>1. CallOK(k) /\ k.op = "job" /\ k.pc = "flag"
              BY <3>2 DEF Placed, RunFlags
        <5>2. QED BY <5>1 DEF CallOK, RunOK, ChunkOK, InRun, RunPcs, Working
      <4>2. donation'[d].sent = IF d = k.d THEN donation[k.d].sent \union {First(k)} ELSE donation[d].sent
            BY <3>2, <4>1, SentIs DEF RunFlags
      <4>3. QED BY <4>2
    <3>3. CASE Claims(c)
      <4>1. k.d \in DOMAIN donation
            BY <3>3, PayIs DEF Claims, PayPcs
      <4>2. donation'[d].sent = IF d = k.d THEN donation[k.d].sent \union {First(k)} ELSE donation[d].sent
            BY <3>3, <4>1, SentIs DEF Claims
      <4>3. QED BY <4>2
    <3>4. CASE RunInserts(c) \/ SubInserts(c)
      <4>1. CASE RunInserts(c)
        <5>1. k.p \in Targets /\ donation' = Append(donation, NewLink(k.p))
              BY <4>1 DEF RunInserts, Placed, TypeOK, Call
        <5>2. QED BY <5>1, LinkAppended
      <4>2. CASE SubInserts(c)
        <5>1. Sub \in Targets /\ donation' = Append(donation, NewLink(Sub))
              BY <4>2 DEF SubInserts, Targets
        <5>2. QED BY <5>1, LinkAppended
      <4>3. QED BY <3>4, <4>1, <4>2
    <3>5. CASE Completes(c) \/ Cleans(c)
      <4>1. donation[d] \in Donation
            BY DEF Placed, TypeOK
      <4>2. donation'[d].sent = donation[d].sent
        <5>1. CASE Completes(c)
          <6>1. k.d \in DOMAIN donation
                BY <5>1, PayIs DEF Completes, PayPcs
          <6>2. QED BY <4>1, <5>1, <6>1 DEF Completes, Donation
        <5>2. CASE Cleans(c)
              BY <4>1, <5>2 DEF Cleans, Donation
        <5>3. QED BY <3>5, <5>1, <5>2
      <4>3. QED BY <4>2
    <3>6. CASE Starts(c) \/ Dies(c)
          BY <3>6 DEF Starts, Dies
    <3>7. CASE RunDoes(c) /\ ~RunFlags(c) /\ ~RunInserts(c)
          BY <3>7 DEF RunDoes, ReadsChunk, Looks, FindsPaid, RunThanks, RunTemplates, FindsOpen,
                      RunReminds, RunMarks
    <3>8. CASE SubDoes(c) /\ ~SubInserts(c)
          BY <3>8 DEF SubDoes, SubReads, SubPasses, SubSends, SubNotes
    <3>9. CASE OtherDoes(c) /\ ~Completes(c) /\ ~Claims(c) /\ ~Cleans(c)
          BY <1>6, <3>9 DEF OtherDoes, Settles, PaySends, Creates, Loads, Saves, Counts, FlagsDonor
    <3>10. QED BY <3>2, <3>3, <3>4, <3>5, <3>6, <3>7, <3>8, <3>9 DEF Does
  <2>2. r.pc \in {"send", "release"} => k.pc = "send" /\ r.d = k.d /\ r.chans = k.chans
    <3>1. CASE RunDoes(c) \/ SubDoes(c) \/ Starts(c) \/ Dies(c)
      <4>1. r.pc \notin {"send", "release"}
        <5>1. r.op \in {"job", "pay", "none"} \union Staff \union {"cleanup"} /\ CallOK(r)
              BY DEF Only, Call, Ops
        <5>2. r.op = "job" => r.pc \notin {"send", "release"}
              BY <5>1 DEF CallOK, PlaceOK, RunPcs, SubPcs, Working
        <5>3. RunDoes(c) \/ SubDoes(c) => r.op = "job" \/ r = NoCall
              BY DEF RunDoes, ReadsChunk, Looks, FindsPaid, RunThanks, RunFlags, RunTemplates,
                     FindsOpen, RunInserts, RunReminds, RunMarks, GoesOn, Stays, Passed,
                     SubDoes, SubReads, SubPasses, SubInserts, SubSends, SubNotes
        <5>4. Starts(c) \/ Dies(c) => r.pc \in {"chunk", "complete", "today", "create", "load", "none"}
              BY <1>3 DEF Starts, Dies
        <5>5. QED BY <1>3, <3>1, <5>2, <5>3, <5>4
      <4>2. QED BY <4>1
    <3>2. CASE PaySends(c)
          BY <1>3, <3>2 DEF PaySends, ClaimsNext
    <3>3. CASE OtherDoes(c) /\ ~PaySends(c)
      <4>1. r.pc \notin {"send", "release"}
            BY <1>3, <1>6, <3>3 DEF OtherDoes, Completes, Settles, Claims, ClaimsNext, Releases, Cleans,
                                    Creates, Loads, Saves, Counts, FlagsDonor
      <4>2. QED BY <4>1
    <3>4. QED BY <3>1, <3>2, <3>3 DEF Does
  <2>3. ASSUME NEW x \in Calls, call'[x].pc \in {"send", "release"}
        PROVE  /\ call[x].pc \in {"send", "release"} /\ call'[x].d = call[x].d
               /\ First(call'[x]) = First(call[x])
        BY <1>2, <2>2, <2>3 DEF First
  <2>4. ASSUME NEW x \in Calls, call'[x].pc \in {"send", "release"}
        PROVE  /\ First(call'[x]) \in donation'[call'[x].d].sent
               /\ \A y \in Calls : Holds(call'[y], call'[x].d, First(call'[x])) => y = x
    <3>1. /\ call[x].d \in DOMAIN donation /\ First(call[x]) \in donation[call[x].d].sent
          /\ \A y \in Calls : Holds(call[y], call[x].d, First(call[x])) => y = x
          BY <1>1, <2>3, <2>4
    <3>2. ASSUME NEW y \in Calls, Holds(call'[y], call'[x].d, First(call'[x])) PROVE y = x
      <4>1. Holds(call[y], call[x].d, First(call[x]))
            BY <2>3, <2>4, <3>2 DEF Holds
      <4>2. QED BY <3>1, <4>1
    <3>3. QED BY <2>1, <2>3, <2>4, <3>1, <3>2
  <2>5. QED BY <2>4 DEF OneHolder, Holds, First
<1>7. QED BY <1>4, <1>5, <1>6

\* A donation that has just been inserted has not been thanked for, and no more handlers
\* may do so than are under way.
LEMMA NewThanks ==
    ASSUME Placed, Placed', ThanksCounted, LinksCounted', NEW c \in Calls,
           RunInserts(c) \/ SubInserts(c), NEW d \in DOMAIN donation', d \notin DOMAIN donation,
           NEW ch
    PROVE  Cardinality(ThanksOf(d, ch)') + ThanksPot(d, ch)' <= 1 + overlaps' + deaths'
<1> DEFINE H == Senders(d, ch)'
           U == Holders(d, ch)'
           W == Thankers(d, ch)'
           G == Flaggers(d, ch)'
           A == H \union U \union W
           B == Busy'
           n == ch \in donation'[d].sent
<1>1. thanks' = thanks
      BY DEF RunInserts, SubInserts, historyVars
<1>2. PICK t \in Targets : donation' = Append(donation, NewLink(t))
  <2>1. call[c].p \in Targets /\ Sub \in Targets
        BY DEF Placed, TypeOK, Call, Targets
  <2>2. QED BY <2>1 DEF RunInserts, SubInserts
<1>3. d = Len(donation) + 1 /\ donation'[d] = NewLink(t)
      BY <1>2, LinkAppended
<1>4. ~n
      BY <1>3 DEF NewLink
<1>5. Cardinality(ThanksOf(d, ch)') = 0
  <2>1. ThanksOf(d, ch)' = {}
        BY <1>1 DEF ThanksOf, ThanksCounted, ThanksKept
  <2>2. QED BY <2>1, FS_EmptySet
<1>6. H \subseteq Calls /\ U \subseteq Calls /\ W \subseteq Calls /\ B \subseteq Calls
      BY DEF Senders, Holders, Thankers, Busy
<1>7. A \subseteq B
  <2>1. ASSUME NEW x \in Calls, call'[x].op = "none" PROVE x \notin A
    <3>1. call'[x] = NoCall
          BY <2>1 DEF Placed, CallOK, PlaceOK
    <3>2. call'[x].pc = "none"
          BY <3>1 DEF NoCall
    <3>3. QED BY <2>1, <3>2 DEF Senders, Holders, Thankers, Sends, Holds, MayThank, Coming, Later, Queue,
                                InRun
  <2>2. QED BY <1>6, <2>1 DEF Busy, Running
<1>8. Cardinality(A) <= Cardinality(B) /\ Cardinality(A) \in Nat /\ Cardinality(B) \in Nat
      BY <1>6, <1>7, CallsAreFinite, CardSubset
<1>9. Cardinality(B) <= 1 + overlaps' /\ overlaps' \in Nat /\ deaths' \in Nat
      BY DEF LinksCounted, Placed, TypeOK
<1>10. Pot(n, H, U, W, G) \in Nat /\ (A # {} => Pot(n, H, U, W, G) <= Cardinality(A))
       BY <1>6, PotIsNumber
<1>11. A = {} => Pot(n, H, U, W, G) <= 1
  <2>1. A = {} => Cardinality(A) = 0
        BY FS_EmptySet
  <2>2. Pot(n, H, U, W, G) <= Cardinality(A) + 1
        BY <1>6, PotIsNumber
  <2>3. QED BY <2>1, <2>2
<1>12. ThanksPot(d, ch)' = Pot(n, H, U, W, G)
       BY DEF ThanksPot
<1> HIDE DEF H, U, W, G, A, B, n
<1>13. QED BY <1>5, <1>8, <1>9, <1>10, <1>11, <1>12

LEMMA ThanksPotIsNumber ==
    ASSUME NEW d, NEW ch PROVE ThanksPot(d, ch) \in Nat /\ ThanksPot(d, ch)' \in Nat
<1>1. Senders(d, ch) \subseteq Calls /\ Holders(d, ch) \subseteq Calls /\ Thankers(d, ch) \subseteq Calls
      BY DEF Senders, Holders, Thankers
<1>2. Senders(d, ch)' \subseteq Calls /\ Holders(d, ch)' \subseteq Calls /\ Thankers(d, ch)' \subseteq Calls
      BY DEF Senders, Holders, Thankers
<1>3. ThanksPot(d, ch) \in Nat
      BY <1>1, PotIsNumber DEF ThanksPot
<1>4. Pot(ch \in donation'[d].sent, Senders(d, ch)', Holders(d, ch)', Thankers(d, ch)', Flaggers(d, ch)')
         \in Nat
      BY <1>2, PotIsNumber
<1>5. QED BY <1>3, <1>4 DEF ThanksPot

\* A handler's step sends no thanks beyond those it may send.
LEMMA ThanksRun ==
    ASSUME Placed, Placed', OneHolder, ThanksCounted, LinksCounted', NEW c \in Calls, Only(c),
           CallOK(call'[c]), DonationsStay, RunDoes(c) \/ SubDoes(c) \/ OtherDoes(c)
    PROVE  ThanksCounted'
<1>1. freq' = freq /\ overlaps' = overlaps /\ deaths' = deaths /\ overlaps \in Nat /\ deaths \in Nat
      BY SameDay, SameCounts DEF Does, Placed, TypeOK
<1>2. 1 \in DOMAIN donation \/ DOMAIN donation = {}
      BY DEF Placed, TypeOK
<1>3. \A d \in DOMAIN donation : \A ch : ThanksStep(c, d, ch)
      BY HandlerThanks
<1>4. ThanksKept /\ \A d, ch : Cardinality(ThanksOf(d, ch)) \in Nat
  <2>1. ThanksKept
        BY DEF ThanksCounted
  <2>2. ASSUME NEW d, NEW ch PROVE Cardinality(ThanksOf(d, ch)) \in Nat
    <3>1. ThanksOf(d, ch) \subseteq thanks
          BY DEF ThanksOf
    <3>2. QED BY <2>1, <3>1, CardSubset DEF ThanksKept
  <2>3. QED BY <2>1, <2>2
<1>5. ASSUME thanks' = thanks
      PROVE  /\ ThanksKept'
             /\ \A d, ch : Cardinality(ThanksOf(d, ch)') = Cardinality(ThanksOf(d, ch))
  <2>1. \A d, ch : ThanksOf(d, ch)' = ThanksOf(d, ch)
        BY <1>5 DEF ThanksOf
  <2>2. QED BY <1>4, <1>5, <2>1 DEF ThanksKept, DonationsStay
<1>6. ASSUME NEW e \in DOMAIN donation, NEW f \in Channel, Thanked(e, f)
      PROVE  /\ ThanksKept'
             /\ \A d, ch : Cardinality(ThanksOf(d, ch)') =
                              IF d = e /\ ch = f THEN Cardinality(ThanksOf(d, ch)) + 1
                                                 ELSE Cardinality(ThanksOf(d, ch))
      BY <1>4, <1>6, OneMoreThanks DEF DonationsStay
<1>7. ThanksKept'
  <2>1. CASE 1 \in DOMAIN donation
    <3>1. ThanksStep(c, 1, 1)
          BY <1>3, <2>1
    <3>2. QED BY <1>5, <1>6, <3>1 DEF ThanksStep
  <2>2. CASE DOMAIN donation = {}
    <3>1. thanks' = thanks
      <4>1. ~RunThanks(c)
        <5>1. SUFFICES ASSUME RunThanks(c) PROVE FALSE
              OBVIOUS
        <5>2. CallOK(call[c]) /\ call[c].op = "job" /\ call[c].pc = "thank"
              BY <5>1 DEF Placed, RunThanks
        <5>3. QED BY <2>2, <5>2 DEF CallOK, RunOK, ChunkOK, InRun, RunPcs, Working
      <4>2. ~PaySends(c)
            BY <2>2, PayIs DEF PaySends, PayPcs
      <4>3. QED BY <4>1, <4>2 DEF RunDoes, ReadsChunk, Looks, FindsPaid, RunFlags, RunTemplates,
                FindsOpen, RunInserts, RunReminds, RunMarks, historyVars, SubDoes, SubReads,
                SubPasses, SubInserts, SubSends, SubNotes, OtherDoes, Completes, Settles, Claims,
                Releases, Cleans, Creates, Loads, Saves, Counts, FlagsDonor
    <3>2. QED BY <1>5, <3>1, Zenon
  <2>3. QED BY <1>2, <2>1, <2>2
<1>8. ASSUME NEW d \in DOMAIN donation, NEW ch \in Channel
      PROVE  Cardinality(ThanksOf(d, ch)') + ThanksPot(d, ch)' <= 1 + overlaps' + deaths'
  <2>1. /\ Cardinality(ThanksOf(d, ch)) + ThanksPot(d, ch) <= 1 + overlaps + deaths
        /\ ThanksPot(d, ch) \in Nat /\ ThanksPot(d, ch)' \in Nat
        /\ Cardinality(ThanksOf(d, ch)) \in Nat
        BY <1>4, ThanksPotIsNumber DEF ThanksCounted
  <2>2. CASE thanks' = thanks /\ ThanksCalm(c, d, ch)
    <3>1. /\ Cardinality(ThanksOf(d, ch)') = Cardinality(ThanksOf(d, ch))
          /\ ThanksPot(d, ch)' <= ThanksPot(d, ch)
          BY <1>1, <1>5, <2>2, ThanksPotCalm
    <3>2. QED BY <1>1, <2>1, <3>1
  <2>3. ASSUME NEW e \in DOMAIN donation, NEW f \in Channel, Thanked(e, f),
               IF d = e /\ ch = f THEN ThanksSent(c, d, ch) ELSE ThanksCalm(c, d, ch)
        PROVE  Cardinality(ThanksOf(d, ch)') + ThanksPot(d, ch)' <= 1 + overlaps' + deaths'
    <3>1. Cardinality(ThanksOf(d, ch)') = IF d = e /\ ch = f THEN Cardinality(ThanksOf(d, ch)) + 1
                                                             ELSE Cardinality(ThanksOf(d, ch))
          BY <1>6, <2>3
    <3>2. IF d = e /\ ch = f THEN ThanksPot(d, ch)' + 1 <= ThanksPot(d, ch)
                             ELSE ThanksPot(d, ch)' <= ThanksPot(d, ch)
          BY <1>1, <2>3, ThanksPotCalm, ThanksPotSent
    <3>3. QED BY <1>1, <2>1, <3>1, <3>2
  <2>4. QED BY <1>3, <2>2, <2>3 DEF ThanksStep
<1>9. ASSUME NEW d \in DOMAIN donation', NEW ch \in Channel
      PROVE  Cardinality(ThanksOf(d, ch)') + ThanksPot(d, ch)' <= 1 + overlaps' + deaths'
  <2>1. CASE RunInserts(c) \/ SubInserts(c)
        BY <1>8, <2>1, NewThanks
  <2>2. CASE ~RunInserts(c) /\ ~SubInserts(c)
    <3>1. DOMAIN donation' = DOMAIN donation
          BY <2>2, NothingOpened DEF Does, NoneOpened
    <3>2. QED BY <1>8, <3>1
  <2>3. QED BY <2>1, <2>2
<1>10. QED
  <2>1. \A d \in DOMAIN donation', ch \in Channel :
           Cardinality(ThanksOf(d, ch)') + ThanksPot(d, ch)' <= 1 + overlaps' + deaths'
        BY <1>9
  <2>2. QED BY <1>7, <2>1 DEF ThanksCounted

LEMMA SameThanks ==
    ASSUME ThanksCounted, thanks' = thanks, DOMAIN donation \subseteq DOMAIN donation'
    PROVE  ThanksKept' /\ \A d, ch : /\ Cardinality(ThanksOf(d, ch)') = Cardinality(ThanksOf(d, ch))
                                     /\ Cardinality(ThanksOf(d, ch)) \in Nat
<1>1. \A d, ch : ThanksOf(d, ch)' = ThanksOf(d, ch)
      BY DEF ThanksOf
<1>2. ThanksKept
      BY DEF ThanksCounted
<1>3. ASSUME NEW d, NEW ch PROVE Cardinality(ThanksOf(d, ch)) \in Nat
  <2>1. ThanksOf(d, ch) \subseteq thanks
        BY DEF ThanksOf
  <2>2. QED BY <1>2, <2>1, CardSubset DEF ThanksKept
<1>4. QED BY <1>1, <1>2, <1>3 DEF ThanksKept

\* A handler that begins, or dies.
LEMMA ThanksBegin ==
    ASSUME Placed, NEW c \in Calls, Only(c), DonationsStay, Starts(c) \/ Dies(c),
           NEW d \in DOMAIN donation, NEW ch
    PROVE  /\ ThanksPot(d, ch)' <= ThanksPot(d, ch) + 1
           /\ Starts(c) /\ Quiet => ThanksPot(d, ch)' <= ThanksPot(d, ch)
<1> DEFINE n == ch \in donation[d].sent
           r == call'[c]
           H == Senders(d, ch)
           U == Holders(d, ch)
           W == Thankers(d, ch)
           G == Flaggers(d, ch)
           H2 == Senders(d, ch)'
           U2 == Holders(d, ch)'
           W2 == Thankers(d, ch)'
           G2 == Flaggers(d, ch)'
<1>1. donation' = donation /\ freq' = freq
      BY DEF Starts, Dies
<1>2. r.pc \in {"chunk", "complete", "today", "create", "load", "none"}
      BY DEF Starts, Dies, NoCall
<1>3. ~Sends(r, d, ch) /\ ~Holds(r, d, ch)
      BY <1>2 DEF Sends, Holds
<1>4. /\ Apart(H, H2, c) /\ Apart(U, U2, c) /\ Apart(W, W2, c) /\ Apart(G, G2, c)
      /\ H \subseteq Calls /\ U \subseteq Calls /\ W \subseteq Calls
      /\ c \notin H2 /\ c \notin U2
      BY <1>1, <1>3, ThankersStep
<1>5. ThanksPot(d, ch) = Pot(n, H, U, W, G) /\ ThanksPot(d, ch)' = Pot(n, H2, U2, W2, G2)
      BY <1>1 DEF ThanksPot
<1>6. Quiet => H = {} /\ U = {} /\ W = {} /\ G = {}
  <2>1. SUFFICES ASSUME Quiet PROVE H = {} /\ U = {} /\ W = {} /\ G = {}
        OBVIOUS
  <2>2. ASSUME NEW x \in Calls PROVE call[x].op = "none" /\ call[x].pc = "none"
    <3>1. call[x] = NoCall
          BY <2>1 DEF Quiet, Running, Placed, CallOK, PlaceOK
    <3>2. QED BY <3>1 DEF NoCall
  <2>3. QED BY <2>2 DEF Senders, Holders, Thankers, Flaggers, Sends, Holds, MayThank, Flags, Coming,
                        Later, Queue, InRun
<1>7. n \in BOOLEAN
      OBVIOUS
<1> HIDE DEF n, H, U, W, G, H2, U2, W2, G2
<1>8. Pot(n, H2, U2, W2, G2) <= Pot(n, H, U, W, G) + 1
      BY <1>4, <1>7, PotTrouble
<1>9. Quiet => Pot(n, H2, U2, W2, G2) <= Pot(n, H, U, W, G)
  <2>1. SUFFICES ASSUME Quiet PROVE Pot(n, H2, U2, W2, G2) <= Pot(n, H, U, W, G)
        OBVIOUS
  <2>2. H = {} /\ U = {} /\ W = {} /\ G = {} /\ H2 = {} /\ U2 = {} /\ W2 \subseteq {c}
        BY <1>4, <1>6, <2>1 DEF Apart
  <2>3. Pot(n, {}, {}, W2, G2) <= Pot(n, {}, {}, {}, {})
        BY <1>7, <2>2, PotStart
  <2>4. QED BY <2>2, <2>3
<1>10. QED BY <1>5, <1>8, <1>9

LEMMA TroubleCounts ==
    ASSUME NEW n \in Nat, NEW a \in Nat, NEW a2 \in Nat, NEW o \in Nat, NEW x \in Nat,
           NEW o2 \in Nat, NEW x2 \in Nat, n + a <= 1 + o + x, a2 <= a + 1,
           o2 + x2 = o + x + 1 \/ (a2 <= a /\ o2 + x2 = o + x)
    PROVE  n + a2 <= 1 + o2 + x2
OBVIOUS

LEMMA ThanksTroubled ==
    ASSUME Placed, Placed', ThanksCounted, NEW c \in Calls, Only(c), DonationsStay,
           Starts(c) \/ Dies(c)
    PROVE  ThanksCounted'
<1>1. thanks' = thanks /\ donation' = donation
      BY DEF Starts, Dies, historyVars
<1>2. overlaps \in Nat /\ deaths \in Nat /\ overlaps' \in Nat /\ deaths' \in Nat
      BY DEF Placed, TypeOK
<1>3. \/ overlaps' + deaths' = overlaps + deaths + 1
      \/ Starts(c) /\ Quiet /\ overlaps' + deaths' = overlaps + deaths
  <2>1. CASE Dies(c)
    <3>1. overlaps' = overlaps /\ deaths' = deaths + 1
          BY <2>1 DEF Dies
    <3>2. QED BY <1>2, <3>1
  <2>2. CASE Starts(c) /\ Quiet
    <3>1. overlaps' = overlaps /\ deaths' = deaths
          BY <2>2 DEF Starts
    <3>2. QED BY <2>2, <3>1
  <2>3. CASE Starts(c) /\ ~Quiet
    <3>1. overlaps' = overlaps + 1 /\ deaths' = deaths
          BY <2>3 DEF Starts
    <3>2. QED BY <1>2, <3>1
  <2>4. QED BY <2>1, <2>2, <2>3
<1>4. ThanksKept' /\ \A d, ch : /\ Cardinality(ThanksOf(d, ch)') = Cardinality(ThanksOf(d, ch))
                                /\ Cardinality(ThanksOf(d, ch)) \in Nat
      BY <1>1, SameThanks
<1>5. ASSUME NEW d \in DOMAIN donation, NEW ch \in Channel
      PROVE  Cardinality(ThanksOf(d, ch)') + ThanksPot(d, ch)' <= 1 + overlaps' + deaths'
  <2>1. /\ Cardinality(ThanksOf(d, ch)) + ThanksPot(d, ch) <= 1 + overlaps + deaths
        /\ ThanksPot(d, ch) \in Nat /\ ThanksPot(d, ch)' \in Nat
        BY ThanksPotIsNumber DEF ThanksCounted
  <2>2. /\ ThanksPot(d, ch)' <= ThanksPot(d, ch) + 1
        /\ Starts(c) /\ Quiet => ThanksPot(d, ch)' <= ThanksPot(d, ch)
        BY ThanksBegin
  <2>3. /\ Cardinality(ThanksOf(d, ch)') = Cardinality(ThanksOf(d, ch))
        /\ Cardinality(ThanksOf(d, ch)) \in Nat
        BY <1>4
  <2>4. \/ overlaps' + deaths' = overlaps + deaths + 1
        \/ ThanksPot(d, ch)' <= ThanksPot(d, ch) /\ overlaps' + deaths' = overlaps + deaths
        BY <1>3, <2>2, Zenon
  <2>5. Cardinality(ThanksOf(d, ch)) + ThanksPot(d, ch)' <= 1 + overlaps' + deaths'
        BY <1>2, <2>1, <2>2, <2>3, <2>4, TroubleCounts
  <2>6. QED BY <2>3, <2>5
<1>6. QED BY <1>1, <1>4, <1>5 DEF ThanksCounted

\* What happens outside of the handlers.
LEMMA ThanksElsewhere ==
    ASSUME Placed, ThanksCounted, OneHolder, call' = call, freq' = freq, thanks' = thanks,
           overlaps' = overlaps, deaths' = deaths, DOMAIN donation' = DOMAIN donation,
           \A d \in DOMAIN donation : donation'[d].sent = donation[d].sent /\ donation'[d].for = donation[d].for
    PROVE  ThanksCounted' /\ OneHolder'
<1>1. ThanksKept' /\ \A d, ch : Cardinality(ThanksOf(d, ch)') = Cardinality(ThanksOf(d, ch))
      BY SameThanks
<1>2. ASSUME NEW d \in DOMAIN donation, NEW ch PROVE ThanksPot(d, ch)' = ThanksPot(d, ch)
  <2>1. ASSUME NEW x \in Calls
        PROVE  /\ Sends(call[x], d, ch)' <=> Sends(call[x], d, ch)
               /\ Holds(call[x], d, ch)' <=> Holds(call[x], d, ch)
               /\ Flags(call[x], d, ch)' <=> Flags(call[x], d, ch)
               /\ MayThank(call[x], d, ch)' <=> MayThank(call[x], d, ch)
    <3>1. Coming(call[x])' = Coming(call[x])
          BY DEF Coming, Later, Queue, InRun
    <3>2. MayThank(call[x], d, ch)' <=> MayThank(call[x], d, ch)
          BY <3>1 DEF MayThank, InRun, Others, First
    <3>3. QED BY <3>2 DEF Sends, Holds, Flags, Others, First
  <2>2. /\ Senders(d, ch)' = Senders(d, ch) /\ Holders(d, ch)' = Holders(d, ch)
        /\ Thankers(d, ch)' = Thankers(d, ch) /\ Flaggers(d, ch)' = Flaggers(d, ch)
        BY <2>1 DEF Senders, Holders, Thankers, Flaggers
  <2>3. QED BY <2>2 DEF ThanksPot
<1>3. ThanksCounted'
      BY <1>1, <1>2 DEF ThanksCounted
<1>4. OneHolder'
  <2>1. \A c \in Calls : call[c].pc \in {"send", "release"} => call[c].d \in DOMAIN donation
        BY PayIs DEF PayPcs
  <2>2. QED BY <2>1 DEF OneHolder, Holds, First
<1>5. QED BY <1>3, <1>4

LEMMA NextThanks ==
    Placed /\ Placed' /\ LinksCounted' /\ OneHolder /\ ThanksCounted /\ [Next]_vars
        => OneHolder' /\ ThanksCounted'
<1> SUFFICES ASSUME Placed, Placed', LinksCounted', OneHolder, ThanksCounted, [Next]_vars
             PROVE  OneHolder' /\ ThanksCounted'
    OBVIOUS
<1>1. CASE NextDay \/ UNCHANGED vars
  <2>1. /\ donation' = donation /\ call' = call /\ overlaps' = overlaps /\ deaths' = deaths
        /\ freq' = freq /\ thanks' = thanks
        BY <1>1 DEF NextDay, vars, countVars, historyVars
  <2>2. QED BY <2>1, ThanksElsewhere
<1>2. ASSUME NEW d \in DOMAIN donation, Decline(d) PROVE OneHolder' /\ ThanksCounted'
  <2>1. /\ Declines(d) /\ \A e \in DOMAIN donation : donation[e] \in Donation
        BY <1>2, DeclineDoes DEF Placed, TypeOK
  <2>2. /\ DOMAIN donation' = DOMAIN donation
        /\ \A e \in DOMAIN donation : /\ donation'[e].sent = donation[e].sent
                                      /\ donation'[e].for = donation[e].for
        BY <2>1 DEF Declines, Donation
  <2>3. QED BY <2>1, <2>2, ThanksElsewhere DEF Declines, historyVars
<1>3. ASSUME NEW c \in Calls,
             Job(c) \/ Pay(c) \/ Cleanup(c) \/ Change(c) \/ RunStep(c) \/ OtherStep(c) \/ Crash(c)
      PROVE  OneHolder' /\ ThanksCounted'
  <2>1. Only(c) /\ CallOK(call'[c]) /\ DonationsStay /\ Does(c)
        BY <1>3, StepDoes
  <2>2. OneHolder'
        BY <2>1, HolderStays
  <2>3. ThanksCounted'
        BY <2>1, ThanksRun, ThanksTroubled DEF Does
  <2>4. QED BY <2>2, <2>3
<1>4. QED BY <1>1, <1>2, <1>3 DEF Next

\* A flag that a payment has claimed is set, and held by that payment only, until it sends
\* the thanks or releases it; and for each donation and channel, the thanks that were sent
\* and those that the handlers under way may still send are no more than one, the overlaps
\* and the deaths there were.
THEOREM ThanksInvariant == Spec => [](OneHolder /\ ThanksCounted)
<1>1. Init => OneHolder /\ ThanksCounted
  <2> SUFFICES ASSUME Init PROVE OneHolder /\ ThanksCounted
      OBVIOUS
  <2>1. /\ NoCall.op = "none" /\ NoCall.pc = "none" /\ thanks = {} /\ overlaps = 0 /\ deaths = 0
        /\ \A x \in Calls : call[x] = NoCall
        BY DEF Init, NoCall
  <2>2. OneHolder
        BY <2>1 DEF OneHolder
  <2>3. IsFiniteSet(thanks) /\ \A d, ch : ThanksOf(d, ch) = {}
        BY <2>1, FS_EmptySet DEF ThanksOf
  <2>4. Cardinality({}) = 0
        BY FS_EmptySet
  <2>5. ASSUME NEW d, NEW ch PROVE ThanksPot(d, ch) <= 1
    <3>1. Senders(d, ch) = {} /\ Holders(d, ch) = {} /\ Thankers(d, ch) = {}
          BY <2>1 DEF Senders, Holders, Thankers, Sends, Holds, MayThank, Coming, Later, Queue, InRun
    <3>2. QED BY <2>4, <3>1 DEF ThanksPot, Pot
  <2>6. ASSUME NEW d, NEW ch PROVE Cardinality(ThanksOf(d, ch)) + ThanksPot(d, ch) <= 1 + overlaps + deaths
        BY <2>1, <2>3, <2>4, <2>5, ThanksPotIsNumber
  <2>7. QED BY <2>1, <2>2, <2>3, <2>6 DEF ThanksCounted, ThanksKept
<1>2. QED BY <1>1, NextThanks, PlacedInvariant, LinksInvariant, PTL DEF Spec

\* A donation is thanked for no more often on a channel, by its payment and by the runs
\* together, than once and for each overlap of handlers and each death once more, however
\* often runs are forced.
THEOREM ThanksBound == Spec => []ThanksNotRepeated
<1>1. Placed /\ ThanksCounted => ThanksNotRepeated
  <2>1. SUFFICES ASSUME Placed, ThanksCounted, NEW t \in thanks PROVE t[3] <= 1 + overlaps + deaths
        BY DEF ThanksNotRepeated
  <2>2. /\ t[1] \in DOMAIN donation /\ t[2] \in Channel
        /\ t[3] \in Nat /\ t[3] <= Cardinality(ThanksOf(t[1], t[2]))
        BY <2>1 DEF ThanksCounted, ThanksKept
  <2>3. /\ Cardinality(ThanksOf(t[1], t[2])) + ThanksPot(t[1], t[2]) <= 1 + overlaps + deaths
        /\ ThanksPot(t[1], t[2]) \in Nat
        BY <2>1, <2>2, ThanksPotIsNumber DEF ThanksCounted
  <2>4. ThanksOf(t[1], t[2]) \subseteq thanks /\ IsFiniteSet(thanks)
        BY <2>1 DEF ThanksOf, ThanksCounted, ThanksKept
  <2>5. Cardinality(ThanksOf(t[1], t[2])) \in Nat
        BY <2>4, CardSubset
  <2>6. overlaps \in Nat /\ deaths \in Nat
        BY <2>1 DEF Placed, TypeOK
  <2>7. QED BY <2>2, <2>3, <2>5, <2>6
<1>2. QED BY <1>1, PlacedInvariant, ThanksInvariant, PTL

-----------------------------------------------------------------------------
(* The reminders.                                                          *)

\* Handler c and the reminder of pledge p, before and after its step.
PledgeCalm(c, p) ==
    LET k == call[c]
        r == call'[c]
    IN  Calm(Noted(p), Noted(p)', Reminds(k, p), Reverts(k, p), MayRemind(k, p), Marks(k, p),
             Reminds(r, p), Reverts(r, p), MayRemind(r, p), Marks(r, p))

PledgeSent(c, p) ==
    LET k == call[c]
        r == call'[c]
    IN  Sending(Noted(p), Noted(p)', Reminds(k, p), Reverts(k, p), MayRemind(k, p),
                Reminds(r, p), Reverts(r, p), MayRemind(r, p), Marks(r, p))

\* The same for the subscription.
SubCalm(c) ==
    LET k == call[c]
        r == call'[c]
    IN  Calm(Noted(Sub), Noted(Sub)', SubReminds(k), FALSE, SubMay(k), SubMarks(k),
             SubReminds(r), FALSE, SubMay(r), SubMarks(r))

SubSent(c) ==
    LET k == call[c]
        r == call'[c]
    IN  Sending(Noted(Sub), Noted(Sub)', SubReminds(k), FALSE, SubMay(k),
                SubReminds(r), FALSE, SubMay(r), SubMarks(r))

RemindCalm(c, t) == IF t = Sub THEN SubCalm(c) ELSE PledgeCalm(c, t)
RemindSent(c, t) == IF t = Sub THEN SubSent(c) ELSE PledgeSent(c, t)

\* What a step of c does to those who may remind of pledge p.
LEMMA PledgeStep ==
    ASSUME Placed, NEW c \in Calls, Only(c), freq' = freq, day' = day, NEW p \in Pledges
    PROVE  /\ Apart(Reminding(p), Reminding(p)', c)
           /\ Apart(Reverting(p), Reverting(p)', c)
           /\ Apart(Pending(p), Pending(p)', c)
           /\ Apart(Marking(p), Marking(p)', c)
           /\ c \in Reminding(p) <=> Reminds(call[c], p)
           /\ c \in Reverting(p) <=> Reverts(call[c], p)
           /\ c \in Pending(p) <=> MayRemind(call[c], p)
           /\ c \in Marking(p) <=> Marks(call[c], p)
           /\ c \in Reminding(p)' <=> Reminds(call'[c], p)
           /\ c \in Reverting(p)' <=> Reverts(call'[c], p)
           /\ c \in Pending(p)' <=> MayRemind(call'[c], p)
           /\ c \in Marking(p)' <=> Marks(call'[c], p)
<1>0. p # Sub
      BY DEF Pledges, Sub
<1>1. ASSUME NEW x \in Calls
      PROVE  /\ Reminds(call[x], p)' <=> Reminds(call'[x], p)
             /\ Reverts(call[x], p)' <=> Reverts(call'[x], p)
             /\ MayRemind(call[x], p)' <=> MayRemind(call'[x], p)
             /\ Marks(call[x], p)' <=> Marks(call'[x], p)
  <2>1. Later(call[x])' = Later(call'[x])
        BY DEF Later, InRun
  <2>2. Queue(call[x])' = Queue(call'[x])
        BY DEF Queue, InRun
  <2>3. ToRemind(call[x], p)' <=> ToRemind(call'[x], p)
        BY DEF ToRemind, KeyOf, PeriodOf
  <2>4. Reminds(call[x], p)' <=> Reminds(call'[x], p)
        BY <2>1, <2>2, <2>3 DEF Reminds
  <2>5. Reverts(call[x], p)' <=> Reverts(call'[x], p)
        BY DEF Reverts, KeyToday, KeyOf, PeriodOf
  <2>6. MayRemind(call[x], p)' <=> MayRemind(call'[x], p)
        BY <2>1 DEF MayRemind
  <2>7. Marks(call[x], p)' <=> Marks(call'[x], p)
        BY DEF Marks, InRun
  <2>8. QED BY <2>4, <2>5, <2>6, <2>7
<1>2. ASSUME NEW x \in Calls \ {c}
      PROVE  /\ Reminds(call'[x], p) <=> Reminds(call[x], p)
             /\ Reverts(call'[x], p) <=> Reverts(call[x], p)
             /\ MayRemind(call'[x], p) <=> MayRemind(call[x], p)
             /\ Marks(call'[x], p) <=> Marks(call[x], p)
  <2>1. /\ call'[x].op = call[x].op /\ call'[x].pc = call[x].pc /\ call'[x].force = call[x].force
        /\ call'[x].todo = call[x].todo /\ call'[x].last = call[x].last
        /\ call'[x].rows = call[x].rows /\ call'[x].ids = call[x].ids /\ call'[x].p = call[x].p
        /\ call'[x].ok = call[x].ok /\ call'[x].marks = call[x].marks
        BY OthersAre
  <2>2. Later(call'[x]) = Later(call[x]) /\ Queue(call'[x]) = Queue(call[x])
        BY <2>1 DEF Later, Queue, InRun
  <2>3. ToRemind(call'[x], p) <=> ToRemind(call[x], p)
        BY <2>1 DEF ToRemind
  <2>4. QED BY <2>1, <2>2, <2>3 DEF Reminds, Reverts, MayRemind, Marks, InRun
<1>3. QED BY <1>0, <1>1, <1>2 DEF Reminding, Reverting, Pending, Marking, Apart

LEMMA SubStep ==
    ASSUME Placed, NEW c \in Calls, Only(c), day' = day
    PROVE  /\ Apart(Reminding(Sub), Reminding(Sub)', c)
           /\ Apart(Pending(Sub), Pending(Sub)', c)
           /\ Apart(Marking(Sub), Marking(Sub)', c)
           /\ Reverting(Sub) = {} /\ Reverting(Sub)' = {}
           /\ c \in Reminding(Sub) <=> SubReminds(call[c])
           /\ c \in Pending(Sub) <=> SubMay(call[c])
           /\ c \in Marking(Sub) <=> SubMarks(call[c])
           /\ c \in Reminding(Sub)' <=> SubReminds(call'[c])
           /\ c \in Pending(Sub)' <=> SubMay(call'[c])
           /\ c \in Marking(Sub)' <=> SubMarks(call'[c])
<1>1. ASSUME NEW x \in Calls
      PROVE  /\ SubReminds(call[x])' <=> SubReminds(call'[x])
             /\ SubMay(call[x])' <=> SubMay(call'[x])
             /\ SubMarks(call[x])' <=> SubMarks(call'[x])
      BY DEF SubReminds, SubMay, SubMarks, SubKey
<1>2. ASSUME NEW x \in Calls \ {c}
      PROVE  /\ SubReminds(call'[x]) <=> SubReminds(call[x])
             /\ SubMay(call'[x]) <=> SubMay(call[x])
             /\ SubMarks(call'[x]) <=> SubMarks(call[x])
  <2>1. /\ call'[x].op = call[x].op /\ call'[x].pc = call[x].pc /\ call'[x].force = call[x].force
        /\ call'[x].ok = call[x].ok /\ call'[x].key = call[x].key
        BY OthersAre
  <2>2. QED BY <2>1 DEF SubReminds, SubMay, SubMarks
<1>3. QED BY <1>1, <1>2 DEF Reminding, Reverting, Pending, Marking, Apart

LEMMA SubRange == Sub \in Targets /\ Sub \notin Pledges /\ Targets = {Sub} \union Pledges
BY DEF Targets, Sub, Pledges

LEMMA NotedIs ==
    ASSUME NEW t PROVE Noted(t) \in BOOLEAN /\ Noted(t)' \in BOOLEAN
BY DEF Noted

\* Today's key is noted as long as the row is not written.
LEMMA NotedSame ==
    ASSUME freq' = freq, day' = day, NEW t,
           IF t = Sub THEN mark' = mark ELSE pledge'[t].reminded = pledge[t].reminded
    PROVE  Noted(t)' <=> Noted(t)
BY DEF Noted, KeyToday, KeyOf, PeriodOf, SubKey

LEMMA RemindPotCalm ==
    ASSUME Placed, NEW c \in Calls, Only(c), freq' = freq, day' = day, NEW t \in Targets,
           RemindCalm(c, t)
    PROVE  RemindPot(t)' <= RemindPot(t)
<1> DEFINE n == Noted(t)
           n2 == Noted(t)'
<1>1. n \in BOOLEAN /\ n2 \in BOOLEAN
      BY NotedIs
<1>2. Reminding(t) \subseteq Calls /\ Reverting(t) \subseteq Calls /\ Pending(t) \subseteq Calls
      BY DEF Reminding, Reverting, Pending
<1>3. /\ Apart(Reminding(t), Reminding(t)', c) /\ Apart(Reverting(t), Reverting(t)', c)
      /\ Apart(Pending(t), Pending(t)', c) /\ Apart(Marking(t), Marking(t)', c)
      /\ Calm(n, n2, c \in Reminding(t), c \in Reverting(t), c \in Pending(t), c \in Marking(t),
              c \in Reminding(t)', c \in Reverting(t)', c \in Pending(t)', c \in Marking(t)')
  <2>1. CASE t = Sub
    <3>1. SubCalm(c)
          BY <2>1 DEF RemindCalm
    <3>2. Apart({}, {}, c)
          BY DEF Apart
    <3>3. QED BY <2>1, <3>1, <3>2, SubStep DEF SubCalm, Calm
  <2>2. CASE t \in Pledges
    <3>1. PledgeCalm(c, t)
          BY <2>2, SubRange DEF RemindCalm
    <3>2. QED BY <2>2, <3>1, PledgeStep DEF PledgeCalm, Calm
  <2>3. QED BY <2>1, <2>2, SubRange
<1>4. Pot(n2, Reminding(t)', Reverting(t)', Pending(t)', Marking(t)')
          <= Pot(n, Reminding(t), Reverting(t), Pending(t), Marking(t))
      BY <1>1, <1>2, <1>3, PotCalm
<1>5. QED BY <1>4 DEF RemindPot

LEMMA RemindPotSent ==
    ASSUME Placed, NEW c \in Calls, Only(c), freq' = freq, day' = day, NEW t \in Targets,
           RemindSent(c, t)
    PROVE  RemindPot(t)' + 1 <= RemindPot(t)
<1> DEFINE n == Noted(t)
           n2 == Noted(t)'
<1>1. n \in BOOLEAN /\ n2 \in BOOLEAN
      BY NotedIs
<1>2. Reminding(t) \subseteq Calls /\ Reverting(t) \subseteq Calls /\ Pending(t) \subseteq Calls
      BY DEF Reminding, Reverting, Pending
<1>3. /\ Apart(Reminding(t), Reminding(t)', c) /\ Apart(Reverting(t), Reverting(t)', c)
      /\ Apart(Pending(t), Pending(t)', c) /\ Apart(Marking(t), Marking(t)', c)
      /\ Sending(n, n2, c \in Reminding(t), c \in Reverting(t), c \in Pending(t),
                 c \in Reminding(t)', c \in Reverting(t)', c \in Pending(t)', c \in Marking(t)')
  <2>1. CASE t = Sub
    <3>1. SubSent(c)
          BY <2>1 DEF RemindSent
    <3>2. Apart({}, {}, c)
          BY DEF Apart
    <3>3. QED BY <2>1, <3>1, <3>2, SubStep DEF SubSent, Sending
  <2>2. CASE t \in Pledges
    <3>1. PledgeSent(c, t)
          BY <2>2, SubRange DEF RemindSent
    <3>2. QED BY <2>2, <3>1, PledgeStep DEF PledgeSent, Sending
  <2>3. QED BY <2>1, <2>2, SubRange
<1>4. Pot(n2, Reminding(t)', Reverting(t)', Pending(t)', Marking(t)') + 1
          <= Pot(n, Reminding(t), Reverting(t), Pending(t), Marking(t))
      BY <1>1, <1>2, <1>3, PotSending
<1>5. QED BY <1>4 DEF RemindPot

\* A run that stays at its pledge.
LEMMA StaysReminds ==
    ASSUME NEW k, NEW r, Stays(k, r), k.op = "job", k.pc \in RunPcs, NEW p,
           r.pc \in RunPcs \ {"chunk"},
           r.pc \in {"findOpen", "insert", "remind"} /\ ~r.ok =>
              k.pc \in {"findOpen", "insert", "remind"} /\ ~k.ok
    PROVE  /\ Reminds(r, p) => Reminds(k, p)
           /\ MayRemind(r, p) => MayRemind(k, p)
           /\ ~Reverts(r, p)
           /\ p \in k.marks => Marks(r, p)
BY DEF Stays, Reminds, MayRemind, Reverts, Marks, ToRemind, InRun, RunPcs, Working

\* A run that goes on to another pledge, or to the marks of M or the next chunk.
LEMMA PassedReminds ==
    ASSUME NEW k, NEW r, NEW M, Passed(k, r, M), CallOK(r), NEW p
    PROVE  /\ Reminds(r, p) => Reminds(k, p)
           /\ MayRemind(r, p) => MayRemind(k, p)
           /\ ~Reverts(r, p)
           /\ p \in M => Marks(r, p)
<1>1. Queue(r) # {} => r.pc \in Working
      BY DEF Queue, Passed
<1>2. r.pc = "findOpen" => r.p \in Queue(k) /\ ToRemind(k, r.p)
  <2>1. SUFFICES ASSUME r.pc = "findOpen" PROVE r.p \in Queue(k) /\ ToRemind(k, r.p)
        OBVIOUS
  <2>2. r.p \in Queue(k) /\ r.rows = k.rows /\ r.force = k.force /\ r.op = "job"
        BY <2>1 DEF Passed, Working
  <2>3. ToRemind(r, r.p)
        BY <2>1, <2>2 DEF CallOK, RunOK, ChunkOK, InRun, RunPcs, Working
  <2>4. QED BY <2>2, <2>3 DEF ToRemind
<1>3. \A q : q \in Queue(k) \/ q \in Later(k) => k.op = "job"
      BY DEF Queue, Later, InRun
<1>4. p \in Queue(r) /\ ToRemind(r, p) => p \in Queue(k) /\ ToRemind(k, p)
      BY <1>1 DEF Passed, ToRemind
<1>5. Reminds(r, p) => Reminds(k, p)
      BY <1>2, <1>3, <1>4 DEF Reminds, Passed
<1>6. QED BY <1>5 DEF MayRemind, Reverts, Marks, Passed, InRun, RunPcs, Working

LEMMA PledgeCalmIf ==
    ASSUME NEW c \in Calls, NEW p, freq' = freq, day' = day, p # Sub,
           pledge'[p].reminded = pledge[p].reminded,
           Reminds(call'[c], p) => Reminds(call[c], p),
           MayRemind(call'[c], p) => MayRemind(call[c], p),
           ~Reverts(call'[c], p),
           Marks(call[c], p) => Marks(call'[c], p)
    PROVE  PledgeCalm(c, p)
<1>1. Noted(p)' <=> Noted(p)
      BY NotedSame
<1>2. QED BY <1>1 DEF PledgeCalm, Calm

\* A run that reads a chunk has its pledges' keys from then on.
LEMMA ReadsReminds ==
    ASSUME Placed, NEW c \in Calls, Only(c), ReadsChunk(c), NEW p \in Pledges
    PROVE  PledgeCalm(c, p)
<1> DEFINE k == call[c]
           r == call'[c]
<1>1. /\ k.op = "job" /\ k.pc = "chunk" /\ r.op = "job" /\ r.force = k.force
      /\ Later(r) \subseteq Later(k) /\ r.pc \in {"subRead", "chunk", "lookup"}
      BY DEF ReadsChunk
<1>2. freq' = freq /\ day' = day /\ pledge' = pledge /\ p # Sub
      BY SubRange DEF ReadsChunk, countVars, rowVars
<1>3. Noted(p)' <=> Noted(p)
      BY <1>2, NotedSame
<1>4. ~Marks(k, p)
  <2>1. k.marks = {}
        BY <1>1 DEF Placed, CallOK, RunOK, InRun, RunPcs
  <2>2. QED BY <1>1, <2>1 DEF Marks
<1>5. ~Reverts(r, p) /\ (MayRemind(r, p) => MayRemind(k, p))
      BY <1>1 DEF Reverts, MayRemind
<1>6. Reminds(r, p) => Reminds(k, p) \/ (~Noted(p) /\ MayRemind(k, p))
  <2>1. SUFFICES ASSUME Reminds(r, p) PROVE Reminds(k, p) \/ (~Noted(p) /\ MayRemind(k, p))
        OBVIOUS
  <2>2. CASE p \in Later(r) /\ r.force
        BY <1>1, <2>2 DEF Reminds
  <2>3. CASE p \in Queue(r) /\ ToRemind(r, p)
    <3>1. r.pc = "lookup" /\ p \in DOMAIN r.rows
          BY <1>1, <2>3 DEF Queue, Working
    <3>2. p \in Later(k) /\ r.rows[p] = pledge[p]
          BY <3>1 DEF ReadsChunk
    <3>3. CASE k.force
          BY <1>1, <3>2, <3>3 DEF Reminds
    <3>4. CASE ~k.force
      <4>1. ~Noted(p)
            BY <1>1, <1>2, <2>3, <3>2, <3>4 DEF ToRemind, Noted, KeyToday
      <4>2. QED BY <3>2, <3>4, <4>1 DEF MayRemind
    <3>5. QED BY <3>3, <3>4
  <2>4. QED BY <1>1, <2>1, <2>2, <2>3 DEF Reminds
<1>7. QED BY <1>3, <1>4, <1>5, <1>6 DEF PledgeCalm, Calm

\* A run that sends thanks or looks for something to pay with.
LEMMA WorksReminds ==
    ASSUME Placed, NEW c \in Calls, Only(c), CallOK(call'[c]),
           Looks(c) \/ FindsPaid(c) \/ RunThanks(c) \/ RunFlags(c) \/ RunTemplates(c) \/ FindsOpen(c)
             \/ RunInserts(c),
           NEW p \in Pledges
    PROVE  PledgeCalm(c, p)
<1> DEFINE k == call[c]
           r == call'[c]
<1>1. freq' = freq /\ day' = day /\ pledge' = pledge /\ p # Sub
      BY SubRange DEF Looks, FindsPaid, RunThanks, RunFlags, RunTemplates, FindsOpen, RunInserts,
                      countVars, rowVars
<1>2. /\ k.op = "job" /\ CallOK(k)
      /\ k.pc \in {"lookup", "findPaid", "thank", "flag", "template", "findOpen", "insert"}
      BY DEF Looks, FindsPaid, RunThanks, RunFlags, RunTemplates, FindsOpen, RunInserts, Placed
<1>3. k.pc = "lookup" => k.marks = {}
      BY <1>2 DEF CallOK, RunOK, InRun, RunPcs
<1>4. Marks(k, p) => p \in k.marks
      BY <1>2 DEF Marks
<1>5. \/ Passed(k, r, k.marks)
      \/ /\ Stays(k, r)
         /\ \/ r.pc \in {"lookup", "thank", "flag", "template"}
            \/ /\ k.pc \in {"findOpen", "insert"} /\ r.pc \in {"insert", "remind"} /\ r.ok = k.ok
  <2>1. CASE Looks(c)
        BY <1>3, <2>1 DEF Looks
  <2>2. CASE FindsPaid(c) \/ RunThanks(c) \/ RunFlags(c) \/ RunTemplates(c)
        BY <2>2 DEF FindsPaid, RunThanks, RunFlags, RunTemplates, GoesOn
  <2>3. CASE FindsOpen(c) \/ RunInserts(c)
        BY <2>3 DEF FindsOpen, RunInserts
  <2>4. QED BY <2>1, <2>2, <2>3
<1>6. CASE Passed(k, r, k.marks)
  <2>1. /\ Reminds(r, p) => Reminds(k, p)
        /\ MayRemind(r, p) => MayRemind(k, p)
        /\ ~Reverts(r, p)
        /\ p \in k.marks => Marks(r, p)
        BY <1>6, PassedReminds
  <2>2. QED BY <1>1, <1>4, <2>1, PledgeCalmIf
<1>7. CASE /\ Stays(k, r)
           /\ \/ r.pc \in {"lookup", "thank", "flag", "template"}
              \/ /\ k.pc \in {"findOpen", "insert"} /\ r.pc \in {"insert", "remind"} /\ r.ok = k.ok
  <2>1. k.pc \in RunPcs /\ r.pc \in RunPcs \ {"chunk"}
        BY <1>2, <1>7 DEF RunPcs, Working
  <2>2. r.pc \in {"findOpen", "insert", "remind"} /\ ~r.ok =>
           k.pc \in {"findOpen", "insert", "remind"} /\ ~k.ok
        BY <1>7
  <2>3. /\ Reminds(r, p) => Reminds(k, p)
        /\ MayRemind(r, p) => MayRemind(k, p)
        /\ ~Reverts(r, p)
        /\ p \in k.marks => Marks(r, p)
        BY <1>2, <1>7, <2>1, <2>2, StaysReminds
  <2>4. QED BY <1>1, <1>4, <2>3, PledgeCalmIf
<1>8. QED BY <1>5, <1>6, <1>7

\* A run's day is one for the pledges it has read.
LEMMA DueToday ==
    ASSUME Placed, NEW k \in Call, CallOK(k), k.op = "job", k.pc \in Working
    PROVE  k.p \in Pledges /\ day \in DueDays(k.p)
<1>1. k.p \in Pledges /\ freq[k.p] = Head(k.todo)
      BY NotComing
<1>2. k.todo \in Todos /\ k.todo # <<>> /\ Left(k.todo) \subseteq Left(DueOn(day))
      BY DEF CallOK, RunOK, ChunkOK, InRun, RunPcs, Working
<1>3. freq[k.p] \in Left(DueOn(day))
      BY <1>1, <1>2, TodoNext
<1>4. day \in 1 .. Days
      BY DEF Placed, TypeOK
<1>5. QED BY <1>1, <1>3, <1>4, SubRange DEF DueDays

\* A run reminds of the pledge it is at, once.
LEMMA RunReminded ==
    ASSUME Placed, NEW c \in Calls, Only(c), CallOK(call'[c]), RunReminds(c), NEW p \in Pledges
    PROVE  LET e == call[c].p
           IN  /\ e \in Pledges /\ day \in DueDays(e)
               /\ \/ /\ Reminded(e, KeyFor(e, day))
                     /\ IF p = e THEN PledgeSent(c, p) ELSE PledgeCalm(c, p)
                  \/ reminders' = reminders /\ PledgeCalm(c, p)
<1> DEFINE k == call[c]
           r == call'[c]
<1>1. freq' = freq /\ day' = day /\ pledge' = pledge /\ p # Sub
      BY SubRange DEF RunReminds, countVars, rowVars
<1>2. /\ k \in Call /\ k.op = "job" /\ CallOK(k) /\ k.pc = "remind"
      BY DEF RunReminds, Placed, TypeOK
<1>3. k.p \in Pledges /\ day \in DueDays(k.p) /\ k.p \notin Coming(k)
      BY <1>2, NotComing, DueToday DEF Working
<1>4. KeyFor(k.p, day) = KeyToday(k.p)
      BY <1>3, SubRange DEF KeyFor, KeyToday
<1>5. PICK ok \in BOOLEAN :
         /\ k.ok => ok
         /\ IF ok /\ ~k.ok THEN Reminded(k.p, KeyToday(k.p)) ELSE UNCHANGED reminders
         /\ \/ Stays(k, r) /\ r.pc = "remind" /\ r.ok = ok
            \/ Passed(k, r, IF ok THEN k.marks \union {k.p} ELSE k.marks)
      BY DEF RunReminds
<1>6. Marks(k, p) => p \in (IF ok THEN k.marks \union {k.p} ELSE k.marks)
      BY <1>2, <1>5 DEF Marks
<1>7. k.pc \in RunPcs /\ k.pc \in {"findOpen", "insert", "remind"}
      BY <1>2 DEF RunPcs, Working
<1>8. /\ Reminds(r, p) => Reminds(k, p)
      /\ MayRemind(r, p) => MayRemind(k, p)
      /\ ~Reverts(r, p)
      /\ p \in (IF ok THEN k.marks \union {k.p} ELSE k.marks) => Marks(r, p)
  <2>1. CASE Passed(k, r, IF ok THEN k.marks \union {k.p} ELSE k.marks)
    <3> DEFINE M == IF ok THEN k.marks \union {k.p} ELSE k.marks
    <3>1. Passed(k, r, M)
          BY <2>1
    <3> HIDE DEF M
    <3>2. /\ Reminds(r, p) => Reminds(k, p)
          /\ MayRemind(r, p) => MayRemind(k, p)
          /\ ~Reverts(r, p)
          /\ p \in M => Marks(r, p)
          BY <3>1, PassedReminds
    <3>3. QED BY <3>2 DEF M
  <2>2. CASE Stays(k, r) /\ r.pc = "remind" /\ r.ok = ok
    <3>1. r.pc \in RunPcs \ {"chunk"}
          BY <2>2 DEF RunPcs, Working
    <3>2. /\ Reminds(r, p) => Reminds(k, p)
          /\ MayRemind(r, p) => MayRemind(k, p)
          /\ ~Reverts(r, p)
          /\ p \in k.marks => Marks(r, p)
          BY <1>2, <1>5, <1>7, <2>2, <3>1, StaysReminds
    <3>3. ok /\ p = k.p => Marks(r, p)
          BY <2>2, <3>1 DEF Stays, Marks, InRun
    <3>4. QED BY <3>2, <3>3
  <2>3. QED BY <1>5, <2>1, <2>2
<1>9. PledgeCalm(c, p)
      BY <1>1, <1>6, <1>8, PledgeCalmIf
<1>10. CASE ~(ok /\ ~k.ok)
       BY <1>3, <1>5, <1>9, <1>10
<1>11. CASE ok /\ ~k.ok
  <2>1. Reminded(k.p, KeyFor(k.p, day))
        BY <1>4, <1>5, <1>11
  <2>2. CASE p # k.p
        BY <1>3, <1>9, <2>1, <2>2
  <2>3. CASE p = k.p
    <3>1. Reminds(k, p) /\ Marks(r, p)
          BY <1>2, <1>8, <1>11, <2>3 DEF Reminds
    <3>2. p \notin Later(r) /\ p \notin Queue(r)
          BY <1>3, <1>5, <2>3 DEF Passed, Stays, Coming
    <3>3. ~(r.pc \in {"findOpen", "insert", "remind"} /\ r.p = p /\ ~r.ok)
      <4>1. CASE Stays(k, r) /\ r.pc = "remind" /\ r.ok = ok
            BY <1>11, <4>1
      <4>2. CASE Passed(k, r, IF ok THEN k.marks \union {k.p} ELSE k.marks)
        <5>1. r.pc = "findOpen" => r.p \in Queue(k)
              BY <4>2 DEF Passed, Working
        <5>2. QED BY <1>3, <2>3, <4>2, <5>1 DEF Passed, Coming
      <4>3. QED BY <1>5, <4>1, <4>2
    <3>4. ~Reminds(r, p)
          BY <3>2, <3>3 DEF Reminds
    <3>5. ~MayRemind(r, p)
      <4>1. r.pc # "load"
            BY <1>5 DEF Passed
      <4>2. QED BY <3>2, <4>1 DEF MayRemind
    <3>6. Noted(p)' <=> Noted(p)
          BY <1>1, NotedSame
    <3>7. PledgeSent(c, p)
          BY <1>8, <3>1, <3>4, <3>5, <3>6 DEF PledgeSent, Sending
    <3>8. QED BY <1>3, <2>1, <2>3, <3>7
  <2>4. QED BY <2>2, <2>3
<1>12. QED BY <1>10, <1>11

\* A run notes that it has reminded of a pledge.
LEMMA MarksReminds ==
    ASSUME Placed, NEW c \in Calls, Only(c), RunMarks(c), NEW p \in Pledges, Fits(freq[p])
    PROVE  PledgeCalm(c, p)
<1> DEFINE k == call[c]
           r == call'[c]
<1>1. freq' = freq /\ day' = day /\ p # Sub
      BY SubRange DEF RunMarks, countVars
<1>2. /\ k \in Call /\ k.op = "job" /\ CallOK(k) /\ k.pc = "mark" /\ pledge \in [Pledges -> Pledge]
      BY DEF RunMarks, Placed, TypeOK
<1>3. ChunkOK(k)
      BY <1>2 DEF CallOK, RunOK, InRun, RunPcs
<1>4. \A q \in k.marks \union k.thanked : q \in Pledges /\ freq[q] = Head(k.todo)
      BY <1>2, <1>3, RowsAreRows DEF ChunkOK
<1>5. Marks(k, p) => p \in k.marks
      BY <1>2 DEF Marks
<1>6. CASE r = NoCall /\ Head(k.todo) = "weekly" /\ UNCHANGED pledge
  <2>1. ~Marks(k, p)
        BY <1>4, <1>5, <1>6 DEF Fits
  <2>2. r.op = "none" /\ r.pc = "none"
        BY <1>6 DEF NoCall
  <2>3. ~Reminds(r, p) /\ ~MayRemind(r, p) /\ ~Reverts(r, p)
        BY <2>2 DEF Reminds, MayRemind, Reverts, Later, InRun
  <2>4. QED BY <1>1, <1>6, <2>1, <2>3, PledgeCalmIf
<1>7. CASE /\ r.op = "job" /\ r.force = k.force /\ r.due = k.due /\ r.pc \in {"mark", "chunk"}
           /\ Later(r) \subseteq Later(k) /\ Queue(r) = {}
           /\ \/ \E q \in k.marks :
                    /\ pledge' = [pledge EXCEPT ![q].reminded = KeyOf(Head(k.todo), day)]
                    /\ r.marks = k.marks \ {q}
              \/ \E q \in k.thanked :
                    /\ pledge' = [pledge EXCEPT ![q].thanked = PeriodOf(Head(k.todo), day)]
                    /\ r.marks = {} /\ k.marks = {}
  <2>1. /\ Reminds(r, p) => Reminds(k, p)
        /\ MayRemind(r, p) => MayRemind(k, p)
        /\ ~Reverts(r, p)
        BY <1>2, <1>7 DEF Reminds, MayRemind, Reverts
  <2>2. ASSUME NEW q \in k.marks,
               pledge' = [pledge EXCEPT ![q].reminded = KeyOf(Head(k.todo), day)],
               r.marks = k.marks \ {q}
        PROVE  PledgeCalm(c, p)
    <3>1. q \in Pledges /\ freq[q] = Head(k.todo) /\ pledge[q] \in Pledge /\ pledge[p] \in Pledge
          BY <1>2, <1>4
    <3>2. CASE p = q
      <4>1. pledge'[p].reminded = KeyOf(freq[p], day)
            BY <1>2, <2>2, <3>1, <3>2 DEF Pledge
      <4>2. Noted(p)'
            BY <1>1, <4>1 DEF Noted, KeyToday, KeyOf, PeriodOf
      <4>3. QED BY <2>1, <4>2 DEF PledgeCalm, Calm
    <3>3. CASE p # q
      <4>1. pledge'[p].reminded = pledge[p].reminded
            BY <1>2, <2>2, <3>1, <3>3
      <4>2. Marks(k, p) => Marks(r, p)
            BY <1>5, <1>7, <2>2, <3>3 DEF Marks, InRun, RunPcs
      <4>3. QED BY <1>1, <2>1, <4>1, <4>2, PledgeCalmIf
    <3>4. QED BY <3>2, <3>3
  <2>3. ASSUME NEW q \in k.thanked,
               pledge' = [pledge EXCEPT ![q].thanked = PeriodOf(Head(k.todo), day)],
               r.marks = {} /\ k.marks = {}
        PROVE  PledgeCalm(c, p)
    <3>1. q \in Pledges /\ pledge[q] \in Pledge /\ pledge[p] \in Pledge
          BY <1>2, <1>4
    <3>2. pledge'[p].reminded = pledge[p].reminded
          BY <1>2, <2>3, <3>1 DEF Pledge
    <3>3. ~Marks(k, p)
          BY <1>5, <2>3
    <3>4. QED BY <1>1, <2>1, <3>2, <3>3, PledgeCalmIf
  <2>4. QED BY <1>7, <2>2, <2>3
<1>8. QED BY <1>6, <1>7 DEF RunMarks

\* A handler that has nothing to do with the reminder of a pledge any more.
LEMMA PledgeOut ==
    ASSUME NEW c \in Calls, NEW p \in Pledges, freq' = freq, day' = day,
           call'[c].pc \notin RunPcs \union {"load", "save"},
           pledge'[p].reminded = pledge[p].reminded \/ Noted(p)', ~Marks(call[c], p)
    PROVE  PledgeCalm(c, p)
<1> DEFINE r == call'[c]
<1>1. p # Sub
      BY SubRange
<1>2. ~Reminds(r, p) /\ ~MayRemind(r, p) /\ ~Reverts(r, p)
  <2>1. ~InRun(r) /\ r.pc \notin {"findOpen", "insert", "remind", "load", "save"}
        BY DEF InRun, RunPcs, Working
  <2>2. QED BY <2>1 DEF Reminds, MayRemind, Reverts, Later, Queue
<1>3. Noted(p) => Noted(p)'
      BY <1>1, NotedSame
<1>4. QED BY <1>2, <1>3 DEF PledgeCalm, Calm

\* The steps of the subscription's part, of payments and of cleanups.
LEMMA SubOrPayReminds ==
    ASSUME Placed, NEW c \in Calls, Only(c), SubDoes(c) \/ OtherDoes(c), ~Creates(c), ~Loads(c),
           ~Saves(c), ~Counts(c), ~FlagsDonor(c), NEW p \in Pledges
    PROVE  PledgeCalm(c, p)
<1> DEFINE k == call[c]
           r == call'[c]
<1>1. NoCall.pc = "none"
      BY DEF NoCall
<1>2. CASE SubDoes(c)
  <2>1. r.pc \in SubPcs \union {"none"} /\ k.pc \in SubPcs
        BY <1>1, <1>2 DEF SubDoes, SubReads, SubPasses, SubInserts, SubSends, SubNotes, SubPcs
  <2>2. freq' = freq /\ day' = day /\ pledge' = pledge
        BY <1>2 DEF SubDoes, SubReads, SubPasses, SubInserts, SubSends, SubNotes, countVars, rowVars
  <2>3. r.pc \notin RunPcs \union {"load", "save"} /\ k.pc \notin RunPcs
        BY <2>1 DEF SubPcs, RunPcs, Working
  <2>4. ~Marks(k, p)
        BY <2>3 DEF Marks, InRun
  <2>5. QED BY <2>2, <2>3, <2>4, PledgeOut
<1>3. CASE OtherDoes(c)
  <2>1. k.op \in {"pay", "cleanup"} /\ r.pc \in PayPcs \union {"none", "archive"}
        BY <1>1, <1>3 DEF OtherDoes, Completes, Settles, Claims, PaySends, Releases, Cleans, ClaimsNext, PayPcs
  <2>2. freq' = freq /\ day' = day /\ pledge' = pledge
        BY <1>3 DEF OtherDoes, Completes, Settles, Claims, PaySends, Releases, Cleans, countVars, rowVars
  <2>3. r.pc \notin RunPcs \union {"load", "save"}
        BY <2>1 DEF PayPcs, RunPcs, Working
  <2>4. ~Marks(k, p)
        BY <2>1 DEF Marks, InRun
  <2>5. QED BY <2>2, <2>3, <2>4, PledgeOut
<1>4. QED BY <1>2, <1>3

\* A change of a pledge that read it before it was noted may take that back.
LEMMA StaffReminds ==
    ASSUME Placed, NEW c \in Calls, Only(c),
           Creates(c) \/ Loads(c) \/ Saves(c) \/ Counts(c) \/ FlagsDonor(c), NEW p \in Pledges
    PROVE  PledgeCalm(c, p)
<1> DEFINE k == call[c]
           r == call'[c]
<1>1. /\ NoCall.pc = "none" /\ pledge \in [Pledges -> Pledge] /\ p # Sub
      /\ freq' = freq /\ day' = day
      BY SubRange DEF NoCall, Placed, TypeOK, Creates, Loads, Saves, Counts, FlagsDonor, countVars
<1>2. ~Marks(k, p)
  <2>1. k.op \in Staff
        BY DEF Creates, Loads, Saves, Counts, FlagsDonor
  <2>2. QED BY <2>1 DEF Marks, InRun, Staff
<1>3. CASE Creates(c)
  <2>1. r.pc \in {"none", "recurring"}
        BY <1>1, <1>3 DEF Creates
  <2>2. pledge'[p].reminded = pledge[p].reminded
    <3>1. k.p \in Pledges /\ pledge[k.p] \in Pledge /\ pledge[p] \in Pledge
          BY <1>1, <1>3 DEF Creates
    <3>2. QED BY <1>1, <1>3, <3>1 DEF Creates, Pledge
  <2>3. QED BY <1>1, <1>2, <2>1, <2>2, PledgeOut DEF RunPcs, Working
<1>4. CASE Counts(c) \/ FlagsDonor(c)
  <2>1. r.pc \in {"none", "recurring"} /\ pledge' = pledge
        BY <1>1, <1>4 DEF Counts, FlagsDonor, rowVars
  <2>2. QED BY <1>1, <1>2, <2>1, PledgeOut DEF RunPcs, Working
<1>5. CASE Loads(c)
  <2>1. pledge' = pledge /\ k.pc = "load"
        BY <1>5 DEF Loads, rowVars
  <2>2. CASE r = NoCall
        BY <1>1, <1>2, <2>1, <2>2, PledgeOut DEF RunPcs, Working
  <2>3. CASE r.op = k.op /\ r.pc = "save" /\ r.p = k.p /\ r.rows[k.p] = pledge[k.p]
    <3>1. Noted(p)' <=> Noted(p)
          BY <1>1, <2>1, NotedSame
    <3>2. ~Reminds(r, p) /\ ~MayRemind(r, p)
          BY <2>3 DEF Reminds, MayRemind, Later, Queue, InRun, RunPcs, Working
    <3>3. Reverts(r, p) => MayRemind(k, p) /\ ~Noted(p)
          BY <1>1, <2>1, <2>3 DEF Reverts, MayRemind, Noted
    <3>4. QED BY <1>2, <3>1, <3>2, <3>3 DEF PledgeCalm, Calm
  <2>4. QED BY <1>5, <2>2, <2>3 DEF Loads
<1>6. CASE Saves(c)
  <2>1. PICK e \in Pledge : /\ e.reminded = k.rows[k.p].reminded
                            /\ pledge' = [pledge EXCEPT ![k.p] = e]
        BY <1>6 DEF Saves
  <2>2. k.p \in Pledges /\ k.pc = "save" /\ r.pc = "count"
        BY <1>6 DEF Saves
  <2>3. ~Reminds(r, p) /\ ~MayRemind(r, p) /\ ~Reverts(r, p)
        BY <2>2 DEF Reminds, MayRemind, Reverts, Later, Queue, InRun, RunPcs, Working
  <2>4. Noted(p) /\ ~Reverts(k, p) => Noted(p)'
    <3>1. CASE p = k.p
      <4>1. pledge'[p].reminded = k.rows[p].reminded
            BY <1>1, <2>1, <2>2, <3>1
      <4>2. ~Reverts(k, p) => pledge'[p].reminded = KeyToday(p)
            BY <2>2, <3>1, <4>1 DEF Reverts
      <4>3. KeyToday(p)' = KeyToday(p)
            BY <1>1 DEF KeyToday, KeyOf, PeriodOf
      <4>4. QED BY <1>1, <4>2, <4>3 DEF Noted
    <3>2. CASE p # k.p
      <4>1. pledge'[p].reminded = pledge[p].reminded
            BY <1>1, <2>1, <2>2, <3>2
      <4>2. QED BY <1>1, <4>1, NotedSame
    <3>3. QED BY <3>1, <3>2
  <2>5. QED BY <1>2, <2>3, <2>4 DEF PledgeCalm, Calm
<1>7. QED BY <1>3, <1>4, <1>5, <1>6

\* The steps of other handlers than runs leave the subscription's reminder alone.
LEMMA OtherSubCalm ==
    ASSUME Placed, NEW c \in Calls, Only(c), OtherDoes(c)
    PROVE  SubCalm(c)
<1> DEFINE k == call[c]
           r == call'[c]
<1>1. CallOK(k) /\ NoCall.op = "none" /\ NoCall.pc = "none" /\ day' = day
      BY SameDay DEF NoCall, Placed, Does
<1>2. k.op \in {"pay", "cleanup"} \union Staff
      BY DEF OtherDoes, Completes, Settles, Claims, PaySends, Releases, Cleans, Creates, Loads, Saves,
             Counts, FlagsDonor
<1>3. k.pc \notin SubPcs
      BY <1>1, <1>2 DEF CallOK, PlaceOK, SubPcs, PayPcs, Staff
<1>4. r.op # "job" /\ r.pc \notin {"subMark", "subRemind"}
      BY <1>1, <1>2 DEF OtherDoes, Completes, Settles, Claims, PaySends, Releases, Cleans, Creates, Loads,
                        Saves, Counts, FlagsDonor, ClaimsNext, Staff
<1>5. mark' = mark
      BY DEF OtherDoes, Completes, Settles, Claims, PaySends, Releases, Cleans, Creates, Loads, Saves,
             Counts, FlagsDonor, ledgerVars
<1>6. Noted(Sub)' <=> Noted(Sub)
      BY <1>1, <1>5 DEF Noted, SubKey
<1>7. ~SubReminds(r) /\ ~SubMay(r) /\ ~SubMarks(k)
      BY <1>3, <1>4 DEF SubReminds, SubMay, SubMarks, SubPcs
<1>8. QED BY <1>6, <1>7 DEF SubCalm, Calm

\* So do those of a run among the pledges.
LEMMA RunSubCalm ==
    ASSUME Placed, NEW c \in Calls, Only(c), RunDoes(c)
    PROVE  SubCalm(c)
<1> DEFINE k == call[c]
           r == call'[c]
<1>1. NoCall.op = "none" /\ NoCall.pc = "none" /\ day' = day /\ mark' = mark
      BY SameDay DEF NoCall, Does, RunDoes, ReadsChunk, Looks, FindsPaid, RunThanks, RunFlags,
                     RunTemplates, FindsOpen, RunInserts, RunReminds, RunMarks, ledgerVars
<1>2. k.op = "job" /\ k.pc \in RunPcs
      BY DEF RunDoes, ReadsChunk, Looks, FindsPaid, RunThanks, RunFlags, RunTemplates, FindsOpen,
             RunInserts, RunReminds, RunMarks, RunPcs, Working
<1>3. r = NoCall \/ (r.op = "job" /\ r.force = k.force /\ r.pc \in RunPcs \union {"subRead"})
  <2>1. CASE ReadsChunk(c)
        BY <2>1 DEF ReadsChunk, RunPcs
  <2>2. CASE Looks(c) \/ FindsPaid(c) \/ FindsOpen(c) \/ RunInserts(c) \/ RunReminds(c)
        BY <2>2 DEF Looks, FindsPaid, FindsOpen, RunInserts, RunReminds, Stays, Passed, RunPcs, Working
  <2>3. CASE RunThanks(c) \/ RunFlags(c) \/ RunTemplates(c)
        BY <2>3 DEF RunThanks, RunFlags, RunTemplates, GoesOn, Stays, Passed, RunPcs, Working
  <2>4. CASE RunMarks(c)
        BY <2>4 DEF RunMarks, RunPcs
  <2>5. QED BY <2>1, <2>2, <2>3, <2>4 DEF RunDoes
<1>4. k.pc \notin SubPcs
      BY <1>2 DEF RunPcs, SubPcs, Working
<1>5. r.pc \notin SubPcs \ {"subRead"}
      BY <1>1, <1>3 DEF RunPcs, SubPcs, Working
<1>6. Noted(Sub)' <=> Noted(Sub)
      BY <1>1 DEF Noted, SubKey
<1>7. /\ SubReminds(r) => SubReminds(k)
      /\ SubMay(r) => SubMay(k)
      /\ ~SubMarks(k)
      BY <1>1, <1>2, <1>3, <1>4, <1>5 DEF SubReminds, SubMay, SubMarks, SubPcs
<1>8. QED BY <1>6, <1>7 DEF SubCalm, Calm

\* The subscription's part of a run.
LEMMA SubReminded ==
    ASSUME Placed, NEW c \in Calls, Only(c), SubDoes(c)
    PROVE  \/ reminders' = reminders /\ SubCalm(c)
           \/ day \in DueDays(Sub) /\ Reminded(Sub, KeyFor(Sub, day)) /\ SubSent(c)
<1> DEFINE k == call[c]
           r == call'[c]
<1>1. /\ NoCall.op = "none" /\ NoCall.pc = "none" /\ day' = day /\ k \in Call /\ CallOK(k)
      BY SameDay DEF NoCall, Does, Placed, TypeOK
<1>2. ASSUME mark' = mark PROVE Noted(Sub)' <=> Noted(Sub)
      BY <1>1, <1>2 DEF Noted, SubKey
<1>3. r = NoCall => ~SubReminds(r) /\ ~SubMay(r) /\ ~SubMarks(r)
      BY <1>1 DEF SubReminds, SubMay, SubMarks
<1>4. CASE SubReads(c)
  <2>1. /\ k.op = "job" /\ k.pc = "subRead" /\ r.pc = "subInitial" /\ r.force = k.force
        /\ r.key = mark /\ mark' = mark /\ reminders' = reminders
        BY <1>4 DEF SubReads, ledgerVars, historyVars
  <2>2. SubReminds(r) => SubReminds(k) \/ (~Noted(Sub) /\ SubMay(k))
        BY <2>1 DEF SubReminds, SubMay, Noted, RunPcs, Working
  <2>3. ~SubMay(r) /\ ~SubMarks(k)
        BY <2>1 DEF SubMay, SubMarks, RunPcs, Working
  <2>4. SubCalm(c)
        BY <1>2, <2>1, <2>2, <2>3 DEF SubCalm, Calm
  <2>5. QED BY <2>1, <2>4
<1>5. CASE SubPasses(c) \/ SubInserts(c)
  <2>1. /\ k.op = "job" /\ k.pc \in {"subInitial", "subSettled", "subDonated", "subOpen", "subInsert"}
        /\ mark' = mark /\ reminders' = reminders
        BY <1>5 DEF SubPasses, SubInserts, ledgerVars, historyVars
  <2>2. \/ r = NoCall
        \/ /\ r.force = k.force /\ r.key = k.key
           /\ r.pc \in {"subSettled", "subDonated", "subOpen", "subInsert", "subRemind"}
        BY <1>5 DEF SubPasses, SubInserts
  <2>3. SubReminds(r) => SubReminds(k)
        BY <1>3, <2>1, <2>2 DEF SubReminds, SubPcs, RunPcs, Working
  <2>4. ~SubMay(r) /\ ~SubMarks(k)
        BY <1>3, <2>1, <2>2 DEF SubMay, SubMarks, RunPcs, Working
  <2>5. SubCalm(c)
        BY <1>2, <2>1, <2>3, <2>4 DEF SubCalm, Calm
  <2>6. QED BY <2>1, <2>5
<1>6. CASE SubNotes(c)
  <2>1. mark' = SubKey(day) /\ r = NoCall /\ reminders' = reminders
        BY <1>6 DEF SubNotes, historyVars
  <2>2. Noted(Sub)'
        BY <1>1, <2>1 DEF Noted, SubKey
  <2>3. SubCalm(c)
        BY <1>3, <2>1, <2>2 DEF SubCalm, Calm
  <2>4. QED BY <2>1, <2>3
<1>7. CASE SubSends(c)
  <2>1. PICK got \in BOOLEAN :
           /\ IF got /\ ~k.ok THEN Reminded(Sub, SubKey(day)) ELSE UNCHANGED reminders
           /\ \/ /\ r.op = "job" /\ r.pc = "subRemind" /\ r.force = k.force /\ r.key = k.key
                 /\ r.ok = (k.ok \/ got)
              \/ r.op = "job" /\ r.pc = "subMark" /\ (k.ok \/ got)
              \/ r = NoCall /\ ~k.ok /\ ~got
        BY <1>7 DEF SubSends
  <2>2. k.op = "job" /\ k.pc = "subRemind" /\ mark' = mark
        BY <1>7 DEF SubSends, ledgerVars
  <2>3. day \in RemindDays /\ (k.force \/ k.key # SubKey(day))
        BY <1>1, <2>2 DEF CallOK, SubOK, SubPcs
  <2>4. SubReminds(k) <=> ~k.ok
        BY <2>2, <2>3 DEF SubReminds, SubPcs, RunPcs, Working
  <2>5. ~SubMay(k) /\ (SubMarks(k) <=> k.ok)
        BY <2>2 DEF SubMay, SubMarks, RunPcs, Working
  <2>6. /\ ~SubMay(r)
        /\ SubReminds(r) => ~k.ok /\ ~got
        /\ k.ok \/ got => SubMarks(r)
    <3>1. CASE r.op = "job" /\ r.pc = "subRemind" /\ (r.ok <=> (k.ok \/ got))
          BY <3>1 DEF SubMay, SubReminds, SubMarks, RunPcs, Working
    <3>2. CASE r.op = "job" /\ r.pc = "subMark" /\ (k.ok \/ got)
          BY <3>2 DEF SubMay, SubReminds, SubMarks, RunPcs, Working
    <3>3. CASE r = NoCall /\ ~k.ok /\ ~got
          BY <1>3, <3>3
    <3>4. QED BY <2>1, <3>1, <3>2, <3>3
  <2>7. CASE got /\ ~k.ok
    <3>1. SubSent(c)
          BY <1>2, <2>2, <2>4, <2>5, <2>6, <2>7 DEF SubSent, Sending
    <3>2. day \in DueDays(Sub) /\ Reminded(Sub, KeyFor(Sub, day))
          BY <2>1, <2>3, <2>7 DEF DueDays, KeyFor
    <3>3. QED BY <3>1, <3>2
  <2>8. CASE ~(got /\ ~k.ok)
    <3>1. SubCalm(c)
          BY <1>2, <2>2, <2>4, <2>5, <2>6, <2>8 DEF SubCalm, Calm
    <3>2. QED BY <2>1, <2>8, <3>1
  <2>9. QED BY <2>7, <2>8
<1>8. QED BY <1>4, <1>5, <1>6, <1>7 DEF SubDoes

\* A handler's step reminds of nothing, or of one target with its key of today, and for each
\* target that is counted it sends nothing, or what may be sent once less.
Reminder(e) == day \in DueDays(e) /\ Reminded(e, KeyFor(e, day))

RemindStep(c, t) ==
    \/ reminders' = reminders /\ (Counted(t) => RemindCalm(c, t))
    \/ \E e \in Targets :
          /\ Reminder(e)
          /\ Counted(t) => IF t = e THEN RemindSent(c, t) ELSE RemindCalm(c, t)

LEMMA RunReminders ==
    ASSUME Placed, NEW c \in Calls, Only(c), CallOK(call'[c]), RunDoes(c), NEW t \in Targets
    PROVE  RemindStep(c, t)
<1> DEFINE e == call[c].p
<1>1. CASE RunReminds(c)
  <2>1. ASSUME NEW p \in Pledges
        PROVE  /\ e \in Pledges /\ day \in DueDays(e)
               /\ \/ /\ Reminded(e, KeyFor(e, day))
                     /\ IF p = e THEN PledgeSent(c, p) ELSE PledgeCalm(c, p)
                  \/ reminders' = reminders /\ PledgeCalm(c, p)
        BY <1>1, RunReminded
  <2>2. CASE t \in Pledges
    <3>1. t # Sub /\ e \in Targets
          BY <2>1, <2>2, SubRange
    <3>2. QED BY <2>1, <2>2, <3>1 DEF RemindStep, Reminder, RemindSent, RemindCalm
  <2>3. CASE t = Sub
    <3>1. SubCalm(c)
          BY <1>1, RunSubCalm
    <3>2. \/ reminders' = reminders
          \/ e \in Pledges /\ day \in DueDays(e) /\ Reminded(e, KeyFor(e, day))
      <4>1. e \in Pledges
        <5>1. CallOK(call[c]) /\ call[c] \in Call /\ call[c].op = "job" /\ call[c].pc = "remind"
              BY <1>1 DEF RunReminds, Placed, TypeOK
        <5>2. QED BY <5>1, DueToday DEF Working
      <4>2. QED BY <2>1, <4>1
    <3>3. QED BY <2>3, <3>1, <3>2, SubRange DEF RemindStep, Reminder, RemindCalm
  <2>4. QED BY <2>2, <2>3, SubRange
<1>2. CASE ~RunReminds(c)
  <2>1. reminders' = reminders
        BY <1>2 DEF RunDoes, ReadsChunk, Looks, FindsPaid, RunThanks, RunFlags, RunTemplates, FindsOpen,
                    RunInserts, RunMarks, historyVars
  <2>2. CASE t \in Pledges
    <3>1. t # Sub
          BY <2>2, SubRange
    <3>2. Counted(t) => PledgeCalm(c, t)
      <4>1. CASE RunMarks(c)
            BY <2>2, <3>1, <4>1, MarksReminds DEF Counted
      <4>2. CASE ~RunMarks(c)
            BY <1>2, <2>2, <4>2, ReadsReminds, WorksReminds DEF RunDoes
      <4>3. QED BY <4>1, <4>2
    <3>3. QED BY <2>1, <3>1, <3>2 DEF RemindStep, RemindCalm
  <2>3. CASE t = Sub
    <3>1. SubCalm(c)
          BY RunSubCalm
    <3>2. QED BY <2>1, <2>3, <3>1 DEF RemindStep, RemindCalm
  <2>4. QED BY <2>2, <2>3, SubRange
<1>3. QED BY <1>1, <1>2

LEMMA HandlerReminds ==
    ASSUME Placed, NEW c \in Calls, Only(c), CallOK(call'[c]),
           RunDoes(c) \/ SubDoes(c) \/ OtherDoes(c), NEW t \in Targets
    PROVE  RemindStep(c, t)
<1>1. CASE RunDoes(c)
      BY <1>1, RunReminders
<1>2. CASE SubDoes(c)
  <2>1. \/ reminders' = reminders /\ SubCalm(c)
        \/ day \in DueDays(Sub) /\ Reminded(Sub, KeyFor(Sub, day)) /\ SubSent(c)
        BY <1>2, SubReminded
  <2>2. t # Sub => PledgeCalm(c, t)
    <3>1. ~Creates(c) /\ ~Loads(c) /\ ~Saves(c) /\ ~Counts(c) /\ ~FlagsDonor(c)
      <4>1. call[c].op = "job"
            BY <1>2 DEF SubDoes, SubReads, SubPasses, SubInserts, SubSends, SubNotes
      <4>2. QED BY <4>1 DEF Creates, Loads, Saves, Counts, FlagsDonor, Staff
    <3>2. QED BY <1>2, <3>1, SubRange, SubOrPayReminds
  <2>3. QED BY <2>1, <2>2, SubRange DEF RemindStep, Reminder, RemindSent, RemindCalm
<1>3. CASE OtherDoes(c)
  <2>1. reminders' = reminders
        BY <1>3 DEF OtherDoes, Completes, Settles, Claims, PaySends, Releases, Cleans, Creates, Loads,
                    Saves, Counts, FlagsDonor, historyVars
  <2>2. SubCalm(c)
        BY <1>3, OtherSubCalm
  <2>3. t # Sub => PledgeCalm(c, t)
        BY <1>3, SubRange, SubOrPayReminds, StaffReminds
  <2>4. QED BY <2>1, <2>2, <2>3 DEF RemindStep, RemindCalm
<1>4. QED BY <1>1, <1>2, <1>3

\* One more reminder; nothing is taken back.
LEMMA RemindersAreFinite ==
    ASSUME RemindersKept, NEW t, NEW key
    PROVE  IsFiniteSet(RemindersOf(t, key)) /\ Cardinality(RemindersOf(t, key)) \in Nat
<1>1. RemindersOf(t, key) \subseteq reminders
      BY DEF RemindersOf
<1>2. QED BY <1>1, CardSubset DEF RemindersKept

LEMMA OneMoreReminder ==
    ASSUME Placed, RemindersKept, NEW e \in Targets, NEW f, f = KeyFor(e, day), day \in DueDays(e),
           Reminded(e, f), freq' = freq, day' = day
    PROVE  /\ RemindersKept'
           /\ \A t, key : Cardinality(RemindersOf(t, key)') =
                             IF t = e /\ key = f THEN Cardinality(RemindersOf(t, key)) + 1
                                                 ELSE Cardinality(RemindersOf(t, key))
<1> DEFINE n   == Cardinality(RemindersOf(e, f))
           new == <<e, f, n + 1>>
<1>1. reminders' = reminders \union {new}
      BY DEF Reminded, RemindersOf
<1>2. \A t, key : IsFiniteSet(RemindersOf(t, key)) /\ Cardinality(RemindersOf(t, key)) \in Nat
      BY RemindersAreFinite
<1>3. n \in Nat /\ IsFiniteSet(RemindersOf(e, f))
      BY <1>2
<1>4. new[1] = e /\ new[2] = f /\ new[3] = n + 1
      OBVIOUS
<1>5. f \in {KeyFor(e, d) : d \in {x \in DueDays(e) : x <= day}}
  <2>1. day \in Nat
        BY DEF Placed, TypeOK
  <2>2. QED BY <2>1
<1>6. \A t : {KeyFor(t, d) : d \in {x \in DueDays(t) : x <= day}}'
                = {KeyFor(t, d) : d \in {x \in DueDays(t) : x <= day}}
      BY DEF KeyFor, DueDays, KeyOf, PeriodOf
<1> HIDE DEF n, new
<1>7. new \notin RemindersOf(e, f)
  <2>1. SUFFICES ASSUME new \in RemindersOf(e, f) PROVE FALSE
        OBVIOUS
  <2>2. new \in reminders
        BY <2>1 DEF RemindersOf
  <2>3. n + 1 <= n
        BY <1>4, <2>2 DEF RemindersKept, n
  <2>4. QED BY <1>3, <2>3
<1>8. RemindersOf(e, f)' = RemindersOf(e, f) \union {new}
      BY <1>1, <1>4 DEF RemindersOf
<1>9. Cardinality(RemindersOf(e, f)') = n + 1
      BY <1>3, <1>7, <1>8, FS_AddElement DEF n
<1>10. ASSUME NEW t, NEW key, ~(t = e /\ key = f)
       PROVE  RemindersOf(t, key)' = RemindersOf(t, key)
       BY <1>1, <1>4, <1>10 DEF RemindersOf
<1>11. ASSUME NEW t, NEW key
       PROVE  Cardinality(RemindersOf(t, key)') =
                 IF t = e /\ key = f THEN Cardinality(RemindersOf(t, key)) + 1
                                     ELSE Cardinality(RemindersOf(t, key))
       BY <1>9, <1>10 DEF n
<1>12. IsFiniteSet(reminders')
       BY <1>1, FS_AddElement DEF RemindersKept
<1>13. ASSUME NEW r \in reminders'
       PROVE  /\ r[1] \in Targets
              /\ r[2] \in {KeyFor(r[1], d) : d \in {x \in DueDays(r[1]) : x <= day}}
              /\ r[3] \in Nat /\ r[3] <= Cardinality(RemindersOf(r[1], r[2])')
  <2>1. CASE r = new
        BY <1>3, <1>4, <1>5, <1>9, <2>1
  <2>2. CASE r \in reminders
    <3>1. /\ r[1] \in Targets
          /\ r[2] \in {KeyFor(r[1], d) : d \in {x \in DueDays(r[1]) : x <= day}}
          /\ r[3] \in Nat /\ r[3] <= Cardinality(RemindersOf(r[1], r[2]))
          BY <2>2 DEF RemindersKept
    <3>2. Cardinality(RemindersOf(r[1], r[2])) \in Nat
          BY <1>2
    <3>3. Cardinality(RemindersOf(r[1], r[2])') \in Nat
          /\ Cardinality(RemindersOf(r[1], r[2])) <= Cardinality(RemindersOf(r[1], r[2])')
          BY <1>11, <3>2
    <3>4. QED BY <3>1, <3>2, <3>3
  <2>3. QED BY <1>1, <2>1, <2>2
<1>14. RemindersKept'
  <2>1. \A r \in reminders' : RemindersOf(r[1], r[2])' = {u \in reminders' : u[1] = r[1] /\ u[2] = r[2]}
        BY DEF RemindersOf
  <2>2. \A r \in reminders' : /\ r[1] \in Targets
                              /\ r[2] \in {KeyFor(r[1], d) : d \in {x \in DueDays(r[1]) : x <= day}}'
                              /\ r[3] \in Nat /\ r[3] <= Cardinality(RemindersOf(r[1], r[2])')
        BY <1>6, <1>13
  <2>3. QED BY <1>12, <2>1, <2>2 DEF RemindersKept
<1>15. QED BY <1>11, <1>14

LEMMA RemindPotIsNumber ==
    ASSUME NEW t PROVE RemindPot(t) \in Nat /\ RemindPot(t)' \in Nat
<1>1. Reminding(t) \subseteq Calls /\ Reverting(t) \subseteq Calls /\ Pending(t) \subseteq Calls
      BY DEF Reminding, Reverting, Pending
<1>2. Reminding(t)' \subseteq Calls /\ Reverting(t)' \subseteq Calls /\ Pending(t)' \subseteq Calls
      BY DEF Reminding, Reverting, Pending
<1>3. RemindPot(t) \in Nat
      BY <1>1, PotIsNumber DEF RemindPot
<1>4. Pot(Noted(t)', Reminding(t)', Reverting(t)', Pending(t)', Marking(t)') \in Nat
      BY <1>2, PotIsNumber
<1>5. QED BY <1>3, <1>4 DEF RemindPot

\* The reminders there are stay, and keep their days.
LEMMA SameReminders ==
    ASSUME Placed, Placed', RemindersKept, reminders' = reminders, freq' = freq, day <= day'
    PROVE  /\ RemindersKept'
           /\ \A t, key : RemindersOf(t, key)' = RemindersOf(t, key)
<1>1. \A t, key : RemindersOf(t, key)' = RemindersOf(t, key)
      BY DEF RemindersOf
<1>2. day \in Nat /\ day' \in Nat
      BY DEF Placed, TypeOK
<1>3. \A t : DueDays(t) \subseteq Nat /\ DueDays(t)' = DueDays(t)
  <2>1. RemindDays \subseteq Nat /\ 1 .. Days \subseteq Nat
    <3>1. DOMAIN EarlyFor \subseteq 1 .. Days /\ BillingDays \subseteq 1 .. Days
          BY ReminderAssumption
    <3>2. 1 .. Days \subseteq Nat
          OBVIOUS
    <3>3. QED BY <3>1, <3>2 DEF RemindDays
  <2>2. ASSUME NEW t PROVE DueDays(t) \subseteq Nat
        BY <2>1 DEF DueDays
  <2>3. ASSUME NEW t PROVE DueDays(t)' = DueDays(t)
        BY DEF DueDays, DueOn, RemindDays
  <2>4. QED BY <2>2, <2>3
<1>4. \A t, d : KeyFor(t, d)' = KeyFor(t, d)
      BY DEF KeyFor, KeyOf, PeriodOf
<1>5. \A t : {KeyFor(t, d) : d \in {x \in DueDays(t) : x <= day}}
                \subseteq {KeyFor(t, d) : d \in {x \in DueDays(t) : x <= day'}}
      BY <1>2, <1>3
<1>6. \A t : {KeyFor(t, d) : d \in {x \in DueDays(t) : x <= day'}}
                \subseteq {KeyFor(t, d) : d \in {x \in DueDays(t) : x <= day}}'
      BY <1>3, <1>4
<1>7. QED BY <1>1, <1>5, <1>6 DEF RemindersKept

\* What is counted of the reminders of today and of those before is counted again.
LEMMA CountedAgain ==
    ASSUME freq' = freq, day' = day, RemindersKept',
           \A r \in reminders' : Counted(r[1]) =>
              Cardinality(RemindersOf(r[1], r[2])') <= 1 + overlaps' + deaths' + forced',
           \A t \in Targets : \A key : Counted(t) /\ day \in DueDays(t) /\ key = KeyFor(t, day) =>
              Cardinality(RemindersOf(t, key)') + RemindPot(t)' <= 1 + overlaps' + deaths' + forced'
    PROVE  RemindersCounted'
<1>1. \A t : (Counted(t)' <=> Counted(t)) /\ DueDays(t)' = DueDays(t) /\ KeyFor(t, day)' = KeyFor(t, day)
      BY DEF Counted, Fits, DueDays, DueOn, KeyFor, KeyOf, PeriodOf, SubKey
<1>2. \A t, key : RemindersOf(t, key)' = {r \in reminders' : r[1] = t /\ r[2] = key}
      BY DEF RemindersOf
<1>3. \A t : RemindersOf(t, KeyFor(t, day))' = {r \in reminders' : r[1] = t /\ r[2] = KeyFor(t, day)'}
      BY DEF RemindersOf
<1>4. \A r \in reminders' : RemindersOf(r[1], r[2])' = {u \in reminders' : u[1] = r[1] /\ u[2] = r[2]}
      BY DEF RemindersOf
<1>5. ASSUME NEW t \in Targets, Counted(t)', (day \in DueDays(t))'
      PROVE  (Cardinality(RemindersOf(t, KeyFor(t, day))) + RemindPot(t) <= 1 + overlaps + deaths + forced)'
  <2>1. Counted(t) /\ day \in DueDays(t)
        BY <1>1, <1>5
  <2> DEFINE key == KeyFor(t, day)
  <2>2. Cardinality({r \in reminders' : r[1] = t /\ r[2] = key}) + RemindPot(t)'
           <= 1 + overlaps' + deaths' + forced'
        BY <1>2, <2>1
  <2>3. QED BY <1>1, <1>3, <2>2
<1>6. QED BY <1>1, <1>2, <1>4, <1>5 DEF RemindersCounted

\* A handler's step sends no reminders beyond those it may send.
LEMMA RemindersRun ==
    ASSUME Placed, Placed', RemindersCounted, NEW c \in Calls, Only(c), CallOK(call'[c]),
           RunDoes(c) \/ SubDoes(c) \/ OtherDoes(c)
    PROVE  RemindersCounted'
<1>1. /\ freq' = freq /\ day' = day /\ overlaps' = overlaps /\ deaths' = deaths /\ forced' = forced
      /\ overlaps \in Nat /\ deaths \in Nat /\ forced \in Nat /\ day <= day'
  <2>1. overlaps' = overlaps /\ deaths' = deaths /\ forced' = forced
        BY DEF RunDoes, ReadsChunk, Looks, FindsPaid, RunThanks, RunFlags, RunTemplates, FindsOpen,
               RunInserts, RunReminds, RunMarks, SubDoes, SubReads, SubPasses, SubInserts, SubSends,
               SubNotes, OtherDoes, Completes, Settles, Claims, PaySends, Releases, Cleans, Creates,
               Loads, Saves, Counts, FlagsDonor, countVars
  <2>2. freq' = freq /\ day' = day
        BY SameDay DEF Does
  <2>3. QED BY <2>1, <2>2 DEF Placed, TypeOK
<1>2. RemindersKept /\ \A t, key : Cardinality(RemindersOf(t, key)) \in Nat
      BY RemindersAreFinite DEF RemindersCounted
<1>3. \A t \in Targets : RemindStep(c, t)
      BY HandlerReminds
<1>4. ASSUME reminders' = reminders
      PROVE  /\ RemindersKept'
             /\ \A t, key : Cardinality(RemindersOf(t, key)') = Cardinality(RemindersOf(t, key))
      BY <1>1, <1>2, <1>4, SameReminders
<1>5. ASSUME NEW e \in Targets, Reminder(e)
      PROVE  /\ RemindersKept'
             /\ \A t, key : Cardinality(RemindersOf(t, key)') =
                               IF t = e /\ key = KeyFor(e, day) THEN Cardinality(RemindersOf(t, key)) + 1
                                                                ELSE Cardinality(RemindersOf(t, key))
      BY <1>1, <1>2, <1>5, OneMoreReminder DEF Reminder
<1>6. RemindersKept'
  <2>1. RemindStep(c, Sub)
        BY <1>3, SubRange
  <2>2. QED BY <1>4, <1>5, <2>1 DEF RemindStep
<1>7. ASSUME NEW t \in Targets, NEW key, Counted(t), day \in DueDays(t), key = KeyFor(t, day)
      PROVE  Cardinality(RemindersOf(t, key)') + RemindPot(t)' <= 1 + overlaps' + deaths' + forced'
  <2>1. /\ Cardinality(RemindersOf(t, key)) + RemindPot(t) <= 1 + overlaps + deaths + forced
        /\ RemindPot(t) \in Nat /\ RemindPot(t)' \in Nat
        /\ Cardinality(RemindersOf(t, key)) \in Nat
        BY <1>2, <1>7, RemindPotIsNumber DEF RemindersCounted
  <2>2. CASE reminders' = reminders /\ RemindCalm(c, t)
    <3>1. /\ Cardinality(RemindersOf(t, key)') = Cardinality(RemindersOf(t, key))
          /\ RemindPot(t)' <= RemindPot(t)
          BY <1>1, <1>4, <2>2, RemindPotCalm
    <3>2. QED BY <1>1, <2>1, <3>1
  <2>3. ASSUME NEW e \in Targets, Reminder(e), IF t = e THEN RemindSent(c, t) ELSE RemindCalm(c, t)
        PROVE  Cardinality(RemindersOf(t, key)') + RemindPot(t)' <= 1 + overlaps' + deaths' + forced'
    <3>1. Cardinality(RemindersOf(t, key)') = IF t = e THEN Cardinality(RemindersOf(t, key)) + 1
                                                       ELSE Cardinality(RemindersOf(t, key))
          BY <1>5, <1>7, <2>3
    <3>2. IF t = e THEN RemindPot(t)' + 1 <= RemindPot(t) ELSE RemindPot(t)' <= RemindPot(t)
          BY <1>1, <2>3, RemindPotCalm, RemindPotSent
    <3>3. QED BY <1>1, <2>1, <3>1, <3>2
  <2>4. QED BY <1>3, <1>7, <2>2, <2>3 DEF RemindStep
<1>8. ASSUME NEW r \in reminders', Counted(r[1])
      PROVE  Cardinality(RemindersOf(r[1], r[2])') <= 1 + overlaps' + deaths' + forced'
  <2>1. \A s \in reminders : Counted(s[1]) =>
           Cardinality(RemindersOf(s[1], s[2])) <= 1 + overlaps' + deaths' + forced'
        BY <1>1 DEF RemindersCounted
  <2>2. CASE reminders' = reminders
        BY <1>4, <1>8, <2>1, <2>2
  <2>3. ASSUME NEW e \in Targets, Reminder(e)
        PROVE  Cardinality(RemindersOf(r[1], r[2])') <= 1 + overlaps' + deaths' + forced'
    <3>1. CASE r[1] = e /\ r[2] = KeyFor(e, day)
      <4>1. Cardinality(RemindersOf(r[1], r[2])') + RemindPot(e)' <= 1 + overlaps' + deaths' + forced'
            BY <1>7, <1>8, <2>3, <3>1 DEF Reminder
      <4>2. Cardinality(RemindersOf(r[1], r[2])') \in Nat /\ RemindPot(e)' \in Nat
            BY <1>2, <1>5, <2>3, RemindPotIsNumber
      <4>3. QED BY <1>1, <4>1, <4>2
    <3>2. CASE ~(r[1] = e /\ r[2] = KeyFor(e, day))
      <4>1. r \in reminders
        <5>1. r \in reminders \/ (r[1] = e /\ r[2] = KeyFor(e, day))
              BY <2>3 DEF Reminder, Reminded
        <5>2. QED BY <3>2, <5>1
      <4>2. Cardinality(RemindersOf(r[1], r[2])') = Cardinality(RemindersOf(r[1], r[2]))
            BY <1>5, <2>3, <3>2
      <4>3. QED BY <1>8, <2>1, <4>1, <4>2
    <3>3. QED BY <3>1, <3>2
  <2>4. RemindStep(c, Sub)
        BY <1>3, SubRange
  <2>5. QED BY <2>2, <2>3, <2>4 DEF RemindStep
<1>9. QED
  <2>1. \A r \in reminders' : Counted(r[1]) =>
           Cardinality(RemindersOf(r[1], r[2])') <= 1 + overlaps' + deaths' + forced'
        BY <1>8
  <2>2. \A t \in Targets : \A key : Counted(t) /\ day \in DueDays(t) /\ key = KeyFor(t, day) =>
           Cardinality(RemindersOf(t, key)') + RemindPot(t)' <= 1 + overlaps' + deaths' + forced'
        BY <1>7
  <2>3. QED BY <1>1, <1>6, <2>1, <2>2, CountedAgain

\* A handler that begins, or dies.
LEMMA RemindBegin ==
    ASSUME Placed, NEW c \in Calls, Only(c), Starts(c) \/ Dies(c), NEW t \in Targets
    PROVE  /\ RemindPot(t)' <= RemindPot(t) + 1
           /\ Starts(c) /\ Quiet /\ ~call'[c].force => RemindPot(t)' <= RemindPot(t)
<1> DEFINE n == Noted(t)
           n2 == Noted(t)'
           r == call'[c]
           H == Reminding(t)
           U == Reverting(t)
           W == Pending(t)
           G == Marking(t)
           H2 == Reminding(t)'
           U2 == Reverting(t)'
           W2 == Pending(t)'
           G2 == Marking(t)'
<1>1. freq' = freq /\ day' = day /\ pledge' = pledge /\ mark' = mark
      BY DEF Starts, Dies, rowVars, ledgerVars
<1>2. r.pc \in {"chunk", "complete", "today", "create", "load", "none"}
      BY DEF Starts, Dies, NoCall
<1>3. \A p : ~Reverts(r, p)
      BY <1>2 DEF Reverts
<1>4. ~r.force => ~SubReminds(r) /\ \A p : ~Reminds(r, p)
      BY <1>2 DEF SubReminds, Reminds, Later, Queue, SubPcs, Working
<1>5. /\ Apart(H, H2, c) /\ Apart(U, U2, c) /\ Apart(W, W2, c) /\ Apart(G, G2, c)
      /\ H \subseteq Calls /\ U \subseteq Calls /\ W \subseteq Calls
      /\ c \notin U2 /\ (~r.force => c \notin H2)
  <2>1. H \subseteq Calls /\ U \subseteq Calls /\ W \subseteq Calls
        BY DEF Reminding, Reverting, Pending
  <2>2. CASE t = Sub
    <3>1. Apart({}, {}, c)
          BY DEF Apart
    <3>2. QED BY <1>1, <1>4, <2>1, <2>2, <3>1, SubStep
  <2>3. CASE t \in Pledges
        BY <1>1, <1>3, <1>4, <2>1, <2>3, PledgeStep
  <2>4. QED BY <2>2, <2>3, SubRange
<1>6. RemindPot(t) = Pot(n, H, U, W, G) /\ RemindPot(t)' = Pot(n2, H2, U2, W2, G2)
      BY DEF RemindPot
<1>7. Quiet => H = {} /\ U = {} /\ W = {} /\ G = {}
  <2>1. SUFFICES ASSUME Quiet PROVE H = {} /\ U = {} /\ W = {} /\ G = {}
        OBVIOUS
  <2>2. ASSUME NEW x \in Calls PROVE call[x].op = "none" /\ call[x].pc = "none"
    <3>1. call[x] = NoCall
          BY <2>1 DEF Quiet, Running, Placed, CallOK, PlaceOK
    <3>2. QED BY <3>1 DEF NoCall
  <2>3. QED BY <2>2 DEF Reminding, Reverting, Pending, Marking, SubReminds, SubMay, SubMarks, Reminds,
                        Reverts, MayRemind, Marks, Later, Queue, InRun
<1>8. n \in BOOLEAN /\ n2 \in BOOLEAN /\ (n2 <=> n)
      BY <1>1, NotedIs, NotedSame
<1>9. n2 = n
      BY <1>8, Zenon
<1> HIDE DEF n, n2, H, U, W, G, H2, U2, W2, G2
<1>10. Pot(n, H2, U2, W2, G2) <= Pot(n, H, U, W, G) + 1
       BY <1>5, <1>8, PotTrouble
<1>11. Quiet /\ ~r.force => Pot(n, H2, U2, W2, G2) <= Pot(n, H, U, W, G)
  <2>1. SUFFICES ASSUME Quiet, ~r.force PROVE Pot(n, H2, U2, W2, G2) <= Pot(n, H, U, W, G)
        OBVIOUS
  <2>2. H = {} /\ U = {} /\ W = {} /\ G = {} /\ H2 = {} /\ U2 = {} /\ W2 \subseteq {c}
        BY <1>5, <1>7, <2>1 DEF Apart
  <2>3. Pot(n, {}, {}, W2, G2) <= Pot(n, {}, {}, {}, {})
        BY <1>8, <2>2, PotStart
  <2>4. QED BY <2>2, <2>3
<1>12. QED BY <1>6, <1>9, <1>10, <1>11

LEMMA MoreTroubleCounts ==
    ASSUME NEW n \in Nat, NEW a \in Nat, NEW a2 \in Nat, NEW o \in Nat, NEW x \in Nat, NEW y \in Nat,
           NEW o2 \in Nat, NEW x2 \in Nat, NEW y2 \in Nat, n + a <= 1 + o + x + y, a2 <= a + 1,
           o2 >= o, x2 >= x, y2 >= y,
           o2 >= o + 1 \/ x2 >= x + 1 \/ y2 >= y + 1 \/ a2 <= a
    PROVE  n + a2 <= 1 + o2 + x2 + y2
OBVIOUS

LEMMA RemindersTroubled ==
    ASSUME Placed, Placed', RemindersCounted, NEW c \in Calls, Only(c), Starts(c) \/ Dies(c)
    PROVE  RemindersCounted'
<1>1. reminders' = reminders /\ freq' = freq /\ day' = day /\ day <= day'
      BY DEF Starts, Dies, historyVars, Placed, TypeOK
<1>2. /\ overlaps \in Nat /\ deaths \in Nat /\ forced \in Nat
      /\ overlaps' \in Nat /\ deaths' \in Nat /\ forced' \in Nat
      BY DEF Placed, TypeOK
<1>3. /\ overlaps' >= overlaps /\ deaths' >= deaths /\ forced' >= forced
      /\ \/ overlaps' >= overlaps + 1 \/ deaths' >= deaths + 1 \/ forced' >= forced + 1
         \/ Starts(c) /\ Quiet /\ ~call'[c].force
  <2>1. CASE Dies(c)
    <3>1. overlaps' = overlaps /\ deaths' = deaths + 1 /\ forced' = forced
          BY <2>1 DEF Dies
    <3>2. QED BY <1>2, <3>1
  <2>2. CASE Starts(c)
    <3>1. /\ overlaps' = overlaps \/ overlaps' = overlaps + 1
          /\ Quiet \/ overlaps' = overlaps + 1
          /\ forced' = forced \/ forced' = forced + 1
          /\ ~call'[c].force \/ forced' = forced + 1
          /\ deaths' = deaths
          BY <2>2 DEF Starts
    <3>2. QED BY <1>2, <2>2, <3>1
  <2>3. QED BY <2>1, <2>2
<1>4. RemindersKept' /\ \A t, key : /\ Cardinality(RemindersOf(t, key)') = Cardinality(RemindersOf(t, key))
                                    /\ Cardinality(RemindersOf(t, key)) \in Nat
  <2>1. RemindersKept
        BY DEF RemindersCounted
  <2>2. QED BY <1>1, <2>1, SameReminders, RemindersAreFinite
<1>5. ASSUME NEW t \in Targets, NEW key, Counted(t), day \in DueDays(t), key = KeyFor(t, day)
      PROVE  Cardinality(RemindersOf(t, key)') + RemindPot(t)' <= 1 + overlaps' + deaths' + forced'
  <2>1. /\ Cardinality(RemindersOf(t, key)) + RemindPot(t) <= 1 + overlaps + deaths + forced
        /\ RemindPot(t) \in Nat /\ RemindPot(t)' \in Nat
        BY <1>5, RemindPotIsNumber DEF RemindersCounted
  <2>2. /\ RemindPot(t)' <= RemindPot(t) + 1
        /\ Starts(c) /\ Quiet /\ ~call'[c].force => RemindPot(t)' <= RemindPot(t)
        BY RemindBegin
  <2>3. /\ Cardinality(RemindersOf(t, key)') = Cardinality(RemindersOf(t, key))
        /\ Cardinality(RemindersOf(t, key)) \in Nat
        BY <1>4
  <2>4. \/ overlaps' >= overlaps + 1 \/ deaths' >= deaths + 1 \/ forced' >= forced + 1
        \/ RemindPot(t)' <= RemindPot(t)
        BY <1>3, <2>2, Zenon
  <2>5. Cardinality(RemindersOf(t, key)) + RemindPot(t)' <= 1 + overlaps' + deaths' + forced'
        BY <1>2, <1>3, <2>1, <2>2, <2>3, <2>4, MoreTroubleCounts
  <2>6. QED BY <2>3, <2>5
<1>6. ASSUME NEW r \in reminders', Counted(r[1])
      PROVE  Cardinality(RemindersOf(r[1], r[2])') <= 1 + overlaps' + deaths' + forced'
  <2>1. Cardinality(RemindersOf(r[1], r[2])) <= 1 + overlaps + deaths + forced
        BY <1>1, <1>6 DEF RemindersCounted
  <2>2. /\ Cardinality(RemindersOf(r[1], r[2])') = Cardinality(RemindersOf(r[1], r[2]))
        /\ Cardinality(RemindersOf(r[1], r[2])) \in Nat
        BY <1>4
  <2>3. QED BY <1>2, <1>3, <2>1, <2>2
<1>7. QED
  <2>1. \A r \in reminders' : Counted(r[1]) =>
           Cardinality(RemindersOf(r[1], r[2])') <= 1 + overlaps' + deaths' + forced'
        BY <1>6
  <2>2. \A t \in Targets : \A key : Counted(t) /\ day \in DueDays(t) /\ key = KeyFor(t, day) =>
           Cardinality(RemindersOf(t, key)') + RemindPot(t)' <= 1 + overlaps' + deaths' + forced'
        BY <1>5
  <2>3. QED BY <1>1, <1>4, <2>1, <2>2, CountedAgain

\* A card that is declined, and a step that is none.
LEMMA RemindersElsewhere ==
    ASSUME Placed, Placed', RemindersCounted, call' = call, freq' = freq, day' = day, pledge' = pledge,
           mark' = mark, reminders' = reminders, overlaps' = overlaps, deaths' = deaths, forced' = forced
    PROVE  RemindersCounted'
<1>1. ASSUME NEW t PROVE RemindPot(t)' = RemindPot(t)
  <2>1. ASSUME NEW x \in Calls
        PROVE  /\ SubReminds(call[x])' <=> SubReminds(call[x])
               /\ SubMay(call[x])' <=> SubMay(call[x])
               /\ SubMarks(call[x])' <=> SubMarks(call[x])
               /\ Reminds(call[x], t)' <=> Reminds(call[x], t)
               /\ Reverts(call[x], t)' <=> Reverts(call[x], t)
               /\ MayRemind(call[x], t)' <=> MayRemind(call[x], t)
               /\ Marks(call[x], t)' <=> Marks(call[x], t)
    <3>1. Later(call[x])' = Later(call[x]) /\ Queue(call[x])' = Queue(call[x])
          BY DEF Later, Queue, InRun
    <3>2. ToRemind(call[x], t)' <=> ToRemind(call[x], t)
          BY DEF ToRemind, KeyOf, PeriodOf
    <3>3. Reverts(call[x], t)' <=> Reverts(call[x], t)
          BY DEF Reverts, KeyToday, KeyOf, PeriodOf
    <3>4. QED BY <3>1, <3>2, <3>3 DEF SubReminds, SubMay, SubMarks, SubKey, Reminds, MayRemind, Marks, InRun
  <2>2. /\ Reminding(t)' = Reminding(t) /\ Reverting(t)' = Reverting(t)
        /\ Pending(t)' = Pending(t) /\ Marking(t)' = Marking(t)
        BY <2>1 DEF Reminding, Reverting, Pending, Marking
  <2>3. Noted(t)' = Noted(t)
        BY DEF Noted, KeyToday, KeyOf, PeriodOf, SubKey
  <2>4. QED BY <2>2, <2>3 DEF RemindPot
<1>2. day <= day' /\ RemindersKept
      BY DEF Placed, TypeOK, RemindersCounted
<1>3. RemindersKept' /\ \A t, key : RemindersOf(t, key)' = RemindersOf(t, key)
      BY <1>2, SameReminders
<1>4. \A r \in reminders' : Counted(r[1]) =>
         Cardinality(RemindersOf(r[1], r[2])') <= 1 + overlaps' + deaths' + forced'
      BY <1>3 DEF RemindersCounted
<1>5. \A t \in Targets : \A key : Counted(t) /\ day \in DueDays(t) /\ key = KeyFor(t, day) =>
         Cardinality(RemindersOf(t, key)') + RemindPot(t)' <= 1 + overlaps' + deaths' + forced'
      BY <1>1, <1>3 DEF RemindersCounted
<1>6. QED BY <1>3, <1>4, <1>5, CountedAgain

\* The keys of two days differ, for everything but a weekly pledge.
LEMMA KeysApart ==
    ASSUME Placed, NEW t \in Targets, Counted(t), NEW d \in DueDays(t), NEW e \in DueDays(t),
           KeyFor(t, d) = KeyFor(t, e)
    PROVE  d = e
<1>1. CASE t = Sub
  <2>1. d \in RemindDays /\ e \in RemindDays /\ SubKey(d) = SubKey(e)
        BY <1>1 DEF DueDays, KeyFor
  <2>2. SubKey(d).tag = SubKey(e).tag /\ SubKey(d).period = SubKey(e).period
        BY <2>1
  <2>3. CASE d \in DOMAIN EarlyFor /\ e \in DOMAIN EarlyFor
    <3>1. Month[EarlyFor[d]] = Month[EarlyFor[e]]
          BY <2>2, <2>3 DEF SubKey
    <3>2. QED BY <2>3, <3>1, ReminderAssumption
  <2>4. CASE d \notin DOMAIN EarlyFor /\ e \notin DOMAIN EarlyFor
    <3>1. Month[d] = Month[e]
          BY <2>2, <2>4 DEF SubKey
    <3>2. d \in BillingDays /\ e \in BillingDays
          BY <2>1, <2>4 DEF RemindDays
    <3>3. QED BY <3>1, <3>2, ReminderAssumption
  <2>5. CASE ~(d \in DOMAIN EarlyFor <=> e \in DOMAIN EarlyFor)
        BY <2>2, <2>5 DEF SubKey
  <2>6. QED BY <2>3, <2>4, <2>5
<1>2. CASE t \in Pledges
  <2>1. /\ freq[t] \in Freqs /\ freq[t] # "weekly"
        /\ freq[t] \in Left(DueOn(d)) /\ freq[t] \in Left(DueOn(e))
        /\ KeyOf(freq[t], d) = KeyOf(freq[t], e)
    <3>1. freq \in [Pledges -> Freqs]
          BY ReminderAssumption DEF Placed, TypeOK
    <3>2. QED BY <1>2, <3>1, SubRange DEF Counted, Fits, DueDays, KeyFor
  <2>2. PeriodOf(freq[t], d) = PeriodOf(freq[t], e)
    <3>1. KeyOf(freq[t], d).period = KeyOf(freq[t], e).period
          BY <2>1
    <3>2. QED BY <3>1 DEF KeyOf
  <2>3. CASE freq[t] = "daily"
        BY <2>2, <2>3 DEF PeriodOf
  <2>4. CASE freq[t] = "monthly"
    <3>1. Month[d] = Month[e]
          BY <2>2, <2>4 DEF PeriodOf
    <3>2. \A x : "monthly" \in Left(DueOn(x)) => x \in Seconds
          BY DEF DueOn, Left
    <3>3. d \in Seconds /\ e \in Seconds
          BY <2>1, <2>4, <3>2
    <3>4. QED BY <3>1, <3>3, ReminderAssumption
  <2>5. QED BY <2>1, <2>3, <2>4 DEF Freqs
<1>3. QED BY <1>1, <1>2, SubRange

\* A new day has new keys, with nothing sent and nobody under way.
LEMMA RemindersNextDay ==
    ASSUME Placed, RemindersCounted, NextDay
    PROVE  RemindersCounted'
<1>1. Placed' /\ \A c \in Calls : call[c] = NoCall
      BY NextDayPlaced
<1>2. /\ freq' = freq /\ call' = call /\ reminders' = reminders /\ day' = day + 1
      /\ overlaps' = overlaps /\ deaths' = deaths /\ forced' = forced
      BY DEF NextDay, historyVars
<1>3. /\ overlaps' \in Nat /\ deaths' \in Nat /\ forced' \in Nat /\ day \in Nat
      /\ day <= day' /\ ~(day' <= day) /\ RemindersKept
      BY <1>1, <1>2 DEF Placed, TypeOK, RemindersCounted
<1>4. RemindersKept' /\ \A t, key : RemindersOf(t, key)' = RemindersOf(t, key)
      BY <1>1, <1>2, <1>3, SameReminders
<1>5. \A t : /\ Counted(t)' <=> Counted(t)
             /\ DueDays(t)' = DueDays(t)
             /\ KeyFor(t, day)' = KeyFor(t, day')
      BY <1>2 DEF Counted, Fits, DueDays, DueOn, KeyFor, KeyOf, PeriodOf, SubKey
<1>6. ASSUME NEW t \in Targets, Counted(t), day' \in DueDays(t), NEW key, key = KeyFor(t, day')
      PROVE  Cardinality(RemindersOf(t, key)') + RemindPot(t)' <= 1 + overlaps' + deaths' + forced'
  <2>1. RemindersOf(t, key) = {}
    <3>1. SUFFICES ASSUME NEW r \in RemindersOf(t, key) PROVE FALSE
          OBVIOUS
    <3>2. r \in reminders /\ r[1] = t /\ r[2] = key
          BY DEF RemindersOf
    <3>3. PICK d \in DueDays(t) : d <= day /\ key = KeyFor(t, d)
          BY <1>3, <3>2 DEF RemindersKept
    <3>4. d = day'
          BY <1>6, <3>3, KeysApart
    <3>5. QED BY <1>3, <3>3, <3>4
  <2>2. Cardinality(RemindersOf(t, key)') = 0
        BY <1>4, <2>1, FS_EmptySet
  <2>3. RemindPot(t)' <= 1
    <3>1. \A x \in Calls : call'[x].op = "none" /\ call'[x].pc = "none"
          BY <1>1, <1>2 DEF NoCall
    <3>2. Reminding(t)' = {} /\ Reverting(t)' = {} /\ Pending(t)' = {}
          BY <3>1 DEF Reminding, Reverting, Pending, SubReminds, SubMay, Reminds, Reverts, MayRemind,
                      Later, Queue, InRun
    <3>3. Cardinality({}) = 0
          BY FS_EmptySet
    <3>4. Pot(Noted(t)', Reminding(t)', Reverting(t)', Pending(t)', Marking(t)') <= 1
          BY <3>2, <3>3 DEF Pot
    <3>5. QED BY <3>4 DEF RemindPot
  <2>4. RemindPot(t)' \in Nat
        BY RemindPotIsNumber
  <2>5. QED BY <1>3, <2>2, <2>3, <2>4
<1>7. ASSUME NEW t \in Targets, Counted(t)', (day \in DueDays(t))'
      PROVE  (Cardinality(RemindersOf(t, KeyFor(t, day))) + RemindPot(t) <= 1 + overlaps + deaths + forced)'
  <2>1. Counted(t) /\ day' \in DueDays(t)
        BY <1>5, <1>7
  <2>2. PICK key : key = KeyFor(t, day')
        OBVIOUS
  <2>3. Cardinality(RemindersOf(t, key)') + RemindPot(t)' <= 1 + overlaps' + deaths' + forced'
        BY <1>6, <2>1, <2>2
  <2>4. RemindersOf(t, key)' = {r \in reminders' : r[1] = t /\ r[2] = key}
        BY DEF RemindersOf
  <2>5. RemindersOf(t, KeyFor(t, day))' = {r \in reminders' : r[1] = t /\ r[2] = KeyFor(t, day)'}
        BY DEF RemindersOf
  <2>6. KeyFor(t, day)' = key
        BY <1>5, <2>2
  <2>7. QED BY <2>3, <2>4, <2>5, <2>6
<1>8. ASSUME NEW r \in reminders', Counted(r[1])'
      PROVE  (Cardinality(RemindersOf(r[1], r[2])))' <= 1 + overlaps' + deaths' + forced'
  <2>1. RemindersOf(r[1], r[2])' = RemindersOf(r[1], r[2])
        BY <1>4
  <2>2. QED BY <1>2, <1>5, <1>8, <2>1 DEF RemindersCounted
<1>9. QED BY <1>4, <1>7, <1>8 DEF RemindersCounted

LEMMA NextReminders ==
    Placed /\ Placed' /\ RemindersCounted /\ [Next]_vars => RemindersCounted'
<1> SUFFICES ASSUME Placed, Placed', RemindersCounted, [Next]_vars PROVE RemindersCounted'
    OBVIOUS
<1>1. CASE NextDay
      BY <1>1, RemindersNextDay
<1>2. CASE UNCHANGED vars
      BY <1>2, RemindersElsewhere DEF vars, countVars, historyVars, rowVars, ledgerVars
<1>3. ASSUME NEW d \in DOMAIN donation, Decline(d) PROVE RemindersCounted'
      BY <1>3, RemindersElsewhere DEF Decline, historyVars, rowVars, ledgerVars
<1>4. ASSUME NEW c \in Calls,
             Job(c) \/ Pay(c) \/ Cleanup(c) \/ Change(c) \/ RunStep(c) \/ OtherStep(c) \/ Crash(c)
      PROVE  RemindersCounted'
  <2>1. Only(c) /\ CallOK(call'[c]) /\ Does(c)
        BY <1>4, StepDoes
  <2>2. QED BY <2>1, RemindersRun, RemindersTroubled DEF Does
<1>5. QED BY <1>1, <1>2, <1>3, <1>4 DEF Next

\* For a pledge that is not weekly and for the subscription, the reminders of a period that
\* reached the donor and those that the handlers under way may still send are no more than
\* one, the overlaps, the deaths and the forced runs there were, whatever staff change.
THEOREM RemindersInvariant == Spec => []RemindersCounted
<1>1. Init => RemindersCounted
  <2> SUFFICES ASSUME Init PROVE RemindersCounted
      OBVIOUS
  <2>1. /\ NoCall.op = "none" /\ NoCall.pc = "none" /\ reminders = {}
        /\ overlaps = 0 /\ deaths = 0 /\ forced = 0 /\ \A x \in Calls : call[x] = NoCall
        BY DEF Init, NoCall
  <2>2. IsFiniteSet(reminders) /\ \A t, key : RemindersOf(t, key) = {}
        BY <2>1, FS_EmptySet DEF RemindersOf
  <2>3. Cardinality({}) = 0
        BY FS_EmptySet
  <2>4. ASSUME NEW t PROVE RemindPot(t) <= 1
    <3>1. Reminding(t) = {} /\ Reverting(t) = {} /\ Pending(t) = {}
          BY <2>1 DEF Reminding, Reverting, Pending, SubReminds, SubMay, Reminds, Reverts, MayRemind,
                      Later, Queue, InRun
    <3>2. QED BY <2>3, <3>1 DEF RemindPot, Pot
  <2>5. ASSUME NEW t, NEW key
        PROVE  Cardinality(RemindersOf(t, key)) + RemindPot(t) <= 1 + overlaps + deaths + forced
        BY <2>1, <2>2, <2>3, <2>4, RemindPotIsNumber
  <2>6. QED BY <2>1, <2>2, <2>5 DEF RemindersCounted, RemindersKept
<1>2. QED BY <1>1, NextReminders, PlacedInvariant, PTL DEF Spec

\* A donor is reminded of a period once, and for each overlap of handlers, death and forced
\* run once more, unless the pledge is weekly; and each pledge and the subscription has one
\* link to pay with, and for each overlap one more.
THEOREM RemindersBound == Spec => []RemindersAccounted
<1>1. Placed /\ RemindersCounted /\ LinksCounted => RemindersAccounted
  <2> SUFFICES ASSUME Placed, RemindersCounted, LinksCounted PROVE RemindersAccounted
      OBVIOUS
  <2>1. /\ overlaps \in Nat /\ deaths \in Nat /\ forced \in Nat /\ RemindersKept
        BY DEF Placed, TypeOK, RemindersCounted
  <2>2. ASSUME NEW r \in reminders, r[1] = Sub \/ Fits(freq[r[1]])
        PROVE  r[3] <= 1 + (overlaps + deaths + forced)
    <3>1. Cardinality(RemindersOf(r[1], r[2])) <= 1 + overlaps + deaths + forced
          BY <2>2 DEF RemindersCounted, Counted
    <3>2. r[3] \in Nat /\ r[3] <= Cardinality(RemindersOf(r[1], r[2]))
          BY <2>1 DEF RemindersKept
    <3>3. Cardinality(RemindersOf(r[1], r[2])) \in Nat
          BY <2>1, RemindersAreFinite
    <3>4. QED BY <2>1, <3>1, <3>2, <3>3
  <2>3. ASSUME NEW t \in Targets PROVE Cardinality(Links(t)) <= 1 + overlaps
    <3>1. Cardinality(Links(t)) + Cardinality(Inserting(t)) <= 1 + overlaps
          BY DEF LinksCounted
    <3>2. Cardinality(Inserting(t)) \in Nat
      <4>1. Inserting(t) \subseteq Calls
            BY DEF Inserting
      <4>2. QED BY <4>1, CallsAreFinite
    <3>3. Cardinality(Links(t)) \in Nat
      <4>1. donation \in Seq(Donation) /\ Links(t) \subseteq DOMAIN donation
            BY DEF Links, Placed, TypeOK
      <4>2. DOMAIN donation = 1 .. Len(donation) /\ Len(donation) \in Nat
            BY <4>1
      <4>3. IsFiniteSet(1 .. Len(donation))
            BY <4>2, FS_Interval
      <4>4. QED BY <4>1, <4>2, <4>3, FS_Subset, FS_CardinalityType
    <3>4. QED BY <2>1, <3>1, <3>2, <3>3
  <2>4. QED BY <2>2, <2>3 DEF RemindersAccounted, Links
<1>2. QED BY <1>1, PlacedInvariant, RemindersInvariant, LinksInvariant, PTL
=============================================================================
