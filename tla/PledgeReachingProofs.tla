------------------------ MODULE PledgeReachingProofs ------------------------
(***************************************************************************)
(* The proof that a run of the reminders which ends by itself has reached  *)
(* everybody it owed a message, whatever other handlers did meanwhile.     *)
(*                                                                         *)
(* What the run owes somebody stays owed, unless another handler excuses   *)
(* it, until a message was tried today (Owing).  Until then the pledge is  *)
(* ahead of the run, in its chunk or at hand (Reaches), for what the rows, *)
(* and the run's copies of them, say was done has been tried (Notes,       *)
(* Noting).                                                                *)
(***************************************************************************)
EXTENDS PledgeRemindersProofs

PaidOf(p) == PaidFor(p, freq[p])

TriedToday(t) == <<t, KeyFor(t, day)>> \in tried

\* What a row says of pledge p: it was reminded only of what was tried, and thanked only
\* for a period that is paid for.
RowOK(p, e) ==
    /\ e.reminded = NoKey \/ <<p, e.reminded>> \in tried
    /\ e.thanked # 0 =>
          \E d \in DOMAIN donation : /\ donation[d].for = p /\ donation[d].status = "completed"
                                     /\ PeriodOf(freq[p], donation[d].day) = e.thanked

SubNoted(key) == key = NoKey \/ <<Sub, key>> \in tried

Notes ==
    /\ \A p \in Pledges : RowOK(p, pledge[p])
    /\ SubNoted(mark)
    /\ \A d \in DOMAIN donation : Open(donation[d].status) => donation[d].sent = {}
    /\ Initial \in DOMAIN donation

Noting(k) ==
    /\ \A p \in k.marks : TriedToday(p)
    /\ \A p \in k.thanked : p \in k.given /\ (p \in k.due => TriedToday(p))
    /\ \A p \in k.given : PaidOf(p) # {}
    /\ \A p \in DOMAIN k.rows : RowOK(p, k.rows[p])
    /\ SubNoted(k.key)
    /\ k.pc = "flag" => TriedToday(k.p)
    /\ k.pc = "subMark" => TriedToday(Sub)
    /\ k.pc \in {"thank", "flag"} \union (PayPcs \ {"complete"}) => donation[k.d].status = "completed"

\* A pledge that is in a later chunk, or in this one, or at hand.
Waits(k, p) ==
    /\ p \in Later(k)
    /\ k.pc # "chunk" /\ freq[p] = Head(k.todo) => Cardinality(DOMAIN k.rows) = k.size

Needs(k, p) ==
    /\ k.rows[p].thanked # PeriodOf(freq[p], day)
    /\ \/ p \in k.given
       \/ ~(freq[p] = "monthly" /\ k.rows[p].covered)
       \/ k.pc = "lookup" /\ p \in k.ids /\ PaidOf(p) # {}

InChunk(k, p) == p \in Queue(k) /\ Needs(k, p)

AtHand(k, p) ==
    /\ k.p = p /\ k.pc \in Working \ {"flag"}
    /\ k.pc = "findPaid" => p \notin OwnTemplates

Reaches(k, p) == Waits(k, p) \/ InChunk(k, p) \/ AtHand(k, p)

Owing(k) ==
    k.op = "job" =>
        \A t \in k.due : TriedToday(t) \/ (t \in Owed /\ (t = Sub \/ Reaches(k, t)))

Reaching == Notes /\ \A k \in {call[c] : c \in Calls} : Noting(k) /\ Owing(k)

\* What is left of a run's frequencies is all that follow the first.
LEMMA TodoRest ==
    ASSUME NEW s \in Todos, s # <<>>
    PROVE  Left(s) \ {Head(s)} \subseteq Left(Tail(s))
<1>1. CASE s = <<"daily">> BY <1>1 DEF Todos, Left
<1>2. CASE s = <<"weekly">> BY <1>2 DEF Todos, Left
<1>3. CASE s = <<"monthly">> BY <1>3 DEF Todos, Left
<1>4. CASE s = <<"daily", "weekly">> BY <1>4 DEF Todos, Left
<1>5. CASE s = <<"daily", "monthly">> BY <1>5 DEF Todos, Left
<1>6. CASE s = <<"weekly", "monthly">> BY <1>6 DEF Todos, Left
<1>7. CASE s = <<"daily", "weekly", "monthly">>
  <2>1. Tail(s) = <<"weekly", "monthly">> /\ Head(s) = "daily"
        BY <1>7
  <2>2. Left(s) = {"daily", "weekly", "monthly"} /\ Left(<<"weekly", "monthly">>) = {"weekly", "monthly"}
        BY <1>7 DEF Left
  <2>3. QED BY <2>1, <2>2
<1>8. QED BY <1>1, <1>2, <1>3, <1>4, <1>5, <1>6, <1>7 DEF Todos

\* A chunk that leaves some out is full, and those it leaves out come after it.
LEMMA ChunkIsFull ==
    ASSUME NEW n \in Nat, NEW ps, ps \subseteq 1 .. n, NEW size \in Nat,
           NEW some, some = {p \in ps : Cardinality({q \in ps : q <= p}) <= size},
           NEW t \in ps, t \notin some
    PROVE  Cardinality(some) = size /\ \A y \in some : y < t
<1> DEFINE Upto(p) == {q \in ps : q <= p}
<1>1. IsFiniteSet(ps) /\ ps \subseteq Nat
  <2>1. IsFiniteSet(1 .. n)
        BY FS_Interval
  <2>2. IsFiniteSet(ps)
        BY <2>1, FS_Subset, Zenon
  <2>3. ps \subseteq Nat
        OBVIOUS
  <2>4. QED BY <2>2, <2>3
<1>2. ASSUME NEW p, NEW q \in ps, p \in ps, q <= p
      PROVE  IsFiniteSet(Upto(p)) /\ Cardinality(Upto(q)) \in Nat /\ Cardinality(Upto(p)) \in Nat
             /\ Cardinality(Upto(q)) <= Cardinality(Upto(p))
  <2>1. Upto(q) \subseteq Upto(p)
    <3>1. ASSUME NEW x \in ps, x <= q PROVE x <= p
      <4>1. x \in Nat /\ q \in Nat /\ p \in Nat
            BY <1>1, <1>2
      <4>2. QED BY <1>2, <3>1, <4>1
    <3>2. QED BY <3>1
  <2>2. IsFiniteSet(Upto(p)) /\ IsFiniteSet(Upto(q))
        BY <1>1, FS_Subset
  <2>3. QED BY <2>1, <2>2, FS_Subset, FS_CardinalityType
<1> DEFINE rest == ps \ some
           m    == Min(rest)
<1>3. m \in rest /\ \A y \in rest : m <= y
      BY <1>1, MinIsLeast
<1> HIDE DEF m
<1>4. ASSUME NEW y \in some, NEW x \in rest PROVE y < x
  <2>1. y \in ps /\ x \in ps /\ y \in Nat /\ x \in Nat
        BY <1>1
  <2>2. Cardinality(Upto(y)) <= size /\ ~ (Cardinality(Upto(x)) <= size)
        OBVIOUS
  <2>3. CASE x <= y
    <3>1. Cardinality(Upto(x)) <= Cardinality(Upto(y)) /\ Cardinality(Upto(x)) \in Nat
          /\ Cardinality(Upto(y)) \in Nat
          BY <1>2, <2>1, <2>3
    <3> HIDE DEF Upto
    <3>2. QED BY <2>2, <3>1
  <2>4. QED BY <2>1, <2>3
<1>5. Upto(m) = some \union {m}
  <2>1. ASSUME NEW q \in ps, q <= m, q \notin some PROVE q = m
    <3>1. m <= q /\ q \in Nat /\ m \in Nat
          BY <1>1, <1>3, <2>1
    <3>2. QED BY <2>1, <3>1
  <2>2. ASSUME NEW q \in some PROVE q \in ps /\ q <= m
    <3>1. q < m /\ q \in Nat /\ m \in Nat
          BY <1>1, <1>3, <1>4
    <3>2. QED BY <3>1
  <2>3. m \in ps /\ m <= m
        BY <1>1, <1>3
  <2>4. QED BY <2>1, <2>2, <2>3
<1>6. IsFiniteSet(some) /\ Cardinality(some) \in Nat
      BY <1>1, FS_Subset, FS_CardinalityType
<1>7. Cardinality(Upto(m)) = Cardinality(some) + 1
  <2>1. m \notin some
        BY <1>3
  <2>2. Cardinality(some \union {m}) = Cardinality(some) + 1
        BY <1>6, <2>1, FS_AddElement
  <2>3. QED BY <1>5, <2>2
<1>8. ~ (Cardinality(Upto(m)) <= size)
      BY <1>3
<1>9. Cardinality(some) <= size
  <2>1. CASE some = {}
    <3>1. Cardinality(some) = 0
          BY <2>1, FS_EmptySet
    <3>2. QED BY <3>1
  <2>2. CASE some # {}
    <3> DEFINE x == Max(some)
    <3>1. x \in some /\ \A y \in some : y <= x
          BY <2>2, MaxIsGreatest
    <3> HIDE DEF x
    <3>2. some \subseteq Upto(x) /\ x \in ps /\ x <= x
          BY <1>1, <3>1
    <3>3. IsFiniteSet(Upto(x)) /\ Cardinality(Upto(x)) <= size /\ Cardinality(Upto(x)) \in Nat
          BY <1>2, <3>1, <3>2
    <3>4. Cardinality(some) <= Cardinality(Upto(x))
          BY <3>2, <3>3, FS_Subset
    <3> HIDE DEF Upto
    <3>5. QED BY <1>6, <3>3, <3>4
  <2>3. QED BY <2>1, <2>2
<1> HIDE DEF Upto
<1>10. Cardinality(some) = size
       BY <1>6, <1>7, <1>8, <1>9
<1>11. QED BY <1>4, <1>10

\* A pledge of a later frequency stays ahead of a run.
LEMMA NextFreqKeeps ==
    ASSUME NEW k \in Call, k.op = "job", k.todo \in Todos \ {<<>>},
           NEW p \in Pledges, freq[p] \in Left(k.todo), freq[p] # Head(k.todo)
    PROVE  Waits(NextFreq(k), p)
<1> DEFINE r == NextFreq(k)
<1>1. r.op = "job" /\ r.pc = "chunk" /\ r.todo = Tail(k.todo) /\ r.last = 0
      BY DEF NextFreq, Call
<1>2. freq[p] \in Left(r.todo)
      BY <1>1, TodoRest
<1>3. p > 0
      BY DEF Pledges
<1> HIDE DEF r
<1>4. QED BY <1>1, <1>2, <1>3 DEF Waits, Later, InRun, RunPcs, r

LEMMA AfterChunkKeeps ==
    ASSUME NEW k, Between(k), NEW p \in Pledges, Waits(k, p)
    PROVE  Waits(AfterChunk(k), p)
<1> DEFINE s == [k EXCEPT !.pc = "chunk"]
<1>1. /\ k \in Call /\ k.op = "job" /\ k.pc \in RunPcs \ {"chunk"} /\ k.todo \in Todos \ {<<>>}
      /\ freq[p] \in Left(k.todo) /\ (freq[p] = Head(k.todo) => p > k.last)
      /\ freq[p] = Head(k.todo) => Cardinality(DOMAIN k.rows) = k.size
      BY DEF Between, Waits, Later
<1>2. CASE Cardinality(DOMAIN k.rows) = k.size
  <2>1. AfterChunk(k) = s
        BY <1>2 DEF AfterChunk
  <2>2. s.op = "job" /\ s.pc = "chunk" /\ s.todo = k.todo /\ s.last = k.last
        BY <1>1 DEF Call
  <2> HIDE DEF s
  <2>3. QED BY <1>1, <2>1, <2>2 DEF Waits, Later, InRun, RunPcs
<1>3. CASE Cardinality(DOMAIN k.rows) # k.size
      BY <1>1, <1>3, NextFreqKeeps DEF AfterChunk
<1>4. QED BY <1>2, <1>3

\* The run has something to do for a pledge of its chunk.
Meets(k, p) ==
    /\ p \in k.ids
    /\ k.rows[p].thanked # PeriodOf(freq[p], day)
    /\ k.rows[p].reminded # KeyToday(p)
    /\ p \in k.given \/ ~(freq[p] = "monthly" /\ k.rows[p].covered)

LEMMA OnwardKeeps ==
    ASSUME NEW k, Between(k), NEW p \in Pledges, Waits(k, p) \/ Meets(k, p)
    PROVE  Reaches(Onward(k), p)
<1> DEFINE ps == {q \in k.ids : Work(k, q) # "skip"}
           m  == Min(ps)
           w  == [k EXCEPT !.p = m, !.ids = {q \in @ : q > m}, !.ok = FALSE,
                           !.chans = Channel, !.pc = Work(k, m)]
           s  == [k EXCEPT !.pc = "mark"]
<1>1. /\ k \in Call /\ k.ids \subseteq Pledges /\ k.ids \subseteq DOMAIN k.rows /\ k.op = "job"
      /\ k.pc \in RunPcs \ {"chunk"}
      BY RowsAreRows DEF Between
<1>2. Meets(k, p) => p \in ps
  <2>1. SUFFICES ASSUME Meets(k, p) PROVE Work(k, p) # "skip"
        BY DEF Meets
  <2>2. Head(k.todo) = freq[p]
        BY <2>1 DEF Between, Meets
  <2>3. QED BY <2>1, <2>2 DEF Work, Meets, KeyToday
<1>3. CASE ps # {}
  <2>1. m \in ps /\ \A q \in ps : m <= q
        BY <1>1, <1>3, MinIsLeast DEF Pledges
  <2>2. /\ Work(k, m) \in {"template", "findPaid", "findOpen"} /\ m \in k.ids /\ m \in Pledges
        BY <2>1, <1>1, WorkIs
  <2>3. Work(k, m) = "findPaid" => m \notin OwnTemplates
        BY DEF Work
  <2>4. Onward(k) = w
        BY <1>3 DEF Onward
  <2>5. p \in ps /\ p # m => p > m
    <3>1. SUFFICES ASSUME p \in ps, p # m PROVE p > m
          OBVIOUS
    <3>2. m <= p /\ m \in Nat /\ p \in Nat
          BY <2>1, <2>2, <3>1 DEF Pledges
    <3>3. QED BY <3>1, <3>2
  <2> HIDE DEF ps, m
  <2>6. /\ w.op = "job" /\ w.pc = Work(k, m) /\ w.p = m /\ w.ids = {q \in k.ids : q > m}
        /\ w.rows = k.rows /\ w.todo = k.todo /\ w.last = k.last /\ w.size = k.size
        /\ w.given = k.given
        BY <1>1 DEF Call
  <2> HIDE DEF w
  <2>7. w.pc \in Working \ {"flag"} /\ w.pc \in RunPcs /\ w.pc # "chunk"
        BY <2>2, <2>6 DEF Working, RunPcs
  <2>8. CASE Waits(k, p)
        BY <1>1, <2>4, <2>6, <2>7, <2>8 DEF Reaches, Waits, Later, InRun
  <2>9. CASE Meets(k, p) /\ p = m
        BY <2>3, <2>4, <2>6, <2>7, <2>9 DEF Reaches, AtHand
  <2>10. CASE Meets(k, p) /\ p # m
    <3>1. p \in w.ids /\ p \in DOMAIN w.rows
          BY <1>1, <1>2, <2>5, <2>6, <2>10 DEF Meets
    <3>2. p \in Queue(w) /\ Needs(w, p)
          BY <2>6, <2>7, <2>10, <3>1 DEF Queue, InRun, Needs, Meets
    <3>3. QED BY <2>4, <3>2 DEF Reaches, InChunk
  <2>11. QED BY <1>2, <2>8, <2>9, <2>10
<1>4. CASE ps = {} /\ k.marks \union k.thanked # {}
  <2>1. Onward(k) = s /\ Waits(k, p)
        BY <1>2, <1>4 DEF Onward
  <2>2. /\ s.op = "job" /\ s.pc = "mark" /\ s.rows = k.rows /\ s.todo = k.todo /\ s.last = k.last
        /\ s.size = k.size
        BY <1>1 DEF Call
  <2> HIDE DEF s
  <2>3. QED BY <1>1, <2>1, <2>2 DEF Reaches, Waits, Later, InRun, RunPcs
<1>5. CASE ps = {} /\ k.marks \union k.thanked = {}
      BY <1>2, <1>5, AfterChunkKeeps DEF Onward, Reaches
<1>6. QED BY <1>3, <1>4, <1>5

\* The same chunk at the same place of it.
SameChunk(k, s) ==
    /\ s.op = k.op /\ s.todo = k.todo /\ s.last = k.last /\ s.size = k.size /\ s.rows = k.rows
    /\ s.ids = k.ids /\ s.given = k.given

\* A run that is at another pledge still reaches those it reached.
LEMMA StayKeeps ==
    ASSUME NEW k, k.op = "job", k.pc \in RunPcs \ {"chunk"}, NEW s, SameChunk(k, s), s.pc \in Working,
           k.ids \subseteq DOMAIN k.rows,
           NEW p \in Pledges, Waits(k, p) \/ Meets(k, p)
    PROVE  Reaches(s, p)
<1>1. s.pc \in RunPcs /\ s.pc # "chunk"
      BY DEF RunPcs, Working
<1>2. CASE Waits(k, p)
      BY <1>1, <1>2 DEF Reaches, Waits, Later, InRun, SameChunk
<1>3. CASE Meets(k, p)
  <2>1. p \in Queue(s)
        BY <1>1, <1>3 DEF Meets, SameChunk, Queue, InRun
  <2>2. Needs(s, p)
        BY <1>3 DEF Needs, Meets, SameChunk
  <2>3. QED BY <2>1, <2>2 DEF Reaches, InChunk
<1>4. QED BY <1>2, <1>3

LEMMA DoneKeeps ==
    ASSUME NEW k, Between(k), k.p \in DOMAIN k.rows, NEW p \in Pledges, Waits(k, p) \/ Meets(k, p)
    PROVE  Reaches(Done(k), p)
<1> DEFINE f == IF k.ok THEN {k.p} ELSE {}
           s == [k EXCEPT !.thanked = @ \union f]
           t == [k EXCEPT !.marks = @ \union f]
           u == IF k.p \in k.given THEN s ELSE t
<1>1. k \in Call
      BY DEF Between
<1>2. /\ SameChunk(k, u) /\ u.pc = k.pc
      /\ u.marks \union u.thanked \subseteq k.marks \union k.thanked \union {k.p}
      BY <1>1 DEF Call, SameChunk
<1>3. u \in Call
  <2>1. k.p \in Pledges
        BY <1>1, RowsAreRows
  <2>2. QED BY <1>1, <2>1 DEF Call
<1>4. Done(k) = Onward(u)
      BY DEF Done
<1> HIDE DEF u
<1>5. Between(u)
      BY <1>2, <1>3 DEF Between, SameChunk
<1>6. Waits(u, p) \/ Meets(u, p)
      BY <1>2 DEF Waits, Later, InRun, Meets, SameChunk
<1>7. QED BY <1>4, <1>5, <1>6, OnwardKeeps

LEMMA ChannelKeeps ==
    ASSUME NEW k, Between(k), k.pc \in Working, k.p \in DOMAIN k.rows,
           NEW p \in Pledges, Waits(k, p) \/ Meets(k, p)
    PROVE  Reaches(NextChannel(k), p)
<1> DEFINE s == [k EXCEPT !.chans = Others(k)]
           t == [k EXCEPT !.chans = {}]
<1>1. k \in Call /\ k.op = "job" /\ k.pc \in RunPcs \ {"chunk"} /\ k.ids \subseteq DOMAIN k.rows
      BY DEF Between
<1>2. CASE Others(k) # {}
  <2>1. SameChunk(k, s) /\ s.pc = k.pc
        BY <1>1 DEF SameChunk, Call
  <2>2. NextChannel(k) = s
        BY <1>2 DEF NextChannel
  <2> HIDE DEF s
  <2>3. QED BY <1>1, <2>1, <2>2, StayKeeps
<1>3. CASE Others(k) = {}
  <2>1. /\ t \in Call /\ SameChunk(k, t) /\ t.pc = k.pc /\ t.p = k.p
        /\ t.marks = k.marks /\ t.thanked = k.thanked
        BY <1>1 DEF SameChunk, Call
  <2>2. NextChannel(k) = Done(t)
        BY <1>3 DEF NextChannel
  <2> HIDE DEF t
  <2>3. Between(t)
        BY <2>1 DEF Between, SameChunk
  <2>4. Waits(t, p) \/ Meets(t, p)
        BY <2>1 DEF Waits, Later, InRun, Meets, SameChunk
  <2>5. t.p \in DOMAIN t.rows
        BY <2>1 DEF SameChunk
  <2>6. QED BY <2>2, <2>3, <2>4, <2>5, DoneKeeps
<1>4. QED BY <1>2, <1>3

\* What a run knows is left alone on the way to the next pledge.
Knows(k, r) == r.rows = k.rows /\ r.given = k.given /\ r.key = k.key /\ r.due = k.due /\ r.d = k.d

Ahead == {"findPaid", "template", "findOpen", "mark", "chunk"}

LEMMA OnwardKnows ==
    ASSUME NEW k, Between(k)
    PROVE  LET r == Onward(k)
           IN  Knows(k, r) /\ r.marks = k.marks /\ r.thanked = k.thanked /\ r.pc \in Ahead
<1> DEFINE ps == {q \in k.ids : Work(k, q) # "skip"}
           m  == Min(ps)
           w  == [k EXCEPT !.p = m, !.ids = {q \in @ : q > m}, !.ok = FALSE,
                           !.chans = Channel, !.pc = Work(k, m)]
<1>1. k \in Call /\ k.ids \subseteq Nat
      BY RowsAreRows DEF Between, Pledges
<1>2. CASE ps # {}
  <2>1. Work(k, m) \in Ahead
    <3>1. m \in ps
          BY <1>1, <1>2, MinIsLeast
    <3>2. QED BY <3>1, WorkIs DEF Ahead
  <2>2. Onward(k) = w
        BY <1>2 DEF Onward
  <2> HIDE DEF ps, m
  <2>3. Knows(k, w) /\ w.marks = k.marks /\ w.thanked = k.thanked /\ w.pc = Work(k, m)
        BY <1>1 DEF Knows, Call
  <2> HIDE DEF w
  <2>4. QED BY <2>1, <2>2, <2>3
<1>3. CASE ps = {} /\ k.marks \union k.thanked # {}
  <2>1. Onward(k) = [k EXCEPT !.pc = "mark"]
        BY <1>3 DEF Onward
  <2>2. QED BY <1>1, <2>1 DEF Knows, Call, Ahead
<1>4. CASE ps = {} /\ k.marks \union k.thanked = {}
  <2>1. Onward(k) = [k EXCEPT !.pc = "chunk"] \/ Onward(k) = NextFreq(k)
        BY <1>4 DEF Onward, AfterChunk
  <2>2. QED BY <1>1, <2>1 DEF Knows, Call, Ahead, NextFreq
<1>5. QED BY <1>2, <1>3, <1>4

LEMMA DoneKnows ==
    ASSUME NEW k, Between(k), k.p \in DOMAIN k.rows
    PROVE  LET r == Done(k)
           IN  /\ Knows(k, r) /\ r.pc \in Ahead
               /\ IF k.p \in k.given THEN r.marks = k.marks /\ r.thanked \subseteq k.thanked \union {k.p}
                                     ELSE r.thanked = k.thanked /\ r.marks \subseteq k.marks \union {k.p}
<1> DEFINE f == IF k.ok THEN {k.p} ELSE {}
           s == [k EXCEPT !.thanked = @ \union f]
           t == [k EXCEPT !.marks = @ \union f]
           u == IF k.p \in k.given THEN s ELSE t
<1>1. k \in Call /\ k.p \in Pledges
      BY RowsAreRows DEF Between
<1>2. /\ Knows(k, u) /\ SameChunk(k, u) /\ u.pc = k.pc
      /\ IF k.p \in k.given THEN u.marks = k.marks /\ u.thanked \subseteq k.thanked \union {k.p}
                            ELSE u.thanked = k.thanked /\ u.marks \subseteq k.marks \union {k.p}
      BY <1>1 DEF Call, Knows, SameChunk
<1>3. u \in Call
      BY <1>1 DEF Call
<1>4. Done(k) = Onward(u)
      BY DEF Done
<1> HIDE DEF u
<1>5. Between(u)
      BY <1>2, <1>3 DEF Between, SameChunk
<1>6. QED BY <1>2, <1>4, <1>5, OnwardKnows DEF Knows

LEMMA ChannelKnows ==
    ASSUME NEW k, Between(k), k.pc \in Working, k.p \in DOMAIN k.rows
    PROVE  LET r == NextChannel(k)
           IN  /\ Knows(k, r) /\ (r.pc \in Ahead \/ (r.pc = k.pc /\ r.p = k.p))
               /\ IF k.p \in k.given THEN r.marks = k.marks /\ r.thanked \subseteq k.thanked \union {k.p}
                                     ELSE r.thanked = k.thanked /\ r.marks \subseteq k.marks \union {k.p}
<1> DEFINE s == [k EXCEPT !.chans = Others(k)]
           t == [k EXCEPT !.chans = {}]
<1>1. k \in Call
      BY DEF Between
<1>2. CASE Others(k) # {}
  <2>1. Knows(k, s) /\ s.pc = k.pc /\ s.marks = k.marks /\ s.thanked = k.thanked /\ s.p = k.p
        BY <1>1 DEF Knows, Call
  <2>2. QED BY <1>2, <2>1 DEF NextChannel
<1>3. CASE Others(k) = {}
  <2>1. /\ t \in Call /\ SameChunk(k, t) /\ t.pc = k.pc /\ t.p = k.p
        /\ t.marks = k.marks /\ t.thanked = k.thanked /\ Knows(k, t)
        BY <1>1 DEF SameChunk, Knows, Call
  <2>2. NextChannel(k) = Done(t)
        BY <1>3 DEF NextChannel
  <2> HIDE DEF t
  <2>3. Between(t)
        BY <2>1 DEF Between, SameChunk
  <2>4. t.p \in DOMAIN t.rows
        BY <2>1 DEF SameChunk
  <2> DEFINE r == Done(t)
  <2>5. /\ Knows(t, r) /\ r.pc \in Ahead
        /\ IF t.p \in t.given THEN r.marks = t.marks /\ r.thanked \subseteq t.thanked \union {t.p}
                              ELSE r.thanked = t.thanked /\ r.marks \subseteq t.marks \union {t.p}
        BY <2>3, <2>4, DoneKnows
  <2> HIDE DEF r
  <2>6. t.given = k.given
        BY <2>1 DEF Knows
  <2>7. Knows(k, r)
        BY <2>1, <2>5 DEF Knows
  <2>8. QED BY <2>1, <2>2, <2>5, <2>6, <2>7 DEF r
<1>4. QED BY <1>2, <1>3

\* What was tried and what was paid stays so.
Grows ==
    /\ tried \subseteq tried' /\ day' = day /\ freq' = freq
    /\ DonationsStay
    /\ \A d \in DOMAIN donation :
          /\ donation'[d].day = donation[d].day
          /\ donation[d].status = "completed" => donation'[d].status = "completed"

\* What was tried is not forgotten.
LEMMA TriedGrows ==
    ASSUME NEW c \in Calls,
           Job(c) \/ Pay(c) \/ Cleanup(c) \/ Change(c) \/ RunStep(c) \/ OtherStep(c) \/ Crash(c)
    PROVE  tried \subseteq tried'
<1>1. CASE Job(c) \/ Pay(c) \/ Cleanup(c) \/ Change(c) \/ Crash(c)
      BY <1>1, Zenon DEF Job, Pay, Cleanup, Change, Begin, Crash, historyVars
<1>2. CASE Thank(c) \/ Template(c) \/ Remind(c) \/ SubRemind(c)
      BY <1>2, Zenon DEF Thank, Template, Remind, SubRemind, Tried
<1>3. CASE RunStep(c) /\ ~(Thank(c) \/ Template(c) \/ Remind(c) \/ SubRemind(c))
  <2>1. historyVars' = historyVars
        BY <1>3, Zenon DEF RunStep, Chunk, Lookup, FindPaid, Flag, FindOpen, InsertLink, Mark, SubRead,
                    SubInitial, SubSettled, SubDonated, SubLink, SubMark
  <2>2. QED BY <2>1 DEF historyVars
<1>4. CASE OtherStep(c)
      BY <1>4 DEF OtherStep, Complete, Settle, Claim, SendThanks, Release, Today, Archive, CreatePledge,
                  Load, Save, Count, FlagDonor, historyVars
<1>5. QED BY <1>1, <1>2, <1>3, <1>4

LEMMA GrowsDoes ==
    ASSUME Placed, NEW c \in Calls, Does(c), DonationsStay, tried \subseteq tried'
    PROVE  Grows
<1>1. freq' = freq /\ day' = day
      BY SameDay
<1>2. /\ donation \in Seq(Donation) /\ \A d \in DOMAIN donation : donation[d] \in Donation
      /\ call[c] \in Call /\ CallOK(call[c])
      BY DEF Placed, TypeOK
<1>3. ASSUME tried \subseteq tried', donation' = donation
      PROVE  Grows
      BY <1>1, <1>3 DEF Grows
<1>4. ASSUME tried \subseteq tried', NEW d \in DOMAIN donation,
             \E S : donation' = [donation EXCEPT ![d].sent = S]
      PROVE  Grows
      BY <1>1, <1>2, <1>4 DEF Grows, Donation
<1>5. ASSUME tried \subseteq tried', NEW t \in Targets, donation' = Append(donation, NewLink(t))
      PROVE  Grows
      BY <1>1, <1>5, LinkAppended DEF Grows
<1>6. CASE ReadsChunk(c) \/ Looks(c) \/ FindsPaid(c) \/ FindsOpen(c) \/ RunMarks(c)
           \/ SubReads(c) \/ SubPasses(c) \/ SubNotes(c)
      BY <1>3, <1>6 DEF ReadsChunk, Looks, FindsPaid, FindsOpen, RunMarks, SubReads, SubPasses, SubNotes,
                        historyVars
<1>7. CASE Settles(c) \/ PaySends(c) \/ Creates(c) \/ Loads(c) \/ Saves(c) \/ Counts(c) \/ FlagsDonor(c)
           \/ Starts(c) \/ Dies(c)
      BY <1>3, <1>7 DEF Settles, PaySends, Creates, Loads, Saves, Counts, FlagsDonor, Starts, Dies,
                        historyVars
<1>8. CASE RunFlags(c)
  <2>1. call[c].d \in DOMAIN donation /\ tried' = tried
        BY <1>2, <1>8 DEF RunFlags, CallOK, RunOK, ChunkOK, InRun, RunPcs, Working, historyVars
  <2>2. QED BY <1>4, <1>8, <2>1 DEF RunFlags
<1>9. CASE Claims(c) \/ Releases(c)
  <2>1. call[c].d \in DOMAIN donation /\ tried' = tried
        BY <1>9, PayIs DEF Claims, Releases, PayPcs, historyVars
  <2>2. QED BY <1>4, <1>9, <2>1 DEF Claims, Releases
<1>10. CASE Completes(c)
  <2>1. call[c].d \in DOMAIN donation /\ tried' = tried
        BY <1>10, PayIs DEF Completes, PayPcs, historyVars
  <2>2. donation' = [donation EXCEPT ![call[c].d].status = "completed"]
        BY <1>10 DEF Completes
  <2>3. QED BY <1>1, <1>2, <2>1, <2>2 DEF Grows, Donation
<1>11. CASE Cleans(c)
  <2>1. tried' = tried
        BY <1>11 DEF Cleans, historyVars
  <2>2. ASSUME NEW d \in DOMAIN donation, donation' = [donation EXCEPT ![d].archived = TRUE]
        PROVE  Grows
        BY <1>1, <1>2, <2>1, <2>2 DEF Grows, Donation
  <2>3. QED BY <1>3, <1>11, <2>1, <2>2 DEF Cleans
<1>12. CASE RunInserts(c)
  <2>1. call[c].p \in Targets /\ tried' = tried
        BY <1>2, <1>12 DEF RunInserts, Call, historyVars
  <2>2. QED BY <1>5, <1>12, <2>1 DEF RunInserts
<1>13. CASE SubInserts(c)
      BY <1>5, <1>13, SubRange DEF SubInserts, historyVars
<1>14. CASE RunThanks(c) \/ RunTemplates(c) \/ RunReminds(c) \/ SubSends(c)
      BY <1>3, <1>14 DEF RunThanks, RunTemplates, RunReminds, SubSends
<1>15. QED BY <1>6, <1>7, <1>8, <1>9, <1>10, <1>11, <1>12, <1>13, <1>14 DEF Does, RunDoes, SubDoes, OtherDoes

\* What a row says stays true.
LEMMA RowStays ==
    ASSUME Grows, NEW p, NEW e, RowOK(p, e)
    PROVE  RowOK(p, e)'
BY DEF Grows, RowOK, DonationsStay, PeriodOf

LEMMA PaidStays ==
    ASSUME Grows, NEW p
    PROVE  PaidOf(p) \subseteq PaidOf(p)'
BY DEF Grows, PaidOf, PaidFor, DonationsStay, PeriodOf

LEMMA TriedStays ==
    ASSUME Grows, NEW t, TriedToday(t)
    PROVE  TriedToday(t)'
BY DEF Grows, TriedToday, KeyFor, KeyOf, PeriodOf, SubKey

LEMMA NotingGrows ==
    ASSUME Grows, NEW k, Noting(k),
           k.pc \in {"thank", "flag"} \union PayPcs => k.d \in DOMAIN donation
    PROVE  Noting(k)'
<1>1. /\ \A p \in k.marks : TriedToday(p)'
      /\ \A p \in k.thanked : p \in k.given /\ (p \in k.due => TriedToday(p)')
      /\ k.pc = "flag" => TriedToday(k.p)'
      /\ k.pc = "subMark" => TriedToday(Sub)'
      BY TriedStays DEF Noting
<1>2. \A p \in k.given : PaidOf(p)' # {}
      BY PaidStays DEF Noting
<1>3. \A p \in DOMAIN k.rows : RowOK(p, k.rows[p])'
      BY RowStays DEF Noting
<1>4. SubNoted(k.key)'
      BY DEF Noting, SubNoted, Grows
<1>5. k.pc \in {"thank", "flag"} \union (PayPcs \ {"complete"}) => donation'[k.d].status = "completed"
      BY DEF Noting, Grows
<1>6. QED BY <1>1, <1>2, <1>3, <1>4, <1>5 DEF Noting

\* A run that only moves on knows no less, and another one may be excused.
LEMMA NotingOn ==
    ASSUME NEW k, NEW r, Noting(k)', r.rows = k.rows, r.given = k.given, r.key = k.key,
           r.due \subseteq k.due,
           \A p \in r.marks \ k.marks : TriedToday(p)',
           \A p \in r.thanked \ k.thanked : p \in r.given /\ (p \in r.due => TriedToday(p)'),
           r.pc = "flag" => TriedToday(r.p)',
           r.pc = "subMark" => TriedToday(Sub)',
           r.pc \in {"thank", "flag"} \union (PayPcs \ {"complete"}) => donation'[r.d].status = "completed"
    PROVE  Noting(r)'
BY DEF Noting

\* Whom a run owes a message, pledge by pledge.
ThankLeft(p) ==
    /\ pledge[p].thanked # PeriodOf(freq[p], day)
    /\ p \in OwnTemplates \/ Channel \ donation[Max(PaidOf(p))].sent # {}

OwedPledge(p) ==
    /\ pledge[p].status = "active"
    /\ \E i \in DOMAIN DueOn(day) : DueOn(day)[i] = freq[p]
    /\ IF PaidOf(p) = {} THEN ~(freq[p] = "monthly" /\ pledge[p].covered) ELSE ThankLeft(p)

OwedSub ==
    /\ day \in RemindDays
    /\ SubOpen
    /\ PaidIn(SubKey(day).period) = {}
    /\ SubKey(day).period \notin settled

LEMMA OwedIs ==
    /\ \A p \in Pledges : p \in Owed <=> OwedPledge(p)
    /\ Sub \in Owed <=> OwedSub
<1>1. ASSUME NEW p \in Pledges PROVE p \in Owed <=> OwedPledge(p)
      BY SubRange DEF Owed, OwedPledge, ThankLeft, ToThank, PaidOf
<1>2. Sub \in Owed <=> OwedSub
      BY SubRange DEF Owed, OwedSub, RemindDays
<1>3. QED BY <1>1, <1>2

LEMMA OwedIsNext ==
    /\ \A p \in Pledges : p \in Owed' <=> OwedPledge(p)'
    /\ Sub \in Owed' <=> OwedSub'
<1>1. ASSUME NEW p \in Pledges PROVE p \in Owed' <=> OwedPledge(p)'
      BY SubRange DEF Owed, OwedPledge, ThankLeft, ToThank, PaidOf
<1>2. Sub \in Owed' <=> OwedSub'
      BY SubRange DEF Owed, OwedSub, RemindDays
<1>3. QED BY <1>1, <1>2

\* Periods are counted from one.
LEMMA PeriodIsSome ==
    ASSUME NEW f \in Freqs, NEW d \in 1 .. Days
    PROVE  PeriodOf(f, d) # 0 /\ KeyOf(f, d) # NoKey
<1>1. Days \in Nat /\ Week[d] # 0 /\ Month[d] # 0 /\ d # 0
      BY ReminderAssumption
<1>2. PeriodOf(f, d) # 0
      BY <1>1 DEF PeriodOf, Freqs
<1>3. QED BY <1>2 DEF KeyOf, NoKey

LEMMA PledgeFreq ==
    ASSUME Placed, NEW p \in Pledges
    PROVE  freq[p] \in Freqs /\ day \in 1 .. Days /\ KeyFor(p, day) = KeyToday(p) /\ p # Sub
<1>1. freq \in [Pledges -> Freqs] /\ day \in 1 .. Days
      BY ReminderAssumption DEF Placed, TypeOK
<1>2. p # Sub
      BY SubRange
<1>3. QED BY <1>1, <1>2 DEF KeyFor, KeyToday

\* A pledge nothing was tried for today was not reminded of today, as far as rows say.
LEMMA NotReminded ==
    ASSUME Placed, NEW p \in Pledges, NEW e, RowOK(p, e), ~TriedToday(p)
    PROVE  e.reminded # KeyToday(p)
<1>1. KeyToday(p) # NoKey
      BY PledgeFreq, PeriodIsSome DEF KeyToday
<1>2. QED BY <1>1, PledgeFreq DEF RowOK, TriedToday

LEMMA NeedsMeets ==
    ASSUME Placed, NEW k \in Call, Noting(k), NEW p \in Pledges, ~TriedToday(p),
           p \in k.ids, p \in DOMAIN k.rows, Needs(k, p), k.pc # "lookup"
    PROVE  Meets(k, p)
<1>1. k.rows[p].reminded # KeyToday(p)
      BY NotReminded DEF Noting
<1>2. QED BY <1>1 DEF Needs, Meets

\* What a run reaches in the state that follows.
LEMMA ReachesStays ==
    ASSUME Grows, NEW k, NEW p, Reaches(k, p)
    PROVE  Reaches(k, p)'
<1>1. CASE Waits(k, p)
      BY <1>1 DEF Grows, Reaches, Waits, Later
<1>2. CASE InChunk(k, p)
  <2>1. PaidOf(p) # {} => PaidOf(p)' # {}
        BY PaidStays
  <2>2. p \in Queue(k)' /\ PeriodOf(freq[p], day)' = PeriodOf(freq[p], day)
        BY <1>2 DEF InChunk, Queue, Grows, PeriodOf
  <2>3. Needs(k, p)'
        BY <1>2, <2>1, <2>2 DEF InChunk, Needs, Grows
  <2>4. QED BY <2>2, <2>3 DEF Reaches, InChunk
<1>3. CASE AtHand(k, p)
      BY <1>3 DEF Reaches, AtHand
<1>4. QED BY <1>1, <1>2, <1>3 DEF Reaches

\* A run reads its next chunk, in which all it owes something are ahead of it.
LEMMA ChunkReaches ==
    ASSUME Placed, Notes, NEW c \in Calls, Chunk(c),
           NEW t \in Pledges, t \in Owed, Reaches(call[c], t)
    PROVE  Reaches(call'[c], t)
<1> DEFINE k    == call[c]
           ps   == {p \in Pledges : /\ p > k.last
                                    /\ pledge[p].status = "active"
                                    /\ freq[p] = Head(k.todo)}
           some == {p \in ps : Cardinality({q \in ps : q <= p}) <= k.size}
           rows == [p \in some |-> pledge[p]]
           m    == Max(some)
           b    == [k EXCEPT !.rows = rows, !.ids = some, !.given = {}, !.marks = {}, !.thanked = {},
                             !.last = m, !.pc = "lookup"]
<1>1. /\ k \in Call /\ k.op = "job" /\ InRun(k) /\ k.todo \in Todos /\ k.size # 0 /\ k.pc = "chunk"
      BY JobIs DEF Chunk, RunPcs
<1>2. call \in [Calls -> Call]
      BY DEF Placed, TypeOK
<1>3. Waits(k, t) /\ t \in Later(k)
  <2>1. ~InChunk(k, t) /\ ~AtHand(k, t)
        BY <1>1 DEF InChunk, AtHand, Queue, Working
  <2>2. QED BY <2>1 DEF Reaches, Waits
<1>4. k.todo # <<>> /\ freq[t] \in Left(k.todo) /\ (freq[t] = Head(k.todo) => t > k.last)
      BY <1>3 DEF Later, Left
<1>5. OwedPledge(t)
      BY OwedIs
<1>6. freq[t] = Head(k.todo) => t \in ps
      BY <1>4, <1>5 DEF OwedPledge
<1>7. CASE ps = {}
  <2>1. call'[c] = NextFreq(k)
        BY <1>2, <1>4, <1>7 DEF Chunk, Set
  <2>2. QED BY <1>1, <1>4, <1>6, <1>7, <2>1, NextFreqKeeps DEF Reaches
<1>8. CASE ps # {}
  <2>1. call'[c] = b
        BY <1>2, <1>4, <1>8 DEF Chunk, Set
  <2>2. /\ b.op = "job" /\ b.pc = "lookup" /\ b.rows = rows /\ b.ids = some /\ b.given = {} /\ b.last = m
        /\ b.todo = k.todo /\ b.size = k.size
        BY <1>1 DEF Call
  <2>3. ps \subseteq 1 .. Last /\ Last \in Nat /\ k.size \in Nat
        BY <1>1, ReminderAssumption DEF Pledges, Call
  <2>4. DOMAIN rows = some /\ \A q \in some : rows[q] = pledge[q]
        OBVIOUS
  <2> HIDE DEF b, rows
  <2>5. CASE freq[t] # Head(k.todo)
        BY <1>4, <2>1, <2>2, <2>5 DEF Reaches, Waits, Later, InRun, RunPcs
  <2>6. CASE freq[t] = Head(k.todo) /\ t \in some
    <3>1. t \in Queue(b)
          BY <2>2, <2>4, <2>6 DEF Queue, InRun, RunPcs
    <3>2. b.rows[t] = pledge[t]
          BY <2>2, <2>4, <2>6
    <3>3. PaidOf(t) = {} => pledge[t].thanked # PeriodOf(freq[t], day)
      <4>1. SUFFICES ASSUME pledge[t].thanked = PeriodOf(freq[t], day) PROVE PaidOf(t) # {}
            OBVIOUS
      <4>2. pledge[t].thanked # 0
            BY <4>1, PledgeFreq, PeriodIsSome
      <4>3. PICK d \in DOMAIN donation :
                /\ donation[d].for = t /\ donation[d].status = "completed"
                /\ PeriodOf(freq[t], donation[d].day) = pledge[t].thanked
            BY <4>2 DEF Notes, RowOK
      <4>4. d \in PaidOf(t)
            BY <4>1, <4>3 DEF PaidOf, PaidFor
      <4>5. QED BY <4>4
    <3>4. Needs(b, t)
      <4>1. CASE PaidOf(t) = {}
            BY <1>5, <3>2, <3>3, <4>1 DEF OwedPledge, Needs
      <4>2. CASE PaidOf(t) # {}
            BY <1>5, <2>2, <2>6, <3>2, <4>2 DEF OwedPledge, ThankLeft, Needs
      <4>3. QED BY <4>1, <4>2
    <3>5. QED BY <2>1, <3>1, <3>4 DEF Reaches, InChunk
  <2>7. CASE freq[t] = Head(k.todo) /\ t \notin some
    <3>1. t \in ps
          BY <1>6, <2>7
    <3> HIDE DEF ps
    <3>2. Cardinality(some) = k.size /\ \A y \in some : y < t
          BY <2>3, <2>7, <3>1, ChunkIsFull
    <3>3. some # {}
      <4>1. some = {} => Cardinality(some) = 0
            BY FS_EmptySet
      <4>2. QED BY <1>1, <3>2, <4>1
    <3>4. some \subseteq 1 .. Last
          BY <2>3
    <3> HIDE DEF some
    <3>5. m \in some
          BY <2>3, <3>3, <3>4, MaxIsGreatest DEF m
    <3>6. t > m
      <4>1. m < t
            BY <3>2, <3>5
      <4>2. QED BY <4>1
    <3>7. Cardinality(DOMAIN b.rows) = b.size
          BY <2>2, <2>4, <3>2
    <3>8. t \in Later(b)
          BY <1>4, <2>2, <3>6 DEF Later, InRun, RunPcs
    <3>9. QED BY <2>1, <3>7, <3>8 DEF Reaches, Waits
  <2>8. QED BY <2>5, <2>6, <2>7
<1>9. QED BY <1>7, <1>8

\* It looks up who of the chunk has donated.
LEMMA LookupReaches ==
    ASSUME Placed, NEW c \in Calls, Lookup(c), Noting(call[c]),
           NEW t \in Pledges, ~TriedToday(t), Reaches(call[c], t)
    PROVE  Reaches(call'[c], t)
<1> DEFINE k == call[c]
           p == Min(k.ids)
           g == IF PaidFor(p, freq[p]) # {} THEN k.given \union {p} ELSE k.given
           r == [k EXCEPT !.ids = k.ids \ {p}, !.given = g]
           s == [r EXCEPT !.ids = DOMAIN r.rows]
<1>1. /\ k \in Call /\ CallOK(k) /\ k.op = "job" /\ InRun(k) /\ k.pc = "lookup" /\ k.pc \in RunPcs \ {"chunk"}
      BY JobIs DEF Lookup, RunPcs
<1>2. Between(k) /\ ChunkOK(k)
      BY <1>1, ChunkBetween DEF CallOK, RunOK
<1>3. k.ids # {} /\ k.ids \subseteq DOMAIN k.rows /\ DOMAIN k.rows \subseteq Pledges /\ k.ids \subseteq Nat
      BY <1>1, <1>2, RowsAreRows DEF ChunkOK, Pledges
<1>4. p \in k.ids /\ p \in DOMAIN k.rows /\ p \in Pledges
      BY <1>3, MinIsLeast
<1>5. call'[c] = IF r.ids = {} THEN Onward(s) ELSE r
  <2>1. call \in [Calls -> Call]
        BY DEF Placed, TypeOK
  <2>2. r = [k EXCEPT !.ids = @ \ {p},
                      !.given = IF PaidFor(p, freq[p]) # {} THEN @ \union {p} ELSE @]
        BY <1>1 DEF Call
  <2>3. QED BY <2>1, <2>2 DEF Lookup, Set
<1>6. g \subseteq k.given \union {p} /\ k.given \subseteq g /\ (PaidOf(p) # {} => p \in g)
      BY DEF PaidOf
<1> HIDE DEF p, g
<1>7. /\ r \in Call /\ r.op = "job" /\ r.pc = "lookup" /\ r.rows = k.rows /\ r.todo = k.todo
      /\ r.last = k.last /\ r.size = k.size /\ r.ids = k.ids \ {p} /\ r.given = g
      /\ r.marks = k.marks /\ r.thanked = k.thanked
      BY <1>1, <1>3, <1>4, <1>6 DEF Call
<1> HIDE DEF r
<1>8. ~AtHand(k, t)
      BY <1>1 DEF AtHand, Working
<1>9. Waits(k, t) => Waits(r, t)
      BY <1>1, <1>7 DEF Waits, Later, InRun
<1>10. InChunk(k, t) => t \in DOMAIN r.rows /\ Needs(r, t)
       BY <1>1, <1>6, <1>7 DEF InChunk, Queue, Needs
<1>11. CASE r.ids # {}
  <2>1. InChunk(k, t) => InChunk(r, t)
        BY <1>1, <1>7, <1>10 DEF InChunk, Queue, InRun
  <2>2. QED BY <1>5, <1>8, <1>9, <1>11, <2>1 DEF Reaches
<1>12. CASE r.ids = {}
  <2>1. /\ s \in Call /\ s.op = "job" /\ s.pc = "lookup" /\ s.rows = k.rows /\ s.todo = k.todo
        /\ s.last = k.last /\ s.size = k.size /\ s.ids = DOMAIN k.rows /\ s.given = g
        /\ s.marks = k.marks /\ s.thanked = k.thanked
        BY <1>3, <1>7 DEF Call, Pledges
  <2> HIDE DEF s
  <2>2. Between(s)
        BY <1>1, <1>2, <1>4, <1>6, <2>1 DEF Between
  <2>3. Waits(k, t) => Waits(s, t)
        BY <1>1, <2>1 DEF Waits, Later, InRun
  <2>4. InChunk(k, t) => Meets(s, t)
    <3>1. SUFFICES ASSUME InChunk(k, t) PROVE Meets(s, t)
          OBVIOUS
    <3>2. t \in DOMAIN k.rows /\ Needs(r, t)
          BY <1>7, <1>10, <3>1
    <3>3. k.rows[t].reminded # KeyToday(t)
          BY <3>2, NotReminded DEF Noting
    <3>4. QED BY <1>7, <1>12, <2>1, <3>2, <3>3 DEF Needs, Meets
  <2>5. Waits(s, t) \/ Meets(s, t)
        BY <1>8, <2>3, <2>4 DEF Reaches
  <2>6. QED BY <1>5, <1>12, <2>2, <2>5, OnwardKeeps
<1>13. QED BY <1>11, <1>12

\* A run that is at a pledge of its chunk.
LEMMA AtWork ==
    ASSUME Placed, NEW c \in Calls, call[c].pc \in Working
    PROVE  LET k == call[c]
           IN  /\ k \in Call /\ CallOK(k) /\ k.op = "job" /\ k.pc \in RunPcs \ {"chunk"}
               /\ Between(k) /\ ChunkOK(k)
               /\ k.p \in DOMAIN k.rows \ k.ids /\ k.ids \subseteq DOMAIN k.rows /\ k.p \in Pledges
               /\ call \in [Calls -> Call]
<1> DEFINE k == call[c]
<1>1. k.pc \in RunPcs \ {"chunk"}
      BY DEF RunPcs, Working
<1>2. k \in Call /\ CallOK(k) /\ k.op = "job" /\ InRun(k)
      BY <1>1, JobIs
<1>3. Between(k) /\ ChunkOK(k)
      BY <1>1, <1>2, ChunkBetween DEF CallOK, RunOK
<1>4. k.p \in DOMAIN k.rows \ k.ids /\ k.ids \subseteq DOMAIN k.rows /\ DOMAIN k.rows \subseteq Pledges
      BY <1>2, <1>3, RowsAreRows DEF ChunkOK
<1>5. call \in [Calls -> Call]
      BY DEF Placed, TypeOK
<1>6. QED BY <1>1, <1>2, <1>3, <1>4, <1>5

LEMMA WorkReaches ==
    ASSUME Placed, NEW c \in Calls, call[c].pc \in Working, Noting(call[c]),
           NEW t \in Pledges, ~TriedToday(t), Reaches(call[c], t)
    PROVE  Waits(call[c], t) \/ Meets(call[c], t) \/ AtHand(call[c], t)
<1>1. call[c].pc # "lookup"
      BY DEF Working
<1>2. InChunk(call[c], t) => t \in call[c].ids /\ t \in DOMAIN call[c].rows /\ Needs(call[c], t)
      BY <1>1 DEF InChunk, Queue
<1>3. InChunk(call[c], t) => Meets(call[c], t)
      BY <1>1, <1>2, AtWork, NeedsMeets
<1>4. QED BY <1>3 DEF Reaches

\* What a run owes for a pledge that was paid for it finds still unsent.
LEMMA FindPaidReaches ==
    ASSUME Placed, NEW c \in Calls, FindPaid(c), Noting(call[c]),
           NEW t \in Pledges, t \in Owed, ~TriedToday(t), Reaches(call[c], t)
    PROVE  Reaches(call'[c], t)
<1> DEFINE k   == call[c]
           ds  == PaidOf(k.p)
           d   == Max(ds)
           new == Channel \ donation[d].sent
           r   == [k EXCEPT !.d = d, !.chans = new, !.ok = new # Channel, !.pc = "thank"]
<1>1. k.pc = "findPaid" /\ k.pc \in Working
      BY DEF FindPaid, Working
<1>2. /\ k \in Call /\ k.op = "job" /\ k.pc \in RunPcs \ {"chunk"}
      /\ Between(k) /\ ChunkOK(k)
      /\ k.p \in DOMAIN k.rows \ k.ids /\ k.ids \subseteq DOMAIN k.rows /\ k.p \in Pledges
      /\ call \in [Calls -> Call]
      BY <1>1, AtWork
<1>3. Waits(k, t) \/ Meets(k, t) \/ AtHand(k, t)
      BY <1>1, WorkReaches
<1>4. k.p \in k.given
      BY <1>1, <1>2 DEF ChunkOK
<1>5. ds # {} /\ ds = PaidFor(k.p, freq[k.p])
      BY <1>4 DEF Noting, PaidOf
<1>6. call'[c] = IF new = {} THEN Done(r) ELSE r
      BY <1>2, <1>5 DEF FindPaid, Set
<1>7. d \in Nat
  <2>1. donation \in Seq(Donation) /\ DOMAIN donation = 1 .. Len(donation) /\ Len(donation) \in Nat
        BY DEF Placed, TypeOK
  <2>2. ds \subseteq DOMAIN donation
        BY DEF PaidOf, PaidFor
  <2>3. d \in ds
        BY <1>5, <2>1, <2>2, MaxIsGreatest
  <2>4. QED BY <2>1, <2>2, <2>3
<1>8. AtHand(k, t) => new # {} /\ k.p = t
  <2>1. SUFFICES ASSUME AtHand(k, t) PROVE new # {} /\ k.p = t
        OBVIOUS
  <2>2. k.p = t /\ t \notin OwnTemplates
        BY <1>1, <2>1 DEF AtHand
  <2>3. ThankLeft(t)
        BY <1>5, <2>2, OwedIs DEF OwedPledge
  <2>4. QED BY <2>2, <2>3 DEF ThankLeft
<1> HIDE DEF d
<1>9. /\ r \in Call /\ SameChunk(k, r) /\ r.pc = "thank" /\ r.p = k.p
      /\ r.marks = k.marks /\ r.thanked = k.thanked
      BY <1>2, <1>7 DEF SameChunk, Call, Places, RunPcs, Working
<1> HIDE DEF r, new
<1>10. CASE AtHand(k, t)
       BY <1>6, <1>8, <1>9, <1>10 DEF Reaches, AtHand, Working
<1>11. CASE Waits(k, t) \/ Meets(k, t)
  <2>1. CASE new # {}
        BY <1>2, <1>6, <1>9, <1>11, <2>1, StayKeeps DEF Working
  <2>2. CASE new = {}
    <3>1. Between(r)
          BY <1>2, <1>9 DEF Between, SameChunk, RunPcs, Working
    <3>2. Waits(r, t) \/ Meets(r, t)
          BY <1>1, <1>9, <1>11 DEF Waits, Later, InRun, Meets, SameChunk, RunPcs, Working
    <3>3. r.p \in DOMAIN r.rows
          BY <1>2, <1>9 DEF SameChunk
    <3>4. QED BY <1>6, <2>2, <3>1, <3>2, <3>3, DoneKeeps
  <2>3. QED BY <2>1, <2>2
<1>12. QED BY <1>3, <1>10, <1>11

\* Where a run goes from a pledge it has tried a message for.
LEMMA TryReaches ==
    ASSUME Placed, NEW c \in Calls, call[c].pc \in Working, Noting(call[c]), NEW s,
           s \in Call, SameChunk(call[c], s), s.pc \in Working,
           s.marks = call[c].marks, s.thanked = call[c].thanked, s.p = call[c].p,
           NEW t \in Pledges, ~TriedToday(t), Waits(call[c], t) \/ Meets(call[c], t)
    PROVE  Reaches(s, t) /\ Reaches(NextChannel(s), t)
<1> DEFINE k == call[c]
<1>1. /\ k \in Call /\ k.op = "job" /\ k.pc \in RunPcs \ {"chunk"} /\ Between(k)
      /\ k.p \in DOMAIN k.rows \ k.ids /\ k.ids \subseteq DOMAIN k.rows
      BY AtWork
<1>2. s.pc \in RunPcs \ {"chunk"}
      BY DEF RunPcs, Working
<1>3. Between(s)
      BY <1>1, <1>2 DEF Between, SameChunk
<1>4. Waits(s, t) \/ Meets(s, t)
      BY <1>1, <1>2 DEF Waits, Later, InRun, Meets, SameChunk
<1>5. s.p \in DOMAIN s.rows
      BY <1>1 DEF SameChunk
<1>6. QED BY <1>1, <1>3, <1>4, <1>5, StayKeeps, ChannelKeeps

LEMMA TriesReaches ==
    ASSUME Placed, NEW c \in Calls, Thank(c) \/ Template(c) \/ Remind(c), Noting(call[c]),
           NEW t \in Pledges, ~TriedToday(t), ~TriedToday(t)', Reaches(call[c], t)
    PROVE  Reaches(call'[c], t)
<1> DEFINE k == call[c]
<1>1. k.pc \in {"thank", "template", "remind"} /\ k.pc \in Working
      BY DEF Thank, Template, Remind, Working
<1>2. k \in Call /\ k.op = "job" /\ k.p \in Pledges /\ call \in [Calls -> Call]
      BY <1>1, AtWork
<1>3. Tried(c) /\ freq' = freq /\ day' = day
      BY DEF Thank, Template, Remind, countVars
<1>4. ~AtHand(k, t)
  <2>1. SUFFICES ASSUME k.p = t PROVE TriedToday(t)'
        BY DEF AtHand
  <2>2. <<t, KeyToday(t)>> \in tried'
        BY <1>3, <2>1 DEF Tried, KeyToday
  <2>3. KeyFor(t, day)' = KeyToday(t)
        BY <1>3, PledgeFreq DEF KeyFor, KeyToday, KeyOf, PeriodOf
  <2>4. QED BY <2>2, <2>3 DEF TriedToday
<1>5. Waits(k, t) \/ Meets(k, t)
      BY <1>1, <1>4, WorkReaches
<1>6. ASSUME NEW s \in Call, SameChunk(k, s), s.pc \in Working, s.marks = k.marks, s.thanked = k.thanked,
             s.p = k.p
      PROVE  Reaches(s, t) /\ Reaches(NextChannel(s), t)
      BY <1>1, <1>5, <1>6, TryReaches
<1>7. \A ok \in BOOLEAN, pc \in {"thank", "flag", "template", "remind"} :
         LET s == [k EXCEPT !.ok = ok, !.pc = pc]
         IN  Reaches(s, t) /\ Reaches(NextChannel(s), t)
  <2> SUFFICES ASSUME NEW ok \in BOOLEAN, NEW pc \in {"thank", "flag", "template", "remind"}
               PROVE  LET s == [k EXCEPT !.ok = ok, !.pc = pc]
                      IN  Reaches(s, t) /\ Reaches(NextChannel(s), t)
      BY Zenon
  <2> DEFINE s == [k EXCEPT !.ok = ok, !.pc = pc]
  <2>1. /\ s \in Call /\ SameChunk(k, s) /\ s.pc = pc /\ s.marks = k.marks
        /\ s.thanked = k.thanked /\ s.p = k.p
        BY <1>2 DEF Call, SameChunk, Places, RunPcs, Working
  <2> HIDE DEF s
  <2>2. s.pc \in Working
        BY <2>1 DEF Working
  <2>3. QED BY <1>6, <2>1, <2>2 DEF s
<1>8. k = [k EXCEPT !.ok = k.ok, !.pc = k.pc] /\ k.ok \in BOOLEAN
      BY <1>2 DEF Call
<1>9. CASE Thank(c)
  <2>1. call'[c] = [k EXCEPT !.ok = TRUE, !.pc = "flag"] \/ call'[c] = NextChannel(k)
        BY <1>2, <1>9 DEF Thank, Set
  <2>2. Reaches(NextChannel(k), t)
        BY <1>1, <1>7, <1>8, Zenon
  <2>3. QED BY <1>7, <2>1, <2>2, Zenon
<1>10. CASE Template(c)
  <2>1. PICK ok \in BOOLEAN : call'[c] = NextChannel([k EXCEPT !.ok = @ \/ ok])
        BY <1>2, <1>10 DEF Template, Set
  <2>2. PICK b \in BOOLEAN : [k EXCEPT !.ok = @ \/ ok] = [k EXCEPT !.ok = b, !.pc = k.pc]
        BY <1>2 DEF Call
  <2>3. QED BY <1>1, <1>7, <2>1, <2>2, Zenon
<1>11. CASE Remind(c)
  <2>1. call'[c] = NextChannel([k EXCEPT !.ok = TRUE]) \/ call'[c] = NextChannel(k)
        BY <1>2, <1>11 DEF Remind, Set
  <2>2. [k EXCEPT !.ok = TRUE] = [k EXCEPT !.ok = TRUE, !.pc = k.pc]
        BY <1>2 DEF Call
  <2>3. Reaches(NextChannel(k), t)
        BY <1>1, <1>7, <1>8
  <2>4. Reaches(NextChannel([k EXCEPT !.ok = TRUE, !.pc = k.pc]), t)
        BY <1>1, <1>7, Zenon
  <2>5. QED BY <2>1, <2>2, <2>3, <2>4
<1>12. QED BY <1>9, <1>10, <1>11

\* The statements of a run between its messages.
LEMMA FlagReaches ==
    ASSUME Placed, NEW c \in Calls, Flag(c), Noting(call[c]),
           NEW t \in Pledges, ~TriedToday(t), Reaches(call[c], t)
    PROVE  Reaches(call'[c], t)
<1> DEFINE k == call[c]
           s == [k EXCEPT !.pc = "thank"]
<1>1. k.pc = "flag" /\ k.pc \in Working
      BY DEF Flag, Working
<1>2. k \in Call /\ call \in [Calls -> Call]
      BY <1>1, AtWork
<1>3. Waits(k, t) \/ Meets(k, t)
      BY <1>1, WorkReaches DEF AtHand
<1>4. call'[c] = NextChannel(s)
      BY <1>2 DEF Flag, Set
<1>5. /\ s \in Call /\ SameChunk(k, s) /\ s.pc = "thank" /\ s.marks = k.marks
      /\ s.thanked = k.thanked /\ s.p = k.p
      BY <1>2 DEF Call, SameChunk, Places, RunPcs, Working
<1> HIDE DEF s
<1>6. s.pc \in Working
      BY <1>5 DEF Working
<1>7. QED BY <1>1, <1>3, <1>4, <1>5, <1>6, TryReaches

LEMMA OpenReaches ==
    ASSUME Placed, NEW c \in Calls, FindOpen(c) \/ InsertLink(c), call[c].pc \in Working, Noting(call[c]),
           NEW t \in Pledges, ~TriedToday(t), Reaches(call[c], t)
    PROVE  Reaches(call'[c], t)
<1> DEFINE k == call[c]
           r == call'[c]
<1>1. /\ k \in Call /\ k.op = "job" /\ k.pc \in RunPcs \ {"chunk"} /\ k.ids \subseteq DOMAIN k.rows
      /\ call \in [Calls -> Call]
      BY AtWork
<1>2. Waits(k, t) \/ Meets(k, t) \/ AtHand(k, t)
      BY WorkReaches
<1>3. \E n, pc : r = [k EXCEPT !.d = n, !.pc = pc] /\ pc \in {"insert", "remind"}
  <2>1. k = [k EXCEPT !.d = k.d]
        BY <1>1 DEF Call
  <2>2. CASE FindOpen(c)
    <3>1. r = [k EXCEPT !.pc = "insert"] \/ \E n : r = [k EXCEPT !.d = n, !.pc = "remind"]
          BY <1>1, <2>2 DEF FindOpen, Set
    <3>2. [k EXCEPT !.pc = "insert"] = [k EXCEPT !.d = k.d, !.pc = "insert"]
          BY <1>1 DEF Call
    <3>3. QED BY <3>1, <3>2
  <2>3. CASE InsertLink(c)
    <3>1. k.pc = "insert"
          BY <2>3 DEF InsertLink, Working
    <3>2. r = [k EXCEPT !.d = Len(donation) + 1, !.pc = "remind"]
          BY <1>1, <2>3, <3>1 DEF InsertLink, Set, Call
    <3>3. QED BY <3>2
  <2>4. QED BY <2>2, <2>3
<1>4. SameChunk(k, r) /\ r.pc \in {"insert", "remind"} /\ r.p = k.p
      BY <1>1, <1>3 DEF SameChunk, Call
<1> HIDE DEF k, r
<1>5. r.pc \in Working
      BY <1>4 DEF Working
<1>6. CASE AtHand(k, t)
      BY <1>4, <1>5, <1>6 DEF Reaches, AtHand, r
<1>7. CASE Waits(k, t) \/ Meets(k, t)
      BY <1>1, <1>4, <1>5, <1>7, StayKeeps DEF r
<1>8. QED BY <1>2, <1>6, <1>7

LEMMA MarkReaches ==
    ASSUME Placed, NEW c \in Calls, Mark(c), NEW t \in Pledges, Reaches(call[c], t)
    PROVE  call'[c].op = "job" => Reaches(call'[c], t)
<1> DEFINE k == call[c]
           p == Min(IF k.marks # {} THEN k.marks ELSE k.thanked)
           M == k.marks \ {p}
           T == IF k.marks # {} THEN k.thanked ELSE k.thanked \ {p}
           r == [k EXCEPT !.marks = M, !.thanked = T]
<1>1. /\ k \in Call /\ CallOK(k) /\ k.op = "job" /\ k.pc = "mark" /\ k.pc \in RunPcs \ {"chunk"}
      /\ call \in [Calls -> Call]
      BY JobIs DEF Mark, RunPcs, Placed, TypeOK
<1>2. Between(k) /\ ChunkOK(k)
      BY <1>1, ChunkBetween DEF CallOK, RunOK, InRun
<1>3. Waits(k, t)
      BY <1>1 DEF Reaches, InChunk, AtHand, Queue, Working
<1>4. call'[c] = NoCall \/ call'[c] = AfterChunk(r) \/ call'[c] = r
  <2>1. r = [k EXCEPT !.marks = @ \ {p}, !.thanked = IF k.marks # {} THEN @ ELSE @ \ {p}]
        BY <1>1 DEF Call
  <2>2. QED BY <1>1, <2>1 DEF Mark, End, Set, Excused
<1>5. M \subseteq k.marks /\ T \subseteq k.thanked
      OBVIOUS
<1> HIDE DEF M, T
<1>6. /\ r \in Call /\ r.op = "job" /\ r.pc = "mark" /\ r.rows = k.rows /\ r.todo = k.todo
      /\ r.last = k.last /\ r.size = k.size /\ r.ids = k.ids /\ r.given = k.given
      /\ r.marks = M /\ r.thanked = T
      BY <1>1, <1>5 DEF Call
<1> HIDE DEF r
<1>7. Between(r)
      BY <1>1, <1>2, <1>5, <1>6 DEF Between
<1>8. Waits(r, t)
      BY <1>1, <1>3, <1>6 DEF Waits, Later, InRun
<1>9. Waits(AfterChunk(r), t)
      BY <1>7, <1>8, AfterChunkKeeps
<1>10. QED BY <1>4, <1>8, <1>9 DEF Reaches, NoCall

\* Whomever a run still owes something it reaches after its step as before.
LEMMA RunReaches ==
    ASSUME Placed, Notes, NEW c \in Calls, RunStep(c), Noting(call[c]), call'[c].op = "job",
           NEW t \in Pledges, t \in Owed, ~TriedToday(t), ~TriedToday(t)', Reaches(call[c], t)
    PROVE  Reaches(call'[c], t)
<1>1. call[c].pc \in RunPcs
  <2>1. CASE Waits(call[c], t)
        BY <2>1 DEF Waits, Later, InRun
  <2>2. CASE InChunk(call[c], t)
        BY <2>2 DEF InChunk, Queue, InRun
  <2>3. CASE AtHand(call[c], t)
        BY <2>3 DEF AtHand, RunPcs
  <2>4. QED BY <2>1, <2>2, <2>3 DEF Reaches
<1>2. CASE Chunk(c)
      BY <1>2, ChunkReaches
<1>3. CASE Lookup(c)
      BY <1>3, LookupReaches
<1>4. CASE FindPaid(c)
      BY <1>4, FindPaidReaches
<1>5. CASE Thank(c) \/ Template(c) \/ Remind(c)
      BY <1>5, TriesReaches
<1>6. CASE Flag(c)
      BY <1>6, FlagReaches
<1>7. CASE FindOpen(c) \/ InsertLink(c)
  <2>1. call[c].pc \in Working
        BY <1>1, <1>7 DEF FindOpen, InsertLink, RunPcs, Working
  <2>2. QED BY <1>7, <2>1, OpenReaches
<1>8. CASE Mark(c)
      BY <1>8, MarkReaches
<1>9. CASE SubRead(c) \/ SubInitial(c) \/ SubSettled(c) \/ SubDonated(c) \/ SubLink(c)
           \/ SubRemind(c) \/ SubMark(c)
      BY <1>1, <1>9 DEF SubRead, SubInitial, SubSettled, SubDonated, SubLink, SubRemind, SubMark,
                        RunPcs, Working
<1>10. QED BY <1>2, <1>3, <1>4, <1>5, <1>6, <1>7, <1>8, <1>9 DEF RunStep

\* A handler that ends or begins has nothing to go by.
LEMMA NewNotes ==
    ASSUME NEW r, r.marks = {}, r.thanked = {}, r.given = {}, DOMAIN r.rows = {}, r.key = NoKey,
           r.pc \notin {"thank", "flag", "subMark"} \union (PayPcs \ {"complete"})
    PROVE  Noting(r)'
BY DEF Noting, SubNoted

LEMMA NoCallNotes == Noting(NoCall)'
<1>1. /\ NoCall.marks = {} /\ NoCall.thanked = {} /\ NoCall.given = {} /\ DOMAIN NoCall.rows = {}
      /\ NoCall.key = NoKey /\ NoCall.pc = "none"
      BY DEF NoCall
<1>2. QED BY <1>1, NewNotes DEF PayPcs

\* A message that is tried for the pledge at hand.
LEMMA TriedNow ==
    ASSUME Placed, NEW c \in Calls, Tried(c), freq' = freq, day' = day,
           NEW p \in Pledges, p = call[c].p
    PROVE  TriedToday(p)'
<1>1. <<p, KeyToday(p)>> \in tried'
      BY DEF Tried, KeyToday
<1>2. KeyFor(p, day)' = KeyToday(p)
      BY PledgeFreq DEF KeyFor, KeyToday, KeyOf, PeriodOf
<1>3. QED BY <1>1, <1>2 DEF TriedToday

\* What a run goes by stays true, whoever takes a step.
LEMMA NotingStays ==
    ASSUME Placed, Grows, NEW c \in Calls, Noting(call[c]), NEW k, k = call[c]
    PROVE  Noting(k)'
<1>1. k \in Call /\ CallOK(k)
      BY DEF Placed, TypeOK
<1>2. k.pc \in {"thank", "flag"} => k.d \in DOMAIN donation
  <2>1. SUFFICES ASSUME k.pc \in {"thank", "flag"} PROVE k.d \in DOMAIN donation
        OBVIOUS
  <2>2. k.pc \in Working
        BY <2>1 DEF Working
  <2>3. ChunkOK(k)
        BY <2>2, AtWork
  <2>4. QED BY <2>1, <2>2, <2>3 DEF ChunkOK
<1>3. k.pc \in PayPcs => k.d \in DOMAIN donation
      BY <1>1 DEF CallOK, OtherOK
<1>4. QED BY <1>2, <1>3, NotingGrows

\* A run goes on to the next channel, or to the next pledge.
LEMMA ChannelNotes ==
    ASSUME Placed, Grows, NEW c \in Calls, call[c].pc \in Working, Noting(call[c]),
           NEW k, k = call[c], TriedToday(k.p)',
           NEW s \in Call, SameChunk(k, s), s.pc \in Working \ {"flag"},
           s.marks = k.marks, s.thanked = k.thanked, s.p = k.p, s.d = k.d, s.key = k.key, s.due = k.due,
           s.pc = "thank" => k.pc \in {"thank", "flag"},
           NEW r, r = NextChannel(s)
    PROVE  Noting(r)'
<1>1. /\ k \in Call /\ k.op = "job" /\ k.pc \in RunPcs \ {"chunk"} /\ Between(k)
      /\ k.p \in DOMAIN k.rows \ k.ids /\ k.ids \subseteq DOMAIN k.rows
      BY AtWork
<1>2. Noting(k)'
      BY NotingStays
<1>3. s.pc \in RunPcs \ {"chunk"} /\ s.pc \in Working
      BY DEF RunPcs, Working
<1>4. Between(s)
      BY <1>1, <1>3 DEF Between, SameChunk
<1>5. s.p \in DOMAIN s.rows
      BY <1>1 DEF SameChunk
<1>7. /\ Knows(s, r) /\ (r.pc \in Ahead \/ (r.pc = s.pc /\ r.p = s.p))
      /\ IF s.p \in s.given THEN r.marks = s.marks /\ r.thanked \subseteq s.thanked \union {s.p}
                            ELSE r.thanked = s.thanked /\ r.marks \subseteq s.marks \union {s.p}
      BY <1>3, <1>4, <1>5, ChannelKnows
<1>8. r.rows = k.rows /\ r.given = k.given /\ r.key = k.key /\ r.due = k.due /\ r.d = k.d
      BY <1>7 DEF Knows, SameChunk
<1>9. \A p \in r.marks \ k.marks : p = k.p
      BY <1>7
<1>10. \A p \in r.thanked \ k.thanked : p = k.p /\ p \in r.given
       BY <1>7, <1>8 DEF Knows
<1>11. r.pc \notin {"flag", "subMark"} \union PayPcs /\ (r.pc = "thank" => s.pc = "thank")
  <2>1. s.pc \notin {"flag", "subMark"} \union PayPcs
        BY DEF Working, PayPcs
  <2>2. r.pc \in Ahead => r.pc \notin {"flag", "subMark", "thank"} \union PayPcs
        BY DEF Ahead, PayPcs
  <2>3. QED BY <1>7, <2>1, <2>2
<1>12. r.pc = "thank" => donation'[r.d].status = "completed"
       BY <1>2, <1>8, <1>11 DEF Noting
<1>13. QED BY <1>2, <1>8, <1>9, <1>10, <1>11, <1>12, NotingOn

LEMMA TriesNotes ==
    ASSUME Placed, Grows, NEW c \in Calls, Thank(c) \/ Template(c) \/ Remind(c) \/ Flag(c), Noting(call[c]),
           NEW k, k = call[c], NEW r, r = call'[c]
    PROVE  Noting(r)'
<1>1. k.pc \in {"thank", "template", "remind", "flag"} /\ k.pc \in Working
      BY DEF Thank, Template, Remind, Flag, Working
<1>2. k \in Call /\ k.op = "job" /\ k.p \in Pledges /\ call \in [Calls -> Call] /\ k.ok \in BOOLEAN
      BY <1>1, AtWork DEF Call
<1>3. freq' = freq /\ day' = day
      BY DEF Grows
<1>4. TriedToday(k.p)'
  <2>1. CASE Flag(c)
        BY <2>1, TriedStays DEF Noting, Flag
  <2>2. CASE Thank(c) \/ Template(c) \/ Remind(c)
    <3>1. Tried(c)
          BY <2>2 DEF Thank, Template, Remind
    <3>2. QED BY <1>2, <1>3, <3>1, TriedNow
  <2>3. QED BY <2>1, <2>2
<1>5. ASSUME NEW ok \in BOOLEAN, NEW pc \in {"thank", "template", "remind"},
             pc = "thank" => k.pc \in {"thank", "flag"},
             r = NextChannel([k EXCEPT !.ok = ok, !.pc = pc])
      PROVE  Noting(r)'
  <2> DEFINE s == [k EXCEPT !.ok = ok, !.pc = pc]
  <2>1. /\ s \in Call /\ SameChunk(k, s) /\ s.pc = pc /\ s.marks = k.marks
        /\ s.thanked = k.thanked /\ s.p = k.p /\ s.d = k.d /\ s.key = k.key /\ s.due = k.due
        BY <1>2 DEF Call, SameChunk, Places, RunPcs, Working
  <2>2. r = NextChannel(s)
        BY <1>5
  <2> HIDE DEF s
  <2>3. s.pc \in Working \ {"flag"}
        BY <2>1 DEF Working
  <2>4. QED BY <1>1, <1>4, <1>5, <2>1, <2>2, <2>3, ChannelNotes
<1>6. k = [k EXCEPT !.ok = k.ok, !.pc = k.pc]
      BY <1>2 DEF Call
<1>7. CASE Thank(c)
  <2>1. k.pc = "thank"
        BY <1>7 DEF Thank
  <2>2. r = [k EXCEPT !.ok = TRUE, !.pc = "flag"] \/ r = NextChannel(k)
        BY <1>2, <1>7 DEF Thank, Set
  <2>3. CASE r = NextChannel(k)
    <3>1. r = NextChannel([k EXCEPT !.ok = k.ok, !.pc = k.pc])
          BY <1>6, <2>3
    <3>2. QED BY <1>2, <1>5, <2>1, <3>1
  <2>4. CASE r = [k EXCEPT !.ok = TRUE, !.pc = "flag"]
    <3>1. /\ r.rows = k.rows /\ r.given = k.given /\ r.key = k.key /\ r.due = k.due /\ r.d = k.d
          /\ r.marks = k.marks /\ r.thanked = k.thanked /\ r.p = k.p /\ r.pc = "flag"
          BY <1>2, <2>4 DEF Call
    <3>2. Noting(k)'
          BY NotingStays
    <3>3. donation'[r.d].status = "completed"
          BY <2>1, <3>1, <3>2 DEF Noting
    <3>4. TriedToday(r.p)'
          BY <1>4, <3>1
    <3>5. QED BY <3>1, <3>2, <3>3, <3>4, NotingOn
  <2>5. QED BY <2>2, <2>3, <2>4
<1>8. CASE Template(c)
  <2>1. k.pc = "template"
        BY <1>8 DEF Template
  <2>2. PICK ok \in BOOLEAN : r = NextChannel([k EXCEPT !.ok = @ \/ ok])
        BY <1>2, <1>8 DEF Template, Set
  <2>3. PICK b \in BOOLEAN : [k EXCEPT !.ok = @ \/ ok] = [k EXCEPT !.ok = b, !.pc = k.pc]
        BY <1>2 DEF Call
  <2>4. r = NextChannel([k EXCEPT !.ok = b, !.pc = k.pc])
        BY <2>2, <2>3
  <2>5. QED BY <1>5, <2>1, <2>4
<1>9. CASE Remind(c)
  <2>1. k.pc = "remind"
        BY <1>9 DEF Remind
  <2>2. r = NextChannel([k EXCEPT !.ok = TRUE]) \/ r = NextChannel(k)
        BY <1>2, <1>9 DEF Remind, Set
  <2>3. [k EXCEPT !.ok = TRUE] = [k EXCEPT !.ok = TRUE, !.pc = k.pc]
        BY <1>2 DEF Call
  <2>4. \/ r = NextChannel([k EXCEPT !.ok = k.ok, !.pc = k.pc])
        \/ r = NextChannel([k EXCEPT !.ok = TRUE, !.pc = k.pc])
        BY <1>6, <2>2, <2>3
  <2>5. QED BY <1>2, <1>5, <2>1, <2>4
<1>10. CASE Flag(c)
  <2>1. k.pc = "flag"
        BY <1>10 DEF Flag
  <2>2. r = NextChannel([k EXCEPT !.pc = "thank"])
        BY <1>2, <1>10 DEF Flag, Set
  <2>3. [k EXCEPT !.pc = "thank"] = [k EXCEPT !.ok = k.ok, !.pc = "thank"]
        BY <1>2 DEF Call
  <2>4. r = NextChannel([k EXCEPT !.ok = k.ok, !.pc = "thank"])
        BY <2>2, <2>3
  <2>5. QED BY <1>2, <1>5, <2>1, <2>4
<1>11. QED BY <1>7, <1>8, <1>9, <1>10

\* A run that finds all thanks of a pledge sent did not owe it any.
LEMMA FindPaidNotes ==
    ASSUME Placed, Grows, NEW c \in Calls, FindPaid(c), Noting(call[c]), Owing(call[c]),
           NEW q, q = call'[c]
    PROVE  Noting(q)'
<1> DEFINE k   == call[c]
           ds  == PaidOf(k.p)
           d   == Max(ds)
           new == Channel \ donation[d].sent
           s   == [k EXCEPT !.d = d, !.chans = new, !.ok = new # Channel, !.pc = "thank"]
<1>1. k.pc = "findPaid" /\ k.pc \in Working
      BY DEF FindPaid, Working
<1>2. /\ k \in Call /\ k.op = "job" /\ k.pc \in RunPcs \ {"chunk"}
      /\ Between(k) /\ ChunkOK(k)
      /\ k.p \in DOMAIN k.rows \ k.ids /\ k.ids \subseteq DOMAIN k.rows /\ k.p \in Pledges
      /\ call \in [Calls -> Call]
      BY <1>1, AtWork
<1>3. k.p \in k.given
      BY <1>1, <1>2 DEF ChunkOK
<1>4. ds # {} /\ ds = PaidFor(k.p, freq[k.p])
      BY <1>3 DEF Noting, PaidOf
<1>5. q = IF new = {} THEN Done(s) ELSE s
      BY <1>2, <1>4 DEF FindPaid, Set
<1>6. d \in Nat /\ d \in DOMAIN donation /\ donation'[d].status = "completed"
  <2>1. donation \in Seq(Donation) /\ DOMAIN donation = 1 .. Len(donation) /\ Len(donation) \in Nat
        BY DEF Placed, TypeOK
  <2>2. ds \subseteq DOMAIN donation
        BY DEF PaidOf, PaidFor
  <2>3. d \in ds
        BY <1>4, <2>1, <2>2, MaxIsGreatest
  <2>4. donation[d].status = "completed"
        BY <2>3 DEF PaidOf, PaidFor
  <2>5. QED BY <2>1, <2>2, <2>3, <2>4 DEF Grows
<1>7. new = {} /\ k.p \in k.due => TriedToday(k.p)
  <2>1. SUFFICES ASSUME new = {}, k.p \in k.due, ~TriedToday(k.p) PROVE FALSE
        OBVIOUS
  <2>2. k.p \in Owed /\ Reaches(k, k.p)
        BY <1>2, <2>1, SubRange DEF Owing
  <2>3. ThankLeft(k.p)
        BY <1>2, <1>4, <2>2, OwedIs DEF OwedPledge
  <2>4. k.p \in OwnTemplates
        BY <2>1, <2>3 DEF ThankLeft
  <2>5. ~AtHand(k, k.p)
        BY <1>1, <2>4 DEF AtHand
  <2>6. ~InChunk(k, k.p)
        BY <1>1, <1>2 DEF InChunk, Queue
  <2>7. ~Waits(k, k.p)
    <3>1. freq[k.p] = Head(k.todo) /\ k.p <= k.last
          BY <1>2 DEF ChunkOK
    <3>2. k.p \in Nat /\ k.last \in Nat
          BY <1>2 DEF Pledges, Call, Targets, Sub
    <3>3. ~(k.p > k.last)
          BY <3>1, <3>2
    <3>4. QED BY <3>1, <3>3 DEF Waits, Later
  <2>8. QED BY <2>2, <2>5, <2>6, <2>7 DEF Reaches
<1> HIDE DEF d
<1>8. PICK x : x = k
      OBVIOUS
<1>9. Noting(x)' /\ (new = {} /\ x.p \in x.due => TriedToday(x.p)')
      BY <1>7, <1>8, NotingStays, TriedStays
<1>10. /\ s \in Call /\ Knows(k, [s EXCEPT !.d = k.d]) /\ SameChunk(k, s) /\ s.pc = "thank" /\ s.p = k.p
       /\ s.d = d /\ s.marks = k.marks /\ s.thanked = k.thanked /\ s.key = k.key /\ s.due = k.due
       BY <1>2, <1>6 DEF Knows, SameChunk, Call, Places, RunPcs, Working
<1> HIDE DEF s, new
<1>11. CASE new # {}
  <2>1. q.rows = x.rows /\ q.given = x.given /\ q.key = x.key /\ q.due = x.due /\ q.pc = "thank"
        /\ q.marks = x.marks /\ q.thanked = x.thanked /\ q.d = d
        BY <1>5, <1>8, <1>10, <1>11 DEF SameChunk
  <2>2. QED BY <1>6, <1>9, <2>1, NotingOn
<1>12. CASE new = {}
  <2>1. Between(s)
        BY <1>2, <1>10 DEF Between, SameChunk, RunPcs, Working
  <2>2. s.p \in DOMAIN s.rows /\ s.p \in s.given
        BY <1>2, <1>3, <1>10 DEF SameChunk
  <2>3. /\ Knows(s, q) /\ q.pc \in Ahead
        /\ q.marks = s.marks /\ q.thanked \subseteq s.thanked \union {s.p}
        BY <1>5, <1>12, <2>1, <2>2, DoneKnows
  <2>4. q.rows = x.rows /\ q.given = x.given /\ q.key = x.key /\ q.due = x.due
        /\ q.marks = x.marks /\ q.thanked \subseteq x.thanked \union {x.p} /\ x.p \in q.given
        BY <1>3, <1>8, <1>10, <2>3 DEF SameChunk, Knows
  <2>5. q.pc \notin {"thank", "flag", "subMark"} \union PayPcs
        BY <2>3 DEF Ahead, PayPcs
  <2>6. QED BY <1>9, <1>12, <2>4, <2>5, NotingOn
<1>13. QED BY <1>11, <1>12

LEMMA ChunkNotes ==
    ASSUME Placed, Notes, Grows, NEW c \in Calls, Chunk(c), Noting(call[c]), NEW q, q = call'[c]
    PROVE  Noting(q)'
<1> DEFINE k    == call[c]
           ps   == {p \in Pledges : /\ p > k.last
                                    /\ pledge[p].status = "active"
                                    /\ freq[p] = Head(k.todo)}
           some == {p \in ps : Cardinality({u \in ps : u <= p}) <= k.size}
           rows == [p \in some |-> pledge[p]]
           m    == Max(some)
           b    == [k EXCEPT !.rows = rows, !.ids = some, !.given = {}, !.marks = {}, !.thanked = {},
                             !.last = m, !.pc = "lookup"]
<1>1. k \in Call /\ call \in [Calls -> Call]
      BY DEF Placed, TypeOK
<1>2. PICK x : x = k
      OBVIOUS
<1>3. Noting(x)'
      BY <1>2, NotingStays
<1>4. q = [k EXCEPT !.pc = "subRead"] \/ q = NextFreq(k) \/ q = b
      BY <1>1 DEF Chunk, Set
<1>5. CASE q = [k EXCEPT !.pc = "subRead"] \/ q = NextFreq(k)
  <2>1. q.rows = x.rows /\ q.given = x.given /\ q.key = x.key /\ q.due = x.due
        /\ q.marks = x.marks /\ q.thanked = x.thanked /\ q.pc \in {"subRead", "chunk"}
        BY <1>1, <1>2, <1>5 DEF NextFreq, Call
  <2>2. QED BY <1>3, <2>1, NotingOn DEF PayPcs
<1>6. CASE q = b
  <2>1. DOMAIN rows = some /\ some \subseteq Pledges /\ \A p \in some : rows[p] = pledge[p]
        OBVIOUS
  <2> HIDE DEF rows, some, m
  <2>2. /\ q.marks = {} /\ q.thanked = {} /\ q.given = {} /\ q.rows = rows /\ q.key = x.key
        /\ q.pc = "lookup"
        BY <1>1, <1>2, <1>6 DEF Call
  <2>3. ASSUME NEW p \in DOMAIN q.rows PROVE RowOK(p, q.rows[p])'
    <3>1. p \in Pledges /\ q.rows[p] = pledge[p]
          BY <2>1, <2>2
    <3>2. RowOK(p, q.rows[p])
          BY <3>1 DEF Notes
    <3>3. QED BY <3>2, RowStays
  <2>4. SubNoted(q.key)'
        BY <1>3, <2>2 DEF Noting
  <2>5. QED BY <2>2, <2>3, <2>4 DEF Noting, PayPcs
<1>7. QED BY <1>4, <1>5, <1>6

LEMMA LookupNotes ==
    ASSUME Placed, Grows, NEW c \in Calls, Lookup(c), Noting(call[c]), NEW q, q = call'[c]
    PROVE  Noting(q)'
<1> DEFINE k == call[c]
           p == Min(k.ids)
           g == IF PaidFor(p, freq[p]) # {} THEN k.given \union {p} ELSE k.given
           r == [k EXCEPT !.ids = k.ids \ {p}, !.given = g]
           s == [r EXCEPT !.ids = DOMAIN r.rows]
<1>1. /\ k \in Call /\ CallOK(k) /\ k.op = "job" /\ InRun(k) /\ k.pc = "lookup" /\ k.pc \in RunPcs \ {"chunk"}
      /\ call \in [Calls -> Call]
      BY JobIs DEF Lookup, RunPcs, Placed, TypeOK
<1>2. Between(k) /\ ChunkOK(k)
      BY <1>1, ChunkBetween DEF CallOK, RunOK
<1>3. k.ids # {} /\ k.ids \subseteq DOMAIN k.rows /\ DOMAIN k.rows \subseteq Pledges /\ k.ids \subseteq Nat
      BY <1>1, <1>2, RowsAreRows DEF ChunkOK, Pledges
<1>4. p \in k.ids /\ p \in DOMAIN k.rows /\ p \in Pledges
      BY <1>3, MinIsLeast
<1>5. q = IF r.ids = {} THEN Onward(s) ELSE r
  <2>1. r = [k EXCEPT !.ids = @ \ {p},
                      !.given = IF PaidFor(p, freq[p]) # {} THEN @ \union {p} ELSE @]
        BY <1>1 DEF Call
  <2>2. QED BY <1>1, <2>1 DEF Lookup, Set
<1>6. g \subseteq k.given \union {p} /\ k.given \subseteq g /\ (p \in g \ k.given => PaidOf(p) # {})
      BY DEF PaidOf
<1>7. PICK x, P, G : x = k /\ P = p /\ G = g
      OBVIOUS
<1>8. Noting(x)'
      BY <1>7, NotingStays
<1>9. \A y \in G : PaidOf(y)' # {}
  <2>1. ASSUME NEW y \in G PROVE PaidOf(y)' # {}
    <3>1. PaidOf(y) # {}
          BY <1>6, <1>7, <2>1 DEF Noting
    <3>2. QED BY <3>1, PaidStays
  <2>2. QED BY <2>1
<1> HIDE DEF p, g
<1>10. /\ r \in Call /\ r.op = "job" /\ r.pc = "lookup" /\ r.rows = k.rows /\ r.todo = k.todo
       /\ r.last = k.last /\ r.size = k.size /\ r.ids = k.ids \ {p} /\ r.given = g
       /\ r.marks = k.marks /\ r.thanked = k.thanked /\ r.key = k.key /\ r.due = k.due
       BY <1>1, <1>3, <1>4, <1>6 DEF Call
<1> HIDE DEF r
<1>11. ASSUME NEW y, y.rows = x.rows, y.given = G, y.key = x.key, y.due = x.due,
              y.marks = x.marks, y.thanked = x.thanked, y.pc = "lookup"
       PROVE  Noting(y)'
       BY <1>6, <1>7, <1>8, <1>9, <1>11 DEF Noting, PayPcs
<1>12. CASE r.ids # {}
       BY <1>5, <1>7, <1>10, <1>11, <1>12
<1>13. CASE r.ids = {}
  <2>1. PICK y : y = s
        OBVIOUS
  <2>2. /\ s \in Call /\ s.op = "job" /\ s.pc = "lookup" /\ s.rows = k.rows /\ s.todo = k.todo
        /\ s.last = k.last /\ s.size = k.size /\ s.ids = DOMAIN k.rows /\ s.given = g
        /\ s.marks = k.marks /\ s.thanked = k.thanked /\ s.key = k.key /\ s.due = k.due
        BY <1>3, <1>10 DEF Call, Pledges
  <2> HIDE DEF s
  <2>3. Between(s)
        BY <1>1, <1>2, <1>4, <1>6, <2>2 DEF Between
  <2>4. Noting(y)'
        BY <1>7, <1>11, <2>1, <2>2
  <2>5. Knows(y, q) /\ q.marks = y.marks /\ q.thanked = y.thanked /\ q.pc \in Ahead
        BY <1>5, <1>13, <2>1, <2>3, OnwardKnows
  <2>6. q.pc \notin {"thank", "flag", "subMark"} \union PayPcs
        BY <2>5 DEF Ahead, PayPcs
  <2>7. QED BY <2>4, <2>5, <2>6, NotingOn DEF Knows
<1>14. QED BY <1>12, <1>13

LEMMA MarkNotes ==
    ASSUME Placed, Grows, NEW c \in Calls, Mark(c), Noting(call[c]), NEW q, q = call'[c]
    PROVE  Noting(q)'
<1> DEFINE k == call[c]
           p == Min(IF k.marks # {} THEN k.marks ELSE k.thanked)
           M == k.marks \ {p}
           T == IF k.marks # {} THEN k.thanked ELSE k.thanked \ {p}
           r == [k EXCEPT !.marks = M, !.thanked = T]
<1>1. k \in Call /\ k.pc = "mark" /\ call \in [Calls -> Call]
      BY DEF Mark, Placed, TypeOK
<1>2. q = NoCall \/ q = AfterChunk(r) \/ q = r
  <2>1. r = [k EXCEPT !.marks = @ \ {p}, !.thanked = IF k.marks # {} THEN @ ELSE @ \ {p}]
        BY <1>1 DEF Call
  <2>2. QED BY <1>1, <2>1 DEF Mark, End, Set, Excused
<1>3. M \subseteq k.marks /\ T \subseteq k.thanked
      OBVIOUS
<1> HIDE DEF M, T
<1>4. /\ r \in Call /\ r.pc = "mark" /\ r.rows = k.rows /\ r.given = k.given /\ r.key = k.key
      /\ r.due = k.due /\ r.marks = M /\ r.thanked = T
      BY <1>1, <1>3 DEF Call
<1> HIDE DEF r
<1>5. CASE q = NoCall
      BY <1>5, NoCallNotes
<1>6. CASE q = AfterChunk(r) \/ q = r
  <2>1. PICK x : x = k
        OBVIOUS
  <2>2. Noting(x)'
        BY <2>1, NotingStays
  <2>3. q = r \/ q = [r EXCEPT !.pc = "chunk"] \/ q = NextFreq(r)
        BY <1>6 DEF AfterChunk
  <2>4. /\ q.rows = x.rows /\ q.given = x.given /\ q.key = x.key /\ q.due = x.due
        /\ q.marks \subseteq x.marks /\ q.thanked \subseteq x.thanked /\ q.pc \in {"mark", "chunk"}
        BY <1>3, <1>4, <2>1, <2>3 DEF NextFreq, Call
  <2>5. QED BY <2>2, <2>4, NotingOn DEF PayPcs
<1>7. QED BY <1>2, <1>5, <1>6

\* A handler that only moves on.
LEMMA MoveNotes ==
    ASSUME Placed, Grows, NEW c \in Calls, Noting(call[c]), NEW q,
           q.rows = call[c].rows, q.given = call[c].given, q.key = call[c].key, q.due = call[c].due,
           q.marks = call[c].marks, q.thanked = call[c].thanked,
           q.pc \notin {"thank", "flag", "subMark"},
           q.pc \in PayPcs \ {"complete"} => donation'[q.d].status = "completed"
    PROVE  Noting(q)'
<1>1. PICK x : x = call[c]
      OBVIOUS
<1>2. Noting(x)'
      BY <1>1, NotingStays
<1>3. /\ q.rows = x.rows /\ q.given = x.given /\ q.key = x.key /\ q.due = x.due
      /\ q.marks = x.marks /\ q.thanked = x.thanked
      BY <1>1
<1>4. QED BY <1>2, <1>3, NotingOn

LEMMA OpenNotes ==
    ASSUME Placed, Grows, NEW c \in Calls, FindOpen(c) \/ InsertLink(c) \/ SubLink(c), Noting(call[c]),
           NEW q, q = call'[c]
    PROVE  Noting(q)'
<1> DEFINE k == call[c]
<1>1. k \in Call /\ call \in [Calls -> Call]
      BY DEF Placed, TypeOK
<1>2. \E n, pc : q = [k EXCEPT !.d = n, !.pc = pc]
                 /\ pc \in {"insert", "remind", "subInsert", "subRemind"}
  <2>1. \A pc : [k EXCEPT !.pc = pc] = [k EXCEPT !.d = k.d, !.pc = pc]
        BY <1>1 DEF Call
  <2>2. CASE FindOpen(c)
    <3>1. q = [k EXCEPT !.pc = "insert"] \/ \E n : q = [k EXCEPT !.d = n, !.pc = "remind"]
          BY <1>1, <2>2 DEF FindOpen, Set
    <3>2. QED BY <2>1, <3>1
  <2>3. CASE InsertLink(c)
    <3>1. q = [k EXCEPT !.d = Len(donation) + 1, !.pc = IF k.pc = "insert" THEN "remind" ELSE "subRemind"]
          BY <1>1, <2>3 DEF InsertLink, Set, Call
    <3>2. QED BY <3>1
  <2>4. CASE SubLink(c)
    <3>1. q = [k EXCEPT !.pc = "subInsert"] \/ \E n : q = [k EXCEPT !.d = n, !.pc = "subRemind"]
          BY <1>1, <2>4 DEF SubLink, Set
    <3>2. QED BY <2>1, <3>1
  <2>5. QED BY <2>2, <2>3, <2>4
<1>3. /\ q.rows = k.rows /\ q.given = k.given /\ q.key = k.key /\ q.due = k.due
      /\ q.marks = k.marks /\ q.thanked = k.thanked
      /\ q.pc \in {"insert", "remind", "subInsert", "subRemind"}
      BY <1>1, <1>2 DEF Call
<1>4. QED BY <1>3, MoveNotes DEF PayPcs

LEMMA SubRunNotes ==
    ASSUME Placed, Notes, Grows, NEW c \in Calls,
           SubRead(c) \/ SubInitial(c) \/ SubSettled(c) \/ SubDonated(c) \/ SubRemind(c) \/ SubMark(c),
           Noting(call[c]), NEW q, q = call'[c]
    PROVE  Noting(q)'
<1> DEFINE k == call[c]
<1>1. k \in Call /\ call \in [Calls -> Call]
      BY DEF Placed, TypeOK
<1>2. PICK x, M : x = k /\ M = mark
      OBVIOUS
<1>3. Noting(x)'
      BY <1>2, NotingStays
<1>4. SubNoted(M)'
      BY <1>2 DEF Notes, SubNoted, Grows
<1>5. CASE SubRead(c)
  <2>1. q = [k EXCEPT !.p = Sub, !.key = mark, !.ok = FALSE, !.chans = Channel, !.pc = "subInitial"]
        BY <1>1, <1>5 DEF SubRead, Set
  <2>2. /\ q.rows = x.rows /\ q.given = x.given /\ q.key = M /\ q.due = x.due
        /\ q.marks = x.marks /\ q.thanked = x.thanked /\ q.pc = "subInitial"
        BY <1>1, <1>2, <2>1 DEF Call
  <2>3. QED BY <1>3, <1>4, <2>2 DEF Noting, PayPcs
<1>6. CASE SubInitial(c) \/ SubSettled(c) \/ SubDonated(c)
  <2>1. q = NoCall \/ \E pc \in {"subSettled", "subDonated", "subOpen"} : q = [k EXCEPT !.pc = pc]
        BY <1>1, <1>6 DEF SubInitial, SubSettled, SubDonated, Goto, End, Set
  <2>2. CASE q = NoCall
        BY <2>2, NoCallNotes
  <2>3. CASE q # NoCall
    <3>1. /\ q.rows = k.rows /\ q.given = k.given /\ q.key = k.key /\ q.due = k.due
          /\ q.marks = k.marks /\ q.thanked = k.thanked /\ q.pc \in {"subSettled", "subDonated", "subOpen"}
          BY <1>1, <2>1, <2>3 DEF Call
    <3>2. QED BY <3>1, MoveNotes DEF PayPcs
  <2>4. QED BY <2>2, <2>3
<1>7. CASE SubRemind(c)
  <2>1. PICK got \in BOOLEAN :
           LET r == [k EXCEPT !.ok = @ \/ got, !.chans = Others(k)]
           IN  IF r.chans # {} THEN Set(c, r)
               ELSE IF r.ok THEN Set(c, [r EXCEPT !.pc = "subMark"]) ELSE End(c)
        BY <1>7, Zenon DEF SubRemind
  <2> DEFINE r == [k EXCEPT !.ok = @ \/ got, !.chans = Others(k)]
             m == [r EXCEPT !.pc = "subMark"]
  <2>7. q = NoCall \/ q = r \/ q = m
        BY <1>1, <2>1 DEF End, Set
  <2>8. /\ r.rows = k.rows /\ r.given = k.given /\ r.key = k.key /\ r.due = k.due
        /\ r.marks = k.marks /\ r.thanked = k.thanked /\ r.pc = k.pc
        BY <1>1 DEF Call
  <2>9. /\ m.rows = k.rows /\ m.given = k.given /\ m.key = k.key /\ m.due = k.due
        /\ m.marks = k.marks /\ m.thanked = k.thanked /\ m.pc = "subMark"
        BY <1>1 DEF Call
  <2> HIDE DEF r, m
  <2>2. k.pc = "subRemind" /\ day' = day /\ tried' = tried \union {<<Sub, SubKey(day)>>}
        BY <1>7, Zenon DEF SubRemind, countVars
  <2>3. TriedToday(Sub)'
        BY <2>2 DEF TriedToday, KeyFor, SubKey
  <2>4. CASE q = NoCall
        BY <2>4, NoCallNotes
  <2>5. CASE q # NoCall
    <3>1. /\ q.rows = x.rows /\ q.given = x.given /\ q.key = x.key /\ q.due = x.due
          /\ q.marks = x.marks /\ q.thanked = x.thanked /\ q.pc \in {"subRemind", "subMark"}
          BY <1>2, <2>2, <2>5, <2>7, <2>8, <2>9
    <3>2. QED BY <1>3, <2>3, <3>1, NotingOn DEF PayPcs
  <2>6. QED BY <2>4, <2>5
<1>8. CASE SubMark(c)
  <2>1. q = NoCall
        BY <1>1, <1>8 DEF SubMark, End, Set
  <2>2. QED BY <2>1, NoCallNotes
<1>9. QED BY <1>5, <1>6, <1>7, <1>8

LEMMA PayNotes ==
    ASSUME Placed, Grows, NEW c \in Calls,
           Complete(c) \/ Settle(c) \/ Claim(c) \/ SendThanks(c) \/ Release(c),
           Noting(call[c]), NEW q, q = call'[c]
    PROVE  Noting(q)'
<1> DEFINE k == call[c]
<1>1. k.pc \in PayPcs /\ call \in [Calls -> Call]
      BY DEF Complete, Settle, Claim, SendThanks, Release, PayPcs, Placed, TypeOK
<1>2. k \in Call /\ k.d \in DOMAIN donation /\ donation[k.d] \in Donation
      BY <1>1, PayIs
<1>3. q = NoCall \/ \E chans, pc : q = [k EXCEPT !.chans = chans, !.pc = pc] /\ pc \in PayPcs
  <2>1. \A pc : [k EXCEPT !.pc = pc] = [k EXCEPT !.chans = k.chans, !.pc = pc]
        BY <1>2 DEF Call
  <2>2. CASE Complete(c)
    <3>1. q = [k EXCEPT !.pc = "settle"] \/ q = [k EXCEPT !.pc = "claim"]
          BY <2>2 DEF Complete, Excused
    <3>2. QED BY <2>1, <3>1 DEF PayPcs
  <2>3. CASE Settle(c)
    <3>1. q = [k EXCEPT !.pc = "claim"]
          BY <2>3 DEF Settle, Excused
    <3>2. QED BY <2>1, <3>1 DEF PayPcs
  <2>4. CASE Claim(c) \/ SendThanks(c) \/ Release(c)
    <3>1. \/ q = NoCall \/ q = [k EXCEPT !.chans = Others(k), !.pc = "claim"]
          \/ q = [k EXCEPT !.pc = "send"] \/ q = [k EXCEPT !.pc = "release"]
          BY <1>1, <2>4 DEF Claim, SendThanks, Release, NextClaim, End, Goto, Set, Excused
    <3>2. QED BY <2>1, <3>1 DEF PayPcs
  <2>5. QED BY <2>2, <2>3, <2>4
<1>4. donation'[k.d].status = "completed"
  <2>1. CASE Complete(c)
    <3>1. donation' = [donation EXCEPT ![k.d].status = "completed"] /\ donation \in Seq(Donation)
          BY <2>1 DEF Complete, Placed, TypeOK
    <3>2. QED BY <1>2, <3>1 DEF Donation
  <2>2. CASE Settle(c) \/ Claim(c) \/ SendThanks(c) \/ Release(c)
    <3>1. k.pc \in PayPcs \ {"complete"}
          BY <1>1, <2>2 DEF Settle, Claim, SendThanks, Release
    <3>2. donation[k.d].status = "completed"
          BY <3>1 DEF Noting
    <3>3. QED BY <1>2, <3>2 DEF Grows
  <2>3. QED BY <2>1, <2>2
<1>5. CASE q = NoCall
      BY <1>5, NoCallNotes
<1>6. CASE q # NoCall
  <2>1. /\ q.rows = k.rows /\ q.given = k.given /\ q.key = k.key /\ q.due = k.due
        /\ q.marks = k.marks /\ q.thanked = k.thanked /\ q.d = k.d /\ q.pc \in PayPcs
        BY <1>2, <1>3, <1>6 DEF Call
  <2>2. QED BY <1>4, <2>1, MoveNotes DEF PayPcs
<1>7. QED BY <1>5, <1>6

LEMMA OtherNotes ==
    ASSUME Placed, Notes, Grows, NEW c \in Calls,
           Today(c) \/ Archive(c) \/ CreatePledge(c) \/ Load(c) \/ Save(c) \/ Count(c) \/ FlagDonor(c),
           Noting(call[c]), NEW q, q = call'[c]
    PROVE  Noting(q)'
<1> DEFINE k == call[c]
<1>1. k \in Call /\ call \in [Calls -> Call]
      BY DEF Placed, TypeOK
<1>2. CASE Today(c) \/ Archive(c)
  <2>1. k.pc \in {"today", "archive"}
        BY <1>2 DEF Today, Archive
  <2>2. q = NoCall \/ \E ids, pc : q = [k EXCEPT !.ids = ids, !.pc = pc] /\ pc \in {"archive"}
    <3>1. CASE Today(c)
          BY <1>1, <3>1 DEF Today, End, Set
    <3>2. CASE Archive(c)
      <4>1. k.pc = "archive" /\ (q = NoCall \/ \E d : q = [k EXCEPT !.ids = @ \ {d}])
            BY <3>2 DEF Archive, Excused
      <4>2. \A d : [k EXCEPT !.ids = @ \ {d}] = [k EXCEPT !.ids = k.ids \ {d}, !.pc = k.pc]
            BY <1>1 DEF Call
      <4>3. QED BY <4>1, <4>2
    <3>3. QED BY <1>2, <3>1, <3>2
  <2>3. CASE q = NoCall
        BY <2>3, NoCallNotes
  <2>4. CASE q # NoCall
    <3>1. /\ q.rows = k.rows /\ q.given = k.given /\ q.key = k.key /\ q.due = k.due
          /\ q.marks = k.marks /\ q.thanked = k.thanked /\ q.pc = "archive"
          BY <1>1, <2>2, <2>4 DEF Call
    <3>2. QED BY <3>1, MoveNotes DEF PayPcs
  <2>5. QED BY <2>3, <2>4
<1>3. CASE CreatePledge(c) \/ Count(c) \/ Save(c) \/ FlagDonor(c)
  <2>1. q = NoCall \/ \E ok, pc : q = [k EXCEPT !.ok = ok, !.pc = pc] /\ pc \in {"recurring", "count"}
    <3>1. CASE CreatePledge(c) \/ Count(c) \/ FlagDonor(c)
          BY <1>1, <3>1 DEF CreatePledge, Count, FlagDonor, End, Set
    <3>2. CASE Save(c)
      <4>1. q = [k EXCEPT !.pc = "count"]
            BY <3>2 DEF Save, Excused
      <4>2. [k EXCEPT !.pc = "count"] = [k EXCEPT !.ok = k.ok, !.pc = "count"]
            BY <1>1 DEF Call
      <4>3. QED BY <4>1, <4>2
    <3>3. QED BY <1>3, <3>1, <3>2
  <2>2. CASE q = NoCall
        BY <2>2, NoCallNotes
  <2>3. CASE q # NoCall
    <3>1. /\ q.rows = k.rows /\ q.given = k.given /\ q.key = k.key /\ q.due = k.due
          /\ q.marks = k.marks /\ q.thanked = k.thanked /\ q.pc \in {"recurring", "count"}
          BY <1>1, <2>1, <2>3 DEF Call
    <3>2. QED BY <3>1, MoveNotes DEF PayPcs
  <2>4. QED BY <2>2, <2>3
<1>4. CASE Load(c)
  <2>1. k.p \in Pledges
        BY <1>4, StaffIs DEF Load
  <2> DEFINE R == [y \in {k.p} |-> pledge[k.p]]
  <2>2. q = NoCall \/ q = [k EXCEPT !.rows = R, !.pc = "save"]
        BY <1>1, <1>4 DEF Load, End, Set
  <2>3. CASE q = NoCall
        BY <2>3, NoCallNotes
  <2>4. CASE q # NoCall
    <3>1. PICK x, e, p : x = k /\ e = pledge[k.p] /\ p = k.p
          OBVIOUS
    <3>2. Noting(x)'
          BY <3>1, NotingStays
    <3>3. RowOK(p, e)'
      <4>1. RowOK(p, e)
            BY <2>1, <3>1 DEF Notes
      <4>2. QED BY <4>1, RowStays
    <3>4. R = [y \in {p} |-> e]
          BY <3>1
    <3> HIDE DEF R
    <3>5. /\ q.rows = R /\ q.given = x.given /\ q.key = x.key /\ q.due = x.due
          /\ q.marks = x.marks /\ q.thanked = x.thanked /\ q.pc = "save"
          BY <1>1, <2>2, <2>4, <3>1 DEF Call
    <3>6. QED BY <3>2, <3>3, <3>4, <3>5 DEF Noting, PayPcs
  <2>5. QED BY <2>3, <2>4
<1>5. QED BY <1>2, <1>3, <1>4

LEMMA StartNotes ==
    ASSUME Placed, NEW c \in Calls, Job(c) \/ Pay(c) \/ Cleanup(c) \/ Change(c) \/ Crash(c),
           NEW q, q = call'[c]
    PROVE  Noting(q)'
<1>1. call \in [Calls -> Call]
      BY DEF Placed, TypeOK
<1>2. ASSUME NEW k, k.marks = NoCall.marks, k.thanked = NoCall.thanked, k.given = NoCall.given,
             k.rows = NoCall.rows, k.key = NoCall.key,
             k.pc \notin {"thank", "flag", "subMark"} \union (PayPcs \ {"complete"})
      PROVE  Noting(k)'
  <2>1. k.marks = {} /\ k.thanked = {} /\ k.given = {} /\ DOMAIN k.rows = {} /\ k.key = NoKey
        BY <1>2 DEF NoCall
  <2>2. QED BY <1>2, <2>1, NewNotes
<1>3. NoCall \in Call
      BY NoCallOK
<1>4. CASE Job(c)
  <2>1. PICK force \in BOOLEAN, n \in ChunkSizes :
           Begin(c, [NoCall EXCEPT !.op = "job", !.pc = "chunk", !.force = force, !.size = n,
                                   !.todo = DueOn(day), !.due = Owed])
        BY <1>4 DEF Job
  <2>2. q = [NoCall EXCEPT !.op = "job", !.pc = "chunk", !.force = force, !.size = n,
                           !.todo = DueOn(day), !.due = Owed]
        BY <1>1, <2>1 DEF Begin, Set
  <2>3. q.marks = NoCall.marks /\ q.thanked = NoCall.thanked /\ q.given = NoCall.given
        /\ q.rows = NoCall.rows /\ q.key = NoCall.key /\ q.pc = "chunk"
        BY <1>3, <2>2 DEF Call
  <2>4. QED BY <1>2, <2>3 DEF PayPcs
<1>5. CASE Pay(c)
  <2>1. PICK d : q = [NoCall EXCEPT !.op = "pay", !.pc = "complete", !.d = d, !.chans = Channel]
        BY <1>1, <1>5 DEF Pay, Begin, Set
  <2>2. q.marks = NoCall.marks /\ q.thanked = NoCall.thanked /\ q.given = NoCall.given
        /\ q.rows = NoCall.rows /\ q.key = NoCall.key /\ q.pc = "complete"
        BY <1>3, <2>1 DEF Call
  <2>3. QED BY <1>2, <2>2 DEF PayPcs
<1>6. CASE Cleanup(c)
  <2>1. q = [NoCall EXCEPT !.op = "cleanup", !.pc = "today"]
        BY <1>1, <1>6 DEF Cleanup, Begin, Set
  <2>2. q.marks = NoCall.marks /\ q.thanked = NoCall.thanked /\ q.given = NoCall.given
        /\ q.rows = NoCall.rows /\ q.key = NoCall.key /\ q.pc = "today"
        BY <1>3, <2>1 DEF Call
  <2>3. QED BY <1>2, <2>2 DEF PayPcs
<1>7. CASE Change(c)
  <2>1. PICK p \in Pledges :
           \/ \E w \in Changes :
                 Begin(c, [NoCall EXCEPT !.op = "update", !.pc = "load", !.p = p, !.want = w])
           \/ Begin(c, [NoCall EXCEPT !.op = "remove", !.pc = "load", !.p = p, !.want = "removed"])
           \/ Begin(c, [NoCall EXCEPT !.op = "create", !.pc = "create", !.p = p])
        BY <1>7, Zenon DEF Change
  <2>2. ASSUME NEW k, Begin(c, k) PROVE q = k
        BY <1>1, <2>2 DEF Begin, Set
  <2>3. \/ \E w : q = [NoCall EXCEPT !.op = "update", !.pc = "load", !.p = p, !.want = w]
        \/ q = [NoCall EXCEPT !.op = "remove", !.pc = "load", !.p = p, !.want = "removed"]
        \/ q = [NoCall EXCEPT !.op = "create", !.pc = "create", !.p = p]
        BY <2>1, <2>2
  <2>4. q.marks = NoCall.marks /\ q.thanked = NoCall.thanked /\ q.given = NoCall.given
        /\ q.rows = NoCall.rows /\ q.key = NoCall.key /\ q.pc \in {"load", "create"}
        BY <1>3, <2>3 DEF Call
  <2>5. QED BY <1>2, <2>4 DEF PayPcs
<1>8. CASE Crash(c)
  <2>1. q = NoCall
        BY <1>1, <1>8 DEF Crash, End, Set
  <2>2. QED BY <2>1, NoCallNotes
<1>9. QED BY <1>4, <1>5, <1>6, <1>7, <1>8

\* The handler that takes a step knows what it goes by.
LEMMA HandlerNotes ==
    ASSUME Placed, Notes, Grows, NEW c \in Calls, Noting(call[c]), Owing(call[c]),
           Job(c) \/ Pay(c) \/ Cleanup(c) \/ Change(c) \/ RunStep(c) \/ OtherStep(c) \/ Crash(c),
           NEW q, q = call'[c]
    PROVE  Noting(q)'
<1>1. CASE Job(c) \/ Pay(c) \/ Cleanup(c) \/ Change(c) \/ Crash(c)
      BY <1>1, StartNotes
<1>2. CASE RunStep(c)
  <2>1. CASE Chunk(c)
        BY <2>1, ChunkNotes
  <2>2. CASE Lookup(c)
        BY <2>2, LookupNotes
  <2>3. CASE FindPaid(c)
        BY <2>3, FindPaidNotes
  <2>4. CASE Thank(c) \/ Template(c) \/ Remind(c) \/ Flag(c)
        BY <2>4, TriesNotes
  <2>5. CASE FindOpen(c) \/ InsertLink(c) \/ SubLink(c)
        BY <2>5, OpenNotes
  <2>6. CASE Mark(c)
        BY <2>6, MarkNotes
  <2>7. CASE SubRead(c) \/ SubInitial(c) \/ SubSettled(c) \/ SubDonated(c) \/ SubRemind(c) \/ SubMark(c)
        BY <2>7, SubRunNotes
  <2>8. QED BY <1>2, <2>1, <2>2, <2>3, <2>4, <2>5, <2>6, <2>7 DEF RunStep
<1>3. CASE OtherStep(c)
  <2>1. CASE Complete(c) \/ Settle(c) \/ Claim(c) \/ SendThanks(c) \/ Release(c)
        BY <2>1, PayNotes
  <2>2. CASE Today(c) \/ Archive(c) \/ CreatePledge(c) \/ Load(c) \/ Save(c) \/ Count(c) \/ FlagDonor(c)
        BY <2>2, OtherNotes
  <2>3. QED BY <1>3, <2>1, <2>2 DEF OtherStep
<1>4. QED BY <1>1, <1>2, <1>3

\* What the rows say was done was done: who writes them knows it, or read it there.
LEMMA MarkedRows ==
    ASSUME Placed, Notes, Grows, NEW c \in Calls, RunMarks(c), Noting(call[c]),
           NEW p \in Pledges, NEW e, e = pledge'[p]
    PROVE  RowOK(p, e)'
<1> DEFINE k == call[c]
<1>1. /\ k \in Call /\ CallOK(k) /\ k.op = "job" /\ k.pc = "mark"
      /\ pledge \in [Pledges -> Pledge] /\ day \in 1 .. Days
      BY DEF RunMarks, Placed, TypeOK
<1>2. ChunkOK(k) /\ DOMAIN k.rows \subseteq Pledges
      BY <1>1, RowsAreRows DEF CallOK, RunOK, InRun, RunPcs
<1>3. PICK x : x = pledge[p]
      OBVIOUS
<1>4. RowOK(p, x)' /\ x \in Pledge
  <2>1. RowOK(p, x) /\ x \in Pledge
        BY <1>1, <1>3 DEF Notes
  <2>2. QED BY <2>1, RowStays
<1>5. CASE e = x
      BY <1>4, <1>5
<1>6. CASE p \in k.marks /\ e = [x EXCEPT !.reminded = KeyOf(Head(k.todo), day)]
  <2>1. freq[p] = Head(k.todo)
        BY <1>2, <1>6 DEF ChunkOK
  <2>2. e.reminded = KeyFor(p, day) /\ e.thanked = x.thanked
        BY <1>4, <1>6, <2>1, PledgeFreq DEF Pledge, KeyToday
  <2>3. <<p, e.reminded>> \in tried'
        BY <1>6, <2>2 DEF Noting, TriedToday, Grows
  <2>4. QED BY <1>4, <2>2, <2>3 DEF RowOK
<1>7. CASE p \in k.thanked /\ e = [x EXCEPT !.thanked = PeriodOf(Head(k.todo), day)]
  <2>1. freq[p] = Head(k.todo)
        BY <1>2, <1>7 DEF ChunkOK
  <2>2. e.thanked = PeriodOf(freq[p], day) /\ e.reminded = x.reminded
        BY <1>4, <1>7, <2>1 DEF Pledge
  <2>3. PaidOf(p)' # {}
    <3>1. PaidOf(p) # {}
          BY <1>7 DEF Noting
    <3>2. QED BY <3>1, PaidStays
  <2>4. PICK d \in DOMAIN donation' : /\ donation'[d].for = p /\ donation'[d].status = "completed"
                                      /\ PeriodOf(freq[p], donation'[d].day) = PeriodOf(freq[p], day)
        BY <2>3 DEF PaidOf, PaidFor, PeriodOf, Grows
  <2>5. QED BY <1>4, <2>2, <2>4 DEF RowOK, PeriodOf, Grows
<1>8. e = x \/ (p \in k.marks /\ e = [x EXCEPT !.reminded = KeyOf(Head(k.todo), day)])
      \/ (p \in k.thanked /\ e = [x EXCEPT !.thanked = PeriodOf(Head(k.todo), day)])
      BY <1>1, <1>3 DEF RunMarks
<1>9. QED BY <1>5, <1>6, <1>7, <1>8

LEMMA SavedRows ==
    ASSUME Placed, Notes, Grows, NEW c \in Calls, CreatePledge(c) \/ Save(c), Noting(call[c]),
           NEW p \in Pledges, NEW e, e = pledge'[p]
    PROVE  RowOK(p, e)'
<1> DEFINE k == call[c]
<1>1. k \in Call /\ CallOK(k) /\ k.p \in Pledges /\ pledge \in [Pledges -> Pledge]
      BY StaffIs DEF CreatePledge, Save, Placed, TypeOK
<1>2. PICK x : x = pledge[p]
      OBVIOUS
<1>3. RowOK(p, x)' /\ x \in Pledge
  <2>1. RowOK(p, x) /\ x \in Pledge
        BY <1>1, <1>2 DEF Notes
  <2>2. QED BY <2>1, RowStays
<1>4. ASSUME NEW y, RowOK(p, y)', e.reminded = y.reminded, e.thanked = y.thanked PROVE RowOK(p, e)'
      BY <1>4 DEF RowOK
<1>5. CASE CreatePledge(c)
  <2>1. pledge' = pledge \/ pledge' = [pledge EXCEPT ![k.p].status = "active"]
        BY <1>5 DEF CreatePledge
  <2>2. e = x \/ e = [x EXCEPT !.status = "active"]
        BY <1>1, <1>2, <2>1
  <2>3. e.reminded = x.reminded /\ e.thanked = x.thanked
        BY <1>3, <2>2 DEF Pledge
  <2>4. QED BY <1>3, <1>4, <2>3
<1>6. CASE Save(c)
  <2>1. k.pc = "save" /\ k.p \in DOMAIN k.rows
        BY <1>1, <1>6 DEF Save, CallOK, OtherOK
  <2>2. PICK y : y = k.rows[k.p]
        OBVIOUS
  <2>3. y \in Pledge
        BY <1>1, <2>1, <2>2, RowsAreRows
  <2>4. pledge' = [pledge EXCEPT ![k.p] = IF k.want = "covered" THEN [y EXCEPT !.covered = TRUE]
                                                                ELSE [y EXCEPT !.status = k.want]]
        BY <1>6, <2>2 DEF Save
  <2>5. CASE p # k.p
    <3>1. e = x
          BY <1>1, <1>2, <2>4, <2>5
    <3>2. QED BY <1>3, <3>1
  <2>6. CASE p = k.p
    <3>1. e = [y EXCEPT !.covered = TRUE] \/ e = [y EXCEPT !.status = k.want]
          BY <1>1, <2>4, <2>6
    <3>2. e.reminded = y.reminded /\ e.thanked = y.thanked
          BY <2>3, <3>1 DEF Pledge
    <3>3. RowOK(p, y)'
      <4>1. RowOK(p, y)
            BY <2>1, <2>2, <2>6 DEF Noting
      <4>2. QED BY <4>1, RowStays
    <3>4. QED BY <1>4, <3>2, <3>3
  <2>7. QED BY <2>5, <2>6
<1>7. QED BY <1>5, <1>6

\* Who changes the pledges.
LEMMA PledgesStay ==
    ASSUME Placed, NEW c \in Calls,
           Job(c) \/ Pay(c) \/ Cleanup(c) \/ Change(c) \/ RunStep(c) \/ OtherStep(c) \/ Crash(c),
           ~Mark(c), ~CreatePledge(c), ~Save(c)
    PROVE  pledge' = pledge
<1>1. CASE Job(c) \/ Pay(c) \/ Cleanup(c) \/ Change(c) \/ Crash(c)
      BY <1>1, Zenon DEF Job, Pay, Cleanup, Change, Begin, Crash, rowVars
<1>2. CASE RunStep(c)
      BY <1>2, Zenon DEF RunStep, Chunk, Lookup, FindPaid, Thank, Flag, Template, FindOpen, InsertLink, Remind,
                  SubRead, SubInitial, SubSettled, SubDonated, SubLink, SubRemind, SubMark, rowVars
<1>3. CASE OtherStep(c)
      BY <1>3 DEF OtherStep, Complete, Settle, Claim, SendThanks, Release, Today, Archive,
                  Load, Count, FlagDonor, rowVars
<1>4. QED BY <1>1, <1>2, <1>3

\* Unpaid donations are not thanked for.
LEMMA SentStays ==
    ASSUME Placed, Notes, Grows, NEW c \in Calls, Does(c), Noting(call[c]),
           NEW d \in DOMAIN donation', Open(donation'[d].status)
    PROVE  donation'[d].sent = {}
<1>1. /\ donation \in Seq(Donation) /\ \A x \in DOMAIN donation : donation[x] \in Donation
      /\ call[c] \in Call /\ CallOK(call[c])
      BY DEF Placed, TypeOK
<1>2. \A x \in DOMAIN donation : donation[x].status = "completed" => ~Open(donation'[x].status)
      BY DEF Grows, Open
<1>3. CASE donation' = donation
      BY <1>3 DEF Notes
<1>4. ASSUME NEW x \in DOMAIN donation, donation[x].status = "completed",
             \A y \in DOMAIN donation \ {x} : donation'[y] = donation[y], DOMAIN donation' = DOMAIN donation
      PROVE  donation'[d].sent = {}
      BY <1>2, <1>4 DEF Notes
<1>5. ASSUME NEW t \in Targets, donation' = Append(donation, NewLink(t))
      PROVE  donation'[d].sent = {}
  <2>1. /\ DOMAIN donation' = DOMAIN donation \union {Len(donation) + 1}
        /\ \A x \in DOMAIN donation : donation'[x] = donation[x]
        /\ donation'[Len(donation) + 1] = NewLink(t)
        BY <1>5, LinkAppended
  <2>2. CASE d \in DOMAIN donation
        BY <2>1, <2>2 DEF Notes
  <2>3. CASE d = Len(donation) + 1
        BY <2>1, <2>3 DEF NewLink
  <2>4. QED BY <2>1, <2>2, <2>3
<1>6. CASE RunFlags(c)
  <2>1. call[c].d \in DOMAIN donation /\ donation[call[c].d].status = "completed"
        BY <1>1, <1>6 DEF RunFlags, CallOK, RunOK, ChunkOK, InRun, RunPcs, Working, Noting
  <2>2. QED BY <1>1, <1>4, <1>6, <2>1 DEF RunFlags
<1>7. CASE Claims(c) \/ Releases(c)
  <2>1. call[c].d \in DOMAIN donation /\ call[c].pc \in PayPcs \ {"complete"}
        BY <1>7, PayIs DEF Claims, Releases, PayPcs
  <2>2. donation[call[c].d].status = "completed"
        BY <2>1 DEF Noting
  <2>3. QED BY <1>1, <1>4, <1>7, <2>1, <2>2 DEF Claims, Releases
<1>8. CASE Completes(c)
  <2>1. call[c].d \in DOMAIN donation
        BY <1>8, PayIs DEF Completes, PayPcs
  <2>2. donation' = [donation EXCEPT ![call[c].d].status = "completed"]
        BY <1>8 DEF Completes
  <2>3. d \in DOMAIN donation /\ d # call[c].d
        BY <1>1, <2>1, <2>2 DEF Donation, Open
  <2>4. QED BY <2>2, <2>3 DEF Notes
<1>9. CASE Cleans(c)
  <2>1. ASSUME NEW x \in DOMAIN donation, donation' = [donation EXCEPT ![x].archived = TRUE]
        PROVE  donation'[d].sent = {}
    <3>1. d \in DOMAIN donation /\ donation'[d].sent = donation[d].sent
          /\ donation'[d].status = donation[d].status
          BY <1>1, <2>1 DEF Donation
    <3>2. QED BY <3>1 DEF Notes
  <2>2. QED BY <1>3, <1>9, <2>1 DEF Cleans
<1>10. CASE RunInserts(c)
  <2>1. call[c].p \in Targets
        BY <1>1, <1>10 DEF RunInserts, Call
  <2>2. QED BY <1>5, <1>10, <2>1 DEF RunInserts
<1>11. CASE SubInserts(c)
       BY <1>5, <1>11, SubRange DEF SubInserts
<1>12. CASE ~(RunFlags(c) \/ Claims(c) \/ Releases(c) \/ Completes(c) \/ Cleans(c) \/ RunInserts(c)
              \/ SubInserts(c))
  <2>1. CASE RunDoes(c)
        BY <1>12, <2>1, <1>3 DEF RunDoes, ReadsChunk, Looks, FindsPaid, RunThanks, RunTemplates, FindsOpen,
                           RunReminds, RunMarks
  <2>2. CASE SubDoes(c)
        BY <1>12, <2>2, <1>3 DEF SubDoes, SubReads, SubPasses, SubSends, SubNotes
  <2>3. CASE OtherDoes(c)
        BY <1>12, <2>3, <1>3 DEF OtherDoes, Settles, PaySends, Creates, Loads, Saves, Counts, FlagsDonor
  <2>4. CASE Starts(c) \/ Dies(c)
        BY <2>4, <1>3 DEF Starts, Dies
  <2>5. QED BY <2>1, <2>2, <2>3, <2>4 DEF Does
<1>13. QED BY <1>6, <1>7, <1>8, <1>9, <1>10, <1>11, <1>12

LEMMA NotesStay ==
    ASSUME Placed, Notes, Grows, NEW c \in Calls, Noting(call[c]), Does(c),
           Job(c) \/ Pay(c) \/ Cleanup(c) \/ Change(c) \/ RunStep(c) \/ OtherStep(c) \/ Crash(c)
    PROVE  Notes'
<1>1. ASSUME NEW p \in Pledges PROVE RowOK(p, pledge[p])'
  <2>1. PICK e : e = pledge'[p]
        OBVIOUS
  <2>2. RowOK(p, e)'
    <3>1. CASE Mark(c)
      <4>1. RunMarks(c)
            BY <3>1, MarkDoes
      <4>2. QED BY <2>1, <4>1, MarkedRows
    <3>2. CASE CreatePledge(c) \/ Save(c)
          BY <2>1, <3>2, SavedRows
    <3>3. CASE ~Mark(c) /\ ~CreatePledge(c) /\ ~Save(c)
      <4>1. e = pledge[p]
            BY <2>1, <3>3, PledgesStay
      <4>2. RowOK(p, e)
            BY <4>1 DEF Notes
      <4>3. QED BY <4>2, RowStays
    <3>4. QED BY <3>1, <3>2, <3>3
  <2>3. QED BY <2>1, <2>2
<1>2. SubNoted(mark)'
  <2>1. PICK m : m = mark'
        OBVIOUS
  <2>2. CASE m = mark
    <3>1. SubNoted(m)
          BY <2>2 DEF Notes
    <3>2. SubNoted(m)'
          BY <3>1 DEF SubNoted, Grows
    <3>3. QED BY <2>1, <3>2
  <2>3. CASE SubNotes(c)
    <3>1. m = SubKey(day) /\ TriedToday(Sub)
          BY <2>1, <2>3 DEF SubNotes, Noting
    <3>2. <<Sub, m>> \in tried'
          BY <3>1 DEF TriedToday, KeyFor, Grows
    <3>3. SubNoted(m)'
          BY <3>2 DEF SubNoted
    <3>4. QED BY <2>1, <3>3
  <2>4. CASE RunDoes(c)
        BY <2>1, <2>2, <2>4 DEF RunDoes, ReadsChunk, Looks, FindsPaid, RunThanks, RunFlags, RunTemplates,
                          FindsOpen, RunInserts, RunReminds, RunMarks, ledgerVars
  <2>5. CASE SubDoes(c)
        BY <2>1, <2>2, <2>3, <2>5 DEF SubDoes, SubReads, SubPasses, SubInserts, SubSends, ledgerVars
  <2>6. CASE OtherDoes(c)
        BY <2>1, <2>2, <2>6 DEF OtherDoes, Completes, Settles, Claims, PaySends, Releases, Cleans,
                          Creates, Loads, Saves, Counts, FlagsDonor, ledgerVars
  <2>7. CASE Starts(c) \/ Dies(c)
        BY <2>1, <2>2, <2>7 DEF Starts, Dies, ledgerVars
  <2>8. QED BY <2>4, <2>5, <2>6, <2>7 DEF Does
<1>3. \A d \in DOMAIN donation' : Open(donation'[d].status) => donation'[d].sent = {}
      BY SentStays
<1>4. Initial \in DOMAIN donation'
      BY DEF Notes, Grows, DonationsStay
<1>5. QED BY <1>1, <1>2, <1>3, <1>4 DEF Notes

\* What is owed for a pledge is still owed if its row and its paid donations are what they
\* were, but for donations nobody was thanked for.
LEMMA PledgeStillOwed ==
    ASSUME Placed, Notes, Grows, NEW t \in Pledges, t \in Owed,
           pledge'[t].status = pledge[t].status, pledge'[t].covered = pledge[t].covered,
           pledge'[t].thanked = pledge[t].thanked,
           \A d \in PaidOf(t)' : \/ d \in PaidOf(t) /\ donation'[d].sent \subseteq donation[d].sent
                                 \/ donation'[d].sent = {}
    PROVE  t \in Owed'
<1> DEFINE new == PaidOf(t)'
           m   == Max(new)
<1>1. OwedPledge(t)
      BY OwedIs
<1>2. PaidOf(t) \subseteq new
      BY PaidStays
<1>3. DueOn(day)' = DueOn(day) /\ PeriodOf(freq[t], day)' = PeriodOf(freq[t], day) /\ freq'[t] = freq[t]
      BY DEF Grows, DueOn, PeriodOf
<1>4. new # {} => pledge[t].thanked # PeriodOf(freq[t], day)
  <2>1. CASE PaidOf(t) # {}
        BY <1>1, <2>1 DEF OwedPledge, ThankLeft
  <2>2. CASE PaidOf(t) = {} /\ pledge[t].thanked = PeriodOf(freq[t], day)
    <3>1. pledge[t].thanked # 0
          BY <2>2, PledgeFreq, PeriodIsSome
    <3>2. PICK d \in DOMAIN donation :
              /\ donation[d].for = t /\ donation[d].status = "completed"
              /\ PeriodOf(freq[t], donation[d].day) = pledge[t].thanked
          BY <3>1 DEF Notes, RowOK
    <3>3. d \in PaidOf(t)
          BY <2>2, <3>2 DEF PaidOf, PaidFor
    <3>4. QED BY <2>2, <3>3
  <2>3. QED BY <2>1, <2>2
<1>5. new # {} => t \in OwnTemplates \/ Channel \ donation'[m].sent # {}
  <2>1. SUFFICES ASSUME new # {}, t \notin OwnTemplates PROVE Channel \ donation'[m].sent # {}
        OBVIOUS
  <2>2. /\ donation' \in Seq(Donation) /\ DOMAIN donation' = 1 .. Len(donation')
        /\ Len(donation') \in Nat /\ new \subseteq DOMAIN donation'
        BY DEF Grows, DonationsStay, PaidOf, PaidFor
  <2>3. m \in new /\ \A y \in new : y <= m
        BY <2>1, <2>2, MaxIsGreatest
  <2> HIDE DEF m, new
  <2>4. CASE donation'[m].sent = {}
        BY <2>4, SomeChannel
  <2>5. CASE m \in PaidOf(t) /\ donation'[m].sent \subseteq donation[m].sent
    <3>1. /\ donation \in Seq(Donation) /\ DOMAIN donation = 1 .. Len(donation)
          /\ Len(donation) \in Nat /\ PaidOf(t) \subseteq DOMAIN donation
          BY DEF Placed, TypeOK, PaidOf, PaidFor
    <3> DEFINE o == Max(PaidOf(t))
    <3>2. o \in PaidOf(t) /\ \A y \in PaidOf(t) : y <= o
          BY <2>5, <3>1, MaxIsGreatest
    <3> HIDE DEF o
    <3>3. m <= o /\ o <= m /\ m \in Nat /\ o \in Nat
          BY <1>2, <2>3, <2>5, <3>1, <3>2
    <3>4. m = o
          BY <3>3
    <3>5. Channel \ donation[o].sent # {}
          BY <1>1, <2>1, <2>5 DEF OwedPledge, ThankLeft, o
    <3>6. QED BY <2>5, <3>4, <3>5
  <2>6. QED BY <2>3, <2>4, <2>5 DEF new
<1>6. new = {} => ~(freq[t] = "monthly" /\ pledge[t].covered)
      BY <1>1, <1>2 DEF OwedPledge
<1>7. OwedPledge(t)'
  <2>1. new # {} => ThankLeft(t)'
        BY <1>3, <1>4, <1>5 DEF ThankLeft
  <2>2. pledge'[t].status = "active" /\ \E i \in DOMAIN DueOn(day)' : DueOn(day)'[i] = freq'[t]
        BY <1>1, <1>3 DEF OwedPledge
  <2>3. QED BY <1>3, <1>6, <2>1, <2>2 DEF OwedPledge
<1>8. QED BY <1>7, OwedIsNext

\* And the subscription's message, unless something is paid or it is no longer open.
LEMMA SubStillOwed ==
    ASSUME Notes, Grows, Sub \in Owed, donation'[Initial].archived = donation[Initial].archived,
           \A d \in DOMAIN donation' :
              donation'[d].status = "completed" /\ ~donation'[d].archived =>
                 d \in DOMAIN donation /\ donation[d].status = "completed" /\ ~donation[d].archived,
           SubKey(day).period \notin settled'
    PROVE  Sub \in Owed'
<1>1. OwedSub
      BY OwedIs
<1>2. SubKey(day)' = SubKey(day) /\ day' = day
      BY DEF Grows, SubKey
<1>3. SubOpen'
      BY <1>1 DEF OwedSub, SubOpen, Notes, Grows
<1>4. PaidIn(SubKey(day).period)' = {}
  <2>1. PICK m : m = SubKey(day).period
        OBVIOUS
  <2>2. PaidIn(m)' \subseteq PaidIn(m)
        BY DEF PaidIn, Grows
  <2>3. PaidIn(m) = {}
        BY <1>1, <2>1 DEF OwedSub
  <2>4. SubKey(day)'.period = m
        BY <1>2, <2>1
  <2>5. QED BY <2>2, <2>3, <2>4 DEF PaidIn
<1>5. OwedSub'
      BY <1>1, <1>2, <1>3, <1>4 DEF OwedSub
<1>6. QED BY <1>5, OwedIsNext

\* A handler that changes none of it leaves everything owed.
LEMMA AllStillOwed ==
    ASSUME Placed, Notes, Grows, NEW t \in Owed,
           pledge' = pledge, settled' = settled, donation' = donation
    PROVE  t \in Owed'
<1>1. CASE t = Sub
  <2>1. SubKey(day).period \notin settled'
        BY <1>1, OwedIs DEF OwedSub
  <2>2. QED BY <1>1, <2>1, SubStillOwed
<1>2. CASE t # Sub
  <2>1. t \in Pledges
        BY <1>2 DEF Owed
  <2>2. PaidOf(t)' = PaidOf(t)
        BY DEF PaidOf, PaidFor, PeriodOf, Grows
  <2>3. QED BY <2>1, <2>2, PledgeStillOwed
<1>3. QED BY <1>1, <1>2

\* A pledge's paid donations over a step that changes no donation's state.
LEMMA DonationsStillOwed ==
    ASSUME Placed, Notes, Grows, NEW t \in Owed, pledge' = pledge, settled' = settled,
           \A d \in DOMAIN donation' :
              donation'[d].status = "completed" =>
                 /\ d \in DOMAIN donation /\ donation[d].status = "completed"
                 /\ donation[d].archived => donation'[d].archived
                 /\ donation[d].for = t => donation'[d].sent \subseteq donation[d].sent,
           t = Sub => donation'[Initial].archived = donation[Initial].archived
    PROVE  t \in Owed'
<1>1. CASE t = Sub
  <2>1. SubKey(day).period \notin settled'
        BY <1>1, OwedIs DEF OwedSub
  <2>2. QED BY <1>1, <2>1, SubStillOwed
<1>2. CASE t # Sub
  <2>1. t \in Pledges
        BY <1>2 DEF Owed
  <2>2. ASSUME NEW d \in PaidOf(t)'
        PROVE  d \in PaidOf(t) /\ donation'[d].sent \subseteq donation[d].sent
    <3>1. d \in DOMAIN donation' /\ donation'[d].status = "completed" /\ donation'[d].for = t
          /\ PeriodOf(freq[t], day)' = PeriodOf(freq'[t], donation'[d].day)
          BY <2>2 DEF PaidOf, PaidFor, PeriodOf, Grows
    <3>2. d \in DOMAIN donation /\ donation[d].status = "completed" /\ donation[d].for = t
          /\ donation'[d].day = donation[d].day
          BY <3>1 DEF Grows, DonationsStay
    <3>3. PeriodOf(freq[t], day) = PeriodOf(freq[t], donation[d].day)
          BY <3>1, <3>2 DEF PeriodOf, Grows
    <3>4. QED BY <3>1, <3>2, <3>3 DEF PaidOf, PaidFor
  <2>3. QED BY <2>1, <2>2, PledgeStillOwed
<1>3. QED BY <1>1, <1>2

\* Whom others are excused from.
LEMMA ExcusedDue ==
    ASSUME Placed, NEW c \in Calls, NEW k, NEW ts, Excused(c, k, ts), NEW x \in Calls \ {c}
    PROVE  call'[x].due = call[x].due \ ts
<1>1. call'[x] = [call[x] EXCEPT !.due = @ \ ts] /\ call[x] \in Call
      BY DEF Excused, Placed, TypeOK
<1>2. QED BY <1>1 DEF Call

LEMMA LinkOwed ==
    ASSUME Placed, Notes, Grows, NEW c \in Calls, InsertLink(c), NEW t \in Owed
    PROVE  t \in Owed'
<1>1. PICK r \in Targets : r = call[c].p
      BY DEF Placed, TypeOK, Call
<1>2. donation' = Append(donation, NewLink(r)) /\ pledge' = pledge /\ settled' = settled
      BY <1>1 DEF InsertLink, NewLink, rowVars, ledgerVars
<1>3. /\ DOMAIN donation' = DOMAIN donation \union {Len(donation) + 1}
      /\ \A x \in DOMAIN donation : donation'[x] = donation[x]
      /\ donation'[Len(donation) + 1] = NewLink(r)
      BY <1>2, LinkAppended
<1>4. NewLink(r).status # "completed"
      BY DEF NewLink
<1>5. donation'[Initial].archived = donation[Initial].archived
      BY <1>3 DEF Notes
<1>6. \A d \in DOMAIN donation' : donation'[d].status = "completed" => d \in DOMAIN donation
      BY <1>3, <1>4
<1>7. QED BY <1>2, <1>3, <1>5, <1>6, DonationsStillOwed

\* The flags of one donation change: of another pledge's, or they are taken back.
LEMMA SentOwed ==
    ASSUME Placed, Notes, Grows, NEW t \in Owed, pledge' = pledge, settled' = settled,
           NEW e \in DOMAIN donation, NEW S, donation' = [donation EXCEPT ![e].sent = S],
           t # donation[e].for \/ S \subseteq donation[e].sent
    PROVE  t \in Owed'
<1>1. \A d \in DOMAIN donation : donation[d] \in Donation
      BY DEF Placed, TypeOK
<1>2. /\ DOMAIN donation' = DOMAIN donation
      /\ \A d \in DOMAIN donation : /\ donation'[d].status = donation[d].status
                                    /\ donation'[d].archived = donation[d].archived
                                    /\ donation'[d].sent = IF d = e THEN S ELSE donation[d].sent
      BY <1>1 DEF Donation
<1>3. Initial \in DOMAIN donation
      BY DEF Notes
<1>4. \A d \in DOMAIN donation : donation[d].for = t => donation'[d].sent \subseteq donation[d].sent
      BY <1>2
<1>5. QED BY <1>2, <1>3, <1>4, DonationsStillOwed

LEMMA FlagOwed ==
    ASSUME Placed, Notes, Grows, NEW c \in Calls, Flag(c), Noting(call[c]), NEW t \in Owed,
           ~TriedToday(t)
    PROVE  t \in Owed'
<1>1. call[c].pc \in Working /\ call[c].pc = "flag"
      BY DEF Flag, Working
<1>2. call[c].d \in DOMAIN donation /\ donation[call[c].d].for = call[c].p
      BY <1>1, AtWork DEF ChunkOK
<1>3. t # call[c].p
      BY <1>1 DEF Noting
<1>4. PICK S : donation' = [donation EXCEPT ![call[c].d].sent = S]
      BY DEF Flag
<1>5. pledge' = pledge /\ settled' = settled
      BY DEF Flag, rowVars, ledgerVars
<1>6. QED BY <1>2, <1>3, <1>4, <1>5, SentOwed

\* A run marks those it tried.
LEMMA MarkOwed ==
    ASSUME Placed, Notes, Grows, NEW c \in Calls, Mark(c), Noting(call[c]), NEW t \in Owed,
           ~TriedToday(t), t \in call[c].due \/ \E x \in Calls \ {c} : t \in call'[x].due
    PROVE  t \in Owed'
<1> DEFINE k == call[c]
           p == Min(IF k.marks # {} THEN k.marks ELSE k.thanked)
<1>1. /\ k \in Call /\ CallOK(k) /\ k.op = "job" /\ k.pc = "mark" /\ pledge \in [Pledges -> Pledge]
      BY MarkDoes DEF RunMarks, Placed, TypeOK
<1>2. ChunkOK(k) /\ DOMAIN k.rows \subseteq Pledges
      BY <1>1, RowsAreRows DEF CallOK, RunOK, InRun, RunPcs
<1>3. (IF k.marks # {} THEN k.marks ELSE k.thanked) # {}
      /\ (IF k.marks # {} THEN k.marks ELSE k.thanked) \subseteq Nat
      BY <1>1, <1>2 DEF ChunkOK, Pledges
<1>4. p \in (IF k.marks # {} THEN k.marks ELSE k.thanked)
      BY <1>3, MinIsLeast
<1>5. settled' = settled /\ donation' = donation
      BY DEF Mark, ledgerVars
<1>6. CASE ~Fits(Head(k.todo))
      BY <1>5, <1>6, AllStillOwed DEF Mark
<1>7. CASE Fits(Head(k.todo)) /\ t = Sub
  <2>1. SubKey(day).period \notin settled'
        BY <1>5, <1>7, OwedIs DEF OwedSub
  <2>2. QED BY <1>5, <1>7, <2>1, SubStillOwed
<1>8. CASE Fits(Head(k.todo)) /\ t # Sub
  <2>1. t \in Pledges
        BY <1>8 DEF Owed
  <2>2. p \in Pledges
        BY <1>2, <1>4 DEF ChunkOK
  <2>3. PICK r : Excused(c, r, IF k.marks # {} THEN {} ELSE {p})
        BY <1>8 DEF Mark
  <2>4. pledge' = IF k.marks # {} THEN [pledge EXCEPT ![p].reminded = KeyOf(Head(k.todo), day)]
                                  ELSE [pledge EXCEPT ![p].thanked = PeriodOf(Head(k.todo), day)]
        BY <1>8 DEF Mark
  <2> HIDE DEF p
  <2>5. CASE k.marks # {}
    <3>1. pledge'[t] = IF t = p THEN [pledge[t] EXCEPT !.reminded = KeyOf(Head(k.todo), day)] ELSE pledge[t]
          BY <1>1, <2>1, <2>4, <2>5
    <3>2. /\ pledge'[t].status = pledge[t].status /\ pledge'[t].covered = pledge[t].covered
          /\ pledge'[t].thanked = pledge[t].thanked
          BY <1>1, <2>1, <3>1 DEF Pledge
    <3>3. PaidOf(t)' = PaidOf(t)
          BY <1>5 DEF PaidOf, PaidFor, PeriodOf, Grows
    <3>4. QED BY <1>5, <2>1, <3>2, <3>3, PledgeStillOwed
  <2>6. CASE k.marks = {}
    <3>1. t # p
      <4>1. CASE t \in call[c].due
            BY <1>4, <2>6, <4>1 DEF Noting, p
      <4>2. CASE \E x \in Calls \ {c} : t \in call'[x].due
            BY <2>3, <2>6, <4>2, ExcusedDue
      <4>3. QED BY <4>1, <4>2
    <3>2. pledge'[t] = pledge[t]
          BY <1>1, <2>1, <2>4, <2>6, <3>1
    <3>3. PaidOf(t)' = PaidOf(t)
          BY <1>5 DEF PaidOf, PaidFor, PeriodOf, Grows
    <3>4. QED BY <1>5, <2>1, <3>2, <3>3, PledgeStillOwed
  <2>7. QED BY <2>5, <2>6
<1>9. QED BY <1>6, <1>7, <1>8

LEMMA RunOwed ==
    ASSUME Placed, Notes, Grows, NEW c \in Calls, RunStep(c), Noting(call[c]), NEW t \in Owed,
           ~TriedToday(t), t \in call[c].due \/ \E x \in Calls \ {c} : t \in call'[x].due
    PROVE  t \in Owed'
<1>1. CASE InsertLink(c)
      BY <1>1, LinkOwed
<1>2. CASE Flag(c)
      BY <1>2, FlagOwed
<1>3. CASE Mark(c)
      BY <1>3, MarkOwed
<1>4. CASE ~InsertLink(c) /\ ~Flag(c) /\ ~Mark(c)
  <2>1. pledge' = pledge /\ settled' = settled /\ donation' = donation
        BY <1>4, Zenon DEF RunStep, Chunk, Lookup, FindPaid, Thank, Template, FindOpen, Remind,
                  SubRead, SubInitial, SubSettled, SubDonated, SubLink, SubRemind, SubMark, rowVars, ledgerVars
  <2>2. QED BY <2>1, AllStillOwed
<1>5. QED BY <1>1, <1>2, <1>3, <1>4

\* A payment excuses the subscription, and a pledge it is about to thank for.
LEMMA CompleteOwed ==
    ASSUME Placed, Notes, Grows, NEW c \in Calls, Complete(c), NEW t \in Owed,
           NEW x \in Calls \ {c}, t \in call'[x].due
    PROVE  t \in Owed'
<1>1. PICK e \in DOMAIN donation : e = call[c].d
  <2>1. call[c].pc \in PayPcs
        BY DEF Complete, PayPcs
  <2>2. QED BY <2>1, PayIs
<1>2. donation' = [donation EXCEPT ![e].status = "completed"] /\ pledge' = pledge
      BY <1>1 DEF Complete, rowVars
<1>3. PICK r : Excused(c, r, {Sub})
      BY DEF Complete
<1>4. t # Sub
      BY <1>3, ExcusedDue
<1>5. t \in Pledges
      BY <1>4 DEF Owed
<1>6. \A d \in DOMAIN donation : donation[d] \in Donation
      BY DEF Placed, TypeOK
<1>7. /\ DOMAIN donation' = DOMAIN donation
      /\ \A d \in DOMAIN donation : /\ donation'[d].for = donation[d].for
                                    /\ donation'[d].day = donation[d].day
                                    /\ donation'[d].sent = donation[d].sent
                                    /\ d # e => donation'[d].status = donation[d].status
      BY <1>2, <1>6 DEF Donation
<1>8. \A d \in DOMAIN donation : donation[d].status = "completed" \/ donation[d].sent = {}
      BY <1>6 DEF Notes, Open, Donation
<1>9. \A d \in PaidOf(t)' : \/ d \in PaidOf(t) /\ donation'[d].sent \subseteq donation[d].sent
                            \/ donation'[d].sent = {}
      BY <1>7, <1>8 DEF PaidOf, PaidFor, PeriodOf, Grows
<1>10. QED BY <1>2, <1>5, <1>9, PledgeStillOwed

LEMMA SettleOwed ==
    ASSUME Placed, Notes, Grows, NEW c \in Calls, Settle(c), NEW t \in Owed,
           NEW x \in Calls \ {c}, t \in call'[x].due
    PROVE  t \in Owed'
<1>1. pledge' = pledge /\ donation' = donation
      BY DEF Settle, rowVars
<1>2. CASE t = Sub
  <2>1. PICK r : Excused(c, r, {s \in {Sub} : SubKey(day).period \in settled'})
        BY DEF Settle
  <2>2. Sub \notin {s \in {Sub} : SubKey(day).period \in settled'}
        BY <1>2, <2>1, ExcusedDue
  <2>3. SubKey(day).period \notin settled'
        BY <2>2
  <2>4. QED BY <1>1, <1>2, <2>3, SubStillOwed
<1>3. CASE t # Sub
  <2>1. t \in Pledges
        BY <1>3 DEF Owed
  <2>2. PaidOf(t)' = PaidOf(t)
        BY <1>1 DEF PaidOf, PaidFor, PeriodOf, Grows
  <2>3. QED BY <1>1, <2>1, <2>2, PledgeStillOwed
<1>4. QED BY <1>2, <1>3

LEMMA ClaimOwed ==
    ASSUME Placed, Notes, Grows, NEW c \in Calls, Claim(c) \/ Release(c), NEW t \in Owed,
           NEW x \in Calls \ {c}, t \in call'[x].due
    PROVE  t \in Owed'
<1>1. PICK e \in DOMAIN donation : e = call[c].d
  <2>1. call[c].pc \in PayPcs
        BY DEF Claim, Release, PayPcs
  <2>2. QED BY <2>1, PayIs
<1>2. pledge' = pledge /\ settled' = settled /\ donation[e] \in Donation
      BY DEF Claim, Release, rowVars, ledgerVars, Placed, TypeOK
<1>3. CASE Release(c)
  <2>1. donation' = [donation EXCEPT ![e].sent = donation[e].sent \ {First(call[c])}]
        BY <1>1, <1>3 DEF Release
  <2>2. donation[e].sent \ {First(call[c])} \subseteq donation[e].sent
        OBVIOUS
  <2>3. PICK S : S = donation[e].sent \ {First(call[c])}
        OBVIOUS
  <2>4. QED BY <1>2, <2>1, <2>2, <2>3, SentOwed
<1>4. CASE Claim(c)
  <2>1. PICK S : S = donation[e].sent \union {First(call[c])}
        OBVIOUS
  <2>2. donation' = [donation EXCEPT ![e].sent = S]
        BY <1>1, <1>4, <2>1 DEF Claim
  <2>3. CASE First(call[c]) \in donation[e].sent
    <3>1. S \subseteq donation[e].sent
          BY <2>1, <2>3
    <3>2. QED BY <1>2, <2>2, <3>1, SentOwed
  <2>4. CASE First(call[c]) \notin donation[e].sent
    <3>1. PICK r : Excused(c, r, {donation[e].for})
          BY <1>1, <1>4, <2>4 DEF Claim
    <3>2. t # donation[e].for
          BY <3>1, ExcusedDue
    <3>3. QED BY <1>2, <2>2, <3>2, SentOwed
  <2>5. QED BY <2>3, <2>4
<1>5. QED BY <1>3, <1>4

\* The cleanup excuses the subscription when it archives the donation that opened it.
LEMMA ArchiveOwed ==
    ASSUME Placed, Notes, Grows, NEW c \in Calls, Archive(c), NEW t \in Owed,
           NEW x \in Calls \ {c}, t \in call'[x].due
    PROVE  t \in Owed'
<1>1. call[c].pc \in {"today", "archive"} /\ call[c].pc = "archive"
      BY DEF Archive
<1>2. call[c].ids # {} /\ call[c].ids \subseteq DOMAIN donation
      BY <1>1, CleanIs DEF CallOK, OtherOK
<1>3. donation \in Seq(Donation) /\ DOMAIN donation \subseteq Nat
      BY DEF Placed, TypeOK
<1>4. PICK e : e = Min(call[c].ids)
      OBVIOUS
<1>5. e \in DOMAIN donation
      BY <1>2, <1>3, <1>4, MinIsLeast
<1>6. /\ donation' = [donation EXCEPT ![e].archived = TRUE] /\ pledge' = pledge /\ settled' = settled
      /\ \E r : Excused(c, r, IF e = Initial THEN {Sub} ELSE {})
      BY <1>4 DEF Archive, rowVars, ledgerVars
<1>7. t = Sub => e # Initial
      BY <1>6, ExcusedDue
<1>8. \A d \in DOMAIN donation : donation[d] \in Donation
      BY <1>3
<1>9. /\ DOMAIN donation' = DOMAIN donation
      /\ \A d \in DOMAIN donation : /\ donation'[d].status = donation[d].status
                                    /\ donation[d].archived => donation'[d].archived
                                    /\ donation'[d].sent = donation[d].sent
                                    /\ d # e => donation'[d].archived = donation[d].archived
      BY <1>6, <1>8 DEF Donation
<1>10. Initial \in DOMAIN donation
       BY DEF Notes
<1>11. t = Sub => donation'[Initial].archived = donation[Initial].archived
       BY <1>7, <1>9, <1>10
<1>12. QED BY <1>6, <1>9, <1>11, DonationsStillOwed

\* Staff excuse the pledge they change, and create those that nobody was owed for.
LEMMA StaffOwed ==
    ASSUME Placed, Notes, Grows, NEW c \in Calls, CreatePledge(c) \/ Save(c), NEW t \in Owed,
           NEW x \in Calls \ {c}, t \in call'[x].due
    PROVE  t \in Owed'
<1>1. donation' = donation /\ settled' = settled /\ pledge \in [Pledges -> Pledge]
      BY DEF CreatePledge, Save, ledgerVars, Placed, TypeOK
<1>2. CASE t = Sub
  <2>1. SubKey(day).period \notin settled'
        BY <1>1, <1>2, OwedIs DEF OwedSub
  <2>2. QED BY <1>1, <1>2, <2>1, SubStillOwed
<1>3. CASE t # Sub
  <2>1. t \in Pledges
        BY <1>3 DEF Owed
  <2>2. PICK p : p = call[c].p
        OBVIOUS
  <2>3. pledge'[t] = pledge[t]
    <3>1. CASE Save(c)
      <4>1. PICK e : pledge' = [pledge EXCEPT ![p] = e]
            BY <2>2, <3>1 DEF Save
      <4>2. PICK r : Excused(c, r, {p})
            BY <2>2, <3>1 DEF Save
      <4>3. t # p
            BY <4>2, ExcusedDue
      <4>4. QED BY <1>1, <2>1, <4>1, <4>3
    <3>2. CASE CreatePledge(c)
      <4>1. pledge[t].status = "active"
            BY <2>1, OwedIs DEF OwedPledge
      <4>2. CASE pledge[p].status = "none"
        <5>1. PICK e : pledge' = [pledge EXCEPT ![p] = e]
              BY <2>2, <3>2, <4>2 DEF CreatePledge
        <5>2. t # p
              BY <4>1, <4>2
        <5>3. QED BY <1>1, <2>1, <5>1, <5>2
      <4>3. CASE pledge[p].status # "none"
            BY <2>2, <3>2, <4>3 DEF CreatePledge
      <4>4. QED BY <4>2, <4>3
    <3>3. QED BY <3>1, <3>2
  <2>4. donation' = donation /\ freq' = freq /\ day' = day
        BY <1>1 DEF Grows
  <2>5. PaidOf(t)' = PaidOf(t)
        BY ONLY <2>4 DEF PaidOf, PaidFor, PeriodOf
  <2>6. QED BY <2>1, <2>3, <2>4, <2>5, PledgeStillOwed
<1>4. QED BY <1>2, <1>3

LEMMA OthersOwed ==
    ASSUME Placed, Notes, Grows, NEW c \in Calls, OtherStep(c), NEW t \in Owed,
           NEW x \in Calls \ {c}, t \in call'[x].due
    PROVE  t \in Owed'
<1>1. CASE Complete(c)
      BY <1>1, CompleteOwed
<1>2. CASE Settle(c)
      BY <1>2, SettleOwed
<1>3. CASE Claim(c) \/ Release(c)
      BY <1>3, ClaimOwed
<1>4. CASE Archive(c)
      BY <1>4, ArchiveOwed
<1>5. CASE CreatePledge(c) \/ Save(c)
      BY <1>5, StaffOwed
<1>6. CASE SendThanks(c) \/ Today(c) \/ Load(c) \/ Count(c) \/ FlagDonor(c)
  <2>1. pledge' = pledge /\ settled' = settled /\ donation' = donation
        BY <1>6 DEF SendThanks, Today, Load, Count, FlagDonor, rowVars, ledgerVars
  <2>2. QED BY <2>1, AllStillOwed
<1>7. QED BY <1>1, <1>2, <1>3, <1>4, <1>5, <1>6 DEF OtherStep

\* Before a handler begins, and when one dies, nothing is done.
LEMMA BeginOwed ==
    ASSUME Placed, Notes, Grows, NEW c \in Calls, Job(c) \/ Pay(c) \/ Cleanup(c) \/ Change(c) \/ Crash(c),
           NEW t \in Owed
    PROVE  t \in Owed'
<1>1. pledge' = pledge /\ settled' = settled /\ donation' = donation
      BY Zenon DEF Job, Pay, Cleanup, Change, Begin, Crash, rowVars, ledgerVars
<1>2. QED BY <1>1, AllStillOwed

\* So what a handler owes by another's leave is still owed.
LEMMA OwedStays ==
    ASSUME Placed, Notes, Grows, NEW c \in Calls, Noting(call[c]),
           Job(c) \/ Pay(c) \/ Cleanup(c) \/ Change(c) \/ RunStep(c) \/ OtherStep(c) \/ Crash(c),
           NEW t \in Owed, ~TriedToday(t), NEW x \in Calls \ {c}, t \in call'[x].due
    PROVE  t \in Owed'
<1>1. CASE RunStep(c)
      BY <1>1, RunOwed
<1>2. CASE OtherStep(c)
      BY <1>2, OthersOwed
<1>3. CASE Job(c) \/ Pay(c) \/ Cleanup(c) \/ Change(c) \/ Crash(c)
      BY <1>3, BeginOwed
<1>4. QED BY <1>1, <1>2, <1>3

\* A handler changes of the others only what they owe, and there only excuses them.
LEMMA DueShrinks ==
    ASSUME Placed, NEW c \in Calls,
           Job(c) \/ Pay(c) \/ Cleanup(c) \/ Change(c) \/ RunStep(c) \/ OtherStep(c) \/ Crash(c),
           NEW x \in Calls \ {c}
    PROVE  call'[x].due \subseteq call[x].due
<1>1. ASSUME NEW r, Set(c, r) PROVE call'[x].due \subseteq call[x].due
      BY <1>1 DEF Set, Placed, TypeOK
<1>2. ASSUME NEW r, NEW ts, Excused(c, r, ts) PROVE call'[x].due \subseteq call[x].due
      BY <1>2, ExcusedDue
<1>3. End(c) => \E r : Set(c, r)
      BY DEF End
<1>4. ASSUME NEW pc, Goto(c, pc) PROVE call'[x].due \subseteq call[x].due
      BY <1>4 DEF Goto, Placed, TypeOK
<1>5. NextClaim(c) => \E r : Set(c, r)
      BY <1>3 DEF NextClaim
<1>6. CASE Job(c) \/ Pay(c) \/ Cleanup(c) \/ Change(c) \/ Crash(c)
  <2>1. \E r : Set(c, r)
        BY <1>3, <1>6, Zenon DEF Job, Pay, Cleanup, Change, Begin, Crash
  <2>2. QED BY <1>1, <2>1
<1>7. CASE RunStep(c)
  <2>1. CASE Chunk(c) \/ Lookup(c) \/ FindPaid(c) \/ Thank(c) \/ Flag(c) \/ Template(c) \/ FindOpen(c)
             \/ InsertLink(c) \/ Remind(c)
    <3>1. \E r : Set(c, r)
          BY <2>1 DEF Chunk, Lookup, FindPaid, Thank, Flag, Template, FindOpen, InsertLink, Remind
    <3>2. QED BY <1>1, <3>1
  <2>2. CASE Mark(c)
    <3>1. (\E r : Set(c, r)) \/ \E r, ts : Excused(c, r, ts)
          BY <1>3, <2>2 DEF Mark
    <3>2. QED BY <1>1, <1>2, <3>1
  <2>3. CASE SubRead(c) \/ SubLink(c) \/ SubMark(c) \/ SubRemind(c)
    <3>1. \E r : Set(c, r)
          BY <1>3, <2>3, Zenon DEF SubRead, SubLink, SubMark, SubRemind
    <3>2. QED BY <1>1, <3>1
  <2>4. CASE SubInitial(c) \/ SubSettled(c) \/ SubDonated(c)
    <3>1. (\E r : Set(c, r)) \/ \E pc : Goto(c, pc)
          BY <1>3, <2>4 DEF SubInitial, SubSettled, SubDonated
    <3>2. QED BY <1>1, <1>4, <3>1
  <2>5. QED BY <1>7, <2>1, <2>2, <2>3, <2>4 DEF RunStep
<1>8. CASE OtherStep(c)
  <2>1. CASE Complete(c) \/ Settle(c) \/ Archive(c) \/ Save(c)
    <3>1. \E r, ts : Excused(c, r, ts)
          BY <2>1 DEF Complete, Settle, Archive, Save
    <3>2. QED BY <1>2, <3>1
  <2>2. CASE Claim(c)
    <3>1. (\E r : Set(c, r)) \/ \E r, ts : Excused(c, r, ts)
          BY <1>5, <2>2 DEF Claim
    <3>2. QED BY <1>1, <1>2, <3>1
  <2>3. CASE SendThanks(c)
    <3>1. (\E r : Set(c, r)) \/ \E pc : Goto(c, pc)
          BY <1>5, <2>3 DEF SendThanks
    <3>2. QED BY <1>1, <1>4, <3>1
  <2>4. CASE Release(c) \/ Today(c) \/ CreatePledge(c) \/ Load(c) \/ Count(c) \/ FlagDonor(c)
    <3>1. \E r : Set(c, r)
          BY <1>3, <1>5, <2>4 DEF Release, Today, CreatePledge, Load, Count, FlagDonor
    <3>2. QED BY <1>1, <3>1
  <2>5. QED BY <1>8, <2>1, <2>2, <2>3, <2>4 DEF OtherStep
<1>9. QED BY <1>6, <1>7, <1>8

\* What another run owes, and what it knows, is what it was.
LEMMA OthersReach ==
    ASSUME Placed, Notes, Grows, NEW c \in Calls, Only(c), Noting(call[c]),
           Job(c) \/ Pay(c) \/ Cleanup(c) \/ Change(c) \/ RunStep(c) \/ OtherStep(c) \/ Crash(c),
           NEW x \in Calls \ {c}, Noting(call[x]), Owing(call[x]), NEW q, q = call'[x]
    PROVE  Noting(q)' /\ Owing(q)'
<1> DEFINE k == call[x]
<1>1. k \in Call /\ q \in Call /\ Like(k, q) /\ q.due \subseteq k.due
      BY DueShrinks DEF Only, Placed, TypeOK
<1>2. /\ q.op = k.op /\ q.pc = k.pc /\ q.size = k.size /\ q.todo = k.todo /\ q.last = k.last
      /\ q.rows = k.rows /\ q.given = k.given /\ q.ids = k.ids /\ q.p = k.p /\ q.d = k.d
      /\ q.marks = k.marks /\ q.thanked = k.thanked /\ q.key = k.key
      BY <1>1, LikeMeans
<1>3. Noting(q)
      BY <1>1, <1>2 DEF Noting
<1>4. CallOK(k) /\ k.d = q.d
      BY <1>2 DEF Placed
<1>5. q.pc \in {"thank", "flag"} \union PayPcs => q.d \in DOMAIN donation
  <2>1. CASE q.pc \in {"thank", "flag"}
    <3>1. call[x].pc \in Working
          BY <1>2, <2>1 DEF Working
    <3>2. ChunkOK(k)
          BY <3>1, AtWork
    <3>3. QED BY <1>2, <2>1, <3>1, <3>2 DEF ChunkOK
  <2>2. CASE q.pc \in PayPcs
        BY <1>2, <1>4, <2>2 DEF CallOK, OtherOK
  <2>3. QED BY <2>1, <2>2
<1>6. Noting(q)'
      BY <1>3, <1>5, NotingGrows
<1>7. ASSUME q.op = "job", NEW t \in q.due, ~TriedToday(t)'
      PROVE  t \in Owed' /\ (t = Sub \/ Reaches(q, t)')
  <2>1. ~TriedToday(t)
        BY <1>7, TriedStays
  <2>2. t \in Owed /\ (t = Sub \/ Reaches(k, t))
        BY <1>1, <1>2, <1>7, <2>1 DEF Owing
  <2>3. t \in Owed'
        BY <1>7, <2>1, <2>2, OwedStays
  <2>4. CASE t = Sub
        BY <2>3, <2>4
  <2>5. CASE t # Sub
    <3>1. Reaches(q, t)
          BY <1>2, <2>2, <2>5 DEF Reaches, Waits, Later, InRun, InChunk, Queue, Needs, AtHand
    <3>2. QED BY <2>3, <3>1, ReachesStays
  <2>6. QED BY <2>4, <2>5
<1>8. QED BY <1>6, <1>7 DEF Owing

\* A run owes nobody more as it goes.
LEMMA RunDue ==
    ASSUME Placed, NEW c \in Calls, RunStep(c), call'[c].op = "job"
    PROVE  call'[c].due = call[c].due /\ call[c].op = "job"
<1>1. call[c] \in Call /\ call \in [Calls -> Call]
      BY DEF Placed, TypeOK
<1>2. NoCall.op # "job"
      BY DEF NoCall
<1>3. ASSUME NEW r, Set(c, r) PROVE call'[c] = r
      BY <1>1, <1>3 DEF Set
<1>4. End(c) => call'[c] = NoCall
      BY <1>3 DEF End
<1>5. CASE RunDoes(c)
      BY <1>2, <1>5 DEF RunDoes, ReadsChunk, Looks, FindsPaid, RunThanks, RunFlags, RunTemplates, FindsOpen,
                  RunInserts, RunReminds, RunMarks, Stays, Passed, GoesOn
<1>6. CASE SubDoes(c)
  <2>1. call[c].op = "job"
        BY <1>6 DEF SubDoes, SubReads, SubPasses, SubInserts, SubSends, SubNotes
  <2>2. call[c].pc \in SubPcs
        BY <1>6 DEF SubDoes, SubReads, SubPasses, SubInserts, SubSends, SubNotes, SubPcs
  <2>3. CASE SubRead(c) \/ SubLink(c) \/ InsertLink(c)
    <3>1. call'[c].due = call[c].due
          BY <1>1, <1>3, <2>3 DEF SubRead, SubLink, InsertLink, Call
    <3>2. QED BY <2>1, <3>1
  <2>4. CASE SubInitial(c) \/ SubSettled(c) \/ SubDonated(c)
    <3>1. call'[c].due = call[c].due
          BY <1>1, <1>2, <1>4, <2>4 DEF SubInitial, SubSettled, SubDonated, Goto, Call
    <3>2. QED BY <2>1, <3>1
  <2>5. CASE SubRemind(c)
    <3>1. PICK got \in BOOLEAN :
             LET r == [call[c] EXCEPT !.ok = @ \/ got, !.chans = Others(call[c])]
             IN  IF r.chans # {} THEN Set(c, r)
                 ELSE IF r.ok THEN Set(c, [r EXCEPT !.pc = "subMark"]) ELSE End(c)
          BY <2>5 DEF SubRemind
    <3> DEFINE r == [call[c] EXCEPT !.ok = @ \/ got, !.chans = Others(call[c])]
    <3>2. r.due = call[c].due /\ [r EXCEPT !.pc = "subMark"].due = call[c].due
          BY <1>1 DEF Call
    <3>3. call'[c] = r \/ call'[c] = [r EXCEPT !.pc = "subMark"] \/ call'[c] = NoCall
          BY <1>3, <1>4, <3>1
    <3> HIDE DEF r
    <3>4. QED BY <1>2, <2>1, <3>2, <3>3
  <2>6. CASE SubMark(c)
        BY <1>2, <1>4, <2>6 DEF SubMark
  <2>7. CASE Chunk(c) \/ Lookup(c) \/ FindPaid(c) \/ Thank(c) \/ Flag(c) \/ Template(c) \/ FindOpen(c)
             \/ Remind(c) \/ Mark(c)
        BY <2>2, <2>7, Zenon DEF Chunk, Lookup, FindPaid, Thank, Flag, Template, FindOpen, Remind, Mark, SubPcs
  <2>8. QED BY <2>3, <2>4, <2>5, <2>6, <2>7 DEF RunStep
<1>7. RunDoes(c) \/ SubDoes(c)
      BY ChunkDoes, LookupDoes, FindPaidDoes, ThankDoes, FlagDoes, TemplateDoes, FindOpenDoes, InsertDoes,
         RemindDoes, MarkDoes, SubReadDoes, SubPassDoes, SubRemindDoes, SubMarkDoes
      DEF RunStep, RunDoes, SubDoes
<1>8. QED BY <1>5, <1>6, <1>7

\* Who is not at a step of a run, nor begins one, is no run.
LEMMA NoRun ==
    ASSUME Placed, NEW c \in Calls,
           Pay(c) \/ Cleanup(c) \/ Change(c) \/ OtherStep(c) \/ Crash(c)
    PROVE  call'[c].op # "job"
<1>1. call[c] \in Call /\ call \in [Calls -> Call] /\ NoCall.op = "none"
      BY DEF Placed, TypeOK, NoCall
<1>2. CASE OtherStep(c)
  <2>1. OtherDoes(c)
        BY <1>2, CompleteDoes, SettleDoes, ClaimDoes, SendThanksDoes, ReleaseDoes, TodayDoes, ArchiveDoes,
           CreateDoes, LoadDoes, SaveDoes, CountDoes, FlagDonorDoes DEF OtherStep, OtherDoes
  <2>2. QED BY <1>1, <2>1 DEF OtherDoes, Completes, Settles, Claims, PaySends, Releases, Cleans, Creates,
                          Loads, Saves, Counts, FlagsDonor, ClaimsNext, Staff
<1>3. CASE Crash(c)
  <2>1. call'[c] = NoCall
        BY <1>3, CrashDoes DEF Dies
  <2>2. QED BY <1>1, <2>1
<1>4. CASE Pay(c) \/ Cleanup(c) \/ Change(c)
  <2>1. ASSUME NEW r, Begin(c, r), r.op # "job" PROVE call'[c].op # "job"
        BY <1>1, <2>1 DEF Begin, Set
  <2>2. CASE Pay(c)
    <3>1. PICK d : Begin(c, [NoCall EXCEPT !.op = "pay", !.pc = "complete", !.d = d, !.chans = Channel])
          BY <2>2 DEF Pay
    <3>2. [NoCall EXCEPT !.op = "pay", !.pc = "complete", !.d = d, !.chans = Channel].op = "pay"
          BY DEF NoCall
    <3>3. QED BY <2>1, <3>1, <3>2
  <2>3. CASE Cleanup(c)
    <3>1. [NoCall EXCEPT !.op = "cleanup", !.pc = "today"].op = "cleanup"
          BY DEF NoCall
    <3>2. QED BY <2>1, <2>3, <3>1 DEF Cleanup
  <2>4. CASE Change(c)
    <3>1. PICK p : \/ \E w : Begin(c, [NoCall EXCEPT !.op = "update", !.pc = "load", !.p = p, !.want = w])
                   \/ Begin(c, [NoCall EXCEPT !.op = "remove", !.pc = "load", !.p = p, !.want = "removed"])
                   \/ Begin(c, [NoCall EXCEPT !.op = "create", !.pc = "create", !.p = p])
          BY <2>4, Zenon DEF Change
    <3>2. \A w : [NoCall EXCEPT !.op = "update", !.pc = "load", !.p = p, !.want = w].op = "update"
          BY DEF NoCall
    <3>3. [NoCall EXCEPT !.op = "remove", !.pc = "load", !.p = p, !.want = "removed"].op = "remove"
          /\ [NoCall EXCEPT !.op = "create", !.pc = "create", !.p = p].op = "create"
          BY DEF NoCall
    <3>4. CASE \E w : Begin(c, [NoCall EXCEPT !.op = "update", !.pc = "load", !.p = p, !.want = w])
      <4>1. PICK w : Begin(c, [NoCall EXCEPT !.op = "update", !.pc = "load", !.p = p, !.want = w])
            BY <3>4
      <4>2. QED BY <2>1, <3>2, <4>1
    <3>5. QED BY <2>1, <3>1, <3>3, <3>4
  <2>5. QED BY <1>4, <2>2, <2>3, <2>4
<1>5. QED BY <1>2, <1>3, <1>4

\* A run that begins has everybody it owes ahead of it.
LEMMA JobOwes ==
    ASSUME Placed, Notes, Grows, NEW c \in Calls, Job(c), NEW q, q = call'[c]
    PROVE  Owing(q)'
<1>1. PICK force \in BOOLEAN, n \in ChunkSizes :
         Begin(c, [NoCall EXCEPT !.op = "job", !.pc = "chunk", !.force = force, !.size = n,
                                 !.todo = DueOn(day), !.due = Owed])
      BY DEF Job
<1>2. q = [NoCall EXCEPT !.op = "job", !.pc = "chunk", !.force = force, !.size = n,
                         !.todo = DueOn(day), !.due = Owed]
      BY <1>1 DEF Begin, Set, Placed, TypeOK
<1>3. q.op = "job" /\ q.pc = "chunk" /\ q.todo = DueOn(day) /\ q.due = Owed /\ q.last = 0
      BY <1>2 DEF NoCall
<1>4. ASSUME NEW t \in Owed PROVE t \in Owed' /\ (t = Sub \/ Reaches(q, t)')
  <2>1. t \in Owed'
        BY BeginOwed
  <2>2. CASE t # Sub
    <3>1. t \in Pledges /\ OwedPledge(t)
          BY <2>2, OwedIs DEF Owed
    <3>2. freq[t] \in Left(q.todo) /\ t > 0
          BY <1>3, <3>1 DEF OwedPledge, Left, Pledges
    <3>3. Reaches(q, t)
          BY <1>3, <3>1, <3>2 DEF Reaches, Waits, Later, InRun, RunPcs
    <3>4. QED BY <2>1, <3>3, ReachesStays
  <2>3. QED BY <2>1, <2>2
<1>5. QED BY <1>3, <1>4 DEF Owing

LEMMA RunOwes ==
    ASSUME Placed, Notes, Grows, NEW c \in Calls, RunStep(c), Noting(call[c]), Owing(call[c]),
           NEW q, q = call'[c]
    PROVE  Owing(q)'
<1>1. ASSUME q.op = "job", NEW t \in q.due, ~TriedToday(t)'
      PROVE  t \in Owed' /\ (t = Sub \/ Reaches(q, t)')
  <2>1. q.due = call[c].due /\ call[c].op = "job" /\ call[c] \in Call
        BY <1>1, RunDue DEF Placed, TypeOK
  <2>2. ~TriedToday(t)
        BY <1>1, TriedStays
  <2>3. t \in Owed /\ (t = Sub \/ Reaches(call[c], t))
        BY <1>1, <2>1, <2>2 DEF Owing
  <2>4. t \in Owed'
        BY <1>1, <2>1, <2>2, <2>3, RunOwed
  <2>5. CASE t # Sub
    <3>1. t \in Pledges
          BY <2>3, <2>5 DEF Owed
    <3>2. Reaches(q, t)
          BY <1>1, <2>2, <2>3, <2>5, <3>1, RunReaches
    <3>3. QED BY <2>4, <3>2, ReachesStays
  <2>6. QED BY <2>4, <2>5
<1>2. QED BY <1>1 DEF Owing

LEMMA HandlerReaching ==
    ASSUME Placed, Reaching, NEW c \in Calls,
           Job(c) \/ Pay(c) \/ Cleanup(c) \/ Change(c) \/ RunStep(c) \/ OtherStep(c) \/ Crash(c)
    PROVE  Reaching'
<1>1. Only(c) /\ DonationsStay /\ Does(c) /\ Grows
  <2>1. Only(c) /\ DonationsStay /\ Does(c)
        BY StepDoes
  <2>2. tried \subseteq tried'
        BY TriedGrows
  <2>3. QED BY <2>1, <2>2, GrowsDoes
<1>2. Notes /\ \A x \in Calls : Noting(call[x]) /\ Owing(call[x])
      BY DEF Reaching
<1>3. Notes'
      BY <1>1, <1>2, NotesStay
<1>4. ASSUME NEW x \in Calls, NEW q, q = call'[x] PROVE Noting(q)' /\ Owing(q)'
  <2>1. CASE x # c
        BY <1>1, <1>2, <1>4, <2>1, OthersReach
  <2>2. CASE x = c
    <3>1. Noting(q)'
          BY <1>1, <1>2, <1>4, <2>2, HandlerNotes
    <3>2. CASE Job(c)
          BY <1>1, <1>2, <1>4, <2>2, <3>1, <3>2, JobOwes
    <3>3. CASE RunStep(c)
          BY <1>1, <1>2, <1>4, <2>2, <3>1, <3>3, RunOwes
    <3>4. CASE ~Job(c) /\ ~RunStep(c)
      <4>1. q.op # "job"
            BY <1>4, <2>2, <3>4, NoRun
      <4>2. QED BY <3>1, <4>1 DEF Owing
    <3>5. QED BY <3>2, <3>3, <3>4
  <2>3. QED BY <2>1, <2>2
<1>5. QED BY <1>3, <1>4 DEF Reaching

\* Nothing runs when the day changes.
LEMMA DayReaching ==
    ASSUME Placed, Reaching, NextDay
    PROVE  Reaching'
<1>1. /\ tried' = tried /\ pledge' = pledge /\ donation' = donation /\ mark' = mark /\ freq' = freq
      /\ \A c \in Calls : call'[c] = NoCall
      BY NextDayPlaced DEF NextDay, rowVars, ledgerVars, historyVars
<1>2. ASSUME NEW p \in Pledges PROVE RowOK(p, pledge[p])'
  <2>1. RowOK(p, pledge[p])
        BY DEF Reaching, Notes
  <2>2. QED BY <1>1, <2>1 DEF RowOK, PeriodOf
<1>3. Notes'
      BY <1>1, <1>2 DEF Reaching, Notes, SubNoted
<1>4. Noting(NoCall)'
      BY NoCallNotes
<1>5. Owing(NoCall)'
  <2>1. NoCall.op # "job"
        BY DEF NoCall
  <2>2. QED BY <2>1 DEF Owing
<1>6. QED BY <1>1, <1>3, <1>4, <1>5 DEF Reaching

\* A declined payment is no payment.
LEMMA DeclineGrows ==
    ASSUME Placed, Reaching, NEW d \in DOMAIN donation, Decline(d)
    PROVE  Grows /\ Notes' /\ \A t \in Owed : t \in Owed'
<1>1. Declines(d) /\ DonationsStay
      BY DeclineDoes
<1>2. /\ donation[d].status = "pending" /\ donation' = [donation EXCEPT ![d].status = "failed"]
      /\ pledge' = pledge /\ settled' = settled /\ mark' = mark /\ tried' = tried /\ freq' = freq
      /\ day' = day
      BY DEF Decline, rowVars, ledgerVars, historyVars
<1>3. \A x \in DOMAIN donation : donation[x] \in Donation
      BY DEF Placed, TypeOK
<1>4. /\ DOMAIN donation' = DOMAIN donation
      /\ \A x \in DOMAIN donation : /\ donation'[x].day = donation[x].day
                                    /\ donation'[x].sent = donation[x].sent
                                    /\ donation'[x].archived = donation[x].archived
                                    /\ x # d => donation'[x].status = donation[x].status
                                    /\ donation'[d].status = "failed"
      BY <1>2, <1>3 DEF Donation
<1>5. Grows
      BY <1>1, <1>2, <1>4 DEF Grows
<1>6. Notes
      BY DEF Reaching
<1>7. Notes'
  <2>1. ASSUME NEW p \in Pledges PROVE RowOK(p, pledge[p])'
    <3>1. PICK e : e = pledge[p]
          OBVIOUS
    <3>2. RowOK(p, e)'
          BY <1>5, <1>6, <3>1, RowStays DEF Notes
    <3>3. QED BY <1>2, <3>1, <3>2
  <2>2. \A x \in DOMAIN donation' : Open(donation'[x].status) => donation'[x].sent = {}
        BY <1>2, <1>4, <1>6 DEF Notes, Open
  <2>3. SubNoted(mark)'
        BY <1>2, <1>6 DEF Notes, SubNoted
  <2>4. QED BY <1>4, <1>6, <2>1, <2>2, <2>3 DEF Notes
<1>8. ASSUME NEW t \in Owed PROVE t \in Owed'
  <2>1. donation'[Initial].archived = donation[Initial].archived
        BY <1>4, <1>6 DEF Notes
  <2>2. \A x \in DOMAIN donation' : donation'[x].status = "completed" =>
            /\ x \in DOMAIN donation /\ donation[x].status = "completed"
            /\ donation[x].archived => donation'[x].archived
            /\ donation[x].for = t => donation'[x].sent \subseteq donation[x].sent
        BY <1>4
  <2>3. QED BY <1>2, <1>5, <1>6, <2>1, <2>2, DonationsStillOwed
<1>9. QED BY <1>5, <1>7, <1>8

LEMMA IdleReaching ==
    ASSUME Placed, Reaching, Grows, Notes', call' = call, \A t \in Owed : t \in Owed'
    PROVE  Reaching'
<1>1. Grows /\ Notes' /\ call' = call /\ \A t \in Owed : t \in Owed'
      OBVIOUS
<1>2. ASSUME NEW c \in Calls, NEW k, k = call[c] PROVE Noting(k)' /\ Owing(k)'
  <2>1. Noting(k) /\ Owing(k) /\ Noting(call[c])
        BY <1>2 DEF Reaching
  <2>2. Noting(k)'
        BY <1>1, <1>2, <2>1, NotingStays
  <2>3. ASSUME k.op = "job", NEW t \in k.due, ~TriedToday(t)'
        PROVE  t \in Owed' /\ (t = Sub \/ Reaches(k, t)')
    <3>1. ~TriedToday(t)
          BY <1>1, <2>3, TriedStays
    <3>2. t \in Owed /\ (t = Sub \/ Reaches(k, t))
          BY <2>1, <2>3, <3>1 DEF Owing
    <3>3. QED BY <1>1, <3>2, ReachesStays
  <2>4. QED BY <2>2, <2>3 DEF Owing
<1>3. QED BY <1>1, <1>2 DEF Reaching

LEMMA NextReaching == Placed /\ Reaching /\ [Next]_vars => Reaching'
<1> SUFFICES ASSUME Placed, Reaching, [Next]_vars PROVE Reaching'
    OBVIOUS
<1>1. CASE NextDay
      BY <1>1, DayReaching
<1>2. ASSUME NEW d \in DOMAIN donation, Decline(d) PROVE Reaching'
      BY <1>2, DeclineGrows, IdleReaching DEF Decline
<1>3. ASSUME NEW c \in Calls,
             Job(c) \/ Pay(c) \/ Cleanup(c) \/ Change(c) \/ RunStep(c) \/ OtherStep(c) \/ Crash(c)
      PROVE  Reaching'
      BY <1>3, HandlerReaching
<1>4. CASE UNCHANGED vars
  <2>1. /\ freq' = freq /\ pledge' = pledge /\ donation' = donation /\ mark' = mark /\ settled' = settled
        /\ day' = day /\ call' = call /\ tried' = tried
        BY <1>4 DEF vars, rowVars, ledgerVars, historyVars, countVars
  <2>2. Grows
        BY <2>1, SameDonations DEF Grows
  <2>3. Notes'
    <3>1. ASSUME NEW p \in Pledges PROVE RowOK(p, pledge[p])'
      <4>1. RowOK(p, pledge[p])
            BY DEF Reaching, Notes
      <4>2. QED BY <2>1, <4>1 DEF RowOK, PeriodOf
    <3>2. QED BY <2>1, <3>1 DEF Reaching, Notes, SubNoted
  <2>4. \A t \in Owed : t \in Owed'
        BY <2>1, <2>2, AllStillOwed DEF Reaching
  <2>5. QED BY <2>1, <2>2, <2>3, <2>4, IdleReaching
<1>5. QED BY <1>1, <1>2, <1>3, <1>4 DEF Next

LEMMA InitReaching == Init => Reaching
<1> SUFFICES ASSUME Init PROVE Reaching
    OBVIOUS
<1>1. \A c \in Calls : call[c] = NoCall
      BY DEF Init
<1>2. Notes
  <2>1. \A p \in Pledges : RowOK(p, pledge[p])
        BY DEF Init, RowOK
  <2>2. SubNoted(mark)
        BY DEF Init, SubNoted
  <2>3. DOMAIN donation = 1 .. 2 /\ \A d \in DOMAIN donation : donation[d].sent = {}
        BY DEF Init
  <2>4. Initial \in DOMAIN donation
        BY <2>3 DEF Initial
  <2>5. QED BY <2>1, <2>2, <2>3, <2>4 DEF Notes
<1>3. Noting(NoCall)
      BY DEF NoCall, Noting, SubNoted, PayPcs
<1>4. Owing(NoCall)
      BY DEF NoCall, Owing
<1>5. QED BY <1>1, <1>2, <1>3, <1>4 DEF Reaching

\* Until a message was tried for somebody a run owes one, the run has the pledge ahead of
\* it, in its chunk or at hand, and the pledge is still owed: what the rows, and the run's
\* copies of them, say was done has been tried, whatever others do beside it.
THEOREM ReachingInvariant == Spec => []Reaching
BY InitReaching, NextReaching, PlacedInvariant, PTL DEF Spec

\* What today's message of a target is noted with is one of the keys of the day.
LEMMA TriedIsTried ==
    ASSUME Placed, NEW t \in Targets, TriedToday(t), tried \subseteq tried'
    PROVE  \E k \in {KeyOf(f, day) : f \in Freqs} \union {SubKey(day)} : <<t, k>> \in tried'
<1>1. <<t, KeyFor(t, day)>> \in tried'
      BY DEF TriedToday
<1>2. KeyFor(t, day) \in {KeyOf(f, day) : f \in Freqs} \union {SubKey(day)}
  <2>1. CASE t = Sub
        BY <2>1 DEF KeyFor
  <2>2. CASE t \in Pledges
        BY <2>2, PledgeFreq DEF KeyToday
  <2>3. QED BY <2>1, <2>2, SubRange
<1>3. QED BY <1>1, <1>2

\* A run that stores the key of a week has the weeks of later chunks and the months left.
LEMMA WeeksLeft ==
    ASSUME NEW s \in Todos, s # <<>>, Head(s) = "weekly"
    PROVE  Left(s) \subseteq {"weekly", "monthly"}
BY DEF Todos, Left

\* Over the subscription's part no pledge is left.
LEMMA SubPart ==
    ASSUME NEW k, k.pc \in SubPcs, NEW t, Reaches(k, t)
    PROVE  FALSE
BY DEF Reaches, Waits, Later, InRun, InChunk, Queue, AtHand, SubPcs, RunPcs, Working

\* The subscription's part ends at the subscription, unless it is not owed or was tried.
LEMMA SubEnds ==
    ASSUME Placed, NEW c \in Calls, Noting(call[c]),
           SubInitial(c) \/ SubSettled(c) \/ SubDonated(c) \/ SubLink(c), call'[c] = NoCall, OwedSub,
           call[c].op = "job"
    PROVE  TriedToday(Sub)
<1>1. call[c] \in Call /\ call \in [Calls -> Call] /\ NoCall.op = "none"
      BY DEF Placed, TypeOK, NoCall
<1>2. ASSUME NEW pc, Goto(c, pc) PROVE FALSE
  <2>1. call'[c].op = "job"
        BY <1>1, <1>2 DEF Goto, Call
  <2>2. QED BY <1>1, <2>1
<1>3. ~SubInitial(c)
      BY <1>2 DEF SubInitial, OwedSub, RemindDays
<1>4. ~SubDonated(c)
      BY <1>2 DEF SubDonated, OwedSub
<1>5. ~SubLink(c)
  <2>1. SUFFICES ASSUME SubLink(c) PROVE FALSE
        OBVIOUS
  <2>2. call'[c].op = "job"
        BY <1>1, <2>1 DEF SubLink, Set, Call
  <2>3. QED BY <1>1, <2>2
<1>6. SubSettled(c) /\ call[c].key = SubKey(day)
      BY <1>2, <1>3, <1>4, <1>5 DEF SubSettled, OwedSub
<1>7. SubKey(day) # NoKey
  <2>1. day \in RemindDays /\ RemindDays \subseteq 1 .. Days
        BY ReminderAssumption DEF OwedSub, RemindDays
  <2>2. \A e \in 1 .. Days : Month[e] # 0
        BY ReminderAssumption
  <2>3. SubKey(day).period # 0
    <3>1. CASE day \in DOMAIN EarlyFor
      <4>1. EarlyFor[day] \in 1 .. Days
            BY <3>1, ReminderAssumption
      <4>2. QED BY <2>2, <3>1, <4>1 DEF SubKey
    <3>2. CASE day \notin DOMAIN EarlyFor
          BY <2>1, <2>2, <3>2 DEF SubKey
    <3>3. QED BY <3>1, <3>2
  <2>4. QED BY <2>3 DEF NoKey
<1>8. QED BY <1>6, <1>7 DEF Noting, SubNoted, TriedToday, KeyFor

\* A run ends at the subscription, or where the key of a week does not fit.
LEMMA RunEnds ==
    ASSUME Placed, Reaching, NEW c \in Calls, RunStep(c), call'[c].op = "none",
           NEW t \in call[c].due
    PROVE  \/ \E k \in {KeyOf(f, day) : f \in Freqs} \union {SubKey(day)} : <<t, k>> \in tried'
           \/ /\ call[c].pc = "mark" /\ Head(call[c].todo) = "weekly"
              /\ \/ t = Sub
                 \/ freq[t] = "monthly"
                 \/ freq[t] = "weekly" /\ t > call[c].last
<1> DEFINE k == call[c]
<1>1. /\ k \in Call /\ CallOK(k) /\ t \in Targets /\ tried \subseteq tried'
      /\ Noting(k) /\ Owing(k)
      BY TriedGrows DEF Placed, TypeOK, Call, Reaching
<1>2. CASE TriedToday(t)
      BY <1>1, <1>2, TriedIsTried
<1>3. CASE ~TriedToday(t) /\ RunDoes(c)
  <2>1. RunMarks(c) /\ call'[c] = NoCall /\ Head(k.todo) = "weekly"
        BY <1>3 DEF RunDoes, ReadsChunk, Looks, FindsPaid, RunThanks, RunFlags, RunTemplates, FindsOpen,
                  RunInserts, RunReminds, RunMarks, Stays, Passed, GoesOn
  <2>2. k.op = "job" /\ k.pc = "mark"
        BY <2>1 DEF RunMarks
  <2>3. t \in Owed /\ (t = Sub \/ Reaches(k, t))
        BY <1>1, <1>3, <2>2 DEF Owing
  <2>4. CASE t # Sub
    <3>1. t \in Later(k)
          BY <2>2, <2>3, <2>4 DEF Reaches, Waits, InChunk, Queue, AtHand, Working
    <3>2. k.todo \in Todos /\ k.todo # <<>>
          BY <1>1, <2>2 DEF CallOK, RunOK, ChunkOK, InRun, RunPcs
    <3>3. Left(k.todo) \subseteq {"weekly", "monthly"}
          BY <2>1, <3>2, WeeksLeft
    <3>4. QED BY <2>1, <2>2, <3>1, <3>3 DEF Later
  <2>5. QED BY <2>1, <2>2, <2>4
<1>4. CASE ~TriedToday(t) /\ SubDoes(c)
  <2>1. k.op = "job" /\ k.pc \in SubPcs
        BY <1>4 DEF SubDoes, SubReads, SubPasses, SubInserts, SubSends, SubNotes, SubPcs
  <2>2. t \in Owed /\ t = Sub
    <3>1. t \in Owed /\ (t = Sub \/ Reaches(k, t))
          BY <1>1, <1>4, <2>1 DEF Owing
    <3>2. QED BY <2>1, <3>1, SubPart
  <2>3. OwedSub
        BY <2>2, OwedIs
  <2>4. CASE SubInitial(c) \/ SubSettled(c) \/ SubDonated(c) \/ SubLink(c)
    <3>1. SubPasses(c)
          BY <2>4, SubPassDoes
    <3>2. call'[c] = NoCall
          BY <3>1 DEF SubPasses
    <3>3. TriedToday(Sub)
          BY <1>1, <2>1, <2>3, <2>4, <3>2, SubEnds
    <3>4. QED BY <1>4, <2>2, <3>3
  <2>5. CASE SubRemind(c)
        BY <2>2, <2>5 DEF SubRemind
  <2>6. CASE SubMark(c)
        BY <1>1, <1>4, <2>2, <2>6 DEF SubMark, Noting
  <2>7. CASE SubRead(c) \/ InsertLink(c)
    <3>1. call'[c].op = "job"
          BY <2>1, <2>7, SubReadDoes, InsertDoes DEF SubReads, SubInserts, RunInserts, Stays
    <3>2. QED BY <3>1
  <2>8. CASE Chunk(c) \/ Lookup(c) \/ FindPaid(c) \/ Thank(c) \/ Flag(c) \/ Template(c) \/ FindOpen(c)
             \/ Remind(c) \/ Mark(c)
        BY <2>1, <2>8, Zenon DEF Chunk, Lookup, FindPaid, Thank, Flag, Template, FindOpen, Remind, Mark, SubPcs
  <2>9. QED BY <2>4, <2>5, <2>6, <2>7, <2>8 DEF RunStep
<1>5. RunDoes(c) \/ SubDoes(c)
      BY ChunkDoes, LookupDoes, FindPaidDoes, ThankDoes, FlagDoes, TemplateDoes, FindOpenDoes, InsertDoes,
         RemindDoes, MarkDoes, SubReadDoes, SubPassDoes, SubRemindDoes, SubMarkDoes
      DEF RunStep, RunDoes, SubDoes
<1>6. QED BY <1>2, <1>3, <1>4, <1>5

\* A run is brought to its end by a step of its own, or it dies.
LEMMA EndedItself ==
    ASSUME Placed, Next, NEW c \in Calls, call[c].op = "job", ~Running(c)', deaths' = deaths
    PROVE  RunStep(c)
<1>1. call'[c].op = "none"
      BY DEF Running
<1>2. CASE NextDay \/ \E d \in DOMAIN donation : Decline(d)
      BY <1>1, <1>2 DEF NextDay, Decline
<1>3. ASSUME NEW x \in Calls,
             Job(x) \/ Pay(x) \/ Cleanup(x) \/ Change(x) \/ RunStep(x) \/ OtherStep(x) \/ Crash(x)
      PROVE  RunStep(c)
  <2>1. x = c
    <3>1. Only(x)
          BY <1>3, StepDoes
    <3>2. QED BY <1>1, <3>1, OthersAre
  <2>2. CASE Job(c) \/ Pay(c) \/ Cleanup(c) \/ Change(c)
        BY <2>2 DEF Job, Pay, Cleanup, Change, Begin, Running
  <2>3. CASE Crash(c)
    <3>1. deaths \in Nat
          BY DEF Placed, TypeOK
    <3>2. QED BY <2>3, <3>1 DEF Crash
  <2>4. CASE OtherStep(c)
    <3>1. OtherDoes(c)
          BY <2>4, CompleteDoes, SettleDoes, ClaimDoes, SendThanksDoes, ReleaseDoes, TodayDoes, ArchiveDoes,
             CreateDoes, LoadDoes, SaveDoes, CountDoes, FlagDonorDoes DEF OtherStep, OtherDoes
    <3>2. QED BY <3>1 DEF OtherDoes, Completes, Settles, Claims, PaySends, Releases, Cleans, Creates,
                          Loads, Saves, Counts, FlagsDonor, Staff
  <2>5. QED BY <1>3, <2>1, <2>2, <2>3, <2>4
<1>4. QED BY <1>2, <1>3 DEF Next

\* A run that comes to its end has tried everybody it owed a message, whatever runs,
\* payments, cleanups and staff do beside it, if they did not thank, pay or change them
\* meanwhile; but for a run that must store the key of a week, which ends there.
THEOREM DueReached == Spec => RunReachesDue
<1> DEFINE Reached(c, t) ==
              \/ \E k \in {KeyOf(f, day) : f \in Freqs} \union {SubKey(day)} : <<t, k>> \in tried'
              \/ /\ call[c].pc = "mark" /\ Head(call[c].todo) = "weekly"
                 /\ \/ t = Sub
                    \/ freq[t] = "monthly"
                    \/ freq[t] = "weekly" /\ t > call[c].last
           Ended(c) == call[c].op = "job" /\ ~Running(c)' /\ deaths' = deaths =>
                          \A t \in call[c].due : Reached(c, t)
           Act == \A c \in Calls : Ended(c)
<1>1. Placed /\ Reaching /\ [Next]_vars => [Act]_vars
  <2> SUFFICES ASSUME Placed, Reaching, Next, NEW c \in Calls,
                      call[c].op = "job", ~Running(c)', deaths' = deaths, NEW t \in call[c].due
               PROVE  Reached(c, t)
      OBVIOUS
  <2>1. RunStep(c)
        BY EndedItself
  <2>2. call'[c].op = "none"
        BY DEF Running
  <2>3. QED BY <2>1, <2>2, RunEnds
<1>2. Spec => [][Act]_vars
  <2> HIDE DEF Act
  <2>1. QED BY <1>1, PlacedInvariant, ReachingInvariant, PTL DEF Spec
<1>3. QED BY <1>2 DEF RunReachesDue

=============================================================================
