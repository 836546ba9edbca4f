-------------------------- MODULE OfflineSyncProofs -------------------------
(***************************************************************************)
(* Proofs about OfflineSync that hold for every queue a device may have     *)
(* filled, every number of handlers side by side, and any number of         *)
(* timeouts, deaths and failing statements.  The first half shows that the  *)
(* ids that go round between the device and the batches always name rows of *)
(* the right actions (Sound), the second half counts: the uploads that may  *)
(* still insert a row, and the handlers that have still to count; and it    *)
(* follows the e-mail addresses of donors (EmailsOK).                       *)
(***************************************************************************)
EXTENDS OfflineSync, FiniteSetTheorems, WellFoundedInduction, TLAPS

-----------------------------------------------------------------------------
(* Min chooses an element, and there is one to choose.                     *)

\* Min picks a least element of a set of numbers, finite or not.
LEMMA MinIsLeast ==
    ASSUME NEW S, S \subseteq Nat, S # {}
    PROVE  Min(S) \in S /\ \A y \in S : Min(S) <= y
<1> DEFINE Less == {ss \in Nat \X Nat : ss[1] < ss[2]}
<1>1. PICK x \in S : \A y \in S : ~ (<<y, x>> \in Less)
  <2>1. IsWellFoundedOn(Less, Nat)
        BY NatLessThanWellFounded DEF OpToRel
  <2>2. QED BY <2>1, WFMin
<1>2. ASSUME NEW y \in S PROVE x <= y
  <2>1. <<y, x>> \in Nat \X Nat /\ <<y, x>>[1] = y /\ <<y, x>>[2] = x
        OBVIOUS
  <2>2. ~ (y < x)
        BY <1>1, <2>1
  <2>3. QED BY <2>2
<1>3. QED BY <1>2 DEF Min

-----------------------------------------------------------------------------
(* The invariant.                                                          *)

\* The action in whose row action a is recorded.
Subject(a) == IF queue[a].type \in {"edit", "change"} THEN queue[a].of ELSE a

IsRowOf(a, r) == r \in DOMAIN rows /\ rows[r].from = Subject(a)

\* Action a has been carried out on row r.
Recorded(a, r) ==
    /\ IsRowOf(a, r)
    /\ queue[a].type = "change" => a \in rows[r].edits
    /\ queue[a].type = "edit" => a \in rows[r].edits \/ overlapped

\* The device holds the ids of rows that are there, and has struck off what is recorded.
DeviceOK ==
    /\ \A a \in Actions : known[a] # 0 => IsRowOf(a, known[a])
    /\ \A a \in Actions \ pending : Recorded(a, known[a])
    /\ waiting # Nobody => call[waiting].op = "batch"

\* A handler is at work on a donor that is to be edited.
Editing(k) == k.pc \in {"email", "donorSave"}

\* Where a handler of each kind can be,
PlaceOK(c) ==
    LET k == call[c]
    IN  /\ k.op = "none" => k = NoCall
        /\ k.op = "batch" => k.pc \in {"next", "donor", "after", "email", "donorSave", "box", "boxSave"}
        /\ k.op \in {"count", "assign"} => k.pc \in {"box", "boxSave"}
        /\ k.op = "remove" => k.pc = "remove"

\* which action a batch is carrying out there, on which row,
AtOK(c) ==
    LET k == call[c]
    IN  /\ k.pc \in {"next", "donor"} => k.row = 0
        /\ k.op = "batch" /\ k.pc # "next" => k.todo # {}
        /\ k.pc = "donor" => queue[At(k)].type = "donor"
        /\ k.pc = "after" => queue[At(k)].type \in {"donor", "donation"} /\ IsRowOf(At(k), k.row)
        /\ Editing(k) => /\ queue[At(k)].type = "edit" /\ IsRowOf(At(k), k.row)
                         /\ overlapped \/ k.edits = rows[k.row].edits
        /\ k.op = "batch" /\ k.pc \in {"box", "boxSave"} =>
              queue[At(k)].type = "collection" /\ IsRowOf(At(k), k.row)

\* and what it knows.
IdsOK(c) ==
    LET k == call[c]
    IN  /\ \A a \in Actions : /\ k.refs[a] # 0 => IsRowOf(a, k.refs[a])
                              /\ k.map[a] # 0 => IsRowOf(a, k.map[a])
        /\ \A a \in k.done : Recorded(a, k.map[a])

CallsOK == \A c \in Calls : PlaceOK(c) /\ AtOK(c) /\ IdsOK(c)

\* As long as handlers do not overlap one runs at a time.
Alone == ~overlapped => \A c, d \in Calls : Running(c) /\ Running(d) => c = d

\* A batch may still insert a row of action a (an edit it is at has none yet: the row in
\* hand is that of the donor),
May(k, a) ==
    /\ k.op = "batch" /\ a \in k.todo
    /\ At(k) = a => k.row = 0 \/ Editing(k)

MayInsert(a) == {c \in Calls : May(call[c], a)}

\* and one that has it is still to come.
Idle(a) ==
    /\ a \in pending
    /\ waiting = Nobody \/ a \notin call[waiting].todo \union call[waiting].done

ToCome(a) == IF Idle(a) THEN 1 ELSE 0

InsertsCounted ==
    \A a \in Actions :
        Cardinality(RowsOf(a)) + Cardinality(MayInsert(a)) + ToCome(a) <= 1 + timeouts + faults

ParentsOK ==
    \A r \in DOMAIN rows :
        LET of == queue[rows[r].from].of
        IN  IF of = 0 THEN rows[r].of = 0
            ELSE rows[r].of \in DOMAIN rows /\ rows[rows[r].of].from = of

\* The handlers that have still to count.
Counts(k) ==
    \/ k.op = "count"
    \/ k.op = "batch" /\ k.pc \in {"box", "boxSave"}

Counting == {c \in Calls : Counts(call[c])}

\* What the box counts, in its row or in one a handler has read, comes with what is still
\* to be counted to no more than is owed,
CountsOwed ==
    /\ box.count + Cardinality(Counting) <= owed
    /\ \A c \in Calls : call[c].pc = "boxSave" => call[c].box.count + Cardinality(Counting) <= owed

\* and to all of it as long as handlers neither overlap nor fail.
BoxExact ==
    ~overlapped /\ faults = 0 =>
        /\ box.count + Cardinality(Counting) = owed
        /\ box.archived = removed
        /\ \A c \in Calls : call[c].pc = "boxSave" => call[c].box = box

\* Ids are sound, whoever holds them.
Sound == TypeOK /\ DeviceOK /\ CallsOK /\ Alone /\ ParentsOK

-----------------------------------------------------------------------------
(* The queue.                                                              *)

\* The queue is one that may have been entered.
LEMMA QueueOK ==
    ASSUME queue \in Queues
    PROVE  /\ queue \in Seq(Action) /\ Actions = 1 .. Len(queue) /\ Actions \subseteq Nat
           /\ \A a \in Actions :
                 /\ queue[a] \in Action
                 /\ queue[a].type \in {"donor", "donation", "collection"} =>
                       queue[a].email \in Emails \union {None}
                 /\ queue[a].type \in {"donor", "collection"} => queue[a].of = 0
                 /\ queue[a].type \notin {"donor", "collection"} =>
                       /\ queue[a].of \in Actions /\ queue[a].of # 0
                       /\ Refers(queue[a].type, queue[queue[a].of].type)
<1>1. queue \in Seq(Action) /\ Actions = 1 .. Len(queue) /\ Actions \subseteq Nat
      BY SyncAssumption DEF Actions
<1>2. ASSUME NEW a \in Actions
      PROVE  /\ queue[a] \in Action
             /\ queue[a].type = "donor" => queue[a].email # Kept
             /\ queue[a].type \notin {"donor", "edit"} => queue[a].email = None
             /\ queue[a].type \in {"donor", "collection"} => queue[a].of = 0
             /\ queue[a].type \notin {"donor", "collection"} =>
                   queue[a].of \in 1 .. a - 1 /\ Refers(queue[a].type, queue[queue[a].of].type)
      BY <1>1, SyncAssumption DEF Actions
<1>3. ASSUME NEW a \in Actions, queue[a].type \in {"donor", "donation", "collection"}
      PROVE  queue[a].email \in Emails \union {None}
  <2>1. queue[a].email \in Emails \union {None, Kept}
        BY <1>2 DEF Action
  <2>2. CASE queue[a].type = "donor"
        BY <1>2, <2>1, <2>2
  <2>3. CASE queue[a].type # "donor"
    <3>1. queue[a].type \notin {"donor", "edit"}
          BY <1>3, <2>3
    <3>2. QED BY <1>2, <3>1
  <2>4. QED BY <2>2, <2>3
<1>4. QED BY <1>1, <1>2, <1>3

\* The action a batch is at is one of those it has still to do.
LEMMA AtIsTodo ==
    ASSUME TypeOK, NEW c \in Calls, call[c].todo # {}
    PROVE  At(call[c]) \in call[c].todo /\ At(call[c]) \in Actions
<1>1. call[c].todo \subseteq Nat /\ call[c].todo \subseteq Actions
      BY QueueOK DEF TypeOK, Call
<1>2. QED BY <1>1, MinIsLeast DEF At

\* What an edit or a change is of has a row of its own.
LEMMA SubjectOfParent ==
    ASSUME queue \in Queues, NEW a \in Actions, queue[a].of # 0
    PROVE  /\ queue[a].of \in Actions
           /\ Subject(queue[a].of) = queue[a].of
<1>1. queue[a].of \in Actions /\ queue[queue[a].of].type \in {"donor", "donation"}
      BY QueueOK DEF Action, Refers
<1>2. QED BY <1>1 DEF Subject

\* A reference that can be resolved names the row of what it refers to.
LEMMA RefIsRow ==
    ASSUME Sound, NEW c \in Calls, call[c].todo # {}
    PROVE  LET of == queue[At(call[c])].of
           IN  of # 0 => /\ Ref(call[c]) \in Nat
                         /\ Ref(call[c]) # 0 => IsRowOf(of, Ref(call[c]))
                                             /\ rows[Ref(call[c])].from = of
<1> DEFINE of == queue[At(call[c])].of
<1>1. SUFFICES ASSUME of # 0
               PROVE  /\ Ref(call[c]) \in Nat
                      /\ Ref(call[c]) # 0 => IsRowOf(of, Ref(call[c]))
                                          /\ rows[Ref(call[c])].from = of
      OBVIOUS
<1>2. of \in Actions /\ Subject(of) = of
      BY <1>1, AtIsTodo, SubjectOfParent DEF Sound, TypeOK
<1>3. call[c] \in Call
      BY DEF Sound, TypeOK
<1>4. call[c].refs[of] \in Nat /\ call[c].map[of] \in Nat
      BY <1>2, <1>3 DEF Call
<1>5. /\ call[c].refs[of] # 0 => IsRowOf(of, call[c].refs[of])
      /\ call[c].map[of] # 0 => IsRowOf(of, call[c].map[of])
      BY <1>2 DEF Sound, CallsOK, IdsOK
<1>6. Ref(call[c]) = IF call[c].refs[of] # 0 THEN call[c].refs[of] ELSE call[c].map[of]
      BY DEF Ref
<1>7. Ref(call[c]) # 0 => IsRowOf(of, Ref(call[c]))
      BY <1>5, <1>6
<1>8. QED BY <1>2, <1>4, <1>6, <1>7 DEF IsRowOf

-----------------------------------------------------------------------------
(* How the rows change.                                                    *)

\* No row disappears or goes over to another action, and what is recorded stays.
Keep ==
    /\ queue' = queue
    /\ \A a \in Actions, r \in Nat : /\ IsRowOf(a, r) => IsRowOf(a, r)'
                                     /\ Recorded(a, r) => Recorded(a, r)'

\* A step that leaves the rows alone keeps them.
LEMMA SameRowsKeep ==
    ASSUME UNCHANGED <<queue, rows>>, overlapped => overlapped'
    PROVE  Keep
BY DEF Keep, IsRowOf, Recorded, Subject, Actions

\* A row is added at the end.
LEMMA InsertKeeps ==
    ASSUME Sound, NEW a \in Actions, NEW of \in Nat, NEW m \in Emails \union {None},
           UNCHANGED <<queue, overlapped>>,
           rows' = Append(rows, [from |-> a, of |-> of, edits |-> {}, email |-> m])
    PROVE  /\ rows' \in Seq(Row)
           /\ DOMAIN rows' = DOMAIN rows \union {Len(rows) + 1}
           /\ Len(rows) + 1 \in Nat \ {0} /\ Len(rows) + 1 \notin DOMAIN rows
           /\ \A r \in DOMAIN rows : rows'[r] = rows[r]
           /\ rows'[Len(rows) + 1] = [from |-> a, of |-> of, edits |-> {}, email |-> m]
           /\ Keep
<1>1. rows \in Seq(Row) /\ [from |-> a, of |-> of, edits |-> {}, email |-> m] \in Row
      BY DEF Sound, TypeOK, Row
<1>2. /\ rows' \in Seq(Row)
      /\ DOMAIN rows' = DOMAIN rows \union {Len(rows) + 1}
      /\ Len(rows) + 1 \in Nat \ {0} /\ Len(rows) + 1 \notin DOMAIN rows
      /\ \A r \in DOMAIN rows : rows'[r] = rows[r]
      /\ rows'[Len(rows) + 1] = [from |-> a, of |-> of, edits |-> {}, email |-> m]
      BY <1>1
<1>3. Keep
      BY <1>2 DEF Keep, IsRowOf, Recorded, Subject, Actions
<1>4. QED BY <1>2, <1>3

\* One row is saved anew, for the same action, and all that is recorded there is among
\* the edits it has then.
LEMMA EditKeeps ==
    ASSUME Sound, NEW x \in DOMAIN rows, NEW y \in Row, UNCHANGED <<queue, overlapped>>,
           y.from = rows[x].from, y.of = rows[x].of,
           rows' = [rows EXCEPT ![x] = y],
           \A a \in Actions : Recorded(a, x) /\ queue[a].type = "change" => a \in y.edits,
           \A a \in Actions : Recorded(a, x) /\ queue[a].type = "edit" => a \in y.edits \/ overlapped
    PROVE  /\ rows' \in Seq(Row)
           /\ DOMAIN rows' = DOMAIN rows
           /\ \A r \in DOMAIN rows : rows'[r].from = rows[r].from /\ rows'[r].of = rows[r].of
           /\ rows'[x] = y
           /\ Keep
<1>1. rows \in Seq(Row) /\ \A r \in DOMAIN rows : rows[r] \in Row
      BY DEF Sound, TypeOK
<1>2. /\ DOMAIN rows' = DOMAIN rows
      /\ rows'[x] = y
      /\ \A r \in DOMAIN rows \ {x} : rows'[r] = rows[r]
      OBVIOUS
<1>3. rows' \in Seq(Row)
  <2>1. DOMAIN rows' = 1 .. Len(rows) /\ Len(rows) \in Nat
        BY <1>1, <1>2
  <2>2. \A r \in 1 .. Len(rows) : rows'[r] \in Row
        BY <1>1, <1>2
  <2>3. rows' = [r \in 1 .. Len(rows) |-> rows'[r]]
        BY <2>1, <1>1
  <2>4. [r \in 1 .. Len(rows) |-> rows'[r]] \in Seq(Row)
        BY <2>1, <2>2
  <2>5. QED BY <2>3, <2>4
<1>4. \A r \in DOMAIN rows : rows'[r].from = rows[r].from /\ rows'[r].of = rows[r].of
      BY <1>1, <1>2
<1>5. Keep
      BY <1>2, <1>4 DEF Keep, IsRowOf, Recorded, Subject, Actions
<1>6. QED BY <1>2, <1>3, <1>4, <1>5

-----------------------------------------------------------------------------
(* How the handlers change.                                                *)

HandlerOK(c) == PlaceOK(c) /\ AtOK(c) /\ IdsOK(c)

\* The types of the handlers depend on the queue, which stays.
LEMMA SameQueue ==
    ASSUME queue' = queue
    PROVE  /\ Actions' = Actions /\ Call' = Call /\ Row' = Row /\ NoCall' = NoCall
           /\ \A a \in Actions : Subject(a)' = Subject(a)
BY DEF Actions, Call, Row, NoCall, Unknown, Subject

\* A slot without a handler is in order.
LEMMA NoCallOK ==
    ASSUME queue \in Queues, queue' = queue, NEW c, call'[c] = NoCall
    PROVE  NoCall \in Call /\ HandlerOK(c)'
<1>1. NoCall \in Call
      BY DEF NoCall, Call, Unknown, Box, NewBox
<1>2. call'[c] = NoCall' /\ Actions' = Actions
      BY SameQueue
<1>3. PlaceOK(c)'
      BY <1>2 DEF PlaceOK, NoCall
<1>4. AtOK(c)'
      BY <1>2 DEF AtOK, NoCall, Editing
<1>5. IdsOK(c)'
      BY <1>2 DEF IdsOK, NoCall, Unknown
<1>6. QED BY <1>1, <1>3, <1>4, <1>5 DEF HandlerOK

\* A handler that does not move stays in order, whatever happens to the rows; the donor
\* it has read may have changed if another handler runs.
LEMMA OthersStay ==
    ASSUME Sound, Keep, NEW d \in Calls, call'[d] = call[d], overlapped => overlapped',
           rows' = rows \/ overlapped' \/ ~Editing(call[d])
    PROVE  HandlerOK(d)'
<1> DEFINE k == call[d]
<1>1. /\ PlaceOK(d) /\ AtOK(d) /\ IdsOK(d) /\ k \in Call
      BY DEF Sound, CallsOK, TypeOK
<1>2. Actions' = Actions /\ NoCall' = NoCall /\ \A a \in Actions : Subject(a)' = Subject(a)
      BY SameQueue DEF Keep
<1>3. PlaceOK(d)'
      BY <1>1, <1>2 DEF PlaceOK
<1>4. AtOK(d)'
  <2>1. k.op = "batch" /\ k.pc # "next" => At(k) \in Actions
        BY <1>1, AtIsTodo DEF AtOK, Sound
  <2>2. k.pc = "after" \/ Editing(k) => k.op = "batch" /\ k.pc # "next"
        BY <1>1 DEF PlaceOK, Call, NoCall, Editing
  <2>3. k.row \in Nat
        BY <1>1 DEF Call
  <2>4. \A a \in Actions : IsRowOf(a, k.row) => IsRowOf(a, k.row)'
        BY <2>3 DEF Keep
  <2>5. queue' = queue
        BY DEF Keep
  <2>6. /\ k.pc = "after" => queue[At(k)].type \in {"donor", "donation"} /\ IsRowOf(At(k), k.row)'
        /\ k.op = "batch" /\ k.pc \in {"box", "boxSave"} =>
              queue[At(k)].type = "collection" /\ IsRowOf(At(k), k.row)'
        /\ Editing(k) => queue[At(k)].type = "edit" /\ IsRowOf(At(k), k.row)'
        BY <1>1, <2>1, <2>2, <2>4 DEF AtOK
  <2>7. Editing(k) => overlapped' \/ k.edits = rows'[k.row].edits
        BY <1>1 DEF AtOK
  <2>8. /\ k.pc \in {"next", "donor"} => k.row = 0
        /\ k.op = "batch" /\ k.pc # "next" => k.todo # {}
        /\ k.pc = "donor" => queue[At(k)].type = "donor"
        BY <1>1 DEF AtOK
  <2>9. QED BY <2>5, <2>6, <2>7, <2>8 DEF AtOK, IsRowOf, Subject, At, Editing
<1>5. IdsOK(d)'
  <2>1. \A a \in Actions : k.refs[a] \in Nat /\ k.map[a] \in Nat
        BY <1>1 DEF Call
  <2>2. k.done \subseteq Actions
        BY <1>1 DEF Call
  <2>3. \A a \in Actions : /\ k.refs[a] # 0 => IsRowOf(a, k.refs[a])'
                           /\ k.map[a] # 0 => IsRowOf(a, k.map[a])'
        BY <1>1, <2>1 DEF Keep, IdsOK
  <2>4. \A a \in k.done : Recorded(a, k.map[a])'
        BY <1>1, <2>1, <2>2 DEF Keep, IdsOK
  <2>5. QED BY <1>2, <2>3, <2>4 DEF IdsOK, IsRowOf, Recorded, Subject
<1>6. QED BY <1>3, <1>4, <1>5 DEF HandlerOK

\* The ids a batch has stay sound when it goes on to another step of the same action.
LEMMA IdsStay ==
    ASSUME Sound, Keep, NEW c \in Calls, overlapped' = overlapped,
           call'[c].refs = call[c].refs, call'[c].map = call[c].map, call'[c].done = call[c].done
    PROVE  IdsOK(c)'
<1> DEFINE k == call[c]
<1>1. IdsOK(c) /\ k \in Call
      BY DEF Sound, CallsOK, TypeOK
<1>2. Actions' = Actions
      BY SameQueue DEF Keep
<1>3. /\ \A a \in Actions : k.refs[a] \in Nat /\ k.map[a] \in Nat
      /\ k.done \subseteq Actions
      BY <1>1 DEF Call
<1>4. \A a \in Actions : /\ k.refs[a] # 0 => IsRowOf(a, k.refs[a])'
                         /\ k.map[a] # 0 => IsRowOf(a, k.map[a])'
      BY <1>1, <1>3 DEF Keep, IdsOK
<1>5. \A a \in k.done : Recorded(a, k.map[a])'
      BY <1>1, <1>3 DEF Keep, IdsOK
<1>6. QED BY <1>2, <1>4, <1>5 DEF IdsOK, IsRowOf, Recorded, Subject

\* An action that failed leaves the batch in order.
LEMMA FailedOK ==
    ASSUME Sound, Keep, NEW c \in Calls, call[c].op = "batch", overlapped' = overlapped,
           call'[c] = Failed(call[c])
    PROVE  Failed(call[c]) \in Call /\ HandlerOK(c)'
<1> DEFINE k == call[c]
<1>1. k \in Call
      BY DEF Sound, TypeOK
<1>2. /\ Failed(k) \in Call
      /\ Failed(k).pc = "next" /\ Failed(k).row = 0 /\ Failed(k).op = "batch"
      /\ Failed(k).refs = k.refs /\ Failed(k).map = k.map /\ Failed(k).done = k.done
      BY <1>1 DEF Failed, Call
<1>3. PlaceOK(c)' /\ AtOK(c)'
      BY <1>2 DEF PlaceOK, AtOK, Editing
<1>4. IdsOK(c)'
      BY <1>2, IdsStay
<1>5. QED BY <1>2, <1>3, <1>4 DEF HandlerOK

\* And so does an action that is recorded.
LEMMA DoneOK ==
    ASSUME Sound, Keep, NEW c \in Calls, call[c].op = "batch", call[c].todo # {},
           overlapped' = overlapped, NEW id \in Nat,
           NEW a \in Actions, a = At(call[c]), Recorded(a, id)',
           call'[c] = Done(call[c], id)
    PROVE  Done(call[c], id) \in Call /\ HandlerOK(c)'
<1>1. call[c] \in Call /\ IdsOK(c)
      BY DEF Sound, TypeOK, CallsOK
<1>2. PICK k : k = call[c]
      OBVIOUS
<1>3. PICK l : l = Done(k, id)
      OBVIOUS
<1>4. k \in Call /\ call'[c] = l /\ a = At(k)
      BY <1>1, <1>2, <1>3
<1>5. /\ l.pc = "next" /\ l.row = 0 /\ l.op = "batch" /\ l.refs = k.refs
      /\ l.map = [k.map EXCEPT ![a] = id] /\ l.done = k.done \union {a}
      BY <1>2, <1>3, <1>4 DEF Done, Call
<1>6. l \in Call
  <2>1. [k.map EXCEPT ![a] = id] \in [Actions -> Nat]
        BY <1>4 DEF Call
  <2>2. k.todo \ {a} \in SUBSET Actions /\ k.done \union {a} \in SUBSET Actions
        BY <1>4 DEF Call
  <2>3. NewBox \in Box
        BY DEF NewBox, Box
  <2>4. l.todo = k.todo \ {a} /\ l.edits = {} /\ l.email = None /\ l.box = NewBox
        BY <1>3, <1>4 DEF Done, Call
  <2>5. l = [op |-> l.op, pc |-> l.pc, todo |-> l.todo, refs |-> l.refs, map |-> l.map,
             done |-> l.done, row |-> l.row, edits |-> l.edits, email |-> l.email, box |-> l.box]
        BY <1>3, <1>4 DEF Done, Call
  <2>6. QED BY <1>4, <1>5, <2>1, <2>2, <2>3, <2>4, <2>5 DEF Call
<1>7. PlaceOK(c)' /\ AtOK(c)'
      BY <1>4, <1>5 DEF PlaceOK, AtOK, Editing
<1>8. IdsOK(c)'
  <2>1. Actions' = Actions
        BY SameQueue DEF Keep
  <2>2. \A b \in Actions : k.refs[b] \in Nat /\ k.map[b] \in Nat
        BY <1>4 DEF Call
  <2>3. k.done \subseteq Actions /\ k.map \in [Actions -> Nat]
        BY <1>4 DEF Call
  <2>4. IsRowOf(a, id)'
        BY DEF Recorded
  <2>5. \A b \in Actions : /\ k.refs[b] # 0 => IsRowOf(b, k.refs[b])'
                           /\ k.map[b] # 0 => IsRowOf(b, k.map[b])'
        BY <1>1, <1>2, <2>2 DEF Keep, IdsOK
  <2>6. \A b \in Actions : l.map[b] = IF b = a THEN id ELSE k.map[b]
        BY <1>5, <2>3
  <2>7. \A b \in Actions : l.map[b] # 0 => IsRowOf(b, l.map[b])'
        BY <2>4, <2>5, <2>6
  <2>8. \A b \in k.done : Recorded(b, k.map[b])'
        BY <1>1, <1>2, <2>2, <2>3 DEF Keep, IdsOK
  <2>9. \A b \in l.done : Recorded(b, l.map[b])'
        BY <1>5, <2>3, <2>6, <2>8
  <2>10. \A b \in Actions : l.refs[b] # 0 => IsRowOf(b, l.refs[b])'
        BY <1>5, <2>5
  <2>11. QED BY <1>4, <2>1, <2>7, <2>9, <2>10 DEF IdsOK, IsRowOf, Recorded, Subject
<1>9. QED BY <1>3, <1>2, <1>6, <1>7, <1>8 DEF HandlerOK

\* One handler moves, the others stay as they are.
LEMMA MoveHandler ==
    ASSUME Sound, Keep, NEW c \in Calls, NEW k \in Call, Set(c, k), HandlerOK(c)',
           overlapped => overlapped', rows' = rows \/ Running(c)
    PROVE  call' \in [Calls -> Call] /\ CallsOK'
<1>1. call \in [Calls -> Call] /\ call' = [call EXCEPT ![c] = k]
      BY DEF Sound, TypeOK, Set
<1>2. ASSUME NEW d \in Calls PROVE HandlerOK(d)'
  <2>1. CASE d = c
        BY <2>1
  <2>2. CASE d # c
    <3>1. call'[d] = call[d]
          BY <1>1, <2>2
    <3>2. rows' = rows \/ overlapped' \/ ~Editing(call[d])
      <4>1. ASSUME Editing(call[d]), Running(c), ~overlapped PROVE FALSE
        <5>1. call[d].op # "none"
              BY <4>1 DEF Sound, CallsOK, PlaceOK, NoCall, Editing
        <5>2. QED BY <2>2, <4>1, <5>1 DEF Sound, Alone, Running
      <4>2. QED BY <4>1
    <3>3. QED BY <3>1, <3>2, OthersStay
  <2>3. QED BY <2>1, <2>2
<1>3. QED BY <1>1, <1>2 DEF CallsOK, HandlerOK

\* A handler that runs already overlaps no more than before.
LEMMA MoveAlone ==
    ASSUME Sound, NEW c \in Calls, NEW k, Set(c, k), Running(c) \/ k.op = "none",
           overlapped => overlapped'
    PROVE  Alone'
<1>1. call \in [Calls -> Call] /\ call' = [call EXCEPT ![c] = k]
      BY DEF Sound, TypeOK, Set
<1>2. \A d \in Calls : call'[d] = IF d = c THEN k ELSE call[d]
      BY <1>1
<1>3. QED BY <1>2 DEF Sound, Alone, Running

\* A request that comes while another handler runs overlaps with it.
LEMMA BeginAlone ==
    ASSUME Sound, NEW c \in Calls, NEW k, Begin(c, k)
    PROVE  Alone'
<1>1. call \in [Calls -> Call] /\ call' = [call EXCEPT ![c] = k]
      BY DEF Sound, TypeOK, Begin, Set
<1>2. \A d \in Calls : call'[d] = IF d = c THEN k ELSE call[d]
      BY <1>1
<1>3. QED BY <1>2 DEF Alone, Begin, Quiet, Running

\* The device waits for a batch as long as there is one.
LEMMA DeviceStays ==
    ASSUME Sound, Keep, NEW c \in Calls, NEW k, Set(c, k), waiting = c => k.op = "batch",
           UNCHANGED <<queue, pending, known, waiting>>
    PROVE  DeviceOK'
<1>1. call' = [call EXCEPT ![c] = k] /\ call \in [Calls -> Call]
      BY DEF Set, Sound, TypeOK
<1>2. waiting # Nobody => call'[waiting].op = "batch"
  <2>1. waiting # Nobody => waiting \in Calls /\ call[waiting].op = "batch"
        BY DEF Sound, DeviceOK, TypeOK
  <2>2. QED BY <1>1, <2>1
<1>3. known \in [Actions -> Nat]
      BY DEF Sound, TypeOK
<1>4. /\ \A a \in Actions : known[a] # 0 => IsRowOf(a, known[a])'
      /\ \A a \in Actions \ pending : Recorded(a, known[a])'
  <2>1. \A a \in Actions : known[a] \in Nat
        BY <1>3
  <2>2. QED BY <2>1 DEF Sound, DeviceOK, Keep
<1>5. Actions' = Actions
      BY SameQueue
<1>6. QED BY <1>2, <1>4, <1>5 DEF DeviceOK, IsRowOf, Recorded, Subject

\* Rows that keep what they refer to refer to the right ones.
LEMMA ParentsStay ==
    ASSUME Sound, queue' = queue, DOMAIN rows' = DOMAIN rows,
           \A r \in DOMAIN rows : rows'[r].from = rows[r].from /\ rows'[r].of = rows[r].of
    PROVE  ParentsOK'
BY DEF Sound, ParentsOK

\* A row that is added refers to nothing, or to a row of what its action refers to.
LEMMA ParentsGrow ==
    ASSUME Sound, queue' = queue, NEW a \in Actions, NEW of \in Nat, NEW n,
           DOMAIN rows' = DOMAIN rows \union {n}, n \notin DOMAIN rows,
           \A r \in DOMAIN rows : rows'[r] = rows[r],
           rows'[n].from = a /\ rows'[n].of = of,
           IF queue[a].of = 0 THEN of = 0
           ELSE of \in DOMAIN rows /\ rows[of].from = queue[a].of
    PROVE  ParentsOK'
BY DEF Sound, ParentsOK

-----------------------------------------------------------------------------
(* The steps of a batch keep the ids sound.                                *)

\* What a step of a handler that goes on leaves as it is.
LEMMA BatchStep ==
    ASSUME Sound, Keep, NEW c \in Calls, Running(c), NEW k \in Call, Set(c, k), HandlerOK(c)',
           call[c].op = "batch" => k.op = "batch",
           rows' \in Seq(Row), ParentsOK', box' \in Box, faults' \in Nat,
           timeouts + faults' <= MaxTroubles, owed' \in Nat, removed' \in BOOLEAN,
           UNCHANGED <<queue, pending, known, waiting, left, timeouts, overlapped>>
    PROVE  Sound'
<1>1. call' \in [Calls -> Call] /\ CallsOK'
      BY MoveHandler
<1>2. Alone'
      BY MoveAlone
<1>3. waiting = c => k.op = "batch"
      BY SyncAssumption DEF Sound, DeviceOK
<1>4. DeviceOK'
      BY <1>3, DeviceStays
<1>5. Actions' = Actions /\ Call' = Call /\ Row' = Row
      BY SameQueue
<1>6. TypeOK'
      BY <1>1, <1>5 DEF Sound, TypeOK
<1>7. QED BY <1>1, <1>2, <1>4, <1>6 DEF Sound

\* A step of a batch that leaves the rows alone.
LEMMA QuietStep ==
    ASSUME Sound, NEW c \in Calls, Running(c), NEW k \in Call, Set(c, k), HandlerOK(c)',
           call[c].op = "batch" => k.op = "batch", box' \in Box, faults' \in Nat,
           timeouts + faults' <= MaxTroubles, owed' \in Nat, removed' \in BOOLEAN,
           UNCHANGED <<queue, pending, known, waiting, rows, left, timeouts, overlapped>>
    PROVE  Sound'
<1>1. Keep
      BY SameRowsKeep
<1>2. rows' \in Seq(Row)
      BY DEF Sound, TypeOK
<1>3. ParentsOK'
      BY ParentsStay
<1>4. QED BY <1>1, <1>2, <1>3, BatchStep

\* An action that fails is sound.
LEMMA FailedSound ==
    ASSUME Sound, NEW c \in Calls, call[c].op = "batch", Set(c, Failed(call[c])),
           box' = box, faults' \in Nat, timeouts + faults' <= MaxTroubles,
           owed' \in Nat, removed' \in BOOLEAN,
           UNCHANGED <<queue, pending, known, waiting, rows, left, timeouts, overlapped>>
    PROVE  Sound'
<1>1. call[c] \in Call /\ call'[c] = Failed(call[c])
      BY DEF Sound, TypeOK, Set
<1>2. Keep
      BY SameRowsKeep
<1>3. Failed(call[c]) \in Call /\ HandlerOK(c)'
      BY <1>1, <1>2, FailedOK
<1>4. Failed(call[c]).op = "batch"
      BY <1>1 DEF Failed, Call
<1>5. Running(c) /\ box' \in Box
      BY DEF Running, Sound, TypeOK
<1>6. QED BY <1>3, <1>4, <1>5, QuietStep

\* What the step a handler is at says of it.
LEMMA PlaceTells ==
    ASSUME Sound, NEW c \in Calls
    PROVE  /\ call[c] \in Call /\ PlaceOK(c) /\ AtOK(c) /\ IdsOK(c)
           /\ call[c].pc \in {"next", "donor", "after", "email", "donorSave"} => call[c].op = "batch"
           /\ call[c].pc \in {"box", "boxSave"} => call[c].op \in {"batch", "count", "assign"}
           /\ call[c].pc = "remove" => call[c].op = "remove"
           /\ call[c].pc # "none" => Running(c)
<1>1. call[c] \in Call /\ PlaceOK(c) /\ AtOK(c) /\ IdsOK(c)
      BY DEF Sound, TypeOK, CallsOK
<1>2. QED BY <1>1 DEF PlaceOK, NoCall, Call, Running

\* Counters that do not change stay within their bounds.
LEMMA SameBounds ==
    ASSUME Sound
    PROVE  /\ box \in Box /\ timeouts \in Nat /\ faults \in Nat /\ owed \in Nat
           /\ timeouts + faults <= MaxTroubles /\ removed \in BOOLEAN
           /\ rows \in Seq(Row) /\ queue \in Queues
BY DEF Sound, TypeOK

LEMMA FindDonorSound ==
    ASSUME Sound, NEW c \in Calls, FindDonor(c)
    PROVE  Sound'
<1> DEFINE k == call[c]
           l == [k EXCEPT !.pc = "donor"]
<1>1. /\ k.pc = "next" /\ k.todo # {} /\ queue[At(k)].type = "donor" /\ k.op = "batch" /\ Running(c)
      /\ k.row = 0
      BY PlaceTells DEF FindDonor, IsAt, AtOK
<1>2. CASE Known(At(k))
  <2>1. Set(c, Failed(k))
        BY <1>2 DEF FindDonor
  <2>2. QED BY <1>1, <2>1, FailedSound, SameBounds
               DEF FindDonor, deviceVars, serverVars, historyVars
<1>3. CASE ~Known(At(k))
  <2>1. Set(c, l)
        BY <1>3 DEF FindDonor
  <2>2. k \in Call /\ call'[c] = l
        BY <2>1 DEF Set, Sound, TypeOK
  <2>3. /\ l \in Call /\ l.pc = "donor" /\ l.op = "batch" /\ l.row = 0 /\ l.todo = k.todo
        /\ l.refs = k.refs /\ l.map = k.map /\ l.done = k.done /\ At(l) = At(k)
        BY <1>1, <2>2 DEF Call, At
  <2>4. /\ Keep /\ queue' = queue
        /\ UNCHANGED <<deviceVars, serverVars, left, historyVars>>
        BY SameRowsKeep DEF FindDonor, deviceVars, serverVars, historyVars
  <2>5. PlaceOK(c)' /\ AtOK(c)'
        BY <1>1, <2>2, <2>3, <2>4 DEF PlaceOK, AtOK, At, Editing
  <2>6. IdsOK(c)'
        BY <2>2, <2>3, <2>4, IdsStay DEF historyVars
  <2>7. HandlerOK(c)'
        BY <2>5, <2>6 DEF HandlerOK
  <2>8. QED BY <1>1, <2>1, <2>3, <2>4, <2>7, QuietStep, SameBounds
               DEF deviceVars, serverVars, historyVars
<1>4. QED BY <1>2, <1>3

\* The row an action becomes is one of that action.
LEMMA InsertSound ==
    ASSUME Sound, NEW c \in Calls, call[c].op = "batch", call[c].todo # {}, NEW of \in Nat, NEW pc,
           Insert(c, of, pc),
           NEW a, a = At(call[c]),
           IF queue[a].of = 0 THEN of = 0 ELSE of \in DOMAIN rows /\ rows[of].from = queue[a].of,
           \/ pc = "after" /\ queue[a].type \in {"donor", "donation"}
           \/ pc = "box" /\ queue[a].type = "collection",
           UNCHANGED <<deviceVars, box, left, timeouts, faults, overlapped, removed>>, owed' \in Nat
    PROVE  Sound'
<1>1. PICK l : l = [call[c] EXCEPT !.row = Len(rows) + 1, !.pc = pc]
      OBVIOUS
<1>2. a \in Actions /\ a \in call[c].todo
      BY AtIsTodo DEF Sound
<1>0. PICK m \in Emails \union {None} : m = queue[a].email
  <2>1. queue[a].type \in {"donor", "donation", "collection"}
        OBVIOUS
  <2>2. QED BY <1>2, <2>1, QueueOK DEF Sound, TypeOK
<1>3. Set(c, l) /\ rows' = Append(rows, [from |-> a, of |-> of, edits |-> {}, email |-> m])
      BY <1>0, <1>1 DEF Insert
<1>4. PICK n : n = Len(rows) + 1
      OBVIOUS
<1>5. /\ rows' \in Seq(Row) /\ Keep
      /\ DOMAIN rows' = DOMAIN rows \union {n} /\ n \in Nat \ {0} /\ n \notin DOMAIN rows
      /\ \A r \in DOMAIN rows : rows'[r] = rows[r]
      /\ rows'[n] = [from |-> a, of |-> of, edits |-> {}, email |-> m]
      BY <1>2, <1>3, <1>4, InsertKeeps DEF deviceVars
<1>6. call[c] \in Call /\ call'[c] = l /\ queue' = queue
      BY <1>3 DEF Set, Sound, TypeOK, deviceVars
<1>7. /\ l \in Call /\ l.op = "batch" /\ l.row = n /\ l.pc = pc /\ l.todo = call[c].todo
      /\ l.refs = call[c].refs /\ l.map = call[c].map /\ l.done = call[c].done
      BY <1>1, <1>4, <1>5, <1>6 DEF Call
<1>8. At(l) = a
      BY <1>7 DEF At
<1>9. IsRowOf(a, n)'
  <2>1. queue[a].type \in {"donor", "donation", "collection"}
        OBVIOUS
  <2>2. QED BY <1>5, <1>6, <2>1 DEF IsRowOf, Subject
<1>10. PlaceOK(c)' /\ AtOK(c)'
  <2>1. PlaceOK(c)'
        BY <1>6, <1>7 DEF PlaceOK
  <2>2. AtOK(c)'
    <3>1. /\ pc = "after" => queue[a].type \in {"donor", "donation"}
          /\ pc = "box" => queue[a].type = "collection"
          OBVIOUS
    <3>2. At(call'[c]) = a
          BY <1>6, <1>8
    <3>3. pc \in {"after", "box"} /\ l.todo # {}
          BY <1>7
    <3>4. IsRowOf(At(call[c]), call[c].row)'
          BY <1>6, <1>7, <1>9, <3>2 DEF IsRowOf, Subject
    <3>5. QED BY <1>6, <1>7, <3>1, <3>2, <3>3, <3>4 DEF AtOK, Editing
  <2>3. QED BY <2>1, <2>2
<1>11. IdsOK(c)'
      BY <1>5, <1>6, <1>7, IdsStay
<1>12. HandlerOK(c)'
      BY <1>10, <1>11 DEF HandlerOK
<1>13. ParentsOK'
  <2>1. rows'[n].from = a /\ rows'[n].of = of
        BY <1>5
  <2>2. QED BY <1>2, <1>5, <1>6, <2>1, ParentsGrow
<1>14. Running(c)
      BY DEF Running
<1>15. QED BY <1>3, <1>5, <1>7, <1>12, <1>13, <1>14, BatchStep, SameBounds DEF deviceVars

LEMMA InsertDonorSound ==
    ASSUME Sound, NEW c \in Calls, InsertDonor(c)
    PROVE  Sound'
<1>1. call[c].pc = "donor" /\ call[c].op = "batch" /\ call[c].todo # {}
      /\ queue[At(call[c])].type = "donor"
      BY PlaceTells DEF InsertDonor, AtOK
<1>2. UNCHANGED <<deviceVars, box, left, timeouts, faults, overlapped, removed>> /\ owed' = owed
      BY DEF InsertDonor, historyVars
<1>3. CASE Known(At(call[c]))
      BY <1>1, <1>2, <1>3, FailedSound, SameBounds DEF InsertDonor, deviceVars
<1>4. CASE ~Known(At(call[c]))
  <2>1. Insert(c, 0, "after")
        BY <1>4 DEF InsertDonor
  <2>2. queue[At(call[c])].of = 0
        BY <1>1, AtIsTodo, QueueOK DEF Sound, TypeOK
  <2>3. owed' \in Nat
        BY <1>2, SameBounds
  <2>4. QED BY <1>1, <1>2, <2>1, <2>2, <2>3, InsertSound
<1>5. QED BY <1>3, <1>4

LEMMA CreateDonationSound ==
    ASSUME Sound, NEW c \in Calls, CreateDonation(c)
    PROVE  Sound'
<1> DEFINE of == Ref(call[c])
<1>1. /\ call[c].pc = "next" /\ call[c].op = "batch" /\ call[c].todo # {}
      /\ queue[At(call[c])].type = "donation"
      BY PlaceTells DEF CreateDonation, IsAt
<1>2. UNCHANGED <<deviceVars, box, left, timeouts, faults, overlapped, removed>> /\ owed' = owed
      BY DEF CreateDonation, historyVars
<1>3. CASE of = 0
      BY <1>1, <1>2, <1>3, FailedSound, SameBounds DEF CreateDonation, deviceVars
<1>4. CASE of # 0
  <2>1. Insert(c, of, "after")
        BY <1>4 DEF CreateDonation
  <2>2. queue[At(call[c])].of # 0
        BY <1>1, AtIsTodo, QueueOK DEF Sound, TypeOK
  <2>3. /\ of \in Nat /\ of \in DOMAIN rows
        /\ rows[of].from = queue[At(call[c])].of
        BY <1>1, <1>4, <2>2, RefIsRow DEF IsRowOf
  <2>4. owed' \in Nat
        BY <1>2, SameBounds
  <2>5. QED BY <1>1, <1>2, <2>1, <2>2, <2>3, <2>4, InsertSound
<1>5. QED BY <1>3, <1>4

LEMMA CreateCollectionSound ==
    ASSUME Sound, NEW c \in Calls, CreateCollection(c)
    PROVE  Sound'
<1>1. /\ call[c].pc = "next" /\ call[c].op = "batch" /\ call[c].todo # {}
      /\ queue[At(call[c])].type = "collection"
      BY PlaceTells DEF CreateCollection, IsAt
<1>2. UNCHANGED <<deviceVars, box, left, timeouts, faults, overlapped, removed>> /\ owed' \in Nat
      BY SameBounds DEF CreateCollection
<1>3. Insert(c, 0, "box")
      BY DEF CreateCollection
<1>4. queue[At(call[c])].of = 0
      BY <1>1, AtIsTodo, QueueOK DEF Sound, TypeOK
<1>5. QED BY <1>1, <1>2, <1>3, <1>4, InsertSound

\* An action that is recorded is sound, whatever it did to the rows.
LEMMA DoneSound ==
    ASSUME Sound, Keep, NEW c \in Calls, call[c].op = "batch", call[c].todo # {},
           NEW id \in Nat, Set(c, Done(call[c], id)),
           NEW a \in Actions, a = At(call[c]), Recorded(a, id)',
           rows' \in Seq(Row), ParentsOK', box' \in Box, faults' \in Nat,
           timeouts + faults' <= MaxTroubles,
           UNCHANGED <<queue, pending, known, waiting, left, timeouts, overlapped, owed, removed>>
    PROVE  Sound'
<1>1. call[c] \in Call /\ call'[c] = Done(call[c], id)
      BY DEF Sound, TypeOK, Set
<1>2. Done(call[c], id) \in Call /\ HandlerOK(c)'
      BY <1>1, DoneOK
<1>3. Done(call[c], id).op = "batch" /\ Running(c)
      BY <1>1 DEF Done, Call, Running
<1>4. QED BY <1>2, <1>3, BatchStep, SameBounds

LEMMA CompleteSound ==
    ASSUME Sound, NEW c \in Calls, Complete(c)
    PROVE  Sound'
<1>1. /\ call[c].pc = "after" /\ call[c].op = "batch" /\ call[c].todo # {} /\ call[c] \in Call
      /\ queue[At(call[c])].type \in {"donor", "donation"} /\ IsRowOf(At(call[c]), call[c].row)
      BY PlaceTells DEF Complete, AtOK
<1>2. UNCHANGED <<deviceVars, serverVars, left, timeouts, overlapped, owed, removed>>
      BY DEF Complete
<1>3. CASE Set(c, Done(call[c], call[c].row)) /\ UNCHANGED faults
  <2>1. PICK a \in Actions : a = At(call[c])
        BY <1>1, AtIsTodo DEF Sound
  <2>2. PICK id \in Nat : id = call[c].row
        BY <1>1 DEF Call
  <2>3. Keep
        BY <1>2, SameRowsKeep DEF deviceVars, serverVars
  <2>4. Recorded(a, id)
        BY <1>1, <2>1, <2>2 DEF Recorded
  <2>5. Recorded(a, id)'
        BY <2>3, <2>4 DEF Keep
  <2>6. ParentsOK'
        BY <1>2, ParentsStay DEF deviceVars, serverVars
  <2>7. QED BY <1>1, <1>2, <1>3, <2>1, <2>2, <2>3, <2>5, <2>6, DoneSound, SameBounds
               DEF deviceVars, serverVars
<1>4. CASE Trouble /\ faults' = faults + 1 /\ Set(c, Failed(call[c]))
  <2>1. faults' \in Nat /\ timeouts + faults' <= MaxTroubles
        BY <1>4, SameBounds, SyncAssumption DEF Trouble
  <2>2. QED BY <1>1, <1>2, <1>4, <2>1, FailedSound, SameBounds DEF deviceVars, serverVars
<1>5. QED BY <1>3, <1>4 DEF Complete

LEMMA LoadDonorSound ==
    ASSUME Sound, NEW c \in Calls, LoadDonor(c)
    PROVE  Sound'
<1> DEFINE k == call[c]
           x == Ref(k)
           l == [k EXCEPT !.row = x, !.edits = rows[x].edits, !.email = rows[x].email, !.pc = "email"]
<1>1. /\ k.pc = "next" /\ k.todo # {} /\ queue[At(k)].type = "edit" /\ k.op = "batch" /\ Running(c)
      BY PlaceTells DEF LoadDonor, IsAt
<1>2. UNCHANGED <<deviceVars, serverVars, left, historyVars>>
      BY DEF LoadDonor
<1>3. CASE x = 0
  <2>1. Set(c, Failed(k))
        BY <1>3 DEF LoadDonor
  <2>2. QED BY <1>1, <1>2, <2>1, FailedSound, SameBounds DEF deviceVars, serverVars, historyVars
<1>4. CASE x # 0
  <2>1. Set(c, l)
        BY <1>4 DEF LoadDonor
  <2>2. k \in Call /\ call'[c] = l
        BY <2>1 DEF Set, Sound, TypeOK
  <2>3. At(k) \in Actions /\ queue[At(k)].of # 0
        BY <1>1, AtIsTodo, QueueOK DEF Sound, TypeOK
  <2>4. x \in Nat /\ x \in DOMAIN rows /\ rows[x].from = queue[At(k)].of
        BY <1>1, <1>4, <2>3, RefIsRow DEF IsRowOf
  <2>5. rows[x].edits \in SUBSET Actions /\ rows[x].email \in Emails \union {None}
    <3>1. \A r \in DOMAIN rows : rows[r] \in Row
          BY SameBounds
    <3>2. rows[x] \in Row
          BY <2>4, <3>1
    <3>3. QED BY <3>2 DEF Row
  <2>6. /\ l \in Call /\ l.pc = "email" /\ l.op = "batch" /\ l.row = x /\ l.todo = k.todo
        /\ l.edits = rows[x].edits
        /\ l.refs = k.refs /\ l.map = k.map /\ l.done = k.done /\ At(l) = At(k)
        BY <1>1, <2>2, <2>4, <2>5 DEF Call, At
  <2>7. Keep /\ queue' = queue /\ rows' = rows /\ overlapped' = overlapped
        BY <1>2, SameRowsKeep DEF deviceVars, serverVars, historyVars
  <2>8. PlaceOK(c)'
        BY <2>2, <2>6 DEF PlaceOK
  <2>9. AtOK(c)'
        BY <1>1, <2>2, <2>4, <2>6, <2>7 DEF AtOK, At, IsRowOf, Subject, Editing
  <2>10. IdsOK(c)'
        BY <2>2, <2>6, <2>7, IdsStay
  <2>11. HandlerOK(c)'
        BY <2>8, <2>9, <2>10 DEF HandlerOK
  <2>12. QED BY <1>1, <1>2, <2>1, <2>6, <2>11, QuietStep, SameBounds
                DEF deviceVars, serverVars, historyVars
<1>5. QED BY <1>3, <1>4

\* Where a handler is that edits a donor.
LEMMA EditingTells ==
    ASSUME Sound, NEW c \in Calls, Editing(call[c])
    PROVE  /\ call[c].op = "batch" /\ call[c].todo # {} /\ call[c] \in Call /\ Running(c)
           /\ queue[At(call[c])].type = "edit" /\ IsRowOf(At(call[c]), call[c].row)
           /\ overlapped \/ call[c].edits = rows[call[c].row].edits
           /\ At(call[c]) \in Actions /\ call[c].row \in DOMAIN rows
           /\ NextEmail(call[c]) \in Emails \union {None}
<1>1. /\ call[c].op = "batch" /\ call[c].pc # "next" /\ call[c] \in Call /\ Running(c) /\ AtOK(c)
      BY PlaceTells DEF Editing
<1>2. /\ call[c].todo # {}
      /\ queue[At(call[c])].type = "edit" /\ IsRowOf(At(call[c]), call[c].row)
      /\ overlapped \/ call[c].edits = rows[call[c].row].edits
      BY <1>1 DEF AtOK
<1>3. At(call[c]) \in Actions /\ call[c].row \in DOMAIN rows
      BY <1>2, AtIsTodo DEF Sound, IsRowOf
<1>4. NextEmail(call[c]) \in Emails \union {None}
  <2>1. queue[At(call[c])] \in Action
        BY <1>3, QueueOK DEF Sound, TypeOK
  <2>2. queue[At(call[c])].email \in Emails \union {None, Kept} /\ call[c].email \in Emails \union {None}
        BY <1>1, <2>1 DEF Action, Call
  <2>3. QED BY <2>2 DEF NextEmail
<1>5. QED BY <1>1, <1>2, <1>3, <1>4

LEMMA FindOtherSound ==
    ASSUME Sound, NEW c \in Calls, FindOther(c)
    PROVE  Sound'
<1> DEFINE k == call[c]
           l == [k EXCEPT !.pc = "donorSave"]
<1>1. /\ k.pc = "email" /\ k.op = "batch" /\ k.todo # {} /\ k \in Call /\ Running(c)
      /\ queue[At(k)].type = "edit" /\ IsRowOf(At(k), k.row)
      /\ overlapped \/ k.edits = rows[k.row].edits
      BY EditingTells DEF FindOther, Editing
<1>2. UNCHANGED <<deviceVars, serverVars, left, historyVars>>
      BY DEF FindOther
<1>3. CASE Set(c, Failed(k))
      BY <1>1, <1>2, <1>3, FailedSound, SameBounds DEF deviceVars, serverVars, historyVars
<1>4. CASE Set(c, l)
  <2>1. call'[c] = l
        BY <1>4 DEF Set, Sound, TypeOK
  <2>2. /\ l \in Call /\ l.pc = "donorSave" /\ l.op = "batch" /\ l.row = k.row /\ l.todo = k.todo
        /\ l.edits = k.edits
        /\ l.refs = k.refs /\ l.map = k.map /\ l.done = k.done /\ At(l) = At(k)
        BY <1>1 DEF Call, At
  <2>3. Keep /\ queue' = queue /\ rows' = rows /\ overlapped' = overlapped
        BY <1>2, SameRowsKeep DEF deviceVars, serverVars, historyVars
  <2>4. PlaceOK(c)'
        BY <2>1, <2>2 DEF PlaceOK
  <2>5. AtOK(c)'
        BY <1>1, <2>1, <2>2, <2>3 DEF AtOK, At, IsRowOf, Subject, Editing
  <2>6. IdsOK(c)'
        BY <2>1, <2>2, <2>3, IdsStay
  <2>7. HandlerOK(c)'
        BY <2>4, <2>5, <2>6 DEF HandlerOK
  <2>8. QED BY <1>1, <1>2, <1>4, <2>2, <2>7, QuietStep, SameBounds
               DEF deviceVars, serverVars, historyVars
<1>5. QED BY <1>3, <1>4 DEF FindOther

\* What saving a donor does to its row.
LEMMA SavedRow ==
    ASSUME Sound, NEW c \in Calls, Editing(call[c]),
           rows' = [rows EXCEPT ![call[c].row].edits = call[c].edits \union {At(call[c])},
                                ![call[c].row].email = NextEmail(call[c])],
           NEW y, y = [rows[call[c].row] EXCEPT !.edits = call[c].edits \union {At(call[c])},
                                                !.email = NextEmail(call[c])]
    PROVE  /\ y \in Row /\ rows' = [rows EXCEPT ![call[c].row] = y]
           /\ y.from = rows[call[c].row].from /\ y.of = rows[call[c].row].of
           /\ y.edits = call[c].edits \union {At(call[c])}
           /\ y.email = NextEmail(call[c])
<1>1. PICK x \in DOMAIN rows : x = call[c].row
      BY EditingTells
<1>2. PICK m \in Emails \union {None} : m = NextEmail(call[c])
      BY EditingTells
<1>3. PICK e \in SUBSET Actions : e = call[c].edits \union {At(call[c])}
      BY EditingTells DEF Call
<1>4. \A r \in DOMAIN rows : rows[r] \in Row
      BY SameBounds
<1>5. y = [rows[x] EXCEPT !.edits = e, !.email = m]
      BY <1>1, <1>2, <1>3
<1>6. /\ y \in Row
      /\ y.from = rows[x].from /\ y.of = rows[x].of /\ y.edits = e /\ y.email = m
      BY <1>4, <1>5 DEF Row
<1>7. rows' = [rows EXCEPT ![x] = y]
  <2>1. rows' = [rows EXCEPT ![x].edits = e, ![x].email = m]
        BY <1>1, <1>2, <1>3
  <2>2. QED BY <1>4, <1>5, <2>1 DEF Row
<1>8. QED BY <1>1, <1>2, <1>3, <1>6, <1>7

\* A change was recorded on the row of a donation, so saving a donor does not touch it;
\* an edit was recorded before the donor was read, as long as handlers do not overlap.
LEMMA SaveDonorSound ==
    ASSUME Sound, NEW c \in Calls, SaveDonor(c)
    PROVE  Sound'
<1> DEFINE k == call[c]
<1>0. Editing(k)
      BY DEF SaveDonor, Editing
<1>1. /\ k.op = "batch" /\ k.todo # {} /\ k \in Call /\ Running(c)
      /\ queue[At(k)].type = "edit" /\ IsRowOf(At(k), k.row)
      /\ overlapped \/ k.edits = rows[k.row].edits
      BY <1>0, EditingTells
<1>2. PICK a \in Actions : a = At(k)
      BY <1>1, AtIsTodo DEF Sound
<1>3. PICK x \in Nat : x = k.row
      BY <1>1 DEF Call
<1>4. UNCHANGED <<deviceVars, box, left, timeouts, overlapped, owed, removed>>
      BY DEF SaveDonor
<1>5. CASE Set(c, Failed(k)) /\ UNCHANGED <<rows, faults>>
      BY <1>1, <1>4, <1>5, FailedSound, SameBounds DEF deviceVars
<1>6. CASE rows' = [rows EXCEPT ![k.row].edits = k.edits \union {At(k)}, ![k.row].email = NextEmail(k)]
  <2>1. PICK y : y = [rows[k.row] EXCEPT !.edits = k.edits \union {At(k)}, !.email = NextEmail(k)]
        OBVIOUS
  <2>2. /\ y \in Row /\ rows' = [rows EXCEPT ![x] = y]
        /\ y.from = rows[x].from /\ y.of = rows[x].of /\ y.edits = k.edits \union {a}
        BY <1>0, <1>2, <1>3, <1>6, <2>1, SavedRow
  <2>3. /\ x \in DOMAIN rows /\ rows[x].from = queue[a].of
        /\ queue[a].type = "edit" /\ queue[queue[a].of].type = "donor"
    <3>1. x \in DOMAIN rows /\ rows[x].from = queue[a].of /\ queue[a].type = "edit"
          BY <1>1, <1>2, <1>3 DEF IsRowOf, Subject
    <3>2. Refers("edit", queue[queue[a].of].type)
          BY <3>1, QueueOK DEF Sound, TypeOK
    <3>3. QED BY <3>1, <3>2 DEF Refers
  <2>4. UNCHANGED <<queue, overlapped>>
        BY <1>4 DEF deviceVars
  <2>5. ASSUME NEW b \in Actions, Recorded(b, x), queue[b].type = "change" PROVE FALSE
    <3>1. rows[x].from = queue[b].of
          BY <2>5 DEF Recorded, IsRowOf, Subject
    <3>2. queue[queue[b].of].type = "donor"
          BY <2>3, <3>1
    <3>3. Refers("change", queue[queue[b].of].type)
          BY <2>5, QueueOK DEF Sound, TypeOK
    <3>4. QED BY <3>2, <3>3 DEF Refers
  <2>6. \A b \in Actions : Recorded(b, x) /\ queue[b].type = "edit" => b \in y.edits \/ overlapped
        BY <1>1, <1>3, <2>2 DEF Recorded
  <2>7. /\ rows' \in Seq(Row) /\ DOMAIN rows' = DOMAIN rows /\ Keep
        /\ \A r \in DOMAIN rows : rows'[r].from = rows[r].from /\ rows'[r].of = rows[r].of
        /\ rows'[x] = y
        BY <2>2, <2>3, <2>4, <2>5, <2>6, EditKeeps
  <2>8. Recorded(a, x)'
    <3>1. IsRowOf(a, x)
          BY <1>1, <1>2, <1>3
    <3>2. IsRowOf(a, x)'
          BY <2>7, <3>1 DEF Keep
    <3>3. QED BY <2>2, <2>3, <2>4, <2>7, <3>2 DEF Recorded
  <2>9. ParentsOK'
        BY <2>4, <2>7, ParentsStay
  <2>10. CASE Set(c, Done(k, k.row)) /\ UNCHANGED faults
        BY <1>1, <1>2, <1>3, <1>4, <2>7, <2>8, <2>9, <2>10, DoneSound, SameBounds DEF deviceVars
  <2>11. CASE Trouble /\ faults' = faults + 1 /\ Set(c, Failed(k))
    <3>1. faults' \in Nat /\ timeouts + faults' <= MaxTroubles
          BY <2>11, SameBounds, SyncAssumption DEF Trouble
    <3>2. call'[c] = Failed(k)
          BY <2>11 DEF Set, Sound, TypeOK
    <3>3. Failed(k) \in Call /\ HandlerOK(c)'
          BY <1>1, <2>4, <2>7, <3>2, FailedOK
    <3>4. Failed(k).op = "batch"
          BY <1>1 DEF Failed, Call
    <3>5. QED BY <1>1, <1>4, <2>7, <2>9, <2>11, <3>1, <3>3, <3>4, BatchStep, SameBounds DEF deviceVars
  <2>12. QED BY <1>5, <2>10, <2>11 DEF SaveDonor
<1>7. QED BY <1>5, <1>6 DEF SaveDonor

LEMMA ChangeDonationSound ==
    ASSUME Sound, NEW c \in Calls, ChangeDonation(c)
    PROVE  Sound'
<1> DEFINE k == call[c]
<1>1. /\ k.pc = "next" /\ k.op = "batch" /\ k.todo # {} /\ k \in Call
      /\ queue[At(k)].type = "change"
      BY PlaceTells DEF ChangeDonation, IsAt
<1>2. UNCHANGED <<deviceVars, box, left, historyVars>>
      BY DEF ChangeDonation
<1>3. CASE Ref(k) = 0
      BY <1>1, <1>2, <1>3, FailedSound, SameBounds DEF ChangeDonation, deviceVars, historyVars
<1>4. CASE Ref(k) # 0
  <2>1. PICK a \in Actions : a = At(k)
        BY <1>1, AtIsTodo DEF Sound
  <2>2. queue[a].type = "change" /\ queue[a].of # 0
        BY <1>1, <2>1, QueueOK DEF Sound, TypeOK
  <2>3. PICK x \in Nat : x = Ref(k)
        BY <1>1, <2>1, <2>2, RefIsRow
  <2>4. x \in DOMAIN rows /\ rows[x].from = queue[a].of
        BY <1>1, <1>4, <2>1, <2>2, <2>3, RefIsRow DEF IsRowOf
  <2>5. rows[x].edits \in SUBSET Actions
    <3>1. \A r \in DOMAIN rows : rows[r] \in Row
          BY SameBounds
    <3>2. rows[x] \in Row
          BY <2>4, <3>1
    <3>3. QED BY <3>2 DEF Row
  <2>6. PICK y : y = [rows[x] EXCEPT !.edits = @ \union {a}]
        OBVIOUS
  <2>7. /\ rows' = [rows EXCEPT ![x] = y]
        /\ Set(c, Done(k, x))
        /\ y \in Row /\ y.from = rows[x].from /\ y.of = rows[x].of /\ y.edits = rows[x].edits \union {a}
    <3>1. rows[x] \in Row
          BY <2>4, SameBounds
    <3>2. /\ rows' = [rows EXCEPT ![x].edits = @ \union {a}]
          /\ Set(c, Done(k, x))
          BY <1>4, <2>1, <2>3 DEF ChangeDonation
    <3>3. QED BY <2>5, <2>6, <3>1, <3>2 DEF Row
  <2>8. UNCHANGED <<queue, overlapped>>
        BY <1>2 DEF deviceVars, historyVars
  <2>9. \A b \in Actions : Recorded(b, x) /\ queue[b].type = "change" => b \in y.edits
        BY <2>7 DEF Recorded
  <2>10. \A b \in Actions : Recorded(b, x) /\ queue[b].type = "edit" => b \in y.edits \/ overlapped
        BY <2>7 DEF Recorded
  <2>11. /\ rows' \in Seq(Row) /\ DOMAIN rows' = DOMAIN rows /\ Keep
         /\ \A r \in DOMAIN rows : rows'[r].from = rows[r].from /\ rows'[r].of = rows[r].of
         /\ rows'[x] = y
        BY <2>4, <2>7, <2>8, <2>9, <2>10, EditKeeps
  <2>12. Recorded(a, x)'
    <3>1. IsRowOf(a, x)
          BY <2>2, <2>4 DEF IsRowOf, Subject
    <3>2. IsRowOf(a, x)'
          BY <2>11, <3>1 DEF Keep
    <3>3. QED BY <2>2, <2>7, <2>8, <2>11, <3>2 DEF Recorded
  <2>13. ParentsOK'
        BY <2>8, <2>11, ParentsStay
  <2>14. QED BY <1>1, <1>2, <2>1, <2>7, <2>11, <2>12, <2>13, DoneSound, SameBounds
                DEF deviceVars, historyVars
<1>5. QED BY <1>3, <1>4

-----------------------------------------------------------------------------
(* So do the handlers of the box.                                          *)

LEMMA ReadBoxSound ==
    ASSUME Sound, NEW c \in Calls, ReadBox(c)
    PROVE  Sound'
<1> DEFINE k == call[c]
           l == [k EXCEPT !.box = box, !.pc = "boxSave"]
<1>1. k.pc = "box" /\ k \in Call /\ k.op \in {"batch", "count", "assign"} /\ Running(c) /\ AtOK(c)
      BY PlaceTells DEF ReadBox
<1>2. UNCHANGED <<deviceVars, serverVars, left, historyVars>> /\ Set(c, l)
      BY DEF ReadBox
<1>3. call'[c] = l
      BY <1>2 DEF Set, Sound, TypeOK
<1>4. /\ l \in Call /\ l.pc = "boxSave" /\ l.op = k.op /\ l.row = k.row /\ l.todo = k.todo
      /\ l.refs = k.refs /\ l.map = k.map /\ l.done = k.done /\ At(l) = At(k)
      BY <1>1, SameBounds DEF Call, At
<1>5. Keep /\ queue' = queue /\ rows' = rows /\ overlapped' = overlapped
      BY <1>2, SameRowsKeep DEF deviceVars, serverVars, historyVars
<1>6. PlaceOK(c)'
      BY <1>1, <1>3, <1>4 DEF PlaceOK
<1>7. AtOK(c)'
      BY <1>1, <1>3, <1>4, <1>5 DEF AtOK, At, IsRowOf, Subject, Editing
<1>8. IdsOK(c)'
      BY <1>3, <1>4, <1>5, IdsStay
<1>9. HandlerOK(c)'
      BY <1>6, <1>7, <1>8 DEF HandlerOK
<1>10. QED BY <1>1, <1>2, <1>4, <1>9, QuietStep, SameBounds DEF deviceVars, serverVars, historyVars

\* A handler of the box comes to its end, saved or not.
LEMMA AfterBoxSound ==
    ASSUME Sound, NEW c \in Calls, call[c].pc \in {"box", "boxSave"}, Set(c, AfterBox(call[c])),
           box' \in Box, faults' \in Nat, timeouts + faults' <= MaxTroubles,
           UNCHANGED <<deviceVars, rows, left, timeouts, overlapped, owed, removed>>
    PROVE  Sound'
<1> DEFINE k == call[c]
<1>1. k \in Call /\ k.op \in {"batch", "count", "assign"} /\ Running(c) /\ AtOK(c)
      BY PlaceTells
<1>2. Keep /\ queue' = queue
      BY SameRowsKeep DEF deviceVars
<1>3. ParentsOK'
      BY <1>2, ParentsStay
<1>4. CASE k.op = "batch"
  <2>1. k.todo # {} /\ queue[At(k)].type = "collection" /\ IsRowOf(At(k), k.row)
        BY <1>1, <1>4 DEF AtOK
  <2>2. PICK a \in Actions : a = At(k)
        BY <2>1, AtIsTodo DEF Sound
  <2>3. PICK id \in Nat : id = k.row
        BY <1>1 DEF Call
  <2>4. Recorded(a, id)
        BY <2>1, <2>2, <2>3 DEF Recorded
  <2>5. Recorded(a, id)'
        BY <1>2, <2>4 DEF Keep
  <2>6. Set(c, Done(k, id))
        BY <1>4, <2>3 DEF AfterBox
  <2>7. QED BY <1>2, <1>3, <1>4, <2>1, <2>2, <2>5, <2>6, DoneSound, SameBounds DEF deviceVars
<1>5. CASE k.op # "batch"
  <2>1. Set(c, NoCall)
        BY <1>5 DEF AfterBox
  <2>2. call'[c] = NoCall
        BY <2>1 DEF Set, Sound, TypeOK
  <2>3. NoCall \in Call /\ HandlerOK(c)'
        BY <1>2, <2>2, NoCallOK, SameBounds
  <2>4. QED BY <1>1, <1>2, <1>3, <1>5, <2>1, <2>3, QuietStep, SameBounds DEF deviceVars
<1>6. QED BY <1>4, <1>5

LEMMA SaveBoxSound ==
    ASSUME Sound, NEW c \in Calls, SaveBox(c)
    PROVE  Sound'
<1>1. call[c].box \in Box
      BY PlaceTells DEF Call
<1>2. box' \in Box
      BY <1>1 DEF SaveBox, Saved, Box
<1>3. QED BY <1>2, AfterBoxSound, SameBounds DEF SaveBox, historyVars

LEMMA CountFailsSound ==
    ASSUME Sound, NEW c \in Calls, CountFails(c)
    PROVE  Sound'
<1>1. faults' \in Nat /\ timeouts + faults' <= MaxTroubles
      BY SameBounds, SyncAssumption DEF CountFails, Trouble
<1>2. QED BY <1>1, AfterBoxSound, SameBounds DEF CountFails, serverVars

LEMMA RemoveBoxSound ==
    ASSUME Sound, NEW c \in Calls, RemoveBox(c)
    PROVE  Sound'
<1>1. call[c].op = "remove" /\ Running(c)
      BY PlaceTells DEF RemoveBox
<1>2. Set(c, NoCall) /\ UNCHANGED <<deviceVars, rows, left, timeouts, faults, overlapped, owed>>
      BY DEF RemoveBox
<1>3. call'[c] = NoCall /\ queue' = queue
      BY <1>2 DEF Set, Sound, TypeOK, deviceVars
<1>4. NoCall \in Call /\ HandlerOK(c)'
      BY <1>3, NoCallOK, SameBounds
<1>5. box' \in Box /\ removed' \in BOOLEAN
      BY SameBounds DEF RemoveBox, Box
<1>6. QED BY <1>1, <1>2, <1>4, <1>5, QuietStep, SameBounds DEF deviceVars

-----------------------------------------------------------------------------
(* The device, requests and deaths keep the ids sound.                     *)

\* A handler ends, with or without an answer.
LEMMA EndStep ==
    ASSUME Sound, NEW c \in Calls, Set(c, NoCall), UNCHANGED <<queue, serverVars, left, timeouts>>,
           overlapped' = overlapped, owed' = owed, removed' = removed,
           faults' \in Nat, timeouts + faults' <= MaxTroubles,
           pending' \subseteq Actions, known' \in [Actions -> Nat],
           waiting' \in {waiting, Nobody}, waiting' # c,
           \A a \in Actions : known'[a] # 0 => IsRowOf(a, known'[a]),
           \A a \in Actions \ pending' : Recorded(a, known'[a])
    PROVE  Sound'
<1>1. /\ Keep /\ queue' = queue /\ rows' = rows /\ box' = box
      /\ Actions' = Actions /\ Call' = Call /\ Row' = Row
      BY SameRowsKeep, SameQueue DEF serverVars
<1>2. call' = [call EXCEPT ![c] = NoCall] /\ call \in [Calls -> Call]
      BY DEF Set, Sound, TypeOK
<1>3. call'[c] = NoCall
      BY <1>2
<1>4. NoCall \in Call /\ HandlerOK(c)'
      BY <1>1, <1>3, NoCallOK, SameBounds
<1>5. call' \in [Calls -> Call] /\ CallsOK'
      BY <1>1, <1>4, MoveHandler
<1>6. Alone'
  <2>1. NoCall.op = "none"
        BY DEF NoCall
  <2>2. QED BY <2>1, MoveAlone
<1>7. ParentsOK'
      BY <1>1, ParentsStay
<1>8. DeviceOK'
  <2>1. ASSUME waiting' # Nobody PROVE call'[waiting'].op = "batch"
    <3>1. waiting' = waiting /\ waiting \in Calls /\ call[waiting].op = "batch"
          BY <2>1 DEF Sound, DeviceOK, TypeOK
    <3>2. QED BY <1>2, <3>1
  <2>2. QED BY <1>1, <2>1 DEF DeviceOK, IsRowOf, Recorded, Subject
<1>9. TypeOK'
      BY <1>1, <1>5 DEF Sound, TypeOK
<1>10. QED BY <1>5, <1>6, <1>7, <1>8, <1>9 DEF Sound

\* What the device learns from an answer is sound.
LEMMA AnswerSound ==
    ASSUME Sound, NEW c \in Calls, Answer(c)
    PROVE  Sound'
<1> DEFINE k == call[c]
<1>1. k \in Call /\ IdsOK(c)
      BY PlaceTells
<1>2. /\ Set(c, NoCall) /\ UNCHANGED <<queue, serverVars, left, timeouts>>
      /\ overlapped' = overlapped /\ owed' = owed /\ removed' = removed /\ faults' = faults
      BY DEF Answer, historyVars
<1>3. faults' \in Nat /\ timeouts + faults' <= MaxTroubles
      BY <1>2, SameBounds
<1>4. waiting \in Calls \union {Nobody} /\ pending \subseteq Actions /\ known \in [Actions -> Nat]
      BY DEF Sound, TypeOK
<1>5. k.done \subseteq Actions /\ k.map \in [Actions -> Nat]
      BY <1>1 DEF Call
<1>6. CASE waiting = c
  <2>1. /\ pending' = pending \ k.done /\ waiting' = Nobody
        /\ known' = [a \in Actions |-> IF a \in k.done THEN k.map[a] ELSE known[a]]
        BY <1>6 DEF Answer
  <2>2. known' \in [Actions -> Nat] /\ pending' \subseteq Actions
        BY <1>4, <1>5, <2>1
  <2>3. \A a \in Actions : known'[a] # 0 => IsRowOf(a, known'[a])
        BY <1>1, <2>1 DEF Sound, DeviceOK, IdsOK
  <2>4. \A a \in Actions \ pending' : Recorded(a, known'[a])
        BY <1>1, <2>1 DEF Sound, DeviceOK, IdsOK
  <2>5. Nobody # c
        BY SyncAssumption
  <2>6. QED BY <1>2, <1>3, <2>1, <2>2, <2>3, <2>4, <2>5, EndStep
<1>7. CASE waiting # c
  <2>1. pending' = pending /\ known' = known /\ waiting' = waiting
        BY <1>7 DEF Answer
  <2>2. QED BY <1>2, <1>3, <1>4, <1>7, <2>1, EndStep DEF Sound, DeviceOK
<1>8. QED BY <1>6, <1>7

LEMMA CrashSound ==
    ASSUME Sound, NEW c \in Calls, Crash(c)
    PROVE  Sound'
<1>1. /\ Set(c, NoCall) /\ UNCHANGED <<queue, serverVars, left, timeouts>>
      /\ overlapped' = overlapped /\ owed' = owed /\ removed' = removed
      /\ pending' = pending /\ known' = known
      /\ waiting' = IF waiting = c THEN Nobody ELSE waiting
      BY DEF Crash
<1>2. faults' \in Nat /\ timeouts + faults' <= MaxTroubles
      BY SameBounds, SyncAssumption DEF Crash, Trouble
<1>3. pending \subseteq Actions /\ known \in [Actions -> Nat]
      BY DEF Sound, TypeOK
<1>4. waiting' \in {waiting, Nobody} /\ waiting' # c
      BY <1>1, SyncAssumption
<1>5. /\ \A a \in Actions : known[a] # 0 => IsRowOf(a, known[a])
      /\ \A a \in Actions \ pending : Recorded(a, known[a])
      BY DEF Sound, DeviceOK
<1>6. QED BY <1>1, <1>2, <1>3, <1>4, <1>5, EndStep

\* A request that comes finds the rows as they are.
LEMMA BeginStep ==
    ASSUME Sound, NEW c \in Calls, NEW k \in Call, Begin(c, k), HandlerOK(c)',
           UNCHANGED <<queue, pending, known, serverVars, timeouts, faults, removed>>,
           waiting' = waiting \/ (waiting' = c /\ k.op = "batch"),
           left' \in 0 .. MaxStaff, owed' \in Nat
    PROVE  Sound'
<1>1. /\ Set(c, k) /\ overlapped' = (overlapped \/ ~Quiet) /\ ~Running(c)
      BY DEF Begin
<1>2. /\ Keep /\ rows' = rows /\ box' = box
      /\ Actions' = Actions /\ Call' = Call /\ Row' = Row
      BY <1>1, SameRowsKeep, SameQueue DEF serverVars
<1>3. call' \in [Calls -> Call] /\ CallsOK'
      BY <1>1, <1>2, MoveHandler
<1>4. Alone'
      BY BeginAlone
<1>5. ParentsOK'
      BY <1>2, ParentsStay
<1>6. call' = [call EXCEPT ![c] = k] /\ call \in [Calls -> Call]
      BY <1>1 DEF Set, Sound, TypeOK
<1>7. DeviceOK'
  <2>1. ASSUME waiting' # Nobody PROVE call'[waiting'].op = "batch"
    <3>1. CASE waiting' = waiting
      <4>1. waiting \in Calls /\ call[waiting].op = "batch"
            BY <2>1, <3>1 DEF Sound, DeviceOK, TypeOK
      <4>2. waiting # c
            BY <1>1, <4>1 DEF Running
      <4>3. QED BY <1>6, <3>1, <4>1, <4>2
    <3>2. CASE waiting' = c /\ k.op = "batch"
          BY <1>6, <3>2
    <3>3. QED BY <3>1, <3>2
  <2>2. /\ \A a \in Actions : known[a] # 0 => IsRowOf(a, known[a])'
        /\ \A a \in Actions \ pending : Recorded(a, known[a])'
    <3>1. \A a \in Actions : known[a] \in Nat
          BY DEF Sound, TypeOK
    <3>2. QED BY <1>2, <3>1 DEF Sound, DeviceOK, Keep
  <2>3. QED BY <1>2, <2>1, <2>2 DEF DeviceOK, IsRowOf, Recorded, Subject
<1>8. TypeOK'
  <2>1. overlapped' \in BOOLEAN
        BY <1>1 DEF Sound, TypeOK
  <2>2. waiting' \in Calls \union {Nobody}
        BY DEF Sound, TypeOK
  <2>3. QED BY <1>2, <1>3, <2>1, <2>2 DEF Sound, TypeOK
<1>9. QED BY <1>3, <1>4, <1>5, <1>7, <1>8 DEF Sound

\* A batch goes out with the ids the device knows.
LEMMA SendSound ==
    ASSUME Sound, NEW c \in Calls, Send(c)
    PROVE  Sound'
<1> DEFINE k == [NoCall EXCEPT !.op = "batch", !.pc = "next", !.todo = pending, !.refs = known]
<1>1. /\ Begin(c, k) /\ waiting' = c
      /\ UNCHANGED <<queue, pending, known, serverVars, timeouts, faults, removed>>
      /\ left' = left /\ owed' = owed
      BY DEF Send
<1>2. pending \subseteq Actions /\ known \in [Actions -> Nat] /\ left \in 0 .. MaxStaff /\ owed \in Nat
      BY DEF Sound, TypeOK
<1>3. NoCall \in Call
      BY DEF NoCall, Call, Unknown, Box, NewBox
<1>4. /\ k.op = "batch" /\ k.pc = "next" /\ k.row = 0 /\ k.done = {}
      /\ k.refs = known /\ k.map = Unknown
      BY DEF NoCall
<1>5. k \in Call
      BY <1>2, <1>3 DEF Call
<1>6. call'[c] = k /\ queue' = queue /\ rows' = rows /\ overlapped => overlapped'
      BY <1>1 DEF Begin, Set, Sound, TypeOK, serverVars
<1>7. call'[c] = k
      BY <1>1 DEF Begin, Set, Sound, TypeOK
<1>8. PlaceOK(c)' /\ AtOK(c)'
      BY <1>4, <1>7 DEF PlaceOK, AtOK, Editing
<1>9. IdsOK(c)'
  <2>1. \A a \in Actions : known[a] # 0 => IsRowOf(a, known[a])
        BY DEF Sound, DeviceOK
  <2>2. Actions' = Actions /\ queue' = queue /\ rows' = rows
        BY <1>1, SameQueue DEF serverVars
  <2>3. QED BY <1>4, <1>7, <2>1, <2>2 DEF IdsOK, IsRowOf, Subject, Unknown
<1>10. HandlerOK(c)'
      BY <1>8, <1>9 DEF HandlerOK
<1>11. QED BY <1>1, <1>2, <1>4, <1>5, <1>10, BeginStep

LEMMA StaffSound ==
    ASSUME Sound, NEW c \in Calls, Staff(c)
    PROVE  Sound'
<1>1. PICK op \in {"count", "assign", "remove"} :
         /\ Begin(c, [NoCall EXCEPT !.op = op, !.pc = IF op = "remove" THEN "remove" ELSE "box"])
         /\ owed' = IF op = "count" THEN owed + 1 ELSE owed
      BY DEF Staff
<1> DEFINE k == [NoCall EXCEPT !.op = op, !.pc = IF op = "remove" THEN "remove" ELSE "box"]
<1>2. UNCHANGED <<queue, pending, known, serverVars, timeouts, faults, removed>> /\ waiting' = waiting
      BY DEF Staff, deviceVars
<1>3. left' \in 0 .. MaxStaff /\ owed' \in Nat
      BY <1>1, SyncAssumption DEF Staff, Sound, TypeOK
<1>4. NoCall \in Call
      BY DEF NoCall, Call, Unknown, Box, NewBox
<1>5. /\ k.op = op /\ k.pc = (IF op = "remove" THEN "remove" ELSE "box") /\ k.done = {}
      /\ k.refs = Unknown /\ k.map = Unknown
      BY DEF NoCall
<1>6. k \in Call
      BY <1>4 DEF Call
<1>7. call'[c] = k
      BY <1>1 DEF Begin, Set, Sound, TypeOK
<1>8. PlaceOK(c)' /\ AtOK(c)'
      BY <1>5, <1>7 DEF PlaceOK, AtOK, Editing
<1>9. Actions' = Actions
      BY <1>2, SameQueue
<1>10. IdsOK(c)'
      BY <1>5, <1>7, <1>9 DEF IdsOK, Unknown
<1>11. HandlerOK(c)'
      BY <1>8, <1>10 DEF HandlerOK
<1>12. PICK l \in Call : l = k
      BY <1>6
<1>13. Begin(c, l)
      BY <1>1, <1>12
<1>14. QED BY <1>2, <1>3, <1>11, <1>12, <1>13, BeginStep

LEMMA TimeoutSound ==
    ASSUME Sound, Timeout
    PROVE  Sound'
<1>1. /\ UNCHANGED <<queue, pending, known, serverVars, call, left, faults, overlapped, owed, removed>>
      /\ waiting' = Nobody /\ timeouts' = timeouts + 1 /\ Trouble
      BY DEF Timeout
<1>2. queue' = queue /\ rows' = rows /\ box' = box
      BY <1>1 DEF serverVars
<1>3. TypeOK'
  <2>1. timeouts' \in Nat /\ timeouts' + faults <= MaxTroubles
        BY <1>1, SameBounds, SyncAssumption DEF Trouble
  <2>2. Actions' = Actions /\ Call' = Call /\ Row' = Row
        BY <1>2, SameQueue
  <2>3. QED BY <1>1, <1>2, <2>1, <2>2 DEF Sound, TypeOK
<1>4. DeviceOK'
      BY <1>1, <1>2 DEF Sound, DeviceOK, Actions, IsRowOf, Recorded, Subject
<1>5. CallsOK'
      BY <1>1, <1>2, SameRowsKeep, OthersStay DEF CallsOK, HandlerOK
<1>6. Alone' /\ ParentsOK'
      BY <1>1, <1>2 DEF Sound, Alone, ParentsOK, Running
<1>7. QED BY <1>3, <1>4, <1>5, <1>6 DEF Sound

-----------------------------------------------------------------------------
(* The ids are sound.                                                      *)

LEMMA InitSound == Init => Sound
<1> SUFFICES ASSUME Init PROVE Sound
    OBVIOUS
<1>1. queue \in Queues /\ call = [c \in Calls |-> NoCall] /\ rows = <<>>
      BY DEF Init
<1>2. Actions \subseteq Nat
      BY <1>1, QueueOK
<1>3. NoCall \in Call
      BY DEF NoCall, Call, Unknown, Box, NewBox
<1>4. TypeOK
  <2>1. call \in [Calls -> Call] /\ rows \in Seq(Row)
        BY <1>1, <1>3
  <2>2. known \in [Actions -> Nat] /\ box \in Box /\ pending \subseteq Actions
        BY DEF Init, Unknown, Box, NewBox, Actions
  <2>3. /\ waiting = Nobody /\ left = MaxStaff /\ timeouts = 0 /\ faults = 0 /\ owed = 0
        /\ overlapped = FALSE /\ removed = FALSE
        BY DEF Init
  <2>4. MaxStaff \in Nat /\ MaxTroubles \in Nat
        BY SyncAssumption
  <2>5. left \in 0 .. MaxStaff /\ timeouts + faults <= MaxTroubles
        BY <2>3, <2>4
  <2>6. QED BY <1>1, <2>1, <2>2, <2>3, <2>5 DEF TypeOK
<1>5. DeviceOK
      BY <1>1 DEF Init, DeviceOK, Unknown, Actions
<1>6. CallsOK
  <2>1. ASSUME NEW c \in Calls PROVE PlaceOK(c) /\ AtOK(c) /\ IdsOK(c)
    <3>1. call[c] = NoCall
          BY <1>1
    <3>2. PlaceOK(c) /\ AtOK(c)
          BY <3>1 DEF PlaceOK, AtOK, NoCall, Editing
    <3>3. IdsOK(c)
          BY <3>1 DEF IdsOK, NoCall, Unknown
    <3>4. QED BY <3>2, <3>3
  <2>2. QED BY <2>1 DEF CallsOK
<1>7. Alone
      BY <1>1 DEF Alone, Running, NoCall
<1>8. ParentsOK
      BY <1>1 DEF ParentsOK
<1>9. QED BY <1>4, <1>5, <1>6, <1>7, <1>8 DEF Sound

LEMMA NextSound == Sound /\ [Next]_vars => Sound'
<1> SUFFICES ASSUME Sound, [Next]_vars PROVE Sound'
    OBVIOUS
<1>1. CASE Timeout
      BY <1>1, TimeoutSound
<1>2. ASSUME NEW c \in Calls, Send(c) \/ Staff(c) \/ Crash(c) PROVE Sound'
      BY <1>2, SendSound, StaffSound, CrashSound
<1>3. ASSUME NEW c \in Calls, Step(c) PROVE Sound'
      BY <1>3, FindDonorSound, InsertDonorSound, CreateDonationSound, CompleteSound, LoadDonorSound,
         FindOtherSound, SaveDonorSound, ChangeDonationSound, CreateCollectionSound, ReadBoxSound, SaveBoxSound,
         CountFailsSound, RemoveBoxSound, AnswerSound DEF Step
<1>4. CASE UNCHANGED vars
  <2>1. UNCHANGED <<queue, pending, known, waiting, rows, box, call, left, timeouts, faults,
                    overlapped, owed, removed>>
        BY <1>4 DEF vars, deviceVars, serverVars, historyVars
  <2>2. Actions' = Actions /\ Call' = Call /\ Row' = Row
        BY <2>1, SameQueue
  <2>3. TypeOK'
        BY <2>1, <2>2 DEF Sound, TypeOK
  <2>4. DeviceOK' /\ Alone' /\ ParentsOK'
        BY <2>1, <2>2 DEF Sound, DeviceOK, IsRowOf, Recorded, Subject, Alone, Running, ParentsOK
  <2>5. CallsOK'
        BY <2>1, SameRowsKeep, OthersStay DEF CallsOK, HandlerOK
  <2>6. QED BY <2>3, <2>4, <2>5 DEF Sound
<1>5. QED BY <1>1, <1>2, <1>3, <1>4 DEF Next

\* The ids that the device and the batches hold name rows of the right actions, however
\* uploads overlap, come again, die half-way or are answered too late.
THEOREM IdsSound == Spec => []Sound
BY InitSound, NextSound, PTL DEF Spec

\* Every variable is of its type.
THEOREM TypeCorrect == Spec => []TypeOK
<1>1. Sound => TypeOK
      BY DEF Sound
<1>2. QED BY IdsSound, <1>1, PTL

\* What the device has struck off is stored under the id it was told, a change of a
\* donation always, an edit of a donor unless handlers have overlapped.
THEOREM WhatIsSyncedIsStored == Spec => []SyncedIsStored
<1>1. Sound => SyncedIsStored
  <2>1. ASSUME Sound, NEW a \in Actions \ pending
        PROVE  /\ known[a] \in DOMAIN rows
               /\ LET r == rows[known[a]]
                  IN  CASE queue[a].type = "edit"   -> r.from = queue[a].of /\ (a \in r.edits \/ overlapped)
                        [] queue[a].type = "change" -> r.from = queue[a].of /\ a \in r.edits
                        [] OTHER                    -> r.from = a
    <3>1. Recorded(a, known[a])
          BY <2>1 DEF Sound, DeviceOK
    <3>2. QED BY <3>1 DEF Recorded, IsRowOf, Subject
  <2>2. QED BY <2>1 DEF SyncedIsStored
<1>2. QED BY IdsSound, <1>1, PTL

-----------------------------------------------------------------------------
(* How many rows an action becomes.                                        *)

\* What is counted is finite.
CountsOf(a) ==
    /\ IsFiniteSet(RowsOf(a)) /\ Cardinality(RowsOf(a)) \in Nat
    /\ IsFiniteSet(MayInsert(a)) /\ Cardinality(MayInsert(a)) \in Nat
    /\ ToCome(a) \in 0 .. 1

AllCounts == \A a \in Actions : CountsOf(a)

LEMMA CountsFinite == Sound => AllCounts
<1> SUFFICES ASSUME Sound, NEW a \in Actions PROVE CountsOf(a)
    BY DEF AllCounts
<1>1. rows \in Seq(Row)
      BY SameBounds
<1>2. Len(rows) \in Nat /\ DOMAIN rows = 1 .. Len(rows)
      BY <1>1
<1>3. IsFiniteSet(DOMAIN rows)
      BY <1>2, FS_Interval
<1>4. RowsOf(a) \in SUBSET DOMAIN rows
      BY DEF RowsOf
<1>5. IsFiniteSet(RowsOf(a))
      BY <1>3, <1>4, FS_Subset
<1>6. MayInsert(a) \in SUBSET Calls
      BY DEF MayInsert
<1>7. IsFiniteSet(MayInsert(a))
      BY <1>6, FS_Subset, SyncAssumption
<1>8. QED BY <1>5, <1>7, FS_CardinalityType DEF CountsOf, ToCome

\* What a step may do to the rows of an action, to the batches that may insert one and
\* to the upload that is still to come: a row comes of a batch that might insert it, a
\* batch of an upload, and an upload of a batch that has given the action up; or a trouble
\* comes first.
Accounts(a) ==
    \/ /\ RowsOf(a)' = RowsOf(a) /\ MayInsert(a)' \subseteq MayInsert(a)
       /\ Idle(a)' => Idle(a)
    \/ /\ RowsOf(a)' = RowsOf(a)
       /\ \E c \in MayInsert(a) : MayInsert(a)' \subseteq MayInsert(a) \ {c}
    \/ /\ RowsOf(a)' = RowsOf(a) /\ Idle(a) /\ ~Idle(a)'
       /\ \E c \in Calls : MayInsert(a)' \subseteq MayInsert(a) \union {c}
    \/ /\ \E n \in Nat : RowsOf(a)' = RowsOf(a) \union {n}
       /\ \E c \in MayInsert(a) : MayInsert(a)' \subseteq MayInsert(a) \ {c}
       /\ Idle(a)' => Idle(a)
    \/ /\ RowsOf(a)' = RowsOf(a) /\ MayInsert(a)' \subseteq MayInsert(a)
       /\ timeouts' + faults' = timeouts + faults + 1

\* Parts of finite sets are no larger, with one element less at least one smaller, with
\* one more at most one larger.
LEMMA SubsetCard ==
    ASSUME NEW M, NEW N, IsFiniteSet(M), N \subseteq M
    PROVE  IsFiniteSet(N) /\ Cardinality(N) <= Cardinality(M)
BY FS_Subset

LEMMA RemoveCard ==
    ASSUME NEW M, NEW N, IsFiniteSet(M), NEW c \in M, N \subseteq M \ {c}
    PROVE  IsFiniteSet(N) /\ Cardinality(N) + 1 <= Cardinality(M)
<1>1. IsFiniteSet(M \ {c}) /\ Cardinality(M \ {c}) = Cardinality(M) - 1 /\ Cardinality(M) \in Nat
      BY FS_RemoveElement, FS_CardinalityType
<1>2. IsFiniteSet(N) /\ Cardinality(N) <= Cardinality(M \ {c})
      BY <1>1, SubsetCard
<1>3. Cardinality(N) \in Nat
      BY <1>2, FS_CardinalityType
<1>4. QED BY <1>1, <1>2, <1>3

LEMMA AddCard ==
    ASSUME NEW M, NEW N, IsFiniteSet(M), NEW c, N \subseteq M \union {c}
    PROVE  IsFiniteSet(N) /\ Cardinality(N) <= Cardinality(M) + 1
<1>1. /\ IsFiniteSet(M \union {c}) /\ Cardinality(M) \in Nat
      /\ Cardinality(M \union {c}) = IF c \in M THEN Cardinality(M) ELSE Cardinality(M) + 1
      BY FS_AddElement, FS_CardinalityType
<1>2. IsFiniteSet(N) /\ Cardinality(N) <= Cardinality(M \union {c})
      BY <1>1, SubsetCard
<1>3. Cardinality(N) \in Nat
      BY <1>2, FS_CardinalityType
<1>4. QED BY <1>1, <1>2, <1>3

\* What an upload was to bring it brings as a batch, what a batch was to insert is a row.
LEMMA SumKept ==
    ASSUME NEW r \in Nat, NEW rn \in Nat, NEW m \in Nat, NEW mn \in Nat, NEW i \in 0 .. 1,
           NEW j \in 0 .. 1, NEW t \in Nat, NEW tn \in Nat, r + m + i <= 1 + t, t <= tn,
           \/ rn = r /\ mn <= m + 1 /\ i = 1 /\ j = 0
           \/ rn <= r + 1 /\ mn + 1 <= m /\ j <= i
    PROVE  rn + mn + j <= 1 + tn
OBVIOUS

LEMMA AccountsKept ==
    ASSUME Sound, Sound', InsertsCounted, queue' = queue, timeouts + faults <= timeouts' + faults',
           \A a \in Actions : Accounts(a)
    PROVE  InsertsCounted'
<1>1. Actions' = Actions
      BY SameQueue
<1>2. /\ timeouts \in Nat /\ faults \in Nat /\ timeouts' \in Nat /\ faults' \in Nat
      BY DEF Sound, TypeOK
<1>3. PICK t \in Nat, tn \in Nat : t = timeouts + faults /\ tn = timeouts' + faults' /\ t <= tn
  <2>1. PICK x \in Nat, y \in Nat : x = timeouts' /\ y = faults'
        BY <1>2
  <2>2. x + y \in Nat /\ timeouts + faults \in Nat
        BY <1>2
  <2>3. QED BY <2>1, <2>2
<1>4. (timeouts' + faults' = timeouts + faults + 1) => tn = t + 1
      BY <1>3
<1>5. ASSUME NEW a \in Actions
      PROVE  (Cardinality(RowsOf(a)) + Cardinality(MayInsert(a)) + ToCome(a))' <= 1 + tn
  <2>1. PICK R, Rn : R = RowsOf(a) /\ Rn = RowsOf(a)'
        OBVIOUS
  <2>2. PICK M, Mn : M = MayInsert(a) /\ Mn = MayInsert(a)'
        OBVIOUS
  <2>3. PICK i, j : i = ToCome(a) /\ j = ToCome(a)'
        OBVIOUS
  <2>4. /\ IsFiniteSet(R) /\ Cardinality(R) \in Nat /\ IsFiniteSet(M) /\ Cardinality(M) \in Nat
        /\ i \in 0 .. 1
        BY <2>1, <2>2, <2>3, CountsFinite DEF AllCounts, CountsOf
  <2>5. /\ Cardinality(Rn) \in Nat /\ Cardinality(Mn) \in Nat /\ j \in 0 .. 1
    <3>1. AllCounts'
          BY CountsFinite, PTL
    <3>2. CountsOf(a)'
          BY <1>1, <3>1 DEF AllCounts
    <3>3. QED BY <2>1, <2>2, <2>3, <3>2 DEF CountsOf
  <2>6. Cardinality(R) + Cardinality(M) + i <= 1 + t
    <3>1. Cardinality(R) + Cardinality(M) + i <= 1 + timeouts + faults
          BY <2>1, <2>2, <2>3 DEF InsertsCounted
    <3>2. 1 + timeouts + faults = 1 + t
          BY <1>2, <1>3
    <3>3. QED BY <3>1, <3>2
  <2>7. SUFFICES Cardinality(Rn) + Cardinality(Mn) + j <= 1 + tn
        BY <2>1, <2>2, <2>3
  <2>8. (Idle(a)' => Idle(a)) => j <= i
        BY <2>3 DEF ToCome
  <2>9. CASE Rn = R /\ Mn \subseteq M /\ (Idle(a)' => Idle(a))
    <3>1. Cardinality(Mn) <= Cardinality(M)
          BY <2>4, <2>9, SubsetCard
    <3>2. QED BY <1>3, <2>4, <2>5, <2>6, <2>8, <2>9, <3>1
  <2>10. CASE Rn = R /\ \E c \in M : Mn \subseteq M \ {c}
    <3>1. Cardinality(Mn) + 1 <= Cardinality(M)
          BY <2>4, <2>10, RemoveCard
    <3>2. QED BY <1>3, <2>4, <2>5, <2>6, <2>10, <3>1
  <2>11. CASE Rn = R /\ Idle(a) /\ ~Idle(a)' /\ \E c \in Calls : Mn \subseteq M \union {c}
    <3>1. Cardinality(Mn) <= Cardinality(M) + 1
          BY <2>4, <2>11, AddCard
    <3>2. i = 1 /\ j = 0
          BY <2>3, <2>11 DEF ToCome
    <3>3. Rn = R
          BY <2>11
    <3>4. QED BY <2>4, <2>5, <2>6, <3>1, <3>2, <3>3, <1>3, SumKept
  <2>12. CASE /\ \E n \in Nat : Rn = R \union {n}
              /\ \E c \in M : Mn \subseteq M \ {c}
              /\ Idle(a)' => Idle(a)
    <3>1. Cardinality(Rn) <= Cardinality(R) + 1
          BY <2>4, <2>12, AddCard
    <3>2. Cardinality(Mn) + 1 <= Cardinality(M)
          BY <2>4, <2>12, RemoveCard
    <3>3. j <= i
          BY <2>8, <2>12
    <3>4. QED BY <2>4, <2>5, <2>6, <3>1, <3>2, <3>3, <1>3, SumKept
  <2>13. CASE Rn = R /\ Mn \subseteq M /\ timeouts' + faults' = timeouts + faults + 1
    <3>1. Cardinality(Mn) <= Cardinality(M)
          BY <2>4, <2>13, SubsetCard
    <3>2. QED BY <1>3, <1>4, <2>4, <2>5, <2>6, <2>13, <3>1
  <2>14. QED BY <2>1, <2>2, <2>9, <2>10, <2>11, <2>12, <2>13 DEF Accounts
<1>6. 1 + timeouts' + faults' = 1 + tn
  <2>1. PICK x \in Nat, y \in Nat : x = timeouts' /\ y = faults'
        BY <1>2
  <2>2. QED BY <1>3, <2>1
<1>7. QED BY <1>1, <1>5, <1>6 DEF InsertsCounted

-----------------------------------------------------------------------------
(* Every step accounts for what it does.                                   *)

\* The step of one handler changes nothing about the others.
LEMMA MoveInserts ==
    ASSUME Sound, NEW c \in Calls, NEW l, Set(c, l), NEW a
    PROVE  /\ call'[c] = l /\ \A d \in Calls \ {c} : call'[d] = call[d]
           /\ \A d \in Calls : d \in MayInsert(a)' <=> IF d = c THEN May(l, a) ELSE d \in MayInsert(a)
           /\ MayInsert(a) \subseteq Calls /\ MayInsert(a)' \subseteq Calls
<1>1. call' = [call EXCEPT ![c] = l] /\ call \in [Calls -> Call]
      BY DEF Set, Sound, TypeOK
<1>2. call'[c] = l /\ \A d \in Calls \ {c} : call'[d] = call[d]
      BY <1>1
<1>3. \A d \in Calls : d \in MayInsert(a)' <=> May(call'[d], a)
      BY DEF MayInsert, May, At
<1>4. \A d \in Calls : d \in MayInsert(a) <=> May(call[d], a)
      BY DEF MayInsert
<1>5. QED BY <1>2, <1>3, <1>4 DEF MayInsert

\* A handler that goes on without giving an action up leaves its accounts alone.
LEMMA GoesOn ==
    ASSUME Sound, NEW c \in Calls, NEW l, Set(c, l), NEW a \in Actions,
           UNCHANGED <<queue, rows, pending, waiting>>,
           May(l, a) => May(call[c], a),
           waiting = c => /\ a \in call[c].todo => a \in l.todo \union l.done
                          /\ a \in call[c].done => a \in l.done
    PROVE  Accounts(a)
<1>1. /\ call'[c] = l /\ \A d \in Calls \ {c} : call'[d] = call[d]
      /\ \A d \in Calls : d \in MayInsert(a)' <=> IF d = c THEN May(l, a) ELSE d \in MayInsert(a)
      /\ MayInsert(a)' \subseteq Calls
      BY MoveInserts
<1>2. MayInsert(a)' \subseteq MayInsert(a)
      BY <1>1 DEF MayInsert
<1>3. RowsOf(a)' = RowsOf(a)
      BY DEF RowsOf
<1>4. Idle(a)' => Idle(a)
  <2>1. waiting \in Calls \union {Nobody}
        BY DEF Sound, TypeOK
  <2>2. QED BY <1>1, <2>1 DEF Idle
<1>5. QED BY <1>2, <1>3, <1>4 DEF Accounts

\* A batch that has inserted nothing for an action gives it up and goes on with the others.
LEMMA FailAccounts ==
    ASSUME Sound, NEW c \in Calls, call[c].op = "batch", call[c].todo # {},
           call[c].row = 0 \/ Editing(call[c]),
           Set(c, Failed(call[c])), UNCHANGED <<queue, rows, pending, waiting>>,
           NEW a \in Actions
    PROVE  Accounts(a)
<1>1. PICK k \in Call : k = call[c]
      BY DEF Sound, TypeOK
<1>2. PICK l : l = Failed(k)
      OBVIOUS
<1>3. l.todo = k.todo \ {At(k)} /\ l.row = 0 /\ l.op = "batch" /\ l.done = k.done
      BY <1>1, <1>2 DEF Failed, Call
<1>4. At(k) \in k.todo /\ Set(c, l)
      BY <1>1, <1>2, AtIsTodo DEF Sound
<1>5. CASE a = At(k)
  <2>1. c \in MayInsert(a)
        BY <1>1, <1>4, <1>5 DEF MayInsert, May
  <2>2. ~May(l, a)
        BY <1>3, <1>5 DEF May
  <2>3. MayInsert(a)' \subseteq MayInsert(a) \ {c}
        BY <1>4, <2>2, MoveInserts
  <2>4. RowsOf(a)' = RowsOf(a)
        BY DEF RowsOf
  <2>5. QED BY <2>1, <2>3, <2>4 DEF Accounts
<1>6. CASE a # At(k)
  <2>1. May(l, a) => May(call[c], a)
        BY <1>1, <1>3, <1>6 DEF May
  <2>2. a \in call[c].todo => a \in l.todo
        BY <1>1, <1>3, <1>6
  <2>3. a \in call[c].done => a \in l.done
        BY <1>1, <1>3
  <2>4. QED BY <1>4, <2>1, <2>2, <2>3, GoesOn
<1>7. QED BY <1>5, <1>6

\* An action that succeeds is given up by nobody.
LEMMA DoneAccounts ==
    ASSUME Sound, NEW c \in Calls, call[c].op = "batch", call[c].todo # {}, NEW id,
           Set(c, Done(call[c], id)), NEW a \in Actions,
           RowsOf(a)' = RowsOf(a), UNCHANGED <<queue, pending, waiting>>
    PROVE  Accounts(a)
<1>1. PICK k \in Call : k = call[c]
      BY DEF Sound, TypeOK
<1>2. PICK l : l = Done(k, id)
      OBVIOUS
<1>3. /\ l.todo = k.todo \ {At(k)} /\ l.row = 0 /\ l.op = "batch" /\ l.done = k.done \union {At(k)}
      BY <1>1, <1>2 DEF Done, Call
<1>4. Set(c, l)
      BY <1>1, <1>2
<1>5. May(l, a) => May(call[c], a)
      BY <1>1, <1>3 DEF May
<1>6. /\ a \in call[c].todo => a \in l.todo \union l.done
      /\ a \in call[c].done => a \in l.done
      BY <1>1, <1>3
<1>7. /\ call'[c] = l /\ \A d \in Calls \ {c} : call'[d] = call[d]
      /\ \A d \in Calls : d \in MayInsert(a)' <=> IF d = c THEN May(l, a) ELSE d \in MayInsert(a)
      /\ MayInsert(a)' \subseteq Calls
      BY <1>4, MoveInserts
<1>8. MayInsert(a)' \subseteq MayInsert(a)
      BY <1>5, <1>7 DEF MayInsert
<1>9. Idle(a)' => Idle(a)
  <2>1. waiting \in Calls \union {Nobody}
        BY DEF Sound, TypeOK
  <2>2. QED BY <1>6, <1>7, <2>1 DEF Idle
<1>10. QED BY <1>8, <1>9 DEF Accounts

\* A row is inserted by a batch that might.
LEMMA InsertAccounts ==
    ASSUME Sound, NEW c \in Calls, call[c].op = "batch", call[c].todo # {}, call[c].row = 0,
           NEW of, NEW pc, Insert(c, of, pc), UNCHANGED <<queue, pending, waiting>>,
           pc \in {"after", "box"},
           NEW a \in Actions
    PROVE  Accounts(a)
<1>1. PICK k \in Call : k = call[c]
      BY DEF Sound, TypeOK
<1>2. rows \in Seq(Row) /\ Len(rows) \in Nat
      BY SameBounds
<1>3. PICK n \in Nat : n = Len(rows) + 1
      BY <1>2
<1>4. PICK l : l = [k EXCEPT !.row = n, !.pc = pc]
      OBVIOUS
<1>5. /\ l.todo = k.todo /\ l.row = n /\ l.op = "batch" /\ l.done = k.done /\ At(l) = At(k)
      /\ ~Editing(l)
      BY <1>1, <1>4 DEF Call, At, Editing
<1>6. At(k) \in k.todo /\ At(k) \in Actions /\ Set(c, l)
      BY <1>1, <1>3, <1>4, AtIsTodo DEF Sound, Insert
<1>7. PICK row : row = [from |-> At(k), of |-> of, edits |-> {}, email |-> queue[At(k)].email]
      OBVIOUS
<1>8. rows' = Append(rows, row) /\ row.from = At(k)
      BY <1>1, <1>7 DEF Insert
<1>9. /\ DOMAIN rows' = DOMAIN rows \union {n} /\ n \notin DOMAIN rows /\ n # 0
      /\ \A r \in DOMAIN rows : rows'[r] = rows[r]
      /\ rows'[n] = row
      BY <1>2, <1>3, <1>8
<1>10. CASE a = At(k)
  <2>1. RowsOf(a)' = RowsOf(a) \union {n}
        BY <1>8, <1>9, <1>10 DEF RowsOf
  <2>2. c \in MayInsert(a)
        BY <1>1, <1>6, <1>10 DEF MayInsert, May
  <2>3. ~May(l, a)
        BY <1>5, <1>9, <1>10 DEF May
  <2>4. MayInsert(a)' \subseteq MayInsert(a) \ {c}
        BY <1>6, <2>3, MoveInserts
  <2>5. Idle(a)' => Idle(a)
    <3>1. waiting \in Calls \union {Nobody}
          BY DEF Sound, TypeOK
    <3>2. call'[c] = l /\ \A d \in Calls \ {c} : call'[d] = call[d]
          BY <1>6, MoveInserts
    <3>3. QED BY <1>1, <1>5, <3>1, <3>2 DEF Idle
  <2>6. QED BY <2>1, <2>2, <2>4, <2>5 DEF Accounts
<1>11. CASE a # At(k)
  <2>1. RowsOf(a)' = RowsOf(a)
        BY <1>8, <1>9, <1>11 DEF RowsOf
  <2>2. May(l, a) => May(call[c], a)
        BY <1>1, <1>5, <1>11 DEF May
  <2>3. call'[c] = l /\ \A d \in Calls \ {c} : call'[d] = call[d]
        BY <1>6, MoveInserts
  <2>4. MayInsert(a)' \subseteq MayInsert(a)
        BY <1>6, <2>2, MoveInserts DEF MayInsert
  <2>5. Idle(a)' => Idle(a)
    <3>1. waiting \in Calls \union {Nobody}
          BY DEF Sound, TypeOK
    <3>2. QED BY <1>1, <1>5, <2>3, <3>1 DEF Idle
  <2>6. QED BY <2>1, <2>4, <2>5 DEF Accounts
<1>12. QED BY <1>10, <1>11

\* After a trouble anything may have to be done again.
LEMMA TroubleAccounts ==
    ASSUME Sound, NEW c \in Calls, NEW l, Set(c, l), NEW a \in Actions, queue' = queue,
           RowsOf(a)' = RowsOf(a), May(l, a) => May(call[c], a), timeouts' = timeouts, faults' = faults + 1
    PROVE  Accounts(a)
<1>1. MayInsert(a)' \subseteq MayInsert(a)
      BY MoveInserts DEF MayInsert
<1>2. timeouts' + faults' = timeouts + faults + 1
      BY SameBounds
<1>3. QED BY <1>1, <1>2 DEF Accounts

\* Troubles are never forgotten.
LEMMA TroublesGrow ==
    ASSUME Sound, timeouts' = timeouts, faults' \in {faults, faults + 1}
    PROVE  timeouts + faults <= timeouts' + faults'
BY SameBounds

\* The steps of a batch account for what they do.
LEMMA BatchAccounts ==
    ASSUME Sound, NEW c \in Calls, NEW a \in Actions,
           \/ FindDonor(c) \/ InsertDonor(c) \/ CreateDonation(c) \/ Complete(c)
           \/ LoadDonor(c) \/ FindOther(c) \/ SaveDonor(c) \/ ChangeDonation(c) \/ CreateCollection(c)
    PROVE  Accounts(a)
<1> DEFINE k == call[c]
<1>1. k \in Call /\ PlaceOK(c) /\ AtOK(c) /\ (k.pc \in {"next", "donor", "after", "donorSave"} => k.op = "batch")
      BY PlaceTells
<1>2. CASE FindDonor(c)
  <2>1. /\ k.pc = "next" /\ k.todo # {} /\ k.op = "batch" /\ k.row = 0
        BY <1>1, <1>2 DEF FindDonor, IsAt, AtOK
  <2>2. UNCHANGED <<queue, rows, pending, waiting>>
        BY <1>2 DEF FindDonor, deviceVars, serverVars
  <2>3. CASE Set(c, Failed(k))
        BY <2>1, <2>2, <2>3, FailAccounts
  <2>4. CASE Set(c, [k EXCEPT !.pc = "donor"])
    <3>1. PICK l : l = [k EXCEPT !.pc = "donor"]
          OBVIOUS
    <3>2. l.op = k.op /\ l.row = k.row /\ l.todo = k.todo /\ l.done = k.done /\ At(l) = At(k)
          BY <1>1, <3>1 DEF Call, At
    <3>3. Set(c, l)
          BY <2>4, <3>1
    <3>4. QED BY <2>1, <2>2, <3>2, <3>3, GoesOn DEF May
  <2>5. QED BY <1>2, <2>3, <2>4 DEF FindDonor
<1>3. CASE InsertDonor(c)
  <2>1. k.pc = "donor" /\ k.op = "batch" /\ k.todo # {} /\ k.row = 0
        BY <1>1, <1>3 DEF InsertDonor, AtOK
  <2>2. UNCHANGED <<queue, pending, waiting>>
        BY <1>3 DEF InsertDonor, deviceVars
  <2>3. CASE Known(At(k))
        BY <1>3, <2>1, <2>2, <2>3, FailAccounts DEF InsertDonor
  <2>4. CASE ~Known(At(k))
        BY <1>3, <2>1, <2>2, <2>4, InsertAccounts DEF InsertDonor
  <2>5. QED BY <2>3, <2>4
<1>4. CASE CreateDonation(c)
  <2>1. /\ k.pc = "next" /\ k.todo # {} /\ k.op = "batch" /\ k.row = 0
        /\ queue[At(k)].type # "donor"
        BY <1>1, <1>4 DEF CreateDonation, IsAt, AtOK
  <2>2. UNCHANGED <<queue, pending, waiting>>
        BY <1>4 DEF CreateDonation, deviceVars
  <2>3. CASE Ref(k) = 0
        BY <1>4, <2>1, <2>2, <2>3, FailAccounts DEF CreateDonation
  <2>4. CASE Ref(k) # 0
        BY <1>4, <2>1, <2>2, <2>4, InsertAccounts DEF CreateDonation
  <2>5. QED BY <2>3, <2>4
<1>5. CASE Complete(c)
  <2>1. k.pc = "after" /\ k.op = "batch" /\ k.todo # {}
        BY <1>1, <1>5 DEF Complete, AtOK
  <2>2. UNCHANGED <<queue, rows, pending, waiting>> /\ timeouts' = timeouts
        BY <1>5 DEF Complete, deviceVars, serverVars
  <2>3. CASE Set(c, Done(k, k.row))
    <3>1. RowsOf(a)' = RowsOf(a)
          BY <2>2 DEF RowsOf
    <3>2. QED BY <2>1, <2>2, <2>3, <3>1, DoneAccounts
  <2>4. CASE faults' = faults + 1 /\ Set(c, Failed(k))
    <3>1. PICK l : l = Failed(k)
          OBVIOUS
    <3>2. l.todo = k.todo \ {At(k)} /\ l.op = "batch"
          BY <1>1, <2>1, <3>1 DEF Failed, Call
    <3>3. May(l, a) => May(k, a)
          BY <2>1, <3>2 DEF May
    <3>4. RowsOf(a)' = RowsOf(a)
          BY <2>2 DEF RowsOf
    <3>5. QED BY <2>2, <2>4, <3>1, <3>3, <3>4, TroubleAccounts
  <2>5. QED BY <1>5, <2>3, <2>4 DEF Complete
<1>6. CASE LoadDonor(c)
  <2>1. /\ k.pc = "next" /\ k.todo # {} /\ k.op = "batch" /\ k.row = 0
        BY <1>1, <1>6 DEF LoadDonor, IsAt, AtOK
  <2>2. UNCHANGED <<queue, rows, pending, waiting>>
        BY <1>6 DEF LoadDonor, deviceVars, serverVars
  <2>3. CASE Set(c, Failed(k))
        BY <2>1, <2>2, <2>3, FailAccounts
  <2>4. CASE Set(c, [k EXCEPT !.row = Ref(k), !.edits = rows[Ref(k)].edits,
                              !.email = rows[Ref(k)].email, !.pc = "email"])
    <3>1. PICK l : l = [k EXCEPT !.row = Ref(k), !.edits = rows[Ref(k)].edits,
                                 !.email = rows[Ref(k)].email, !.pc = "email"]
          OBVIOUS
    <3>2. l.op = k.op /\ l.todo = k.todo /\ l.done = k.done /\ At(l) = At(k)
          BY <1>1, <3>1 DEF Call, At
    <3>3. Set(c, l)
          BY <2>4, <3>1
    <3>4. QED BY <2>1, <2>2, <3>2, <3>3, GoesOn DEF May
  <2>5. QED BY <1>6, <2>3, <2>4 DEF LoadDonor
<1>7. CASE FindOther(c)
  <2>1. Editing(k)
        BY <1>7 DEF FindOther, Editing
  <2>2. k.op = "batch" /\ k.todo # {}
        BY <2>1, EditingTells
  <2>3. UNCHANGED <<queue, rows, pending, waiting>>
        BY <1>7 DEF FindOther, deviceVars, serverVars
  <2>4. CASE Set(c, Failed(k))
        BY <2>1, <2>2, <2>3, <2>4, FailAccounts
  <2>5. CASE Set(c, [k EXCEPT !.pc = "donorSave"])
    <3>1. PICK l : l = [k EXCEPT !.pc = "donorSave"]
          OBVIOUS
    <3>2. l.op = k.op /\ l.todo = k.todo /\ l.done = k.done /\ At(l) = At(k)
          BY <1>1, <3>1 DEF Call, At
    <3>3. Set(c, l)
          BY <2>5, <3>1
    <3>4. QED BY <2>1, <2>3, <3>2, <3>3, GoesOn DEF May
  <2>6. QED BY <1>7, <2>4, <2>5 DEF FindOther
<1>8. CASE SaveDonor(c)
  <2>1. Editing(k)
        BY <1>8 DEF SaveDonor, Editing
  <2>2. k.op = "batch" /\ k.todo # {}
        BY <2>1, EditingTells
  <2>3. UNCHANGED <<queue, pending, waiting>> /\ timeouts' = timeouts
        BY <1>8 DEF SaveDonor, deviceVars
  <2>4. CASE Set(c, Failed(k)) /\ rows' = rows
        BY <2>1, <2>2, <2>3, <2>4, FailAccounts
  <2>5. CASE rows' = [rows EXCEPT ![k.row].edits = k.edits \union {At(k)}, ![k.row].email = NextEmail(k)]
    <3>1. RowsOf(a)' = RowsOf(a)
      <4>1. PICK y : y = [rows[k.row] EXCEPT !.edits = k.edits \union {At(k)}, !.email = NextEmail(k)]
            OBVIOUS
      <4>2. rows' = [rows EXCEPT ![k.row] = y] /\ y.from = rows[k.row].from
            BY <2>1, <2>5, <4>1, SavedRow
      <4>3. DOMAIN rows' = DOMAIN rows /\ \A r \in DOMAIN rows : rows'[r].from = rows[r].from
            BY <4>2
      <4>4. QED BY <4>3 DEF RowsOf
    <3>2. CASE Set(c, Done(k, k.row))
          BY <2>2, <2>3, <3>1, <3>2, DoneAccounts
    <3>3. CASE faults' = faults + 1 /\ Set(c, Failed(k))
      <4>1. PICK l : l = Failed(k)
            OBVIOUS
      <4>2. l.todo = k.todo \ {At(k)} /\ l.op = "batch"
            BY <1>1, <2>2, <4>1 DEF Failed, Call
      <4>3. May(l, a) => May(k, a)
            BY <2>2, <4>2 DEF May
      <4>4. QED BY <2>3, <3>1, <3>3, <4>1, <4>3, TroubleAccounts
    <3>4. QED BY <1>8, <2>4, <3>2, <3>3 DEF SaveDonor
  <2>6. QED BY <1>8, <2>4, <2>5 DEF SaveDonor
<1>9. CASE ChangeDonation(c)
  <2>1. /\ k.pc = "next" /\ k.todo # {} /\ k.op = "batch" /\ k.row = 0
        BY <1>1, <1>9 DEF ChangeDonation, IsAt, AtOK
  <2>2. UNCHANGED <<queue, pending, waiting>>
        BY <1>9 DEF ChangeDonation, deviceVars
  <2>3. CASE Ref(k) = 0
        BY <1>9, <2>1, <2>2, <2>3, FailAccounts DEF ChangeDonation
  <2>4. CASE Ref(k) # 0
    <3>1. PICK e : rows' = [rows EXCEPT ![Ref(k)].edits = e]
          BY <1>9, <2>4 DEF ChangeDonation
    <3>2. \A r \in DOMAIN rows : rows[r] \in Row
          BY SameBounds
    <3>3. DOMAIN rows' = DOMAIN rows /\ \A r \in DOMAIN rows : rows'[r].from = rows[r].from
          BY <3>1, <3>2 DEF Row
    <3>4. RowsOf(a)' = RowsOf(a)
          BY <3>3 DEF RowsOf
    <3>5. Set(c, Done(k, Ref(k)))
          BY <1>9, <2>4 DEF ChangeDonation
    <3>6. QED BY <2>1, <2>2, <3>4, <3>5, DoneAccounts
  <2>5. QED BY <2>3, <2>4
<1>10. CASE CreateCollection(c)
  <2>1. /\ k.pc = "next" /\ k.todo # {} /\ k.op = "batch" /\ k.row = 0
        /\ queue[At(k)].type # "donor"
        BY <1>1, <1>10 DEF CreateCollection, IsAt, AtOK
  <2>2. UNCHANGED <<queue, pending, waiting>> /\ Insert(c, 0, "box")
        BY <1>10 DEF CreateCollection, deviceVars
  <2>3. QED BY <2>1, <2>2, InsertAccounts
<1>11. QED BY <1>2, <1>3, <1>4, <1>5, <1>6, <1>7, <1>8, <1>9, <1>10

\* The handlers of the box account for what they do.
LEMMA BoxAccounts ==
    ASSUME Sound, NEW c \in Calls, NEW a \in Actions,
           ReadBox(c) \/ SaveBox(c) \/ CountFails(c) \/ RemoveBox(c)
    PROVE  Accounts(a)
<1> DEFINE k == call[c]
<1>1. /\ k \in Call /\ PlaceOK(c) /\ AtOK(c)
      /\ k.pc \in {"box", "boxSave"} => k.op \in {"batch", "count", "assign"}
      /\ k.pc = "remove" => k.op = "remove"
      BY PlaceTells
<1>2. waiting = c => k.op = "batch"
      BY SyncAssumption DEF Sound, DeviceOK
<1>3. UNCHANGED <<queue, rows, pending, waiting>>
      BY DEF ReadBox, SaveBox, CountFails, RemoveBox, deviceVars, serverVars
<1>4. CASE ReadBox(c)
  <2>1. PICK l : l = [k EXCEPT !.box = box, !.pc = "boxSave"]
        OBVIOUS
  <2>2. /\ l.op = k.op /\ l.row = k.row /\ l.todo = k.todo /\ l.done = k.done /\ At(l) = At(k)
        /\ ~Editing(l)
        BY <1>1, <2>1 DEF Call, At, Editing
  <2>3. Set(c, l)
        BY <1>4, <2>1 DEF ReadBox
  <2>4. QED BY <1>3, <2>2, <2>3, GoesOn DEF May
<1>5. CASE SaveBox(c) \/ CountFails(c)
  <2>1. Set(c, AfterBox(k)) /\ k.pc \in {"box", "boxSave"}
        BY <1>5 DEF SaveBox, CountFails
  <2>2. CASE k.op = "batch"
    <3>1. k.todo # {} /\ Set(c, Done(k, k.row))
          BY <1>1, <2>1, <2>2 DEF AtOK, AfterBox
    <3>2. RowsOf(a)' = RowsOf(a)
          BY <1>3 DEF RowsOf
    <3>3. QED BY <1>3, <2>2, <3>1, <3>2, DoneAccounts
  <2>3. CASE k.op # "batch"
    <3>1. Set(c, NoCall) /\ ~May(NoCall, a)
          BY <2>1, <2>3 DEF AfterBox, May, NoCall
    <3>2. QED BY <1>2, <1>3, <2>3, <3>1, GoesOn
  <2>4. QED BY <2>2, <2>3
<1>6. CASE RemoveBox(c)
  <2>1. Set(c, NoCall) /\ ~May(NoCall, a) /\ k.op # "batch"
        BY <1>1, <1>6 DEF RemoveBox, May, NoCall
  <2>2. QED BY <1>2, <1>3, <2>1, GoesOn
<1>7. QED BY <1>4, <1>5, <1>6

\* So do the device, requests that come and handlers that die.
LEMMA DeviceAccounts ==
    ASSUME Sound, NEW c \in Calls, NEW a \in Actions, Answer(c) \/ Send(c) \/ Staff(c) \/ Crash(c)
    PROVE  Accounts(a)
<1> DEFINE k == call[c]
<1>1. k \in Call /\ PlaceOK(c) /\ waiting \in Calls \union {Nobody} /\ Nobody \notin Calls
      BY PlaceTells, SyncAssumption DEF Sound, TypeOK
<1>2. CASE Answer(c)
  <2>1. Set(c, NoCall) /\ ~May(NoCall, a) /\ k.todo = {} /\ UNCHANGED <<queue, rows>>
        BY <1>2 DEF Answer, May, NoCall, serverVars
  <2>2. CASE waiting = c
    <3>1. pending' = pending \ k.done /\ waiting' = Nobody
          BY <1>2, <2>2 DEF Answer
    <3>2. Idle(a)' => Idle(a)
          BY <2>1, <2>2, <3>1 DEF Idle
    <3>3. MayInsert(a)' \subseteq MayInsert(a)
          BY <2>1, MoveInserts DEF MayInsert
    <3>4. RowsOf(a)' = RowsOf(a)
          BY <2>1 DEF RowsOf
    <3>5. QED BY <3>2, <3>3, <3>4 DEF Accounts
  <2>3. CASE waiting # c
    <3>1. UNCHANGED <<pending, waiting>>
          BY <1>2, <2>3 DEF Answer
    <3>2. QED BY <2>1, <2>3, <3>1, GoesOn
  <2>4. QED BY <2>2, <2>3
<1>3. CASE Send(c)
  <2>1. PICK l : l = [NoCall EXCEPT !.op = "batch", !.pc = "next", !.todo = pending, !.refs = known]
        OBVIOUS
  <2>2. /\ Set(c, l) /\ waiting = Nobody /\ waiting' = c /\ pending' = pending /\ rows' = rows
        BY <1>3, <2>1 DEF Send, Begin, serverVars
  <2>3. l.todo = pending /\ l.op = "batch"
        BY <2>1 DEF NoCall
  <2>4. /\ call'[c] = l
        /\ \A d \in Calls : d \in MayInsert(a)' <=> IF d = c THEN May(l, a) ELSE d \in MayInsert(a)
        /\ MayInsert(a)' \subseteq Calls
        BY <2>2, MoveInserts
  <2>5. RowsOf(a)' = RowsOf(a)
        BY <2>2 DEF RowsOf
  <2>6. ~Idle(a)'
        BY <1>1, <2>2, <2>3, <2>4 DEF Idle
  <2>7. CASE a \in pending
    <3>1. Idle(a)
          BY <2>2, <2>7 DEF Idle
    <3>2. MayInsert(a)' \subseteq MayInsert(a) \union {c}
          BY <2>4
    <3>3. QED BY <2>5, <2>6, <3>1, <3>2 DEF Accounts
  <2>8. CASE a \notin pending
    <3>1. ~May(l, a)
          BY <2>3, <2>8 DEF May
    <3>2. MayInsert(a)' \subseteq MayInsert(a)
          BY <2>4, <3>1
    <3>3. QED BY <2>5, <2>6, <3>2 DEF Accounts
  <2>9. QED BY <2>7, <2>8
<1>4. CASE Staff(c)
  <2>1. PICK op \in {"count", "assign", "remove"} :
           Begin(c, [NoCall EXCEPT !.op = op, !.pc = IF op = "remove" THEN "remove" ELSE "box"])
        BY <1>4 DEF Staff
  <2>2. PICK l : l = [NoCall EXCEPT !.op = op, !.pc = IF op = "remove" THEN "remove" ELSE "box"]
        OBVIOUS
  <2>3. l.op = op /\ ~May(l, a)
        BY <2>1, <2>2 DEF NoCall, May
  <2>4. Set(c, l) /\ ~Running(c) /\ UNCHANGED <<queue, rows, pending, waiting>>
        BY <1>4, <2>1, <2>2 DEF Staff, Begin, deviceVars, serverVars
  <2>5. waiting # c
        BY <1>1, <2>4 DEF Running, Sound, DeviceOK
  <2>6. QED BY <2>3, <2>4, <2>5, GoesOn
<1>5. CASE Crash(c)
  <2>1. /\ Set(c, NoCall) /\ ~May(NoCall, a) /\ UNCHANGED <<queue, rows>>
        /\ timeouts' = timeouts /\ faults' = faults + 1
        BY <1>5 DEF Crash, May, NoCall, serverVars
  <2>2. RowsOf(a)' = RowsOf(a)
        BY <2>1 DEF RowsOf
  <2>3. QED BY <2>1, <2>2, TroubleAccounts
<1>6. QED BY <1>2, <1>3, <1>4, <1>5

LEMMA InitCounted == Init => InsertsCounted
<1> SUFFICES ASSUME Init, NEW a \in Actions
             PROVE  Cardinality(RowsOf(a)) + Cardinality(MayInsert(a)) + ToCome(a)
                        <= 1 + timeouts + faults
    BY DEF InsertsCounted
<1>1. rows = <<>> /\ timeouts = 0 /\ faults = 0 /\ call = [c \in Calls |-> NoCall]
      BY DEF Init
<1>2. RowsOf(a) = {}
      BY <1>1 DEF RowsOf
<1>3. MayInsert(a) = {}
      BY <1>1 DEF MayInsert, May, NoCall
<1>4. Cardinality(RowsOf(a)) = 0 /\ Cardinality(MayInsert(a)) = 0
      BY <1>2, <1>3, FS_EmptySet
<1>5. ToCome(a) \in 0 .. 1
      BY DEF ToCome
<1>6. QED BY <1>1, <1>4, <1>5

LEMMA NextCounted == Sound /\ Sound' /\ InsertsCounted /\ [Next]_vars => InsertsCounted'
<1> SUFFICES ASSUME Sound, Sound', InsertsCounted, [Next]_vars PROVE InsertsCounted'
    OBVIOUS
<1>1. CASE Timeout
  <2>1. UNCHANGED <<queue, rows, call, faults>> /\ timeouts' = timeouts + 1
        BY <1>1 DEF Timeout, serverVars
  <2>2. /\ timeouts + faults <= timeouts' + faults'
        /\ timeouts' + faults' = timeouts + faults + 1
        BY <2>1, SameBounds
  <2>3. \A a \in Actions : Accounts(a)
        BY <2>1, <2>2 DEF Accounts, RowsOf, MayInsert, May, At, Editing
  <2>4. QED BY <2>1, <2>2, <2>3, AccountsKept
<1>2. ASSUME NEW c \in Calls, Send(c) \/ Staff(c) \/ Crash(c) \/ Step(c) PROVE InsertsCounted'
  <2>1. /\ queue' = queue /\ timeouts' = timeouts /\ faults' \in {faults, faults + 1}
        BY <1>2 DEF Send, Staff, Crash, Step, FindDonor, InsertDonor, CreateDonation, Complete, LoadDonor,
              FindOther, SaveDonor, ChangeDonation, CreateCollection, ReadBox, SaveBox, CountFails, RemoveBox, Answer,
              deviceVars, historyVars
  <2>2. \A a \in Actions : Accounts(a)
        BY <1>2, BatchAccounts, BoxAccounts, DeviceAccounts DEF Step
  <2>3. QED BY <2>1, <2>2, AccountsKept, TroublesGrow
<1>3. CASE UNCHANGED vars
  <2>1. UNCHANGED <<queue, pending, waiting, rows, call, timeouts, faults>>
        BY <1>3 DEF vars, deviceVars, serverVars, historyVars
  <2>2. QED BY <2>1 DEF InsertsCounted, Actions, RowsOf, MayInsert, May, At,
                        ToCome, Idle, Editing
<1>4. QED BY <1>1, <1>2, <1>3 DEF Next

-----------------------------------------------------------------------------
(* The addresses of donors.                                                *)

\* A row with these edits has its address from the action it comes from or from an edit.
Given(from, edits, email) ==
    \/ email = queue[from].email
    \/ \E e \in edits : queue[e].email = email

\* No two donors have an address in common, every donor has one that was given to it, and
\* so has a donor that a handler has read.
EmailsUnique ==
    \A r, s \in DOMAIN rows : r # s /\ rows[r].email # None => rows[r].email # rows[s].email

EmailsGiven == \A r \in DOMAIN rows : Given(rows[r].from, rows[r].edits, rows[r].email)

ReadGiven ==
    \A c \in Calls :
        Editing(call[c]) => Given(rows[call[c].row].from, call[c].edits, call[c].email)

EmailsOK == EmailsUnique /\ EmailsGiven /\ ReadGiven

\* A step that leaves the rows alone keeps the addresses; a donor it reads has one that was
\* given to it.
LEMMA RowsLeftAlone ==
    ASSUME Sound, EmailsOK, UNCHANGED <<queue, rows>>, NEW c \in Calls, NEW l, Set(c, l),
           Editing(l) => Given(rows[l.row].from, l.edits, l.email)
    PROVE  EmailsOK'
<1>1. call' = [call EXCEPT ![c] = l] /\ call \in [Calls -> Call]
      BY DEF Set, Sound, TypeOK
<1>2. ASSUME NEW d \in Calls, Editing(call'[d])
      PROVE  Given(rows[call'[d].row].from, call'[d].edits, call'[d].email)
  <2>1. CASE d = c
        BY <1>1, <1>2, <2>1
  <2>2. CASE d # c
        BY <1>1, <1>2, <2>2 DEF EmailsOK, ReadGiven
  <2>3. QED BY <2>1, <2>2
<1>3. ReadGiven'
      BY <1>2 DEF ReadGiven, Given, Editing
<1>4. EmailsUnique' /\ EmailsGiven'
      BY DEF EmailsOK, EmailsUnique, EmailsGiven, Given
<1>5. QED BY <1>3, <1>4 DEF EmailsOK

\* So does a step that adds a row or saves one with an address no other row has, one that
\* was given to it.
LEMMA OneRowChanges ==
    ASSUME Sound, EmailsOK, queue' = queue, NEW c \in Calls, NEW l, Set(c, l), ~Editing(l),
           NEW x, DOMAIN rows' = DOMAIN rows \union {x},
           \A r \in DOMAIN rows \ {x} : rows'[r] = rows[r],
           x \in DOMAIN rows => rows'[x].from = rows[x].from,
           Given(rows'[x].from, rows'[x].edits, rows'[x].email),
           rows'[x].email # None => \A r \in DOMAIN rows \ {x} : rows[r].email # rows'[x].email
    PROVE  EmailsOK'
<1>1. call' = [call EXCEPT ![c] = l] /\ call \in [Calls -> Call]
      BY DEF Set, Sound, TypeOK
<1>2. EmailsUnique'
  <2>1. ASSUME NEW r \in DOMAIN rows', NEW s \in DOMAIN rows', r # s, rows'[r].email # None
        PROVE  rows'[r].email # rows'[s].email
    <3>1. CASE r = x
          BY <2>1, <3>1
    <3>2. CASE s = x
          BY <2>1, <3>2
    <3>3. CASE r # x /\ s # x
          BY <2>1, <3>3 DEF EmailsOK, EmailsUnique
    <3>4. QED BY <3>1, <3>2, <3>3
  <2>2. QED BY <2>1 DEF EmailsUnique
<1>3. EmailsGiven'
  <2>1. ASSUME NEW r \in DOMAIN rows'
        PROVE  Given(rows'[r].from, rows'[r].edits, rows'[r].email)
    <3>1. CASE r = x
          BY <3>1
    <3>2. CASE r # x
          BY <2>1, <3>2 DEF EmailsOK, EmailsGiven
    <3>3. QED BY <3>1, <3>2
  <2>2. QED BY <2>1 DEF EmailsGiven, Given
<1>4. ReadGiven'
  <2>1. ASSUME NEW d \in Calls, Editing(call'[d])
        PROVE  Given(rows'[call'[d].row].from, call'[d].edits, call'[d].email)
    <3>1. call'[d] = call[d] /\ Editing(call[d])
          BY <1>1, <2>1
    <3>2. call[d].row \in DOMAIN rows
          BY <3>1, EditingTells
    <3>3. rows'[call[d].row].from = rows[call[d].row].from
          BY <3>2
    <3>4. Given(rows[call[d].row].from, call[d].edits, call[d].email)
          BY <3>1 DEF EmailsOK, ReadGiven
    <3>5. QED BY <3>1, <3>3, <3>4
  <2>2. QED BY <2>1 DEF ReadGiven, Given, Editing
<1>5. QED BY <1>2, <1>3, <1>4 DEF EmailsOK

\* A handler that comes to the end of an action holds no donor.
LEMMA EndEditsNothing ==
    ASSUME NEW k \in Call, NEW id
    PROVE  ~Editing(Failed(k)) /\ ~Editing(Done(k, id)) /\ ~Editing(NoCall)
BY DEF Failed, Done, NoCall, Call, Editing

\* A row is inserted with the address of its action, which no other row has.
LEMMA InsertEmails ==
    ASSUME Sound, EmailsOK, queue' = queue, NEW c \in Calls, NEW of, NEW pc, pc \in {"after", "box"},
           Insert(c, of, pc), NEW m, m = queue[At(call[c])].email,
           m # None => \A r \in DOMAIN rows : rows[r].email # m
    PROVE  EmailsOK'
<1>1. PICK l : l = [call[c] EXCEPT !.row = Len(rows) + 1, !.pc = pc]
      OBVIOUS
<1>2. call[c] \in Call /\ rows \in Seq(Row) /\ Len(rows) \in Nat
      BY SameBounds DEF Sound, TypeOK
<1>3. Set(c, l) /\ ~Editing(l)
      BY <1>1, <1>2 DEF Insert, Call, Editing
<1>4. PICK n : n = Len(rows) + 1
      OBVIOUS
<1>5. PICK row : row = [from |-> At(call[c]), of |-> of, edits |-> {}, email |-> m]
      OBVIOUS
<1>6. rows' = Append(rows, row)
      BY <1>5 DEF Insert
<1>7. /\ DOMAIN rows' = DOMAIN rows \union {n} /\ n \notin DOMAIN rows
      /\ \A r \in DOMAIN rows : rows'[r] = rows[r]
      /\ rows'[n] = row
      BY <1>2, <1>4, <1>6
<1>8. /\ Given(rows'[n].from, rows'[n].edits, rows'[n].email)
      /\ rows'[n].email = m
      BY <1>5, <1>7 DEF Given
<1>9. QED BY <1>3, <1>7, <1>8, OneRowChanges

\* A donor is saved with the address it was read with or the one the edit gives it.
LEMMA SaveEmails ==
    ASSUME Sound, EmailsOK, NEW c \in Calls, SaveDonor(c)
    PROVE  EmailsOK'
<1> DEFINE k == call[c]
<1>1. Editing(k) /\ queue' = queue
      BY DEF SaveDonor, Editing, deviceVars
<1>2. k \in Call /\ k.row \in DOMAIN rows
      BY <1>1, EditingTells
<1>3. PICK l : Set(c, l) /\ ~Editing(l)
  <2>1. Set(c, Failed(k)) \/ Set(c, Done(k, k.row))
        BY DEF SaveDonor
  <2>2. QED BY <1>2, <2>1, EndEditsNothing
<1>4. CASE Registered(NextEmail(k), k.row)
  <2>1. rows' = rows
        BY <1>4 DEF SaveDonor
  <2>2. QED BY <1>1, <1>3, <2>1, RowsLeftAlone
<1>5. CASE ~Registered(NextEmail(k), k.row)
  <2>1. PICK y : y = [rows[k.row] EXCEPT !.edits = k.edits \union {At(k)}, !.email = NextEmail(k)]
        OBVIOUS
  <2>2. rows' = [rows EXCEPT ![k.row].edits = k.edits \union {At(k)}, ![k.row].email = NextEmail(k)]
        BY <1>5 DEF SaveDonor
  <2>3. /\ rows' = [rows EXCEPT ![k.row] = y] /\ y.from = rows[k.row].from
        /\ y.edits = k.edits \union {At(k)} /\ y.email = NextEmail(k)
        BY <1>1, <2>1, <2>2, SavedRow
  <2>4. PICK x : x = k.row
        OBVIOUS
  <2>5. /\ DOMAIN rows' = DOMAIN rows \union {x} /\ x \in DOMAIN rows
        /\ \A r \in DOMAIN rows \ {x} : rows'[r] = rows[r]
        /\ rows'[x] = y
        BY <1>2, <2>3, <2>4
  <2>6. Given(y.from, y.edits, y.email)
    <3>1. Given(rows[k.row].from, k.edits, k.email)
          BY <1>1 DEF EmailsOK, ReadGiven
    <3>2. CASE queue[At(k)].email = Kept
      <4>1. y.email = k.email
            BY <2>3, <3>2 DEF NextEmail
      <4>2. QED BY <2>3, <3>1, <4>1 DEF Given
    <3>3. CASE queue[At(k)].email # Kept
      <4>1. y.email = queue[At(k)].email /\ At(k) \in y.edits
            BY <2>3, <3>3 DEF NextEmail
      <4>2. QED BY <4>1 DEF Given
    <3>4. QED BY <3>2, <3>3
  <2>7. y.email # None => \A r \in DOMAIN rows \ {x} : rows[r].email # y.email
        BY <1>5, <2>3, <2>4 DEF Registered
  <2>8. QED BY <1>1, <1>3, <2>3, <2>4, <2>5, <2>6, <2>7, OneRowChanges
<1>6. QED BY <1>4, <1>5

\* A donation has no address, whatever it is changed to.
LEMMA ChangeEmails ==
    ASSUME Sound, EmailsOK, NEW c \in Calls, ChangeDonation(c)
    PROVE  EmailsOK'
<1> DEFINE k == call[c]
<1>1. k \in Call /\ queue' = queue /\ k.todo # {} /\ queue[At(k)].type = "change"
      BY PlaceTells DEF ChangeDonation, IsAt, deviceVars
<1>2. CASE Ref(k) = 0
  <2>1. rows' = rows /\ Set(c, Failed(k))
        BY <1>2 DEF ChangeDonation
  <2>2. QED BY <1>1, <2>1, RowsLeftAlone, EndEditsNothing
<1>3. CASE Ref(k) # 0
  <2>1. At(k) \in Actions /\ queue[At(k)].of # 0
        BY <1>1, AtIsTodo, QueueOK DEF Sound, TypeOK
  <2>2. PICK x \in DOMAIN rows : x = Ref(k)
        BY <1>1, <1>3, <2>1, RefIsRow DEF IsRowOf
  <2>3. PICK l : l = Done(k, Ref(k))
        OBVIOUS
  <2>4. /\ rows' = [rows EXCEPT ![x].edits = @ \union {At(k)}]
        /\ Set(c, l) /\ ~Editing(l)
        BY <1>1, <1>3, <2>2, <2>3, EndEditsNothing DEF ChangeDonation
  <2>5. rows[x] \in Row
        BY SameBounds
  <2>6. /\ DOMAIN rows' = DOMAIN rows \union {x}
        /\ \A r \in DOMAIN rows \ {x} : rows'[r] = rows[r]
        /\ rows'[x].from = rows[x].from /\ rows'[x].email = rows[x].email
        /\ rows'[x].edits = rows[x].edits \union {At(k)}
        BY <2>4, <2>5 DEF Row
  <2>7. Given(rows[x].from, rows[x].edits, rows[x].email)
        BY DEF EmailsOK, EmailsGiven
  <2>8. Given(rows'[x].from, rows'[x].edits, rows'[x].email)
        BY <2>6, <2>7 DEF Given
  <2>9. rows'[x].email # None => \A r \in DOMAIN rows \ {x} : rows[r].email # rows'[x].email
        BY <2>6 DEF EmailsOK, EmailsUnique
  <2>10. QED BY <1>1, <2>4, <2>6, <2>8, <2>9, OneRowChanges
<1>4. QED BY <1>2, <1>3

\* A donor is read with its address.
LEMMA LoadEmails ==
    ASSUME Sound, EmailsOK, NEW c \in Calls, LoadDonor(c)
    PROVE  EmailsOK'
<1> DEFINE k == call[c]
<1>1. /\ k \in Call /\ k.todo # {} /\ queue[At(k)].type = "edit"
      /\ queue' = queue /\ rows' = rows
      BY PlaceTells DEF LoadDonor, IsAt, deviceVars, serverVars
<1>2. CASE Ref(k) = 0
  <2>1. Set(c, Failed(k))
        BY <1>2 DEF LoadDonor
  <2>2. QED BY <1>1, <2>1, RowsLeftAlone, EndEditsNothing
<1>3. CASE Ref(k) # 0
  <2>1. At(k) \in Actions /\ queue[At(k)].of # 0
        BY <1>1, AtIsTodo, QueueOK DEF Sound, TypeOK
  <2>2. PICK x \in DOMAIN rows : x = Ref(k)
        BY <1>1, <1>3, <2>1, RefIsRow DEF IsRowOf
  <2>3. PICK l : l = [k EXCEPT !.row = x, !.edits = rows[x].edits, !.email = rows[x].email,
                               !.pc = "email"]
        OBVIOUS
  <2>4. Set(c, l)
        BY <1>3, <2>2, <2>3 DEF LoadDonor
  <2>5. l.row = x /\ l.edits = rows[x].edits /\ l.email = rows[x].email
        BY <1>1, <2>3 DEF Call
  <2>6. Given(rows[l.row].from, l.edits, l.email)
        BY <2>5 DEF EmailsOK, EmailsGiven
  <2>7. QED BY <1>1, <2>4, <2>6, RowsLeftAlone
<1>4. QED BY <1>2, <1>3

\* It keeps its address while another donor with the new one is looked for.
LEMMA FindOtherEmails ==
    ASSUME Sound, EmailsOK, NEW c \in Calls, FindOther(c)
    PROVE  EmailsOK'
<1> DEFINE k == call[c]
<1>1. Editing(k) /\ k \in Call /\ queue' = queue /\ rows' = rows
      BY PlaceTells DEF FindOther, Editing, deviceVars, serverVars
<1>2. CASE Set(c, Failed(k))
      BY <1>1, <1>2, RowsLeftAlone, EndEditsNothing
<1>3. CASE Set(c, [k EXCEPT !.pc = "donorSave"])
  <2>1. PICK l : l = [k EXCEPT !.pc = "donorSave"]
        OBVIOUS
  <2>2. l.row = k.row /\ l.edits = k.edits /\ l.email = k.email
        BY <1>1, <2>1 DEF Call
  <2>3. Given(rows[k.row].from, k.edits, k.email)
        BY <1>1 DEF EmailsOK, ReadGiven
  <2>4. QED BY <1>1, <1>3, <2>1, <2>2, <2>3, RowsLeftAlone
<1>4. QED BY <1>2, <1>3 DEF FindOther

\* A donor is inserted with an address no row has, donations and collections have none.
LEMMA NewEmails ==
    ASSUME Sound, EmailsOK, NEW c \in Calls,
           InsertDonor(c) \/ CreateDonation(c) \/ CreateCollection(c)
    PROVE  EmailsOK'
<1> DEFINE k == call[c]
<1>1. k \in Call /\ queue' = queue
      BY PlaceTells DEF InsertDonor, CreateDonation, CreateCollection, deviceVars
<1>2. CASE Set(c, Failed(k)) /\ rows' = rows
      BY <1>1, <1>2, RowsLeftAlone, EndEditsNothing
<1>3. CASE InsertDonor(c) /\ ~Known(At(k))
  <2>1. Insert(c, 0, "after")
        BY <1>3 DEF InsertDonor
  <2>2. 0 \notin DOMAIN rows
        BY SameBounds
  <2>3. queue[At(k)].email # None => \A r \in DOMAIN rows : rows[r].email # queue[At(k)].email
        BY <1>3, <2>2 DEF Known, Registered
  <2>4. QED BY <1>1, <2>1, <2>3, InsertEmails
<1>4. ASSUME CreateDonation(c) \/ CreateCollection(c), NEW of, NEW pc \in {"after", "box"},
             Insert(c, of, pc)
      PROVE  EmailsOK'
  <2>1. k.todo # {} /\ queue[At(k)].type \in {"donation", "collection"}
        BY <1>4 DEF CreateDonation, CreateCollection, IsAt
  <2>2. queue[At(k)].email = None
        BY <2>1, AtIsTodo, SyncAssumption DEF Sound, TypeOK, Actions
  <2>3. QED BY <1>1, <1>4, <2>2, InsertEmails
<1>5. QED BY <1>2, <1>3, <1>4 DEF InsertDonor, CreateDonation, CreateCollection

\* What is not about donors leaves their addresses alone.
LEMMA OtherEmails ==
    ASSUME Sound, EmailsOK, NEW c \in Calls,
           \/ FindDonor(c) \/ Complete(c) \/ ReadBox(c) \/ SaveBox(c) \/ CountFails(c) \/ RemoveBox(c)
           \/ Answer(c) \/ Send(c) \/ Staff(c) \/ Crash(c)
    PROVE  EmailsOK'
<1> DEFINE k == call[c]
<1>1. k \in Call
      BY PlaceTells
<1>2. queue' = queue /\ rows' = rows
      BY DEF FindDonor, Complete, ReadBox, SaveBox, CountFails, RemoveBox, Answer, Send, Staff, Crash,
             deviceVars, serverVars
<1>3. \E l : Set(c, l) /\ ~Editing(l)
  <2>1. CASE \/ Set(c, Failed(k)) \/ Set(c, Done(k, k.row)) \/ Set(c, NoCall)
        BY <1>1, <2>1, EndEditsNothing
  <2>2. CASE Set(c, [k EXCEPT !.pc = "donor"])
    <3>1. ~Editing([k EXCEPT !.pc = "donor"])
          BY <1>1 DEF Editing, Call
    <3>2. QED BY <2>2, <3>1
  <2>3. CASE Set(c, [k EXCEPT !.box = box, !.pc = "boxSave"])
    <3>1. ~Editing([k EXCEPT !.box = box, !.pc = "boxSave"])
          BY <1>1 DEF Editing, Call
    <3>2. QED BY <2>3, <3>1
  <2>4. CASE Send(c)
    <3>1. PICK l : l = [NoCall EXCEPT !.op = "batch", !.pc = "next", !.todo = pending, !.refs = known]
          OBVIOUS
    <3>2. Set(c, l)
          BY <2>4, <3>1 DEF Send, Begin
    <3>3. ~Editing(l)
          BY <3>1 DEF NoCall, Editing
    <3>4. QED BY <3>2, <3>3
  <2>5. CASE Staff(c)
    <3>1. PICK op \in {"count", "assign", "remove"} :
             Begin(c, [NoCall EXCEPT !.op = op, !.pc = IF op = "remove" THEN "remove" ELSE "box"])
          BY <2>5 DEF Staff
    <3>2. PICK l : l = [NoCall EXCEPT !.op = op, !.pc = IF op = "remove" THEN "remove" ELSE "box"]
          OBVIOUS
    <3>3. Set(c, l)
          BY <3>1, <3>2 DEF Begin
    <3>4. ~Editing(l)
          BY <3>2 DEF NoCall, Editing
    <3>5. QED BY <3>3, <3>4
  <2>6. CASE FindDonor(c)
        BY <2>1, <2>2, <2>6 DEF FindDonor
  <2>7. CASE SaveBox(c) \/ CountFails(c)
        BY <2>1, <2>7 DEF SaveBox, CountFails, AfterBox
  <2>8. QED BY <2>1, <2>3, <2>4, <2>5, <2>6, <2>7 DEF Complete, ReadBox, RemoveBox, Answer, Crash
<1>4. PICK l : Set(c, l) /\ ~Editing(l)
      BY <1>3
<1>5. QED BY <1>2, <1>4, RowsLeftAlone

LEMMA InitEmails == Init => EmailsOK
<1> SUFFICES ASSUME Init PROVE EmailsOK
    OBVIOUS
<1>1. rows = <<>> /\ \A c \in Calls : call[c] = NoCall
      BY DEF Init
<1>2. ~Editing(NoCall)
      BY DEF NoCall, Editing
<1>3. QED BY <1>1, <1>2 DEF EmailsOK, EmailsUnique, EmailsGiven, ReadGiven

LEMMA NextEmails == Sound /\ EmailsOK /\ [Next]_vars => EmailsOK'
<1> SUFFICES ASSUME Sound, EmailsOK, [Next]_vars PROVE EmailsOK'
    OBVIOUS
<1>1. CASE UNCHANGED <<queue, rows, call>>
      BY <1>1 DEF EmailsOK, EmailsUnique, EmailsGiven, ReadGiven, Given, Editing
<1>2. CASE Timeout \/ UNCHANGED vars
      BY <1>1, <1>2 DEF Timeout, vars, deviceVars, serverVars
<1>3. ASSUME NEW c \in Calls, Send(c) \/ Staff(c) \/ Crash(c) PROVE EmailsOK'
      BY <1>3, OtherEmails
<1>4. ASSUME NEW c \in Calls, Step(c) PROVE EmailsOK'
      BY <1>4, NewEmails, LoadEmails, FindOtherEmails, SaveEmails, ChangeEmails, OtherEmails DEF Step
<1>5. QED BY <1>2, <1>3, <1>4 DEF Next

\* Two rows of one action with an address: one of them has been given another.
LEMMA AddressOnce ==
    ASSUME Sound, EmailsOK, NEW a \in Actions, queue[a].email # None,
           NEW r \in RowsOf(a), NEW s \in RowsOf(a), r # s
    PROVE  Renamed(r) \/ Renamed(s)
<1>1. ASSUME NEW x \in RowsOf(a), ~Renamed(x) PROVE rows[x].email = queue[a].email
  <2>1. x \in DOMAIN rows /\ rows[x].from = a
        BY <1>1 DEF RowsOf
  <2>2. rows[x] \in Row
        BY <2>1, SameBounds
  <2>3. rows[x].email # Kept
        BY <2>2, SyncAssumption DEF Row, None, Kept
  <2>4. Given(a, rows[x].edits, rows[x].email)
        BY <2>1 DEF EmailsOK, EmailsGiven
  <2>5. \A e \in rows[x].edits : queue[e].email \in {Kept, queue[a].email}
        BY <1>1, <2>1 DEF Renamed
  <2>6. QED BY <2>3, <2>4, <2>5 DEF Given
<1>2. SUFFICES ASSUME ~Renamed(r), ~Renamed(s) PROVE FALSE
      OBVIOUS
<1>3. rows[r].email = queue[a].email /\ rows[s].email = queue[a].email
      BY <1>1, <1>2
<1>4. r \in DOMAIN rows /\ s \in DOMAIN rows
      BY DEF RowsOf
<1>5. QED BY <1>3, <1>4 DEF EmailsOK, EmailsUnique

\* What was entered is recorded once, and once more at most for every timeout, death or
\* failing statement, a donor with an e-mail address only after an edit has given its row
\* another one; and every row refers to the one its action was entered for.
THEOREM EveryRowAccounted == Spec => []RowsAccounted
<1>1. Init => Sound /\ InsertsCounted /\ EmailsOK
      BY InitSound, InitCounted, InitEmails
<1>2. Sound /\ InsertsCounted /\ EmailsOK /\ [Next]_vars => (Sound /\ InsertsCounted /\ EmailsOK)'
      BY NextSound, NextCounted, NextEmails
<1>3. Sound /\ InsertsCounted /\ EmailsOK => RowsAccounted
  <2> SUFFICES ASSUME Sound, InsertsCounted, EmailsOK PROVE RowsAccounted
      OBVIOUS
  <2>1. ASSUME NEW a \in Actions
        PROVE  Cardinality(RowsOf(a)) <= 1 + timeouts + faults
    <3>1. /\ Cardinality(RowsOf(a)) \in Nat /\ Cardinality(MayInsert(a)) \in Nat /\ ToCome(a) \in 0 .. 1
          BY CountsFinite DEF AllCounts, CountsOf
    <3>2. Cardinality(RowsOf(a)) + Cardinality(MayInsert(a)) + ToCome(a) <= 1 + timeouts + faults
          BY DEF InsertsCounted
    <3>3. timeouts \in Nat /\ faults \in Nat
          BY SameBounds
    <3>4. QED BY <3>1, <3>2, <3>3
  <2>2. ASSUME NEW a \in Actions
        PROVE  queue[a].email # None => \A r, s \in RowsOf(a) : r # s => Renamed(r) \/ Renamed(s)
        BY AddressOnce
  <2>3. ParentsOK
        BY DEF Sound
  <2>4. QED BY <2>1, <2>2, <2>3 DEF RowsAccounted, ParentsOK
<1>4. QED BY <1>1, <1>2, <1>3, PTL DEF Spec

-----------------------------------------------------------------------------
(* What the box counts.                                                    *)

BoxCounted == CountsOwed /\ BoxExact

\* The number of handlers that have still to count is one.
CountingOK == IsFiniteSet(Counting) /\ Cardinality(Counting) \in Nat

LEMMA CountingFinite == CountingOK
<1>1. Counting \in SUBSET Calls
      BY DEF Counting
<1>2. QED BY <1>1, FS_Subset, FS_CardinalityType, SyncAssumption DEF CountingOK

\* The step of one handler changes whether that one counts.
LEMMA CountingMoves ==
    ASSUME Sound, NEW c \in Calls, NEW l, Set(c, l)
    PROVE  /\ call'[c] = l /\ \A d \in Calls \ {c} : call'[d] = call[d]
           /\ \A d \in Calls : d \in Counting' <=> IF d = c THEN Counts(l) ELSE d \in Counting
           /\ Counting \subseteq Calls /\ Counting' \subseteq Calls
           /\ c \in Counting <=> Counts(call[c])
<1>1. call' = [call EXCEPT ![c] = l] /\ call \in [Calls -> Call]
      BY DEF Set, Sound, TypeOK
<1>2. call'[c] = l /\ \A d \in Calls \ {c} : call'[d] = call[d]
      BY <1>1
<1>3. \A d \in Calls : d \in Counting' <=> Counts(call'[d])
      BY DEF Counting, Counts
<1>4. \A d \in Calls : d \in Counting <=> Counts(call[d])
      BY DEF Counting
<1>5. QED BY <1>2, <1>3, <1>4 DEF Counting

\* The types the counts are added in.
LEMMA BoxTypes ==
    ASSUME Sound
    PROVE  /\ box.count \in Nat /\ box.archived \in BOOLEAN /\ owed \in Nat /\ faults \in Nat
           /\ \A c \in Calls : call[c].box \in Box /\ call[c].box.count \in Nat
BY DEF Sound, TypeOK, Call, Box

\* A step that is not about the box: the same handlers have still to count, or fewer after
\* a failure.
LEMMA BoxLeftAlone ==
    ASSUME Sound, BoxCounted, NEW c \in Calls, NEW l, Set(c, l), l.pc # "boxSave",
           UNCHANGED <<box, owed, removed>>, faults' \in {faults, faults + 1},
           overlapped => overlapped',
           Counts(l) => Counts(call[c]), Counts(call[c]) => Counts(l) \/ faults' = faults + 1
    PROVE  BoxCounted'
<1>1. PICK m, n : m = Cardinality(Counting) /\ n = Cardinality(Counting')
      OBVIOUS
<1>2. /\ call'[c] = l /\ \A d \in Calls \ {c} : call'[d] = call[d]
      /\ \A d \in Calls : d \in Counting' <=> IF d = c THEN Counts(l) ELSE d \in Counting
      /\ Counting \subseteq Calls /\ Counting' \subseteq Calls /\ (c \in Counting <=> Counts(call[c]))
      BY CountingMoves
<1>3. Counting' \subseteq Counting
      BY <1>2
<1>4. IsFiniteSet(Counting) /\ m \in Nat /\ n \in Nat /\ n <= m
      BY <1>1, <1>3, CountingFinite, SubsetCard, FS_CardinalityType DEF CountingOK
<1>5. CountsOwed'
  <2>1. box.count + n <= owed
        BY <1>1, <1>4, BoxTypes DEF BoxCounted, CountsOwed
  <2>2. \A d \in Calls : call'[d].pc = "boxSave" => call'[d] = call[d] /\ call[d].pc = "boxSave"
        BY <1>2
  <2>3. \A d \in Calls : call[d].pc = "boxSave" => call[d].box.count + n <= owed
        BY <1>1, <1>4, BoxTypes DEF BoxCounted, CountsOwed
  <2>4. QED BY <1>1, <2>1, <2>2, <2>3 DEF CountsOwed
<1>6. BoxExact'
  <2>1. ASSUME ~overlapped', faults' = 0
        PROVE  /\ box.count + n = owed /\ box.archived = removed
               /\ \A d \in Calls : call'[d].pc = "boxSave" => call'[d].box = box
    <3>1. faults' # faults + 1 /\ faults = 0 /\ ~overlapped
          BY <2>1, BoxTypes
    <3>2. Counting' = Counting
          BY <1>2, <3>1
    <3>3. QED BY <1>1, <1>2, <3>1, <3>2 DEF BoxCounted, BoxExact
  <2>2. QED BY <1>1, <2>1 DEF BoxExact
<1>7. QED BY <1>5, <1>6 DEF BoxCounted

\* One handler more has to count, and so much is owed.
LEMMA BoxOwesMore ==
    ASSUME Sound, BoxCounted, NEW c \in Calls, NEW l, Set(c, l), l.pc # "boxSave",
           UNCHANGED <<box, removed, faults>>, owed' = owed + 1, overlapped => overlapped',
           Counts(l), ~Counts(call[c])
    PROVE  BoxCounted'
<1>1. PICK m, n : m = Cardinality(Counting) /\ n = Cardinality(Counting')
      OBVIOUS
<1>2. /\ call'[c] = l /\ \A d \in Calls \ {c} : call'[d] = call[d]
      /\ \A d \in Calls : d \in Counting' <=> IF d = c THEN Counts(l) ELSE d \in Counting
      /\ Counting \subseteq Calls /\ Counting' \subseteq Calls /\ (c \in Counting <=> Counts(call[c]))
      BY CountingMoves
<1>3. Counting' = Counting \union {c} /\ c \notin Counting
      BY <1>2
<1>4. m \in Nat /\ n = m + 1
      BY <1>1, <1>3, CountingFinite, FS_AddElement DEF CountingOK
<1>5. PICK o \in Nat : o = owed' /\ o = owed + 1
      BY BoxTypes
<1>6. CountsOwed'
  <2>1. box.count + n <= o
        BY <1>1, <1>4, <1>5, BoxTypes DEF BoxCounted, CountsOwed
  <2>2. \A d \in Calls : call'[d].pc = "boxSave" => call'[d] = call[d] /\ call[d].pc = "boxSave"
        BY <1>2
  <2>3. \A d \in Calls : call[d].pc = "boxSave" => call[d].box.count + n <= o
        BY <1>1, <1>4, <1>5, BoxTypes DEF BoxCounted, CountsOwed
  <2>4. QED BY <1>1, <1>5, <2>1, <2>2, <2>3 DEF CountsOwed
<1>7. BoxExact'
  <2>1. ASSUME ~overlapped', faults' = 0
        PROVE  /\ box.count + n = o /\ box.archived = removed
               /\ \A d \in Calls : call'[d].pc = "boxSave" => call'[d].box = box
    <3>1. faults = 0 /\ ~overlapped
          BY <2>1
    <3>2. box.count + m = owed /\ box.archived = removed
          BY <1>1, <3>1 DEF BoxCounted, BoxExact
    <3>3. \A d \in Calls : call'[d].pc = "boxSave" => call'[d].box = box
          BY <1>2, <3>1 DEF BoxCounted, BoxExact
    <3>4. QED BY <1>4, <1>5, <3>2, <3>3, BoxTypes
  <2>2. QED BY <1>1, <1>5, <2>1 DEF BoxExact
<1>8. QED BY <1>6, <1>7 DEF BoxCounted

\* The box that a handler reads counts what it counts.
LEMMA ReadBoxCounted ==
    ASSUME Sound, BoxCounted, NEW c \in Calls, ReadBox(c)
    PROVE  BoxCounted'
<1>1. PICK l : l = [call[c] EXCEPT !.box = box, !.pc = "boxSave"]
      OBVIOUS
<1>2. l.op = call[c].op /\ l.box = box /\ l.pc = "boxSave" /\ call[c].pc = "box"
      BY <1>1, PlaceTells DEF ReadBox, Call
<1>3. Set(c, l) /\ UNCHANGED <<box, owed, removed, faults, overlapped>>
      BY <1>1 DEF ReadBox, serverVars, historyVars
<1>4. /\ call'[c] = l /\ \A d \in Calls \ {c} : call'[d] = call[d]
      /\ \A d \in Calls : d \in Counting' <=> IF d = c THEN Counts(l) ELSE d \in Counting
      /\ Counting \subseteq Calls /\ Counting' \subseteq Calls /\ (c \in Counting <=> Counts(call[c]))
      BY <1>3, CountingMoves
<1>5. Counting' = Counting
      BY <1>2, <1>4 DEF Counts
<1>6. CountsOwed'
      BY <1>2, <1>3, <1>4, <1>5 DEF BoxCounted, CountsOwed
<1>7. BoxExact'
      BY <1>2, <1>3, <1>4, <1>5 DEF BoxCounted, BoxExact
<1>8. QED BY <1>6, <1>7 DEF BoxCounted

\* The count that is saved was owed; what a handler that ran beside it had counted is lost.
LEMMA SaveBoxCounted ==
    ASSUME Sound, BoxCounted, NEW c \in Calls, SaveBox(c)
    PROVE  BoxCounted'
<1>1. PICK k \in Call : k = call[c]
      BY DEF Sound, TypeOK
<1>2. PICK l : l = AfterBox(k)
      OBVIOUS
<1>3. k.pc = "boxSave" /\ k.op \in {"batch", "count", "assign"} /\ Running(c)
      BY <1>1, PlaceTells DEF SaveBox
<1>4. /\ Set(c, l) /\ UNCHANGED <<owed, removed, faults, overlapped>>
      BY <1>1, <1>2 DEF SaveBox, historyVars
<1>5. l.pc # "boxSave" /\ ~Counts(l)
      BY <1>2, <1>3 DEF AfterBox, Done, NoCall, Counts, Call
<1>6. PICK m, n : m = Cardinality(Counting) /\ n = Cardinality(Counting')
      OBVIOUS
<1>7. /\ call'[c] = l /\ \A d \in Calls \ {c} : call'[d] = call[d]
      /\ \A d \in Calls : d \in Counting' <=> IF d = c THEN Counts(l) ELSE d \in Counting
      /\ Counting \subseteq Calls /\ Counting' \subseteq Calls /\ (c \in Counting <=> Counts(call[c]))
      BY <1>4, CountingMoves
<1>8. Counting' = Counting \ {c}
      BY <1>5, <1>7
<1>9. m \in Nat /\ n = (IF c \in Counting THEN m - 1 ELSE m) /\ n \in Nat /\ n <= m
  <2>1. IsFiniteSet(Counting) /\ m \in Nat
        BY <1>6, CountingFinite DEF CountingOK
  <2>2. IsFiniteSet(Counting \ {c}) /\ n = (IF c \in Counting THEN m - 1 ELSE m)
        BY <1>6, <1>8, <2>1, FS_RemoveElement
  <2>3. n \in Nat
        BY <1>6, <1>8, <2>2, FS_CardinalityType
  <2>4. QED BY <2>1, <2>2, <2>3
<1>10. c \in Counting <=> k.op # "assign"
      BY <1>1, <1>3, <1>7 DEF Counts
<1>11. PICK b \in Box : b = box' /\ b = Saved(k)
      BY <1>1 DEF SaveBox, Saved, Call, Box
<1>12. /\ b.count + n = k.box.count + m /\ b.archived = k.box.archived
       /\ b.count \in Nat /\ k.box.count \in Nat
      BY <1>9, <1>10, <1>11 DEF Saved, Call, Box
<1>13. CountsOwed'
  <2>1. b.count + n <= owed
        BY <1>1, <1>3, <1>6, <1>12 DEF BoxCounted, CountsOwed
  <2>2. \A d \in Calls : call'[d].pc = "boxSave" => call'[d] = call[d] /\ call[d].pc = "boxSave"
        BY <1>5, <1>7
  <2>3. \A d \in Calls : call[d].pc = "boxSave" => call[d].box.count + n <= owed
        BY <1>6, <1>9, BoxTypes DEF BoxCounted, CountsOwed
  <2>4. QED BY <1>4, <1>6, <1>11, <2>1, <2>2, <2>3 DEF CountsOwed
<1>14. BoxExact'
  <2>1. ASSUME ~overlapped, faults = 0
        PROVE  /\ b.count + n = owed /\ b.archived = removed
               /\ \A d \in Calls : call'[d].pc = "boxSave" => call'[d].box = b
    <3>1. k.box = box /\ box.count + m = owed /\ box.archived = removed
          BY <1>1, <1>3, <1>6, <2>1 DEF BoxCounted, BoxExact
    <3>2. ASSUME NEW d \in Calls, call'[d].pc = "boxSave" PROVE FALSE
      <4>1. d # c /\ call[d].pc = "boxSave"
            BY <1>5, <1>7, <3>2
      <4>2. Running(d)
            BY <4>1, PlaceTells
      <4>3. QED BY <1>3, <2>1, <4>1, <4>2 DEF Sound, Alone
    <3>3. QED BY <1>12, <3>1, <3>2
  <2>2. QED BY <1>4, <1>6, <1>11, <2>1 DEF BoxExact
<1>15. QED BY <1>13, <1>14 DEF BoxCounted

\* An archived box counts what it counted.
LEMMA RemoveBoxCounted ==
    ASSUME Sound, BoxCounted, NEW c \in Calls, RemoveBox(c)
    PROVE  BoxCounted'
<1>1. call[c].op = "remove" /\ Running(c) /\ call[c].pc = "remove"
      BY PlaceTells DEF RemoveBox
<1>2. Set(c, NoCall) /\ UNCHANGED <<owed, faults, overlapped>> /\ removed' = TRUE
      BY DEF RemoveBox
<1>3. PICK l : l = NoCall
      OBVIOUS
<1>4. ~Counts(l) /\ l.pc # "boxSave" /\ ~Counts(call[c])
      BY <1>1, <1>3 DEF NoCall, Counts
<1>5. /\ call'[c] = l /\ \A d \in Calls \ {c} : call'[d] = call[d]
      /\ \A d \in Calls : d \in Counting' <=> IF d = c THEN Counts(l) ELSE d \in Counting
      /\ Counting \subseteq Calls /\ Counting' \subseteq Calls /\ (c \in Counting <=> Counts(call[c]))
      BY <1>2, <1>3, CountingMoves
<1>6. Counting' = Counting
      BY <1>4, <1>5
<1>7. box'.count = box.count /\ box'.archived = TRUE
      BY DEF RemoveBox, Sound, TypeOK, Box
<1>8. \A d \in Calls : call'[d].pc = "boxSave" => call'[d] = call[d] /\ call[d].pc = "boxSave"
      BY <1>4, <1>5
<1>9. CountsOwed'
      BY <1>2, <1>6, <1>7, <1>8 DEF BoxCounted, CountsOwed
<1>10. BoxExact'
  <2>1. ASSUME ~overlapped, NEW d \in Calls, call'[d].pc = "boxSave" PROVE FALSE
    <3>1. d # c /\ call[d].pc = "boxSave"
          BY <1>4, <1>5, <2>1
    <3>2. Running(d)
          BY <3>1, PlaceTells
    <3>3. QED BY <1>1, <2>1, <3>1, <3>2 DEF Sound, Alone
  <2>2. QED BY <1>2, <1>6, <1>7, <2>1 DEF BoxCounted, BoxExact
<1>11. QED BY <1>9, <1>10 DEF BoxCounted

\* The steps of a batch before it comes to the box, and its answer, leave the box alone.
LEMMA BatchLeavesBox ==
    ASSUME Sound, BoxCounted, NEW c \in Calls,
           \/ FindDonor(c) \/ InsertDonor(c) \/ CreateDonation(c) \/ Complete(c)
           \/ LoadDonor(c) \/ FindOther(c) \/ SaveDonor(c) \/ ChangeDonation(c) \/ Answer(c)
    PROVE  BoxCounted'
<1> DEFINE k == call[c]
<1>1. k \in Call /\ k.pc \in {"next", "donor", "after", "email", "donorSave"}
      BY PlaceTells DEF FindDonor, InsertDonor, CreateDonation, Complete, LoadDonor, FindOther,
                        SaveDonor, ChangeDonation, Answer, IsAt
<1>2. k.op = "batch" /\ ~Counts(k)
      BY <1>1, PlaceTells DEF Counts
<1>3. /\ box' = box /\ owed' = owed /\ removed' = removed
      /\ faults' \in {faults, faults + 1} /\ overlapped' = overlapped
      BY DEF FindDonor, InsertDonor, CreateDonation, Complete, LoadDonor, FindOther, SaveDonor,
             ChangeDonation, Answer, serverVars, historyVars
<1>4. \E l : Set(c, l) /\ l.pc # "boxSave" /\ ~Counts(l)
  <2>1. Failed(k).pc = "next" /\ Failed(k).op = "batch"
        BY <1>1, <1>2 DEF Failed, Call
  <2>2. \A id : Done(k, id).pc = "next" /\ Done(k, id).op = "batch"
        BY <1>1, <1>2 DEF Done, Call
  <2>3. CASE Set(c, Failed(k))
        BY <2>1, <2>3 DEF Counts
  <2>4. CASE \E id : Set(c, Done(k, id))
        BY <2>2, <2>4 DEF Counts
  <2>5. CASE Set(c, NoCall)
        BY <2>5 DEF Counts, NoCall
  <2>6. CASE FindDonor(c) /\ Set(c, [k EXCEPT !.pc = "donor"])
    <3>1. PICK l : l = [k EXCEPT !.pc = "donor"]
          OBVIOUS
    <3>2. l.pc = "donor" /\ l.op = "batch"
          BY <1>1, <1>2, <3>1 DEF Call
    <3>3. QED BY <2>6, <3>1, <3>2 DEF Counts
  <2>7. CASE \E of : Insert(c, of, "after")
    <3>1. PICK l : l = [k EXCEPT !.row = Len(rows) + 1, !.pc = "after"]
          OBVIOUS
    <3>2. l.pc = "after" /\ l.op = "batch"
          BY <1>1, <1>2, <3>1 DEF Call
    <3>3. QED BY <2>7, <3>1, <3>2 DEF Counts, Insert
  <2>8. CASE Set(c, [k EXCEPT !.row = Ref(k), !.edits = rows[Ref(k)].edits,
                              !.email = rows[Ref(k)].email, !.pc = "email"])
    <3>1. PICK l : l = [k EXCEPT !.row = Ref(k), !.edits = rows[Ref(k)].edits,
                                 !.email = rows[Ref(k)].email, !.pc = "email"]
          OBVIOUS
    <3>2. l.pc = "email" /\ l.op = "batch"
          BY <1>1, <1>2, <3>1 DEF Call
    <3>3. QED BY <2>8, <3>1, <3>2 DEF Counts
  <2>9. CASE Set(c, [k EXCEPT !.pc = "donorSave"])
    <3>1. PICK l : l = [k EXCEPT !.pc = "donorSave"]
          OBVIOUS
    <3>2. l.pc = "donorSave" /\ l.op = "batch"
          BY <1>1, <1>2, <3>1 DEF Call
    <3>3. QED BY <2>9, <3>1, <3>2 DEF Counts
  <2>10. QED BY <2>3, <2>4, <2>5, <2>6, <2>7, <2>8, <2>9 DEF FindDonor, InsertDonor, CreateDonation,
                Complete, LoadDonor, FindOther, SaveDonor, ChangeDonation, Answer
<1>5. QED BY <1>2, <1>3, <1>4, BoxLeftAlone

\* A handler that fails or dies leaves the box as it is.
LEMMA TroubleLeavesBox ==
    ASSUME Sound, BoxCounted, NEW c \in Calls, CountFails(c) \/ Crash(c)
    PROVE  BoxCounted'
<1> DEFINE k == call[c]
<1>1. k \in Call
      BY PlaceTells
<1>2. /\ box' = box /\ owed' = owed /\ removed' = removed
      /\ faults' = faults + 1 /\ overlapped' = overlapped
      BY DEF CountFails, Crash, serverVars
<1>3. \E l : Set(c, l) /\ l.pc # "boxSave" /\ ~Counts(l)
  <2>1. CASE Set(c, NoCall)
        BY <2>1 DEF Counts, NoCall
  <2>2. CASE Set(c, Done(k, k.row)) /\ k.op = "batch"
    <3>1. Done(k, k.row).pc = "next" /\ Done(k, k.row).op = "batch"
          BY <1>1, <2>2 DEF Done, Call
    <3>2. QED BY <2>2, <3>1 DEF Counts
  <2>3. QED BY <2>1, <2>2 DEF CountFails, Crash, AfterBox
<1>4. QED BY <1>2, <1>3, BoxLeftAlone

\* A collection is to be counted from when it is inserted.
LEMMA CollectionCounted ==
    ASSUME Sound, BoxCounted, NEW c \in Calls, CreateCollection(c)
    PROVE  BoxCounted'
<1>1. call[c] \in Call /\ call[c].pc = "next" /\ call[c].op = "batch"
      BY PlaceTells DEF CreateCollection, IsAt
<1>2. PICK l : l = [call[c] EXCEPT !.row = Len(rows) + 1, !.pc = "box"]
      OBVIOUS
<1>3. l.pc = "box" /\ Counts(l) /\ ~Counts(call[c])
      BY <1>1, <1>2 DEF Counts, Call
<1>4. Set(c, l) /\ UNCHANGED <<box, removed, faults, overlapped>> /\ owed' = owed + 1
      BY <1>2 DEF CreateCollection, Insert
<1>5. QED BY <1>3, <1>4, BoxOwesMore

\* So is what staff ask for.
LEMMA RequestCounted ==
    ASSUME Sound, BoxCounted, NEW c \in Calls, Send(c) \/ Staff(c)
    PROVE  BoxCounted'
<1>1. ~Running(c) /\ overlapped => overlapped'
      BY DEF Send, Staff, Begin
<1>2. ~Counts(call[c])
      BY DEF Send, Staff, Begin, Running, Counts
<1>3. CASE Send(c)
  <2>1. PICK l : l = [NoCall EXCEPT !.op = "batch", !.pc = "next", !.todo = pending, !.refs = known]
        OBVIOUS
  <2>2. l.pc = "next" /\ ~Counts(l)
        BY <2>1 DEF NoCall, Counts
  <2>3. /\ Set(c, l) /\ UNCHANGED <<box, owed, removed, faults>> /\ (overlapped => overlapped')
        BY <1>3, <2>1 DEF Send, Begin, serverVars
  <2>4. QED BY <1>2, <2>2, <2>3, BoxLeftAlone
<1>4. CASE Staff(c)
  <2>1. PICK op \in {"count", "assign", "remove"} :
           /\ Begin(c, [NoCall EXCEPT !.op = op, !.pc = IF op = "remove" THEN "remove" ELSE "box"])
           /\ owed' = IF op = "count" THEN owed + 1 ELSE owed
        BY <1>4 DEF Staff
  <2>2. PICK l : l = [NoCall EXCEPT !.op = op, !.pc = IF op = "remove" THEN "remove" ELSE "box"]
        OBVIOUS
  <2>3. l.op = op /\ l.pc # "boxSave" /\ (Counts(l) <=> op = "count")
        BY <2>1, <2>2 DEF NoCall, Counts
  <2>4. /\ Set(c, l) /\ UNCHANGED <<box, removed, faults>> /\ (overlapped => overlapped')
        BY <1>4, <2>1, <2>2 DEF Staff, Begin, serverVars
  <2>5. CASE op = "count"
        BY <1>2, <2>1, <2>3, <2>4, <2>5, BoxOwesMore
  <2>6. CASE op # "count"
        BY <1>2, <2>1, <2>3, <2>4, <2>6, BoxLeftAlone
  <2>7. QED BY <2>5, <2>6
<1>5. QED BY <1>3, <1>4

LEMMA InitBoxCounted == Init => BoxCounted
<1> SUFFICES ASSUME Init PROVE BoxCounted
    OBVIOUS
<1>1. Counting = {} /\ \A c \in Calls : call[c].pc # "boxSave"
      BY DEF Init, Counting, Counts, NoCall
<1>2. Cardinality(Counting) = 0
      BY <1>1, FS_EmptySet
<1>3. box.count = 0 /\ box.archived = FALSE /\ owed = 0 /\ removed = FALSE
      BY DEF Init, NewBox
<1>4. box.count + Cardinality(Counting) = 0
      BY <1>2, <1>3
<1>5. CountsOwed
      BY <1>1, <1>3, <1>4 DEF CountsOwed
<1>6. BoxExact
      BY <1>1, <1>3, <1>4 DEF BoxExact
<1>7. QED BY <1>5, <1>6 DEF BoxCounted

LEMMA NextBoxCounted == Sound /\ BoxCounted /\ [Next]_vars => BoxCounted'
<1> SUFFICES ASSUME Sound, BoxCounted, [Next]_vars PROVE BoxCounted'
    OBVIOUS
<1>1. CASE UNCHANGED <<box, call, owed, removed, faults, overlapped>>
      BY <1>1 DEF BoxCounted, CountsOwed, BoxExact, Counting, Counts
<1>2. CASE Timeout \/ UNCHANGED vars
      BY <1>1, <1>2 DEF Timeout, vars, serverVars, historyVars
<1>3. ASSUME NEW c \in Calls, Send(c) \/ Staff(c) \/ Crash(c) PROVE BoxCounted'
      BY <1>3, RequestCounted, TroubleLeavesBox
<1>4. ASSUME NEW c \in Calls, Step(c) PROVE BoxCounted'
      BY <1>4, BatchLeavesBox, CollectionCounted, ReadBoxCounted, SaveBoxCounted, TroubleLeavesBox,
         RemoveBoxCounted DEF Step
<1>5. QED BY <1>2, <1>3, <1>4 DEF Next

\* The box never counts more than it was asked to, and as long as handlers neither overlap
\* nor fail it counts all of it and stays archived.
THEOREM BoxIsAccounted == Spec => []BoxAccounted
<1>1. Init => Sound /\ BoxCounted
      BY InitSound, InitBoxCounted
<1>2. Sound /\ BoxCounted /\ [Next]_vars => (Sound /\ BoxCounted)'
      BY NextSound, NextBoxCounted
<1>3. Sound /\ BoxCounted => BoxAccounted
  <2> SUFFICES ASSUME Sound, BoxCounted PROVE BoxAccounted
      OBVIOUS
  <2>1. Cardinality(Counting) \in Nat
        BY CountingFinite DEF CountingOK
  <2>2. box.count <= owed
        BY <2>1, BoxTypes DEF BoxCounted, CountsOwed
  <2>3. ASSUME Quiet, ~overlapped, faults = 0 PROVE box.count = owed /\ box.archived = removed
    <3>1. Counting = {}
          BY <2>3 DEF Quiet, Running, Counting, Counts
    <3>2. Cardinality(Counting) = 0
          BY <3>1, FS_EmptySet
    <3>3. QED BY <2>3, <3>2, BoxTypes DEF BoxCounted, BoxExact
  <2>4. QED BY <2>2, <2>3 DEF BoxAccounted
<1>4. QED BY <1>1, <1>2, <1>3, PTL DEF Spec
=============================================================================
