---------------------------- MODULE OfflineSync -----------------------------
(***************************************************************************)
(* What staff enter without a network (offline-sync.service.ts): their     *)
(* device queues donors, donations, box collections and edits of them, and *)
(* uploads the queue as one batch.  The server works through a batch one   *)
(* action after the other, whether the ones before failed or not, and      *)
(* answers with the ids of the rows.  Until it has an answer the device    *)
(* keeps what it sent, and sends it again.                                 *)
(*                                                                         *)
(* Beside the batches run the handlers of the box whose collections they   *)
(* record: every one of them reads the row of the box and saves all of it. *)
(***************************************************************************)
EXTENDS Naturals, Sequences, FiniteSetsExt

CONSTANTS
    Calls,         \* handlers that can run side by side
    Nobody,        \* no call
    Queues,        \* what may have been entered
    Emails,        \* e-mail addresses
    Taken,         \* those of donors who were registered before, and keep them
    MaxStaff,      \* bound on the other handlers
    MaxTroubles    \* bound on timeouts, deaths and failing statements

Types == {"donor", "edit", "donation", "change", "collection"}

\* No address, and the one a donor has.
None == "none"
Kept == "kept"

\* An action refers to one before it: an edit and a donation to a donor, a change to a
\* donation.  A donor may come with an e-mail address, and an edit with another one.
Action == [type : Types, of : Nat, email : Emails \union {None, Kept}]

Refers(type, parent) ==
    \/ type \in {"edit", "donation"} /\ parent = "donor"
    \/ type = "change" /\ parent = "donation"

ASSUME SyncAssumption ==
    /\ Nobody \notin Calls /\ IsFiniteSet(Calls)
    /\ None \notin Emails /\ Kept \notin Emails /\ Taken \subseteq Emails
    /\ \A q \in Queues :
          /\ q \in Seq(Action)
          /\ \A a \in DOMAIN q :
                /\ q[a].type = "donor" => q[a].email # Kept
                /\ q[a].type \notin {"donor", "edit"} => q[a].email = None
                /\ IF q[a].type \in {"donor", "collection"} THEN q[a].of = 0
                   ELSE q[a].of \in 1 .. a - 1 /\ Refers(q[a].type, q[q[a].of].type)
    /\ MaxStaff \in Nat /\ MaxTroubles \in Nat

VARIABLES
    queue,       \* the device: what was entered, in order
    pending,     \* the actions still to be uploaded
    known,       \* the ids the server has given, 0 if none
    waiting,     \* the batch the device waits for
    rows,        \* the server: donors, donations and collections, in order of insertion
    box,         \* the row of the box
    call,        \* the handlers
    left,        \* staff requests still to come
    \* and for the properties:
    timeouts,    \* how often the device stopped waiting
    faults,      \* how often a handler died or a statement failed
    overlapped,  \* whether two handlers have run side by side
    owed,        \* how often the box was to be counted
    removed      \* staff have archived the box

deviceVars  == <<queue, pending, known, waiting>>
serverVars  == <<rows, box>>
historyVars == <<timeouts, faults, overlapped, owed, removed>>
vars        == <<deviceVars, serverVars, call, left, historyVars>>

Actions == DOMAIN queue

\* A row: the action it comes from, the row it refers to, the edits it has seen, and the
\* e-mail address of a donor.
Row == [from : Actions, of : Nat, edits : SUBSET Actions, email : Emails \union {None}]
Box == [archived : BOOLEAN, count : Nat]

NewBox == [archived |-> FALSE, count |-> 0]

Unknown == [a \in Actions |-> 0]

Call == [op    : {"none", "batch", "count", "assign", "remove"},
         pc    : {"none", "next", "donor", "after", "email", "donorSave", "box", "boxSave", "remove"},
         todo  : SUBSET Actions,     \* a batch: the actions still to come, the current one
                                     \* among them
         refs  : [Actions -> Nat],   \* the ids the device wrote in the place of its own
         map   : [Actions -> Nat],   \* idMap
         done  : SUBSET Actions,     \* what succeeded
         row   : Nat,                \* the row in hand, 0 if none
         edits : SUBSET Actions,     \* the edits of the donor that was read, and its address
         email : Emails \union {None},
         box   : Box]                \* the box that was read

NoCall == [op |-> "none", pc |-> "none", todo |-> {}, refs |-> Unknown, map |-> Unknown,
           done |-> {}, row |-> 0, edits |-> {}, email |-> None, box |-> NewBox]

Init ==
    /\ queue \in Queues
    /\ pending = DOMAIN queue
    /\ known = Unknown
    /\ waiting = Nobody
    /\ rows = <<>>
    /\ box = NewBox
    /\ call = [c \in Calls |-> NoCall]
    /\ left = MaxStaff
    /\ timeouts = 0 /\ faults = 0 /\ overlapped = FALSE
    /\ owed = 0 /\ removed = FALSE

-----------------------------------------------------------------------------
Running(c) == call[c].op # "none"

Quiet == \A c \in Calls : ~Running(c)

Set(c, k) == call' = [call EXCEPT ![c] = k]

\* A request comes, in a free slot, no matter which.
Begin(c, k) ==
    /\ ~Running(c)
    /\ c = CHOOSE x \in Calls : ~Running(x)
    /\ Set(c, k)
    /\ overlapped' = (overlapped \/ ~Quiet)

Trouble == timeouts + faults < MaxTroubles

-----------------------------------------------------------------------------
(* The device                                                              *)

\* All that is pending goes out in one batch; where the device knows the id of a row
\* it writes that in the place of its own.
Send(c) ==
    /\ waiting = Nobody
    /\ pending # {}
    /\ Begin(c, [NoCall EXCEPT !.op = "batch", !.pc = "next",
                               !.todo = pending, !.refs = known])
    /\ waiting' = c
    /\ UNCHANGED <<queue, pending, known, serverVars, left, timeouts, faults, owed, removed>>

\* It waits no longer, while the server may still be at work.
Timeout ==
    /\ waiting # Nobody
    /\ Trouble
    /\ timeouts' = timeouts + 1
    /\ waiting' = Nobody
    /\ UNCHANGED <<queue, pending, known, serverVars, call, left, faults, overlapped, owed,
                   removed>>

\* The answer comes to an end of the batch; a device that waits for it strikes off what
\* succeeded.
Answer(c) ==
    /\ call[c].pc = "next" /\ call[c].todo = {}
    /\ IF waiting = c
       THEN /\ pending' = pending \ call[c].done
            /\ known' = [a \in Actions |-> IF a \in call[c].done THEN call[c].map[a] ELSE known[a]]
            /\ waiting' = Nobody
       ELSE UNCHANGED <<pending, known, waiting>>
    /\ Set(c, NoCall)
    /\ UNCHANGED <<queue, serverVars, left, historyVars>>

-----------------------------------------------------------------------------
(* processBatch and processOne                                             *)

\* The action a batch is at: they come in the order they were entered.
At(k) == Min(k.todo)

\* The call is at an action of this type.
IsAt(c, type) ==
    /\ call[c].pc = "next"
    /\ call[c].todo # {}
    /\ queue[At(call[c])].type = type

\* Mutant: an error ends the batch.
FailedAll(k) == [k EXCEPT !.todo = {}, !.row = 0, !.pc = "next"]

\* Mutant: an action is done whatever comes of it.
FailedDone(k) == [k EXCEPT !.todo = @ \ {At(k)}, !.done = @ \union {At(k)},
                           !.row = 0, !.edits = {}, !.email = None, !.pc = "next"]

\* An error is caught and the batch goes on.
Failed(k) == [k EXCEPT !.todo = @ \ {At(k)}, !.row = 0, !.edits = {}, !.email = None,
                       !.pc = "next"]

Done(k, id) == [k EXCEPT !.todo = @ \ {At(k)}, !.done = @ \union {At(k)},
                         !.map[At(k)] = id,
                         !.row = 0, !.edits = {}, !.email = None, !.box = NewBox, !.pc = "next"]

\* Mutant: a reference that cannot be resolved is taken for the last row.
RefLast(k) ==
    LET of == queue[At(k)].of
    IN  IF k.refs[of] # 0 THEN k.refs[of]
        ELSE IF k.map[of] # 0 THEN k.map[of] ELSE Len(rows)

\* resolveRef: an id of the server, or of the device if its action succeeded in the
\* same batch; 0 is an error.
Ref(k) ==
    LET of == queue[At(k)].of
    IN  IF k.refs[of] # 0 THEN k.refs[of] ELSE k.map[of]

\* Mutant: a donor that this queue has registered is not found by its address.
RegisteredBefore(email, x) == email \in Taken

\* A donor other than that of row x has this e-mail address.
Registered(email, x) ==
    /\ email # None
    /\ email \in Taken \/ \E r \in DOMAIN rows \ {x} : rows[r].email = email

\* The address that donor a was entered with is registered.
Known(a) == Registered(queue[a].email, 0)

Insert(c, of, pc) ==
    /\ rows' = Append(rows, [from |-> At(call[c]), of |-> of, edits |-> {},
                             email |-> queue[At(call[c])].email])
    /\ Set(c, [call[c] EXCEPT !.row = Len(rows) + 1, !.pc = pc])

\* register: look for the e-mail address,
FindDonor(c) ==
    /\ IsAt(c, "donor")
    /\ LET k == call[c]
       IN  Set(c, IF Known(At(k)) THEN Failed(k) ELSE [k EXCEPT !.pc = "donor"])
    /\ UNCHANGED <<deviceVars, serverVars, left, historyVars>>

\* insert the donor, whose e-mail address is unique.
InsertDonor(c) ==
    /\ call[c].pc = "donor"
    /\ IF Known(At(call[c])) THEN Set(c, Failed(call[c])) /\ UNCHANGED rows
       ELSE Insert(c, 0, "after")
    /\ UNCHANGED <<deviceVars, box, left, historyVars>>

CreateDonation(c) ==
    /\ IsAt(c, "donation")
    /\ LET of == Ref(call[c])
       IN  IF of = 0 THEN Set(c, Failed(call[c])) /\ UNCHANGED rows
           ELSE Insert(c, of, "after")
    /\ UNCHANGED <<deviceVars, box, left, historyVars>>

\* What follows the insert, the link of a donor to an organisation or the rows of a
\* donation in kind, may fail; the row stays.
Complete(c) ==
    /\ call[c].pc = "after"
    /\ \/ Set(c, Done(call[c], call[c].row)) /\ UNCHANGED faults
       \/ Trouble /\ faults' = faults + 1 /\ Set(c, Failed(call[c]))
    /\ UNCHANGED <<deviceVars, serverVars, left, timeouts, overlapped, owed, removed>>

\* DonorService.update reads the donor,
LoadDonor(c) ==
    /\ IsAt(c, "edit")
    /\ LET k == call[c]
           r == Ref(k)
       IN  Set(c, IF r = 0 THEN Failed(k)
                  ELSE [k EXCEPT !.row = r, !.edits = rows[r].edits, !.email = rows[r].email,
                                 !.pc = "email"])
    /\ UNCHANGED <<deviceVars, serverVars, left, historyVars>>

\* The e-mail address after the edit.
NextEmail(k) == IF queue[At(k)].email = Kept THEN k.email ELSE queue[At(k)].email

\* looks for another donor with an address that is new to this one,
FindOther(c) ==
    /\ call[c].pc = "email"
    /\ LET k == call[c]
       IN  Set(c, IF NextEmail(k) # k.email /\ Registered(NextEmail(k), k.row) THEN Failed(k)
                  ELSE [k EXCEPT !.pc = "donorSave"])
    /\ UNCHANGED <<deviceVars, serverVars, left, historyVars>>

\* and saves all of the donor, whose address is unique.  The link to an organisation and
\* the log that follow may fail; the donor stays saved.
SaveDonor(c) ==
    /\ call[c].pc = "donorSave"
    /\ LET k == call[c]
       IN  IF Registered(NextEmail(k), k.row) THEN Set(c, Failed(k)) /\ UNCHANGED <<rows, faults>>
           ELSE /\ rows' = [rows EXCEPT ![k.row].edits = k.edits \union {At(k)},
                                        ![k.row].email = NextEmail(k)]
                /\ \/ Set(c, Done(k, k.row)) /\ UNCHANGED faults
                   \/ Trouble /\ faults' = faults + 1 /\ Set(c, Failed(k))
    /\ UNCHANGED <<deviceVars, box, left, timeouts, overlapped, owed, removed>>

\* DonationsService.update writes what it was given.
ChangeDonation(c) ==
    /\ IsAt(c, "change")
    /\ LET k == call[c]
       IN  IF Ref(k) = 0 THEN Set(c, Failed(k)) /\ UNCHANGED rows
           ELSE /\ rows' = [rows EXCEPT ![Ref(k)].edits = @ \union {At(k)}]
                /\ Set(c, Done(k, Ref(k)))
    /\ UNCHANGED <<deviceVars, box, left, historyVars>>

\* The collection of a box, archived or not.
CreateCollection(c) ==
    /\ IsAt(c, "collection")
    /\ Insert(c, 0, "box")
    /\ owed' = owed + 1
    /\ UNCHANGED <<deviceVars, box, left, timeouts, faults, overlapped, removed>>

-----------------------------------------------------------------------------
(* The box                                                                 *)

Staff(c) ==
    /\ left > 0
    /\ left' = left - 1
    /\ \E op \in {"count", "assign", "remove"} :
          /\ Begin(c, [NoCall EXCEPT !.op = op, !.pc = IF op = "remove" THEN "remove" ELSE "box"])
          /\ owed' = IF op = "count" THEN owed + 1 ELSE owed
    /\ UNCHANGED <<deviceVars, serverVars, timeouts, faults, removed>>

\* updateDonationBoxStats and updateCollectionStats, to count, and update, for the users
\* assigned to it, read the box,
ReadBox(c) ==
    /\ call[c].pc = "box"
    /\ Set(c, [call[c] EXCEPT !.box = box, !.pc = "boxSave"])
    /\ UNCHANGED <<deviceVars, serverVars, left, historyVars>>

\* Mutant: who is assigned is saved with the defaults of a new box.
SavedFresh(k) == IF k.op = "assign" THEN NewBox
                 ELSE [k.box EXCEPT !.count = @ + 1]

Saved(k) == IF k.op = "assign" THEN k.box ELSE [k.box EXCEPT !.count = @ + 1]

AfterBox(k) == IF k.op = "batch" THEN Done(k, k.row) ELSE NoCall

\* and save all of it.
SaveBox(c) ==
    /\ call[c].pc = "boxSave"
    /\ box' = Saved(call[c])
    /\ Set(c, AfterBox(call[c]))
    /\ UNCHANGED <<deviceVars, rows, left, historyVars>>

\* A collection stays without its count if that fails.
CountFails(c) ==
    /\ call[c].pc \in {"box", "boxSave"}
    /\ Trouble
    /\ faults' = faults + 1
    /\ Set(c, AfterBox(call[c]))
    /\ UNCHANGED <<deviceVars, serverVars, left, timeouts, overlapped, owed, removed>>

RemoveBox(c) ==
    /\ call[c].pc = "remove"
    /\ box' = [box EXCEPT !.archived = TRUE]
    /\ removed' = TRUE
    /\ Set(c, NoCall)
    /\ UNCHANGED <<deviceVars, rows, left, timeouts, faults, overlapped, owed>>

-----------------------------------------------------------------------------
\* The process dies with the handler; a device that waits for it sees that.
Crash(c) ==
    /\ Running(c)
    /\ Trouble
    /\ faults' = faults + 1
    /\ waiting' = IF waiting = c THEN Nobody ELSE waiting
    /\ Set(c, NoCall)
    /\ UNCHANGED <<queue, pending, known, serverVars, left, timeouts, overlapped, owed, removed>>

Step(c) ==
    \/ FindDonor(c) \/ InsertDonor(c) \/ CreateDonation(c) \/ Complete(c)
    \/ LoadDonor(c) \/ FindOther(c) \/ SaveDonor(c) \/ ChangeDonation(c) \/ CreateCollection(c)
    \/ ReadBox(c) \/ SaveBox(c) \/ CountFails(c) \/ RemoveBox(c)
    \/ Answer(c)

Next ==
    \/ Timeout
    \/ \E c \in Calls : Send(c) \/ Staff(c) \/ Step(c) \/ Crash(c)

Spec == Init /\ [][Next]_vars

\* A handler goes on, and the device sends while it has something to send.
FairSpec ==
    /\ Spec
    /\ \A c \in Calls : WF_vars(Step(c))
    /\ WF_vars(\E c \in Calls : Send(c))

-----------------------------------------------------------------------------
\* Every variable is of its type.
TypeOK ==
    /\ queue \in Queues
    /\ pending \subseteq Actions
    /\ known \in [Actions -> Nat]
    /\ waiting \in Calls \union {Nobody}
    /\ rows \in Seq(Row)
    /\ box \in Box
    /\ call \in [Calls -> Call]
    /\ left \in 0 .. MaxStaff
    /\ timeouts \in Nat /\ faults \in Nat /\ timeouts + faults <= MaxTroubles
    /\ overlapped \in BOOLEAN /\ removed \in BOOLEAN
    /\ owed \in Nat

RowsOf(a) == {r \in DOMAIN rows : rows[r].from = a}

\* The donor of row r has been given another address than it was entered with.
Renamed(r) == \E e \in rows[r].edits : queue[e].email \notin {Kept, queue[rows[r].from].email}

\* An action is recorded once, and once more at most for every upload that was cut
\* short or failed half-way, a donor with an e-mail address only after an edit has given
\* its row another one; and whatever fails or is repeated, a row refers to the one its
\* action was entered for.
RowsAccounted ==
    /\ \A a \in Actions :
          /\ Cardinality(RowsOf(a)) <= 1 + timeouts + faults
          /\ queue[a].email # None => \A r, s \in RowsOf(a) : r # s => Renamed(r) \/ Renamed(s)
    /\ \A r \in DOMAIN rows :
          LET of == queue[rows[r].from].of
          IN  IF of = 0 THEN rows[r].of = 0
              ELSE rows[r].of \in DOMAIN rows /\ rows[rows[r].of].from = of

\* What the device strikes off is on the server, under the id it was told, an edit of a
\* donor as long as handlers do not overlap: a donor is saved whole.
SyncedIsStored ==
    \A a \in Actions \ pending :
        /\ known[a] \in DOMAIN rows
        /\ LET r == rows[known[a]]
           IN  CASE queue[a].type = "edit"   -> r.from = queue[a].of /\ (a \in r.edits \/ overlapped)
                 [] queue[a].type = "change" -> r.from = queue[a].of /\ a \in r.edits
                 [] OTHER                    -> r.from = a

\* The box counts no more than it was asked to; as long as handlers neither overlap nor
\* fail it counts all of it, and is archived when staff have archived it.
BoxAccounted ==
    /\ box.count <= owed
    /\ Quiet /\ ~overlapped /\ faults = 0 => box.count = owed /\ box.archived = removed

\* The donor that action a belongs to, or a itself.
Root(a) ==
    LET p == queue[a].of
    IN  IF p = 0 THEN a ELSE IF queue[p].of = 0 THEN p ELSE queue[p].of

\* A donor whose address is registered, by whichever donor, though the device was not told
\* so of this one: uploads of it are refused.
Refused(a) == Known(a) /\ a \in pending

\* All that was entered is recorded in the end, in spite of what fails before it in the
\* batch, but for what belongs to a donor whose registration is refused from some time on.
UploadsCome ==
    \A i \in 1 .. 5 :
        \/ <>(i \in Actions /\ queue[i].type \in {"donor", "donation", "collection"} => RowsOf(i) # {})
        \/ <>[](i \in Actions /\ Refused(Root(i)))
=============================================================================
