-------------------------- MODULE ProgressTrackers --------------------------
(***************************************************************************)
(* Progress trackers (progress-trackers.service.ts) on top of the batches  *)
(* of ProgressBatches: a donation's tracker starts with one placeholder    *)
(* row per step of its template; when the donation is allocated into       *)
(* batches, it gets a set of steps per batch instead, and a step that is   *)
(* worked on in one donation's set is worked on for every donation of the  *)
(* batch.                                                                  *)
(*                                                                         *)
(* The calls are HTTP requests and payment notifications; every statement  *)
(* is a step of its own, and only the allocation runs in a transaction.    *)
(***************************************************************************)
EXTENDS ProgressBatches, Sequences

CONSTANTS
    Keys,        \* the step keys of the template
    Notifying,   \* those with notify_donor_on_complete
    Kinds,       \* the kinds of call the environment makes
    Wanted,      \* the statuses step updates ask for, "keep" for none
    Starts       \* the donations that may have trackers from the start, oldest first

AllKinds == {"create", "new", "paid", "more", "step"}

ASSUME TrackerAssumption ==
    /\ Keys # {} /\ IsFiniteSet(Keys)
    /\ Notifying \subseteq Keys
    /\ Kinds \subseteq AllKinds
    /\ Wanted \subseteq {"pending", "in_progress", "completed", "skipped", "cancelled", "keep"}
    /\ Starts \subseteq Seq(Donations)

ProgressStatus == {"pending", "in_progress", "completed", "skipped", "cancelled"}
Overall        == {"pending", "in_progress", "completed", "cancelled"}

\* The identity of a row: its tracker, its batch (0: a template-wide placeholder), its
\* step of the template, and the call that inserted it.
StepId  == [t : Nat, batch : Numbers \union {0}, key : Keys, by : Calls \union {Nobody}]
Step    == [status : ProgressStatus, archived : BOOLEAN, told : BOOLEAN]
Tracker == [d : Donations, overall : Overall]

CallSteps == {"idle", "insertTracker", "insertSteps", "check", "allocating", "syncBatch",
              "syncInsert", "archive", "write", "propagate", "affected", "overall",
              "ownRead", "ownWrite", "notify", "over", "dead"}

VARIABLES
    trackers,    \* progress_trackers, in order of insertion
    steps,       \* progress_tracker_steps
    call,        \* the calls
    overlapped,  \* donations on which two calls have run at the same time
    raced,       \* whether a step update has run at the same time as another call
    grown        \* trackers whose overall status a replacement of steps has made stale

trackVars == <<trackers, steps, call, overlapped, raced, grown>>
allVars   == <<batchVars, trackVars>>

\* One row per step of the template.
StepSet(t, n, by) == [t : {t}, batch : {n}, key : Keys, by : {by}]

\* No row: what a call holds that has none in hand.
NoStep == [t |-> 0, batch |-> 0, key |-> CHOOSE k \in Keys : TRUE, by |-> Nobody]

Call == [kind : AllKinds, pc : CallSteps, d : Donations,
         t : Nat,                          \* the tracker in hand
         n : Numbers \union {0},           \* the batch in hand
         s : StepId,                       \* the step in hand
         from : ProgressStatus,            \* its status as it was read
         to : ProgressStatus,              \* the status to write
         given : BOOLEAN,                  \* dto.status was given
         batches : SUBSET Numbers,         \* the batches still to be synchronised
         found : SUBSET (Nat \X Overall)]  \* overall statuses still to be written

NoCall == [kind |-> "step", pc |-> "idle", d |-> CHOOSE d \in Donations : TRUE, t |-> 0,
           n |-> 0, s |-> NoStep, from |-> "pending", to |-> "pending", given |-> FALSE,
           batches |-> {}, found |-> {}]

NewStep == [status |-> "pending", archived |-> FALSE, told |-> FALSE]

\* Rows are inserted in one statement.
InsertRows(ids) ==
    steps' = [i \in DOMAIN steps \union ids |-> IF i \in ids THEN NewStep ELSE steps[i]]

Init ==
    /\ BatchInit
    /\ \E tracked \in Starts :
          trackers = [t \in DOMAIN tracked |-> [d |-> tracked[t], overall |-> "pending"]]
    /\ steps = [i \in UNION {StepSet(t, 0, Nobody) : t \in DOMAIN trackers} |-> NewStep]
    /\ call = [c \in Calls |-> NoCall]
    /\ overlapped = {}
    /\ raced = FALSE
    /\ grown = {}

-----------------------------------------------------------------------------
Running(c) == call[c].pc \notin {"idle", "over", "dead"}

TrackersOf(d) == {t \in DOMAIN trackers : trackers[t].d = d}

\* The rows of tracker t that count.
Active(t) == {i \in DOMAIN steps : i.t = t /\ ~steps[i].archived}

OfBatch(t, n) == {i \in Active(t) : i.batch = n}

Final == {"completed", "skipped", "cancelled"}

\* validateTransition
Allowed(from, to) ==
    \/ from = "pending" /\ to # "pending"
    \/ from = "in_progress" /\ to \in {"completed", "cancelled"}

\* deriveOverallStatus
Derived(t) ==
    LET st == {steps[i].status : i \in Active(t)}
    IN  IF st = {"cancelled"} THEN "cancelled"
        ELSE IF st # {} /\ st \subseteq {"completed", "skipped"} THEN "completed"
        ELSE IF st \intersect {"in_progress", "completed"} # {} THEN "in_progress"
        ELSE "pending"

\* History: the steps of tracker t have come to add up to another status.
Grow(t) ==
    \E x \in {t} : grown' = IF Derived(x)' = Derived(x) THEN grown ELSE grown \union {x}

Goto(c, pc) == call' = [call EXCEPT ![c].pc = pc]

\* A call that has ended keeps what it was about, and no locals.
Stop(c, pc) ==
    call' = [call EXCEPT ![c] = [NoCall EXCEPT !.kind = call[c].kind, !.d = call[c].d,
                                               !.pc = pc]]

End(c) == Stop(c, "over")

\* A call of some kind on d arrives and goes on at pc, keeping r.
Arrive(c, kind, d, r) ==
    /\ call[c].pc = "idle"
    /\ kind \in Kinds
    /\ call' = [call EXCEPT ![c] = [r EXCEPT !.kind = kind, !.d = d]]
    /\ overlapped' = IF \E x \in Calls : Running(x) /\ call[x].d = d
                     THEN overlapped \union {d} ELSE overlapped
    /\ raced' = (raced \/ \E x \in Calls : Running(x) /\ "step" \in {kind, call[x].kind})

-----------------------------------------------------------------------------
(* createTrackerFromTemplate                                               *)

\* A donation that has a tracker is refused.
Create(c, d) ==
    /\ Arrive(c, "create", d,
              [NoCall EXCEPT !.pc = IF TrackersOf(d) = {} THEN "insertTracker" ELSE "over"])
    /\ UNCHANGED <<batchVars, trackers, steps, grown>>

InsertTracker(c) ==
    /\ call[c].pc = "insertTracker"
    /\ trackers' = Append(trackers, [d |-> call[c].d, overall |-> "pending"])
    /\ call' = [call EXCEPT ![c].pc = "insertSteps", ![c].t = Len(trackers) + 1]
    /\ UNCHANGED <<batchVars, steps, overlapped, raced, grown>>

InsertSteps(c) ==
    /\ call[c].pc = "insertSteps"
    /\ InsertRows(StepSet(call[c].t, 0, c))
    /\ End(c)
    /\ UNCHANGED <<batchVars, trackers, overlapped, raced, grown>>

-----------------------------------------------------------------------------
(* Allocations                                                             *)

\* The allocation of some parts to the call's donation starts.
Request(c, d) == \E want \in Requests, size \in Sizes : Begin(c, d, want, size)

\* A new donation, allocated when the checkout inserts it: without a tracker its
\* template is allocated unchecked.
New(c, d) ==
    /\ \A x \in Calls : call[x].pc # "idle" => call[x].d # d
    /\ IF TrackersOf(d) = {}
       THEN Arrive(c, "new", d, [NoCall EXCEPT !.pc = "allocating"]) /\ Request(c, d)
       ELSE Arrive(c, "new", d, [NoCall EXCEPT !.pc = "check"]) /\ UNCHANGED batchVars
    /\ UNCHANGED <<trackers, steps, grown>>

\* A successful payment.
Paid(c, d) ==
    /\ Arrive(c, "paid", d,
              [NoCall EXCEPT !.pc = IF TrackersOf(d) = {} THEN "over" ELSE "check"])
    /\ UNCHANGED <<batchVars, trackers, steps, grown>>

\* allocateMoreParts, which checks nothing.
More(c, t) ==
    /\ t \in DOMAIN trackers
    /\ Arrive(c, "more", trackers[t].d, [NoCall EXCEPT !.pc = "allocating"])
    /\ Request(c, trackers[t].d)
    /\ UNCHANGED <<trackers, steps, grown>>

\* hasAllocationsForDonationTemplate, for each tracker: what this call allocates for
\* the first answers for the others.
Check(c) ==
    /\ call[c].pc = "check"
    /\ IF HasAllocations(call[c].d)
       THEN End(c) /\ UNCHANGED batchVars
       ELSE Goto(c, "allocating") /\ Request(c, call[c].d)
    /\ UNCHANGED <<trackers, steps, overlapped, raced, grown>>

-----------------------------------------------------------------------------
(* syncBatchScopedStepsForDonationTemplate                                 *)

\* An error of the transaction ends the call, and so does a donation without a tracker.
AllocatedNothing(c) ==
    /\ call[c].pc = "allocating"
    /\ tx[c].pc = "failed" \/ (tx[c].pc = "done" /\ TrackersOf(call[c].d) = {})
    /\ End(c)
    /\ UNCHANGED <<batchVars, trackers, steps, overlapped, raced, grown>>

\* The donation's tracker, any of them if there are several, and its batches.
Sync(c) ==
    /\ call[c].pc = "allocating"
    /\ tx[c].pc = "done"
    /\ \E t \in TrackersOf(call[c].d) :
          call' = [call EXCEPT ![c].t = t, ![c].pc = "syncBatch",
                               ![c].batches = {a.n : a \in {x \in Committed : x.d = call[c].d}}]
    /\ UNCHANGED <<batchVars, trackers, steps, overlapped, raced, grown>>

\* Mutant: steps are inserted for a batch that has them.
SyncBatchAgain(c) ==
    /\ call[c].pc = "syncBatch"
    /\ LET todo == call[c].batches
       IN  IF todo = {} THEN Goto(c, "archive")
           ELSE call' = [call EXCEPT ![c].batches = todo \ {Min(todo)}, ![c].n = Min(todo),
                                     ![c].pc = "syncInsert"]
    /\ UNCHANGED <<batchVars, trackers, steps, overlapped, raced, grown>>

\* Batch by batch: one that has steps is passed over.  The count of active
\* steps and the insertion are separate statements.
SyncBatch(c) ==
    /\ call[c].pc = "syncBatch"
    /\ LET todo == call[c].batches
           t    == call[c].t
       IN  IF todo = {} THEN Goto(c, "archive")
           ELSE LET n == Min(todo)
                IN  IF OfBatch(t, n) # {}
                    THEN call' = [call EXCEPT ![c].batches = todo \ {n}]
                    ELSE call' = [call EXCEPT ![c].batches = todo \ {n}, ![c].n = n,
                                              ![c].pc = "syncInsert"]
    /\ UNCHANGED <<batchVars, trackers, steps, overlapped, raced, grown>>

SyncInsert(c) ==
    /\ call[c].pc = "syncInsert"
    /\ InsertRows(StepSet(call[c].t, call[c].n, c))
    /\ Grow(call[c].t)
    /\ Goto(c, "syncBatch")
    /\ UNCHANGED <<batchVars, trackers, overlapped, raced>>

\* Mutant: the placeholders stay.
ArchiveNone(c) ==
    /\ call[c].pc = "archive"
    /\ End(c)
    /\ UNCHANGED <<batchVars, trackers, steps, overlapped, raced, grown>>

\* The placeholders of a tracker with steps of some batch are archived.
Archive(c) ==
    /\ call[c].pc = "archive"
    /\ LET t    == call[c].t
           gone == IF \E n \in Numbers : OfBatch(t, n) # {} THEN OfBatch(t, 0) ELSE {}
       IN  /\ steps' = [i \in DOMAIN steps |-> [steps[i] EXCEPT !.archived = @ \/ i \in gone]]
           /\ Grow(t)
    /\ End(c)
    /\ UNCHANGED <<batchVars, trackers, overlapped, raced>>

-----------------------------------------------------------------------------
(* updateStep                                                              *)

\* The step is read and the transition checked; to = "keep" edits other fields.
Update(c, s, to) ==
    /\ s \in DOMAIN steps
    /\ ~steps[s].archived
    /\ LET from == steps[s].status
           keep == to = "keep"
       IN  /\ keep \/ to = from \/ Allowed(from, to)
           /\ Arrive(c, "step", trackers[s.t].d,
                     [NoCall EXCEPT !.pc = "write", !.s = s, !.t = s.t, !.from = from,
                                    !.to = IF keep THEN from ELSE to, !.given = ~keep])
    /\ UNCHANGED <<batchVars, trackers, steps, grown>>

\* The row is updated by its id, whatever its status is by now.
Write(c) ==
    /\ call[c].pc = "write"
    /\ LET r == call[c]
       IN  /\ steps' = [steps EXCEPT ![r.s].status = r.to]
           /\ Goto(c, IF r.given /\ r.s.batch # 0 THEN "propagate" ELSE "ownRead")
    /\ UNCHANGED <<batchVars, trackers, overlapped, raced, grown>>

Siblings(s) == {i \in DOMAIN steps : /\ ~steps[i].archived
                                     /\ i.batch = s.batch
                                     /\ i.key = s.key}

\* Mutant: the update of a batch is written over whatever the siblings' statuses are.
PropagateAll(c) ==
    /\ call[c].pc = "propagate"
    /\ steps' = [i \in DOMAIN steps |->
                    IF i \in Siblings(call[c].s) THEN [steps[i] EXCEPT !.status = call[c].to]
                                                 ELSE steps[i]]
    /\ Goto(c, "affected")
    /\ UNCHANGED <<batchVars, trackers, overlapped, raced, grown>>

\* The same step of every donation in the batch, where it is still in the status
\* this one was read in.
Propagate(c) ==
    /\ call[c].pc = "propagate"
    /\ LET same == {i \in Siblings(call[c].s) : steps[i].status = call[c].from}
       IN  steps' = [i \in DOMAIN steps |->
                        IF i \in same THEN [steps[i] EXCEPT !.status = call[c].to]
                                      ELSE steps[i]]
    /\ Goto(c, "affected")
    /\ UNCHANGED <<batchVars, trackers, overlapped, raced, grown>>

\* Mutant: the other trackers of the batch are left as they are.
AffectedOwn(c) ==
    /\ call[c].pc = "affected"
    /\ call' = [call EXCEPT ![c].found = {<<call[c].t, Derived(call[c].t)>>}, ![c].pc = "overall"]
    /\ UNCHANGED <<batchVars, trackers, steps, overlapped, raced, grown>>

\* The trackers with steps of the batch are read with all their steps.
Affected(c) ==
    /\ call[c].pc = "affected"
    /\ LET n  == call[c].s.batch
           ts == {t \in DOMAIN trackers : OfBatch(t, n) # {}}
       IN  call' = [call EXCEPT ![c].found = {<<t, Derived(t)>> : t \in ts},
                                ![c].pc = "overall"]
    /\ UNCHANGED <<batchVars, trackers, steps, overlapped, raced, grown>>

\* Their overall statuses are written one after the other.
WriteOverall(c) ==
    /\ call[c].pc = "overall"
    /\ \E p \in call[c].found :
          /\ trackers' = [trackers EXCEPT ![p[1]].overall = p[2]]
          /\ grown' = grown \ {p[1]}
          /\ call' = [call EXCEPT ![c].found = @ \ {p},
                                  ![c].pc = IF call[c].found = {p} THEN "ownRead" ELSE "overall"]
    /\ UNCHANGED <<batchVars, steps, overlapped, raced>>

OwnRead(c) ==
    /\ call[c].pc = "ownRead"
    /\ call' = [call EXCEPT ![c].found = {<<call[c].t, Derived(call[c].t)>>},
                            ![c].pc = "ownWrite"]
    /\ UNCHANGED <<batchVars, trackers, steps, overlapped, raced, grown>>

\* A completed step, or one edited when completed, goes on to notify the donor.
OwnWrite(c) ==
    /\ call[c].pc = "ownWrite"
    /\ \E p \in call[c].found :
          /\ trackers' = [trackers EXCEPT ![p[1]].overall = p[2]]
          /\ grown' = grown \ {p[1]}
    /\ IF call[c].to = "completed" /\ call[c].s.key \in Notifying
       THEN Goto(c, "notify") ELSE End(c)
    /\ UNCHANGED <<batchVars, steps, overlapped, raced>>

Notify(c) ==
    /\ call[c].pc = "notify"
    /\ steps' = [steps EXCEPT ![call[c].s].told = TRUE]
    /\ End(c)
    /\ UNCHANGED <<batchVars, trackers, overlapped, raced, grown>>

-----------------------------------------------------------------------------
\* The process dies with the call; PostgreSQL rolls its transaction back.
Crash(c) ==
    /\ c \in MayFail
    /\ Running(c)
    /\ IF call[c].pc = "allocating" /\ ~Ended(c) THEN Rollback(c) ELSE UNCHANGED batchVars
    /\ Stop(c, "dead")
    /\ UNCHANGED <<trackers, steps, overlapped, raced, grown>>

Start(c) ==
    \/ \E d \in Donations : Create(c, d) \/ New(c, d) \/ Paid(c, d)
    \/ \E t \in DOMAIN trackers : More(c, t)
    \/ \E s \in DOMAIN steps, to \in Wanted : Update(c, s, to)

CallStep(c) ==
    \/ InsertTracker(c)
    \/ InsertSteps(c)
    \/ Check(c)
    \/ AllocatedNothing(c)
    \/ Sync(c)
    \/ SyncBatch(c)
    \/ SyncInsert(c)
    \/ Archive(c)
    \/ Write(c)
    \/ Propagate(c)
    \/ Affected(c)
    \/ WriteOverall(c)
    \/ OwnRead(c)
    \/ OwnWrite(c)
    \/ Notify(c)

Transaction(c) == (TxStep(c) \/ Disconnect(c)) /\ UNCHANGED trackVars

Next == \E c \in Calls : Start(c) \/ CallStep(c) \/ Transaction(c) \/ Crash(c)

Spec == Init /\ [][Next]_allVars

\* The server and the handlers go on: while one of them has a next step, one of them
\* takes it.
Progress(c) == CallStep(c) \/ (TxStep(c) /\ UNCHANGED trackVars)

FairSpec == Spec /\ WF_allVars(\E c \in Calls : Progress(c))

-----------------------------------------------------------------------------
\* Every variable is of its type.
TypeOK ==
    /\ BatchTypeOK
    /\ trackers \in Seq(Tracker)
    /\ DOMAIN steps \subseteq StepId
    /\ \A i \in DOMAIN steps : steps[i] \in Step
    /\ call \in [Calls -> Call]
    /\ overlapped \subseteq Donations
    /\ raced \in BOOLEAN
    /\ grown \subseteq Nat

Quiet == \A c \in Calls : ~Running(c)

\* Two rows for the same step of the same tracker and batch.
Twins(i, j) ==
    /\ i # j /\ ~steps[i].archived /\ ~steps[j].archived
    /\ <<i.t, i.batch, i.key>> = <<j.t, j.batch, j.key>>

\* Once nothing runs, a donation whose payment or extra parts were allocated has a step
\* set for every batch it got, however the calls on it and on its batches overlapped; and
\* it has one of them, unless the calls on it did.
StepSetsFollow ==
    /\ Quiet => \A a \in Committed :
          call[a.by].pc = "over" /\ call[a.by].kind \in {"paid", "more"} =>
              \E t \in TrackersOf(a.d) : {i.key : i \in OfBatch(t, a.n)} = Keys
    /\ \A i, j \in DOMAIN steps : Twins(i, j) => trackers[i.t].d \in overlapped

\* A tracker made with its donation shows placeholders or the steps of batches, never
\* both, once nothing runs and unless a call on it died.
PlaceholdersReplaced ==
    Quiet => \A t \in DOMAIN trackers :
        LET d == trackers[t].d
        IN  (\A c \in Calls : call[c].d = d => call[c].pc # "dead" /\ call[c].kind # "create") =>
                OfBatch(t, 0) = {} \/ Active(t) = OfBatch(t, 0)

\* A step in a final status is taken back by nobody but a call that updates that very
\* step: what other donations of the batch report never overwrites it.
FinalOnlyDirectly ==
    [][\A i \in DOMAIN steps :
         steps[i].status \in Final /\ steps'[i].status # steps[i].status =>
             \E c \in Calls : call[c].pc = "write" /\ call[c].s = i]_steps

\* A tracker's overall status is the one its steps add up to, in every donation of
\* the batch, once nothing runs, unless updates overlapped or died, or steps were
\* added that no update has counted yet.
OverallHonest ==
    Quiet /\ ~raced /\ (\A c \in Calls : call[c].pc # "dead") =>
        \A t \in DOMAIN trackers \ grown : trackers[t].overall = Derived(t)

\* Every call comes to an end: transactions that wait for each other are broken up
\* and nobody waits for a request that failed.
CallsEnd == []<>Quiet
=============================================================================
