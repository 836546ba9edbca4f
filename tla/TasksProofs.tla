----------------------------- MODULE TasksProofs ----------------------------
(***************************************************************************)
(* Proofs about Tasks that hold for every number of users, approvers and   *)
(* items, any number of handlers side by side, and any number of overlaps  *)
(* and deaths.  What is said of a copy of the row is said of every copy    *)
(* that may still be saved, so that saves may come in any order (CopiesOK);*)
(* what holds only while nothing overlaps is the story of the one handler  *)
(* that runs (StoryOK).  The occurrences inserted twice are a sum over the *)
(* dates, of which the lemmas on sums say what an insertion does to it.    *)
(***************************************************************************)
EXTENDS Tasks, FiniteSetTheorems, WellFoundedInduction, TLAPS

-----------------------------------------------------------------------------
(* The invariant.                                                          *)

\* What handler a call is, at which of its steps; nothing is loaded before "load".
PlaceOK(c) ==
    LET k == call[c]
    IN  /\ k.pc = "idle" => k = NoCall
        /\ k.op = "none" => k.pc = "idle"
        /\ k.pc = "confirm" => k.op = "transition"
        /\ k.pc \in {"idle", "confirm", "load"} => k.row = NoCall.row /\ k.meta = Pending
        /\ k.pc = "decide" => k.op = "approve"
        /\ k.pc \in {"read_meta", "save_meta", "read_state", "save_state"} =>
              k.op \in {"approve", "update", "transition"}
        /\ k.pc \in {"read_meta", "save_meta"} /\ k.op # "approve" => k.meta = Pending
        /\ k.op = "overdue" => k.pc \in {"send", "save"} /\ (k.pc = "save" => k.row.told)
        /\ k.op = "recurrence" => k.pc \in {"create", "save"}
        /\ k.op = "cutoff" => k.pc = "save"
        /\ k.pc = "send" => k.op = "overdue"
        /\ k.pc = "create" => k.op = "recurrence"

PlacesOK == \A c \in Calls : PlaceOK(c)

\* Without an overlap one handler runs.
Alone == overlaps = 0 => \A c, d \in Calls : Running(c) /\ Running(d) => c = d

\* A copy of the row has the whole checklist, unless one was cut, and all dates before its
\* next one were inserted.
RowOK(r, cut, inserted) ==
    /\ ~cut => r.movs = Movs
    /\ r.next # 0 => r.next >= First /\ \A d \in Dates : d < r.next => inserted[d] > 0

CopiesOK ==
    /\ RowOK(task, hidden, children)
    /\ \A c \in Calls : RowOK(call[c].row, hidden, children)
    /\ \A c \in Calls : call[c].pc = "create" => call[c].row.next \in First .. day

\* Whoever is noted as having approved has approved at some time.
Backed(meta) == \A u \in Approvers : meta[u] = "approved" => u \in ever

ApprovalsBacked ==
    /\ Backed(approval.meta)
    /\ \A c \in Calls :
          LET k == call[c]
          IN  /\ Backed(k.rec.meta)
              /\ Backed(k.meta)
              /\ k.pc = "decide" /\ k.yes /\ k.user \in Approvers => k.user \in ever
              /\ k.op = "approve" /\ k.pc = "save" /\ k.row.status = "approved" =>
                    Approvers \subseteq ever

\* The status of the record that goes with the status of the task.
Fits(status, noted) ==
    /\ status \in {"pending_approval", "approved", "rejected"} => noted = status
    /\ noted # "null" => status \in {noted, "completed", "closed"}

\* The decisions a call is about to save.
Saving(c) ==
    \/ call[c].op = "approve" /\ call[c].pc \in {"save", "read_meta", "save_meta"}
    \/ call[c].op # "approve" /\ call[c].pc \in {"read_meta", "save_meta"}

\* What the one handler that runs has yet to do to the record.
StoryOK(c) ==
    LET k == call[c]
    IN  /\ k.pc \in {"confirm", "load", "send", "create"} => Fits(task.status, approval.status)
        /\ k.pc \in {"send", "create"} => k.row.status = task.status
        /\ k.pc = "save" /\ k.op \notin {"approve", "update", "transition"} =>
              Fits(IF k.op = "cutoff" THEN "completed" ELSE k.row.status, approval.status)
        /\ \/ k.pc \in {"read_state", "save_state"}
           \/ k.op = "approve" /\ k.pc \in {"read_meta", "save_meta"}
           => k.row.status = task.status
        /\ k.pc \in {"save_meta", "save_state"} => k.rec = approval
        /\ IF k.pc = "decide"
           THEN decided = [u \in Approvers |->
                              IF u # k.user THEN approval.meta[u]
                              ELSE IF k.yes THEN "approved" ELSE "rejected"]
           ELSE decided = IF Saving(c) THEN k.meta ELSE approval.meta
        /\ k.op = "approve" /\ k.pc = "save" /\ k.row.status = "approved" =>
              \A u \in Approvers : k.meta[u] = "approved"

Story ==
    /\ Undisturbed => \A c \in Calls : Running(c) => StoryOK(c)
    /\ Undisturbed /\ Quiet => Fits(task.status, approval.status) /\ decided = approval.meta

\* A handler that runs alone and looks at the status does not hold a final task.
FinalOK(c) ==
    LET k == call[c]
    IN  k.pc \in {"save", "send", "create", "read_meta", "save_meta"} =>
          /\ k.op \in {"update", "transition", "overdue", "cutoff"} => task.status \notin Final
          /\ k.op \in {"assign", "reassign", "recurrence"} =>
                k.row.status = task.status \/ task.status = "draft"

FinalsOK == overlaps = 0 => \A c \in Calls : FinalOK(c)

\* There is one run of the overdue cron at a time.
OneOverdue ==
    /\ \A c \in Calls : call[c].op = "overdue" => hour = 1 /\ fired
    /\ \A c, d \in Calls : call[c].op = "overdue" /\ call[d].op = "overdue" => c = d

Loaded(c) == call[c].pc \notin {"idle", "confirm", "load"}

\* The cron of the mail runs, is about to send it, and runs beside another handler.
Mailing == \E c \in Calls : call[c].op = "overdue"
Sending == \E c \in Calls : call[c].pc = "send"
Beside  == \E c \in Calls : Running(c) /\ call[c].op # "overdue"

\* The row, or a copy of it, does not tell of the last mail.
Stale == ~task.told \/ \E c \in Calls : Loaded(c) /\ ~call[c].row.told

\* The mails that may still be sent before another handler begins beside one or dies.
Unsent ==
    IF Mailing THEN (IF Sending THEN 1 ELSE 0) + (IF Beside THEN 1 ELSE 0)
    ELSE IF Stale THEN 1 ELSE 0

MailsCounted == OneOverdue /\ mails + Unsent <= 1 + overlaps + deaths

TasksInv ==
    /\ TypeOK /\ PlacesOK /\ Alone /\ CopiesOK /\ ApprovalsBacked /\ Story /\ FinalsOK
    /\ MailsCounted /\ NoDateSkipped

-----------------------------------------------------------------------------
(* What a step of call c does, in the terms of the invariant.              *)

Only(c) == \A d \in Calls \ {c} : call'[d] = call[d]

\* Handlers are counted that begin beside others.
Joined == overlaps' = IF Quiet THEN overlaps ELSE overlaps + 1

\* Call c goes on as it is, in another place.
On(c, pc) == call'[c] = [call[c] EXCEPT !.pc = pc]

Asked(c) ==
    /\ call[c].pc = "idle"
    /\ call'[c].pc \in {"confirm", "load"} /\ call'[c].op \in Requests
    /\ call'[c].pc = "confirm" => call'[c].op = "transition"
    /\ call'[c].row = NoCall.row /\ call'[c].rec = NoApproval /\ call'[c].meta = Pending
    /\ Joined
    /\ UNCHANGED <<task, approval, deaths, ever, decided, hidden, cronVars>>

\* Which cron, at which hour, for which task.
Scheduled(c) ==
    /\ call[c].pc = "idle" /\ ~fired
    /\ \/ /\ call'[c].op = "overdue" /\ call'[c].pc = "send" /\ hour = 1 /\ fired'
          /\ ~task.told /\ task.status \notin Ended
       \/ /\ call'[c].op = "recurrence" /\ call'[c].pc = "create" /\ hour = 2
          /\ task.next # 0 /\ task.next <= day
       \/ /\ call'[c].op = "cutoff" /\ call'[c].pc = "save" /\ hour = 3
          /\ task.status \notin Ended
    /\ call'[c].row = task /\ call'[c].rec = NoApproval /\ call'[c].meta = Pending
    /\ Joined
    /\ UNCHANGED <<task, approval, deaths, ever, decided, hidden, day, hour, children, mails>>

Confirmed(c) ==
    /\ call[c].pc = "confirm" /\ On(c, "load")
    /\ UNCHANGED <<task, approval, overlaps, deaths, ever, decided, hidden, cronVars>>

\* The handler ends without a save, or as it may not insert the record.
Dropped(c) ==
    /\ \/ call[c].pc \in {"confirm", "load", "send", "create"}
       \/ call[c].pc \in {"save_meta", "save_state"} /\ ~call[c].rec.exists /\ approval.exists
    /\ call'[c] = NoCall
    /\ UNCHANGED <<task, approval, overlaps, deaths, ever, decided, hidden, cronVars>>

Died(c) ==
    /\ call[c].pc # "idle" /\ call'[c] = NoCall
    /\ deaths' = deaths + 1
    /\ UNCHANGED <<task, approval, overlaps, ever, decided, hidden, cronVars>>

\* The row is loaded, to be saved: all that is left out of it is left out as hidden.
Copied(c) ==
    /\ call[c].pc = "load"
    /\ call'[c].op = call[c].op /\ call'[c].user = call[c].user /\ call'[c].yes = call[c].yes
    /\ call'[c].rec = call[c].rec /\ call'[c].meta = call[c].meta
    /\ call'[c].row.next = task.next /\ call'[c].row.told = task.told
    /\ call'[c].row.count = task.count
    /\ hidden => hidden'
    /\ ~hidden' => call'[c].row.movs = task.movs
    /\ UNCHANGED <<task, approval, overlaps, deaths, cronVars>>

Fetched(c) ==
    /\ Copied(c)
    /\ call[c].op \in Requests \ {"approve"}
    /\ \/ /\ call[c].op \in {"update", "transition"}
          /\ call'[c].pc = "read_meta" /\ decided' = Pending
       \/ call'[c].pc = "save" /\ decided' = decided
    /\ call[c].op \in {"update", "transition"} => task.status \notin Final
    /\ call[c].op \in {"assign", "reassign"} =>
          call'[c].row.status = task.status \/ task.status = "draft"
    /\ call[c].op \notin {"update", "transition"} /\ Fits(task.status, approval.status) =>
          Fits(call'[c].row.status, approval.status)
    /\ UNCHANGED ever

\* The decisions in meta, with that of user u.
Voted(meta, u, yes) ==
    [v \in Approvers |-> IF v # u THEN meta[v] ELSE IF yes THEN "approved" ELSE "rejected"]

Taken(c) ==
    /\ Copied(c)
    /\ call[c].op = "approve" /\ call'[c].pc = "decide"
    /\ ever \subseteq ever'
    /\ call[c].yes /\ call[c].user \in Approvers => call[c].user \in ever'
    /\ decided' = Voted(decided, call[c].user, call[c].yes)

Judged(c) ==
    /\ call[c].pc = "decide"
    /\ call'[c].pc = "save" /\ call'[c].op = call[c].op
    /\ call'[c].rec = call[c].rec
    /\ call'[c].meta = Voted(approval.meta, call[c].user, call[c].yes)
    /\ call'[c].row = [call[c].row EXCEPT !.status = Outcome(call'[c].meta, call[c].yes)]
    /\ UNCHANGED <<task, approval, overlaps, deaths, ever, decided, hidden, cronVars>>

Saved(c) ==
    /\ call[c].pc = "save"
    /\ task' = IF call[c].op = "cutoff" THEN [call[c].row EXCEPT !.status = "completed"]
                                        ELSE call[c].row
    /\ \/ call[c].op = "approve" /\ On(c, "read_meta")
       \/ call[c].op \in {"update", "transition"} /\ On(c, "read_state")
       \/ call[c].op \notin {"approve", "update", "transition"} /\ call'[c] = NoCall
    /\ UNCHANGED <<approval, overlaps, deaths, ever, decided, hidden, cronVars>>

Noted(c) ==
    /\ \/ call[c].pc = "read_meta" /\ call'[c].pc = "save_meta"
       \/ call[c].pc = "read_state" /\ call'[c].pc = "save_state"
    /\ call'[c] = [call[c] EXCEPT !.rec = approval, !.pc = call'[c].pc]
    /\ UNCHANGED <<task, approval, overlaps, deaths, ever, decided, hidden, cronVars>>

MetaSaved(c) ==
    /\ call[c].pc = "save_meta"
    /\ approval' = [call[c].rec EXCEPT !.meta = call[c].meta, !.exists = TRUE]
    /\ On(c, IF call[c].op = "approve" THEN "read_state" ELSE "save")
    /\ UNCHANGED <<task, overlaps, deaths, ever, decided, hidden, cronVars>>

StateSaved(c) ==
    /\ call[c].pc = "save_state"
    /\ approval' = [call[c].rec EXCEPT !.status = StateOf(call[c].row.status, @), !.exists = TRUE]
    /\ call'[c] = NoCall
    /\ UNCHANGED <<task, overlaps, deaths, ever, decided, hidden, cronVars>>

Mailed(c) ==
    /\ call[c].pc = "send"
    /\ call'[c] = [call[c] EXCEPT !.row.told = TRUE, !.pc = "save"]
    /\ mails' = mails + 1
    /\ UNCHANGED <<task, approval, overlaps, deaths, ever, decided, hidden,
                   day, hour, fired, children>>

Bred(c) ==
    /\ call[c].pc = "create"
    /\ call'[c].pc = "save" /\ call'[c].op = call[c].op
    /\ call'[c].rec = call[c].rec /\ call'[c].meta = call[c].meta
    /\ call'[c].row.movs = call[c].row.movs /\ call'[c].row.told = call[c].row.told
    /\ call'[c].row.status = call[c].row.status
    /\ \/ call'[c].row.next = 0 /\ children' = children
       \/ /\ call'[c].row.next \in {0, call[c].row.next + 1}
          /\ call'[c].row.count = call[c].row.count + 1
          /\ children' = [children EXCEPT ![call[c].row.next] = @ + 1]
          /\ ~dated /\ ~Over(call[c].row)
    /\ UNCHANGED <<task, approval, overlaps, deaths, ever, decided, hidden,
                   day, hour, fired, mails>>

Effect(c) ==
    /\ Only(c)
    /\ \/ Asked(c) \/ Scheduled(c) \/ Confirmed(c) \/ Dropped(c) \/ Died(c)
       \/ Fetched(c) \/ Taken(c) \/ Judged(c) \/ Saved(c)
       \/ Noted(c) \/ MetaSaved(c) \/ StateSaved(c) \/ Mailed(c) \/ Bred(c)

-----------------------------------------------------------------------------
(* Types.                                                                  *)

\* A free slot is of the type of a call.
LEMMA NoCallTyped == NoCall \in Call
  BY TaskAssumption, SMT DEF NoCall, Call, CallSteps, Requests, Crons, FreshRow, Row, TaskStatus,
     NoApproval, Approval, Pending, Decision

\* What a request says is of the types a call keeps it in.
LEMMA BodiesTyped ==
  ASSUME NEW b \in Bodies
  PROVE  /\ b.op \in Requests /\ b.user \in Users /\ b.want \in TaskStatus \union {"keep"}
         /\ b.yes \in BOOLEAN /\ b.ticks \subseteq Movs
         /\ b.want = "completed" /\ ~b.yes => b.op = "transition"
<1>1. CASE b \in Said({"update"}, {Creator}, {"keep"}, {FALSE}, {{}})
  BY <1>1, TaskAssumption DEF Said, Requests
<1>2. CASE b \in Said({"transition"}, {Creator}, TaskStatus, {FALSE}, {{}})
  BY <1>2, TaskAssumption DEF Said, Requests
<1>3. CASE b \in Said({"transition"}, {Creator}, {"completed"}, {TRUE}, {{}})
  BY <1>3, TaskAssumption DEF Said, Requests, TaskStatus
<1>4. CASE b \in Said({"assign", "reassign", "complete"}, Users, {"keep"}, {FALSE}, {{}})
  BY <1>4 DEF Said, Requests
<1>5. CASE b \in Said({"approve"}, Users, {"keep"}, BOOLEAN, {{}})
  BY <1>5 DEF Said, Requests
<1>6. CASE b \in Said({"progress"}, Users, {"keep"}, {TRUE}, SUBSET Movs)
  BY <1>6 DEF Said, Requests
<1>7. CASE b \in Said({"progress"}, Users, {"keep"}, {FALSE}, {{}})
  BY <1>7 DEF Said, Requests
<1> QED
  BY <1>1, <1>2, <1>3, <1>4, <1>5, <1>6, <1>7 DEF Bodies

\* The initial state has the types.
LEMMA InitTyped == Init => TypeOK
<1> SUFFICES ASSUME Init PROVE TypeOK
  OBVIOUS
<1>1. PICK s \in Shapes : /\ workflow = s.workflow /\ ending = s.ending /\ dated = s.dated
                         /\ beside = s.beside
                         /\ task = FreshRow(s.status, IF s.ending = "once" THEN 0 ELSE First)
                         /\ approval = IF s.status = "pending_approval"
                                       THEN [NoApproval EXCEPT !.exists = TRUE, !.status = s.status]
                                       ELSE NoApproval
  BY DEF Init
<1>2. /\ s.workflow \in Workflows /\ s.ending \in Endings /\ s.dated \in BOOLEAN
      /\ s.beside \in BOOLEAN
      /\ s.status \in {"draft", "open", "pending_approval"}
  BY CronAssumption DEF Shape
<1>3. task \in Row
  BY <1>1, <1>2 DEF FreshRow, Row, TaskStatus, First
<1>4. approval \in Approval
  BY <1>1, <1>2 DEF NoApproval, Approval, Pending, Decision
<1>5. call \in [Calls -> Call]
  BY NoCallTyped DEF Init, WorkflowInit
<1>6. workflow \in Workflows /\ ending \in Endings /\ dated \in BOOLEAN /\ beside \in BOOLEAN
  BY <1>1, <1>2
<1>7. left \in 0 .. MaxRequests /\ overlaps \in 0 .. MaxOverlaps /\ deaths \in 0 .. MaxDeaths
  BY TaskAssumption DEF Init, WorkflowInit
<1>9. ever \subseteq Approvers /\ decided \in [Approvers -> Decision] /\ hidden \in BOOLEAN
  BY DEF Init, WorkflowInit, Pending, Decision
<1>8. /\ day \in 1 .. Days /\ hour \in 1 .. 3 /\ fired \in BOOLEAN
      /\ children \in [Dates -> Nat] /\ mails \in Nat
  <2>1. day = 1 /\ hour = 1 /\ fired = FALSE /\ mails = 0 /\ children = [d \in Dates |-> 0]
    BY DEF Init
  <2>2. Days \in Nat /\ Days >= 2
    BY CronAssumption
  <2>3. children \in [Dates -> Nat]
    BY <2>1
  <2>4. day \in 1 .. Days /\ hour \in 1 .. 3 /\ mails \in Nat
    BY <2>1, <2>2
  <2> QED
    BY <2>1, <2>3, <2>4
<1> QED
  BY <1>3, <1>4, <1>5, <1>6, <1>7, <1>8, <1>9 DEF TypeOK

-----------------------------------------------------------------------------
(* Every step has its effect and keeps the types.                          *)

\* A handler begins.
LEMMA BeginTyped ==
  ASSUME TypeOK, NEW c \in Calls, NEW r \in Call, Begin(c, r)
  PROVE  /\ call' \in [Calls -> Call] /\ overlaps' \in 0 .. MaxOverlaps
         /\ Only(c) /\ call'[c] = r /\ call[c].pc = "idle" /\ Joined
  BY TaskAssumption DEF TypeOK, Begin, Set, Only, Joined

\* A request comes.
LEMMA RequestActs ==
  ASSUME TypeOK, NEW c \in Calls, Request(c), UNCHANGED cronVars
  PROVE  TypeOK' /\ Only(c) /\ Asked(c)
<1>1. PICK b \in Bodies :
         Begin(c, [NoCall EXCEPT !.op = b.op, !.user = b.user, !.want = b.want,
                                 !.yes = b.yes, !.ticks = b.ticks,
                                 !.pc = IF b.want = "completed" /\ ~b.yes THEN "confirm"
                                                                         ELSE "load"])
  BY DEF Request
<1> DEFINE r == [NoCall EXCEPT !.op = b.op, !.user = b.user, !.want = b.want,
                               !.yes = b.yes, !.ticks = b.ticks,
                               !.pc = IF b.want = "completed" /\ ~b.yes THEN "confirm"
                                                                       ELSE "load"]
<1>2. /\ r \in Call /\ r.pc \in {"confirm", "load"} /\ r.op \in Requests
      /\ r.pc = "confirm" => r.op = "transition"
      /\ r.row = NoCall.row /\ r.rec = NoApproval /\ r.meta = Pending
  BY BodiesTyped, NoCallTyped DEF Call, CallSteps, NoCall
<1>3. Begin(c, r)
  BY <1>1
<1> HIDE DEF r
<1>4. /\ call' \in [Calls -> Call] /\ overlaps' \in 0 .. MaxOverlaps
      /\ Only(c) /\ call'[c] = r /\ call[c].pc = "idle" /\ Joined
  BY <1>2, <1>3, BeginTyped
<1>5. Asked(c)
  BY <1>2, <1>4 DEF Asked, Request
<1>6. left' \in 0 .. MaxRequests
  BY TaskAssumption DEF TypeOK, Request
<1>7. UNCHANGED <<workflow, task, approval, deaths, ever, decided, hidden, cronVars>>
  BY DEF Request
<1> QED
  BY <1>4, <1>5, <1>6, <1>7 DEF TypeOK, cronVars

\* A cron begins.
LEMMA CronActs ==
  ASSUME TypeOK, NEW c \in Calls, Cron(c)
  PROVE  TypeOK' /\ Only(c) /\ Scheduled(c)
<1> DEFINE op == CronOf(Hours[hour])
           pc == CASE op = "overdue"    -> "send"
                   [] op = "recurrence" -> "create"
                   [] op = "cutoff"     -> "save"
           r  == [NoCall EXCEPT !.op = op, !.row = task, !.pc = pc]
<1>1. \/ op = "overdue" /\ pc = "send" /\ hour = 1
      \/ op = "recurrence" /\ pc = "create" /\ hour = 2
      \/ op = "cutoff" /\ pc = "save" /\ hour = 3
  BY DEF TypeOK, CronOf, Hours
<1>2. Begin(c, r) /\ ~fired /\ fired' = (op # "cutoff") /\ Selected(op)
  BY DEF Cron
<1>3. r \in Call /\ r.op = op /\ r.pc = pc /\ r.row = task /\ r.rec = NoApproval /\ r.meta = Pending
  BY <1>1, NoCallTyped DEF Call, CallSteps, Crons, NoCall, TypeOK
<1>4. UNCHANGED <<workflow, task, approval, left, deaths, ever, decided, hidden,
                  ending, dated, beside, day, hour, children, mails>>
  BY DEF Cron
<1> HIDE DEF op, pc, r
<1>5. /\ call' \in [Calls -> Call] /\ overlaps' \in 0 .. MaxOverlaps
      /\ Only(c) /\ call'[c] = r /\ call[c].pc = "idle" /\ Joined
  BY <1>2, <1>3, BeginTyped
<1>6. Scheduled(c)
  BY <1>1, <1>2, <1>3, <1>4, <1>5 DEF Scheduled, Selected
<1>7. fired' \in BOOLEAN
  BY <1>2
<1> QED
  BY <1>4, <1>5, <1>6, <1>7 DEF TypeOK

\* The types of what a call holds.
LEMMA FieldsTyped ==
  ASSUME NEW k \in Call
  PROVE  /\ k.row \in Row /\ k.row.status \in TaskStatus /\ k.row.movs \subseteq Movs
         /\ k.row.checked \subseteq Movs \X Users
         /\ k.row.next \in Nat /\ k.row.count \in Nat /\ k.row.told \in BOOLEAN
         /\ k.rec \in Approval /\ k.rec.exists \in BOOLEAN
         /\ k.rec.meta \in [Approvers -> Decision]
         /\ k.rec.status \in {"null", "pending_approval", "approved", "rejected"}
         /\ k.meta \in [Approvers -> Decision]
         /\ k.user \in Users /\ k.yes \in BOOLEAN /\ k.ticks \subseteq Movs
         /\ k.pc \in CallSteps /\ k.want \in TaskStatus \union {"keep"}
  BY DEF Call, Row, Approval

\* A call that goes on elsewhere is a call.
LEMMA GotoTyped ==
  ASSUME TypeOK, NEW c \in Calls, NEW pc \in CallSteps, Goto(c, pc)
  PROVE  call' \in [Calls -> Call] /\ Only(c) /\ On(c, pc)
  BY DEF TypeOK, Goto, Only, On, Call

\* A call that ends leaves a free slot.
LEMMA EndTyped ==
  ASSUME TypeOK, NEW c \in Calls, End(c)
  PROVE  call' \in [Calls -> Call] /\ Only(c) /\ call'[c] = NoCall
  BY NoCallTyped DEF TypeOK, End, Set, Only

\* A call that holds a row is a call.
LEMMA HoldTyped ==
  ASSUME TypeOK, NEW c \in Calls, NEW row \in Row, NEW pc \in CallSteps, Hold(c, row, pc)
  PROVE  /\ call' \in [Calls -> Call] /\ Only(c)
         /\ call'[c].row = row /\ call'[c].pc = pc
         /\ call'[c].op = call[c].op /\ call'[c].user = call[c].user
         /\ call'[c].yes = call[c].yes /\ call'[c].rec = call[c].rec
         /\ call'[c].meta = call[c].meta
  BY DEF TypeOK, Hold, Only, Call

\* What a user is shown of the row is a row; what is not shown is hidden.
LEMMA ShownTyped ==
  ASSUME TypeOK, NEW u
  PROVE  LET r == Filtered(task, u)
         IN  /\ r \in Row /\ r.next = task.next /\ r.count = task.count
             /\ r.told = task.told /\ r.status = task.status
  BY DEF TypeOK, Filtered, Row

LEMMA ConfirmActs ==
  ASSUME TypeOK, NEW c \in Calls, Confirm(c), UNCHANGED cronVars
  PROVE  TypeOK' /\ Only(c) /\ (Confirmed(c) \/ Dropped(c))
<1>1. CASE Goto(c, "load")
  <2>1. call' \in [Calls -> Call] /\ Only(c) /\ On(c, "load")
    BY <1>1, GotoTyped DEF CallSteps
  <2> QED
    BY <2>1 DEF Confirm, Confirmed, TypeOK, cronVars
<1>2. CASE End(c)
  <2>1. call' \in [Calls -> Call] /\ Only(c) /\ call'[c] = NoCall
    BY <1>2, EndTyped
  <2> QED
    BY <2>1 DEF Confirm, Dropped, TypeOK, cronVars
<1> QED
  BY <1>1, <1>2 DEF Confirm

LEMMA LoadUpdateActs ==
  ASSUME TypeOK, NEW c \in Calls, LoadUpdate(c), UNCHANGED cronVars
  PROVE  TypeOK' /\ Only(c) /\ (Fetched(c) \/ Dropped(c))
<1> DEFINE want == call[c].want
           new  == want # "keep" /\ want # task.status
           row  == [task EXCEPT !.status = IF new THEN want ELSE @]
           place == IF Rework(want) THEN "read_meta" ELSE "save"
<1>1. want \in TaskStatus \union {"keep"} /\ task \in Row /\ task.status \in TaskStatus
  BY FieldsTyped DEF TypeOK, Row
<1>2. CASE End(c) /\ UNCHANGED decided
  <2>1. call' \in [Calls -> Call] /\ Only(c) /\ call'[c] = NoCall
    BY <1>2, EndTyped
  <2> QED
    BY <1>2, <2>1 DEF LoadUpdate, Dropped, TypeOK, cronVars
<1>3. CASE /\ ~(IF new THEN want \notin Allowed(task.status) ELSE task.status \in Final)
           /\ Hold(c, row, place)
           /\ decided' = IF Rework(want) THEN Pending ELSE decided
  <2>1. /\ row \in Row /\ row.next = task.next /\ row.count = task.count
        /\ row.told = task.told /\ row.movs = task.movs
    BY <1>1 DEF Row
  <2>2. task.status \notin Final
    BY <1>1, <1>3 DEF Allowed, Final
  <2>3. decided' \in [Approvers -> Decision]
    BY <1>3 DEF TypeOK, Pending, Decision
  <2>4. /\ call' \in [Calls -> Call] /\ Only(c)
        /\ call'[c].row = row /\ call'[c].pc = place
        /\ call'[c].op = call[c].op /\ call'[c].user = call[c].user
        /\ call'[c].yes = call[c].yes /\ call'[c].rec = call[c].rec
        /\ call'[c].meta = call[c].meta
    <3>1. row \in Row /\ place \in CallSteps /\ Hold(c, row, place)
      BY <1>3, <2>1 DEF CallSteps
    <3> HIDE DEF row, place
    <3> QED
      BY <3>1, HoldTyped DEF CallSteps
  <2>5. /\ call[c].pc = "load" /\ call[c].op \in {"update", "transition"}
        /\ UNCHANGED <<workflow, task, approval, left, overlaps, deaths, ever, hidden>>
    BY DEF LoadUpdate
  <2>6. \/ place = "read_meta" /\ decided' = Pending
        \/ place = "save" /\ decided' = decided
    BY <1>3
  <2> HIDE DEF row, place
  <2>7. Copied(c)
    BY <2>1, <2>4, <2>5 DEF Copied
  <2>8. Fetched(c)
    <3>1. call[c].op \in Requests \ {"approve"}
      BY <2>5 DEF Requests
    <3>2. UNCHANGED ever
      BY <2>5
    <3> QED
      BY <2>2, <2>4, <2>5, <2>6, <2>7, <3>1, <3>2, Zenon DEF Fetched
  <2> QED
    BY <2>3, <2>4, <2>5, <2>8 DEF TypeOK, cronVars
<1> QED
  BY <1>2, <1>3 DEF LoadUpdate

LEMMA LoadAssignActs ==
  ASSUME TypeOK, NEW c \in Calls, LoadAssign(c), UNCHANGED cronVars
  PROVE  TypeOK' /\ Only(c) /\ Fetched(c)
<1> DEFINE row == [task EXCEPT !.status = IF @ = "draft" THEN "open" ELSE @]
<1>1. task \in Row /\ task.status \in TaskStatus
  BY DEF TypeOK, Row
<1>2. /\ row \in Row /\ row.next = task.next /\ row.count = task.count
      /\ row.told = task.told /\ row.movs = task.movs
      /\ row.status = task.status \/ (task.status = "draft" /\ row.status = "open")
  BY <1>1 DEF Row, TaskStatus
<1>3. Hold(c, row, "save")
  BY DEF LoadAssign
<1>4. /\ call[c].pc = "load" /\ call[c].op = "assign"
      /\ UNCHANGED <<workflow, task, approval, left, overlaps, deaths, ever, decided, hidden>>
  BY DEF LoadAssign
<1> HIDE DEF row
<1>5. /\ call' \in [Calls -> Call] /\ Only(c)
      /\ call'[c].row = row /\ call'[c].pc = "save"
      /\ call'[c].op = call[c].op /\ call'[c].user = call[c].user
      /\ call'[c].yes = call[c].yes /\ call'[c].rec = call[c].rec
      /\ call'[c].meta = call[c].meta
  BY <1>2, <1>3, HoldTyped DEF CallSteps
<1>6. Copied(c)
  BY <1>2, <1>4, <1>5 DEF Copied
<1>7. Fits(task.status, approval.status) => Fits(row.status, approval.status)
  <2>1. approval.status # "draft"
    BY DEF TypeOK, Approval
  <2> QED
    BY <1>2, <2>1 DEF Fits
<1>8. Fetched(c)
  BY <1>2, <1>4, <1>5, <1>6, <1>7 DEF Fetched, Requests
<1> QED
  BY <1>4, <1>5, <1>8 DEF TypeOK, cronVars

\* The row is held as its user is shown it.
LEMMA HoldShownActs ==
  ASSUME TypeOK, NEW c \in Calls, NEW status \in TaskStatus, NEW pc \in CallSteps,
         HoldShown(c, status, pc),
         call[c].pc = "load", UNCHANGED <<task, approval, overlaps, deaths, cronVars>>
  PROVE  /\ call' \in [Calls -> Call] /\ hidden' \in BOOLEAN /\ Only(c)
         /\ Copied(c) /\ call'[c].pc = pc /\ call'[c].row.status = status
<1> DEFINE shown == Filtered(task, call[c].user)
           row   == [shown EXCEPT !.status = status]
<1>1. /\ shown \in Row /\ shown.next = task.next /\ shown.count = task.count
      /\ shown.told = task.told
  BY ShownTyped
<1>2. Hold(c, row, pc) /\ hidden' = (hidden \/ shown # task)
  BY DEF HoldShown
<1>3. hidden' \in BOOLEAN /\ (hidden => hidden') /\ (~hidden' => shown = task)
  <2> HIDE DEF shown
  <2> QED
    BY <1>2, Zenon DEF TypeOK
<1> HIDE DEF shown
<1>4. /\ row \in Row /\ row.status = status /\ row.next = task.next
      /\ row.count = task.count /\ row.told = task.told
      /\ row.movs = shown.movs
  BY <1>1 DEF Row
<1> HIDE DEF row
<1>5. /\ call' \in [Calls -> Call] /\ Only(c)
      /\ call'[c].row = row /\ call'[c].pc = pc
      /\ call'[c].op = call[c].op /\ call'[c].user = call[c].user
      /\ call'[c].yes = call[c].yes /\ call'[c].rec = call[c].rec
      /\ call'[c].meta = call[c].meta
  BY <1>2, <1>4, HoldTyped
<1>6. Copied(c)
  <2>1. ~hidden' => call'[c].row.movs = task.movs
    BY <1>3, <1>4, <1>5
  <2> QED
    BY <1>3, <1>4, <1>5, <2>1 DEF Copied
<1> QED
  BY <1>3, <1>4, <1>5, <1>6

LEMMA LoadReassignActs ==
  ASSUME TypeOK, NEW c \in Calls, LoadReassign(c), UNCHANGED cronVars
  PROVE  TypeOK' /\ Only(c) /\ Fetched(c)
<1>1. task.status \in TaskStatus
  BY DEF TypeOK, Row
<1>2. /\ call[c].pc = "load" /\ call[c].op = "reassign"
      /\ HoldShown(c, task.status, "save")
      /\ UNCHANGED <<workflow, task, approval, left, overlaps, deaths, ever, decided>>
  BY DEF LoadReassign
<1>3. /\ call' \in [Calls -> Call] /\ hidden' \in BOOLEAN /\ Only(c)
      /\ Copied(c) /\ call'[c].pc = "save" /\ call'[c].row.status = task.status
  BY <1>1, <1>2, HoldShownActs DEF CallSteps
<1>4. Fetched(c)
  BY <1>2, <1>3 DEF Fetched, Requests
<1> QED
  BY <1>2, <1>3, <1>4 DEF TypeOK, cronVars

LEMMA LoadCompleteActs ==
  ASSUME TypeOK, NEW c \in Calls, LoadComplete(c), UNCHANGED cronVars
  PROVE  TypeOK' /\ Only(c) /\ Fetched(c)
<1>1. /\ call[c].pc = "load" /\ call[c].op = "complete"
      /\ HoldShown(c, "completed", "save")
      /\ UNCHANGED <<workflow, task, approval, left, overlaps, deaths, ever, decided>>
  BY DEF LoadComplete
<1>2. /\ call' \in [Calls -> Call] /\ hidden' \in BOOLEAN /\ Only(c)
      /\ Copied(c) /\ call'[c].pc = "save" /\ call'[c].row.status = "completed"
  BY <1>1, HoldShownActs DEF CallSteps, TaskStatus
<1>3. Fetched(c)
  <2>1. Fits("completed", approval.status)
    BY DEF Fits
  <2> QED
    BY <1>1, <1>2, <2>1 DEF Fetched, Requests
<1> QED
  BY <1>1, <1>2, <1>3 DEF TypeOK, cronVars

LEMMA LoadApproveActs ==
  ASSUME TypeOK, NEW c \in Calls, LoadApprove(c), UNCHANGED cronVars
  PROVE  TypeOK' /\ Only(c) /\ (Taken(c) \/ Dropped(c))
<1>1. /\ call[c].pc = "load" /\ call[c].op = "approve"
      /\ UNCHANGED <<workflow, task, approval, left, overlaps, deaths>>
  BY DEF LoadApprove
<1>2. CASE End(c) /\ UNCHANGED <<ever, decided, hidden>>
  <2>1. call' \in [Calls -> Call] /\ Only(c) /\ call'[c] = NoCall
    BY <1>2, EndTyped
  <2> QED
    BY <1>1, <1>2, <2>1 DEF Dropped, TypeOK, cronVars
<1>3. CASE /\ HoldShown(c, task.status, "decide")
           /\ ever' = IF call[c].yes THEN ever \union ({call[c].user} \intersect Approvers) ELSE ever
           /\ decided' = Voted(decided, call[c].user, call[c].yes)
  <2>1. task.status \in TaskStatus
    BY DEF TypeOK, Row
  <2>2. /\ call' \in [Calls -> Call] /\ hidden' \in BOOLEAN /\ Only(c)
        /\ Copied(c) /\ call'[c].pc = "decide" /\ call'[c].row.status = task.status
    BY <1>1, <1>3, <2>1, HoldShownActs DEF CallSteps
  <2>3. ever' \subseteq Approvers /\ ever \subseteq ever'
    BY <1>3 DEF TypeOK
  <2>4. call[c].yes /\ call[c].user \in Approvers => call[c].user \in ever'
    BY <1>3
  <2>5. decided' \in [Approvers -> Decision]
    BY <1>3 DEF Voted, TypeOK, Decision
  <2>6. Taken(c)
    BY <1>1, <1>3, <2>2, <2>3, <2>4 DEF Taken
  <2> QED
    BY <1>1, <2>2, <2>3, <2>5, <2>6 DEF TypeOK, cronVars
<1> QED
  BY <1>2, <1>3 DEF LoadApprove, Voted

LEMMA LoadProgressActs ==
  ASSUME TypeOK, NEW c \in Calls, LoadProgress(c), UNCHANGED cronVars
  PROVE  TypeOK' /\ Only(c) /\ (Fetched(c) \/ Dropped(c))
<1> DEFINE u     == call[c].user
           ticks == call[c].ticks
           row   == [task EXCEPT !.checked = IF call[c].yes THEN Merged(@, u, ticks) ELSE {}]
           made  == ~call[c].yes \/ row.checked # {}
           held  == [row EXCEPT !.status =
                        IF AllMovsDone(row) THEN "completed"
                        ELSE IF made /\ @ \in {"draft", "open"} THEN "in_progress" ELSE @]
<1>1. /\ call[c].pc = "load" /\ call[c].op = "progress"
      /\ UNCHANGED <<workflow, task, approval, left, overlaps, deaths, ever, decided, hidden>>
  BY DEF LoadProgress
<1>2. CASE End(c)
  <2>1. call' \in [Calls -> Call] /\ Only(c) /\ call'[c] = NoCall
    BY <1>2, EndTyped
  <2> QED
    BY <1>1, <2>1 DEF Dropped, TypeOK, cronVars
<1>3. CASE Hold(c, held, "save")
  <2>1. /\ task \in Row /\ task.status \in TaskStatus /\ task.checked \subseteq Movs \X Users
        /\ u \in Users /\ ticks \subseteq Movs
    BY FieldsTyped DEF TypeOK, Row
  <2>2. Merged(task.checked, u, ticks) \subseteq Movs \X Users
    BY <2>1 DEF Merged
  <2>3. /\ row \in Row /\ row.next = task.next /\ row.count = task.count
        /\ row.told = task.told /\ row.movs = task.movs
        /\ row.status = task.status
    BY <2>1, <2>2 DEF Row
  <2> HIDE DEF row
  <2>4. /\ held \in Row /\ held.next = task.next /\ held.count = task.count
        /\ held.told = task.told /\ held.movs = task.movs
        /\ \/ held.status \in {"completed", task.status}
           \/ task.status \in {"draft", "open"} /\ held.status = "in_progress"
    <3> DEFINE done == AllMovsDone(row)
    <3> HIDE DEF done, made
    <3>1. held = [row EXCEPT !.status =
                     IF done THEN "completed"
                     ELSE IF made /\ @ \in {"draft", "open"} THEN "in_progress" ELSE @]
      BY DEF done
    <3> HIDE DEF held
    <3> QED
      BY <2>1, <2>3, <3>1 DEF Row, TaskStatus
  <2> HIDE DEF held
  <2>5. /\ call' \in [Calls -> Call] /\ Only(c)
        /\ call'[c].row = held /\ call'[c].pc = "save"
        /\ call'[c].op = call[c].op /\ call'[c].user = call[c].user
        /\ call'[c].yes = call[c].yes /\ call'[c].rec = call[c].rec
        /\ call'[c].meta = call[c].meta
    BY <1>3, <2>4, HoldTyped DEF CallSteps
  <2>6. Copied(c)
    BY <1>1, <2>4, <2>5 DEF Copied
  <2>7. Fits(task.status, approval.status) => Fits(held.status, approval.status)
    <3>1. approval.status \notin {"draft", "open"}
      BY DEF TypeOK, Approval
    <3> QED
      BY <2>4, <3>1 DEF Fits
  <2>8. Fetched(c)
    BY <1>1, <2>5, <2>6, <2>7 DEF Fetched, Requests
  <2> QED
    BY <1>1, <2>5, <2>8 DEF TypeOK, cronVars
<1> QED
  BY <1>2, <1>3 DEF LoadProgress

\* The statuses a decision may lead to.
LEMMA OutcomeTyped ==
  ASSUME NEW meta, NEW yes
  PROVE  /\ Outcome(meta, yes) \in TaskStatus
         /\ Outcome(meta, yes) = "approved" => yes /\ \A u \in Approvers : meta[u] = "approved"
  BY DEF Outcome, TaskStatus

LEMMA DecideActs ==
  ASSUME TypeOK, NEW c \in Calls, Decide(c), UNCHANGED cronVars
  PROVE  TypeOK' /\ Only(c) /\ Judged(c)
<1> DEFINE meta == Voted(approval.meta, call[c].user, call[c].yes)
           to   == Outcome(meta, call[c].yes)
<1>1. /\ call[c].pc = "decide"
      /\ call' = [call EXCEPT ![c].meta = meta, ![c].row.status = to, ![c].pc = "save"]
      /\ UNCHANGED <<workflow, task, approval, left, overlaps, deaths, ever, decided, hidden>>
  BY DEF Decide, Voted
<1>2. meta \in [Approvers -> Decision]
  BY DEF Voted, TypeOK, Approval, Decision
<1>3. to \in TaskStatus
  BY OutcomeTyped
<1>4. to = Outcome(meta, call[c].yes)
  OBVIOUS
<1> HIDE DEF meta, to
<1>5. call[c].row \in Row
  BY FieldsTyped DEF TypeOK
<1>6. [call[c].row EXCEPT !.status = to] \in Row
  BY <1>3, <1>5 DEF Row
<1>7. /\ call' \in [Calls -> Call] /\ Only(c)
      /\ call'[c].pc = "save" /\ call'[c].op = call[c].op
      /\ call'[c].rec = call[c].rec /\ call'[c].meta = meta
      /\ call'[c].row = [call[c].row EXCEPT !.status = to]
  BY <1>1, <1>2, <1>6 DEF TypeOK, Only, Call, CallSteps
<1>8. Judged(c)
  BY <1>1, <1>4, <1>7 DEF Judged, meta
<1> QED
  BY <1>1, <1>7, <1>8 DEF TypeOK, cronVars

LEMMA SaveActs ==
  ASSUME TypeOK, NEW c \in Calls, Save(c), UNCHANGED cronVars
  PROVE  TypeOK' /\ Only(c) /\ Saved(c)
<1>1. /\ call[c].pc = "save" /\ call[c].op \in Requests /\ task' = call[c].row
      /\ UNCHANGED <<workflow, approval, left, overlaps, deaths, ever, decided, hidden>>
  BY DEF Save
<1>2. call[c].op # "cutoff" /\ call[c].row \in Row
  BY <1>1, FieldsTyped DEF Requests, TypeOK
<1>3. \/ call[c].op = "approve" /\ Goto(c, "read_meta")
      \/ call[c].op \in {"update", "transition"} /\ Goto(c, "read_state")
      \/ call[c].op \notin {"approve", "update", "transition"} /\ End(c)
  BY DEF Save
<1>4. /\ call' \in [Calls -> Call] /\ Only(c)
      /\ \/ call[c].op = "approve" /\ On(c, "read_meta")
         \/ call[c].op \in {"update", "transition"} /\ On(c, "read_state")
         \/ call[c].op \notin {"approve", "update", "transition"} /\ call'[c] = NoCall
  BY <1>3, GotoTyped, EndTyped DEF CallSteps
<1>5. Saved(c)
  BY <1>1, <1>2, <1>4 DEF Saved
<1> QED
  BY <1>1, <1>2, <1>4, <1>5 DEF TypeOK, cronVars

LEMMA SaveCronActs ==
  ASSUME TypeOK, NEW c \in Calls, SaveCron(c)
  PROVE  TypeOK' /\ Only(c) /\ Saved(c)
<1>1. /\ call[c].pc = "save" /\ call[c].op \in Crons /\ End(c)
      /\ task' = IF call[c].op = "cutoff" THEN [call[c].row EXCEPT !.status = "completed"]
                                          ELSE call[c].row
      /\ UNCHANGED <<workflow, approval, left, overlaps, deaths, ever, decided, hidden, cronVars>>
  BY DEF SaveCron
<1>2. call[c].op \notin {"approve", "update", "transition"} /\ call[c].row \in Row
  BY <1>1, FieldsTyped DEF Crons, TypeOK
<1>3. task' \in Row
  BY <1>1, <1>2 DEF Row, TaskStatus
<1>4. call' \in [Calls -> Call] /\ Only(c) /\ call'[c] = NoCall
  BY <1>1, EndTyped
<1>5. Saved(c)
  BY <1>1, <1>2, <1>4 DEF Saved
<1> QED
  BY <1>1, <1>3, <1>4, <1>5 DEF TypeOK, cronVars

LEMMA ReadRecordActs ==
  ASSUME TypeOK, NEW c \in Calls, ReadRecord(c), UNCHANGED cronVars
  PROVE  TypeOK' /\ Only(c) /\ Noted(c)
<1> DEFINE to == IF call[c].pc = "read_meta" THEN "save_meta" ELSE "save_state"
<1>1. /\ call[c].pc \in {"read_meta", "read_state"}
      /\ call' = [call EXCEPT ![c].rec = approval, ![c].pc = to]
      /\ UNCHANGED <<workflow, task, approval, left, overlaps, deaths, ever, decided, hidden>>
  BY DEF ReadRecord
<1>2. /\ to \in CallSteps
      /\ \/ call[c].pc = "read_meta" /\ to = "save_meta"
         \/ call[c].pc = "read_state" /\ to = "save_state"
  BY <1>1 DEF CallSteps
<1> HIDE DEF to
<1>3. /\ call' \in [Calls -> Call] /\ Only(c) /\ call'[c].pc = to
      /\ call'[c] = [call[c] EXCEPT !.rec = approval, !.pc = to]
  BY <1>1, <1>2 DEF TypeOK, Only, Call
<1>4. Noted(c)
  BY <1>1, <1>2, <1>3 DEF Noted
<1> QED
  BY <1>1, <1>3, <1>4 DEF TypeOK, cronVars

\* A record is saved in place of the one that was read, or the handler ends.
LEMMA SaveRecordActs ==
  ASSUME TypeOK, NEW c \in Calls, NEW r \in Approval, NEW pc \in CallSteps, SaveRecord(c, r, pc)
  PROVE  /\ call' \in [Calls -> Call] /\ approval' \in Approval /\ Only(c)
         /\ \/ /\ ~call[c].rec.exists /\ approval.exists
               /\ call'[c] = NoCall /\ approval' = approval
            \/ /\ approval' = [r EXCEPT !.exists = TRUE]
               /\ pc = "idle" => call'[c] = NoCall
               /\ pc # "idle" => On(c, pc)
<1>1. CASE ~call[c].rec.exists /\ approval.exists
  <2>1. End(c) /\ UNCHANGED approval
    BY <1>1 DEF SaveRecord
  <2> QED
    BY <1>1, <2>1, EndTyped DEF TypeOK
<1>2. CASE ~(~call[c].rec.exists /\ approval.exists)
  <2>1. /\ approval' = [r EXCEPT !.exists = TRUE]
        /\ pc = "idle" => End(c)
        /\ pc # "idle" => Goto(c, pc)
    BY <1>2 DEF SaveRecord
  <2>2. approval' \in Approval
    BY <2>1 DEF Approval
  <2>3. CASE pc = "idle"
    BY <2>1, <2>2, <2>3, EndTyped
  <2>4. CASE pc # "idle"
    <3>1. call' \in [Calls -> Call] /\ Only(c) /\ On(c, pc)
      BY <2>1, <2>4, GotoTyped
    <3> QED
      BY <2>1, <2>2, <2>4, <3>1
  <2> QED
    BY <2>3, <2>4
<1> QED
  BY <1>1, <1>2

LEMMA SaveMetaActs ==
  ASSUME TypeOK, NEW c \in Calls, SaveMeta(c), UNCHANGED cronVars
  PROVE  TypeOK' /\ Only(c) /\ (MetaSaved(c) \/ Dropped(c))
<1> DEFINE r  == [call[c].rec EXCEPT !.meta = call[c].meta]
           to == IF call[c].op = "approve" THEN "read_state" ELSE "save"
<1>1. /\ call[c].pc = "save_meta" /\ SaveRecord(c, r, to)
      /\ UNCHANGED <<workflow, task, left, overlaps, deaths, ever, decided, hidden>>
  BY DEF SaveMeta
<1>2. r \in Approval /\ to \in CallSteps /\ to # "idle"
  BY FieldsTyped DEF TypeOK, Approval, CallSteps
<1>3. [r EXCEPT !.exists = TRUE] = [call[c].rec EXCEPT !.meta = call[c].meta, !.exists = TRUE]
  BY FieldsTyped DEF TypeOK, Approval
<1> HIDE DEF r
<1>4. /\ call' \in [Calls -> Call] /\ approval' \in Approval /\ Only(c)
      /\ \/ /\ ~call[c].rec.exists /\ approval.exists
            /\ call'[c] = NoCall /\ approval' = approval
         \/ approval' = [r EXCEPT !.exists = TRUE] /\ On(c, to)
  <2> HIDE DEF to
  <2> QED
    BY <1>1, <1>2, SaveRecordActs
<1>5. MetaSaved(c) \/ Dropped(c)
  BY <1>1, <1>3, <1>4 DEF MetaSaved, Dropped
<1> QED
  BY <1>1, <1>4, <1>5 DEF TypeOK, cronVars

LEMMA SaveStateActs ==
  ASSUME TypeOK, NEW c \in Calls, SaveState(c), UNCHANGED cronVars
  PROVE  TypeOK' /\ Only(c) /\ (StateSaved(c) \/ Dropped(c))
<1> DEFINE status == StateOf(call[c].row.status, call[c].rec.status)
           r      == [call[c].rec EXCEPT !.status = status]
<1>1. /\ call[c].pc = "save_state" /\ SaveRecord(c, r, "idle")
      /\ UNCHANGED <<workflow, task, left, overlaps, deaths, ever, decided, hidden>>
  BY DEF SaveState
<1>2. status \in {"null", "pending_approval", "approved", "rejected"}
  BY FieldsTyped DEF TypeOK, StateOf
<1>3. call[c].rec \in Approval
  BY FieldsTyped DEF TypeOK
<1>4. r \in Approval
  <2> HIDE DEF status
  <2> QED
    BY <1>2, <1>3 DEF Approval
<1>5. [r EXCEPT !.exists = TRUE]
        = [call[c].rec EXCEPT !.status = StateOf(call[c].row.status, @), !.exists = TRUE]
  BY <1>3 DEF Approval
<1> HIDE DEF r, status
<1>6. /\ call' \in [Calls -> Call] /\ approval' \in Approval /\ Only(c) /\ call'[c] = NoCall
      /\ \/ ~call[c].rec.exists /\ approval.exists /\ approval' = approval
         \/ approval' = [r EXCEPT !.exists = TRUE]
  BY <1>1, <1>4, SaveRecordActs DEF CallSteps
<1>7. StateSaved(c) \/ Dropped(c)
  BY <1>1, <1>5, <1>6 DEF StateSaved, Dropped
<1> QED
  BY <1>1, <1>6, <1>7 DEF TypeOK, cronVars

LEMMA CrashActs ==
  ASSUME TypeOK, NEW c \in Calls, Crash(c), UNCHANGED cronVars
  PROVE  TypeOK' /\ Only(c) /\ Died(c)
<1>1. /\ call[c].pc # "idle" /\ End(c) /\ deaths < MaxDeaths /\ deaths' = deaths + 1
      /\ UNCHANGED <<workflow, task, approval, left, overlaps, ever, decided, hidden>>
  BY DEF Crash, Running
<1>2. call' \in [Calls -> Call] /\ Only(c) /\ call'[c] = NoCall
  BY <1>1, EndTyped
<1>3. deaths' \in 0 .. MaxDeaths
  BY <1>1, TaskAssumption DEF TypeOK
<1> QED
  BY <1>1, <1>2, <1>3 DEF Died, TypeOK, cronVars

LEMMA SendActs ==
  ASSUME TypeOK, NEW c \in Calls, Send(c)
  PROVE  TypeOK' /\ Only(c) /\ (Mailed(c) \/ Dropped(c))
<1>1. /\ call[c].pc = "send"
      /\ UNCHANGED <<workflow, task, approval, left, overlaps, deaths, ever, decided, hidden,
                     ending, dated, beside, day, hour, fired, children>>
  BY DEF Send
<1>2. CASE End(c) /\ UNCHANGED mails
  <2>1. call' \in [Calls -> Call] /\ Only(c) /\ call'[c] = NoCall
    BY <1>2, EndTyped
  <2> QED
    BY <1>1, <1>2, <2>1 DEF Dropped, TypeOK, cronVars
<1>3. CASE /\ call' = [call EXCEPT ![c].row.told = TRUE, ![c].pc = "save"]
           /\ mails' = mails + 1
  <2>1. call[c].row \in Row
    BY FieldsTyped DEF TypeOK
  <2> DEFINE to == [call[c] EXCEPT !.row.told = TRUE, !.pc = "save"]
  <2>2. call' = [call EXCEPT ![c] = to]
    BY <1>3 DEF TypeOK
  <2>5. to \in Call
    <3>1. call[c] \in Call /\ [call[c].row EXCEPT !.told = TRUE] \in Row
      BY <2>1 DEF TypeOK, Row
    <3>2. to = [call[c] EXCEPT !.row = [call[c].row EXCEPT !.told = TRUE], !.pc = "save"]
      OBVIOUS
    <3> QED
      BY <3>1, <3>2 DEF Call, CallSteps
  <2>3. /\ call' \in [Calls -> Call] /\ Only(c)
        /\ call'[c] = [call[c] EXCEPT !.row.told = TRUE, !.pc = "save"]
    BY <2>2, <2>5 DEF TypeOK, Only
  <2>4. mails' \in Nat
    BY <1>3 DEF TypeOK
  <2> QED
    BY <1>1, <1>3, <2>3, <2>4 DEF Mailed, TypeOK
<1> QED
  BY <1>2, <1>3 DEF Send

\* The row after an occurrence.
LEMMA AdvancedTyped ==
  ASSUME NEW row \in Row
  PROVE  LET r == Advanced(row)
         IN  /\ r \in Row /\ r.movs = row.movs /\ r.told = row.told /\ r.status = row.status
             /\ r.next \in {0, row.next + 1} /\ r.count = row.count + 1
<1> DEFINE r == [row EXCEPT !.next = @ + 1, !.count = @ + 1]
<1>1. /\ r \in Row /\ r.movs = row.movs /\ r.told = row.told /\ r.status = row.status
      /\ r.next = row.next + 1 /\ r.count = row.count + 1
  <2> DEFINE n == row.next + 1
             m == row.count + 1
  <2>1. n \in Nat /\ m \in Nat
    BY DEF Row
  <2>2. r = [row EXCEPT !.next = n, !.count = m]
    BY DEF Row
  <2> HIDE DEF n, m
  <2>3. /\ r \in Row /\ r.movs = row.movs /\ r.told = row.told /\ r.status = row.status
        /\ r.next = n /\ r.count = m
    BY <2>1, <2>2 DEF Row
  <2> QED
    BY <2>3 DEF n, m
<1>2. Advanced(row) = r \/ Advanced(row) = [r EXCEPT !.next = 0]
  BY DEF Advanced
<1> HIDE DEF r
<1> QED
  BY <1>1, <1>2 DEF Row

LEMMA CreateActs ==
  ASSUME TypeOK, NEW c \in Calls, Create(c)
  PROVE  TypeOK' /\ Only(c) /\ (Bred(c) \/ Dropped(c))
<1> DEFINE row == call[c].row
<1>1. /\ call[c].pc = "create"
      /\ UNCHANGED <<workflow, task, approval, left, overlaps, deaths, ever, decided, hidden,
                     ending, dated, beside, day, hour, fired, mails>>
  BY DEF Create
<1>2. row \in Row
  BY FieldsTyped DEF TypeOK
<1>3. CASE End(c) /\ UNCHANGED children
  <2>1. call' \in [Calls -> Call] /\ Only(c) /\ call'[c] = NoCall
    BY <1>3, EndTyped
  <2> QED
    BY <1>1, <1>3, <2>1 DEF Dropped, TypeOK, cronVars
<1>4. CASE call' = [call EXCEPT ![c].row.next = 0, ![c].pc = "save"] /\ UNCHANGED children
  <2>1. [row EXCEPT !.next = 0] \in Row
    BY <1>2 DEF Row
  <2>2. /\ call' \in [Calls -> Call] /\ Only(c)
        /\ call'[c].pc = "save" /\ call'[c].op = call[c].op
        /\ call'[c].rec = call[c].rec /\ call'[c].meta = call[c].meta
        /\ call'[c].row = [row EXCEPT !.next = 0]
    <3> DEFINE to == [row EXCEPT !.next = 0]
    <3>1. call' = [call EXCEPT ![c] = [call[c] EXCEPT !.row = to, !.pc = "save"]]
      BY <1>4 DEF TypeOK
    <3>2. to \in Row /\ call[c] \in Call
      BY <2>1 DEF TypeOK
    <3> HIDE DEF to
    <3>3. [call[c] EXCEPT !.row = to, !.pc = "save"] \in Call
      BY <3>2 DEF Call, CallSteps
    <3>4. call' \in [Calls -> Call] /\ Only(c) /\ call'[c] = [call[c] EXCEPT !.row = to, !.pc = "save"]
      BY <3>1, <3>3 DEF TypeOK, Only
    <3> QED
      BY <3>2, <3>4 DEF Call, to
  <2>3. /\ call'[c].row.movs = row.movs /\ call'[c].row.told = row.told
        /\ call'[c].row.status = row.status /\ call'[c].row.next = 0
    BY <1>2, <2>2 DEF Row
  <2>4. Bred(c)
    BY <1>1, <1>4, <2>2, <2>3 DEF Bred
  <2> QED
    BY <1>1, <1>4, <2>2, <2>4 DEF TypeOK
<1>5. CASE /\ ~dated /\ ~Over(row)
           /\ children' = [children EXCEPT ![row.next] = @ + 1]
           /\ call' = [call EXCEPT ![c].row = Advanced(row), ![c].pc = "save"]
  <2> DEFINE to == Advanced(row)
  <2>1. /\ to \in Row /\ to.movs = row.movs /\ to.told = row.told /\ to.status = row.status
        /\ to.next \in {0, row.next + 1} /\ to.count = row.count + 1
    BY <1>2, AdvancedTyped
  <2> HIDE DEF to
  <2>2. /\ call' \in [Calls -> Call] /\ Only(c)
        /\ call'[c].pc = "save" /\ call'[c].op = call[c].op
        /\ call'[c].rec = call[c].rec /\ call'[c].meta = call[c].meta
        /\ call'[c].row = to
    <3>1. call' = [call EXCEPT ![c].row = to, ![c].pc = "save"]
      BY <1>5 DEF to
    <3>2. call[c] \in Call
      BY DEF TypeOK
    <3>3. [call[c] EXCEPT !.row = to, !.pc = "save"] \in Call
      BY <2>1, <3>2 DEF Call, CallSteps
    <3>4. call' \in [Calls -> Call] /\ Only(c) /\ call'[c] = [call[c] EXCEPT !.row = to, !.pc = "save"]
      BY <3>1, <3>3 DEF TypeOK, Only
    <3> QED
      BY <3>2, <3>4 DEF Call
  <2>3. Bred(c)
    BY <1>1, <1>5, <2>1, <2>2 DEF Bred
  <2>4. children' \in [Dates -> Nat]
    <3>1. ASSUME NEW n PROVE [children EXCEPT ![n] = @ + 1] \in [Dates -> Nat]
      <4>1. children \in [Dates -> Nat]
        BY DEF TypeOK
      <4>2. CASE n \in Dates
        <5>1. children[n] + 1 \in Nat
          BY <4>1, <4>2
        <5> QED
          BY <4>1, <4>2, <5>1
      <4>3. CASE n \notin Dates
        BY <4>1, <4>3
      <4> QED
        BY <4>2, <4>3
    <3> QED
      BY <1>5, <3>1
  <2> QED
    BY <1>1, <2>2, <2>3, <2>4 DEF TypeOK
<1> QED
  BY <1>3, <1>4, <1>5 DEF Create

\* Every step of a call has its effect.
LEMMA CallActs ==
  ASSUME TypeOK, NEW c \in Calls,
         \/ Request(c) /\ UNCHANGED cronVars
         \/ Cron(c)
         \/ Step(c)
         \/ Crash(c) /\ UNCHANGED cronVars
  PROVE  TypeOK' /\ Effect(c)
<1>1. CASE RequestStep(c) /\ UNCHANGED cronVars
  BY <1>1, ConfirmActs, LoadUpdateActs, LoadAssignActs, LoadReassignActs, LoadCompleteActs,
     LoadProgressActs, LoadApproveActs, DecideActs, SaveActs, ReadRecordActs, SaveMetaActs,
     SaveStateActs, Zenon DEF RequestStep, Effect
<1>2. CASE Send(c) \/ Create(c) \/ SaveCron(c)
  BY <1>2, SendActs, CreateActs, SaveCronActs, Zenon DEF Effect
<1>3. CASE \/ Request(c) /\ UNCHANGED cronVars
           \/ Cron(c)
           \/ Crash(c) /\ UNCHANGED cronVars
  BY <1>3, RequestActs, CronActs, CrashActs, Zenon DEF Effect
<1> QED
  BY <1>1, <1>2, <1>3, Zenon DEF Step

\* The clock moves on.
LEMMA ClockActs ==
  ASSUME TypeOK, Clock
  PROVE  /\ TypeOK'
         /\ day <= day'
         /\ \A c \in Calls : call[c].op # "overdue"
         /\ UNCHANGED <<task, approval, call, overlaps, deaths, ever, decided, hidden,
                        children, mails>>
<1>1. /\ UNCHANGED <<workflow, task, approval, call, left, overlaps, deaths, ever, decided,
                     hidden, ending, dated, beside, children, mails>>
      /\ fired' \in BOOLEAN
      /\ \A c \in Calls : call[c].op # "overdue"
  BY DEF Clock, workflowVars
<1>2. day' \in 1 .. Days /\ day <= day' /\ hour' \in 1 .. 3
  BY CronAssumption DEF Clock, TypeOK
<1> QED
  BY <1>1, <1>2 DEF TypeOK

-----------------------------------------------------------------------------
(* Each part of the invariant is kept.                                     *)

\* What a mail leaves in its copy.
LEMMA MailedRow ==
  ASSUME TypeOK, NEW c \in Calls, Mailed(c)
  PROVE  /\ call'[c].pc = "save" /\ call'[c].op = call[c].op
         /\ call'[c].rec = call[c].rec /\ call'[c].meta = call[c].meta
         /\ call'[c].row.status = call[c].row.status /\ call'[c].row.told = TRUE
         /\ call'[c].row.next = call[c].row.next /\ call'[c].row.movs = call[c].row.movs
         /\ call'[c].row.count = call[c].row.count
<1> DEFINE row == [call[c].row EXCEPT !.told = TRUE]
<1>1. call[c] \in Call /\ call[c].row \in Row
  BY FieldsTyped DEF TypeOK
<1>2. /\ row.next = call[c].row.next /\ row.movs = call[c].row.movs
      /\ row.count = call[c].row.count /\ row.status = call[c].row.status /\ row.told = TRUE
  BY <1>1 DEF Row
<1>3. call'[c] = [call[c] EXCEPT !.row = row, !.pc = "save"]
  BY DEF Mailed
<1> HIDE DEF row
<1> QED
  BY <1>1, <1>2, <1>3 DEF Call

\* The row a decision was made on.
LEMMA JudgedRow ==
  ASSUME TypeOK, NEW c \in Calls, Judged(c)
  PROVE  /\ call'[c].row.next = call[c].row.next /\ call'[c].row.movs = call[c].row.movs
         /\ call'[c].row.told = call[c].row.told /\ call'[c].row.count = call[c].row.count
         /\ call'[c].row.status = Outcome(call'[c].meta, call[c].yes)
  BY FieldsTyped DEF TypeOK, Judged, Row

\* Where the handlers are.
LEMMA PlacesKept ==
  ASSUME TypeOK, PlacesOK, NEW c \in Calls, Effect(c)
  PROVE  PlacesOK'
<1>1. call[c] \in Call /\ PlaceOK(c)
  BY DEF TypeOK, PlacesOK
<1>2. PlaceOK(c)'
  <2>1. CASE Asked(c) \/ Scheduled(c)
    BY <2>1 DEF Asked, Scheduled, PlaceOK, NoCall, Requests
  <2>2. CASE Dropped(c) \/ Died(c) \/ StateSaved(c)
    BY <2>2 DEF Dropped, Died, StateSaved, PlaceOK, NoCall
  <2>3. CASE Confirmed(c)
    BY <1>1, <2>3 DEF Confirmed, On, PlaceOK, Call
  <2>4. CASE Fetched(c)
    BY <1>1, <2>4 DEF Fetched, Copied, PlaceOK, Requests
  <2>5. CASE Taken(c)
    BY <1>1, <2>5 DEF Taken, Copied, PlaceOK
  <2>6. CASE Judged(c)
    BY <1>1, <2>6 DEF Judged, PlaceOK
  <2>7. CASE Saved(c)
    BY <1>1, <2>7 DEF Saved, On, PlaceOK, Call, NoCall
  <2>8. CASE Noted(c)
    BY <1>1, <2>8 DEF Noted, PlaceOK, Call
  <2>9. CASE MetaSaved(c)
    BY <1>1, <2>9 DEF MetaSaved, On, PlaceOK, Call
  <2>10. CASE Mailed(c)
    <3>1. /\ call[c].pc = "send" /\ call'[c].pc = "save" /\ call'[c].op = call[c].op
          /\ call'[c].meta = call[c].meta /\ call'[c].row.told
      BY <2>10, MailedRow DEF Mailed
    <3> QED
      BY <1>1, <3>1 DEF PlaceOK
  <2>11. CASE Bred(c)
    BY <1>1, <2>11 DEF Bred, PlaceOK
  <2> QED
    BY <2>1, <2>2, <2>3, <2>4, <2>5, <2>6, <2>7, <2>8, <2>9, <2>10, <2>11 DEF Effect
<1>3. ASSUME NEW d \in Calls, d # c PROVE PlaceOK(d)'
  BY <1>3 DEF PlacesOK, PlaceOK, Effect, Only
<1> QED
  BY <1>2, <1>3 DEF PlacesOK

\* Who runs alone.
LEMMA AloneKept ==
  ASSUME TypeOK, Alone, NEW c \in Calls, Effect(c)
  PROVE  Alone'
<1> SUFFICES ASSUME overlaps' = 0, NEW d \in Calls, NEW e \in Calls,
                    Running(d)', Running(e)'
             PROVE  d = e
  BY DEF Alone
<1>1. \A x \in Calls \ {c} : call'[x] = call[x]
  BY DEF Effect, Only
<1>2. CASE Asked(c) \/ Scheduled(c)
  <2>1. Quiet
    BY <1>2 DEF Asked, Scheduled, Joined, TypeOK
  <2> QED
    BY <1>1, <2>1 DEF Quiet, Running
<1>3. CASE ~(Asked(c) \/ Scheduled(c))
  <2>1. overlaps' = overlaps /\ call[c].pc # "idle"
    BY <1>3 DEF Effect, Confirmed, Dropped, Died, Fetched, Taken, Copied, Judged, Saved, Noted,
                MetaSaved, StateSaved, Mailed, Bred
  <2>2. Running(d) /\ Running(e)
    BY <1>1, <2>1 DEF Running
  <2> QED
    BY <2>1, <2>2 DEF Alone
<1> QED
  BY <1>2, <1>3

\* Which rows are sound stays sound: more is cut and more dates are inserted.
LEMMA RowKept ==
  ASSUME NEW r, NEW cut, NEW cut2, cut => cut2, NEW ins \in [Dates -> Nat], NEW ins2,
         \A d \in Dates : ins[d] > 0 => ins2[d] > 0,
         RowOK(r, cut, ins)
  PROVE  RowOK(r, cut2, ins2)
  BY DEF RowOK

\* Sound is a matter of the checklist and the next date.
LEMMA RowSame ==
  ASSUME NEW r, NEW r2, NEW cut, NEW ins, RowOK(r, cut, ins),
         r2.movs = r.movs, r2.next = r.next
  PROVE  RowOK(r2, cut, ins)
  BY DEF RowOK

\* What a step inserts.
LEMMA DatesGrow ==
  ASSUME TypeOK, NEW c \in Calls, Effect(c)
  PROVE  /\ hidden => hidden'
         /\ \A d \in Dates : children[d] > 0 => children'[d] > 0
         /\ day' = day
<1>1. CASE Bred(c)
  <2>1. \A d \in Dates : children[d] \in Nat
    BY DEF TypeOK
  <2>2. PICK n : children' = children \/ children' = [children EXCEPT ![n] = @ + 1]
    BY <1>1 DEF Bred
  <2> QED
    BY <1>1, <2>1, <2>2 DEF Bred, TypeOK
<1>2. CASE ~Bred(c)
  BY <1>2 DEF Effect, Asked, Scheduled, Confirmed, Dropped, Died, Fetched, Taken, Copied, Judged,
     Saved, Noted, MetaSaved, StateSaved, Mailed, cronVars
<1> QED
  BY <1>1, <1>2

\* The copies of the row.
LEMMA CopiesKept ==
  ASSUME TypeOK, PlacesOK, CopiesOK, NEW c \in Calls, Effect(c)
  PROVE  CopiesOK'
<1> DEFINE OK(r) == RowOK(r, hidden', children')
<1>1. /\ hidden => hidden'
      /\ \A d \in Dates : children[d] > 0 => children'[d] > 0
      /\ day' = day
  BY DatesGrow
<1>2. children \in [Dates -> Nat] /\ call[c] \in Call /\ call[c].row \in Row /\ task \in Row
  BY FieldsTyped DEF TypeOK
<1>3. OK(task) /\ \A x \in Calls : OK(call[x].row)
  <2>1. ASSUME NEW r, RowOK(r, hidden, children) PROVE OK(r)
    BY <1>1, <1>2, <2>1, RowKept
  <2> HIDE DEF OK
  <2> QED
    BY <2>1 DEF CopiesOK
<1>4. \A r, r2 : OK(r) /\ r2.movs = r.movs /\ r2.next = r.next => OK(r2)
  BY RowSame
<1>5. OK(NoCall.row)
  BY DEF RowOK, NoCall, FreshRow
<1>6. /\ OK(task') /\ OK(call'[c].row)
      /\ call'[c].pc = "create" => call'[c].row.next \in First .. day
  <2>1. CASE Asked(c) \/ Dropped(c) \/ Died(c) \/ StateSaved(c)
    <3>1. task' = task /\ call'[c].row = NoCall.row /\ call'[c].pc # "create"
      BY <2>1 DEF Asked, Dropped, Died, StateSaved, NoCall
    <3> HIDE DEF OK
    <3> QED
      BY <1>3, <1>5, <3>1
  <2>2. CASE Scheduled(c)
    <3>1. task' = task /\ call'[c].row = task
      BY <2>2 DEF Scheduled
    <3>2. call'[c].pc = "create" => task.next # 0 /\ task.next <= day
      BY <2>2 DEF Scheduled
    <3>3. call'[c].pc = "create" => call'[c].row.next \in First .. day
      BY <1>2, <3>1, <3>2 DEF CopiesOK, RowOK, TypeOK, Row, First
    <3> HIDE DEF OK
    <3> QED
      BY <1>3, <3>1, <3>3
  <2>3. CASE Confirmed(c) \/ Noted(c) \/ MetaSaved(c)
    <3>1. task' = task /\ call'[c].row = call[c].row /\ call'[c].pc # "create"
      BY <1>2, <2>3 DEF Confirmed, Noted, MetaSaved, On, Call
    <3> HIDE DEF OK
    <3> QED
      BY <1>3, <3>1
  <2>4. CASE Fetched(c) \/ Taken(c)
    <3>1. task' = task /\ call'[c].row.next = task.next /\ call'[c].pc # "create"
          /\ (~hidden' => call'[c].row.movs = task.movs)
      BY <2>4 DEF Fetched, Taken, Copied
    <3>2. OK(call'[c].row)
      BY <1>3, <3>1 DEF RowOK
    <3> HIDE DEF OK
    <3> QED
      BY <1>3, <3>1, <3>2
  <2>5. CASE Judged(c) \/ Mailed(c)
    <3>1. task' = task /\ call'[c].row.next = call[c].row.next /\ call'[c].pc # "create"
          /\ call'[c].row.movs = call[c].row.movs
      <4>1. CASE Judged(c)
        BY <1>2, <4>1 DEF Judged, Row
      <4>2. CASE Mailed(c)
        <5> DEFINE row == [call[c].row EXCEPT !.told = TRUE]
        <5>1. row.next = call[c].row.next /\ row.movs = call[c].row.movs
          BY <1>2 DEF Row
        <5>2. call'[c].row = row /\ call'[c].pc = "save" /\ task' = task
          <6> HIDE DEF row
          <6>1. call'[c] = [call[c] EXCEPT !.row = row, !.pc = "save"]
            BY <4>2 DEF Mailed, row
          <6> QED
            BY <1>2, <4>2, <6>1 DEF Mailed, Call
        <5> HIDE DEF row
        <5> QED
          BY <5>1, <5>2
      <4> QED
        BY <2>5, <4>1, <4>2
    <3> HIDE DEF OK
    <3> QED
      BY <1>3, <1>4, <3>1
  <2>6. CASE Saved(c)
    <3>1. task'.next = call[c].row.next /\ task'.movs = call[c].row.movs /\ call'[c].pc # "create"
          /\ (call'[c].row = call[c].row \/ call'[c].row = NoCall.row)
      BY <1>2, <2>6 DEF Saved, On, Call, Row, NoCall
    <3> HIDE DEF OK
    <3> QED
      BY <1>3, <1>4, <1>5, <3>1
  <2>7. CASE Bred(c)
    <3>1. /\ task' = task /\ call'[c].row.movs = call[c].row.movs /\ call'[c].pc = "save"
          /\ hidden' = hidden
          /\ \/ call'[c].row.next = 0
             \/ /\ call'[c].row.next \in {0, call[c].row.next + 1}
                /\ children' = [children EXCEPT ![call[c].row.next] = @ + 1]
      BY <2>7 DEF Bred
    <3>2. CASE call'[c].row.next = 0
      <4>1. OK(call'[c].row)
        BY <1>3, <3>1, <3>2 DEF RowOK
      <4> HIDE DEF OK
      <4> QED
        BY <1>3, <3>1, <4>1
    <3>3. CASE call'[c].row.next # 0
      <4> DEFINE n == call[c].row.next
      <4>1. n \in First .. day /\ day \in 1 .. Days
        BY <2>7 DEF Bred, CopiesOK, TypeOK
      <4>2. n \in Dates /\ n # 0 /\ n \in Nat
        BY <4>1, CronAssumption DEF Dates, First
      <4>3. \A d \in Dates : d < n => children'[d] > 0
        BY <1>3, <4>2 DEF RowOK
      <4>4. children'[n] > 0
        BY <1>2, <3>1, <3>3, <4>2
      <4>5. \A d \in Dates : d < n + 1 => children'[d] > 0
        <5>1. \A d \in Dates : d \in Nat
          BY CronAssumption DEF Dates, First
        <5> QED
          BY <4>2, <4>3, <4>4, <5>1
      <4>6. call'[c].row.next = n + 1 /\ n + 1 >= First
        BY <3>1, <3>3, <4>1, <4>2 DEF First
      <4>7. OK(call'[c].row)
        BY <1>3, <3>1, <4>5, <4>6 DEF RowOK
      <4> HIDE DEF OK
      <4> QED
        BY <1>3, <3>1, <4>7
    <3> QED
      BY <3>2, <3>3
  <2> QED
    BY <2>1, <2>2, <2>3, <2>4, <2>5, <2>6, <2>7, Zenon DEF Effect
<1>7. ASSUME NEW d \in Calls
      PROVE  OK(call'[d].row) /\ (call'[d].pc = "create" => call'[d].row.next \in First .. day)
  <2>1. CASE d = c
    BY <1>6, <2>1
  <2>2. CASE d # c
    <3>1. call'[d] = call[d]
      BY <2>2 DEF Effect, Only
    <3>2. call[d].pc = "create" => call[d].row.next \in First .. day
      BY DEF CopiesOK
    <3> HIDE DEF OK
    <3> QED
      BY <1>3, <3>1, <3>2
  <2> QED
    BY <2>1, <2>2
<1> QED
  BY <1>1, <1>6, <1>7 DEF CopiesOK

\* No date is skipped.
LEMMA DatesKept ==
  ASSUME TypeOK, CopiesOK, NoDateSkipped, NEW c \in Calls, Effect(c)
  PROVE  NoDateSkipped'
<1>1. \A d \in Dates : children[d] > 0 => children'[d] > 0
  BY DatesGrow
<1>2. \A d \in Dates : d \in Nat /\ children[d] \in Nat /\ (d > First => d - 1 \in Dates)
  BY CronAssumption DEF Dates, First, TypeOK
<1>3. ASSUME NEW d \in Dates, children'[d] > 0, d > First PROVE children'[d - 1] > 0
  <2>1. CASE children[d] > 0
    BY <1>1, <1>2, <1>3, <2>1 DEF NoDateSkipped
  <2>2. CASE ~(children[d] > 0)
    <3>1. children' # children
      BY <1>3, <2>2
    <3>2. CASE Bred(c)
      <4>1. children' = [children EXCEPT ![call[c].row.next] = @ + 1]
        BY <3>1, <3>2 DEF Bred
      <4>2. call[c].row.next = d
        BY <1>3, <2>2, <4>1 DEF TypeOK
      <4>3. RowOK(call[c].row, hidden, children)
        BY DEF CopiesOK
      <4>4. children[d - 1] > 0
        BY <1>2, <1>3, <4>2, <4>3 DEF RowOK, First
      <4> QED
        BY <1>1, <1>2, <1>3, <4>4
    <3>3. CASE ~Bred(c)
      BY <3>1, <3>3 DEF Effect, Asked, Scheduled, Confirmed, Dropped, Died, Fetched, Taken, Copied,
         Judged, Saved, Noted, MetaSaved, StateSaved, Mailed, cronVars
    <3> QED
      BY <3>2, <3>3
  <2> QED
    BY <2>1, <2>2
<1> QED
  BY <1>3 DEF NoDateSkipped

\* Decisions that are backed by a smaller history are backed by a larger one.
LEMMA BackedKept ==
  ASSUME NEW meta, Backed(meta), ever \subseteq ever'
  PROVE  \A u \in Approvers : meta[u] = "approved" => u \in ever'
  BY DEF Backed

\* The approvals.
LEMMA ApprovalsKept ==
  ASSUME TypeOK, PlacesOK, ApprovalsBacked, NEW c \in Calls, Effect(c)
  PROVE  ApprovalsBacked'
<1> DEFINE OK(meta) == \A u \in Approvers : meta[u] = "approved" => u \in ever'
<1>1. ever \subseteq ever'
  BY DEF Effect, Asked, Scheduled, Confirmed, Dropped, Died, Fetched, Taken, Judged,
     Saved, Noted, MetaSaved, StateSaved, Mailed, Bred
<1>2. OK(approval.meta) /\ \A x \in Calls : OK(call[x].rec.meta) /\ OK(call[x].meta)
  BY <1>1 DEF ApprovalsBacked, Backed
<1>3. OK(NoCall.rec.meta) /\ OK(NoCall.meta) /\ OK(Pending) /\ OK(NoApproval.meta)
  BY DEF NoCall, NoApproval, Pending
<1>4. /\ call[c] \in Call /\ call[c].rec \in Approval /\ approval \in Approval
      /\ call[c].user \in Users /\ PlaceOK(c)
  BY FieldsTyped DEF TypeOK, PlacesOK
<1> DEFINE Sound(k) == /\ OK(k.rec.meta) /\ OK(k.meta)
                       /\ k.pc = "decide" /\ k.yes /\ k.user \in Approvers => k.user \in ever'
                       /\ k.op = "approve" /\ k.pc = "save" /\ k.row.status = "approved" =>
                             Approvers \subseteq ever'
<1>5. \A x \in Calls : Sound(call[x])
  BY <1>1, <1>2 DEF ApprovalsBacked
<1>6. Sound(NoCall)
  BY <1>3 DEF NoCall
<1>7. OK(approval'.meta) /\ Sound(call'[c])
  <2>1. CASE Asked(c) \/ Scheduled(c)
    <3>1. /\ approval' = approval /\ call'[c].rec = NoApproval /\ call'[c].meta = Pending
          /\ \/ call'[c].pc # "decide" /\ call'[c].op # "approve"
             \/ call'[c].pc \in {"load", "confirm"}
      BY <2>1 DEF Asked, Scheduled
    <3> QED
      BY <1>2, <1>3, <3>1
  <2>2. CASE Dropped(c) \/ Died(c)
    BY <1>2, <1>6, <2>2 DEF Dropped, Died
  <2>3. CASE Confirmed(c)
    <3>1. /\ approval' = approval /\ call'[c].rec = call[c].rec /\ call'[c].meta = call[c].meta
          /\ call'[c].pc = "load"
      BY <1>4, <2>3 DEF Confirmed, On, Call
    <3> QED
      BY <1>2, <3>1
  <2>4. CASE Fetched(c)
    <3>1. /\ approval' = approval /\ call'[c].rec = call[c].rec /\ call'[c].meta = call[c].meta
          /\ call'[c].pc # "decide" /\ call'[c].op # "approve"
      BY <2>4 DEF Fetched, Copied
    <3> QED
      BY <1>2, <3>1
  <2>5. CASE Taken(c)
    <3>1. /\ approval' = approval /\ call'[c].rec = call[c].rec /\ call'[c].meta = call[c].meta
          /\ call'[c].pc = "decide"
          /\ call'[c].yes /\ call'[c].user \in Approvers => call'[c].user \in ever'
      BY <2>5 DEF Taken, Copied
    <3> QED
      BY <1>2, <3>1
  <2>6. CASE Judged(c)
    <3> DEFINE meta == call'[c].meta
    <3>1. /\ approval' = approval /\ call'[c].rec = call[c].rec /\ call'[c].pc = "save"
          /\ meta = Voted(approval.meta, call[c].user, call[c].yes)
      BY <2>6 DEF Judged
    <3>2. OK(meta)
      <4>1. call[c].yes /\ call[c].user \in Approvers => call[c].user \in ever'
        BY <1>1, <2>6 DEF Judged, ApprovalsBacked
      <4>2. ASSUME NEW u \in Approvers, meta[u] = "approved" PROVE u \in ever'
        BY <1>2, <3>1, <4>1, <4>2 DEF Voted
      <4> QED
        BY <4>2
    <3>3. call'[c].row.status = "approved" => \A u \in Approvers : meta[u] = "approved"
      BY <2>6, JudgedRow, OutcomeTyped
    <3>4. call'[c].row.status = "approved" => Approvers \subseteq ever'
      BY <3>2, <3>3
    <3> QED
      BY <1>2, <3>1, <3>2, <3>4
  <2>7. CASE Saved(c)
    <3>1. approval' = approval /\ call'[c].pc # "save" /\ call'[c].pc # "decide"
          /\ (call'[c] = NoCall \/ (call'[c].rec = call[c].rec /\ call'[c].meta = call[c].meta))
      BY <1>4, <2>7 DEF Saved, On, Call, NoCall
    <3> QED
      BY <1>2, <1>6, <3>1
  <2>8. CASE Noted(c)
    <3>1. approval' = approval /\ call'[c].pc # "save" /\ call'[c].pc # "decide"
          /\ call'[c].rec = approval /\ call'[c].meta = call[c].meta
      BY <1>4, <2>8 DEF Noted, Call
    <3> QED
      BY <1>2, <3>1
  <2>9. CASE MetaSaved(c)
    <3>1. /\ approval'.meta = call[c].meta /\ call'[c].pc # "decide"
          /\ call'[c].pc = "save" => call'[c].op # "approve"
          /\ call'[c].rec = call[c].rec /\ call'[c].meta = call[c].meta
      BY <1>4, <2>9 DEF MetaSaved, On, Call, Approval
    <3> QED
      BY <1>2, <3>1
  <2>10. CASE StateSaved(c)
    <3>1. approval'.meta = call[c].rec.meta /\ call'[c] = NoCall
      BY <1>4, <2>10 DEF StateSaved, Approval
    <3> QED
      BY <1>2, <1>6, <3>1
  <2>11. CASE Mailed(c) \/ Bred(c)
    <3>1. /\ approval' = approval /\ call'[c].rec = call[c].rec /\ call'[c].meta = call[c].meta
          /\ call'[c].pc = "save" /\ call'[c].op = call[c].op /\ call[c].op # "approve"
      BY <1>4, <2>11, MailedRow DEF Mailed, Bred, PlaceOK
    <3> QED
      BY <1>2, <3>1
  <2> HIDE DEF OK, Sound
  <2> QED
    BY <2>1, <2>2, <2>3, <2>4, <2>5, <2>6, <2>7, <2>8, <2>9, <2>10, <2>11, Zenon DEF Effect
<1>8. ASSUME NEW d \in Calls PROVE Sound(call'[d])
  <2>1. CASE d # c
    <3>1. call'[d] = call[d]
      BY <2>1 DEF Effect, Only
    <3> HIDE DEF Sound
    <3> QED
      BY <1>5, <3>1
  <2> QED
    BY <1>7, <2>1
<1> QED
  BY <1>7, <1>8 DEF ApprovalsBacked, Backed

\* Beside a handler that acts without an overlap no other one runs.
LEMMA OthersIdle ==
  ASSUME TypeOK, Alone, NEW c \in Calls, Effect(c), overlaps' = 0
  PROVE  /\ overlaps = 0
         /\ \A d \in Calls \ {c} : call[d].pc = "idle" /\ call'[d] = call[d]
<1>1. \A d \in Calls \ {c} : call'[d] = call[d]
  BY DEF Effect, Only
<1>2. CASE Asked(c) \/ Scheduled(c)
  BY <1>1, <1>2 DEF Asked, Scheduled, Joined, Quiet, Running, TypeOK
<1>3. CASE ~(Asked(c) \/ Scheduled(c))
  <2>1. overlaps' = overlaps /\ call[c].pc # "idle"
    BY <1>3 DEF Effect, Confirmed, Dropped, Died, Fetched, Taken, Copied, Judged, Saved, Noted,
                MetaSaved, StateSaved, Mailed, Bred
  <2> QED
    BY <1>1, <2>1 DEF Alone, Running
<1> QED
  BY <1>2, <1>3

\* Final tasks and the handlers that look at the status.
LEMMA FinalsKept ==
  ASSUME TypeOK, PlacesOK, Alone, FinalsOK, NEW c \in Calls, Effect(c)
  PROVE  FinalsOK'
<1> SUFFICES ASSUME overlaps' = 0 PROVE \A d \in Calls : FinalOK(d)'
  BY DEF FinalsOK
<1>1. overlaps = 0 /\ \A d \in Calls \ {c} : call[d].pc = "idle" /\ call'[d] = call[d]
  BY OthersIdle
<1>2. call[c] \in Call /\ PlaceOK(c) /\ FinalOK(c)
  BY <1>1 DEF TypeOK, PlacesOK, FinalsOK
<1>3. FinalOK(c)'
  <2>1. CASE Asked(c)
    BY <2>1 DEF Asked, FinalOK
  <2>2. CASE Scheduled(c)
    BY <2>2 DEF Scheduled, FinalOK, Ended, Final
  <2>3. CASE Confirmed(c)
    BY <1>2, <2>3 DEF Confirmed, On, Call, FinalOK
  <2>4. CASE Dropped(c) \/ Died(c) \/ StateSaved(c)
    BY <2>4 DEF Dropped, Died, StateSaved, FinalOK, NoCall
  <2>5. CASE Fetched(c)
    BY <2>5 DEF Fetched, Copied, FinalOK, Requests
  <2>6. CASE Taken(c)
    BY <2>6 DEF Taken, FinalOK
  <2>7. CASE Judged(c)
    BY <1>2, <2>7 DEF Judged, FinalOK, PlaceOK
  <2>8. CASE Saved(c)
    BY <1>2, <2>8 DEF Saved, On, Call, NoCall, FinalOK
  <2>9. CASE Noted(c)
    BY <1>2, <2>9 DEF Noted, Call, FinalOK
  <2>10. CASE MetaSaved(c)
    BY <1>2, <2>10 DEF MetaSaved, On, Call, FinalOK
  <2>11. CASE Mailed(c)
    BY <1>2, <2>11, MailedRow DEF Mailed, FinalOK
  <2>12. CASE Bred(c)
    BY <1>2, <2>12 DEF Bred, FinalOK
  <2> QED
    BY <2>1, <2>2, <2>3, <2>4, <2>5, <2>6, <2>7, <2>8, <2>9, <2>10, <2>11, <2>12, Zenon DEF Effect
<1> QED
  BY <1>1, <1>3 DEF FinalOK

\* What the record is left with fits the task.
LEMMA StateFits ==
  ASSUME NEW status, NEW noted
  PROVE  Fits(status, StateOf(status, noted))
  BY DEF Fits, StateOf

\* The story of the handler that runs alone.
LEMMA StoryKept ==
  ASSUME TypeOK, PlacesOK, Alone, Story, NEW c \in Calls, Effect(c)
  PROVE  Story'
<1> SUFFICES ASSUME Undisturbed'
             PROVE  /\ \A d \in Calls : Running(d)' => StoryOK(d)'
                    /\ Quiet' => (Fits(task.status, approval.status) /\ decided = approval.meta)'
  BY DEF Story
<1>1. overlaps = 0 /\ \A d \in Calls \ {c} : call[d].pc = "idle" /\ call'[d] = call[d]
  BY OthersIdle DEF Undisturbed
<1>2. deaths = 0 /\ ~Died(c)
  BY DEF Undisturbed, TypeOK, Effect, Asked, Scheduled, Confirmed, Dropped, Died, Fetched, Taken,
     Copied, Judged, Saved, Noted, MetaSaved, StateSaved, Mailed, Bred
<1>3. /\ call[c].pc = "idle" => Fits(task.status, approval.status) /\ decided = approval.meta
      /\ call[c].pc # "idle" => StoryOK(c)
  BY <1>1, <1>2 DEF Undisturbed, Quiet, Running, Story
<1>4. /\ call[c] \in Call /\ call[c].rec \in Approval /\ call[c].row \in Row
      /\ approval \in Approval /\ task \in Row /\ PlaceOK(c)
  BY FieldsTyped DEF TypeOK, PlacesOK
<1> DEFINE Ends == /\ call'[c] = NoCall
                   /\ Fits(task'.status, approval'.status) /\ decided' = approval'.meta
<1>5. Ends \/ (call'[c].pc # "idle" /\ StoryOK(c)')
  <2>1. CASE Asked(c)
    BY <1>3, <2>1 DEF Asked, StoryOK, Saving
  <2>2. CASE Scheduled(c)
    <3>1. Fits("completed", approval.status)
      BY DEF Fits
    <3> QED
      BY <1>3, <2>2, <3>1 DEF Scheduled, StoryOK, Saving
  <2>3. CASE Confirmed(c)
    BY <1>3, <1>4, <2>3 DEF Confirmed, On, Call, StoryOK, Saving
  <2>4. CASE Dropped(c)
    BY <1>3, <2>4 DEF Dropped, StoryOK, Saving
  <2>5. CASE Fetched(c)
    <3>1. /\ Fits(task.status, approval.status) /\ decided = approval.meta
          /\ call[c].meta = Pending
      BY <1>3, <1>4, <2>5 DEF Fetched, Copied, StoryOK, Saving, PlaceOK
    <3>2. /\ task' = task /\ approval' = approval /\ call'[c].meta = Pending
          /\ call'[c].op = call[c].op /\ call[c].op \notin {"approve", "cutoff"}
      BY <2>5, <3>1 DEF Fetched, Copied, Requests
    <3>3. CASE call'[c].pc = "read_meta" /\ decided' = Pending
      BY <3>2, <3>3 DEF StoryOK, Saving
    <3>4. CASE call'[c].pc = "save" /\ decided' = decided
      BY <2>5, <3>1, <3>2, <3>4 DEF Fetched, StoryOK, Saving
    <3> QED
      BY <2>5, <3>3, <3>4 DEF Fetched
  <2>6. CASE Taken(c)
    <3>1. decided = approval.meta
      BY <1>3, <2>6 DEF Taken, Copied, StoryOK, Saving
    <3> QED
      BY <2>6, <3>1 DEF Taken, Copied, Voted, StoryOK
  <2>7. CASE Judged(c)
    <3>1. /\ call'[c].pc = "save" /\ call'[c].op = "approve" /\ approval' = approval
          /\ decided' = decided
      BY <1>4, <2>7 DEF Judged, PlaceOK
    <3>2. decided = call'[c].meta
      BY <1>3, <2>7 DEF Judged, StoryOK, Voted
    <3>3. call'[c].row.status = "approved" => \A u \in Approvers : call'[c].meta[u] = "approved"
      BY <2>7, JudgedRow, OutcomeTyped
    <3> QED
      BY <3>1, <3>2, <3>3 DEF StoryOK, Saving
  <2>8. CASE Saved(c)
    <3>1. /\ call[c].pc = "save" /\ approval' = approval /\ decided' = decided /\ StoryOK(c)
          /\ task' = IF call[c].op = "cutoff" THEN [call[c].row EXCEPT !.status = "completed"]
                                              ELSE call[c].row
      BY <1>3, <2>8 DEF Saved
    <3>2. task'.status = IF call[c].op = "cutoff" THEN "completed" ELSE call[c].row.status
      BY <1>4, <3>1 DEF Row
    <3>3. CASE call[c].op \in {"approve", "update", "transition"}
      <4>1. /\ call'[c].op = call[c].op /\ call'[c].row = call[c].row
            /\ call'[c].meta = call[c].meta
            /\ call'[c].pc = IF call[c].op = "approve" THEN "read_meta" ELSE "read_state"
        BY <1>4, <2>8, <3>3 DEF Saved, On, Call
      <4>2. decided = IF call[c].op = "approve" THEN call[c].meta ELSE approval.meta
        BY <3>1, <3>3 DEF StoryOK, Saving
      <4> QED
        BY <3>1, <3>2, <3>3, <4>1, <4>2 DEF StoryOK, Saving
    <3>4. CASE call[c].op \notin {"approve", "update", "transition"}
      <4>1. decided = approval.meta /\ Fits(task'.status, approval.status)
        BY <3>1, <3>2, <3>4 DEF StoryOK, Saving
      <4>2. call'[c] = NoCall
        BY <2>8, <3>4 DEF Saved
      <4> QED
        BY <3>1, <4>1, <4>2
    <3> QED
      BY <3>3, <3>4
  <2>9. CASE Noted(c)
    <3>1. /\ task' = task /\ approval' = approval /\ decided' = decided
          /\ call'[c].op = call[c].op /\ call'[c].row = call[c].row /\ call'[c].rec = approval
          /\ call'[c].meta = call[c].meta
      BY <1>4, <2>9 DEF Noted, Call
    <3> QED
      BY <1>3, <2>9, <3>1 DEF Noted, StoryOK, Saving
  <2>10. CASE MetaSaved(c)
    <3>1. StoryOK(c) /\ call[c].pc = "save_meta" /\ task' = task /\ decided' = decided
      BY <1>3, <2>10 DEF MetaSaved
    <3>2. /\ call[c].rec = approval /\ decided = call[c].meta
          /\ call[c].op = "approve" => call[c].row.status = task.status
      BY <3>1 DEF StoryOK, Saving
    <3>3. approval'.meta = call[c].meta
      BY <1>4, <2>10 DEF MetaSaved, Approval
    <3>4. /\ call'[c].op = call[c].op /\ call'[c].row = call[c].row
          /\ call'[c].pc = IF call[c].op = "approve" THEN "read_state" ELSE "save"
          /\ call[c].op \in {"approve", "update", "transition"}
      BY <1>4, <2>10 DEF MetaSaved, On, Call, PlaceOK
    <3> QED
      BY <3>1, <3>2, <3>3, <3>4 DEF StoryOK, Saving
  <2>11. CASE StateSaved(c)
    <3>1. StoryOK(c) /\ call[c].pc = "save_state" /\ task' = task /\ decided' = decided
          /\ call'[c] = NoCall
      BY <1>3, <2>11 DEF StateSaved
    <3>2. /\ call[c].rec = approval /\ decided = approval.meta
          /\ call[c].row.status = task.status
      BY <3>1 DEF StoryOK, Saving
    <3>3. /\ approval'.meta = approval.meta
          /\ approval'.status = StateOf(task.status, approval.status)
      BY <1>4, <2>11, <3>2 DEF StateSaved, Approval
    <3> QED
      BY <3>1, <3>2, <3>3, StateFits
  <2>12. CASE Mailed(c) \/ Bred(c)
    <3>1. /\ task' = task /\ approval' = approval /\ decided' = decided
          /\ call'[c].pc = "save" /\ call'[c].op = call[c].op
          /\ call'[c].row.status = call[c].row.status
          /\ call[c].pc \in {"send", "create"}
          /\ call[c].op \in {"overdue", "recurrence"}
      BY <1>4, <2>12, MailedRow DEF Mailed, Bred, PlaceOK
    <3>2. /\ decided = approval.meta /\ Fits(task.status, approval.status)
          /\ call[c].row.status = task.status
      BY <1>3, <3>1 DEF StoryOK, Saving
    <3> QED
      BY <3>1, <3>2 DEF StoryOK, Saving
  <2> HIDE DEF Ends
  <2> QED
    BY <1>2, <2>1, <2>2, <2>3, <2>4, <2>5, <2>6, <2>7, <2>8, <2>9, <2>10, <2>11, <2>12, Zenon
       DEF Effect
<1>6. ASSUME NEW d \in Calls, Running(d)' PROVE StoryOK(d)'
  <2>1. d = c
    BY <1>1, <1>6 DEF Running
  <2>2. ~Ends
    BY <1>6, <2>1 DEF Running, NoCall
  <2> HIDE DEF Ends
  <2> QED
    BY <1>5, <2>1, <2>2
<1>7. ASSUME Quiet' PROVE (Fits(task.status, approval.status) /\ decided = approval.meta)'
  <2>1. call'[c].pc = "idle"
    BY <1>7 DEF Quiet, Running
  <2>2. Ends
    <3> HIDE DEF Ends
    <3> QED
      BY <1>5, <2>1
  <2> QED
    BY <2>2
<1> QED
  BY <1>6, <1>7

\* One overdue run at a time.
LEMMA OneOverdueKept ==
  ASSUME TypeOK, OneOverdue, NEW c \in Calls, Effect(c)
  PROVE  OneOverdue'
<1>1. \A d \in Calls \ {c} : call'[d] = call[d]
  BY DEF Effect, Only
<1>2. CASE Scheduled(c)
  <2>1. \A d \in Calls : call[d].op # "overdue"
    BY <1>2 DEF Scheduled, OneOverdue
  <2>2. call'[c].op = "overdue" => hour' = 1 /\ fired'
    BY <1>2 DEF Scheduled
  <2> QED
    BY <1>1, <2>1, <2>2 DEF OneOverdue
<1>3. CASE ~Scheduled(c)
  <2>1. call[c] \in Call
    BY DEF TypeOK
  <2>2. call'[c].op = "overdue" => call[c].op = "overdue"
    <3>1. CASE Asked(c) \/ Dropped(c) \/ Died(c) \/ StateSaved(c)
      BY <3>1 DEF Asked, Dropped, Died, StateSaved, NoCall, Requests
    <3>2. CASE Confirmed(c) \/ MetaSaved(c)
      BY <2>1, <3>2 DEF Confirmed, MetaSaved, On, Call
    <3>5. CASE Noted(c)
      BY <2>1, <3>5 DEF Noted, Call
    <3>6. CASE Saved(c)
      BY <2>1, <3>6 DEF Saved, On, Call, NoCall
    <3>3. CASE Fetched(c) \/ Taken(c) \/ Judged(c) \/ Bred(c)
      BY <3>3 DEF Fetched, Taken, Copied, Judged, Bred
    <3>4. CASE Mailed(c)
      BY <3>4, MailedRow
    <3> QED
      BY <1>3, <3>1, <3>2, <3>3, <3>4, <3>5, <3>6, Zenon DEF Effect
  <2>3. hour' = hour /\ fired' = fired
    BY <1>3 DEF Effect, Asked, Confirmed, Dropped, Died, Fetched, Taken, Copied, Judged,
       Saved, Noted, MetaSaved, StateSaved, Mailed, Bred, cronVars
  <2> QED
    BY <1>1, <2>2, <2>3 DEF OneOverdue
<1> QED
  BY <1>2, <1>3

\* A call goes on in a handler that has nothing to do with the mail.
Aside(c) ==
    /\ call[c].op # "overdue" /\ call'[c].op # "overdue" /\ call'[c].pc # "send"
    /\ call[c].pc # "idle"
    /\ task' = task \/ (Loaded(c) /\ task'.told = call[c].row.told)
    /\ Loaded(c)' => \/ call'[c].row.told = task.told
                     \/ Loaded(c) /\ call'[c].row.told = call[c].row.told
    /\ mails' = mails /\ overlaps' = overlaps /\ deaths <= deaths'

LEMMA AsideActs ==
  ASSUME TypeOK, PlacesOK, NEW c \in Calls, Effect(c),
         ~Asked(c), ~Scheduled(c), ~Mailed(c), call[c].op # "overdue"
  PROVE  Aside(c)
<1>1. call[c] \in Call /\ PlaceOK(c) /\ call[c].row \in Row
  BY FieldsTyped DEF TypeOK, PlacesOK
<1>2. CASE Confirmed(c)
  BY <1>1, <1>2 DEF Confirmed, On, Call, Aside, Loaded, cronVars, TypeOK
<1>3. CASE Dropped(c) \/ Died(c) \/ StateSaved(c)
  <2>1. call'[c] = NoCall /\ task' = task /\ mails' = mails /\ overlaps' = overlaps
        /\ deaths <= deaths' /\ call[c].pc # "idle"
    BY <1>3 DEF Dropped, Died, StateSaved, cronVars, TypeOK
  <2> QED
    BY <2>1 DEF Aside, Loaded, NoCall
<1>4. CASE Fetched(c) \/ Taken(c)
  BY <1>4 DEF Fetched, Taken, Copied, Aside, Loaded, cronVars, TypeOK
<1>5. CASE Judged(c)
  BY <1>1, <1>5, JudgedRow DEF Judged, Aside, Loaded, cronVars, TypeOK
<1>6. CASE Saved(c)
  <2>1. /\ call[c].pc = "save" /\ mails' = mails /\ overlaps' = overlaps /\ deaths <= deaths'
        /\ task'.told = call[c].row.told
    BY <1>1, <1>6 DEF Saved, Row, cronVars, TypeOK
  <2>2. \/ call'[c] = NoCall
        \/ /\ call'[c].row = call[c].row /\ call'[c].pc \in {"read_meta", "read_state"}
           /\ call'[c].op = call[c].op
    BY <1>1, <1>6 DEF Saved, On, Call
  <2> QED
    BY <2>1, <2>2 DEF Aside, Loaded, NoCall
<1>7. CASE Noted(c) \/ MetaSaved(c)
  <2>1. /\ task' = task /\ mails' = mails /\ overlaps' = overlaps /\ deaths <= deaths'
        /\ call'[c].row = call[c].row /\ call'[c].op = call[c].op
        /\ call[c].pc \in {"read_meta", "read_state", "save_meta"} /\ call'[c].pc # "send"
    <3>1. CASE Noted(c)
      <4>1. /\ task' = task /\ mails' = mails /\ overlaps' = overlaps /\ deaths <= deaths'
            /\ \/ call[c].pc = "read_meta" /\ call'[c].pc = "save_meta"
               \/ call[c].pc = "read_state" /\ call'[c].pc = "save_state"
        BY <3>1 DEF Noted, cronVars, TypeOK
      <4>2. call'[c] = [call[c] EXCEPT !.rec = approval, !.pc = call'[c].pc]
        BY <3>1 DEF Noted
      <4>3. call'[c].row = call[c].row /\ call'[c].op = call[c].op
        BY <1>1, <4>2 DEF Call
      <4> QED
        BY <4>1, <4>3
    <3>2. CASE MetaSaved(c)
      BY <1>1, <3>2 DEF MetaSaved, On, Call, cronVars, TypeOK
    <3> QED
      BY <1>7, <3>1, <3>2
  <2> QED
    BY <2>1 DEF Aside, Loaded
<1>8. CASE Bred(c)
  BY <1>1, <1>8 DEF Bred, Aside, Loaded, TypeOK
<1> QED
  BY <1>2, <1>3, <1>4, <1>5, <1>6, <1>7, <1>8, Zenon DEF Effect

\* A count under a bound that only grows.
LEMMA CountKept ==
  ASSUME NEW m \in Nat, NEW u \in Nat, NEW v \in Nat, NEW o \in Nat, NEW d \in Nat, NEW d2 \in Nat,
         v <= u, d <= d2, m + u <= 1 + o + d
  PROVE  m + v <= 1 + o + d2
  OBVIOUS

\* The mails are counted.
LEMMA MailsKept ==
  ASSUME TypeOK, TypeOK', PlacesOK, MailsCounted, NEW c \in Calls, Effect(c)
  PROVE  MailsCounted'
<1>1. \A d \in Calls \ {c} : call'[d] = call[d]
  BY DEF Effect, Only
<1>2. OneOverdue /\ OneOverdue' /\ mails + Unsent <= 1 + overlaps + deaths
  BY OneOverdueKept DEF MailsCounted
<1>3. /\ mails \in Nat /\ overlaps \in Nat /\ deaths \in Nat
      /\ mails' \in Nat /\ overlaps' \in Nat /\ deaths' \in Nat /\ PlacesOK'
      /\ overlaps <= overlaps'
  <2>1. overlaps <= overlaps'
    BY DEF TypeOK, Effect, Asked, Scheduled, Joined, Confirmed, Dropped, Died, Fetched, Taken, Copied, Judged,
       Saved, Noted, MetaSaved, StateSaved, Mailed, Bred
  <2> QED
    BY <2>1, PlacesKept DEF TypeOK
<1>4. \A d \in Calls : PlaceOK(d)
  BY DEF PlacesOK
<1>5. \A d \in Calls : call[d].op = "overdue" => call[d].pc \in {"send", "save"}
  BY <1>4 DEF PlaceOK
<1>6. \A d \in Calls : call[d].pc = "send" => call[d].op = "overdue"
  BY <1>4 DEF PlaceOK
<1>7. mails' + Unsent' <= 1 + overlaps' + deaths'
  <2>1. CASE Asked(c)
    <3>1. /\ call[c].pc = "idle" /\ call[c].op # "overdue"
          /\ call'[c].op # "overdue" /\ call'[c].pc # "send" /\ ~Loaded(c)'
          /\ task' = task /\ mails' = mails /\ deaths' = deaths
          /\ overlaps' = IF Quiet THEN overlaps ELSE overlaps + 1
      BY <1>5, <2>1 DEF Asked, Requests, Loaded, cronVars, Joined
    <3>2. /\ Mailing' <=> Mailing
          /\ Sending' <=> Sending
          /\ Stale' <=> Stale
      BY <1>1, <3>1 DEF Mailing, Sending, Stale, Loaded
    <3>3. Mailing => ~Quiet
      BY <1>5 DEF Mailing, Quiet, Running
    <3> QED
      BY <1>2, <1>3, <3>1, <3>2, <3>3 DEF Unsent
  <2>2. CASE Scheduled(c)
    <3>1. /\ ~Mailing
          /\ task' = task /\ mails' = mails /\ deaths' = deaths /\ call[c].pc = "idle"
          /\ overlaps' = IF Quiet THEN overlaps ELSE overlaps + 1
          /\ call'[c].row = task
      BY <1>2, <2>2 DEF Scheduled, OneOverdue, Mailing, Joined
    <3>2. CASE call'[c].op = "overdue" /\ ~task.told
      <4>1. Stale /\ Mailing'
        BY <3>2 DEF Stale, Mailing
      <4>2. Beside' => ~Quiet
        BY <1>1, <3>2 DEF Beside, Quiet, Running
      <4> QED
        BY <1>2, <1>3, <3>1, <4>1, <4>2 DEF Unsent
    <3>3. CASE call'[c].op # "overdue"
      <4>1. ~Mailing'
        BY <1>1, <3>1, <3>3 DEF Mailing
      <4>2. Stale' => Stale
        BY <1>1, <3>1 DEF Stale, Loaded
      <4> QED
        BY <1>2, <1>3, <3>1, <4>1, <4>2 DEF Unsent
    <3> QED
      BY <2>2, <3>2, <3>3 DEF Scheduled
  <2>3. CASE Mailed(c)
    <3>1. /\ task' = task /\ mails' = mails + 1 /\ deaths' = deaths /\ overlaps' = overlaps
          /\ call[c].pc = "send" /\ call[c].op = "overdue"
          /\ call'[c].pc = "save" /\ call'[c].op = "overdue"
      BY <1>6, <2>3, MailedRow DEF Mailed
    <3>2. Mailing /\ Mailing' /\ Sending
      BY <3>1 DEF Mailing, Sending
    <3>3. ~Sending'
      BY <1>1, <1>2, <1>6, <3>1 DEF Sending, OneOverdue
    <3>4. Beside' => Beside
      BY <1>1, <3>1 DEF Beside, Running
    <3> QED
      BY <1>2, <1>3, <3>1, <3>2, <3>3, <3>4 DEF Unsent
  <2>4. CASE call[c].op = "overdue" /\ ~Mailed(c)
    <3>1. Mailing /\ (\A d \in Calls \ {c} : call[d].op # "overdue")
      BY <1>2, <2>4 DEF Mailing, OneOverdue
    <3>2. \/ Dropped(c) /\ call[c].pc = "send"
          \/ Died(c)
          \/ Saved(c)
      <4>1. call[c].pc \in {"send", "save"}
        BY <1>5, <2>4
      <4> QED
        BY <2>4, <4>1 DEF Effect, Asked, Scheduled, Confirmed, Dropped, Fetched, Taken, Copied,
           Judged, Noted, MetaSaved, StateSaved, Bred
    <3>3. call'[c] = NoCall /\ mails' = mails /\ overlaps' = overlaps
      BY <2>4, <3>2 DEF Dropped, Died, Saved, cronVars
    <3>4. ~Mailing'
      BY <1>1, <3>1, <3>3 DEF Mailing, NoCall
    <3>5. CASE Dropped(c) /\ call[c].pc = "send"
      <4>1. Sending /\ deaths' = deaths
        BY <3>5 DEF Sending, Dropped
      <4> QED
        BY <1>2, <1>3, <3>1, <3>3, <3>4, <4>1 DEF Unsent
    <3>6. CASE Died(c)
      BY <1>2, <1>3, <3>1, <3>3, <3>4, <3>6 DEF Died, Unsent
    <3>7. CASE Saved(c)
      <4>1. task'.told /\ deaths' = deaths
        BY <1>4, <2>4, <3>7 DEF Saved, PlaceOK
      <4>2. Stale' => Beside
        <5>1. ~Loaded(c)'
          BY <3>3 DEF Loaded, NoCall
        <5> QED
          BY <1>1, <3>1, <4>1, <5>1 DEF Stale, Beside, Loaded, Running
      <4> QED
        BY <1>2, <1>3, <3>1, <3>3, <3>4, <4>1, <4>2 DEF Unsent
    <3> QED
      BY <3>2, <3>5, <3>6, <3>7
  <2>5. CASE ~Asked(c) /\ ~Scheduled(c) /\ ~Mailed(c) /\ call[c].op # "overdue"
    <3>1. Aside(c)
      BY <2>5, AsideActs
    <3>2. /\ Mailing' <=> Mailing
          /\ Sending' <=> Sending
      BY <1>1, <1>6, <2>5, <3>1 DEF Aside, Mailing, Sending
    <3>3. Beside' => Beside
      BY <1>1, <3>1 DEF Aside, Beside, Running
    <3>4. Stale' => Stale
      BY <1>1, <3>1 DEF Aside, Stale, Loaded
    <3>5. mails' = mails /\ overlaps' = overlaps /\ deaths <= deaths'
      BY <3>1 DEF Aside
    <3>6. Unsent' <= Unsent /\ Unsent \in Nat /\ Unsent' \in Nat
      <4>1. /\ Unsent = IF Mailing THEN (IF Sending THEN 1 ELSE 0) + (IF Beside THEN 1 ELSE 0)
                        ELSE IF Stale THEN 1 ELSE 0
            /\ Unsent' = IF Mailing' THEN (IF Sending' THEN 1 ELSE 0) + (IF Beside' THEN 1 ELSE 0)
                         ELSE IF Stale' THEN 1 ELSE 0
        BY DEF Unsent
      <4>2. CASE Mailing /\ Sending
        BY <3>2, <3>3, <4>1, <4>2
      <4>3. CASE Mailing /\ ~Sending
        BY <3>2, <3>3, <4>1, <4>3
      <4>4. CASE ~Mailing
        BY <3>2, <3>4, <4>1, <4>4
      <4> QED
        BY <4>2, <4>3, <4>4
    <3>7. mails + Unsent' <= 1 + overlaps + deaths'
      BY <1>2, <1>3, <3>5, <3>6, CountKept
    <3> QED
      BY <3>5, <3>7, Zenon
  <2> QED
    BY <2>1, <2>2, <2>3, <2>4, <2>5
<1> QED
  BY <1>2, <1>7 DEF MailsCounted

-----------------------------------------------------------------------------
(* The invariant holds, and what follows from it.                          *)

LEMMA TasksInit == Init => TasksInv
<1> SUFFICES ASSUME Init PROVE TasksInv
  OBVIOUS
<1>1. TypeOK
  BY InitTyped
<1>2. /\ call = [c \in Calls |-> NoCall] /\ overlaps = 0 /\ deaths = 0 /\ ever = {}
      /\ decided = Pending /\ hidden = FALSE /\ mails = 0 /\ children = [d \in Dates |-> 0]
  BY DEF Init, WorkflowInit
<1>3. \A c \in Calls : call[c] = NoCall
  BY <1>2
<1>4. /\ NoCall.pc = "idle" /\ NoCall.op = "none" /\ NoCall.row = FreshRow("open", 0)
      /\ NoCall.rec = NoApproval /\ NoCall.meta = Pending
  BY DEF NoCall
<1>5. PICK s \in Shapes : /\ task = FreshRow(s.status, IF s.ending = "once" THEN 0 ELSE First)
                         /\ approval = IF s.status = "pending_approval"
                                       THEN [NoApproval EXCEPT !.exists = TRUE, !.status = s.status]
                                       ELSE NoApproval
  BY DEF Init
<1>6. s.status \in {"draft", "open", "pending_approval"}
  BY CronAssumption DEF Shape
<1>7. PlacesOK
  BY <1>3, <1>4 DEF PlacesOK, PlaceOK
<1>8. Alone
  BY <1>3, <1>4 DEF Alone, Running
<1>9. CopiesOK
  <2>1. /\ task.movs = Movs /\ task.next \in {0, First}
        /\ NoCall.row.movs = Movs /\ NoCall.row.next = 0
    BY <1>4, <1>5 DEF FreshRow
  <2>2. \A d \in Dates : d >= First
    BY CronAssumption DEF Dates, First
  <2>3. RowOK(task, hidden, children) /\ RowOK(NoCall.row, hidden, children)
    BY <2>1, <2>2, CronAssumption DEF RowOK, First, Dates
  <2> QED
    BY <1>3, <1>4, <2>3 DEF CopiesOK
<1>10. approval.meta = Pending /\ approval.status = IF s.status = "pending_approval"
                                                    THEN s.status ELSE "null"
  BY <1>5 DEF NoApproval
<1>11. ApprovalsBacked
  BY <1>3, <1>4, <1>10 DEF ApprovalsBacked, Backed, Pending, NoApproval
<1>12. Story
  <2>1. task.status = s.status
    BY <1>5 DEF FreshRow
  <2>2. Fits(task.status, approval.status)
    BY <1>6, <1>10, <2>1 DEF Fits
  <2> QED
    BY <1>2, <1>3, <1>4, <1>10, <2>2 DEF Story, Running
<1>13. FinalsOK
  BY <1>3, <1>4 DEF FinalsOK, FinalOK
<1>14. MailsCounted
  <2>1. OneOverdue /\ ~Mailing
    BY <1>3, <1>4 DEF OneOverdue, Mailing
  <2> QED
    BY <1>2, <2>1 DEF MailsCounted, Unsent
<1>15. NoDateSkipped
  BY <1>2 DEF NoDateSkipped
<1> QED
  BY <1>1, <1>7, <1>8, <1>9, <1>11, <1>12, <1>13, <1>14, <1>15 DEF TasksInv

\* Where nothing but the time changes, the invariant is kept.
LEMMA TimeKept ==
  ASSUME TasksInv, TypeOK',
         UNCHANGED <<task, approval, call, overlaps, deaths, ever, decided, hidden, children, mails>>,
         day <= day', OneOverdue'
  PROVE  TasksInv'
<1>1. PlacesOK' /\ Alone' /\ NoDateSkipped'
  BY DEF TasksInv, PlacesOK, PlaceOK, Alone, Running, NoDateSkipped
<1>2. CopiesOK'
  <2>1. First .. day \subseteq First .. day'
    BY DEF TasksInv, TypeOK, First
  <2> QED
    BY <2>1 DEF TasksInv, CopiesOK
<1>3. ApprovalsBacked'
  BY DEF TasksInv, ApprovalsBacked, Backed
<1>4. Story'
  BY DEF TasksInv, Story, Undisturbed, StoryOK, Saving, Running, Quiet
<1>5. FinalsOK'
  BY DEF TasksInv, FinalsOK, FinalOK
<1>6. MailsCounted'
  <2>1. Unsent' = Unsent
    BY DEF Unsent, Mailing, Sending, Beside, Stale, Loaded, Running
  <2> QED
    BY <2>1 DEF TasksInv, MailsCounted
<1> QED
  BY <1>1, <1>2, <1>3, <1>4, <1>5, <1>6 DEF TasksInv

LEMMA TasksStep == TasksInv /\ [Next]_vars => TasksInv'
<1> SUFFICES ASSUME TasksInv, [Next]_vars PROVE TasksInv'
  OBVIOUS
<1> TypeOK
  BY DEF TasksInv
<1>1. ASSUME NEW c \in Calls,
             \/ Request(c) /\ UNCHANGED cronVars
             \/ Cron(c)
             \/ Step(c)
             \/ Crash(c) /\ UNCHANGED cronVars
      PROVE  TasksInv'
  <2>1. TypeOK' /\ Effect(c)
    BY <1>1, CallActs
  <2> QED
    BY <2>1, PlacesKept, AloneKept, CopiesKept, ApprovalsKept, StoryKept, FinalsKept, MailsKept,
       DatesKept DEF TasksInv
<1>2. CASE Clock
  <2>1. OneOverdue'
    BY <1>2, ClockActs DEF OneOverdue
  <2> QED
    BY <1>2, <2>1, ClockActs, TimeKept
<1>3. CASE UNCHANGED vars
  <2>1. UNCHANGED <<workflow, task, approval, call, left, overlaps, deaths, ever, decided, hidden,
                    ending, dated, beside, day, hour, fired, children, mails>>
    BY <1>3 DEF vars, workflowVars, cronVars
  <2>2. TypeOK' /\ OneOverdue'
    BY <2>1 DEF TasksInv, TypeOK, MailsCounted, OneOverdue
  <2>3. day <= day'
    BY <2>1 DEF TypeOK
  <2> QED
    BY <2>1, <2>2, <2>3, TimeKept
<1> QED
  BY <1>1, <1>2, <1>3 DEF Next

\* The invariant holds of every behaviour: of the row and all its copies, of the record, of
\* what the one handler that runs alone has yet to do, and of the mails.
THEOREM TasksAlways == Spec => []TasksInv
  BY TasksInit, TasksStep, PTL DEF Spec

\* The rows, the copies and the history always have their types.
THEOREM TasksTyped == Spec => []TypeOK
<1>1. TasksInv => TypeOK
  BY DEF TasksInv
<1> QED
  BY <1>1, TasksAlways, PTL

\* The approval record follows the task and holds what the approvers decided, whenever no
\* handler is at work and none has overlapped with another one or died (approve, update,
\* setTaskApprovalMeta and upsertTaskApprovalState).
THEOREM TasksRecord == Spec => []RecordFollows
<1>1. TasksInv => RecordFollows
  BY DEF TasksInv, Story, RecordFollows, DecisionsKept, DashboardFollows, Fits
<1> QED
  BY <1>1, TasksAlways, PTL

\* The checklist is whole unless it was loaded cut for somebody who then saved it
\* (filterMovItemsForUser in approve, complete and reassign).
THEOREM TasksChecklist == Spec => []ChecklistKept
<1>1. TasksInv => ChecklistKept
  BY DEF TasksInv, CopiesOK, RowOK, ChecklistKept
<1> QED
  BY <1>1, TasksAlways, PTL

\* processRecurrence leaves no date out, in whatever order old copies of the row are saved
\* and wherever the process dies.
THEOREM TasksDates == Spec => []NoDateSkipped
<1>1. TasksInv => NoDateSkipped
  BY DEF TasksInv
<1> QED
  BY <1>1, TasksAlways, PTL

\* overdueEscalation sends one mail, and one more for each overlap and each death at most.
THEOREM TasksMails == Spec => []MailsAccounted
<1>1. TasksInv => MailsAccounted
  <2> SUFFICES ASSUME TasksInv PROVE MailsAccounted
    OBVIOUS
  <2>1. mails + Unsent <= 1 + overlaps + deaths /\ Unsent \in Nat
    BY DEF TasksInv, MailsCounted, Unsent
  <2>2. mails \in Nat /\ overlaps \in Nat /\ deaths \in Nat
    BY DEF TasksInv, TypeOK
  <2> QED
    BY <2>1, <2>2 DEF MailsAccounted
<1> QED
  BY <1>1, TasksAlways, PTL

\* Only a save changes the row.
LEMMA SaveChanges ==
  ASSUME TypeOK, NEW c \in Calls, Effect(c), task' # task
  PROVE  Saved(c)
  BY DEF Effect, Asked, Scheduled, Confirmed, Dropped, Died, Fetched, Taken, Copied, Judged,
     Noted, MetaSaved, StateSaved, Mailed, Bred

\* A step that changes the row is a save of one call.
LEMMA RowChanges ==
  ASSUME TypeOK, [Next]_vars, task' # task
  PROVE  \E c \in Calls : Effect(c) /\ Saved(c)
<1>1. ~Clock /\ ~UNCHANGED vars
  BY ClockActs DEF vars, workflowVars
<1>2. PICK c \in Calls : \/ Request(c) /\ UNCHANGED cronVars
                         \/ Cron(c)
                         \/ Step(c)
                         \/ Crash(c) /\ UNCHANGED cronVars
  BY <1>1 DEF Next
<1> QED
  BY <1>2, CallActs, SaveChanges

\* approve makes a task approved only if everyone has approved it at some time, however the
\* handlers overlap, and since the last rework if they do not.
THEOREM TasksApproved == Spec => ApprovedByAll
<1> DEFINE Act == task.status # "approved" /\ task'.status = "approved" =>
                     \A c \in Calls :
                        call[c].pc = "save" /\ call'[c] # call[c] /\ call[c].op = "approve" =>
                           /\ ever = Approvers
                           /\ Undisturbed => \A u \in Approvers : decided[u] = "approved"
<1>1. TasksInv /\ [Next]_vars => [Act]_vars
  <2> SUFFICES ASSUME TasksInv, [Next]_vars, task.status # "approved", task'.status = "approved",
                      NEW c \in Calls, call[c].pc = "save", call'[c] # call[c],
                      call[c].op = "approve"
               PROVE  /\ ever = Approvers
                      /\ Undisturbed => \A u \in Approvers : decided[u] = "approved"
    OBVIOUS
  <2>1. PICK x \in Calls : Effect(x) /\ Saved(x)
    BY RowChanges DEF TasksInv
  <2>2. x = c
    BY <2>1 DEF Effect, Only
  <2>3. call[c].row.status = "approved"
    BY <2>1, <2>2 DEF Saved
  <2>4. ever = Approvers
    BY <2>3 DEF TasksInv, TypeOK, ApprovalsBacked
  <2>5. ASSUME Undisturbed PROVE \A u \in Approvers : decided[u] = "approved"
    <3>1. StoryOK(c)
      BY <2>5 DEF TasksInv, Story, Running
    <3> QED
      BY <2>3, <3>1 DEF StoryOK, Saving
  <2> QED
    BY <2>4, <2>5
<1>2. ApprovedByAll <=> [][Act]_vars
  BY PTL DEF ApprovedByAll
<1> HIDE DEF Act
<1> QED
  BY <1>1, <1>2, TasksAlways, PTL DEF Spec

\* Without an overlap only approve, complete and updateProgress, which do not look at the
\* status, give a closed or cancelled task another one.
THEOREM TasksFinal == Spec => FinalLeft
<1> DEFINE Act == task.status \in Final /\ task'.status # task.status /\ overlaps = 0 =>
                     \E c \in Calls : call[c].op \in {"approve", "complete", "progress"}
<1>1. TasksInv /\ [Next]_vars => [Act]_vars
  <2> SUFFICES ASSUME TasksInv, [Next]_vars, task.status \in Final, task'.status # task.status,
                      overlaps = 0
               PROVE  \E c \in Calls : call[c].op \in {"approve", "complete", "progress"}
    OBVIOUS
  <2>1. PICK x \in Calls : Effect(x) /\ Saved(x)
    BY RowChanges DEF TasksInv
  <2>2. FinalOK(x) /\ PlaceOK(x) /\ call[x] \in Call
    BY DEF TasksInv, FinalsOK, PlacesOK, TypeOK
  <2>3. call[x].pc = "save"
    BY <2>1 DEF Saved
  <2>4. call[x].op \notin {"update", "transition", "overdue", "cutoff"}
    BY <2>2, <2>3 DEF FinalOK
  <2>5. call[x].op \notin {"assign", "reassign", "recurrence"}
    <3>1. call[x].op # "cutoff" => task'.status = call[x].row.status
      BY <2>1 DEF Saved
    <3> QED
      BY <2>2, <2>3, <3>1 DEF FinalOK, Final
  <2>6. call[x].op # "none"
    BY <2>2, <2>3 DEF PlaceOK
  <2> QED
    BY <2>2, <2>4, <2>5, <2>6 DEF Call, Requests, Crons
<1>2. FinalLeft <=> [][Act]_vars
  BY PTL DEF FinalLeft
<1> HIDE DEF Act
<1> QED
  BY <1>1, <1>2, TasksAlways, PTL DEF Spec

-----------------------------------------------------------------------------
(* Sums over finite sets.                                                  *)

\* A set of numbers has a least element.
LEMMA LeastNumber ==
  ASSUME NEW N, N \subseteq Nat, N # {}
  PROVE  \E n \in N : \A m \in N : n <= m
<1> DEFINE Less == {ss \in Nat \X Nat : ss[1] < ss[2]}
<1>1. IsWellFoundedOn(Less, Nat)
  BY NatLessThanWellFounded DEF OpToRel
<1>2. PICK n \in N : \A m \in N : ~ (<<m, n>> \in Less)
  BY <1>1, WFMin
<1>3. ASSUME NEW m \in N PROVE n <= m
  <2>1. <<m, n>> \in Nat \X Nat /\ <<m, n>>[1] = m /\ <<m, n>>[2] = n
    OBVIOUS
  <2>2. ~ (m < n)
    BY <1>2, <2>1
  <2> QED
    BY <2>2
<1> QED
  BY <1>3

\* What holds of the empty set, and of a part of S whenever it holds of the part without
\* any one element, holds of all parts of a finite set S.
LEMMA PartsInduct ==
  ASSUME NEW S, IsFiniteSet(S), NEW T, {} \in T,
         \A s \in SUBSET S : s # {} /\ (\A x \in s : s \ {x} \in T) => s \in T
  PROVE  SUBSET S \subseteq T
<1> SUFFICES ASSUME NEW t \in SUBSET S, t \notin T PROVE FALSE
  OBVIOUS
<1> DEFINE Sizes == {Cardinality(s) : s \in {u \in SUBSET S : u \notin T}}
<1>1. \A s \in SUBSET S : IsFiniteSet(s) /\ Cardinality(s) \in Nat
  BY FS_Subset, FS_CardinalityType
<1>2. Sizes \subseteq Nat /\ Sizes # {}
  BY <1>1
<1>3. PICK n \in Sizes : \A m \in Sizes : n <= m
  BY <1>2, LeastNumber
<1>4. PICK s \in SUBSET S : s \notin T /\ Cardinality(s) = n
  BY <1>3
<1>5. PICK x \in s : s \ {x} \notin T
  BY <1>4
<1>6. Cardinality(s \ {x}) = Cardinality(s) - 1 /\ s \ {x} \in SUBSET S
  BY <1>1, <1>5, FS_RemoveElement
<1>7. n <= Cardinality(s \ {x})
  BY <1>3, <1>5, <1>6
<1> QED
  BY <1>1, <1>4, <1>6, <1>7

\* What the sum of f over a part of S is, by the sums over smaller parts.
Adds(sums, f, S) ==
    sums = [s \in SUBSET S |-> IF s = {} THEN 0
                               ELSE f[CHOOSE x \in s : TRUE] + sums[s \ {CHOOSE x \in s : TRUE}]]
Sums(f, S) == CHOOSE sums : Adds(sums, f, S)

\* MapThenSumSet is the sum of a function over its domain.
LEMMA SumIsSums ==
  ASSUME NEW f, NEW S
  PROVE  MapThenSumSet(LAMBDA x : f[x], S) = Sums(f, S)[S]
  BY Zenon DEF MapThenSumSet, MapThenFoldSet, Sums, Adds

\* There are such sums.
LEMMA SumsAdd ==
  ASSUME NEW S, IsFiniteSet(S), NEW f
  PROVE  Adds(Sums(f, S), f, S)
<1> DEFINE Sum(g, s) == IF s = {} THEN 0
                        ELSE f[CHOOSE x \in s : TRUE] + g[s \ {CHOOSE x \in s : TRUE}]
           Upto(g, n) == /\ g = [s \in SUBSET S |-> g[s]]
                         /\ \A s \in SUBSET S : Cardinality(s) <= n => g[s] = Sum(g, s)
           Fails == {n \in Nat : ~ \E g : Upto(g, n)}
<1>1. \A s \in SUBSET S :
         /\ IsFiniteSet(s) /\ Cardinality(s) \in Nat /\ Cardinality(s) <= Cardinality(S)
         /\ Cardinality(s) = 0 <=> s = {}
  BY FS_Subset, FS_CardinalityType, FS_EmptySet
<1>2. \A s \in SUBSET S : s # {} =>
         /\ s \ {CHOOSE x \in s : TRUE} \in SUBSET S
         /\ Cardinality(s \ {CHOOSE x \in s : TRUE}) = Cardinality(s) - 1
  <2> TAKE s \in SUBSET S
  <2> HAVE s # {}
  <2>1. (CHOOSE x \in s : TRUE) \in s
    OBVIOUS
  <2> QED
    BY <1>1, <2>1, FS_RemoveElement
<1>3. Fails = {}
  <2> SUFFICES ASSUME Fails # {} PROVE FALSE
    OBVIOUS
  <2>1. PICK n \in Fails : \A m \in Fails : n <= m
    <3>1. Fails \subseteq Nat
      OBVIOUS
    <3> HIDE DEF Fails
    <3> QED
      BY <3>1, LeastNumber
  <2>2. CASE n = 0
    <3> DEFINE g == [s \in SUBSET S |-> 0]
    <3>1. g = [s \in SUBSET S |-> g[s]]
      OBVIOUS
    <3>2. \A s \in SUBSET S : Cardinality(s) <= 0 => g[s] = Sum(g, s)
      BY <1>1
    <3>3. Upto(g, 0)
      BY <3>1, <3>2
    <3>4. \E k : Upto(k, 0)
      BY <3>3
    <3> QED
      BY <2>1, <2>2, <3>4
  <2>3. CASE n # 0
    <3>1. n - 1 \in Nat /\ n - 1 \notin Fails
      <4>1. n \in Nat
        OBVIOUS
      <4> HIDE DEF Fails
      <4> QED
        BY <2>1, <2>3, <4>1
    <3>2. PICK g : Upto(g, n - 1)
      BY <3>1
    <3> DEFINE h == [s \in SUBSET S |-> IF Cardinality(s) <= n - 1 THEN g[s] ELSE Sum(g, s)]
    <3>3. h = [s \in SUBSET S |-> h[s]]
      OBVIOUS
    <3>4. ASSUME NEW s \in SUBSET S, Cardinality(s) <= n PROVE h[s] = Sum(h, s)
      <4>1. h[s] = Sum(g, s)
        BY <3>2
      <4>2. CASE s = {}
        BY <4>1, <4>2
      <4>3. CASE s # {}
        <5> DEFINE t == s \ {CHOOSE x \in s : TRUE}
        <5>1. t \in SUBSET S /\ Cardinality(t) <= n - 1
          BY <1>1, <1>2, <3>4, <4>3
        <5>2. h[t] = g[t]
          BY <5>1
        <5> QED
          BY <4>1, <4>3, <5>2
      <4> QED
        BY <4>2, <4>3
    <3>5. Upto(h, n)
      BY <3>3, <3>4
    <3>6. \E k : Upto(k, n)
      BY <3>5
    <3> QED
      BY <2>1, <3>6
  <2> QED
    BY <2>2, <2>3
<1>4. PICK g : Upto(g, Cardinality(S))
  <2>1. Cardinality(S) \in Nat
    BY FS_CardinalityType
  <2> QED
    BY <1>3, <2>1
<1>5. \A s \in SUBSET S : g[s] = Sum(g, s)
  BY <1>1, <1>4
<1>6. Adds(g, f, S)
  BY <1>4, <1>5 DEF Adds
<1> QED
  BY <1>6, Zenon DEF Sums

\* The sum of the empty set is 0, and that of another one the value of an element and the
\* sum of the rest.
LEMMA SumsOf ==
  ASSUME NEW S, IsFiniteSet(S), NEW s \in SUBSET S
  PROVE  /\ s = {} => \A f : Sums(f, S)[s] = 0
         /\ s # {} => \E x \in s : \A f : Sums(f, S)[s] = f[x] + Sums(f, S)[s \ {x}]
<1>1. ASSUME NEW f
      PROVE  Sums(f, S)[s] = IF s = {} THEN 0 ELSE f[CHOOSE x \in s : TRUE]
                                                 + Sums(f, S)[s \ {CHOOSE x \in s : TRUE}]
  <2>1. Adds(Sums(f, S), f, S)
    BY SumsAdd
  <2> DEFINE g == Sums(f, S)
  <2>2. Adds(g, f, S)
    BY <2>1
  <2> HIDE DEF g
  <2>3. g[s] = IF s = {} THEN 0 ELSE f[CHOOSE x \in s : TRUE] + g[s \ {CHOOSE x \in s : TRUE}]
    BY <2>2 DEF Adds
  <2> QED
    BY <2>3 DEF g
<1>2. CASE s = {}
  BY <1>1, <1>2
<1>3. CASE s # {}
  <2> DEFINE x == CHOOSE y \in s : TRUE
  <2>1. x \in s
    BY <1>3
  <2>2. \A f : Sums(f, S)[s] = f[x] + Sums(f, S)[s \ {x}]
    BY <1>1, <1>3
  <2> HIDE DEF x
  <2> QED
    BY <1>3, <2>1, <2>2
<1> QED
  BY <1>2, <1>3

\* Sums of numbers are numbers.
LEMMA SumsNumbers ==
  ASSUME NEW S, IsFiniteSet(S), NEW f \in [S -> Nat]
  PROVE  \A s \in SUBSET S : Sums(f, S)[s] \in Nat
<1> DEFINE T == {s \in SUBSET S : Sums(f, S)[s] \in Nat}
<1>1. {} \in T
  <2>1. {} \in SUBSET S /\ \A h : Sums(h, S)[{}] = 0
    BY SumsOf, Zenon
  <2> QED
    BY <2>1
<1>2. ASSUME NEW s \in SUBSET S, s # {}, \A x \in s : s \ {x} \in T
      PROVE  s \in T
  <2>1. PICK x \in s : \A h : Sums(h, S)[s] = h[x] + Sums(h, S)[s \ {x}]
    BY <1>2, SumsOf, Zenon
  <2>2. Sums(f, S)[s \ {x}] \in Nat /\ f[x] \in Nat
    BY <1>2
  <2> QED
    BY <2>1, <2>2
<1> HIDE DEF T
<1>3. SUBSET S \subseteq T
  BY <1>1, <1>2, PartsInduct
<1> QED
  BY <1>3 DEF T

\* A sum of zeros is 0.
LEMMA SumsZero ==
  ASSUME NEW S, IsFiniteSet(S), NEW f, \A x \in S : f[x] = 0
  PROVE  Sums(f, S)[S] = 0
<1> DEFINE T == {s \in SUBSET S : Sums(f, S)[s] = 0}
<1>1. {} \in T
  <2>1. {} \in SUBSET S /\ \A h : Sums(h, S)[{}] = 0
    BY SumsOf, Zenon
  <2> QED
    BY <2>1
<1>2. ASSUME NEW s \in SUBSET S, s # {}, \A x \in s : s \ {x} \in T
      PROVE  s \in T
  <2>1. PICK x \in s : \A h : Sums(h, S)[s] = h[x] + Sums(h, S)[s \ {x}]
    BY <1>2, SumsOf, Zenon
  <2>2. Sums(f, S)[s \ {x}] = 0 /\ f[x] = 0
    BY <1>2
  <2> QED
    BY <2>1, <2>2
<1> HIDE DEF T
<1>3. SUBSET S \subseteq T
  BY <1>1, <1>2, PartsInduct
<1> QED
  BY <1>3 DEF T

\* A function that is larger by one, at n, has a sum larger by one.
LEMMA SumsStep ==
  ASSUME NEW S, IsFiniteSet(S), NEW f \in [S -> Nat], NEW g \in [S -> Nat], NEW n \in S,
         \A x \in S : g[x] = f[x] + (IF x = n THEN 1 ELSE 0)
  PROVE  Sums(g, S)[S] = Sums(f, S)[S] + 1
<1> DEFINE T == {s \in SUBSET S : Sums(g, S)[s] = Sums(f, S)[s] + (IF n \in s THEN 1 ELSE 0)}
<1>1. {} \in T
  <2>1. {} \in SUBSET S /\ \A h : Sums(h, S)[{}] = 0
    BY SumsOf, Zenon
  <2> QED
    BY <2>1
<1>2. ASSUME NEW s \in SUBSET S, s # {}, \A x \in s : s \ {x} \in T
      PROVE  s \in T
  <2>1. PICK x \in s : \A h : Sums(h, S)[s] = h[x] + Sums(h, S)[s \ {x}]
    BY <1>2, SumsOf, Zenon
  <2> DEFINE F == Sums(f, S)[s \ {x}]
             G == Sums(g, S)[s \ {x}]
  <2>2. F \in Nat /\ G \in Nat /\ f[x] \in Nat /\ g[x] \in Nat
    BY SumsNumbers
  <2>3. G = F + (IF n \in s \ {x} THEN 1 ELSE 0) /\ g[x] = f[x] + (IF x = n THEN 1 ELSE 0)
    BY <1>2
  <2>4. Sums(f, S)[s] = f[x] + F /\ Sums(g, S)[s] = g[x] + G
    BY <2>1
  <2> HIDE DEF F, G
  <2>5. Sums(g, S)[s] = Sums(f, S)[s] + (IF n \in s THEN 1 ELSE 0)
    BY <2>2, <2>3, <2>4
  <2> QED
    BY <2>5
<1> HIDE DEF T
<1>3. SUBSET S \subseteq T
  BY <1>1, <1>2, PartsInduct
<1> QED
  BY <1>3 DEF T

-----------------------------------------------------------------------------
(* The occurrences that are inserted beyond the wanted ones.               *)

\* How many occurrences were inserted; how many of them beyond the wanted ones; who is
\* about to insert one.
Total    == Sums(children, Dates)[Dates]
Repeated == Sums(Beyond, Dates)[Dates]
Creators == {c \in Calls : call[c].pc = "create"}

\* The occurrences that were inserted or are about to be.
Begun == Total + Cardinality(Creators)

\* The next date of a copy tells how many occurrences came before it.
CountOK(r) == r.next # 0 => ending # "once" /\ r.next = First + r.count

\* Call c has a copy of the row that it may still save.
Carrying(c) ==
    \/ call[c].pc \in {"decide", "save", "send", "create"}
    \/ call[c].pc \in {"read_meta", "save_meta"} /\ call[c].op # "approve"

\* Some handlers run, and all of them are runs of the cron of the occurrences.
Breeding == ~Quiet /\ \A c \in Calls : Running(c) => call[c].op = "recurrence"

\* Only dates on which the task is to occur have occurrences.
OnlyWanted == \A d \in Dates : children[d] > 0 => d \in Wanted /\ ~dated

\* The occurrences reach as far as there were any but repeated ones.
Reach ==
    /\ Repeated <= Total
    /\ \A d \in Dates : children[d] > 0 => Repeated + (d + 1 - First) <= Total

\* Behind the next date of a copy, and of the row, there are no more occurrences than one
\* for each date before it, and those that an overlap or a death accounts for; but one
\* that is being inserted.
CopiesPaced ==
    ~dated => \A c \in Calls : Carrying(c) /\ call[c].row.next # 0 =>
        Begun + First <= overlaps + deaths + call[c].row.next
                           + (IF call[c].pc = "create" THEN 1 ELSE 0)

RowPaced ==
    ~dated /\ task.next # 0 =>
        Begun + First <= overlaps + deaths + task.next + (IF Breeding THEN 1 ELSE 0)

RepeatsInv ==
    /\ IsFiniteSet(Creators)
    /\ CountOK(task) /\ \A c \in Calls : CountOK(call[c].row)
    /\ OnlyWanted
    /\ Repeated <= overlaps + deaths
    /\ Reach
    /\ CopiesPaced
    /\ RowPaced

\* The dates are finitely many numbers.
LEMMA DatesFinite ==
  /\ IsFiniteSet(Dates) /\ Dates \subseteq Nat
  /\ \A d \in Dates : d >= First /\ d <= Days /\ (d > First => d - 1 \in Dates)
<1>1. First \in Int /\ Days \in Int
  BY CronAssumption DEF First
<1>2. IsFiniteSet(Dates)
  BY <1>1, FS_Interval DEF Dates
<1> QED
  BY <1>2, CronAssumption DEF Dates, First

\* The sums are numbers, and the second conjunct of RepeatsAccounted is about one of them.
LEMMA TotalsTyped ==
  ASSUME TypeOK
  PROVE  /\ Beyond \in [Dates -> Nat]
         /\ Total \in Nat /\ Repeated \in Nat
         /\ MapThenSumSet(LAMBDA d : Beyond[d], Dates) = Repeated
<1>1. Beyond \in [Dates -> Nat]
  BY DEF TypeOK, Beyond
<1>2. Total \in Nat
  BY DatesFinite, SumsNumbers DEF TypeOK, Total
<1>3. Repeated \in Nat
  BY <1>1, DatesFinite, SumsNumbers DEF Repeated
<1>4. MapThenSumSet(LAMBDA d : Beyond[d], Dates) = Repeated
  BY SumIsSums DEF Repeated
<1> QED
  BY <1>1, <1>2, <1>3, <1>4

\* What the task is does not change.
LEMMA ShapeStays == [Next]_vars => ending' = ending /\ dated' = dated
<1> SUFFICES ASSUME [Next]_vars PROVE ending' = ending /\ dated' = dated
  OBVIOUS
<1>1. CASE Clock
  BY <1>1 DEF Clock
<1>2. CASE UNCHANGED vars
  BY <1>2 DEF vars, cronVars
<1>3. ASSUME NEW c \in Calls,
             \/ Request(c) /\ UNCHANGED cronVars
             \/ Cron(c)
             \/ Step(c)
             \/ Crash(c) /\ UNCHANGED cronVars
      PROVE  ending' = ending /\ dated' = dated
  BY <1>3 DEF Cron, Step, Send, Create, SaveCron, cronVars
<1> QED
  BY <1>1, <1>2, <1>3 DEF Next

\* What an occurrence does to the sums.
LEMMA TotalsGrow ==
  ASSUME TypeOK, TypeOK', ending' = ending, NEW n \in Dates,
         children' = [children EXCEPT ![n] = @ + 1], n \in Wanted
  PROVE  /\ Total' = Total + 1
         /\ Repeated' = IF children[n] > 0 THEN Repeated + 1 ELSE Repeated
<1>1. /\ children \in [Dates -> Nat] /\ children' \in [Dates -> Nat]
      /\ \A x \in Dates : children'[x] = children[x] + (IF x = n THEN 1 ELSE 0)
  BY DEF TypeOK
<1>2. Total' = Total + 1
  BY <1>1, DatesFinite, SumsStep DEF Total
<1>3. Wanted' = Wanted
  BY DEF Wanted
<1>4. /\ Beyond \in [Dates -> Nat]
      /\ \A x \in Dates : Beyond[x] = IF x \in Wanted /\ children[x] > 0
                                      THEN children[x] - 1 ELSE children[x]
  BY <1>1 DEF Beyond
<1>5. /\ Beyond' \in [Dates -> Nat]
      /\ \A x \in Dates : Beyond'[x] = IF x \in Wanted /\ children'[x] > 0
                                       THEN children'[x] - 1 ELSE children'[x]
  BY <1>1, <1>3 DEF Beyond
<1>6. CASE children[n] > 0
  <2>1. \A x \in Dates : Beyond'[x] = Beyond[x] + (IF x = n THEN 1 ELSE 0)
    BY <1>1, <1>4, <1>5, <1>6
  <2>2. Repeated' = Repeated + 1
    BY <1>4, <1>5, <2>1, DatesFinite, SumsStep DEF Repeated
  <2> QED
    BY <1>2, <1>6, <2>2
<1>7. CASE ~(children[n] > 0)
  <2>1. \A x \in Dates : Beyond'[x] = Beyond[x]
    BY <1>1, <1>4, <1>5, <1>7
  <2>2. Beyond' = Beyond
    BY <1>4, <1>5, <2>1
  <2>3. Repeated' = Repeated
    BY <2>2 DEF Repeated
  <2> QED
    BY <1>2, <1>7, <2>3
<1> QED
  BY <1>6, <1>7

\* Where no occurrence is inserted, the sums stay.
LEMMA TotalsStay ==
  ASSUME children' = children, ending' = ending
  PROVE  Total' = Total /\ Repeated' = Repeated /\ Wanted' = Wanted
<1>1. Wanted' = Wanted
  BY DEF Wanted
<1>2. Beyond' = Beyond
  BY <1>1 DEF Beyond
<1> QED
  BY <1>1, <1>2 DEF Total, Repeated

\* The initial state.
LEMMA RepeatsInit == Init => RepeatsInv
<1> SUFFICES ASSUME Init PROVE RepeatsInv
  OBVIOUS
<1>1. /\ call = [c \in Calls |-> NoCall] /\ overlaps = 0 /\ deaths = 0
      /\ children = [d \in Dates |-> 0]
  BY DEF Init, WorkflowInit
<1>2. PICK s \in Shapes : /\ ending = s.ending
                         /\ task = FreshRow(s.status, IF s.ending = "once" THEN 0 ELSE First)
  BY DEF Init
<1>3. \A c \in Calls : call[c].pc = "idle" /\ call[c].row.next = 0
  BY <1>1 DEF NoCall, FreshRow
<1>4. Creators = {}
  BY <1>3 DEF Creators
<1>5. IsFiniteSet(Creators) /\ Cardinality(Creators) = 0
  BY <1>4, FS_EmptySet
<1>6. Total = 0
  <2>1. \A d \in Dates : children[d] = 0
    BY <1>1
  <2> QED
    BY <2>1, DatesFinite, SumsZero DEF Total
<1>7. Repeated = 0
  <2>1. \A d \in Dates : Beyond[d] = 0
    BY <1>1 DEF Beyond
  <2> QED
    BY <2>1, DatesFinite, SumsZero DEF Repeated
<1>8. task.next = (IF ending = "once" THEN 0 ELSE First) /\ task.count = 0
  BY <1>2 DEF FreshRow
<1>9. CountOK(task) /\ \A c \in Calls : CountOK(call[c].row)
  BY <1>3, <1>8 DEF CountOK, First
<1>10. OnlyWanted /\ Reach
  BY <1>1, <1>6, <1>7 DEF OnlyWanted, Reach
<1>11. CopiesPaced
  BY <1>3 DEF CopiesPaced
<1>12. RowPaced
  BY <1>1, <1>5, <1>6, <1>8 DEF RowPaced, Begun, First
<1> QED
  BY <1>1, <1>5, <1>7, <1>9, <1>10, <1>11, <1>12 DEF RepeatsInv

\* How a step moves the calls that are about to insert.
LEMMA CreatorsMove ==
  ASSUME NEW c \in Calls, Only(c), IsFiniteSet(Creators)
  PROVE  /\ IsFiniteSet(Creators')
         /\ Cardinality(Creators) \in Nat /\ Cardinality(Creators') \in Nat
         /\ Cardinality(Creators') = Cardinality(Creators) - (IF call[c].pc = "create" THEN 1 ELSE 0)
                                                        + (IF call'[c].pc = "create" THEN 1 ELSE 0)
<1>1. \A d \in Calls : d # c => (d \in Creators' <=> d \in Creators)
  BY DEF Only, Creators
<1>2. /\ c \in Creators <=> call[c].pc = "create"
      /\ c \in Creators' <=> call'[c].pc = "create"
  BY DEF Creators
<1>3. Creators \subseteq Calls /\ Creators' \subseteq Calls
  BY DEF Creators
<1>4. CASE c \in Creators /\ c \notin Creators'
  <2>1. Creators' = Creators \ {c}
    BY <1>1, <1>3, <1>4
  <2>2. /\ IsFiniteSet(Creators \ {c}) /\ Cardinality(Creators) \in Nat
        /\ Cardinality(Creators \ {c}) \in Nat
        /\ Cardinality(Creators \ {c}) = Cardinality(Creators) - 1
    BY <1>4, FS_RemoveElement, FS_CardinalityType
  <2> QED
    BY <1>2, <1>4, <2>1, <2>2
<1>5. CASE c \notin Creators /\ c \in Creators'
  <2>1. Creators' = Creators \union {c}
    BY <1>1, <1>3, <1>5
  <2>2. /\ IsFiniteSet(Creators \union {c}) /\ Cardinality(Creators) \in Nat
        /\ Cardinality(Creators \union {c}) \in Nat
        /\ Cardinality(Creators \union {c}) = Cardinality(Creators) + 1
    BY <1>5, FS_AddElement, FS_CardinalityType
  <2> QED
    BY <1>2, <1>5, <2>1, <2>2
<1>6. CASE c \in Creators <=> c \in Creators'
  <2>1. Creators' = Creators
    BY <1>1, <1>3, <1>6
  <2>2. Cardinality(Creators) \in Nat
    BY FS_CardinalityType
  <2> QED
    BY <1>2, <1>6, <2>1, <2>2
<1> QED
  BY <1>4, <1>5, <1>6

\* Next date and number of occurrences go together.
LEMMA CountsKept ==
  ASSUME TypeOK, CopiesOK, ending' = ending, NEW c \in Calls, Effect(c),
         CountOK(task), \A d \in Calls : CountOK(call[d].row)
  PROVE  CountOK(task)' /\ \A d \in Calls : CountOK(call[d].row)'
<1>1. call[c] \in Call /\ call[c].row \in Row /\ task \in Row
  BY FieldsTyped DEF TypeOK
<1>2. \A d \in Calls \ {c} : call'[d] = call[d]
  BY DEF Effect, Only
<1>3. CountOK(task)
  OBVIOUS
<1>4. CountOK(call[c].row)
  OBVIOUS
<1>5. CountOK(task)' /\ CountOK(call[c].row)'
  <2>1. CASE Asked(c) \/ Dropped(c) \/ Died(c) \/ StateSaved(c)
    <3>1. task' = task /\ call'[c].row = NoCall.row
      BY <2>1 DEF Asked, Dropped, Died, StateSaved
    <3>2. NoCall.row.next = 0
      BY DEF NoCall, FreshRow
    <3> QED
      BY <1>3, <3>1, <3>2 DEF CountOK
  <2>2. CASE Scheduled(c)
    BY <1>3, <2>2 DEF Scheduled, CountOK
  <2>3. CASE Confirmed(c) \/ Noted(c) \/ MetaSaved(c)
    <3>1. task' = task /\ call'[c].row = call[c].row
      BY <1>1, <2>3 DEF Confirmed, Noted, MetaSaved, On, Call
    <3> QED
      BY <1>3, <1>4, <3>1 DEF CountOK
  <2>4. CASE Fetched(c) \/ Taken(c)
    BY <1>3, <2>4 DEF Fetched, Taken, Copied, CountOK
  <2>5. CASE Judged(c)
    <3>1. task' = task /\ call'[c].row.next = call[c].row.next
          /\ call'[c].row.count = call[c].row.count
      BY <2>5, JudgedRow DEF Judged
    <3> QED
      BY <1>3, <1>4, <3>1 DEF CountOK
  <2>6. CASE Mailed(c)
    <3>1. task' = task /\ call'[c].row.next = call[c].row.next
          /\ call'[c].row.count = call[c].row.count
      BY <2>6, MailedRow DEF Mailed
    <3> QED
      BY <1>3, <1>4, <3>1 DEF CountOK
  <2>7. CASE Saved(c)
    <3>1. task'.next = call[c].row.next /\ task'.count = call[c].row.count
      BY <1>1, <2>7 DEF Saved, Row
    <3>2. call'[c].row = call[c].row \/ call'[c].row.next = 0
      BY <1>1, <2>7 DEF Saved, On, Call, NoCall, FreshRow
    <3> QED
      BY <1>4, <3>1, <3>2 DEF CountOK
  <2>8. CASE Bred(c)
    <3>1. task' = task
      BY <2>8 DEF Bred
    <3>2. CASE call'[c].row.next = 0
      BY <1>3, <3>1, <3>2 DEF CountOK
    <3>3. CASE call'[c].row.next # 0
      <4>1. /\ call'[c].row.next = call[c].row.next + 1
            /\ call'[c].row.count = call[c].row.count + 1
            /\ call[c].pc = "create"
        BY <2>8, <3>3 DEF Bred
      <4>2. /\ call[c].row.next \in Nat /\ call[c].row.count \in Nat
            /\ call[c].row.next # 0
        BY <1>1, <4>1 DEF Row, CopiesOK, TypeOK, First
      <4> QED
        BY <1>3, <1>4, <3>1, <4>1, <4>2 DEF CountOK, First
    <3> QED
      BY <3>2, <3>3
  <2> QED
    BY <2>1, <2>2, <2>3, <2>4, <2>5, <2>6, <2>7, <2>8 DEF Effect
<1>6. \A d \in Calls \ {c} : CountOK(call[d].row)'
  BY <1>2 DEF CountOK
<1> QED
  BY <1>5, <1>6

\* An occurrence is inserted on a date on which the task is to occur.
LEMMA Inserts ==
  ASSUME TypeOK, CopiesOK, NEW c \in Calls, Effect(c), \A d \in Calls : CountOK(call[d].row),
         children' # children
  PROVE  /\ call[c].pc = "create" /\ ~dated
         /\ call[c].row.next \in Dates /\ call[c].row.next \in Wanted
         /\ children' = [children EXCEPT ![call[c].row.next] = @ + 1]
         /\ overlaps' = overlaps /\ deaths' = deaths
<1>1. Bred(c)
  BY DEF Effect, Asked, Scheduled, Confirmed, Dropped, Died, Fetched, Taken, Copied,
     Judged, Saved, Noted, MetaSaved, StateSaved, Mailed, cronVars
<1>2. /\ call[c].pc = "create" /\ ~dated /\ ~Over(call[c].row)
      /\ children' = [children EXCEPT ![call[c].row.next] = @ + 1]
      /\ overlaps' = overlaps /\ deaths' = deaths
  BY <1>1 DEF Bred
<1>3. call[c].row \in Row
  BY FieldsTyped DEF TypeOK
<1>4. call[c].row.next \in First .. day
  BY <1>2 DEF CopiesOK
<1>5. call[c].row.next \in Dates /\ call[c].row.next # 0
  BY <1>4, CronAssumption DEF Dates, TypeOK, First
<1>6. /\ ending \in {"never", "on_date", "after_occurrences"}
      /\ call[c].row.next = First + call[c].row.count
  BY <1>5 DEF CountOK, TypeOK, Endings
<1>7. call[c].row.next \in Wanted
  <2>1. CASE ending = "never"
    BY <1>5, <2>1 DEF Wanted
  <2>2. CASE ending = "on_date"
    <3>1. ~ (call[c].row.next > EndDate)
      BY <1>2, <2>2 DEF Over
    <3>2. call[c].row.next \in Nat /\ EndDate \in Nat
      BY <1>5, CronAssumption, DatesFinite
    <3>3. call[c].row.next <= EndDate
      BY <3>1, <3>2
    <3> QED
      BY <1>5, <2>2, <3>3 DEF Wanted
  <2>3. CASE ending = "after_occurrences"
    <3>1. call[c].row.next < First + EndCount
      BY <1>2, <1>3, <1>6, <2>3, CronAssumption DEF Over, Row, First
    <3> QED
      BY <1>5, <2>3, <3>1 DEF Wanted
  <2> QED
    BY <1>6, <2>1, <2>2, <2>3
<1> QED
  BY <1>2, <1>5, <1>7

\* Numbers that do not become smaller have a sum that does not.
LEMMA SumKept ==
  ASSUME NEW a \in Nat, NEW b \in Nat, NEW x \in Nat, NEW y \in Nat, a <= x, b <= y
  PROVE  a + b \in Nat /\ x + y \in Nat /\ a + b <= x + y
  OBVIOUS

\* Overlaps and deaths only become more.
LEMMA BudgetGrows ==
  ASSUME TypeOK, TypeOK', NEW c \in Calls, Effect(c)
  PROVE  /\ overlaps + deaths \in Nat /\ overlaps' + deaths' \in Nat
         /\ overlaps + deaths <= overlaps' + deaths'
<1>1. overlaps \in Nat /\ deaths \in Nat /\ overlaps' \in Nat /\ deaths' \in Nat
  BY DEF TypeOK
<1>2. overlaps' \in {overlaps, overlaps + 1} /\ deaths' \in {deaths, deaths + 1}
  BY DEF Effect, Asked, Scheduled, Joined, Confirmed, Dropped, Died, Fetched, Taken, Copied,
     Judged, Saved, Noted, MetaSaved, StateSaved, Mailed, Bred
<1>3. overlaps <= overlaps' /\ deaths <= deaths'
  BY <1>1, <1>2
<1> QED
  BY <1>1, <1>3, SumKept, Zenon

\* An occurrence is wanted; a repeated one was accounted for as the copy was taken that its
\* date is in.
LEMMA RepeatedKept ==
  ASSUME TypeOK, TypeOK', CopiesOK, NoDateSkipped, RepeatsInv, ending' = ending, dated' = dated,
         NEW c \in Calls, Effect(c)
  PROVE  OnlyWanted' /\ Repeated' <= overlaps' + deaths' /\ Reach'
<1>1. CASE children' = children
  BY <1>1, TotalsStay, TotalsTyped, BudgetGrows DEF RepeatsInv, OnlyWanted, Reach
<1>2. CASE children' # children
  <2> DEFINE n == call[c].row.next
  <2>1. /\ call[c].pc = "create" /\ ~dated /\ n \in Dates /\ n \in Wanted
        /\ children' = [children EXCEPT ![n] = @ + 1]
        /\ overlaps' = overlaps /\ deaths' = deaths
    BY <1>2, Inserts DEF RepeatsInv
  <2> HIDE DEF n
  <2>2. Total' = Total + 1 /\ Repeated' = IF children[n] > 0 THEN Repeated + 1 ELSE Repeated
    BY <2>1, TotalsGrow
  <2>3. /\ Total \in Nat /\ Repeated \in Nat /\ overlaps \in Nat /\ deaths \in Nat
        /\ n \in Nat /\ n >= First /\ First \in Nat
        /\ \A d \in Dates : d \in Nat /\ d >= First
    BY <2>1, TotalsTyped, DatesFinite DEF TypeOK, First
  <2>4. \A d \in Dates : /\ d # n => children'[d] = children[d]
                         /\ children'[n] = children[n] + 1 /\ children[n] \in Nat
    BY <2>1 DEF TypeOK
  <2>5. OnlyWanted'
    <3>1. Wanted' = Wanted
      BY DEF Wanted
    <3>2. \A d \in Dates : children'[d] > 0 => d \in Wanted /\ ~dated
      BY <2>1, <2>4 DEF RepeatsInv, OnlyWanted
    <3> QED
      BY <3>1, <3>2 DEF OnlyWanted
  <2>6. CASE children[n] > 0
    <3>1. Repeated + (n + 1 - First) <= Total
      BY <2>1, <2>6 DEF RepeatsInv, Reach
    <3>2. Total + 1 + First <= overlaps + deaths + n + 1
      <4>1. /\ CopiesPaced /\ IsFiniteSet(Creators)
        BY DEF RepeatsInv
      <4>2. n # 0 /\ Carrying(c) /\ c \in Creators
        BY <2>1, <2>3 DEF Carrying, Creators, First
      <4>3. Begun + First <= overlaps + deaths + n + 1
        BY <2>1, <4>1, <4>2 DEF CopiesPaced, n
      <4>4. Cardinality(Creators) \in Nat /\ Cardinality(Creators) # 0
        BY <4>1, <4>2, FS_EmptySet, FS_CardinalityType
      <4> QED
        BY <2>3, <4>3, <4>4 DEF Begun
    <3>3. Repeated + 1 <= overlaps + deaths
      BY <2>3, <3>1, <3>2
    <3>4. Reach'
      <4>1. Repeated' = Repeated + 1 /\ Total' = Total + 1
        BY <2>2, <2>6
      <4>2. /\ Repeated <= Total
            /\ \A d \in Dates : children[d] > 0 => Repeated + (d + 1 - First) <= Total
        BY DEF RepeatsInv, Reach
      <4>3. \A d \in Dates : children'[d] > 0 => children[d] > 0
        BY <2>4, <2>6
      <4>4. \A d \in Dates : children'[d] > 0 => Repeated + 1 + (d + 1 - First) <= Total + 1
        BY <2>3, <4>2, <4>3
      <4>5. Repeated + 1 <= Total + 1
        BY <2>3, <4>2
      <4> QED
        BY <4>1, <4>4, <4>5 DEF Reach
    <3> QED
      BY <2>1, <2>2, <2>5, <2>6, <3>3, <3>4
  <2>7. CASE ~(children[n] > 0)
    <3>1. Repeated' = Repeated /\ Total' = Total + 1
      BY <2>2, <2>7
    <3>2. /\ Repeated <= Total
          /\ \A d \in Dates : children[d] > 0 => Repeated + (d + 1 - First) <= Total
      BY DEF RepeatsInv, Reach
    <3>3. Repeated + (n + 1 - First) <= Total + 1
      <4>1. CASE n = First
        BY <2>3, <3>2, <4>1
      <4>2. CASE n # First
        <5>1. n - 1 \in Dates
          BY <2>1, <2>3, <4>2, DatesFinite
        <5>2. children[n - 1] > 0
          <6>1. RowOK(call[c].row, hidden, children)
            BY DEF CopiesOK
          <6> QED
            BY <2>3, <4>2, <5>1, <6>1 DEF RowOK, n, First
        <5>3. Repeated + (n - 1 + 1 - First) <= Total
          BY <3>2, <5>1, <5>2
        <5> QED
          BY <2>3, <5>3
      <4> QED
        BY <4>1, <4>2
    <3>4. ASSUME NEW d \in Dates, children'[d] > 0 PROVE Repeated + (d + 1 - First) <= Total + 1
      <4>1. CASE d = n
        BY <3>3, <4>1
      <4>2. CASE d # n
        BY <2>3, <2>4, <3>2, <3>4, <4>2
      <4> QED
        BY <4>1, <4>2
    <3>5. Reach'
      BY <2>3, <3>1, <3>2, <3>4 DEF Reach
    <3>6. Repeated' <= overlaps' + deaths'
      BY <2>1, <3>1 DEF RepeatsInv
    <3> QED
      BY <2>5, <3>5, <3>6
  <2> QED
    BY <2>6, <2>7
<1> QED
  BY <1>1, <1>2

\* A handler at work that is not a run of the cron of the occurrences.
LEMMA NotBreeding ==
  ASSUME NEW c \in Calls, PlaceOK(c), call[c].pc \notin {"idle", "create", "save"}
  PROVE  ~Breeding
  BY DEF PlaceOK, Breeding, Running

\* A copy, and the row that is overwritten with it, is never far behind the occurrences.
LEMMA PaceKept ==
  ASSUME TypeOK, TypeOK', PlacesOK, CopiesOK, RepeatsInv, ending' = ending, dated' = dated,
         NEW c \in Calls, Effect(c)
  PROVE  CopiesPaced' /\ RowPaced'
<1> DEFINE One(b) == IF b THEN 1 ELSE 0
           B  == overlaps + deaths
           B2 == overlaps' + deaths'
           X  == Begun + First
           X2 == Begun' + First
           creates  == call[c].pc = "create"
           creates2 == call'[c].pc = "create"
           breeds   == Breeding
           breeds2  == Breeding'
<1> SUFFICES ASSUME ~dated
             PROVE  /\ \A d \in Calls : Carrying(d)' /\ call'[d].row.next # 0 =>
                          X2 <= B2 + call'[d].row.next + One(call'[d].pc = "create")
                    /\ task'.next # 0 => X2 <= B2 + task'.next + One(breeds2)
  BY DEF CopiesPaced, RowPaced
<1>1. /\ B \in Nat /\ B2 \in Nat /\ B <= B2
      /\ \A d \in Calls : call[d].row.next \in Nat /\ call'[d].row.next \in Nat
      /\ task.next \in Nat /\ task'.next \in Nat
  BY BudgetGrows, FieldsTyped DEF TypeOK, Row
<1>2. /\ \A d \in Calls : Carrying(d) /\ call[d].row.next # 0 =>
            X <= B + call[d].row.next + One(call[d].pc = "create")
      /\ task.next # 0 => X <= B + task.next + One(breeds)
  BY DEF RepeatsInv, CopiesPaced, RowPaced
<1>3. PlaceOK(c) /\ call[c] \in Call
  BY DEF PlacesOK, TypeOK
<1>4. \A d \in Calls \ {c} : call'[d] = call[d]
  BY DEF Effect, Only
<1>5. /\ X \in Nat /\ X2 \in Nat
      /\ Total' = Total => X2 + One(creates) = X + One(creates2)
      /\ Total' = Total + 1 => X2 + One(creates) = X + 1 + One(creates2)
  <2>1. /\ Cardinality(Creators) \in Nat /\ Cardinality(Creators') \in Nat
        /\ Cardinality(Creators') = Cardinality(Creators) - One(creates) + One(creates2)
    BY CreatorsMove DEF RepeatsInv, Effect
  <2>2. Total \in Nat /\ Total' \in Nat
    BY TotalsTyped, DatesFinite, SumsNumbers DEF TypeOK, Total
  <2>3. Begun = Total + Cardinality(Creators) /\ Begun' = Total' + Cardinality(Creators')
    BY DEF Begun
  <2>4. First \in Nat /\ One(creates) \in {0, 1} /\ One(creates2) \in {0, 1}
    BY DEF First
  <2> HIDE DEF One, creates, creates2
  <2> QED
    BY <2>1, <2>2, <2>3, <2>4
<1>6. children' = children => Total' = Total
  BY TotalsStay
<1> HIDE DEF B, B2, X, X2, breeds, breeds2
<1>7. ASSUME X2 + B <= X + B2 \/ Quiet,
             Carrying(c)' /\ call'[c].row.next # 0 =>
                X2 <= B2 + call'[c].row.next + One(call'[c].pc = "create"),
             task'.next # 0 => X2 <= B2 + task'.next + One(breeds2)
      PROVE  /\ \A d \in Calls : Carrying(d)' /\ call'[d].row.next # 0 =>
                   X2 <= B2 + call'[d].row.next + One(call'[d].pc = "create")
             /\ task'.next # 0 => X2 <= B2 + task'.next + One(breeds2)
  <2>1. ASSUME NEW d \in Calls, d # c, Carrying(d)', call'[d].row.next # 0
        PROVE  X2 <= B2 + call'[d].row.next + One(call'[d].pc = "create")
    <3>1. call'[d] = call[d]
      BY <1>4, <2>1
    <3>2. Carrying(d) /\ ~Quiet
      BY <2>1, <3>1 DEF Carrying, Quiet, Running
    <3>3. X <= B + call[d].row.next + One(call[d].pc = "create")
      BY <1>2, <2>1, <3>1, <3>2
    <3>4. X2 + B <= X + B2
      BY <1>7, <3>2
    <3> DEFINE n == call[d].row.next
               e == One(call[d].pc = "create")
    <3>5. n \in Nat /\ e \in {0, 1} /\ X <= B + n + e
      BY <1>1, <3>3
    <3> HIDE DEF n, e
    <3>6. X2 <= B2 + n + e
      BY <1>1, <1>5, <3>4, <3>5
    <3> QED
      BY <3>1, <3>6 DEF n, e
  <2> QED
    BY <1>7, <2>1
<1>10. CASE Asked(c)
  <2>1. /\ task' = task /\ children' = children /\ ~creates /\ ~creates2 /\ ~Carrying(c)'
        /\ B2 = IF Quiet THEN B ELSE B + 1
    BY <1>10 DEF Asked, Joined, cronVars, Carrying, B, B2, TypeOK
  <2>2. X2 = X
    BY <1>5, <1>6, <2>1
  <2>3. Quiet => ~breeds
    BY DEF Breeding, breeds
  <2>4. task'.next # 0 => X2 <= B2 + task'.next + One(breeds2)
    BY <1>1, <1>2, <1>5, <2>1, <2>2, <2>3
  <2>5. X2 + B <= X + B2
    BY <1>1, <1>5, <2>2
  <2> QED
    BY <1>7, <2>1, <2>4, <2>5
<1>11. CASE Scheduled(c)
  <2>1. /\ task' = task /\ children' = children /\ ~creates /\ call'[c].row = task
        /\ B2 = IF Quiet THEN B ELSE B + 1
        /\ creates2 <=> call'[c].op = "recurrence"
    BY <1>11 DEF Scheduled, Joined, B, B2, TypeOK
  <2>2. X2 = X + One(creates2)
    BY <1>5, <1>6, <2>1
  <2>3. Quiet => ~breeds
    BY DEF Breeding, breeds
  <2>4. creates2 => (Quiet \/ breeds => breeds2)
    <3>1. Running(c)'
      BY <1>11 DEF Scheduled, Running
    <3>2. ASSUME creates2, Quiet \/ breeds, NEW d \in Calls, Running(d)'
          PROVE  call'[d].op = "recurrence"
      BY <1>4, <2>1, <3>2 DEF Breeding, Quiet, Running, breeds
    <3> QED
      BY <3>1, <3>2 DEF Breeding, Quiet, breeds2
  <2>5. X2 + B <= X + B2 \/ Quiet
    BY <1>1, <1>5, <2>1, <2>2
  <2>6. task'.next # 0 => X2 <= B2 + task'.next + One(breeds2)
    <3>1. CASE creates2
      BY <1>1, <1>2, <1>5, <2>1, <2>2, <2>3, <2>4, <3>1
    <3>2. CASE ~creates2
      BY <1>1, <1>2, <1>5, <2>1, <2>2, <2>3, <3>2
    <3> QED
      BY <3>1, <3>2
  <2>7. task'.next # 0 => X2 <= B2 + call'[c].row.next + One(creates2)
    BY <1>1, <1>2, <1>5, <2>1, <2>2, <2>3
  <2> QED
    BY <1>7, <2>1, <2>5, <2>6, <2>7
<1>12. CASE Died(c)
  <2>1. /\ task' = task /\ children' = children /\ ~creates2 /\ ~Carrying(c)' /\ B2 = B + 1
    BY <1>12 DEF Died, cronVars, Carrying, NoCall, B, B2, TypeOK
  <2>2. X2 <= X
    BY <1>5, <1>6, <2>1
  <2>3. task'.next # 0 => X2 <= B2 + task'.next + One(breeds2)
    BY <1>1, <1>2, <1>5, <2>1, <2>2
  <2>4. X2 + B <= X + B2
    BY <1>1, <1>5, <2>1, <2>2
  <2> QED
    BY <1>7, <2>1, <2>3, <2>4
<1>13. CASE Fetched(c) \/ Taken(c)
  <2>1. /\ task' = task /\ children' = children /\ ~creates /\ ~creates2 /\ B2 = B
        /\ call'[c].row.next = task.next /\ call[c].pc = "load"
    BY <1>13 DEF Fetched, Taken, Copied, cronVars, B, B2
  <2>2. X2 = X
    BY <1>5, <1>6, <2>1
  <2>3. ~breeds
    BY <1>3, <2>1, NotBreeding DEF breeds
  <2>4. task'.next # 0 => X2 <= B2 + task'.next
    BY <1>1, <1>2, <1>5, <2>1, <2>2, <2>3
  <2>5. X2 + B <= X + B2
    BY <1>1, <1>5, <2>1, <2>2
  <2> QED
    BY <1>1, <1>5, <1>7, <2>1, <2>4, <2>5
<1>14. CASE Saved(c)
  <2>1. /\ children' = children /\ ~creates /\ B2 = B
        /\ call[c].pc = "save"
    BY <1>14 DEF Saved, cronVars, B, B2
  <2>2. task'.next = call[c].row.next
    BY FieldsTyped, <1>14 DEF Saved, TypeOK, Row
  <2>3. ~creates2 /\ ~Carrying(c)'
    BY <1>3, <1>14 DEF Saved, On, Carrying, NoCall, Call
  <2>4. X2 = X
    BY <1>5, <1>6, <2>1, <2>3
  <2>5. call[c].row.next # 0 => X <= B + call[c].row.next
    BY <1>1, <1>2, <1>5, <2>1 DEF Carrying
  <2>6. task'.next # 0 => X2 <= B2 + task'.next + One(breeds2)
    BY <1>1, <1>5, <2>1, <2>2, <2>4, <2>5
  <2>7. X2 + B <= X + B2
    BY <1>1, <1>5, <2>1, <2>4
  <2> QED
    BY <1>7, <2>3, <2>6, <2>7
<1>15. CASE Bred(c)
  <2>1. /\ task' = task /\ creates /\ ~creates2 /\ B2 = B
        /\ call[c].pc = "create" /\ call'[c].pc = "save" /\ call'[c].op = call[c].op
    BY <1>15 DEF Bred, B, B2
  <2>2. breeds => breeds2
    <3>1. Running(c) /\ Running(c)'
      BY <2>1 DEF Running
    <3>2. ASSUME breeds, NEW d \in Calls, Running(d)' PROVE call'[d].op = "recurrence"
      BY <1>4, <2>1, <3>1, <3>2 DEF Breeding, Running, breeds
    <3> QED
      BY <3>1, <3>2 DEF Breeding, Quiet, breeds2
  <2>3. CASE children' = children /\ call'[c].row.next = 0
    <3>1. X2 + 1 = X
      BY <1>5, <1>6, <2>1, <2>3
    <3>2. task'.next # 0 => X2 <= B2 + task'.next + One(breeds2)
      BY <1>1, <1>2, <1>5, <2>1, <2>2, <3>1
    <3>3. X2 + B <= X + B2
      BY <1>1, <1>5, <2>1, <3>1
    <3> QED
      BY <1>7, <2>3, <3>2, <3>3
  <2>4. CASE children' # children
    <3> DEFINE n == call[c].row.next
    <3>1. /\ n \in Dates /\ n \in Wanted /\ children' = [children EXCEPT ![n] = @ + 1]
      BY <2>4, Inserts DEF RepeatsInv
    <3>2. call'[c].row.next \in {0, n + 1}
      BY <2>4, <1>15 DEF Bred
    <3>3. X <= B + n + 1
      <4>1. n # 0 /\ Carrying(c)
        BY <2>1, <3>1, DatesFinite DEF Carrying, First
      <4> QED
        BY <1>2, <2>1, <4>1
    <3> HIDE DEF n
    <3>4. Total' = Total + 1
      BY <3>1, TotalsGrow
    <3>5. X2 = X
      BY <1>5, <2>1, <3>4
    <3>6. n \in Nat
      BY <3>1, DatesFinite
    <3>7. call'[c].row.next # 0 => X2 <= B2 + call'[c].row.next
      BY <1>1, <1>5, <2>1, <3>2, <3>3, <3>5, <3>6
    <3>8. task'.next # 0 => X2 <= B2 + task'.next + One(breeds2)
      BY <1>1, <1>2, <1>5, <2>1, <2>2, <3>5
    <3>9. X2 + B <= X + B2
      BY <1>1, <1>5, <2>1, <3>5
    <3> QED
      BY <1>1, <1>5, <1>7, <2>1, <3>7, <3>8, <3>9
  <2>5. children' = children => call'[c].row.next = 0
    <3>1. CASE call'[c].row.next = 0
      BY <3>1
    <3>2. CASE children' = [children EXCEPT ![call[c].row.next] = @ + 1]
      <4> DEFINE n == call[c].row.next
      <4>1. n \in Dates
        BY <2>1, CronAssumption DEF CopiesOK, Dates, TypeOK, First
      <4> HIDE DEF n
      <4>2. children'[n] = children[n] + 1 /\ children[n] \in Nat
        BY <3>2, <4>1 DEF TypeOK, n
      <4>3. children' # children
        BY <4>2
      <4> QED
        BY <4>3
    <3> QED
      BY <1>15, <3>1, <3>2 DEF Bred
  <2> QED
    BY <2>3, <2>4, <2>5
<1>16. CASE \/ Confirmed(c) \/ Judged(c) \/ Noted(c) \/ MetaSaved(c) \/ StateSaved(c) \/ Mailed(c)
            \/ (Dropped(c) /\ ~creates)
  <2>1. /\ task' = task /\ children' = children /\ B2 = B
        /\ call[c].pc \notin {"idle", "create", "save"}
    BY <1>16 DEF Confirmed, Dropped, Judged, Noted, MetaSaved, StateSaved, Mailed, cronVars, B, B2
  <2>2. ~creates2
    <3>1. CASE Mailed(c)
      BY <3>1, MailedRow
    <3> QED
      BY <1>3, <1>16, <3>1 DEF Confirmed, Dropped, Judged, Noted, MetaSaved, StateSaved, On, NoCall,
         Call
  <2>3. Carrying(c)' => Carrying(c) /\ call'[c].row.next = call[c].row.next
    <3>1. CASE Mailed(c)
      BY <3>1, MailedRow DEF Mailed, Carrying
    <3>2. CASE Judged(c)
      BY <3>2, JudgedRow DEF Judged, Carrying
    <3>3. CASE Confirmed(c) \/ Dropped(c) \/ StateSaved(c)
      BY <1>3, <3>3 DEF Confirmed, Dropped, StateSaved, On, NoCall, Call, Carrying
    <3>4. CASE Noted(c) \/ MetaSaved(c)
      BY <1>3, <3>4 DEF Noted, MetaSaved, On, Call, Carrying
    <3> QED
      BY <1>16, <3>1, <3>2, <3>3, <3>4
  <2>4. X2 = X
    BY <1>5, <1>6, <2>1, <2>2
  <2>5. ~breeds
    BY <1>3, <2>1, NotBreeding DEF breeds
  <2>6. task'.next # 0 => X2 <= B2 + task'.next + One(breeds2)
    BY <1>1, <1>2, <1>5, <2>1, <2>4, <2>5
  <2>7. Carrying(c) /\ call[c].row.next # 0 => X <= B + call[c].row.next
    BY <1>2, <1>1, <1>5, <2>1
  <2>8. X2 + B <= X + B2
    BY <1>1, <1>5, <2>1, <2>4
  <2>9. Carrying(c)' /\ call'[c].row.next # 0 => X2 <= B2 + call'[c].row.next
    BY <2>1, <2>3, <2>4, <2>7
  <2> QED
    BY <1>1, <1>5, <1>7, <2>2, <2>6, <2>8, <2>9
<1>17. CASE Dropped(c) /\ creates
  <2>1. /\ task' = task /\ children' = children /\ ~creates2 /\ ~Carrying(c)' /\ B2 = B
    BY <1>17 DEF Dropped, cronVars, Carrying, NoCall, B, B2
  <2>2. X2 + 1 = X
    BY <1>5, <1>6, <1>17, <2>1
  <2>3. task'.next # 0 => X2 <= B2 + task'.next + One(breeds2)
    BY <1>1, <1>2, <1>5, <2>1, <2>2
  <2>4. X2 + B <= X + B2
    BY <1>1, <1>5, <2>1, <2>2
  <2> QED
    BY <1>7, <2>1, <2>3, <2>4
<1>18. CASE Dropped(c)
  <2>1. CASE creates
    BY <1>17, <1>18, <2>1
  <2>2. CASE ~creates
    BY <1>16, <1>18, <2>2
  <2> QED
    BY <2>1, <2>2
<1>19. CASE Confirmed(c) \/ Judged(c) \/ Noted(c) \/ MetaSaved(c) \/ StateSaved(c) \/ Mailed(c)
  BY <1>16, <1>19
<1> QED
  BY <1>10, <1>11, <1>12, <1>13, <1>14, <1>15, <1>18, <1>19, Zenon DEF Effect

\* A step of a call keeps the account.
LEMMA RepeatsKept ==
  ASSUME TasksInv, TypeOK', RepeatsInv, ending' = ending, dated' = dated,
         NEW c \in Calls, Effect(c)
  PROVE  RepeatsInv'
<1>1. TypeOK /\ PlacesOK /\ CopiesOK /\ NoDateSkipped
  BY DEF TasksInv
<1>2. IsFiniteSet(Creators')
  BY CreatorsMove DEF RepeatsInv, Effect
<1>3. CountOK(task)' /\ \A d \in Calls : CountOK(call[d].row)'
  BY <1>1, CountsKept DEF RepeatsInv
<1>4. OnlyWanted' /\ Repeated' <= overlaps' + deaths' /\ Reach'
  BY <1>1, RepeatedKept
<1>5. CopiesPaced' /\ RowPaced'
  BY <1>1, PaceKept
<1> QED
  BY <1>2, <1>3, <1>4, <1>5 DEF RepeatsInv

\* Where nothing but the time changes, so does a step that is none of a call.
LEMMA RepeatsRest ==
  ASSUME RepeatsInv, ending' = ending, dated' = dated,
         UNCHANGED <<task, call, overlaps, deaths, children>>
  PROVE  RepeatsInv'
<1>1. Total' = Total /\ Repeated' = Repeated /\ Wanted' = Wanted
  BY TotalsStay
<1>2. Creators' = Creators
  BY DEF Creators
<1>3. Begun' = Begun
  BY <1>1, <1>2 DEF Begun
<1>4. CountOK(task)' /\ \A d \in Calls : CountOK(call[d].row)'
  BY DEF RepeatsInv, CountOK
<1>5. OnlyWanted' /\ Reach'
  BY <1>1 DEF RepeatsInv, OnlyWanted, Reach
<1>6. CopiesPaced'
  BY <1>3 DEF RepeatsInv, CopiesPaced, Carrying
<1>7. RowPaced'
  <2>1. Breeding' <=> Breeding
    BY DEF Breeding, Quiet, Running
  <2> QED
    BY <1>3, <2>1 DEF RepeatsInv, RowPaced
<1> QED
  BY <1>1, <1>2, <1>4, <1>5, <1>6, <1>7 DEF RepeatsInv

LEMMA RepeatsStep == TasksInv /\ RepeatsInv /\ [Next]_vars => RepeatsInv'
<1> SUFFICES ASSUME TasksInv, RepeatsInv, [Next]_vars PROVE RepeatsInv'
  OBVIOUS
<1>1. TypeOK
  BY DEF TasksInv
<1>2. ending' = ending /\ dated' = dated
  BY ShapeStays
<1>3. ASSUME NEW c \in Calls,
             \/ Request(c) /\ UNCHANGED cronVars
             \/ Cron(c)
             \/ Step(c)
             \/ Crash(c) /\ UNCHANGED cronVars
      PROVE  RepeatsInv'
  <2>1. TypeOK' /\ Effect(c)
    BY <1>1, <1>3, CallActs
  <2> QED
    BY <1>2, <2>1, RepeatsKept
<1>4. CASE Clock
  BY <1>1, <1>2, <1>4, ClockActs, RepeatsRest
<1>5. CASE UNCHANGED vars
  <2>1. UNCHANGED <<task, call, overlaps, deaths, children>>
    BY <1>5 DEF vars, workflowVars, cronVars
  <2> QED
    BY <1>2, <2>1, RepeatsRest
<1> QED
  BY <1>3, <1>4, <1>5 DEF Next

\* processRecurrence inserts a second occurrence of a date, or one beyond the end of the
\* recurrence, and overdueEscalation sends a second mail, only as often as a handler has
\* begun beside another one or died: a copy of the row that is saved late is behind by no
\* more occurrences than that.
THEOREM TasksRepeats == Spec => []RepeatsAccounted
<1>1. TypeOK /\ RepeatsInv /\ MailsAccounted => RepeatsAccounted
  BY TotalsTyped DEF RepeatsInv, RepeatsAccounted
<1> QED
  BY <1>1, RepeatsInit, RepeatsStep, TasksAlways, TasksTyped, TasksMails, PTL DEF Spec
=============================================================================
