---------------------------- MODULE TaskWorkflow ----------------------------
(***************************************************************************)
(* One task and its approval record (tasks.service.ts): its status, the    *)
(* MOV checklist that its assignees tick off, and the decisions of its     *)
(* approvers.                                                              *)
(*                                                                         *)
(* Every handler loads the whole row, changes its copy, and saves the copy *)
(* with every column in it, some statements later; the approval record is  *)
(* read and saved the same way, without a transaction.                     *)
(***************************************************************************)
EXTENDS Naturals, FiniteSets

CONSTANTS
    Users,       \* who works with the task
    Approvers,   \* approval_required_user_ids
    Admins,      \* users of an admin role
    Creator,     \* created_by_id
    Movs,        \* the items of the checklist
    OwnerOf,     \* whom an item is assigned to
    Calls,       \* the handlers that may run at the same time
    MaxRequests, \* bound on the requests of the users
    MaxOverlaps, \* bound on the handlers that begin while another one runs
    MaxDeaths    \* bound on the handlers the process dies in

ASSUME TaskAssumption ==
    /\ Approvers \subseteq Users /\ Approvers # {}
    /\ Admins \subseteq Users
    /\ Creator \in Users
    /\ OwnerOf \in [Movs -> Users]
    /\ MaxRequests \in Nat /\ MaxOverlaps \in Nat /\ MaxDeaths \in Nat

TaskStatus == {"draft", "open", "in_progress", "blocked", "pending_approval", "approved",
               "rejected", "completed", "closed", "cancelled"}

Workflows == {"standard", "approval_required"}
Decision  == {"pending", "approved", "rejected"}

\* What a handler holds of the row: a date that is null is 0.
Row == [status  : TaskStatus,
        movs    : SUBSET Movs,      \* mov_assignments; mov_items only tells the percentage
        checked : SUBSET (Movs \X Users), \* last_progress_notes: an index and who ticked it
        next    : Nat,              \* recurrence_next_date
        count   : Nat,              \* recurrence_created_count
        told    : BOOLEAN]          \* overdue_email_sent

\* A decision that was never recorded is pending.
Approval == [exists : BOOLEAN,
             meta   : [Approvers -> Decision],                      \* approvals_meta
             status : {"null", "pending_approval", "approved", "rejected"}]

Requests == {"update", "transition", "assign", "reassign", "approve", "complete", "progress"}
Crons    == {"overdue", "cutoff", "recurrence"}

CallSteps == {"idle", "confirm", "load", "decide", "read_meta", "save_meta", "save",
              "read_state", "save_state", "send", "create"}

VARIABLES
    workflow,    \* workflow_type
    task,        \* the row of tasks
    approval,    \* the row of task_approvals
    call,        \* the handlers
    left,        \* how many requests may still come
    overlaps,    \* how many handlers began while another one ran
    deaths,      \* how many died
    ever,        \* history: who has ever approved
    decided,     \* history: what each approver last decided, since the last rework
    hidden       \* history: a checklist was loaded without the items of others to be saved

workflowVars == <<workflow, task, approval, call, left, overlaps, deaths, ever, decided, hidden>>

Call == [pc    : CallSteps,
         op    : Requests \union Crons \union {"none"},
         user  : Users,
         want  : TaskStatus \union {"keep"},   \* dto.status
         yes   : BOOLEAN,                      \* dto.approve, force_complete; notes are sent
         ticks : SUBSET Movs,                  \* the indices in the notes sent
         row   : Row,                          \* its copy of the row
         rec   : Approval,                     \* and of the approval record
         meta  : [Approvers -> Decision]]      \* the decisions it is about to save

Pending == [u \in Approvers |-> "pending"]

NoApproval == [exists |-> FALSE, meta |-> Pending, status |-> "null"]

FreshRow(status, next) ==
    [status |-> status, movs |-> Movs, checked |-> {}, next |-> next, count |-> 0, told |-> FALSE]

NoCall == [pc |-> "idle", op |-> "none", user |-> Creator, want |-> "keep", yes |-> FALSE,
           ticks |-> {}, row |-> FreshRow("open", 0), rec |-> NoApproval, meta |-> Pending]

WorkflowInit ==
    /\ call = [c \in Calls |-> NoCall]
    /\ left = MaxRequests
    /\ overlaps = 0
    /\ deaths = 0
    /\ ever = {}
    /\ decided = Pending
    /\ hidden = FALSE

-----------------------------------------------------------------------------
Running(c) == call[c].pc # "idle"

Quiet == \A c \in Calls : ~Running(c)

\* No handler has overlapped with another one or died.
Undisturbed == overlaps = 0 /\ deaths = 0

Set(c, r) == call' = [call EXCEPT ![c] = r]

Goto(c, pc) == call' = [call EXCEPT ![c].pc = pc]

End(c) == Set(c, NoCall)

\* A handler begins in a free slot, no matter which.
Begin(c, r) ==
    /\ call[c].pc = "idle"
    /\ c = CHOOSE x \in Calls : call[x].pc = "idle"
    /\ Set(c, r)
    /\ IF Quiet THEN UNCHANGED overlaps
       ELSE overlaps < MaxOverlaps /\ overlaps' = overlaps + 1

Final == {"closed", "cancelled"}

\* The transitions update allows.
Allowed(status) ==
    CASE status = "draft"            -> {"open"}
      [] status = "open"             -> {"in_progress", "cancelled"}
      [] status = "in_progress"      -> {"completed", "cancelled", "blocked"}
      [] status = "blocked"          -> {"in_progress", "cancelled"}
      [] status = "completed"        -> {"in_progress",
                                         IF workflow = "standard" THEN "closed"
                                                                  ELSE "pending_approval"}
      [] status = "pending_approval" -> {"approved", "rejected", "closed", "in_progress"}
      [] status = "approved"         -> {"closed"}
      [] status = "rejected"         -> {"in_progress", "cancelled"}
      [] status \in Final            -> {}

\* filterMovItemsForUser: a user who is not the creator sees the items assigned to them.
Filtered(row, u) ==
    IF u = Creator THEN row
    ELSE [row EXCEPT !.movs = {m \in @ : OwnerOf[m] = u}]

Ticked(row) == {t[1] : t \in row.checked}

\* getMovCompletionSummary
AllMovsDone(row) == row.movs # {} /\ row.movs \subseteq Ticked(row)

-----------------------------------------------------------------------------
(* The requests                                                            *)

\* What a request says.  Who updates does not matter, and an update that sets the status
\* is the same as a transition that is forced.
Said(ops, users, wants, yes, ticks) ==
    [op : ops, user : users, want : wants, yes : yes, ticks : ticks]

Bodies ==
         Said({"update"}, {Creator}, {"keep"}, {FALSE}, {{}})
  \union Said({"transition"}, {Creator}, TaskStatus, {FALSE}, {{}})
  \union Said({"transition"}, {Creator}, {"completed"}, {TRUE}, {{}})
  \union Said({"assign", "reassign", "complete"}, Users, {"keep"}, {FALSE}, {{}})
  \union Said({"approve"}, Users, {"keep"}, BOOLEAN, {{}})
  \union Said({"progress"}, Users, {"keep"}, {TRUE}, SUBSET Movs)
  \union Said({"progress"}, Users, {"keep"}, {FALSE}, {{}})

Request(c) ==
    /\ left > 0
    /\ left' = left - 1
    /\ \E b \in Bodies :
          Begin(c, [NoCall EXCEPT !.op = b.op, !.user = b.user, !.want = b.want,
                                  !.yes = b.yes, !.ticks = b.ticks,
                                  !.pc = IF b.want = "completed" /\ ~b.yes THEN "confirm"
                                                                          ELSE "load"])
    /\ UNCHANGED <<workflow, task, approval, deaths, ever, decided, hidden>>

\* transitionStatus: completion must be forced while items are not ticked off.
Confirm(c) ==
    /\ call[c].pc = "confirm"
    /\ IF task.movs \subseteq Ticked(task) THEN Goto(c, "load") ELSE End(c)
    /\ UNCHANGED <<workflow, task, approval, left, overlaps, deaths, ever, decided, hidden>>

\* The call holds row and goes on at pc.
Hold(c, row, pc) == call' = [call EXCEPT ![c].row = row, ![c].pc = pc]

\* The row as its user is shown it, to be saved like that.
HoldShown(c, status, pc) ==
    /\ Hold(c, [Filtered(task, call[c].user) EXCEPT !.status = status], pc)
    /\ hidden' = (hidden \/ Filtered(task, call[c].user) # task)

\* An approved or rejected task that is reopened for rework loses its decisions first.
Rework(want) ==
    workflow = "approval_required" /\ task.status = "rejected" /\ want = "in_progress"

LoadUpdate(c) ==
    /\ call[c].pc = "load" /\ call[c].op \in {"update", "transition"}
    /\ LET want == call[c].want
           new  == want # "keep" /\ want # task.status
       IN  IF IF new THEN want \notin Allowed(task.status) ELSE task.status \in Final
           THEN End(c) /\ UNCHANGED decided
           ELSE /\ Hold(c, [task EXCEPT !.status = IF new THEN want ELSE @],
                        IF Rework(want) THEN "read_meta" ELSE "save")
                /\ decided' = IF Rework(want) THEN Pending ELSE decided
    /\ UNCHANGED <<workflow, task, approval, left, overlaps, deaths, ever, hidden>>

\* Mutant: assign loads what its user is shown.
LoadAssignShown(c) ==
    /\ call[c].pc = "load" /\ call[c].op = "assign"
    /\ Hold(c, [Filtered(task, call[c].user) EXCEPT !.status = IF @ = "draft" THEN "open" ELSE @],
            "save")
    /\ UNCHANGED <<workflow, task, approval, left, overlaps, deaths, ever, decided, hidden>>

\* assign: the assignees are left out of the model; a draft becomes open.
LoadAssign(c) ==
    /\ call[c].pc = "load" /\ call[c].op = "assign"
    /\ Hold(c, [task EXCEPT !.status = IF @ = "draft" THEN "open" ELSE @], "save")
    /\ UNCHANGED <<workflow, task, approval, left, overlaps, deaths, ever, decided, hidden>>

LoadReassign(c) ==
    /\ call[c].pc = "load" /\ call[c].op = "reassign"
    /\ HoldShown(c, task.status, "save")
    /\ UNCHANGED <<workflow, task, approval, left, overlaps, deaths, ever, decided>>

LoadComplete(c) ==
    /\ call[c].pc = "load" /\ call[c].op = "complete"
    /\ HoldShown(c, "completed", "save")
    /\ UNCHANGED <<workflow, task, approval, left, overlaps, deaths, ever, decided>>

\* validateMovProgressAccess: only one's own items; the creator only as an assignee.
Refused(u, ticks) ==
    /\ task.movs # {}
    /\ \/ u = Creator /\ \A m \in Movs : OwnerOf[m] # u
       \/ \E m \in ticks : m \notin task.movs \/ OwnerOf[m] # u

\* mergeMovProgressNotes: user u's ticks, in place of those u made before.
Merged(checked, u, ticks) ==
    {t \in checked : t[2] # u /\ t[1] \notin ticks} \union {<<m, u>> : m \in ticks}

\* updateProgress: without notes the ticks of all are lost, and progress is made.
LoadProgress(c) ==
    /\ call[c].pc = "load" /\ call[c].op = "progress"
    /\ LET u     == call[c].user
           ticks == call[c].ticks
           row   == [task EXCEPT !.checked = IF call[c].yes THEN Merged(@, u, ticks) ELSE {}]
           made  == ~call[c].yes \/ row.checked # {}
       IN  IF Refused(u, ticks) THEN End(c)
           ELSE Hold(c, [row EXCEPT !.status =
                             IF AllMovsDone(row) THEN "completed"
                             ELSE IF made /\ @ \in {"draft", "open"} THEN "in_progress" ELSE @],
                     "save")
    /\ UNCHANGED <<workflow, task, approval, left, overlaps, deaths, ever, decided, hidden>>

LoadApprove(c) ==
    /\ call[c].pc = "load" /\ call[c].op = "approve"
    /\ LET u == call[c].user
       IN  IF workflow = "approval_required" /\ u \in Approvers \union Admins
           THEN /\ HoldShown(c, task.status, "decide")
                /\ ever' = IF call[c].yes THEN ever \union ({u} \intersect Approvers) ELSE ever
                /\ decided' = [v \in Approvers |->
                                   IF v # u THEN decided[v]
                                   ELSE IF call[c].yes THEN "approved" ELSE "rejected"]
           ELSE End(c) /\ UNCHANGED <<ever, decided, hidden>>
    /\ UNCHANGED <<workflow, task, approval, left, overlaps, deaths>>

\* Mutant: one approval is enough.
OutcomeAny(meta, yes) ==
    IF yes /\ \E u \in Approvers : meta[u] = "approved" THEN "approved" ELSE "rejected"

\* The status that decisions meta lead to.
Outcome(meta, yes) ==
    IF ~yes THEN "rejected"
    ELSE IF \A u \in Approvers : meta[u] = "approved" THEN "approved"
    ELSE IF \E u \in Approvers : meta[u] = "rejected" THEN "rejected"
    ELSE "pending_approval"

\* approve: the decisions so far are read, and the user's own replaced.
Decide(c) ==
    /\ call[c].pc = "decide"
    /\ LET yes  == call[c].yes
           meta == [u \in Approvers |->
                        IF u # call[c].user THEN approval.meta[u]
                        ELSE IF yes THEN "approved" ELSE "rejected"]
       IN  call' = [call EXCEPT ![c].meta = meta,
                                ![c].row.status = Outcome(meta, yes),
                                ![c].pc = "save"]
    /\ UNCHANGED <<workflow, task, approval, left, overlaps, deaths, ever, decided, hidden>>

-----------------------------------------------------------------------------
(* The saves                                                               *)

\* The copy is written over the row.  approve and update go on with the approval record.
Save(c) ==
    /\ call[c].pc = "save"
    /\ call[c].op \in Requests
    /\ task' = call[c].row
    /\ CASE call[c].op = "approve"                   -> Goto(c, "read_meta")
         [] call[c].op \in {"update", "transition"}  -> Goto(c, "read_state")
         [] OTHER                                    -> End(c)
    /\ UNCHANGED <<workflow, approval, left, overlaps, deaths, ever, decided, hidden>>

ReadRecord(c) ==
    /\ call[c].pc \in {"read_meta", "read_state"}
    /\ call' = [call EXCEPT ![c].rec = approval,
                            ![c].pc = IF @ = "read_meta" THEN "save_meta" ELSE "save_state"]
    /\ UNCHANGED <<workflow, task, approval, left, overlaps, deaths, ever, decided, hidden>>

\* Record r is saved in place of the one call c has read; where it read none, another
\* handler may have inserted one: the key of the task is unique.
SaveRecord(c, r, pc) ==
    IF ~call[c].rec.exists /\ approval.exists
    THEN End(c) /\ UNCHANGED approval
    ELSE /\ approval' = [r EXCEPT !.exists = TRUE]
         /\ IF pc = "idle" THEN End(c) ELSE Goto(c, pc)

\* setTaskApprovalMeta: of approve after the row is saved, of a rework before.
SaveMeta(c) ==
    /\ call[c].pc = "save_meta"
    /\ SaveRecord(c, [call[c].rec EXCEPT !.meta = call[c].meta],
                  IF call[c].op = "approve" THEN "read_state" ELSE "save")
    /\ UNCHANGED <<workflow, task, left, overlaps, deaths, ever, decided, hidden>>

\* Mutant: a status that needs no approval leaves the old one.
StateOfOld(status, old) ==
    IF status \in {"pending_approval", "approved", "rejected"} THEN status ELSE old

\* The approval status that goes with the status of the task.
StateOf(status, old) ==
    IF status \in {"pending_approval", "approved", "rejected"} THEN status
    ELSE IF status = "closed" THEN old ELSE "null"

\* upsertTaskApprovalState
SaveState(c) ==
    /\ call[c].pc = "save_state"
    /\ LET rec == call[c].rec
       IN  SaveRecord(c, [rec EXCEPT !.status = StateOf(call[c].row.status, rec.status)], "idle")
    /\ UNCHANGED <<workflow, task, left, overlaps, deaths, ever, decided, hidden>>

\* The process dies in a handler.
Crash(c) ==
    /\ Running(c)
    /\ deaths < MaxDeaths
    /\ deaths' = deaths + 1
    /\ End(c)
    /\ UNCHANGED <<workflow, task, approval, left, overlaps, ever, decided, hidden>>

RequestStep(c) ==
    \/ Confirm(c)
    \/ LoadUpdate(c) \/ LoadAssign(c) \/ LoadReassign(c) \/ LoadComplete(c)
    \/ LoadProgress(c) \/ LoadApprove(c)
    \/ Decide(c)
    \/ Save(c)
    \/ ReadRecord(c) \/ SaveMeta(c) \/ SaveState(c)
=============================================================================
