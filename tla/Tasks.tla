------------------------------- MODULE Tasks --------------------------------
(***************************************************************************)
(* The task of TaskWorkflow under the crons of tasks-crons.service.ts: the *)
(* overdue mail, the occurrences of a recurring task, and the cutoff that  *)
(* completes it on the day before its next occurrence.  A cron keeps its   *)
(* copy of the row while it sends mail or inserts rows, as requests do.    *)
(***************************************************************************)
EXTENDS TaskWorkflow, FiniteSetsExt

CONSTANTS
    Days,        \* the days, from 1; the last one repeats
    Shapes,      \* what the task may be: see Shape
    EndDate,     \* recurrence_end_date
    EndCount     \* recurrence_end_occurrences

Endings == {"once", "never", "on_date", "after_occurrences"}

\* A task of a workflow that occurs once, or every day until its end; dated if it has a
\* start and a due date.  It is new, or waits for approval with a record that says so.
\* Beside it another recurring task may be due every night that makes the run fail.
Shape == [workflow : Workflows, ending : Endings, dated : BOOLEAN, beside : BOOLEAN,
          status : {"draft", "open", "pending_approval"}]

ASSUME CronAssumption ==
    /\ Days \in Nat \ {0, 1}
    /\ Shapes \subseteq Shape
    /\ EndDate \in Nat /\ EndCount \in Nat

\* A recurring task starts on day 1 and occurs from the next day on.
First == 2
Dates == First .. Days
Hours == <<"one", "two", "afternoon">>

VARIABLES
    ending,      \* recurrence_end_type, "once" for a task that does not recur
    dated,       \* start_date and due_date are set
    beside,      \* another recurring task that makes the run fail is due with this one
    day,         \* today
    hour,        \* an index of Hours
    fired,       \* the cron of this hour has been started
    children,    \* how many occurrences of each date were inserted
    mails        \* how often the overdue mail was sent

cronVars == <<ending, dated, beside, day, hour, fired, children, mails>>
vars     == <<workflowVars, cronVars>>

Init ==
    /\ WorkflowInit
    /\ \E s \in Shapes :
          /\ workflow = s.workflow
          /\ ending = s.ending
          /\ dated = s.dated
          /\ beside = s.beside
          /\ task = FreshRow(s.status, IF s.ending = "once" THEN 0 ELSE First)
          /\ approval = IF s.status = "pending_approval"
                        THEN [NoApproval EXCEPT !.exists = TRUE, !.status = s.status]
                        ELSE NoApproval
    /\ day = 1
    /\ hour = 1
    /\ fired = FALSE
    /\ children = [d \in Dates |-> 0]
    /\ mails = 0

-----------------------------------------------------------------------------
\* The hour strikes; the overdue mails of a night are out within their hour.  A server
\* that is down misses a cron.
Clock ==
    /\ \A c \in Calls : call[c].op # "overdue"
    /\ hour' = (hour % 3) + 1
    /\ day' = IF hour = 3 /\ day < Days THEN day + 1 ELSE day
    /\ fired' = FALSE
    /\ UNCHANGED <<workflowVars, ending, dated, beside, children, mails>>

CronOf(h) ==
    CASE h = "one" -> "overdue" [] h = "two" -> "recurrence" [] h = "afternoon" -> "cutoff"

Ended == {"completed", "closed", "cancelled"}

\* Mutant: the cutoff selects a task whatever its status.
SelectedEnded(op) ==
    CASE op = "overdue"    -> ~task.told /\ task.status \notin Ended
      [] op = "recurrence" -> task.next # 0 /\ task.next <= day
      [] op = "cutoff"     -> task.next = day + 1

\* The tasks a cron selects.
Selected(op) ==
    CASE op = "overdue"    -> ~task.told /\ task.status \notin Ended
      [] op = "recurrence" -> task.next # 0 /\ task.next <= day
      [] op = "cutoff"     -> task.next = day + 1 /\ task.status \notin Ended

\* A cron begins with a query for the tasks it is about, whose rows it keeps.  The cutoff
\* comes every hour from noon on.
Cron(c) ==
    LET op == CronOf(Hours[hour])
    IN  /\ ~fired
        /\ fired' = (op # "cutoff")
        /\ Selected(op)
        /\ Begin(c, [NoCall EXCEPT !.op = op, !.row = task,
                                   !.pc = CASE op = "overdue"    -> "send"
                                            [] op = "recurrence" -> "create"
                                            [] op = "cutoff"     -> "save"])
        /\ UNCHANGED <<workflow, task, approval, left, deaths, ever, decided, hidden,
                       ending, dated, beside, day, hour, children, mails>>

\* overdueEscalation: a mail that is sent is remembered.
Send(c) ==
    /\ call[c].pc = "send"
    /\ \/ /\ call' = [call EXCEPT ![c].row.told = TRUE, ![c].pc = "save"]
          /\ mails' = mails + 1
       \/ End(c) /\ UNCHANGED mails
    /\ UNCHANGED <<workflow, task, approval, left, overlaps, deaths, ever, decided, hidden,
                   ending, dated, beside, day, hour, fired, children>>

\* Mutant: the end date is left to the comparison after an occurrence.
OverCount(row) == ending = "after_occurrences" /\ row.count >= EndCount

\* The occurrences have come to their end.
Over(row) ==
    \/ ending = "after_occurrences" /\ row.count >= EndCount
    \/ ending = "on_date" /\ row.next > EndDate

\* Mutant: the next occurrence is counted from today.
AdvancedToday(row) ==
    LET r == [row EXCEPT !.next = day + 1, !.count = @ + 1]
    IN  IF ending = "after_occurrences" /\ r.count >= EndCount THEN [r EXCEPT !.next = 0] ELSE r

\* After an occurrence.  The new date is compared as a Date with the text of the end
\* date, which is never true: the next run is the one that finds the end.
Advanced(row) ==
    LET r == [row EXCEPT !.next = @ + 1, !.count = @ + 1]
    IN  IF ending = "after_occurrences" /\ r.count >= EndCount THEN [r EXCEPT !.next = 0] ELSE r

\* Mutant: the occurrence is of today.
CreateToday(c) ==
    /\ call[c].pc = "create"
    /\ LET row == call[c].row
       IN  IF Over(row)
           THEN call' = [call EXCEPT ![c].row.next = 0, ![c].pc = "save"] /\ UNCHANGED children
           ELSE /\ children' = [children EXCEPT ![day] = @ + 1]
                /\ call' = [call EXCEPT ![c].row = Advanced(row), ![c].pc = "save"]
    /\ UNCHANGED <<workflow, task, approval, left, overlaps, deaths, ever, decided, hidden,
                   ending, dated, beside, day, hour, fired, mails>>

\* processRecurrence, when the task's turn comes: the occurrence is inserted, unless the
\* end has come.  Dates are loaded as texts, so that a task with a start and a due date
\* throws.  What is thrown leaves the loop: the tasks after it are left alone, and they
\* come in no particular order.
Create(c) ==
    /\ call[c].pc = "create"
    /\ \/ beside /\ End(c) /\ UNCHANGED children
       \/ LET row == call[c].row
          IN  IF Over(row)
              THEN call' = [call EXCEPT ![c].row.next = 0, ![c].pc = "save"] /\ UNCHANGED children
              ELSE IF dated THEN End(c) /\ UNCHANGED children
              ELSE /\ children' = [children EXCEPT ![row.next] = @ + 1]
                   /\ call' = [call EXCEPT ![c].row = Advanced(row), ![c].pc = "save"]
    /\ UNCHANGED <<workflow, task, approval, left, overlaps, deaths, ever, decided, hidden,
                   ending, dated, beside, day, hour, fired, mails>>

\* A cron saves its copy; the cutoff, with the task completed.
SaveCron(c) ==
    /\ call[c].pc = "save"
    /\ call[c].op \in Crons
    /\ task' = IF call[c].op = "cutoff" THEN [call[c].row EXCEPT !.status = "completed"]
                                        ELSE call[c].row
    /\ End(c)
    /\ UNCHANGED <<workflow, approval, left, overlaps, deaths, ever, decided, hidden, cronVars>>

-----------------------------------------------------------------------------
Step(c) ==
    \/ RequestStep(c) /\ UNCHANGED cronVars
    \/ Send(c) \/ Create(c) \/ SaveCron(c)

Next ==
    \/ Clock
    \/ \E c \in Calls :
          \/ Request(c) /\ UNCHANGED cronVars
          \/ Cron(c)
          \/ Step(c)
          \/ Crash(c) /\ UNCHANGED cronVars

Spec == Init /\ [][Next]_vars

\* The process runs, time passes, and the server is up at two on more than one night.
FairSpec ==
    /\ Spec
    /\ \A c \in Calls : WF_vars(Step(c))
    /\ WF_vars(Clock)
    /\ SF_vars(\E c \in Calls : hour = 2 /\ Cron(c))

-----------------------------------------------------------------------------
\* Every variable is of its type.
TypeOK ==
    /\ workflow \in Workflows
    /\ task \in Row
    /\ approval \in Approval
    /\ call \in [Calls -> Call]
    /\ left \in 0 .. MaxRequests
    /\ overlaps \in 0 .. MaxOverlaps
    /\ deaths \in 0 .. MaxDeaths
    /\ ever \subseteq Approvers
    /\ decided \in [Approvers -> Decision]
    /\ hidden \in BOOLEAN
    /\ ending \in Endings
    /\ dated \in BOOLEAN /\ beside \in BOOLEAN
    /\ day \in 1 .. Days
    /\ hour \in 1 .. 3
    /\ fired \in BOOLEAN
    /\ children \in [Dates -> Nat]
    /\ mails \in Nat

\* What the approvers decided is what the record holds, since the last rework, as long
\* as no handler overlaps with another one or dies.
DecisionsKept == Quiet /\ Undisturbed => approval.meta = decided

\* approve makes a task approved only when everyone has approved it: at some time,
\* however the handlers overlap; since the last rework, if they do not.
ApprovedByAll ==
    [][task.status # "approved" /\ task'.status = "approved" =>
         \A c \in Calls : call[c].pc = "save" /\ call'[c] # call[c] /\ call[c].op = "approve" =>
            /\ ever = Approvers
            /\ Undisturbed => \A u \in Approvers : decided[u] = "approved"]_vars

\* An approver's list shows a task that waits for approval, was approved or rejected,
\* with that status, and at most a finished one besides.
DashboardFollows ==
    Quiet /\ Undisturbed =>
        /\ task.status \in {"pending_approval", "approved", "rejected"} =>
               approval.status = task.status
        /\ approval.status # "null" => task.status \in {approval.status, "completed", "closed"}

\* The approval record follows the task.
RecordFollows == DecisionsKept /\ DashboardFollows

\* The checklist is whole unless somebody who is not shown all of it has approved,
\* completed or reassigned the task.
ChecklistKept == ~hidden => task.movs = Movs

\* A closed or cancelled task is only reopened by the handlers that do not look at its
\* status, as long as none overlaps with another one.
FinalLeft ==
    [][task.status \in Final /\ task'.status # task.status /\ overlaps = 0 =>
         \E c \in Calls : call[c].op \in {"approve", "complete", "progress"}]_vars

\* No date is left out, in whatever order copies of the row are saved and wherever the
\* process dies.
NoDateSkipped ==
    \A d \in Dates : children[d] > 0 /\ d > First => children[d - 1] > 0

\* A second overdue mail is owed to an overlap or a death.
MailsAccounted == mails <= 1 + overlaps + deaths

\* The dates on which the task is to occur.
Wanted ==
    CASE ending = "once" -> {}
      [] ending = "never" -> Dates
      [] ending = "on_date" -> {d \in Dates : d <= EndDate}
      [] ending = "after_occurrences" -> {d \in Dates : d < First + EndCount}

\* The occurrences of each date that were inserted beyond the one that is wanted.
Beyond ==
    [d \in Dates |->
        IF d \in Wanted /\ children[d] > 0 THEN children[d] - 1 ELSE children[d]]

\* What a cron does twice is owed to an overlap or a death: an occurrence beyond the
\* first of its date, or beyond the end of the recurrence, and a second overdue mail.
RepeatsAccounted ==
    /\ MailsAccounted
    /\ MapThenSumSet(LAMBDA d : Beyond[d], Dates) <= overlaps + deaths

\* A recurring task without a due date occurs on every date up to its end, though the
\* server misses nights, handlers die and requests write old copies back, as long as no
\* other recurring task makes the runs fail: beside one that does, none may ever come.
OccurrencesCome ==
    \A d \in Dates :
        [](ending # "once" /\ ~dated /\ ~beside
             /\ (ending = "on_date" => d <= EndDate)
             /\ (ending = "after_occurrences" => d < First + EndCount)
           => <>(children[d] > 0))
=============================================================================
