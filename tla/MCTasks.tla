------------------------------ MODULE MCTasks -------------------------------
(* An instance of Tasks small enough for TLC.                              *)
EXTENDS Tasks, TLC

CONSTANTS c1, c2, ann, bob, eve, m1, m2

TwoCalls   == {c1, c2}
Everyone   == {ann, bob, eve}
BobAndEve  == {bob, eve}
OneAdmin   == {ann}
TwoItems   == {m1, m2}
Assigned   == (m1 :> ann) @@ (m2 :> bob)

S(w, e, d, b, s) == [workflow |-> w, ending |-> e, dated |-> d, beside |-> b, status |-> s]

\* A task that needs approval, new or waiting for it, and recurring ones, the last of them
\* beside one that makes the runs fail.
SomeTasks ==
         {S("approval_required", "once", FALSE, FALSE, s) : s \in {"open", "pending_approval"}}
  \union {S("standard", e, FALSE, FALSE, "open") : e \in {"never", "on_date", "after_occurrences"}}
  \union {S("standard", "never", TRUE, FALSE, "open"),
          S("standard", "on_date", FALSE, TRUE, "open")}

\* Time stands still for a task that does not recur, and of its requests the last one
\* comes only if nothing has been disturbed; a recurring task is only edited, moved and
\* completed, once.
Focused ==
    /\ ending = "once" => day = 1 /\ hour = 1 /\ (Undisturbed \/ left >= 1)
    /\ ending # "once" =>
          /\ left >= MaxRequests - 1
          /\ \A c \in Calls : call[c].op \in Crons \union {"none", "update", "transition", "complete"}
=============================================================================
