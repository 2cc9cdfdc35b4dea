--------------------------- MODULE LoopLifecycle ---------------------------
(***************************************************************************)
(* What the server promises of a loop run and of its pull request, however *)
(* the scheduler, the routes and the recovery get there: the state machine *)
(* of the statuses in apps/server/src/types.ts.  A status that is terminal *)
(* is final, a task has one active loop at a time, and a pull request is   *)
(* opened once, for a loop that was accepted or approved.                  *)
(* LoopScheduler.tla refines this specification.                           *)
(***************************************************************************)
CONSTANTS Loops, Tasks, NoTask

VARIABLES
    task,     \* the task of each loop run
    status,   \* the status of each loop run
    pr        \* the status of its pull request

vars == <<task, status, pr>>

Driven == {"queued", "workspace_preparing"}
Active == Driven \union {"needs_human_review"}
Verdicts == {"approved", "rejected", "needs_more_tests"}
Outcomes ==
    {"accepted", "rejected", "needs_human_review", "needs_more_tests", "cancelled", "failed"}

ActiveOf(c) == {l \in Loops : task[l] = c /\ status[l] \in Active}

Init ==
    /\ task = [l \in Loops |-> NoTask]
    /\ status = [l \in Loops |-> "none"]
    /\ pr = [l \in Loops |-> "none"]

Move(l, from, to) ==
    /\ status[l] \in from
    /\ status' = [status EXCEPT ![l] = to]
    /\ UNCHANGED <<task, pr>>

Create(l, c) ==
    /\ status[l] = "none"
    /\ ActiveOf(c) = {}
    /\ task' = [task EXCEPT ![l] = c]
    /\ status' = [status EXCEPT ![l] = "queued"]
    /\ UNCHANGED pr

Prepare(l) == Move(l, {"queued"}, "workspace_preparing")

Finish(l) == \E outcome \in Outcomes : Move(l, {"workspace_preparing"}, outcome)

Decide(l) == \E verdict \in Verdicts : Move(l, {"needs_human_review"}, verdict)

Cancel(l) == Move(l, Active, "cancelled")

Fail(l) == Move(l, Active, "failed")

OpenPr(l) ==
    /\ status[l] \in {"accepted", "approved"}
    /\ pr[l] = "none"
    /\ pr' = [pr EXCEPT ![l] = "creating"]
    /\ UNCHANGED <<task, status>>

ClosePr(l) ==
    /\ pr[l] = "creating"
    /\ \E outcome \in {"draft_created", "create_failed"} : pr' = [pr EXCEPT ![l] = outcome]
    /\ UNCHANGED <<task, status>>

Step(l) ==
    \/ \E c \in Tasks : Create(l, c)
    \/ Prepare(l) \/ Finish(l) \/ Decide(l) \/ Cancel(l) \/ Fail(l)
    \/ OpenPr(l) \/ ClosePr(l)

Next == \E l \in Loops : Step(l)

Spec == Init /\ [][Next]_vars
-----------------------------------------------------------------------------
(* A task never has two active loops at once (LOOP_STATE_MACHINE.md:101).     *)
OneActiveLoopPerTask ==
    \A k, l \in Loops :
        (k # l /\ status[k] \in Active /\ status[l] \in Active) => task[k] # task[l]

(* A pull request is there only for a loop that ended accepted or approved,   *)
(* so never for one that was cancelled, rejected or has failed.               *)
PrIsEarned == \A l \in Loops : pr[l] # "none" => status[l] \in {"accepted", "approved"}
=============================================================================
