----------------------------- MODULE LoopStore -----------------------------
(***************************************************************************)
(* The loop runs of one project as the server's Store keeps them           *)
(* (apps/server/src/types.ts, memory-store.ts, prisma-store.ts).  A task   *)
(* is the task generated from one improvement candidate, so tasks are      *)
(* named by their candidate.  Each Store method is one atomic step: in     *)
(* MemoryStore its body never awaits, in PrismaStore it is one statement   *)
(* or one transaction.                                                     *)
(***************************************************************************)
EXTENDS Naturals

CONSTANTS
    Candidates,        \* improvement candidates; a smaller number has priority
    MaxLoops,          \* bound: loop runs ever created
    UniqueActiveIndex  \* TRUE for PrismaStore: partial unique index on active
                       \* loops; FALSE for MemoryStore, which has none

ASSUME StoreAssumption ==
    /\ Candidates \subseteq Nat \ {0}
    /\ MaxLoops \in Nat \ {0}
    /\ UniqueActiveIndex \in BOOLEAN

VARIABLES
    loopTask,    \* the candidate whose task a loop run belongs to
    loopStatus   \* its status, "none" before it is created

loops == <<loopTask, loopStatus>>

LoopIds == 1 .. MaxLoops

(* No candidate, and no loop: the null of currentCandidateId, currentLoopId. *)
None == 0

(* Of ACTIVE_LOOP_STATUSES, the three that code of the server ever writes. *)
DrivenStatuses == {"queued", "workspace_preparing"}
ActiveStatuses == DrivenStatuses \union {"needs_human_review"}

TerminalStatuses ==
    {"accepted", "approved", "rejected", "needs_more_tests", "cancelled", "failed"}

LoopStatuses == {"none"} \union ActiveStatuses \union TerminalStatuses

LoopsTypeOK ==
    /\ loopTask \in [LoopIds -> Candidates \union {None}]
    /\ loopStatus \in [LoopIds -> LoopStatuses]

LoopsInit ==
    /\ loopTask = [l \in LoopIds |-> None]
    /\ loopStatus = [l \in LoopIds |-> "none"]

ActiveLoops(c) == {l \in LoopIds : loopTask[l] = c /\ loopStatus[l] \in ActiveStatuses}

(* createLoopIfNoActive when the task has no active loop: the next id. *)
CreateLoop(l, c) ==
    /\ ActiveLoops(c) = {}
    /\ loopStatus[l] = "none"
    /\ \A k \in LoopIds : k < l => loopStatus[k] # "none"
    /\ loopTask' = [loopTask EXCEPT ![l] = c]
    /\ loopStatus' = [loopStatus EXCEPT ![l] = "queued"]

(* updateLoop: an update the unique index refuses is swallowed (null). *)
UpdateLoop(l, status) ==
    /\ loopStatus' =
         IF /\ UniqueActiveIndex
            /\ status \in ActiveStatuses
            /\ ActiveLoops(loopTask[l]) \ {l} # {}
         THEN loopStatus
         ELSE [loopStatus EXCEPT ![l] = status]
    /\ UNCHANGED loopTask

(* Mutant: every loop of the task is closed. *)
CloseLoops(c, status) ==
    /\ loopStatus' = [l \in LoopIds |-> IF loopTask[l] = c THEN status ELSE loopStatus[l]]
    /\ UNCHANGED loopTask

(* Every active loop of task c is closed with the given status. *)
CloseActiveLoops(c, status) ==
    /\ loopStatus' = [l \in LoopIds |->
                        IF l \in ActiveLoops(c) THEN status ELSE loopStatus[l]]
    /\ UNCHANGED loopTask
=============================================================================
