--------------------- MODULE LoopSchedulerLoops_proofs ---------------------
(***************************************************************************)
(* Proofs about the loops of LoopScheduler: which of them the drain holds, *)
(* which of them the row of the orchestrator names, which of them can get  *)
(* a pull request, and that their statuses follow LoopLifecycle.           *)
(***************************************************************************)
EXTENDS LoopScheduler_proofs

(* Where the drain has picked a candidate and has no loop for it yet. *)
PickedPcs == {"claim", "claimWrite", "create", "activeExists"}

(* Where it has a loop that is not finished, and where it has one at all. *)
BeforeRunPcs == {"readState", "markRunning", "markState", "prepare", "runner"}
HoldingPcs ==
    BeforeRunPcs \union
    {"account", "accountWrite", "settle", "retryWrite", "openApproval", "openPr", "createPr"}

(* A task never has two active loops (LOOP_STATE_MACHINE.md:101). *)
OneActiveLoopPerTask ==
    \A j, l \in LoopIds :
        (j # l /\ loopStatus[j] \in ActiveStatuses /\ loopStatus[l] \in ActiveStatuses)
            => loopTask[j] # loopTask[l]

(* The loop in the drain's hands belongs to its candidate, and while it is   *)
(* there no other loop of that candidate is active.                          *)
OwnLoop ==
    drain.pc \in HoldingPcs =>
        /\ drain.loop \in LoopIds /\ drain.cand \in Candidates
        /\ loopStatus[drain.loop] # "none" /\ loopTask[drain.loop] = drain.cand
        /\ \A l \in LoopIds \ {drain.loop} :
             loopTask[l] = drain.cand => loopStatus[l] \notin ActiveStatuses

LoopsInv ==
    /\ boot.pc # "up" => drain.pc = "off"
    /\ drain.pc \in PickedPcs => drain.cand \in Candidates
    /\ OwnLoop
    /\ OneActiveLoopPerTask

(* The drain keeps what it holds or lets go of it. *)
Follows ==
    /\ drain'.pc \in HoldingPcs =>
         drain.pc \in HoldingPcs /\ drain'.loop = drain.loop /\ drain'.cand = drain.cand
    /\ drain'.pc \in PickedPcs => drain'.cand \in Candidates
    /\ boot'.pc # "up" => drain'.pc = "off"

LEMMA LoopsInvInit == Init => LoopsInv
<1> SUFFICES ASSUME Init PROVE LoopsInv
  OBVIOUS
<1>1. drain.pc = "off" /\ drain.pc \notin HoldingPcs /\ drain.pc \notin PickedPcs
  BY DEF Init, DrainAt, HoldingPcs, BeforeRunPcs, PickedPcs
<1>2. \A l \in LoopIds : loopStatus[l] \notin ActiveStatuses
  BY DEF Init, LoopsInit, ActiveStatuses, DrivenStatuses
<1> QED BY <1>1, <1>2 DEF LoopsInv, OwnLoop, OneActiveLoopPerTask

LEMMA LoopsKept ==
    ASSUME LoopsInv, Follows, UNCHANGED loops
    PROVE  LoopsInv'
  BY DEF LoopsInv, Follows, loops, OwnLoop, OneActiveLoopPerTask

(* An update makes no loop active but the one the drain holds, of whose task  *)
(* no other is.                                                               *)
LEMMA LoopsUpdated ==
    ASSUME LoopsTypeOK, LoopsInv, Follows, NEW l, NEW s \in LoopStatuses \ {"none"},
           UpdateLoop(l, s),
           s \in ActiveStatuses => drain.pc \in HoldingPcs /\ l = drain.loop
    PROVE  LoopsInv'
<1>1. /\ loopTask' = loopTask /\ loopTask \in [LoopIds -> Candidates \union {None}]
      /\ loopStatus' = loopStatus \/ loopStatus' = [loopStatus EXCEPT ![l] = s]
      /\ DOMAIN loopStatus = LoopIds
  BY DEF UpdateLoop, LoopsTypeOK
<1>2. \A j \in LoopIds : loopStatus'[j] \in ActiveStatuses =>
         loopStatus[j] \in ActiveStatuses \/ (j = drain.loop /\ drain.pc \in HoldingPcs)
  BY <1>1
<1>3. OwnLoop'
  BY <1>1, <1>2 DEF LoopsInv, OwnLoop, Follows
<1>4. OneActiveLoopPerTask'
  BY <1>1, <1>2 DEF LoopsInv, OwnLoop, OneActiveLoopPerTask
<1> QED BY <1>3, <1>4 DEF LoopsInv, Follows

LEMMA PcNames ==
    /\ HoldingPcs = {"readState", "markRunning", "markState", "prepare", "runner", "account",
                     "accountWrite", "settle", "retryWrite", "openApproval", "openPr", "createPr"}
    /\ PickedPcs = {"claim", "claimWrite", "create", "activeExists"}
    /\ AfterSettle \in {"top", "pauseLoop"}
  BY DEF HoldingPcs, BeforeRunPcs, PickedPcs, AfterSettle

(* What the steps of the drain have in common. *)
LEMMA DrainStepRest ==
    ASSUME DrainStep
    PROVE  boot.pc = "up" /\ UNCHANGED <<world, call>>
  BY DEF DrainStep, At, world, DrainTop, DrainBudget, DrainGuard, DrainPick, DrainIdle, DrainClaim,
         DrainClaimWrite, DrainCreate, DrainActiveLoop, DrainActiveExists, DrainReadState,
         DrainMarkRunning, DrainMarkState, DrainPrepare, DrainRunner, DrainAccount,
         DrainAccountWrite, DrainSettle, DrainRetryWrite, DrainOpenApproval, DrainOpenPr,
         DrainCreatePr, DrainPause, DrainExit

LEMMA DrainFollows ==
    ASSUME TypeOK, LoopsInv, DrainStep, ~DrainCreate
    PROVE  Follows
<1> USE PcNames DEF At, Goto
<1>1. drain \in DrainRecord /\ boot.pc = "up" /\ boot' = boot
  BY DrainStepRest DEF TypeOK, world
<1>2. CASE DrainTop \/ DrainBudget \/ DrainGuard \/ DrainPick \/ DrainIdle \/ DrainClaim
           \/ DrainClaimWrite \/ DrainActiveLoop
  BY <1>1, <1>2 DEF Follows, LoopsInv, DrainRecord, DrainTop, DrainBudget, DrainGuard, DrainPick,
                    DrainIdle, DrainClaim, DrainClaimWrite, DrainActiveLoop
<1>3. CASE DrainActiveExists \/ DrainExit \/ DrainPause \/ DrainCreatePr \/ DrainOpenApproval
           \/ DrainRetryWrite
  BY <1>1, <1>3 DEF Follows, DrainAt, DrainActiveExists, DrainExit, DrainPause, DrainCreatePr,
                    DrainOpenApproval, DrainRetryWrite
<1>4. CASE DrainReadState \/ DrainMarkRunning \/ DrainMarkState \/ DrainPrepare
           \/ DrainAccount \/ DrainAccountWrite
  BY <1>1, <1>4 DEF Follows, DrainRecord, DrainReadState, DrainMarkRunning, DrainMarkState,
                    DrainPrepare, DrainAccount, DrainAccountWrite
<1>5. CASE DrainRunner
  BY <1>1, <1>5 DEF Follows, DrainRecord, DrainRunner
<1>6. CASE DrainSettle
  <2>1. \/ drain'.pc \notin HoldingPcs \union PickedPcs
        \/ drain'.cand = drain.cand /\ drain'.loop = drain.loop
             /\ drain'.pc \in {"openPr", "openApproval", "retryWrite"}
    <3>1. CASE drain' = [drain EXCEPT !.pc = "retryWrite",
                                      !.run.qualified = RetriesSpent(drain.cand)]
      BY <1>1, <3>1 DEF DrainRecord
    <3>2. CASE \E pc \in {"openPr", "openApproval"} : drain' = [drain EXCEPT !.pc = pc]
      BY <1>1, <3>2 DEF DrainRecord
    <3>3. CASE \E pc \in {"top", "pauseLoop"} : drain' = DrainAt(pc, drain.aborted)
      BY <3>3 DEF DrainAt
    <3> QED BY <1>6, <3>1, <3>2, <3>3 DEF DrainSettle
  <2> QED BY <1>1, <1>6, <2>1 DEF Follows, DrainSettle
<1>7. CASE DrainOpenPr
  <2>1. \/ drain'.pc \notin HoldingPcs \union PickedPcs
        \/ drain'.cand = drain.cand /\ drain'.loop = drain.loop /\ drain'.pc = "createPr"
    BY <1>1, <1>7 DEF DrainRecord, DrainAt, DrainOpenPr
  <2> QED BY <1>1, <1>7, <2>1 DEF Follows, DrainOpenPr
<1> QED BY <1>2, <1>3, <1>4, <1>5, <1>6, <1>7 DEF DrainStep

LEMMA RequestRest ==
    ASSUME NEW k \in Clients, RequestStep(k) \/ ClientStep(k)
    PROVE  boot.pc = "up" /\ UNCHANGED <<boot, today, faults>>
  BY DEF RequestStep, ClientStep, Begin, Working, world, StartRequest, StopRequest, CancelRequest,
         ApproveRequest, Dismiss, ReviewRequest, StartWrite, StartKick, StopLoop, StopLoopWrite,
         StopCand, StopCandWrite, StopWrite, CancelWrite, ApproveWrite, ReviewApproval, ReviewLoop

(* The steps that leave the drain where it is. *)
LEMMA DrainKept ==
    ASSUME Next, ~DrainStep, ~DrainError, ~Crash,
           \A k \in Clients : ~StartKick(k) /\ ~StopRequest(k)
    PROVE  drain' = drain
  BY DEF Next, RequestStep, ClientStep, NextDay, BootStep, Restart, RecoverCandidate,
         RecoverLoops, RecoverCurrent, RecoverState, StartRequest, CancelRequest, ApproveRequest,
         Dismiss, ReviewRequest, StartWrite, StopLoop, StopLoopWrite, StopCand, StopCandWrite,
         StopWrite, CancelWrite, ApproveWrite, ReviewApproval, ReviewLoop

LEMMA RequestFollows ==
    ASSUME TypeOK, LoopsInv, NEW k \in Clients, RequestStep(k) \/ ClientStep(k)
    PROVE  Follows
<1> USE PcNames
<1>1. drain \in DrainRecord /\ boot.pc = "up" /\ boot' = boot
  BY RequestRest DEF TypeOK
<1>2. CASE StartKick(k)
  BY <1>1, <1>2 DEF StartKick, DrainAt, Follows, LoopsInv
<1>3. CASE StopRequest(k)
  BY <1>1, <1>3 DEF StopRequest, DrainRecord, Follows, LoopsInv
<1>4. CASE ~StartKick(k) /\ ~StopRequest(k)
  <2>1. drain' = drain
    BY <1>4 DEF RequestStep, ClientStep, StartRequest, CancelRequest, ApproveRequest, Dismiss,
         ReviewRequest, StartWrite, StopLoop, StopLoopWrite, StopCand, StopCandWrite, StopWrite,
         CancelWrite, ApproveWrite, ReviewApproval, ReviewLoop
  <2> QED BY <1>1, <2>1 DEF Follows, LoopsInv
<1> QED BY <1>2, <1>3, <1>4

LEMMA BootFollows ==
    ASSUME TypeOK, LoopsInv, DrainError \/ Crash \/ BootStep \/ NextDay
    PROVE  Follows
<1> USE PcNames
<1>1. drain \in DrainRecord
  BY DEF TypeOK
<1>2. CASE DrainError
  BY <1>1, <1>2 DEF DrainError, Goto, DrainRecord, Follows
<1>3. CASE Crash
  BY <1>3 DEF Crash, DrainAt, Follows
<1>4. CASE BootStep
  <2>1. boot.pc # "up" /\ drain' = drain
    BY <1>4 DEF BootStep, Restart, RecoverCandidate, RecoverLoops, RecoverCurrent, RecoverState
  <2> QED BY <2>1 DEF Follows, LoopsInv
<1>5. CASE NextDay
  BY <1>5 DEF NextDay, Follows, LoopsInv
<1> QED BY <1>2, <1>3, <1>4, <1>5

(* The requests that write a loop row; all other steps leave the loops alone. *)
LoopWrite(k) == StopLoopWrite(k) \/ CancelWrite(k) \/ ReviewLoop(k)

LEMMA OtherStepsLeaveLoops ==
    ASSUME Next, ~DrainCreate, ~DrainPrepare, ~DrainRunner, ~RecoverLoops, ~RecoverCurrent,
           \A k \in Clients : ~LoopWrite(k)
    PROVE  UNCHANGED loops
  BY DEF Next, LoopWrite, DrainStep, DrainError, RequestStep, ClientStep, NextDay, store,
         DrainTop, DrainBudget, DrainGuard, DrainPick, DrainIdle, DrainClaim, DrainClaimWrite,
         DrainActiveLoop, DrainActiveExists, DrainReadState, DrainMarkRunning,
         DrainMarkState, DrainAccount, DrainAccountWrite, Crash, BootStep, Restart,
         RecoverCandidate, RecoverState,
         DrainSettle, DrainRetryWrite, DrainOpenApproval, DrainOpenPr, DrainCreatePr,
         DrainPause, DrainExit, StartRequest, StopRequest, CancelRequest, ApproveRequest,
         Dismiss, ReviewRequest, StartWrite, StartKick, StopLoop, StopCand,
         StopCandWrite, StopWrite, ApproveWrite, ReviewApproval

LEMMA LoopWriteEffect ==
    ASSUME TypeOK, NEW k \in Clients, LoopWrite(k)
    PROVE  \E s \in TerminalStatuses : UpdateLoop(call[k].loop, s)
<1>1. call[k].verdict \in Verdicts
  BY DEF TypeOK, CallRecord
<1> QED BY <1>1 DEF LoopWrite, StopLoopWrite, CancelWrite, ReviewLoop, TerminalStatuses, Verdicts

LEMMA StatusSets ==
    /\ TerminalStatuses \subseteq LoopStatuses \ {"none"}
    /\ RunStatuses \subseteq LoopStatuses \ {"none"}
    /\ {"queued", "workspace_preparing"} \subseteq LoopStatuses \ {"none"}
    /\ {"queued", "workspace_preparing", "needs_human_review"} = ActiveStatuses
    /\ DrivenStatuses = {"queued", "workspace_preparing"}
    /\ TerminalStatuses \cap ActiveStatuses = {}
  BY DEF TerminalStatuses, LoopStatuses, ActiveStatuses, DrivenStatuses, RunStatuses

(* What the runner's return does. *)
LEMMA RunnerEffect ==
    ASSUME TypeOK, DrainRunner
    PROVE  /\ drain.pc = "runner" /\ drain'.pc = "account"
           /\ drain'.loop = drain.loop /\ drain'.cand = drain.cand
           /\ drain'.aborted = drain.aborted /\ drain'.snap = drain.snap
           /\ drain'.run.status \in RunStatuses
           /\ drain.aborted => drain'.run.status = "cancelled"
           /\ UpdateLoop(drain.loop, drain'.run.status)
           /\ hist'.cancelled = IF drain'.run.status = "cancelled"
                                THEN hist.cancelled \union {drain.loop} ELSE hist.cancelled
           /\ hist'.stopHeld = hist.stopHeld /\ hist'.stopping = hist.stopping
           /\ hist'.startedOn = hist.startedOn
<1>1. drain \in DrainRecord /\ hist \in HistRecord
  BY DEF TypeOK
<1>2. PICK outcome \in RunOutcomes :
          LET run == IF drain.aborted THEN [outcome EXCEPT !.status = "cancelled"]
                     ELSE outcome
          IN /\ UpdateLoop(drain.loop, run.status)
             /\ drain' = [drain EXCEPT !.pc = "account", !.run = run]
             /\ hist' = IF run.status = "cancelled"
                        THEN [hist EXCEPT !.cancelled = @ \union {drain.loop}] ELSE hist
  BY DEF DrainRunner
<1> DEFINE run == IF drain.aborted THEN [outcome EXCEPT !.status = "cancelled"] ELSE outcome
<1>3. run.status \in RunStatuses /\ (drain.aborted => run.status = "cancelled")
  BY DEF RunOutcomes, RunStatuses
<1>4. /\ UpdateLoop(drain.loop, run.status)
      /\ drain' = [drain EXCEPT !.pc = "account", !.run = run]
      /\ hist' = IF run.status = "cancelled"
                 THEN [hist EXCEPT !.cancelled = @ \union {drain.loop}] ELSE hist
  BY <1>2
<1> HIDE DEF run
<1>5. drain' \in [pc : {"account"}, aborted : {drain.aborted}, cand : {drain.cand},
                   loop : {drain.loop}, run : {run}, snap : {drain.snap}]
  BY <1>1, <1>4 DEF DrainRecord
<1>6. drain.pc = "runner"
  BY DEF DrainRunner, At
<1> QED BY <1>1, <1>3, <1>4, <1>5, <1>6 DEF HistRecord

LEMMA CreateEffect ==
    ASSUME TypeOK, LoopsInv, DrainCreate
    PROVE  \E l \in LoopIds :
             /\ drain.pc = "create" /\ drain'.pc = "readState"
             /\ drain'.loop = l /\ drain'.cand = drain.cand /\ drain.cand \in Candidates
             /\ drain'.aborted = drain.aborted /\ drain'.run = drain.run
             /\ loopStatus[l] = "none" /\ ActiveLoops(drain.cand) = {}
             /\ loopTask' = [loopTask EXCEPT ![l] = drain.cand]
             /\ loopStatus' = [loopStatus EXCEPT ![l] = "queued"]
  BY DEF DrainCreate, At, CreateLoop, TypeOK, DrainRecord, LoopsInv, PickedPcs

LEMMA LoopsAfterCreate ==
    ASSUME TypeOK, LoopsInv, DrainCreate
    PROVE  LoopsInv'
<1>1. PICK l \in LoopIds :
             /\ drain'.pc = "readState" /\ drain'.loop = l
             /\ drain'.cand = drain.cand /\ drain.cand \in Candidates
             /\ ActiveLoops(drain.cand) = {}
             /\ loopTask' = [loopTask EXCEPT ![l] = drain.cand]
             /\ loopStatus' = [loopStatus EXCEPT ![l] = "queued"]
  BY CreateEffect
<1>2. DOMAIN loopTask = LoopIds /\ DOMAIN loopStatus = LoopIds
  BY DEF TypeOK, LoopsTypeOK
<1>3. \A j \in LoopIds \ {l} : loopTask'[j] = loopTask[j] /\ loopStatus'[j] = loopStatus[j]
  BY <1>1, <1>2
<1>4. \A j \in LoopIds \ {l} : loopTask[j] = drain.cand => loopStatus[j] \notin ActiveStatuses
  BY <1>1 DEF ActiveLoops
<1>5. OwnLoop'
  BY <1>1, <1>2, <1>3, <1>4 DEF OwnLoop
<1>6. OneActiveLoopPerTask'
  BY <1>1, <1>2, <1>3, <1>4 DEF LoopsInv, OneActiveLoopPerTask
<1>7. boot'.pc = "up"
  BY DrainStepRest DEF DrainStep, world
<1> QED BY <1>1, <1>5, <1>6, <1>7, PcNames DEF LoopsInv

LEMMA LoopsAfterClose ==
    ASSUME TypeOK, LoopsInv, Follows, NEW c, CloseActiveLoops(c, "failed")
    PROVE  LoopsInv'
<1>1. /\ loopTask' = loopTask
      /\ \A l \in LoopIds : loopStatus'[l] = loopStatus[l] \/ loopStatus'[l] = "failed"
  BY DEF CloseActiveLoops
<1>2. "failed" \notin ActiveStatuses
  BY DEF ActiveStatuses, DrivenStatuses
<1> QED BY <1>1, <1>2 DEF LoopsInv, Follows, OwnLoop, OneActiveLoopPerTask

LEMMA LoopsInvStep == TypeOK /\ LoopsInv /\ [Next]_vars => LoopsInv'
<1> SUFFICES ASSUME TypeOK, LoopsInv, [Next]_vars PROVE LoopsInv'
  OBVIOUS
<1>t. LoopsTypeOK
  BY DEF TypeOK
<1>1. CASE DrainCreate
  BY <1>1, LoopsAfterCreate
<1>2. CASE Next /\ ~DrainCreate
  <2>1. Follows
    BY <1>2, DrainFollows, RequestFollows, BootFollows DEF Next
  <2>2. CASE DrainPrepare
    <3>1. drain.pc \in HoldingPcs /\ UpdateLoop(drain.loop, "workspace_preparing")
      BY <2>2, PcNames DEF DrainPrepare, At
    <3> QED BY <1>t, <2>1, <3>1, StatusSets, LoopsUpdated
  <2>3. CASE DrainRunner
    <3>1. /\ drain.pc = "runner" /\ drain'.run.status \in RunStatuses
          /\ UpdateLoop(drain.loop, drain'.run.status)
      BY <2>3, RunnerEffect
    <3> QED BY <1>t, <2>1, <3>1, PcNames, StatusSets, LoopsUpdated
  <2>4. ASSUME NEW k \in Clients, LoopWrite(k) PROVE LoopsInv'
    <3>1. PICK s \in TerminalStatuses : UpdateLoop(call[k].loop, s)
      BY <2>4, LoopWriteEffect
    <3>2. s \in LoopStatuses \ {"none"} /\ s \notin ActiveStatuses
      BY StatusSets
    <3> QED BY <1>t, <2>1, <3>1, <3>2, LoopsUpdated
  <2>5. CASE RecoverLoops
    BY <2>1, <2>5, LoopsAfterClose DEF RecoverLoops
  <2>6. CASE RecoverCurrent
    <3>1. CASE UNCHANGED loops
      BY <2>1, <3>1, LoopsKept
    <3>2. CASE UpdateLoop(orch.loop, "failed")
      <4>1. "failed" \in TerminalStatuses
        BY DEF TerminalStatuses
      <4>2. "failed" \in LoopStatuses \ {"none"} /\ "failed" \notin ActiveStatuses
        BY <4>1, StatusSets
      <4> QED BY <1>t, <2>1, <3>2, <4>2, LoopsUpdated
    <3> QED BY <2>6, <3>1, <3>2 DEF RecoverCurrent
  <2>7. CASE /\ ~DrainPrepare /\ ~DrainRunner /\ ~RecoverLoops /\ ~RecoverCurrent
             /\ \A k \in Clients : ~LoopWrite(k)
    BY <1>2, <2>1, <2>7, OtherStepsLeaveLoops, LoopsKept
  <2> QED BY <2>2, <2>3, <2>4, <2>5, <2>6, <2>7
<1>3. CASE UNCHANGED vars
  BY <1>3, LoopsKept DEF vars, world, Follows, LoopsInv
<1> QED BY <1>1, <1>2, <1>3

(* For any number of clients, candidates, crashes and failing store calls, and *)
(* without the unique index too: createLoopIfNoActive is enough, because only  *)
(* the drain makes a loop active again and it holds one loop at a time.        *)
THEOREM TaskHasOneActiveLoop == Spec => []OneActiveLoopPerTask
<1>1. Init => TypeOK /\ LoopsInv
  BY InitTypeOK, LoopsInvInit
<1>2. TypeOK /\ LoopsInv /\ [Next]_vars => (TypeOK /\ LoopsInv)'
  BY TypeStep, LoopsInvStep
<1>3. LoopsInv => OneActiveLoopPerTask
  BY DEF LoopsInv
<1> QED BY <1>1, <1>2, <1>3, PTL DEF Spec
-----------------------------------------------------------------------------
(* What a step can do to a loop: it never disappears, and it becomes active   *)
(* only in the hands of the drain.                                            *)
LoopMovesRight(l) ==
    /\ loopStatus[l] # "none" => loopStatus'[l] # "none" /\ loopTask'[l] = loopTask[l]
    /\ loopStatus'[l] \in ActiveStatuses =>
         \/ loopStatus[l] \in ActiveStatuses
         \/ drain'.loop = l /\ drain'.pc \in HoldingPcs
    /\ loopStatus'[l] \in DrivenStatuses =>
         \/ loopStatus[l] \in DrivenStatuses
         \/ drain'.loop = l /\ drain'.pc \in BeforeRunPcs

LEMMA UpdateMovesRight ==
    ASSUME LoopsTypeOK, NEW l, NEW s \in LoopStatuses \ {"none"}, UpdateLoop(l, s),
           s \in ActiveStatuses => drain'.loop = l /\ drain'.pc \in HoldingPcs,
           s \in DrivenStatuses => drain'.loop = l /\ drain'.pc \in BeforeRunPcs
    PROVE  \A j \in LoopIds : LoopMovesRight(j)
  BY DEF UpdateLoop, LoopsTypeOK, LoopMovesRight

LEMMA PrepareEffect ==
    ASSUME TypeOK, DrainPrepare
    PROVE  /\ drain.pc = "prepare" /\ drain'.pc = "runner"
           /\ drain'.loop = drain.loop /\ drain'.cand = drain.cand
           /\ drain'.aborted = drain.aborted /\ drain'.run = drain.run
           /\ UpdateLoop(drain.loop, "workspace_preparing")
  BY DEF DrainPrepare, At, Goto, TypeOK, DrainRecord

LEMMA LoopMoves ==
    ASSUME TypeOK, LoopsInv, Next
    PROVE  \A l \in LoopIds : LoopMovesRight(l)
<1>t. LoopsTypeOK
  BY DEF TypeOK
<1>1. CASE DrainCreate
  <2>1. PICK l \in LoopIds : /\ drain'.loop = l /\ drain'.pc = "readState"
                             /\ loopStatus[l] = "none"
                             /\ loopTask' = [loopTask EXCEPT ![l] = drain.cand]
                             /\ loopStatus' = [loopStatus EXCEPT ![l] = "queued"]
    BY <1>1, CreateEffect
  <2>2. "readState" \in BeforeRunPcs /\ "readState" \in HoldingPcs
    BY DEF BeforeRunPcs, HoldingPcs
  <2> QED BY <1>t, <2>1, <2>2 DEF LoopMovesRight, LoopsTypeOK
<1>2. CASE DrainPrepare
  <2>1. "runner" \in BeforeRunPcs /\ "runner" \in HoldingPcs
    BY DEF BeforeRunPcs, HoldingPcs
  <2> QED BY <1>t, <1>2, <2>1, PrepareEffect, StatusSets, UpdateMovesRight
<1>3. CASE DrainRunner
  <2>1. /\ drain'.pc = "account" /\ drain'.loop = drain.loop /\ drain'.run.status \in RunStatuses
        /\ UpdateLoop(drain.loop, drain'.run.status)
    BY <1>3, RunnerEffect
  <2>2. drain'.run.status \notin DrivenStatuses
    BY <2>1 DEF RunStatuses, DrivenStatuses
  <2> QED BY <1>t, <2>1, <2>2, PcNames, StatusSets, UpdateMovesRight
<1>4. ASSUME NEW k \in Clients, LoopWrite(k) PROVE \A l \in LoopIds : LoopMovesRight(l)
  <2>1. PICK s \in TerminalStatuses : UpdateLoop(call[k].loop, s)
    BY <1>4, LoopWriteEffect
  <2>2. s \in LoopStatuses \ {"none"} /\ s \notin ActiveStatuses /\ s \notin DrivenStatuses
    BY StatusSets DEF DrivenStatuses
  <2> QED BY <1>t, <2>1, <2>2, UpdateMovesRight
<1>5. CASE RecoverLoops
  <2>1. CloseActiveLoops(boot.cand, "failed")
    BY <1>5 DEF RecoverLoops
  <2>2. "failed" \notin ActiveStatuses /\ "failed" \notin DrivenStatuses
    BY DEF ActiveStatuses, DrivenStatuses
  <2> QED BY <2>1, <2>2 DEF CloseActiveLoops, LoopMovesRight
<1>6. CASE RecoverCurrent
  <2>1. "failed" \in LoopStatuses \ {"none"} /\ "failed" \notin ActiveStatuses
        /\ "failed" \notin DrivenStatuses
    BY DEF ActiveStatuses, DrivenStatuses, LoopStatuses, TerminalStatuses
  <2>2. CASE UpdateLoop(orch.loop, "failed")
    BY <1>t, <2>1, <2>2, UpdateMovesRight
  <2>3. CASE UNCHANGED loops
    BY <2>3 DEF loops, LoopMovesRight
  <2> QED BY <1>6, <2>2, <2>3 DEF RecoverCurrent
<1>7. CASE /\ ~DrainCreate /\ ~DrainPrepare /\ ~DrainRunner /\ ~RecoverLoops /\ ~RecoverCurrent
           /\ \A k \in Clients : ~LoopWrite(k)
  BY <1>7, OtherStepsLeaveLoops DEF loops, LoopMovesRight
<1> QED BY <1>1, <1>2, <1>3, <1>4, <1>5, <1>6, <1>7
-----------------------------------------------------------------------------
(* The drain before its run: only the runner, an error or a crash ends it. *)
LEMMA BeforeRunStays ==
    ASSUME TypeOK, Next, drain.pc \in BeforeRunPcs, ~DrainRunner, ~DrainError, ~Crash
    PROVE  drain'.pc \in BeforeRunPcs /\ drain'.loop = drain.loop
<1>1. drain \in DrainRecord
  BY DEF TypeOK
<1>2. CASE DrainStep
  BY <1>1, <1>2 DEF DrainStep, At, Goto, BeforeRunPcs, DrainRecord, DrainTop, DrainBudget, DrainGuard,
     DrainPick, DrainIdle, DrainClaim, DrainClaimWrite, DrainCreate, DrainActiveLoop,
     DrainActiveExists, DrainReadState, DrainMarkRunning, DrainMarkState, DrainPrepare,
     DrainAccount, DrainAccountWrite, DrainSettle, DrainRetryWrite, DrainOpenApproval,
     DrainOpenPr, DrainCreatePr, DrainPause, DrainExit
<1>3. ASSUME NEW k \in Clients, RequestStep(k) \/ ClientStep(k)
      PROVE  drain'.pc \in BeforeRunPcs /\ drain'.loop = drain.loop
  <2>1. CASE StopRequest(k) \/ StartKick(k)
    BY <1>1, <2>1 DEF StopRequest, StartKick, DrainRecord, BeforeRunPcs
  <2>2. CASE ~StopRequest(k) /\ ~StartKick(k)
    BY <1>3, <2>2 DEF RequestStep, ClientStep, StartRequest, CancelRequest, ApproveRequest, Dismiss,
         ReviewRequest, StartWrite, StopLoop, StopLoopWrite, StopCand, StopCandWrite, StopWrite,
         CancelWrite, ApproveWrite, ReviewApproval, ReviewLoop
  <2> QED BY <2>1, <2>2
<1>4. CASE BootStep \/ NextDay
  BY <1>4 DEF BootStep, NextDay, Restart, RecoverCandidate, RecoverLoops, RecoverCurrent, RecoverState
<1> QED BY <1>2, <1>3, <1>4 DEF Next

LEMMA FaultsGrow ==
    ASSUME TypeOK, Next
    PROVE  /\ faults'.crashes = 0 => faults.crashes = 0 /\ ~Crash
           /\ faults'.errors = 0 => faults.errors = 0 /\ ~DrainError
<1>1. faults \in [crashes : Nat, errors : Nat]
  BY DEF TypeOK
<1>2. CASE Crash
  BY <1>1, <1>2 DEF Crash, DrainError
<1>3. CASE DrainError
  <2>1. boot.pc = "up" /\ boot' = boot /\ faults' = [faults EXCEPT !.errors = @ + 1]
    BY <1>3 DEF DrainError
  <2>2. ~Crash
    BY <2>1 DEF Crash, NoBoot
  <2>3. faults'.crashes = faults.crashes /\ faults'.errors = faults.errors + 1
    BY <1>1, <2>1
  <2>4. faults.errors + 1 # 0
    BY <1>1
  <2> QED BY <2>2, <2>3, <2>4
<1>4. CASE ~Crash /\ ~DrainError
  <2>1. faults' = faults
    BY <1>4, DrainStepRest, RequestRest
    DEF Next, world, BootStep, NextDay, Restart, RecoverCandidate, RecoverLoops, RecoverCurrent,
        RecoverState
  <2> QED BY <1>4, <2>1
<1> QED BY <1>2, <1>3, <1>4

LEMMA ActiveStep ==
    ASSUME TypeOK, LoopsInv, ActiveLoopIsDrained, Next
    PROVE  ActiveLoopIsDrained'
<1> SUFFICES ASSUME faults'.crashes = 0, faults'.errors = 0, NEW l \in LoopIds,
                    loopStatus'[l] \in DrivenStatuses
             PROVE  drain'.loop = l /\ drain'.pc \in BeforeRunPcs
  BY DEF ActiveLoopIsDrained, BeforeRunPcs
<1>1. faults.crashes = 0 /\ faults.errors = 0 /\ ~Crash /\ ~DrainError
  BY FaultsGrow
<1>2. CASE loopStatus[l] \notin DrivenStatuses
  BY <1>2, LoopMoves DEF LoopMovesRight
<1>3. CASE loopStatus[l] \in DrivenStatuses
  <2>1. drain.loop = l /\ drain.pc \in BeforeRunPcs
    BY <1>1, <1>3 DEF ActiveLoopIsDrained, BeforeRunPcs
  <2>2. ~DrainRunner
    <3>1. SUFFICES ASSUME DrainRunner PROVE FALSE
      OBVIOUS
    <3>2. UpdateLoop(l, drain'.run.status) /\ drain'.run.status \in RunStatuses
      BY <2>1, <3>1, RunnerEffect
    <3>3. ActiveLoops(loopTask[l]) \ {l} = {}
      BY <2>1 DEF LoopsInv, OwnLoop, ActiveLoops, HoldingPcs
    <3>4. loopStatus'[l] = drain'.run.status
      BY <3>2, <3>3 DEF UpdateLoop, TypeOK, LoopsTypeOK
    <3> QED BY <3>2, <3>4 DEF RunStatuses, DrivenStatuses
  <2> QED BY <1>1, <2>1, <2>2, BeforeRunStays
<1> QED BY <1>2, <1>3

(* As long as the server has not crashed and no store call has failed, no loop *)
(* is left queued or preparing without the drain that runs it, and so none     *)
(* blocks its task for ever, whatever requests come in between.                *)
THEOREM ActiveLoopsAreDrained == Spec => []ActiveLoopIsDrained
<1> DEFINE IInv == TypeOK /\ LoopsInv /\ ActiveLoopIsDrained
<1>1. Init => IInv
  BY InitTypeOK, LoopsInvInit DEF Init, LoopsInit, ActiveLoopIsDrained, DrivenStatuses
<1>2. IInv /\ [Next]_vars => IInv'
  <2>1. IInv /\ Next => IInv'
    BY TypeStep, LoopsInvStep, ActiveStep
  <2>2. IInv /\ UNCHANGED vars => IInv'
    BY TypeStep, LoopsInvStep DEF vars, loops, world, ActiveLoopIsDrained
  <2> QED BY <2>1, <2>2
<1>3. IInv => ActiveLoopIsDrained
  OBVIOUS
<1> QED BY <1>1, <1>2, <1>3, PTL DEF Spec
-----------------------------------------------------------------------------
(* The loop the row of the orchestrator names *)

(* The inductive form: the loop exists, a drain that is off holds nothing, and *)
(* the server is down only after a crash.                                      *)
CurrentInv ==
    /\ orch.loop # None => orch.loop \in LoopIds /\ loopStatus[orch.loop] # "none"
    /\ drain.pc = "off" => drain.loop = None
    /\ boot.pc # "up" => faults.crashes > 0
    /\ CurrentLoopIsDrained

(* Only markState names a loop; any other step keeps the name or erases it. *)
LEMMA RowNames ==
    ASSUME TypeOK, Next, ~DrainMarkState
    PROVE  orch'.loop = None \/ (orch'.loop = orch.loop /\ orch'.cand = orch.cand)
<1>1. orch \in OrchRecord
  BY DEF TypeOK
<1>2. CASE DrainBudget \/ DrainIdle \/ DrainAccountWrite \/ DrainPause \/ RecoverState
  BY <1>1, <1>2 DEF OrchRecord, DrainBudget, DrainIdle, DrainAccountWrite, DrainPause, RecoverState
<1>3. ASSUME NEW k \in Clients, StartWrite(k) \/ StopWrite(k)
      PROVE  orch'.loop = None \/ (orch'.loop = orch.loop /\ orch'.cand = orch.cand)
  BY <1>1, <1>3 DEF OrchRecord, StartWrite, StopWrite
<1>4. CASE /\ ~DrainBudget /\ ~DrainIdle /\ ~DrainAccountWrite /\ ~DrainPause /\ ~RecoverState
           /\ \A k \in Clients : ~StartWrite(k) /\ ~StopWrite(k)
  BY <1>4 DEF Next, DrainStep, DrainError, RequestStep, ClientStep, NextDay, store, Crash, BootStep,
         Restart, RecoverCandidate, RecoverLoops, RecoverCurrent,
         DrainTop, DrainGuard, DrainPick, DrainClaim, DrainClaimWrite,
         DrainCreate, DrainActiveLoop, DrainActiveExists, DrainReadState, DrainMarkRunning,
         DrainPrepare, DrainRunner, DrainAccount, DrainSettle, DrainRetryWrite,
         DrainOpenApproval, DrainOpenPr, DrainCreatePr, DrainExit,
         StartRequest, StopRequest, CancelRequest, ApproveRequest, Dismiss, ReviewRequest,
         StartKick, StopLoop, StopLoopWrite, StopCand, StopCandWrite, CancelWrite,
         ApproveWrite, ReviewApproval, ReviewLoop
<1> QED BY <1>2, <1>3, <1>4

(* Only create gives the drain a loop, and it holds none once it is off. *)
LEMMA DrainLoops ==
    ASSUME TypeOK, Next, drain.pc = "off" => drain.loop = None
    PROVE  /\ DrainCreate \/ drain'.loop = None
                \/ (drain'.loop = drain.loop /\ drain.pc # "off")
           /\ drain'.pc = "off" => drain'.loop = None
<1> USE DEF At, Goto
<1>1. drain \in DrainRecord
  BY DEF TypeOK
<1>2. CASE DrainStep
  <2>1. CASE DrainSettle \/ DrainOpenPr
    <3>1. CASE drain' = [drain EXCEPT !.pc = "retryWrite",
                                      !.run.qualified = RetriesSpent(drain.cand)]
      BY <1>1, <3>1 DEF DrainRecord
    <3>2. CASE \E pc \in {"openPr", "openApproval", "createPr"} : drain' = [drain EXCEPT !.pc = pc]
      BY <1>1, <3>2 DEF DrainRecord
    <3>3. CASE \E pc \in {"top", "pauseLoop"} : drain' = DrainAt(pc, drain.aborted)
      BY <3>3 DEF DrainAt
    <3>4. drain.pc # "off"
      BY <2>1 DEF DrainSettle, DrainOpenPr
    <3> QED BY <2>1, <3>1, <3>2, <3>3, <3>4, PcNames DEF DrainSettle, DrainOpenPr
  <2>2. CASE DrainRunner
    BY <1>1, <2>2, RunnerEffect
  <2>3. CASE DrainAccount \/ DrainCreate
    BY <1>1, <2>3 DEF DrainAccount, DrainCreate, DrainRecord
  <2>4. CASE DrainTop \/ DrainBudget \/ DrainGuard \/ DrainPick \/ DrainIdle \/ DrainClaim
             \/ DrainClaimWrite \/ DrainActiveLoop \/ DrainReadState \/ DrainMarkRunning
             \/ DrainMarkState \/ DrainPrepare \/ DrainAccountWrite
    BY <1>1, <2>4 DEF DrainRecord, DrainTop, DrainBudget, DrainGuard,
       DrainPick, DrainIdle, DrainClaim, DrainClaimWrite, DrainActiveLoop,
       DrainReadState, DrainMarkRunning, DrainMarkState, DrainPrepare, DrainAccountWrite
  <2>5. CASE DrainActiveExists \/ DrainRetryWrite \/ DrainOpenApproval \/ DrainCreatePr
             \/ DrainPause \/ DrainExit
    BY <2>5 DEF DrainAt, DrainActiveExists, DrainRetryWrite, DrainOpenApproval, DrainCreatePr,
       DrainPause, DrainExit
  <2> QED BY <1>2, <2>1, <2>2, <2>3, <2>4, <2>5 DEF DrainStep
<1>3. CASE DrainError \/ Crash
  BY <1>1, <1>3 DEF DrainError, Crash, DrainAt, DrainRecord
<1>4. ASSUME NEW k \in Clients, StartKick(k) \/ StopRequest(k)
      PROVE  drain'.loop = drain.loop /\ (drain'.pc = "off" => drain.pc = "off")
  BY <1>1, <1>4 DEF StartKick, StopRequest, DrainAt, DrainRecord
<1>5. CASE ~DrainStep /\ ~DrainError /\ ~Crash /\ \A k \in Clients : ~StartKick(k) /\ ~StopRequest(k)
  BY <1>5, DrainKept
<1> QED BY <1>2, <1>3, <1>4, <1>5

(* The places where the row names the drain's loop. *)
NamingPcs == {"prepare", "runner", "account", "accountWrite", "pauseExit"}

LEMMA NamedStays ==
    ASSUME TypeOK, Next, drain.pc \in NamingPcs
    PROVE  \/ orch'.loop = None \/ boot'.pc # "up"
           \/ drain'.pc \in NamingPcs /\ drain'.loop = drain.loop /\ drain'.cand = drain.cand
<1> USE DEF NamingPcs
<1>1. drain \in DrainRecord /\ orch \in OrchRecord
  BY DEF TypeOK
<1>2. CASE DrainStep
  <2>1. CASE DrainRunner
    BY <2>1, RunnerEffect
  <2>2. CASE DrainPrepare \/ DrainAccount \/ DrainAccountWrite \/ DrainPause
    BY <1>1, <2>2 DEF DrainPrepare, DrainAccount, DrainAccountWrite, DrainPause, Goto,
       DrainRecord, OrchRecord
  <2> QED BY <1>2, <2>1, <2>2 DEF DrainStep, At, DrainTop, DrainBudget, DrainGuard,
       DrainPick, DrainIdle, DrainClaim, DrainClaimWrite, DrainCreate, DrainActiveLoop,
       DrainActiveExists, DrainReadState, DrainMarkRunning, DrainMarkState, DrainSettle,
       DrainRetryWrite, DrainOpenApproval, DrainOpenPr, DrainCreatePr, DrainExit
<1>3. CASE DrainError \/ Crash
  BY <1>1, <1>3 DEF DrainError, Crash, NoBoot, Goto, DrainRecord
<1>4. ASSUME NEW k \in Clients, StartKick(k) \/ StopRequest(k)
      PROVE  drain'.pc = drain.pc /\ drain'.loop = drain.loop /\ drain'.cand = drain.cand
  BY <1>1, <1>4 DEF StartKick, StopRequest, DrainRecord
<1>5. CASE ~DrainStep /\ ~DrainError /\ ~Crash /\ \A k \in Clients : ~StartKick(k) /\ ~StopRequest(k)
  BY <1>5, DrainKept
<1> QED BY <1>2, <1>3, <1>4, <1>5

LEMMA CurrentStep ==
    ASSUME TypeOK, LoopsInv, Recovered, CurrentInv, Next
    PROVE  CurrentInv'
<1>1. /\ orch \in OrchRecord /\ faults \in [crashes : Nat, errors : Nat]
      /\ boot \in [pc : BootPcs, cand : Candidates \union {None}, recovered : BOOLEAN]
      /\ 0 \notin LoopIds
  BY DEF TypeOK, LoopIds
<1>2. CASE DrainMarkState
  <2>1. /\ drain'.pc = "prepare" /\ drain'.loop = drain.loop /\ drain'.cand = drain.cand
        /\ orch'.loop = drain.loop /\ orch'.cand = drain.cand
        /\ boot' = boot /\ faults' = faults /\ loopStatus' = loopStatus /\ drain.pc \in HoldingPcs
    BY <1>1, <1>2, PcNames DEF DrainMarkState, At, Goto, TypeOK, DrainRecord, OrchRecord, world, loops
  <2> QED BY <2>1 DEF CurrentInv, CurrentLoopIsDrained, LoopsInv, OwnLoop
<1>3. CASE ~DrainMarkState
  <2>1. orch'.loop = None \/ (orch'.loop = orch.loop /\ orch'.cand = orch.cand)
    BY <1>3, RowNames
  <2>2. orch'.loop # None => orch'.loop \in LoopIds /\ loopStatus'[orch'.loop] # "none"
    BY <2>1, LoopMoves DEF CurrentInv, LoopMovesRight
  <2>3. drain'.pc = "off" => drain'.loop = None
    BY DrainLoops DEF CurrentInv
  <2>4. faults.crashes > 0 \/ boot'.pc # "up" => faults'.crashes > 0
    <3>1. CASE Crash
      BY <1>1, <3>1 DEF Crash
    <3>2. CASE ~Crash /\ BootStep
      BY <1>1, <3>2 DEF BootStep, CurrentInv, Restart, RecoverCandidate, RecoverLoops,
         RecoverCurrent, RecoverState
    <3>3. CASE DrainError
      BY <1>1, <3>3 DEF DrainError, CurrentInv
    <3>4. CASE ~Crash /\ ~BootStep /\ ~DrainError
      <4>1. faults' = faults
        BY <3>4, DrainStepRest, RequestRest DEF Next, world, NextDay
      <4> QED BY <1>1, <3>4, <4>1, BootMoves DEF CurrentInv
    <3> QED BY <3>1, <3>2, <3>3, <3>4
  <2>5. ASSUME boot'.pc = "up", orch'.loop # None
        PROVE  \/ /\ drain'.loop = orch'.loop /\ drain'.cand = orch'.cand
                  /\ drain'.pc \in NamingPcs
               \/ /\ faults'.crashes > 0
                  /\ drain'.loop # orch'.loop /\ loopStatus'[orch'.loop] \notin ActiveStatuses
    <3>1. CASE boot.pc # "up"
      <4>1. RecoverState
        <5>1. Crash \/ BootStep \/ NextDay
          BY <3>1, OnlyBootSteps
        <5>2. ~Crash /\ ~Restart
          BY <2>5 DEF Crash, Restart, NoBoot
        <5>4. ~RecoverCandidate /\ ~NextDay
          BY <2>5, <3>1 DEF NextDay, RecoverCandidate
        <5>3. ~RecoverLoops /\ ~RecoverCurrent
          BY <1>1, <2>5 DEF RecoverLoops, RecoverCurrent
        <5> QED BY <5>1, <5>2, <5>3, <5>4 DEF BootStep
      <4>2. ~boot.recovered /\ orch' = orch
        BY <1>1, <2>5, <4>1 DEF RecoverState, OrchRecord
      <4>3. loopStatus[orch.loop] \notin ActiveStatuses /\ loopStatus' = loopStatus
        BY <2>5, <4>1, <4>2 DEF RecoverState, Recovered, loops
      <4>4. drain'.loop = None /\ faults'.crashes > 0
        BY <1>1, <3>1, <4>1 DEF RecoverState, LoopsInv, CurrentInv
      <4> QED BY <2>5, <4>2, <4>3, <4>4
    <3>2. CASE boot.pc = "up" /\ drain.loop = orch.loop /\ drain.cand = orch.cand
               /\ drain.pc \in NamingPcs
      BY <2>1, <2>5, <3>2, NamedStays
    <3>3. CASE faults.crashes > 0 /\ drain.loop # orch.loop
               /\ loopStatus[orch.loop] \notin ActiveStatuses
      <4>1. drain'.loop # orch'.loop
        <5>1. CASE DrainCreate
          BY <2>1, <2>5, <5>1, CreateEffect DEF CurrentInv
        <5>2. CASE ~DrainCreate
          BY <2>1, <2>5, <3>3, <5>2, DrainLoops DEF CurrentInv
        <5> QED BY <5>1, <5>2
      <4>2. loopStatus'[orch'.loop] \notin ActiveStatuses
        <5>1. orch'.loop = orch.loop /\ LoopMovesRight(orch.loop)
          BY <2>1, <2>5, LoopMoves DEF CurrentInv
        <5> QED BY <3>3, <4>1, <5>1 DEF LoopMovesRight
      <4> QED BY <1>1, <2>4, <3>3, <4>1, <4>2
    <3> QED BY <2>1, <2>5, <3>1, <3>2, <3>3 DEF CurrentInv, CurrentLoopIsDrained, NamingPcs
  <2> QED BY <2>2, <2>3, <2>4, <2>5 DEF CurrentInv, CurrentLoopIsDrained, NamingPcs
<1> QED BY <1>2, <1>3

LEMMA CurrentInit == Init => CurrentInv
  BY DEF Init, InitOrch, DrainAt, NoBoot, CurrentInv, CurrentLoopIsDrained

LEMMA CurrentStepOrStutter ==
    TypeOK /\ LoopsInv /\ Recovered /\ CurrentInv /\ [Next]_vars => CurrentInv'
<1>1. CurrentInv /\ UNCHANGED vars => CurrentInv'
  BY DEF vars, loops, store, world, CurrentInv, CurrentLoopIsDrained
<1> QED BY <1>1, CurrentStep

(* The row names the loop in the drain's hands or none; after a crash it may   *)
(* name an older loop, but never one that is still active.  So what stop       *)
(* cancels and recovery fails is the loop that runs, for any number of         *)
(* clients, errors and crashes.                                                *)
THEOREM CurrentLoopDrained == Spec => []CurrentLoopIsDrained
<1> DEFINE IInv == TypeOK /\ LoopsInv /\ Recovered /\ CurrentInv
<1>1. Init => IInv
  BY InitTypeOK, LoopsInvInit, RecoveredInit, CurrentInit
<1>2. IInv /\ [Next]_vars => IInv'
  BY TypeStep, LoopsInvStep, RecoveredStep, CurrentStepOrStutter
<1>3. IInv => CurrentLoopIsDrained
  BY DEF CurrentInv
<1> QED BY <1>1, <1>2, <1>3, PTL DEF Spec
-----------------------------------------------------------------------------
(* Who writes what: the steps that change a status, an approval, a pull       *)
(* request, or the request of a client about a loop.                          *)

LEMMA StatusWriters ==
    ASSUME TypeOK, LoopsInv, Next, NEW l \in LoopIds, loopStatus'[l] # loopStatus[l]
    PROVE  \/ DrainCreate /\ loopStatus[l] = "none" /\ drain'.loop = l
           \/ (DrainPrepare \/ DrainRunner) /\ drain.loop = l /\ drain.pc \in BeforeRunPcs
           \/ \E k \in Clients : LoopWrite(k) /\ call[k].loop = l /\ loopStatus'[l] \in TerminalStatuses
           \/ boot.pc # "up" /\ loopStatus[l] \in ActiveStatuses /\ loopStatus'[l] = "failed"
<1>1. loopStatus \in [LoopIds -> LoopStatuses]
  BY DEF TypeOK, LoopsTypeOK
<1>2. ASSUME NEW j, NEW s, UpdateLoop(j, s)
      PROVE  j = l /\ loopStatus'[l] = s
  BY <1>1, <1>2 DEF UpdateLoop
<1>3. CASE DrainCreate
  BY <1>1, <1>3, CreateEffect
<1>4. CASE DrainPrepare
  BY <1>2, <1>4, PrepareEffect DEF BeforeRunPcs
<1>5. CASE DrainRunner
  BY <1>2, <1>5, RunnerEffect DEF BeforeRunPcs
<1>6. ASSUME NEW k \in Clients, LoopWrite(k)
      PROVE  call[k].loop = l /\ loopStatus'[l] \in TerminalStatuses
  BY <1>2, <1>6, LoopWriteEffect
<1>7. CASE RecoverLoops
  BY <1>7 DEF RecoverLoops, CloseActiveLoops, ActiveLoops
<1>8. CASE RecoverCurrent
  BY <1>2, <1>8 DEF RecoverCurrent, loops
<1>9. CASE /\ ~DrainCreate /\ ~DrainPrepare /\ ~DrainRunner /\ ~RecoverLoops /\ ~RecoverCurrent
           /\ \A k \in Clients : ~LoopWrite(k)
  BY <1>9, OtherStepsLeaveLoops DEF loops
<1> QED BY <1>3, <1>4, <1>5, <1>6, <1>7, <1>8, <1>9

LEMMA PrWriters ==
    ASSUME Next, ~DrainOpenPr, ~DrainCreatePr
    PROVE  prStatus' = prStatus
  BY DEF Next, DrainStep, DrainError, RequestStep, ClientStep, NextDay, store, Crash, BootStep,
         Restart, RecoverCandidate, RecoverLoops, RecoverCurrent, RecoverState,
         DrainTop, DrainBudget, DrainGuard, DrainPick, DrainIdle, DrainClaim, DrainClaimWrite,
         DrainCreate, DrainActiveLoop, DrainActiveExists, DrainReadState, DrainMarkRunning,
         DrainMarkState, DrainPrepare, DrainRunner, DrainAccount, DrainAccountWrite, DrainSettle,
         DrainRetryWrite, DrainOpenApproval, DrainPause, DrainExit,
         StartRequest, StopRequest, CancelRequest, ApproveRequest, Dismiss, ReviewRequest,
         StartWrite, StartKick, StopLoop, StopLoopWrite, StopCand, StopCandWrite, StopWrite,
         CancelWrite, ApproveWrite, ReviewApproval, ReviewLoop

LEMMA ApprovalWriters ==
    ASSUME Next, ~DrainOpenApproval, \A k \in Clients : ~ReviewApproval(k)
    PROVE  approval' = approval
  BY DEF Next, DrainStep, DrainError, RequestStep, ClientStep, NextDay, store, Crash, BootStep,
         Restart, RecoverCandidate, RecoverLoops, RecoverCurrent, RecoverState,
         DrainTop, DrainBudget, DrainGuard, DrainPick, DrainIdle, DrainClaim, DrainClaimWrite,
         DrainCreate, DrainActiveLoop, DrainActiveExists, DrainReadState, DrainMarkRunning,
         DrainMarkState, DrainPrepare, DrainRunner, DrainAccount, DrainAccountWrite, DrainSettle,
         DrainRetryWrite, DrainOpenPr, DrainCreatePr, DrainPause, DrainExit,
         StartRequest, StopRequest, CancelRequest, ApproveRequest, Dismiss, ReviewRequest,
         StartWrite, StartKick, StopLoop, StopLoopWrite, StopCand, StopCandWrite, StopWrite,
         CancelWrite, ApproveWrite, ReviewLoop

LEMMA CancelledWriters ==
    ASSUME TypeOK, Next, ~DrainRunner, \A k \in Clients : ~StopLoopWrite(k) /\ ~CancelWrite(k)
    PROVE  hist'.cancelled = hist.cancelled
<1>1. hist \in HistRecord
  BY DEF TypeOK
<1>2. CASE DrainMarkState
  BY <1>1, <1>2 DEF DrainMarkState, HistRecord
<1>3. ASSUME NEW k \in Clients, StopRequest(k) \/ StartWrite(k) \/ StartKick(k) \/ StopWrite(k)
      PROVE  hist'.cancelled = hist.cancelled
  BY <1>1, <1>3 DEF StopRequest, StartWrite, StartKick, StopWrite, HistRecord
<1>4. CASE ~DrainMarkState /\ \A k \in Clients : ~StopRequest(k) /\ ~StartWrite(k)
                                                   /\ ~StartKick(k) /\ ~StopWrite(k)
  BY <1>4 DEF Next, DrainStep, DrainError, RequestStep, ClientStep, NextDay, Crash, BootStep,
         Restart, RecoverCandidate, RecoverLoops, RecoverCurrent, RecoverState,
         DrainTop, DrainBudget, DrainGuard, DrainPick, DrainIdle, DrainClaim, DrainClaimWrite,
         DrainCreate, DrainActiveLoop, DrainActiveExists, DrainReadState, DrainMarkRunning,
         DrainPrepare, DrainAccount, DrainAccountWrite, DrainSettle,
         DrainRetryWrite, DrainOpenApproval, DrainOpenPr, DrainCreatePr, DrainPause, DrainExit,
         StartRequest, CancelRequest, ApproveRequest, Dismiss, ReviewRequest,
         StopLoop, StopCand, StopCandWrite, ApproveWrite, ReviewApproval, ReviewLoop
<1> QED BY <1>2, <1>3, <1>4

(* Requests on their way to write a loop. *)
LoopPcs == {"stopLoop", "stopLoopWrite", "reviewApproval", "reviewLoop", "cancelWrite"}

LEMMA CallMoves ==
    ASSUME TypeOK, Next, NEW k \in Clients
    PROVE  \/ call'[k] = call[k]
           \/ call'[k].pc \notin LoopPcs
           \/ StopRequest(k) /\ call'[k].pc = "stopLoop" /\ call'[k].loop = orch.loop
           \/ /\ StopLoop(k) /\ call[k].pc = "stopLoop" /\ call'[k].pc = "stopLoopWrite"
              /\ call'[k].loop = call[k].loop
              /\ call[k].loop # None /\ loopStatus[call[k].loop] \in ActiveStatuses
           \/ /\ ReviewRequest(k) /\ call'[k].pc = "reviewApproval" /\ call'[k].loop \in LoopIds
              /\ approval[call'[k].loop] = "pending"
              /\ loopStatus[call'[k].loop] = "needs_human_review"
           \/ /\ ReviewApproval(k) /\ call[k].pc = "reviewApproval" /\ call'[k].pc = "reviewLoop"
              /\ call'[k].loop = call[k].loop
           \/ CancelRequest(k)
<1> USE DEF LoopPcs
<1>1. call \in [Clients -> CallRecord]
  BY DEF TypeOK
<1>2. CASE call' = call
  BY <1>2
<1>3. CASE Crash
  BY <1>3 DEF Crash, NoCall
<1>4. ASSUME NEW j \in Clients, RequestStep(j) \/ ClientStep(j), j # k
      PROVE  call'[k] = call[k]
  <2>1. call' = call \/ \E r : call' = [call EXCEPT ![j] = r]
    BY <1>4 DEF RequestStep, ClientStep, Finish, StartRequest, StopRequest, CancelRequest,
         ApproveRequest, Dismiss, ReviewRequest, StartKick, CancelWrite, ApproveWrite, ReviewLoop,
         StopWrite, StartWrite, StopLoop, StopLoopWrite, StopCand, StopCandWrite, ReviewApproval,
         Continue
  <2> QED BY <1>1, <1>4, <2>1
<1>5. CASE StopRequest(k)
  BY <1>1, <1>5 DEF StopRequest, NoCall
<1>6. CASE StopLoop(k)
  BY <1>1, <1>6 DEF StopLoop, Continue, Working, CallRecord
<1>7. CASE ReviewRequest(k)
  BY <1>1, <1>7 DEF ReviewRequest, NoCall
<1>8. CASE ReviewApproval(k)
  BY <1>1, <1>8 DEF ReviewApproval, Continue, Working, CallRecord
<1>9. CASE StartRequest(k) \/ ApproveRequest(k)
  BY <1>1, <1>9 DEF StartRequest, ApproveRequest, NoCall
<1>10. CASE StartWrite(k) \/ StopLoopWrite(k) \/ StopCand(k) \/ StopCandWrite(k)
  BY <1>1, <1>10 DEF StartWrite, StopLoopWrite, StopCand, StopCandWrite, Continue, CallRecord
<1>11. CASE StartKick(k) \/ StopWrite(k) \/ CancelWrite(k) \/ ApproveWrite(k) \/ ReviewLoop(k)
  <2>1. Finish(k)
    BY <1>11 DEF StartKick, StopWrite, CancelWrite, ApproveWrite, ReviewLoop
  <2> QED BY <1>1, <2>1 DEF Finish, NoCall
<1>12. CASE Dismiss(k)
  BY <1>2, <1>12 DEF Dismiss
<1>13. CASE DrainStep \/ DrainError \/ BootStep \/ NextDay
  BY <1>2, <1>13, DrainStepRest DEF DrainError, NextDay, BootStep, Restart, RecoverCandidate,
     RecoverLoops, RecoverCurrent, RecoverState
<1> QED BY <1>3, <1>4, <1>5, <1>6, <1>7, <1>8, <1>9, <1>10, <1>11, <1>12, <1>13
        DEF Next, RequestStep, ClientStep
-----------------------------------------------------------------------------
(* A loop the drain holds: the outcome of its run, once there is one, can only *)
(* turn into a cancellation, and an abort is never taken back.                 *)
LEMMA HeldRun ==
    ASSUME TypeOK, LoopsInv, Next, ~DrainCreate, drain'.pc \in HoldingPcs
    PROVE  /\ drain.pc \in HoldingPcs /\ drain'.loop = drain.loop
           /\ drain.aborted => drain'.aborted
           /\ drain.pc \in BeforeRunPcs =>
                \/ drain'.pc \in BeforeRunPcs
                \/ drain'.pc = "account" /\ (drain.aborted => drain'.run.status = "cancelled")
           /\ drain.pc \notin BeforeRunPcs =>
                /\ drain'.pc \notin BeforeRunPcs
                /\ drain'.run.status \in {drain.run.status, "cancelled"}
                /\ drain.pc = "account" /\ drain'.pc # "account" /\ drain.aborted =>
                     drain'.run.status = "cancelled"
           /\ drain'.pc \in {"openPr", "createPr"} =>
                drain.pc \in {"openPr", "createPr"} \/ drain'.run.status = "accepted"
           /\ drain.pc \in {"openPr", "createPr"} => drain'.run.status = drain.run.status
           /\ drain.pc = "createPr" => drain'.pc = "createPr"
           /\ drain'.pc = "createPr" => drain.pc = "createPr" \/ DrainOpenPr
<1> USE DEF At, Goto, HoldingPcs, BeforeRunPcs
<1>1. drain \in DrainRecord
  BY DEF TypeOK
<1>2. CASE DrainStep
  <2>1. CASE DrainReadState \/ DrainMarkRunning \/ DrainMarkState \/ DrainPrepare
    BY <1>1, <2>1 DEF DrainRecord, DrainReadState, DrainMarkRunning, DrainMarkState, DrainPrepare
  <2>2. CASE DrainRunner
    BY <2>2, RunnerEffect
  <2>3. CASE DrainAccount
    <3>1. /\ drain.pc = "account" /\ drain'.pc = "accountWrite" /\ drain'.loop = drain.loop
          /\ drain'.aborted = drain.aborted
          /\ drain'.run.status = IF drain.aborted THEN "cancelled" ELSE drain.run.status
      BY <1>1, <2>3 DEF DrainAccount, DrainRecord, RunRecord
    <3> QED BY <3>1
  <2>4. CASE DrainAccountWrite
    BY <1>1, <2>4 DEF DrainRecord, DrainAccountWrite
  <2>5. CASE DrainSettle
    <3>0. drain.pc = "settle"
      BY <2>5 DEF DrainSettle
    <3>1. CASE drain' = [drain EXCEPT !.pc = "retryWrite",
                                      !.run.qualified = RetriesSpent(drain.cand)]
      <4>1. /\ drain'.pc = "retryWrite" /\ drain'.loop = drain.loop
            /\ drain'.aborted = drain.aborted /\ drain'.run.status = drain.run.status
        BY <1>1, <3>1 DEF DrainRecord, RunRecord
      <4> QED BY <3>0, <4>1
    <3>2. CASE drain' = [drain EXCEPT !.pc = "openPr"] /\ drain.run.status = "accepted"
      BY <1>1, <3>0, <3>2 DEF DrainRecord
    <3>3. CASE drain' = [drain EXCEPT !.pc = "openApproval"]
      BY <1>1, <3>0, <3>3 DEF DrainRecord
    <3>4. CASE \E pc \in {"top", "pauseLoop"} : drain' = DrainAt(pc, drain.aborted)
      BY <3>4 DEF DrainAt
    <3> QED BY <2>5, <3>1, <3>2, <3>3, <3>4, PcNames DEF DrainSettle
  <2>6. CASE DrainOpenPr
    <3>1. CASE drain' = [drain EXCEPT !.pc = "createPr"]
      BY <1>1, <2>6, <3>1 DEF DrainRecord, DrainOpenPr
    <3>2. CASE \E pc \in {"top", "pauseLoop"} : drain' = DrainAt(pc, drain.aborted)
      BY <3>2 DEF DrainAt
    <3> QED BY <2>6, <3>1, <3>2, PcNames DEF DrainOpenPr
  <2>7. CASE ~(drain.pc \in HoldingPcs /\ drain'.pc \in HoldingPcs)
    BY <1>2, <2>7, DrainFollows DEF Follows
  <2>8. drain.pc \in HoldingPcs \ {"retryWrite", "openApproval", "createPr"} =>
          \/ DrainReadState \/ DrainMarkRunning \/ DrainMarkState \/ DrainPrepare \/ DrainRunner
          \/ DrainAccount \/ DrainAccountWrite \/ DrainSettle \/ DrainOpenPr
    BY <1>2 DEF DrainStep, DrainTop, DrainBudget, DrainGuard,
       DrainPick, DrainIdle, DrainClaim, DrainClaimWrite, DrainActiveLoop, DrainActiveExists,
       DrainCreate, DrainRetryWrite, DrainOpenApproval, DrainCreatePr, DrainPause, DrainExit
  <2>9. drain.pc \in {"retryWrite", "openApproval", "createPr"} =>
          DrainRetryWrite \/ DrainOpenApproval \/ DrainCreatePr
    BY <1>2 DEF DrainStep, DrainTop, DrainBudget, DrainGuard,
       DrainPick, DrainIdle, DrainClaim, DrainClaimWrite, DrainActiveLoop, DrainActiveExists,
       DrainReadState, DrainMarkRunning, DrainMarkState, DrainPrepare, DrainRunner, DrainAccount,
       DrainAccountWrite, DrainSettle, DrainOpenPr, DrainCreate, DrainPause, DrainExit
  <2>10. CASE DrainRetryWrite \/ DrainOpenApproval \/ DrainCreatePr
    <3>1. drain'.pc \in {"top", "pauseLoop"}
      BY <2>10, PcNames DEF DrainAt, DrainRetryWrite, DrainOpenApproval, DrainCreatePr
    <3> QED BY <3>1
  <2> QED BY <2>1, <2>2, <2>3, <2>4, <2>5, <2>6, <2>7, <2>8, <2>9, <2>10
<1>3. CASE DrainError \/ Crash
  BY <1>1, <1>3 DEF DrainError, Crash, DrainAt, DrainRecord
<1>4. ASSUME NEW k \in Clients, StartKick(k) \/ StopRequest(k)
      PROVE  /\ drain'.pc = drain.pc /\ drain'.loop = drain.loop /\ drain'.run = drain.run
             /\ drain.aborted => drain'.aborted
  BY <1>1, <1>4 DEF StartKick, StopRequest, DrainAt, DrainRecord
<1>5. CASE ~DrainStep /\ ~DrainError /\ ~Crash /\ \A k \in Clients : ~StartKick(k) /\ ~StopRequest(k)
  BY <1>5, DrainKept
<1> QED BY <1>2, <1>3, <1>4, <1>5

(* Only prepare hands a run to the runner. *)
LEMMA RunnerReached ==
    ASSUME TypeOK, LoopsInv, Next, drain'.pc = "runner", drain.pc # "runner"
    PROVE  DrainPrepare
<1> USE DEF At, Goto
<1>1. ~DrainCreate /\ "runner" \in HoldingPcs
  BY CreateEffect, PcNames
<1>2. drain.pc \in BeforeRunPcs /\ drain \in DrainRecord
  BY <1>1, HeldRun DEF BeforeRunPcs, TypeOK
<1>3. ~DrainRunner /\ ~DrainReadState /\ ~DrainMarkRunning /\ ~DrainMarkState
  BY <1>2, RunnerEffect DEF DrainReadState, DrainMarkRunning, DrainMarkState, DrainRecord
<1>4. CASE DrainStep
  BY <1>1, <1>2, <1>3, <1>4 DEF DrainStep, BeforeRunPcs, DrainTop, DrainBudget, DrainGuard,
     DrainPick, DrainIdle, DrainClaim, DrainClaimWrite, DrainActiveLoop, DrainActiveExists,
     DrainAccount, DrainAccountWrite, DrainSettle, DrainRetryWrite, DrainOpenApproval, DrainOpenPr,
     DrainCreatePr, DrainPause, DrainExit
<1>5. CASE DrainError \/ Crash
  BY <1>2, <1>5 DEF DrainError, Crash, DrainAt, DrainRecord
<1>6. CASE ~DrainStep /\ ~DrainError /\ ~Crash
  <2>1. drain'.pc = drain.pc
    <3>1. ASSUME NEW k \in Clients, StartKick(k) \/ StopRequest(k)
          PROVE  drain'.pc = drain.pc
      BY <1>2, <3>1 DEF StartKick, StopRequest, DrainRecord, BeforeRunPcs
    <3>2. CASE \A k \in Clients : ~StartKick(k) /\ ~StopRequest(k)
      BY <1>6, <3>2, DrainKept
    <3> QED BY <3>1, <3>2
  <2> QED BY <2>1
<1> QED BY <1>4, <1>5, <1>6

(* What a run does next: it ends, or the drain gives it up. *)
LEMMA RunnerStays ==
    ASSUME TypeOK, Next, drain.pc = "runner"
    PROVE  drain'.pc \in {"runner", "account"} \/ drain'.pc \notin HoldingPcs
<1> USE DEF At, Goto
<1>1. drain \in DrainRecord
  BY DEF TypeOK
<1>2. CASE DrainStep
  <2>1. DrainRunner
    BY <1>2 DEF DrainStep, DrainTop, DrainBudget, DrainGuard,
       DrainPick, DrainIdle, DrainClaim, DrainClaimWrite, DrainActiveLoop, DrainActiveExists,
       DrainCreate, DrainReadState, DrainMarkRunning, DrainMarkState, DrainPrepare,
       DrainAccount, DrainAccountWrite, DrainSettle, DrainRetryWrite, DrainOpenApproval, DrainOpenPr,
       DrainCreatePr, DrainPause, DrainExit
  <2> QED BY <2>1, RunnerEffect
<1>3. CASE DrainError \/ Crash
  BY <1>1, <1>3, PcNames DEF DrainError, Crash, DrainAt, DrainRecord
<1>4. ASSUME NEW k \in Clients, StartKick(k) \/ StopRequest(k)
      PROVE  drain'.pc = drain.pc
  BY <1>1, <1>4 DEF StartKick, StopRequest, DrainRecord
<1>5. CASE ~DrainStep /\ ~DrainError /\ ~Crash /\ \A k \in Clients : ~StartKick(k) /\ ~StopRequest(k)
  BY <1>5, DrainKept
<1> QED BY <1>2, <1>3, <1>4, <1>5

-----------------------------------------------------------------------------
(* Which loops can get a pull request *)

Holds(l) == drain.pc \in HoldingPcs /\ drain.loop = l

(* The drain will not open a pull request for l: it does not hold it, its run  *)
(* was not accepted, or the abort it has received will be seen before.         *)
Unpaid(l) ==
    Holds(l) =>
        \/ drain.pc \in BeforeRunPcs \union {"account"} /\ drain.aborted
        \/ drain.pc \notin BeforeRunPcs /\ drain.run.status # "accepted"
Doomed(l) == loopStatus[l] # "none" /\ prStatus[l] = "none" /\ Unpaid(l)

(* A loop that is over, so that a stop which names it will not write it. *)
Ended(l) ==
    /\ loopStatus[l] \notin ActiveStatuses \union {"none"}
    /\ drain.loop = l => drain.pc \notin BeforeRunPcs

(* A pull request is only for an accepted loop, and a loop that was cancelled  *)
(* or whose approval somebody waits for can never get one.                     *)
LoopPrInv(l) ==
    /\ prStatus[l] # "none" => loopStatus[l] \in {"accepted", "approved"}
    /\ prStatus[l] # "none" /\ Holds(l) => drain.pc = "createPr"
    /\ l \in hist.cancelled => Doomed(l)
    /\ approval[l] # "none" => loopStatus[l] # "none" /\ prStatus[l] = "none" /\ ~Holds(l)

(* A request that is about to write a loop is about one without a future. *)
CallInv(k) ==
    LET l == call[k].loop IN
    /\ call[k].pc = "stopLoop" /\ l # None => l \in LoopIds /\ (Doomed(l) \/ Ended(l))
    /\ call[k].pc = "stopLoopWrite" => l \in LoopIds /\ Doomed(l)
    /\ call[k].pc \in {"reviewApproval", "reviewLoop"} => l \in LoopIds /\ approval[l] # "none"
    /\ call[k].pc # "cancelWrite"

PrInv ==
    /\ quota["cancel"] = 0
    /\ drain.pc \in {"openPr", "createPr"} => drain.run.status = "accepted"
    /\ drain.pc \in HoldingPcs \ BeforeRunPcs /\ drain.run.status = "accepted" =>
         loopStatus[drain.loop] \notin ActiveStatuses
    /\ drain.pc = "createPr" => prStatus[drain.loop] # "none"
    /\ \A l \in LoopIds : LoopPrInv(l)
    /\ \A k \in Clients : CallInv(k)

(* What is held now was held before, or has just been created. *)
LEMMA HeldBefore ==
    ASSUME TypeOK, LoopsInv, Next, NEW l, loopStatus[l] # "none", Holds(l)'
    PROVE  ~DrainCreate /\ Holds(l) /\ drain'.pc \in HoldingPcs
<1>1. ~DrainCreate
  BY CreateEffect DEF Holds
<1> QED BY <1>1, HeldRun DEF Holds

LEMMA UnpaidStays ==
    ASSUME TypeOK, LoopsInv, Next, NEW l, loopStatus[l] # "none", Unpaid(l)
    PROVE  Unpaid(l)'
<1> SUFFICES ASSUME Holds(l)'
             PROVE  \/ drain'.pc \in BeforeRunPcs \union {"account"} /\ drain'.aborted
                    \/ drain'.pc \notin BeforeRunPcs /\ drain'.run.status # "accepted"
  BY DEF Unpaid
<1>1. ~DrainCreate /\ Holds(l) /\ drain'.pc \in HoldingPcs
  BY HeldBefore
<1>2. "account" \notin BeforeRunPcs
  BY DEF BeforeRunPcs
<1> QED BY <1>1, <1>2, HeldRun DEF Unpaid

LEMMA PrWritten ==
    ASSUME TypeOK, LoopsInv, PrInv, Next, NEW l \in LoopIds, prStatus'[l] # prStatus[l]
    PROVE  /\ Holds(l) /\ drain.run.status = "accepted" /\ drain.pc \notin BeforeRunPcs
           /\ drain.pc \in {"openPr", "createPr"} /\ loopStatus' = loopStatus
           /\ drain.pc = "openPr" =>
                drain'.pc = "createPr" /\ loopStatus[l] \in {"accepted", "approved"}
           /\ drain.pc = "createPr" => drain'.pc \notin HoldingPcs
<1> USE DEF At, Goto
<1>1. /\ prStatus \in [LoopIds -> {"none", "creating", "draft_created", "create_failed"}]
      /\ drain \in DrainRecord
  BY DEF TypeOK
<1>2. {"openPr", "createPr"} \subseteq HoldingPcs \ BeforeRunPcs
  BY DEF HoldingPcs, BeforeRunPcs
<1>3. CASE DrainOpenPr
  <2>1. CASE UNCHANGED prStatus
    BY <2>1
  <2>2. CASE drain' = [drain EXCEPT !.pc = "createPr"]
    BY <1>1, <1>2, <1>3, <2>2 DEF DrainOpenPr, Holds, PrInv, loops, DrainRecord
  <2> QED BY <1>3, <2>1, <2>2 DEF DrainOpenPr
<1>4. CASE DrainCreatePr
  <2>1. drain'.pc \in {"top", "pauseLoop"}
    BY <1>4, PcNames DEF DrainCreatePr, DrainAt
  <2>2. drain.pc = "createPr" /\ drain.loop = l /\ loopStatus' = loopStatus
    BY <1>1, <1>4 DEF DrainCreatePr, loops
  <2> QED BY <1>2, <2>1, <2>2, PcNames DEF PrInv, Holds
<1> QED BY <1>3, <1>4, PrWriters

LEMMA DoomedStays ==
    ASSUME TypeOK, LoopsInv, PrInv, Next, NEW l \in LoopIds, Doomed(l)
    PROVE  Doomed(l)'
<1>1. loopStatus'[l] # "none"
  BY LoopMoves DEF Doomed, LoopMovesRight
<1>2. prStatus'[l] = "none"
  <2>1. SUFFICES ASSUME prStatus'[l] # prStatus[l] PROVE FALSE
    BY DEF Doomed
  <2>2. Holds(l) /\ drain.run.status = "accepted" /\ drain.pc \in {"openPr", "createPr"}
    BY <2>1, PrWritten
  <2> QED BY <2>2 DEF Doomed, Unpaid, BeforeRunPcs
<1>3. Unpaid(l)'
  BY UnpaidStays DEF Doomed
<1> QED BY <1>1, <1>2, <1>3 DEF Doomed

LEMMA EndedStays ==
    ASSUME TypeOK, LoopsInv, Next, NEW l \in LoopIds, Ended(l)
    PROVE  Ended(l)'
<1>1. loopStatus'[l] # "none" /\ loopStatus[l] # "none" /\ loopStatus[l] \notin ActiveStatuses
  BY LoopMoves DEF Ended, LoopMovesRight
<1>2. loopStatus'[l] \notin ActiveStatuses
  <2>1. CASE loopStatus'[l] = loopStatus[l]
    BY <1>1, <2>1
  <2>2. CASE loopStatus'[l] # loopStatus[l]
    BY <1>1, <2>2, StatusWriters, StatusSets DEF Ended
  <2> QED BY <2>1, <2>2
<1>3. ASSUME drain'.loop = l, drain'.pc \in BeforeRunPcs PROVE FALSE
  <2>1. Holds(l)'
    BY <1>3 DEF Holds, HoldingPcs
  <2>2. ~DrainCreate /\ Holds(l) /\ drain'.pc \in HoldingPcs
    BY <1>1, <2>1, HeldBefore
  <2> QED BY <1>3, <2>2, HeldRun DEF Ended, Holds
<1> QED BY <1>1, <1>2, <1>3 DEF Ended

LEMMA LoopPrStep ==
    ASSUME TypeOK, LoopsInv, PrInv, Next, NEW l \in LoopIds
    PROVE  LoopPrInv(l)'
<1>1. LoopPrInv(l) /\ \A k \in Clients : CallInv(k)
  BY DEF PrInv
<1>2. LoopMovesRight(l)
  BY LoopMoves
<1>3. prStatus'[l] # "none" => loopStatus'[l] \in {"accepted", "approved"}
  <2> SUFFICES ASSUME prStatus'[l] # "none" PROVE loopStatus'[l] \in {"accepted", "approved"}
    OBVIOUS
  <2>1. CASE prStatus'[l] # prStatus[l]
    <3>1. CASE prStatus[l] = "none"
      BY <2>1, <3>1, PrWritten DEF PrInv, Holds
    <3>2. CASE prStatus[l] # "none"
      BY <1>1, <2>1, <3>2, PrWritten DEF LoopPrInv
    <3> QED BY <3>1, <3>2
  <2>2. CASE prStatus'[l] = prStatus[l]
    <3>1. loopStatus[l] \in {"accepted", "approved"}
      BY <1>1, <2>2 DEF LoopPrInv
    <3>2. ASSUME loopStatus'[l] # loopStatus[l] PROVE FALSE
      <4>1. CASE (DrainPrepare \/ DrainRunner) /\ drain.loop = l /\ drain.pc \in BeforeRunPcs
        BY <1>1, <2>2, <4>1 DEF LoopPrInv, Holds, HoldingPcs, BeforeRunPcs
      <4>2. ASSUME NEW k \in Clients, LoopWrite(k), call[k].loop = l
            PROVE  FALSE
        <5>1. call[k].pc \in {"stopLoopWrite", "reviewLoop", "cancelWrite"}
          BY <4>2 DEF LoopWrite, StopLoopWrite, CancelWrite, ReviewLoop, Working
        <5> QED BY <1>1, <2>2, <4>2, <5>1 DEF CallInv, Doomed, LoopPrInv
      <4>3. loopStatus[l] # "none" /\ loopStatus[l] \notin ActiveStatuses
        BY <3>1 DEF ActiveStatuses, DrivenStatuses
      <4> QED BY <3>2, <4>1, <4>2, <4>3, StatusWriters
    <3> QED BY <3>1, <3>2
  <2> QED BY <2>1, <2>2
<1>4. prStatus'[l] # "none" /\ Holds(l)' => drain'.pc = "createPr"
  <2> SUFFICES ASSUME prStatus'[l] # "none", Holds(l)' PROVE drain'.pc = "createPr"
    OBVIOUS
  <2>1. loopStatus[l] # "none"
    <3>1. CASE prStatus'[l] # prStatus[l]
      BY <3>1, PrWritten DEF Holds, LoopsInv, OwnLoop
    <3>2. CASE prStatus'[l] = prStatus[l]
      BY <1>1, <3>2 DEF LoopPrInv
    <3> QED BY <3>1, <3>2
  <2>2. ~DrainCreate /\ Holds(l) /\ drain'.pc \in HoldingPcs
    BY <2>1, HeldBefore
  <2>3. CASE prStatus'[l] # prStatus[l]
    BY <2>2, <2>3, PrWritten
  <2>4. CASE prStatus'[l] = prStatus[l]
    BY <1>1, <2>2, <2>4, HeldRun DEF LoopPrInv
  <2> QED BY <2>3, <2>4
<1>5. l \in hist'.cancelled => Doomed(l)'
  <2> SUFFICES ASSUME l \in hist'.cancelled PROVE Doomed(l)'
    OBVIOUS
  <2>1. CASE l \in hist.cancelled
    BY <1>1, <2>1, DoomedStays DEF LoopPrInv
  <2>2. CASE l \notin hist.cancelled
    <3>1. CASE DrainRunner
      <4>1. /\ drain.pc = "runner" /\ drain'.pc = "account" /\ drain.loop = l
            /\ drain'.loop = l /\ drain'.run.status = "cancelled"
        BY <2>2, <3>1, RunnerEffect
      <4>2. Holds(l) /\ "account" \notin BeforeRunPcs /\ loopStatus[l] # "none"
        BY <4>1 DEF Holds, HoldingPcs, BeforeRunPcs, LoopsInv, OwnLoop
      <4>3. prStatus'[l] = "none"
        BY <1>1, <3>1, <4>1, <4>2 DEF LoopPrInv, DrainRunner, store
      <4> QED BY <1>2, <4>1, <4>2, <4>3 DEF Doomed, Unpaid, LoopMovesRight
    <3>2. ASSUME NEW k \in Clients, StopLoopWrite(k) \/ CancelWrite(k)
          PROVE  Doomed(l)'
      <4>1. StopLoopWrite(k) /\ call[k].pc = "stopLoopWrite"
        BY <1>1, <3>2 DEF CancelWrite, StopLoopWrite, Working, CallInv
      <4>2. call[k].loop = l
        <5>1. hist \in HistRecord
          BY DEF TypeOK
        <5>2. hist'.cancelled = hist.cancelled \union {call[k].loop}
          BY <4>1, <5>1 DEF StopLoopWrite, HistRecord
        <5> QED BY <2>2, <5>2
      <4>3. Doomed(l)
        BY <1>1, <4>1, <4>2 DEF CallInv
      <4> QED BY <4>3, DoomedStays
    <3> QED BY <2>2, <3>1, <3>2, CancelledWriters
  <2> QED BY <2>1, <2>2
<1>6. approval'[l] # "none" =>
         loopStatus'[l] # "none" /\ prStatus'[l] = "none" /\ ~Holds(l)'
  <2> SUFFICES ASSUME approval'[l] # "none"
               PROVE  loopStatus'[l] # "none" /\ prStatus'[l] = "none" /\ ~Holds(l)'
    OBVIOUS
  <2>0. approval \in [LoopIds -> {"none", "pending", "decided"}]
    BY DEF TypeOK
  <2>1. CASE approval[l] # "none"
    <3>1. loopStatus[l] # "none" /\ prStatus[l] = "none" /\ ~Holds(l)
      BY <1>1, <2>1 DEF LoopPrInv
    <3> QED BY <1>2, <3>1, HeldBefore, PrWritten DEF LoopMovesRight
  <2>2. CASE approval[l] = "none" /\ DrainOpenApproval
    <3>1. drain.loop = l /\ drain.pc = "openApproval"
      BY <2>0, <2>2 DEF DrainOpenApproval, At
    <3>2. drain'.pc \in {"top", "pauseLoop"}
      BY <2>2, PcNames DEF DrainOpenApproval, DrainAt
    <3>3. loopStatus[l] # "none" /\ prStatus[l] = "none"
      BY <1>1, <3>1, PcNames DEF Holds, LoopPrInv, LoopsInv, OwnLoop
    <3>4. prStatus'[l] = "none"
      BY <2>2, <3>3 DEF DrainOpenApproval
    <3> QED BY <1>2, <3>2, <3>3, <3>4, PcNames DEF Holds, LoopMovesRight
  <2>3. ASSUME approval[l] = "none", NEW k \in Clients, ReviewApproval(k)
        PROVE  FALSE
    <3>1. call[k].loop = l /\ call[k].pc = "reviewApproval"
      BY <2>0, <2>3 DEF ReviewApproval, Working
    <3> QED BY <1>1, <2>3, <3>1 DEF CallInv
  <2> QED BY <2>1, <2>2, <2>3, ApprovalWriters
<1> QED BY <1>3, <1>4, <1>5, <1>6 DEF LoopPrInv

(* At the moment of a stop every loop is without a future or over. *)
LEMMA StopNames ==
    ASSUME TypeOK, LoopsInv, PrInv, Next, NEW k \in Clients, StopRequest(k), NEW l \in LoopIds,
           loopStatus[l] # "none"
    PROVE  Doomed(l)' \/ Ended(l)'
<1>1. LoopPrInv(l)
  BY DEF PrInv
<1>2. CASE prStatus[l] = "none" /\ ~Holds(l)
  BY <1>2, DoomedStays DEF Doomed, Unpaid
<1>3. CASE prStatus[l] = "none" /\ Holds(l)
  <2>1. drain \in DrainRecord /\ drain.pc # "off"
    BY <1>3 DEF TypeOK, Holds, HoldingPcs, BeforeRunPcs
  <2>2. drain'.aborted /\ drain'.pc = drain.pc /\ drain'.loop = drain.loop
        /\ drain'.run = drain.run /\ prStatus' = prStatus /\ loopStatus' = loopStatus
    BY <2>1 DEF StopRequest, DrainRecord, store, loops
  <2>3. CASE drain.pc \in BeforeRunPcs \/ drain.run.status # "accepted"
    BY <1>3, <2>2, <2>3 DEF Doomed, Unpaid
  <2>4. CASE drain.pc \notin BeforeRunPcs /\ drain.run.status = "accepted"
    BY <1>3, <2>2, <2>4 DEF PrInv, Ended, Holds
  <2> QED BY <2>3, <2>4
<1>4. CASE prStatus[l] # "none"
  <2>1. loopStatus[l] \notin ActiveStatuses
    BY <1>1, <1>4 DEF LoopPrInv, ActiveStatuses, DrivenStatuses
  <2>2. drain.loop = l => drain.pc \notin BeforeRunPcs
    BY <1>1, <1>4 DEF LoopPrInv, Holds, HoldingPcs, BeforeRunPcs
  <2>3. Ended(l)
    BY <2>1, <2>2 DEF Ended
  <2> QED BY <2>3, EndedStays
<1> QED BY <1>2, <1>3, <1>4

LEMMA ApprovalStays ==
    ASSUME TypeOK, Next, NEW l \in LoopIds, approval[l] # "none"
    PROVE  approval'[l] # "none"
<1>1. approval \in [LoopIds -> {"none", "pending", "decided"}]
  BY DEF TypeOK
<1> QED BY <1>1, ApprovalWriters DEF DrainOpenApproval, ReviewApproval

LEMMA QuotaMoves ==
    ASSUME TypeOK, Next, NEW r \in Requests
    PROVE  /\ quota[r] \in Nat /\ quota'[r] \in Nat
           /\ \/ quota'[r] = quota[r]
              \/ quota'[r] = quota[r] - 1 /\ quota[r] > 0 /\ \E k \in Clients : RequestStep(k)
<1>1. quota \in [Requests -> Nat] /\ quota' \in [Requests -> Nat]
  BY TypeStep DEF TypeOK
<1>2. ASSUME NEW k \in Clients, RequestStep(k)
      PROVE  \E q \in Requests : quota[q] > 0 /\ quota' = [quota EXCEPT ![q] = @ - 1]
  BY <1>2 DEF RequestStep, Begin, Requests, StartRequest, StopRequest, CancelRequest,
     ApproveRequest, Dismiss, ReviewRequest
<1>3. CASE ~\E k \in Clients : RequestStep(k)
  <2>1. quota' = quota
    BY <1>3, DrainStepRest DEF Next, ClientStep, world, DrainError, NextDay, Crash, BootStep, Restart,
       RecoverCandidate, RecoverLoops, RecoverCurrent, RecoverState, StartWrite, StartKick,
       StopLoop, StopLoopWrite, StopCand, StopCandWrite, StopWrite, CancelWrite, ApproveWrite,
       ReviewApproval, ReviewLoop
  <2> QED BY <1>1, <2>1
<1> QED BY <1>1, <1>2, <1>3

LEMMA NoCancel ==
    ASSUME TypeOK, Next, quota["cancel"] = 0
    PROVE  quota'["cancel"] = 0 /\ \A k \in Clients : ~CancelRequest(k)
<1>1. "cancel" \in Requests
  BY DEF Requests
<1> QED BY <1>1, QuotaMoves DEF CancelRequest, Begin

LEMMA CallStep ==
    ASSUME TypeOK, LoopsInv, CurrentInv, PrInv, Next, NEW k \in Clients
    PROVE  CallInv(k)'
<1>1. CallInv(k) /\ \A l \in LoopIds : LoopPrInv(l)
  BY DEF PrInv
<1>2. CASE call'[k] = call[k]
  BY <1>1, <1>2, DoomedStays, EndedStays, ApprovalStays DEF CallInv
<1>3. CASE call'[k].pc \notin LoopPcs
  BY <1>3 DEF CallInv, LoopPcs
<1>4. CASE StopRequest(k) /\ call'[k].pc = "stopLoop" /\ call'[k].loop = orch.loop
  BY <1>4, StopNames DEF CallInv, CurrentInv
<1>5. CASE /\ call[k].pc = "stopLoop" /\ call'[k].pc = "stopLoopWrite"
           /\ call'[k].loop = call[k].loop
           /\ call[k].loop # None /\ loopStatus[call[k].loop] \in ActiveStatuses
  BY <1>1, <1>5, DoomedStays DEF CallInv, Ended
<1>6. CASE /\ call'[k].pc = "reviewApproval" /\ call'[k].loop \in LoopIds
           /\ approval[call'[k].loop] = "pending"
  BY <1>6, ApprovalStays DEF CallInv
<1>7. CASE /\ call[k].pc = "reviewApproval" /\ call'[k].pc = "reviewLoop"
           /\ call'[k].loop = call[k].loop
  BY <1>1, <1>7, ApprovalStays DEF CallInv
<1>8. ~CancelRequest(k)
  BY NoCancel DEF PrInv
<1> QED BY <1>2, <1>3, <1>4, <1>5, <1>6, <1>7, <1>8, CallMoves

LEMMA CreatePrReached ==
    ASSUME TypeOK, LoopsInv, Next, drain'.pc = "createPr", drain.pc # "createPr"
    PROVE  prStatus'[drain'.loop] = "creating"
<1>1. ~DrainCreate /\ "createPr" \in HoldingPcs /\ "openPr" \in HoldingPcs
  BY CreateEffect, PcNames
<1>2. DrainOpenPr
  BY <1>1, HeldRun
<1>3. drain.loop \in LoopIds
  BY <1>1, <1>2 DEF DrainOpenPr, At, LoopsInv, OwnLoop
<1>4. drain' = [drain EXCEPT !.pc = "createPr"]
      /\ prStatus' = [prStatus EXCEPT ![drain.loop] = "creating"]
  BY <1>2, PcNames DEF DrainOpenPr, Goto, DrainAt
<1> QED BY <1>3, <1>4 DEF DrainRecord, TypeOK

LEMMA PrStep ==
    ASSUME TypeOK, LoopsInv, CurrentInv, PrInv, Next
    PROVE  PrInv'
<1>1. quota'["cancel"] = 0
  BY NoCancel DEF PrInv
<1>2. {"openPr", "createPr"} \subseteq HoldingPcs \ BeforeRunPcs
  BY DEF HoldingPcs, BeforeRunPcs
<1>3. drain'.pc \in HoldingPcs => ~DrainCreate \/ drain'.pc \in BeforeRunPcs
  BY CreateEffect DEF BeforeRunPcs
<1>4. drain'.pc \in {"openPr", "createPr"} => drain'.run.status = "accepted"
  BY <1>2, <1>3, HeldRun DEF PrInv
<1>5. drain'.pc \in HoldingPcs \ BeforeRunPcs /\ drain'.run.status = "accepted" =>
         loopStatus'[drain'.loop] \notin ActiveStatuses
  <2> SUFFICES ASSUME drain'.pc \in HoldingPcs \ BeforeRunPcs, drain'.run.status = "accepted"
               PROVE  loopStatus'[drain'.loop] \notin ActiveStatuses
    OBVIOUS
  <2>1. PICK l \in LoopIds : ~DrainCreate /\ drain.pc \in HoldingPcs /\ drain.loop = l
                              /\ drain'.loop = l /\ loopStatus[l] # "none"
    BY <1>3, HeldRun DEF LoopsInv, OwnLoop
  <2>2. CASE drain.pc \notin BeforeRunPcs
    <3>1. drain.run.status = "accepted"
      BY <2>1, <2>2, HeldRun
    <3>2. Ended(l)
      BY <2>1, <2>2, <3>1 DEF PrInv, Ended
    <3>3. Ended(l)'
      BY <3>2, EndedStays
    <3> QED BY <2>1, <3>3 DEF Ended
  <2>3. CASE drain.pc \in BeforeRunPcs
    <3>1. ~DrainError /\ ~Crash
      BY DEF DrainError, Goto, Crash, DrainAt, HoldingPcs, BeforeRunPcs, TypeOK, DrainRecord
    <3>2. DrainRunner
      BY <2>3, <3>1, BeforeRunStays
    <3>3. UpdateLoop(l, "accepted")
      BY <2>1, <3>2, RunnerEffect
    <3>4. loopStatus'[l] = "accepted"
      BY <2>1, <3>3 DEF UpdateLoop, TypeOK, LoopsTypeOK, ActiveStatuses, DrivenStatuses
    <3> QED BY <2>1, <3>4 DEF ActiveStatuses, DrivenStatuses
  <2> QED BY <2>2, <2>3
<1>6. drain'.pc = "createPr" => prStatus'[drain'.loop] # "none"
  <2> SUFFICES ASSUME drain'.pc = "createPr" PROVE prStatus'[drain'.loop] # "none"
    OBVIOUS
  <2>1. PICK l \in LoopIds : drain.pc \in HoldingPcs /\ drain.loop = l /\ drain'.loop = l
    BY <1>2, <1>3, HeldRun DEF LoopsInv, OwnLoop
  <2>2. CASE drain.pc = "createPr"
    BY <1>2, <2>1, <2>2, PrWritten DEF PrInv
  <2>3. CASE drain.pc # "createPr"
    BY <1>2, <2>1, <2>3, CreatePrReached
  <2> QED BY <2>2, <2>3
<1> QED BY <1>1, <1>4, <1>5, <1>6, LoopPrStep, CallStep DEF PrInv

LEMMA PrInit ==
    ASSUME Init, Quota["cancel"] = 0
    PROVE  PrInv
  BY PcNames DEF Init, LoopsInit, DrainAt, NoCall, PrInv, LoopPrInv, CallInv, Holds

LEMMA PrStutter == PrInv /\ UNCHANGED vars => PrInv'
<1> SUFFICES ASSUME PrInv, UNCHANGED vars PROVE PrInv'
  OBVIOUS
<1>1. UNCHANGED <<loopStatus, approval, prStatus, orch, drain, call, quota, hist>>
  BY DEF vars, loops, store, world
<1> QED BY <1>1 DEF PrInv, LoopPrInv, CallInv, Holds, Doomed, Unpaid, Ended

(* As long as nobody cancels a loop by POST /loops/:id/cancel, a pull request  *)
(* belongs to a loop that was accepted and for which no cancellation was ever  *)
(* written - whatever the stops, starts, reviews, approvals, dismissals, store *)
(* errors and crashes in between, and for any number of clients.  The          *)
(* hypothesis is needed: the run of NoPrForCancelledLoop shows what a cancel   *)
(* does, because only stop sends the abort before it reads the state.          *)
THEOREM PrOnlyForAcceptedLoop ==
    ASSUME Quota["cancel"] = 0
    PROVE  Spec => []PrOnlyForUncancelledLoop
<1> DEFINE IInv == TypeOK /\ LoopsInv /\ Recovered /\ CurrentInv /\ PrInv
<1>1. Init => IInv
  BY InitTypeOK, LoopsInvInit, RecoveredInit, CurrentInit, PrInit
<1>2. IInv /\ [Next]_vars => IInv'
  <2>1. PrInv /\ TypeOK /\ LoopsInv /\ CurrentInv /\ [Next]_vars => PrInv'
    BY PrStep, PrStutter
  <2> QED BY <2>1, TypeStep, LoopsInvStep, RecoveredStep, CurrentStepOrStutter
<1>3. IInv => PrOnlyForUncancelledLoop
  BY DEF PrInv, LoopPrInv, Doomed, PrOnlyForUncancelledLoop
<1> QED BY <1>1, <1>2, <1>3, PTL DEF Spec
-----------------------------------------------------------------------------
(* The refinement of LoopLifecycle *)

(* What the abstract machine asks of the writers: the drain prepares a queued  *)
(* loop and ends a preparing one, a review decides a loop that waits for it,   *)
(* and the drain opens and closes the pull request of the loop it holds.       *)
ReviewInv(k) ==
    /\ call[k].pc \in {"reviewApproval", "reviewLoop"} =>
         /\ boot.pc = "up" /\ call[k].loop \in LoopIds
         /\ loopStatus[call[k].loop] = "needs_human_review"
    /\ call[k].pc \notin {"stopLoop", "stopLoopWrite", "cancelWrite"}

RunInv ==
    /\ drain.pc \in BeforeRunPcs \ {"runner"} => loopStatus[drain.loop] = "queued"
    /\ drain.pc = "runner" => loopStatus[drain.loop] = "workspace_preparing"

HeldPrInv(l) ==
    /\ prStatus[l] # "none" => loopStatus[l] # "none"
    /\ Holds(l) => prStatus[l] = IF drain.pc = "createPr" THEN "creating" ELSE "none"

LifeInv ==
    /\ quota["stop"] = 0 /\ quota["cancel"] = 0
    /\ RunInv
    /\ \A l \in LoopIds : HeldPrInv(l)
    /\ \A k \in Clients : ReviewInv(k)

(* Without stop and cancel the only request that writes a loop is a review, of  *)
(* a loop that the drain has let go of.                                         *)
LEMMA OnlyReviewsWrite ==
    ASSUME LifeInv, NEW k \in Clients, LoopWrite(k)
    PROVE  /\ ReviewLoop(k) /\ call[k].pc = "reviewLoop" /\ call[k].loop \in LoopIds
           /\ loopStatus[call[k].loop] = "needs_human_review"
  BY DEF LifeInv, ReviewInv, LoopWrite, StopLoopWrite, CancelWrite, ReviewLoop, Working

LEMMA RunStep ==
    ASSUME TypeOK, LoopsInv, LifeInv, Next
    PROVE  RunInv'
<1>1. CASE DrainCreate
  <2>1. PICK l \in LoopIds : /\ drain'.pc = "readState" /\ drain'.loop = l
                             /\ loopStatus' = [loopStatus EXCEPT ![l] = "queued"]
    BY <1>1, CreateEffect
  <2> QED BY <2>1 DEF RunInv, TypeOK, LoopsTypeOK
<1>2. CASE ~DrainCreate /\ drain'.pc \in BeforeRunPcs
  <2>1. PICK l \in LoopIds : /\ drain.pc \in BeforeRunPcs /\ drain.loop = l /\ drain'.loop = l
                              /\ loopStatus[l] # "none"
    BY <1>2, HeldRun DEF HoldingPcs, LoopsInv, OwnLoop
  <2>2. CASE DrainPrepare
    <3>1. UpdateLoop(l, "workspace_preparing") /\ ActiveLoops(loopTask[l]) \ {l} = {}
      BY <2>1, <2>2, PrepareEffect DEF LoopsInv, OwnLoop, ActiveLoops, HoldingPcs
    <3>2. loopStatus'[l] = "workspace_preparing"
      BY <3>1 DEF UpdateLoop, TypeOK, LoopsTypeOK
    <3> QED BY <2>1, <2>2, <3>2, PrepareEffect DEF RunInv
  <2>3. CASE ~DrainPrepare
    <3>1. ~DrainRunner
      BY <1>2, RunnerEffect DEF BeforeRunPcs
    <3>2. loopStatus'[l] = loopStatus[l]
      <4>1. loopStatus[l] # "needs_human_review"
        BY <2>1 DEF LifeInv, RunInv
      <4>2. boot.pc = "up"
        BY <2>1 DEF LoopsInv, BeforeRunPcs
      <4> QED BY <2>1, <2>3, <3>1, <4>1, <4>2, StatusWriters, OnlyReviewsWrite
    <3>3. drain'.pc = "runner" <=> drain.pc = "runner"
      BY <1>2, <2>3, RunnerReached, RunnerStays DEF HoldingPcs, BeforeRunPcs
    <3> QED BY <1>2, <2>1, <3>2, <3>3 DEF LifeInv, RunInv
  <2> QED BY <2>2, <2>3
<1>3. CASE drain'.pc \notin BeforeRunPcs
  BY <1>3 DEF RunInv, BeforeRunPcs
<1> QED BY <1>1, <1>2, <1>3

LEMMA PrMoves ==
    ASSUME TypeOK, Next, NEW l \in LoopIds, prStatus'[l] # prStatus[l]
    PROVE  /\ drain.loop = l
           /\ \/ DrainOpenPr /\ drain.pc = "openPr" /\ drain'.pc = "createPr"
              \/ DrainCreatePr /\ drain.pc = "createPr" /\ drain'.pc \notin HoldingPcs
<1>1. /\ prStatus \in [LoopIds -> {"none", "creating", "draft_created", "create_failed"}]
      /\ drain \in DrainRecord
  BY DEF TypeOK
<1>2. CASE DrainOpenPr
  <2>1. /\ drain.pc = "openPr" /\ drain' = [drain EXCEPT !.pc = "createPr"]
        /\ prStatus' = [prStatus EXCEPT ![drain.loop] = "creating"]
    BY <1>2 DEF DrainOpenPr, At, Goto
  <2> QED BY <1>1, <1>2, <2>1 DEF DrainRecord
<1>3. CASE DrainCreatePr
  <2>1. drain'.pc \in {"top", "pauseLoop"}
    BY <1>3, PcNames DEF DrainCreatePr, DrainAt
  <2> QED BY <1>1, <1>3, <2>1, PcNames DEF DrainCreatePr, At
<1> QED BY <1>2, <1>3, PrWriters

LEMMA HeldPrStep ==
    ASSUME TypeOK, LoopsInv, LifeInv, Next, NEW l \in LoopIds
    PROVE  HeldPrInv(l)'
<1>1. HeldPrInv(l)
  BY DEF LifeInv
<1>2. prStatus'[l] # "none" => loopStatus'[l] # "none"
  <2>1. prStatus'[l] # "none" => loopStatus[l] # "none"
    BY <1>1, PrMoves, PcNames DEF HeldPrInv, LoopsInv, OwnLoop
  <2> QED BY <2>1, LoopMoves DEF LoopMovesRight
<1>3. ASSUME Holds(l)'
      PROVE  prStatus'[l] = IF drain'.pc = "createPr" THEN "creating" ELSE "none"
  <2>1. CASE DrainCreate
    <3>1. drain'.pc = "readState" /\ drain.pc = "create" /\ loopStatus[l] = "none"
      BY <1>3, <2>1, CreateEffect DEF Holds
    <3>2. prStatus'[l] = prStatus[l]
      BY <3>1, PrMoves
    <3> QED BY <1>1, <3>1, <3>2 DEF HeldPrInv
  <2>2. CASE ~DrainCreate
    <3>1. /\ Holds(l) /\ drain'.pc \in HoldingPcs
          /\ drain.pc = "createPr" => drain'.pc = "createPr"
      BY <1>3, <2>2, HeldRun DEF Holds
    <3>2. CASE drain'.pc = "createPr" /\ drain.pc # "createPr"
      BY <1>3, <3>2, CreatePrReached DEF Holds
    <3>3. CASE drain'.pc = "createPr" <=> drain.pc = "createPr"
      BY <1>1, <3>1, <3>3, PrMoves DEF HeldPrInv
    <3> QED BY <3>1, <3>2, <3>3
  <2> QED BY <2>1, <2>2
<1> QED BY <1>2, <1>3 DEF HeldPrInv

LEMMA ReviewStep ==
    ASSUME TypeOK, LoopsInv, LifeInv, Next, \A j, k \in Clients : j = k, NEW k \in Clients
    PROVE  ReviewInv(k)'
<1>1. ReviewInv(k) /\ ~StopRequest(k) /\ ~CancelRequest(k)
  BY DEF LifeInv, StopRequest, CancelRequest, Begin
<1>2. CASE call'[k] = call[k]
  <2> SUFFICES ASSUME call[k].pc \in {"reviewApproval", "reviewLoop"}
               PROVE  boot'.pc = "up" /\ loopStatus'[call[k].loop] = "needs_human_review"
    BY <1>1, <1>2 DEF ReviewInv
  <2> DEFINE l == call[k].loop
  <2>1. boot.pc = "up" /\ l \in LoopIds /\ loopStatus[l] = "needs_human_review"
    BY <1>1 DEF ReviewInv
  <2>2. ~Crash
    <3>1. Crash => call'[k].pc = "none"
      BY DEF Crash, NoCall
    <3> QED BY <1>2, <3>1
  <2>3. ~BootStep
    BY <2>1 DEF BootStep, Restart, RecoverCandidate, RecoverLoops, RecoverCurrent, RecoverState
  <2>4. boot' = boot
    BY <2>2, <2>3, BootMoves
  <2>5. ASSUME NEW j \in Clients, LoopWrite(j) PROVE FALSE
    <3>1. ReviewLoop(k)
      BY <2>5, OnlyReviewsWrite
    <3> QED BY <1>2, <3>1 DEF ReviewLoop, Finish, NoCall, TypeOK
  <2>6. ~(drain.loop = l /\ drain.pc \in BeforeRunPcs)
    BY <2>1 DEF LifeInv, RunInv
  <2> QED BY <2>1, <2>4, <2>5, <2>6, StatusWriters
<1>3. CASE call'[k].pc \notin LoopPcs
  BY <1>3 DEF ReviewInv, LoopPcs
<1>4. CASE /\ ReviewRequest(k) /\ call'[k].pc = "reviewApproval" /\ call'[k].loop \in LoopIds
           /\ loopStatus[call'[k].loop] = "needs_human_review"
  BY <1>4 DEF ReviewInv, ReviewRequest, Begin, loops
<1>5. CASE /\ ReviewApproval(k) /\ call[k].pc = "reviewApproval" /\ call'[k].pc = "reviewLoop"
           /\ call'[k].loop = call[k].loop
  BY <1>1, <1>5 DEF ReviewInv, ReviewApproval, loops, world
<1> QED BY <1>1, <1>2, <1>3, <1>4, <1>5, CallMoves DEF ReviewInv

LEMMA LifeStep ==
    ASSUME TypeOK, LoopsInv, LifeInv, Next, \A j, k \in Clients : j = k
    PROVE  LifeInv'
<1>1. "stop" \in Requests /\ "cancel" \in Requests
  BY DEF Requests
<1>2. quota'["stop"] = 0 /\ quota'["cancel"] = 0
  BY <1>1, QuotaMoves DEF LifeInv
<1> QED BY <1>2, RunStep, HeldPrStep, ReviewStep DEF LifeInv

LEMMA LifeInit ==
    ASSUME Init, Quota["stop"] = 0, Quota["cancel"] = 0
    PROVE  LifeInv
  BY PcNames DEF Init, LoopsInit, DrainAt, NoCall, LifeInv, RunInv, HeldPrInv, ReviewInv, Holds,
     BeforeRunPcs

(* One status is written, and the abstract machine allows the move. *)
LEMMA MoveMaps ==
    ASSUME NEW l \in LoopIds, NEW s, UpdateLoop(l, s), UNCHANGED prStatus,
           s \in ActiveStatuses => ActiveLoops(loopTask[l]) \ {l} = {},
           \/ loopStatus[l] = "queued" /\ s = "workspace_preparing"
           \/ loopStatus[l] = "workspace_preparing" /\ s \in RunStatuses
           \/ loopStatus[l] = "needs_human_review" /\ s \in Verdicts
           \/ loopStatus[l] \in ActiveStatuses /\ s = "failed"
    PROVE  Lifecycle!Next
<1>1. loopStatus' = [loopStatus EXCEPT ![l] = s] /\ loopTask' = loopTask
  BY DEF UpdateLoop
<1>2. Lifecycle!Prepare(l) \/ Lifecycle!Finish(l) \/ Lifecycle!Decide(l) \/ Lifecycle!Fail(l)
  BY <1>1 DEF Lifecycle!Prepare, Lifecycle!Finish, Lifecycle!Decide, Lifecycle!Fail,
     Lifecycle!Move, Lifecycle!Outcomes, Lifecycle!Verdicts, Lifecycle!Active, Lifecycle!Driven,
     RunStatuses, Verdicts, ActiveStatuses, DrivenStatuses
<1> QED BY <1>2 DEF Lifecycle!Next, Lifecycle!Step

LEMMA LifecycleStep ==
    ASSUME TypeOK, LoopsInv, LifeInv, [Next]_vars
    PROVE  [Lifecycle!Next]_Lifecycle!vars
<1> USE DEF At
<1>1. CASE DrainCreate
  <2>1. PICK l \in LoopIds : CreateLoop(l, drain.cand)
    BY <1>1 DEF DrainCreate
  <2>2. drain.cand \in Candidates /\ prStatus' = prStatus
    BY <1>1, CreateEffect DEF DrainCreate, store
  <2>3. Lifecycle!Create(l, drain.cand)
    BY <2>1, <2>2 DEF CreateLoop, ActiveLoops, ActiveStatuses, DrivenStatuses,
       Lifecycle!Create, Lifecycle!ActiveOf, Lifecycle!Active, Lifecycle!Driven
  <2> QED BY <2>2, <2>3 DEF Lifecycle!Next, Lifecycle!Step
<1>2. CASE DrainPrepare \/ DrainRunner
  <2>1. PICK l \in LoopIds : /\ drain.loop = l /\ ActiveLoops(loopTask[l]) \ {l} = {}
                             /\ prStatus' = prStatus
    BY <1>2, PcNames DEF DrainPrepare, DrainRunner, LoopsInv, OwnLoop, ActiveLoops, store
  <2>2. CASE DrainPrepare
    BY <2>1, <2>2, PrepareEffect, MoveMaps DEF LifeInv, RunInv, BeforeRunPcs
  <2>3. CASE DrainRunner
    <3>1. /\ loopStatus[l] = "workspace_preparing" /\ drain'.run.status \in RunStatuses
          /\ UpdateLoop(l, drain'.run.status)
      BY <2>1, <2>3, RunnerEffect DEF LifeInv, RunInv
    <3> QED BY <2>1, <3>1, MoveMaps
  <2> QED BY <1>2, <2>2, <2>3
<1>3. ASSUME NEW k \in Clients, LoopWrite(k)
      PROVE  Lifecycle!Next
  <2>1. /\ ReviewLoop(k) /\ call[k].loop \in LoopIds
        /\ loopStatus[call[k].loop] = "needs_human_review"
    BY <1>3, OnlyReviewsWrite
  <2>2. /\ UpdateLoop(call[k].loop, call[k].verdict) /\ prStatus' = prStatus
        /\ call[k].verdict \in Verdicts
    BY <2>1 DEF ReviewLoop, store, TypeOK, CallRecord
  <2>3. call[k].verdict \notin ActiveStatuses
    BY <2>2 DEF Verdicts, ActiveStatuses, DrivenStatuses
  <2> QED BY <2>1, <2>2, <2>3, MoveMaps
<1>4. CASE RecoverLoops
  <2>0. /\ loopTask' = loopTask /\ prStatus' = prStatus
        /\ loopStatus' = [l \in LoopIds |->
                            IF l \in ActiveLoops(boot.cand) THEN "failed" ELSE loopStatus[l]]
        /\ loopStatus \in [LoopIds -> LoopStatuses]
    BY <1>4 DEF RecoverLoops, CloseActiveLoops, store, TypeOK, LoopsTypeOK
  <2>1. CASE ActiveLoops(boot.cand) = {}
    <3>1. loopStatus' = loopStatus
      BY <2>0, <2>1
    <3> QED BY <2>0, <3>1 DEF Lifecycle!vars
  <2>2. ASSUME NEW l \in ActiveLoops(boot.cand) PROVE Lifecycle!Next
    <3>1. ActiveLoops(boot.cand) = {l} /\ l \in LoopIds /\ loopStatus[l] \in ActiveStatuses
      BY <2>2 DEF ActiveLoops, LoopsInv, OneActiveLoopPerTask
    <3>2. loopStatus' = [loopStatus EXCEPT ![l] = "failed"]
      BY <2>0, <3>1
    <3>3. Lifecycle!Fail(l)
      BY <2>0, <3>1, <3>2 DEF Lifecycle!Fail, Lifecycle!Move, Lifecycle!Active, Lifecycle!Driven,
         ActiveStatuses, DrivenStatuses
    <3> QED BY <3>1, <3>3 DEF Lifecycle!Next, Lifecycle!Step
  <2> QED BY <2>1, <2>2
<1>5. CASE RecoverCurrent
  <2>1. prStatus' = prStatus /\ orch.loop \in LoopIds \union {None}
    BY <1>5 DEF RecoverCurrent, store, TypeOK, OrchRecord
  <2>2. CASE UNCHANGED loops
    BY <2>1, <2>2 DEF loops, Lifecycle!vars
  <2>3. CASE /\ orch.loop # None /\ loopStatus[orch.loop] \in ActiveStatuses
             /\ UpdateLoop(orch.loop, "failed")
    <3>1. "failed" \notin ActiveStatuses
      BY DEF ActiveStatuses, DrivenStatuses
    <3> QED BY <2>1, <2>3, <3>1, MoveMaps
  <2> QED BY <1>5, <2>2, <2>3 DEF RecoverCurrent
<1>6. CASE DrainOpenPr \/ DrainCreatePr
  <2>1. PICK l \in LoopIds : drain.loop = l /\ Holds(l) /\ HeldPrInv(l)
    BY <1>6, PcNames DEF DrainOpenPr, DrainCreatePr, LoopsInv, OwnLoop, LifeInv, Holds
  <2>2. loopTask' = loopTask /\ loopStatus' = loopStatus
    BY <1>6 DEF DrainOpenPr, DrainCreatePr, loops
  <2>3. CASE prStatus' = prStatus
    BY <2>2, <2>3 DEF Lifecycle!vars
  <2>4. CASE DrainOpenPr /\ prStatus' # prStatus
    <3>1. Lifecycle!OpenPr(l)
      BY <2>1, <2>2, <2>4 DEF DrainOpenPr, HeldPrInv, Lifecycle!OpenPr
    <3> QED BY <3>1 DEF Lifecycle!Next, Lifecycle!Step
  <2>5. CASE DrainCreatePr
    <3>1. Lifecycle!ClosePr(l)
      BY <2>1, <2>2, <2>5 DEF DrainCreatePr, HeldPrInv, Lifecycle!ClosePr
    <3> QED BY <3>1 DEF Lifecycle!Next, Lifecycle!Step
  <2> QED BY <1>6, <2>3, <2>4, <2>5
<1>7. CASE /\ Next /\ ~DrainCreate /\ ~DrainPrepare /\ ~DrainRunner /\ ~RecoverLoops
           /\ ~RecoverCurrent /\ ~DrainOpenPr /\ ~DrainCreatePr
           /\ \A k \in Clients : ~LoopWrite(k)
  BY <1>7, OtherStepsLeaveLoops, PrWriters DEF loops, Lifecycle!vars
<1>8. CASE UNCHANGED vars
  BY <1>8 DEF vars, loops, store, Lifecycle!vars
<1> QED BY <1>1, <1>2, <1>3, <1>4, <1>5, <1>6, <1>7, <1>8

(* As long as nobody stops the orchestrator or cancels a loop, and reviews come *)
(* one at a time, the loops and their pull requests follow the abstract state   *)
(* machine through every crash, recovery and failing store call, with the       *)
(* unique index and without.  The hypotheses are needed: a stop or a cancel     *)
(* writes a status while the drain is about to replace it, and two reviews of   *)
(* one loop both pass their check and write a terminal loop twice.              *)
THEOREM LifecycleRefined ==
    ASSUME \A j, k \in Clients : j = k, Quota["stop"] = 0, Quota["cancel"] = 0
    PROVE  Spec => FollowsLifecycle
<1> DEFINE IInv == TypeOK /\ LoopsInv /\ LifeInv
<1>1. Init => IInv
  BY InitTypeOK, LoopsInvInit, LifeInit
<1>2. IInv /\ [Next]_vars => IInv'
  <2>1. LifeInv /\ UNCHANGED vars => LifeInv'
    BY DEF vars, loops, store, world, LifeInv, RunInv, HeldPrInv, ReviewInv, Holds
  <2> QED BY <2>1, TypeStep, LoopsInvStep, LifeStep
<1>3. Init => Lifecycle!Init
  BY DEF Init, LoopsInit, Lifecycle!Init
<1>4. IInv /\ [Next]_vars => [Lifecycle!Next]_Lifecycle!vars
  BY LifecycleStep
<1> QED BY <1>1, <1>2, <1>3, <1>4, PTL DEF Spec, FollowsLifecycle, Lifecycle!Spec
=============================================================================
