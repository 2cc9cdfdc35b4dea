--------------------- MODULE LoopSchedulerLimits_proofs ---------------------
(***************************************************************************)
(* Proofs about what LoopScheduler may still start: the kill switch, the   *)
(* guardrails, the daily loop budget and the retries of a task.            *)
(***************************************************************************)
EXTENDS LoopSchedulerLoops_proofs, FiniteSetTheorems

(* What the steps of the drain do to the abort flag and to the status row. *)
LEMMA DrainKeeps ==
    ASSUME TypeOK, DrainStep
    PROVE  /\ drain'.aborted = drain.aborted \/ drain'.pc = "off"
           /\ orch'.status \in {orch.status, "paused"}
           /\ hist'.stopHeld = hist.stopHeld /\ hist'.stopping = hist.stopping
<1> USE DEF At, Goto
<1>1. drain \in DrainRecord /\ orch \in OrchRecord /\ hist \in HistRecord
  BY DEF TypeOK
<1>2. CASE DrainTop \/ DrainGuard \/ DrainPick \/ DrainClaim \/ DrainClaimWrite \/ DrainActiveLoop
           \/ DrainCreate \/ DrainReadState \/ DrainMarkRunning \/ DrainPrepare
  BY <1>1, <1>2 DEF DrainRecord, store, DrainTop, DrainGuard, DrainPick, DrainClaim,
     DrainClaimWrite, DrainActiveLoop, DrainCreate, DrainReadState, DrainMarkRunning, DrainPrepare
<1>3. CASE DrainBudget \/ DrainIdle \/ DrainAccountWrite
  BY <1>1, <1>3 DEF DrainRecord, OrchRecord, DrainBudget, DrainIdle, DrainAccountWrite
<1>4. CASE DrainMarkState
  BY <1>1, <1>4 DEF DrainRecord, OrchRecord, HistRecord, DrainMarkState
<1>5. CASE DrainActiveExists \/ DrainRetryWrite \/ DrainOpenApproval \/ DrainCreatePr \/ DrainExit
  BY <1>5 DEF DrainAt, store, DrainActiveExists, DrainRetryWrite, DrainOpenApproval, DrainCreatePr,
     DrainExit
<1>6. CASE DrainPause
  <2>1. drain'.aborted = drain.aborted
    BY <1>6 DEF DrainPause, DrainAt
  <2>2. orch'.status = "paused" /\ hist' = hist
    BY <1>1, <1>6 DEF DrainPause, OrchRecord
  <2> QED BY <2>1, <2>2
<1>7. CASE DrainRunner
  BY <1>7, RunnerEffect DEF DrainRunner, store
<1>8. CASE DrainAccount
  BY <1>1, <1>8 DEF DrainAccount, DrainRecord, store
<1>9. CASE DrainSettle
  <2>1. CASE drain' = [drain EXCEPT !.pc = "retryWrite",
                                    !.run.qualified = RetriesSpent(drain.cand)]
    BY <1>1, <1>9, <2>1 DEF DrainSettle, DrainRecord
  <2>2. CASE \E pc \in {"openPr", "openApproval"} : drain' = [drain EXCEPT !.pc = pc]
    BY <1>1, <1>9, <2>2 DEF DrainSettle, DrainRecord
  <2>3. CASE \E pc \in {"top", "pauseLoop"} : drain' = DrainAt(pc, drain.aborted)
    BY <1>9, <2>3 DEF DrainSettle, DrainAt
  <2> QED BY <1>9, <2>1, <2>2, <2>3, PcNames DEF DrainSettle
<1>10. CASE DrainOpenPr
  BY <1>1, <1>10 DEF DrainOpenPr, DrainAt, DrainRecord
<1> QED BY <1>2, <1>3, <1>4, <1>5, <1>6, <1>7, <1>8, <1>9, <1>10 DEF DrainStep
-----------------------------------------------------------------------------
(* The kill switch *)

(* After a stop that no start overlapped the row does not say "running" and a  *)
(* drain that was not aborted is on its way out; while such a stop is in       *)
(* flight there is no drain that was not aborted.                              *)
KillInv ==
    /\ hist.stopHeld => orch.status # "running"
    /\ hist.stopHeld => drain.aborted \/ drain.pc \in {"off", "top", "exit", "pauseExit"}
    /\ hist.stopping # {} => drain.aborted \/ drain.pc = "off"

(* A drain on its way out stays so as long as the status is not "running". *)
LEMMA WayOut ==
    ASSUME TypeOK, DrainStep, orch.status # "running", drain.pc \in {"off", "top", "exit", "pauseExit"}
    PROVE  drain'.pc \in {"off", "exit"}
<1>1. drain \in DrainRecord
  BY DEF TypeOK
<1>2. DrainTop \/ DrainExit \/ DrainPause
  BY DEF DrainStep, At, DrainBudget, DrainGuard, DrainPick, DrainIdle, DrainClaim, DrainClaimWrite,
     DrainCreate, DrainActiveLoop, DrainActiveExists, DrainReadState, DrainMarkRunning,
     DrainMarkState, DrainPrepare, DrainRunner, DrainAccount, DrainAccountWrite, DrainSettle,
     DrainRetryWrite, DrainOpenApproval, DrainOpenPr, DrainCreatePr
<1>3. CASE DrainTop
  BY <1>1, <1>3 DEF DrainTop, DrainRecord
<1>4. CASE DrainExit \/ DrainPause
  BY <1>4 DEF DrainExit, DrainPause, DrainAt, At
<1> QED BY <1>2, <1>3, <1>4

LEMMA KillStep ==
    ASSUME TypeOK, KillInv, Next
    PROVE  KillInv'
<1>1. drain \in DrainRecord /\ orch \in OrchRecord /\ hist \in HistRecord
  BY DEF TypeOK
<1>2. CASE DrainStep
  <2>1. drain.pc # "off"
    BY <1>2 DEF DrainStep, At, DrainTop, DrainBudget, DrainGuard, DrainPick, DrainIdle, DrainClaim,
       DrainClaimWrite, DrainCreate, DrainActiveLoop, DrainActiveExists, DrainReadState,
       DrainMarkRunning, DrainMarkState, DrainPrepare, DrainRunner, DrainAccount,
       DrainAccountWrite, DrainSettle, DrainRetryWrite, DrainOpenApproval, DrainOpenPr,
       DrainCreatePr, DrainPause, DrainExit
  <2> QED BY <1>2, <2>1, DrainKeeps, WayOut DEF KillInv
<1>3. CASE DrainError
  BY <1>1, <1>3 DEF DrainError, Goto, KillInv, DrainRecord, store
<1>4. CASE Crash
  BY <1>4 DEF Crash, DrainAt, KillInv, store
<1>5. CASE BootStep \/ NextDay
  <2>1. drain' = drain /\ hist' = hist
    BY <1>5 DEF BootStep, NextDay, Restart, RecoverCandidate, RecoverLoops, RecoverCurrent, RecoverState
  <2>2. orch'.status \in {orch.status, "stopped"}
    BY <1>1, <1>5 DEF BootStep, NextDay, store, OrchRecord, Restart, RecoverCandidate, RecoverLoops,
       RecoverCurrent, RecoverState
  <2> QED BY <2>1, <2>2 DEF KillInv
<1>6. ASSUME NEW k \in Clients, RequestStep(k) \/ ClientStep(k)
      PROVE  KillInv'
  <2>1. CASE StartWrite(k)
    BY <1>1, <2>1 DEF StartWrite, KillInv, HistRecord
  <2>2. CASE StartKick(k)
    <3>1. hist'.stopping = {} /\ hist'.stopHeld = hist.stopHeld /\ orch' = orch
      BY <1>1, <2>2 DEF StartKick, HistRecord, store
    <3> QED BY <2>2, <3>1 DEF StartKick, DrainAt, KillInv
  <2>3. CASE StopRequest(k)
    <3>1. hist'.stopHeld = hist.stopHeld /\ orch' = orch
      BY <1>1, <2>3 DEF StopRequest, HistRecord, store
    <3>2. drain'.aborted \/ drain'.pc = "off"
      BY <1>1, <2>3 DEF StopRequest, DrainRecord
    <3> QED BY <3>1, <3>2 DEF KillInv
  <2>4. CASE StopWrite(k)
    <3>1. /\ hist'.stopHeld = (hist.stopHeld \/ k \in hist.stopping)
          /\ hist'.stopping = hist.stopping \ {k}
          /\ orch'.status = "stopped" /\ drain' = drain
      BY <1>1, <2>4 DEF StopWrite, HistRecord, OrchRecord
    <3> QED BY <3>1 DEF KillInv
  <2>5. CASE ~StartWrite(k) /\ ~StartKick(k) /\ ~StopRequest(k) /\ ~StopWrite(k)
    <3>1. drain' = drain /\ orch' = orch
      BY <1>6, <2>5 DEF RequestStep, ClientStep, store, StartRequest, CancelRequest,
         ApproveRequest, Dismiss, ReviewRequest, StopLoop, StopLoopWrite, StopCand, StopCandWrite,
         CancelWrite, ApproveWrite, ReviewApproval, ReviewLoop
    <3>2. hist'.stopHeld = hist.stopHeld /\ hist'.stopping = hist.stopping
      BY <1>1, <1>6, <2>5 DEF RequestStep, ClientStep, HistRecord, StartRequest, CancelRequest,
         ApproveRequest, Dismiss, ReviewRequest, StopLoop, StopLoopWrite, StopCand, StopCandWrite,
         CancelWrite, ApproveWrite, ReviewApproval, ReviewLoop
    <3> QED BY <3>1, <3>2 DEF KillInv
  <2> QED BY <2>1, <2>2, <2>3, <2>4, <2>5
<1> QED BY <1>2, <1>3, <1>4, <1>5, <1>6 DEF Next

(* Once a stop has returned that no start overlapped, no run is handed to the  *)
(* runner with a live signal until a start is served.  The drain may be        *)
(* anywhere when the stop comes, other stops and requests may be in flight, and *)
(* the server may crash and recover in between.                                *)
THEOREM KillSwitch == Spec => KillSwitchHolds
<1> DEFINE IInv == TypeOK /\ LoopsInv /\ KillInv
<1>1. Init => IInv
  <2>1. Init => KillInv
    BY DEF Init, KillInv
  <2> QED BY <2>1, InitTypeOK, LoopsInvInit
<1>2. IInv /\ [Next]_vars => IInv'
  <2>1. KillInv /\ UNCHANGED vars => KillInv'
    BY DEF vars, store, world, KillInv
  <2> QED BY <2>1, TypeStep, LoopsInvStep, KillStep
<1>3. IInv /\ [Next]_vars =>
        [(~At("runner") /\ At("runner")') => (~hist.stopHeld \/ drain.aborted)]_vars
  <2> SUFFICES ASSUME IInv, Next, ~At("runner"), At("runner")', hist.stopHeld
               PROVE  drain.aborted
    OBVIOUS
  <2>1. drain'.pc = "runner" /\ boot'.pc = "up"
    BY DEF At
  <2>2. CASE boot.pc = "up"
    <3>1. drain.pc # "runner"
      BY <2>2 DEF At
    <3>2. drain.pc = "prepare"
      BY <2>1, <3>1, RunnerReached DEF DrainPrepare, At
    <3> QED BY <3>2 DEF KillInv
  <2>3. CASE boot.pc # "up"
    <3>1. drain' = drain \/ Crash
      BY <2>3, OnlyBootSteps DEF BootStep, NextDay, Restart, RecoverCandidate,
       RecoverLoops, RecoverCurrent, RecoverState
    <3> QED BY <2>1, <2>3, <3>1 DEF LoopsInv, Crash, DrainAt
  <2> QED BY <2>2, <2>3
<1> QED BY <1>1, <1>2, <1>3, PTL DEF Spec, KillSwitchHolds
-----------------------------------------------------------------------------
(* The counters of the row and the snapshots that are written back to it *)

(* The drain between its check of the guardrails and the creation of a loop. *)
WindowPcs == {"pick", "claim", "claimWrite", "create"}

(* What the four writers of the counters write. *)
LEMMA BudgetEffect ==
    ASSUME TypeOK, DrainBudget
    PROVE  /\ drain.pc = "budget" /\ drain'.pc = "guard" /\ drain'.snap = Normalized(drain.snap)
           /\ orch'.failures = orch.failures
           /\ drain.snap.day = today =>
                orch'.day = orch.day /\ orch'.started = orch.started /\ orch'.tokens = orch.tokens
           /\ drain.snap.day # today =>
                orch'.day = today /\ orch'.started = 0 /\ orch'.tokens = 0
           /\ call' = call /\ hist' = hist /\ today' = today
<1>1. orch \in OrchRecord /\ drain \in DrainRecord /\ drain.snap \in OrchRecord
  BY DEF TypeOK, DrainRecord
<1>2. drain.pc = "budget" /\ drain'.pc = "guard" /\ drain'.snap = Normalized(drain.snap)
  BY <1>1 DEF DrainBudget, At, DrainRecord
<1>3. CASE drain.snap.day = today
  BY <1>1, <1>2, <1>3 DEF DrainBudget, Normalized, world
<1>4. CASE drain.snap.day # today
  <2>1. /\ Normalized(drain.snap).day = today /\ Normalized(drain.snap).started = 0
        /\ Normalized(drain.snap).tokens = 0
    BY <1>1, <1>4 DEF Normalized, OrchRecord
  <2>2. Normalized(drain.snap) # drain.snap
    BY <1>4, <2>1
  <2> QED BY <1>1, <1>2, <1>4, <2>1, <2>2 DEF DrainBudget, OrchRecord, world
<1> QED BY <1>3, <1>4

LEMMA MarkStateEffect ==
    ASSUME TypeOK, DrainMarkState
    PROVE  /\ drain.pc = "markState" /\ drain'.pc = "prepare"
           /\ orch'.failures = orch.failures /\ orch'.day = drain.snap.day
           /\ orch'.started = drain.snap.started + 1 /\ orch'.tokens = drain.snap.tokens
           /\ call' = call /\ today' = today
  BY DEF DrainMarkState, At, Goto, TypeOK, DrainRecord, OrchRecord, world

LEMMA AccountWriteEffect ==
    ASSUME TypeOK, DrainAccountWrite
    PROVE  /\ drain.pc = "accountWrite" /\ drain'.pc = "settle"
           /\ orch'.failures = drain.snap.failures /\ orch'.day = orch.day
           /\ orch'.started = orch.started /\ orch'.tokens = drain.snap.tokens
           /\ call' = call /\ hist' = hist /\ today' = today
  BY DEF DrainAccountWrite, At, Goto, TypeOK, DrainRecord, OrchRecord, world

LEMMA StartWriteEffect ==
    ASSUME TypeOK, NEW k \in Clients, StartWrite(k)
    PROVE  /\ call[k].pc = "startWrite" /\ call'[k].pc = "startKick"
           /\ \A j \in Clients \ {k} : call'[j] = call[j]
           /\ orch'.failures = orch.failures /\ orch'.day = call[k].snap.day
           /\ orch'.started = call[k].snap.started /\ orch'.tokens = call[k].snap.tokens
           /\ drain' = drain /\ today' = today /\ hist'.startedOn = hist.startedOn
  BY DEF StartWrite, Working, Continue, TypeOK, CallRecord, OrchRecord, HistRecord, world

LEMMA CountersKept ==
    ASSUME TypeOK, Next, ~DrainBudget, ~DrainMarkState, ~DrainAccountWrite,
           \A k \in Clients : ~StartWrite(k)
    PROVE  /\ orch'.failures = orch.failures /\ orch'.day = orch.day
           /\ orch'.started = orch.started /\ orch'.tokens = orch.tokens
<1>1. orch \in OrchRecord
  BY DEF TypeOK
<1>2. CASE DrainIdle \/ DrainPause \/ RecoverState
  BY <1>1, <1>2 DEF OrchRecord, DrainIdle, DrainPause, RecoverState
<1>3. ASSUME NEW k \in Clients, StopWrite(k)
      PROVE  /\ orch'.failures = orch.failures /\ orch'.day = orch.day
             /\ orch'.started = orch.started /\ orch'.tokens = orch.tokens
  BY <1>1, <1>3 DEF OrchRecord, StopWrite
<1>4. CASE ~DrainIdle /\ ~DrainPause /\ ~RecoverState /\ \A k \in Clients : ~StopWrite(k)
  BY <1>4 DEF Next, DrainStep, DrainError, RequestStep, ClientStep, NextDay, store, Crash, BootStep,
         Restart, RecoverCandidate, RecoverLoops, RecoverCurrent,
         DrainTop, DrainGuard, DrainPick, DrainClaim, DrainClaimWrite,
         DrainCreate, DrainActiveLoop, DrainActiveExists, DrainReadState, DrainMarkRunning,
         DrainPrepare, DrainRunner, DrainAccount, DrainSettle, DrainRetryWrite,
         DrainOpenApproval, DrainOpenPr, DrainCreatePr, DrainExit,
         StartRequest, StopRequest, CancelRequest, ApproveRequest, Dismiss, ReviewRequest,
         StartKick, StopLoop, StopLoopWrite, StopCand, StopCandWrite, CancelWrite,
         ApproveWrite, ReviewApproval, ReviewLoop
<1> QED BY <1>2, <1>3, <1>4

LEMMA TodayMoves ==
    ASSUME TypeOK, Next
    PROVE  /\ today' = today \/ NextDay
           /\ today \in Nat /\ today' \in Nat /\ today <= today'
           /\ NextDay => today' = today + 1 /\ UNCHANGED <<orch, drain, call, prStatus, hist>>
<1>1. today \in Nat
  BY SchedulerAssumption DEF TypeOK
<1>2. CASE NextDay
  BY <1>1, <1>2 DEF NextDay, store
<1>3. CASE ~NextDay
  <2>1. today' = today
    <3>1. CASE DrainStep
      BY <3>1, DrainStepRest DEF world
    <3>2. ASSUME NEW k \in Clients, RequestStep(k) \/ ClientStep(k) PROVE today' = today
      BY <3>2, RequestRest
    <3>3. CASE DrainError \/ Crash \/ BootStep
      BY <3>3 DEF DrainError, Crash, BootStep, Restart, RecoverCandidate, RecoverLoops,
         RecoverCurrent, RecoverState
    <3> QED BY <1>3, <3>1, <3>2, <3>3 DEF Next
  <2> QED BY <1>1, <1>3, <2>1
<1> QED BY <1>2, <1>3

(* A start that is about to write holds the row it read, its counters those of *)
(* the day it was read on.                                                     *)
StartPcs2 == {"startWrite", "startKick"}

LEMMA StartMoves ==
    ASSUME TypeOK, Next, NEW k \in Clients, call'[k].pc \in StartPcs2
    PROVE  \/ call'[k] = call[k]
           \/ /\ StartRequest(k) /\ call'[k].pc = "startWrite" /\ orch' = orch /\ drain' = drain
              /\ today' = today /\ hist' = hist
              /\ call'[k].snap.day = today
              /\ call'[k].snap.started = Normalized(orch).started
              /\ call'[k].snap.tokens = Normalized(orch).tokens
              /\ \A j \in Clients \ {k} : call'[j] = call[j]
           \/ StartWrite(k) /\ call'[k].pc = "startKick"
<1> USE DEF StartPcs2
<1>1. call \in [Clients -> CallRecord] /\ orch \in OrchRecord
  BY DEF TypeOK
<1>2. CASE StartRequest(k)
  <2>1. PICK m \in Modes :
          call' = [call EXCEPT ![k] = [NoCall EXCEPT !.pc = "startWrite",
                                          !.snap = [Normalized(orch) EXCEPT !.mode = m]]]
    BY <1>2 DEF StartRequest
  <2>2. Normalized(orch) \in OrchRecord /\ Normalized(orch).day = today
    <3>1. today \in Nat
      BY SchedulerAssumption DEF TypeOK
    <3> QED BY <1>1, <3>1, NormalizedType DEF Normalized, OrchRecord
  <2>3. call'[k].pc = "startWrite" /\ call'[k].snap = [Normalized(orch) EXCEPT !.mode = m]
    BY <1>1, <2>1 DEF NoCall
  <2>4. /\ call'[k].snap.day = today
        /\ call'[k].snap.started = Normalized(orch).started
        /\ call'[k].snap.tokens = Normalized(orch).tokens
    BY <2>2, <2>3 DEF OrchRecord
  <2> QED BY <1>1, <1>2, <2>1, <2>3, <2>4 DEF StartRequest, store
<1>3. CASE StartWrite(k)
  BY <1>3, StartWriteEffect
<1>4. CASE ~StartRequest(k) /\ ~StartWrite(k)
  <2>1. CASE call' = call
    BY <2>1
  <2>2. CASE Crash
    BY <2>2 DEF Crash, NoCall
  <2>3. ASSUME NEW j \in Clients, RequestStep(j) \/ ClientStep(j), j # k
        PROVE  call'[k] = call[k]
    <3>1. call' = call \/ \E r : call' = [call EXCEPT ![j] = r]
      BY <2>3 DEF RequestStep, ClientStep, Finish, StartRequest, StopRequest, CancelRequest,
         ApproveRequest, Dismiss, ReviewRequest, StartKick, CancelWrite, ApproveWrite, ReviewLoop,
         StopWrite, StartWrite, StopLoop, StopLoopWrite, StopCand, StopCandWrite, ReviewApproval,
         Continue
    <3> QED BY <1>1, <2>3, <3>1
  <2>4. CASE StopRequest(k) \/ CancelRequest(k) \/ ApproveRequest(k) \/ ReviewRequest(k)
    BY <1>1, <2>4 DEF StopRequest, CancelRequest, ApproveRequest, ReviewRequest, NoCall
  <2>5. CASE StopLoop(k) \/ StopLoopWrite(k) \/ StopCand(k) \/ StopCandWrite(k) \/ ReviewApproval(k)
    BY <1>1, <2>5 DEF StopLoop, StopLoopWrite, StopCand, StopCandWrite, ReviewApproval, Continue,
       CallRecord
  <2>6. CASE StartKick(k) \/ StopWrite(k) \/ CancelWrite(k) \/ ApproveWrite(k) \/ ReviewLoop(k)
    <3>1. Finish(k)
      BY <2>6 DEF StartKick, StopWrite, CancelWrite, ApproveWrite, ReviewLoop
    <3> QED BY <1>1, <3>1 DEF Finish, NoCall
  <2>7. CASE Dismiss(k) \/ DrainStep \/ DrainError \/ BootStep \/ NextDay
    BY <2>1, <2>7, DrainStepRest DEF Dismiss, DrainError, NextDay, BootStep, Restart,
       RecoverCandidate, RecoverLoops, RecoverCurrent, RecoverState
  <2> QED BY <1>4, <2>2, <2>3, <2>4, <2>5, <2>6, <2>7 DEF Next, RequestStep, ClientStep
<1> QED BY <1>2, <1>3, <1>4

(* How the drain gets to the places where a snapshot or a check still counts. *)
LEMMA WindowMoves ==
    ASSUME TypeOK, LoopsInv, Next,
           drain'.pc \in {"budget", "guard"} \union WindowPcs
                           \union {"readState", "markRunning", "markState", "accountWrite"}
    PROVE  \/ ~DrainStep /\ drain'.pc = drain.pc /\ drain'.snap = drain.snap
           \/ DrainTop /\ drain'.pc = "budget" /\ drain'.snap = orch
           \/ DrainBudget /\ drain'.pc = "guard"
           \/ /\ DrainGuard /\ drain.pc = "guard" /\ drain'.pc = "pick"
              /\ Allowed(Normalized(drain.snap))
           \/ DrainStep /\ drain.pc \in WindowPcs /\ drain'.pc \in WindowPcs
           \/ DrainCreate /\ drain.pc = "create" /\ drain'.pc = "readState"
           \/ DrainReadState /\ drain.pc = "readState" /\ drain'.pc = "markRunning"
                /\ drain'.snap = Normalized(orch)
           \/ DrainMarkRunning /\ drain.pc = "markRunning" /\ drain'.pc = "markState"
                /\ drain'.snap = drain.snap
           \/ DrainAccount /\ drain'.pc = "accountWrite" /\ drain'.snap.day = orch.day
                /\ drain'.snap.tokens >= orch.tokens
<1> USE DEF At, Goto, WindowPcs
<1>1. drain \in DrainRecord
  BY DEF TypeOK
<1>2. CASE DrainTop \/ DrainGuard
  BY <1>1, <1>2 DEF DrainTop, DrainGuard, DrainRecord
<1>3. CASE DrainBudget
  BY <1>3, BudgetEffect
<1>4. CASE DrainPick \/ DrainClaim \/ DrainClaimWrite
  BY <1>1, <1>4 DEF DrainStep, DrainPick, DrainClaim, DrainClaimWrite, DrainRecord
<1>5. CASE DrainReadState \/ DrainMarkRunning
  BY <1>1, <1>5 DEF DrainReadState, DrainMarkRunning, DrainRecord
<1>6. CASE DrainCreate
  BY <1>6, CreateEffect
<1>7. CASE DrainAccount
  <2>1. PICK failed : drain' = [drain EXCEPT
                      !.pc = "accountWrite",
                      !.snap = [orch EXCEPT !.tokens = @ + drain.run.tokens,
                                            !.failures = IF failed THEN @ + 1 ELSE 0],
                      !.run.status = IF drain.aborted THEN "cancelled" ELSE @]
    BY <1>7 DEF DrainAccount
  <2>2. orch \in OrchRecord /\ orch.tokens \in Nat /\ drain.run.tokens \in Nat
    BY <1>1 DEF TypeOK, OrchRecord, DrainRecord, RunRecord
  <2>3. drain'.pc = "accountWrite"
        /\ drain'.snap = [orch EXCEPT !.tokens = @ + drain.run.tokens,
                                            !.failures = IF failed THEN @ + 1 ELSE 0]
    BY <1>1, <2>1 DEF DrainRecord
  <2>4. drain'.snap.day = orch.day /\ drain'.snap.tokens = orch.tokens + drain.run.tokens
    BY <2>2, <2>3 DEF OrchRecord
  <2> QED BY <1>7, <2>2, <2>3, <2>4
<1>8. CASE DrainIdle \/ DrainActiveLoop \/ DrainMarkState \/ DrainPrepare \/ DrainAccountWrite
  BY <1>1, <1>8 DEF DrainIdle, DrainActiveLoop, DrainMarkState, DrainPrepare, DrainAccountWrite,
     DrainRecord
<1>9. CASE DrainActiveExists \/ DrainRetryWrite \/ DrainOpenApproval \/ DrainCreatePr \/ DrainPause
           \/ DrainExit
  BY <1>9, PcNames DEF DrainAt, DrainActiveExists, DrainRetryWrite, DrainOpenApproval, DrainCreatePr,
     DrainPause, DrainExit
<1>10. CASE DrainRunner
  BY <1>10, RunnerEffect
<1>11. CASE DrainSettle \/ DrainOpenPr
  <2>1. CASE drain' = [drain EXCEPT !.pc = "retryWrite",
                                    !.run.qualified = RetriesSpent(drain.cand)]
    BY <1>1, <2>1 DEF DrainRecord
  <2>2. CASE \E pc \in {"openPr", "openApproval", "createPr"} : drain' = [drain EXCEPT !.pc = pc]
    BY <1>1, <2>2 DEF DrainRecord
  <2>3. CASE \E pc \in {"top", "pauseLoop"} : drain' = DrainAt(pc, drain.aborted)
    BY <2>3 DEF DrainAt
  <2> QED BY <1>11, <2>1, <2>2, <2>3, PcNames DEF DrainSettle, DrainOpenPr
<1>12. CASE ~DrainStep
  <2>1. CASE DrainError \/ Crash
    BY <1>1, <2>1 DEF DrainError, Crash, DrainAt, DrainRecord
  <2>2. ASSUME NEW k \in Clients, StartKick(k) \/ StopRequest(k)
        PROVE  drain'.pc = drain.pc /\ drain'.snap = drain.snap
    BY <1>1, <2>2 DEF StartKick, StopRequest, DrainAt, DrainRecord
  <2> QED BY <1>12, <2>1, <2>2, DrainKept
<1> QED BY <1>2, <1>3, <1>4, <1>5, <1>6, <1>7, <1>8, <1>9, <1>10, <1>11, <1>12 DEF DrainStep
-----------------------------------------------------------------------------
(* The guardrails *)

(* What was checked at guard still holds when the loop is created: failures    *)
(* are counted and pull requests opened only by the drain itself.              *)
LimitInv ==
    /\ drain.pc \in {"budget", "guard"} => drain.snap.failures = orch.failures
    /\ drain.pc \in WindowPcs => orch.failures < FailureLimit /\ OpenDraftPrs < OpenDraftPrLimit

LEMMA LimitStep ==
    ASSUME TypeOK, LoopsInv, LimitInv, Next
    PROVE  LimitInv'
<1>1. drain'.pc \in {"budget", "guard"} \union WindowPcs => orch'.failures = orch.failures
  <2>1. ~DrainAccountWrite \/ drain'.pc = "settle"
    BY AccountWriteEffect
  <2>2. ~DrainAccountWrite => orch'.failures = orch.failures
    BY CountersKept, BudgetEffect, MarkStateEffect, StartWriteEffect
  <2> QED BY <2>1, <2>2 DEF WindowPcs
<1>2. ASSUME drain'.pc \in {"budget", "guard"}
      PROVE  drain'.snap.failures = orch'.failures
  <2>1. CASE DrainBudget
    <3>1. Normalized(drain.snap).failures = drain.snap.failures
      BY DEF Normalized, TypeOK, DrainRecord, OrchRecord
    <3> QED BY <1>1, <1>2, <2>1, <3>1, BudgetEffect DEF LimitInv
  <2>2. CASE DrainTop /\ drain'.snap = orch
    BY <1>1, <1>2, <2>2
  <2>3. CASE ~DrainStep /\ drain'.pc = drain.pc /\ drain'.snap = drain.snap
    BY <1>1, <1>2, <2>3 DEF LimitInv
  <2> QED BY <1>2, <2>1, <2>2, <2>3, WindowMoves DEF WindowPcs
<1>3. ASSUME drain'.pc \in WindowPcs
      PROVE  orch'.failures < FailureLimit /\ OpenDraftPrs' < OpenDraftPrLimit
  <2>1. OpenDraftPrs' = OpenDraftPrs
    <3>1. ~DrainOpenPr /\ ~DrainCreatePr
      BY <1>3, PcNames DEF DrainOpenPr, DrainCreatePr, Goto, DrainAt, WindowPcs, TypeOK, DrainRecord
    <3> QED BY <3>1, PrWriters DEF OpenDraftPrs
  <2>2. CASE drain.pc \in WindowPcs
    BY <1>1, <1>3, <2>1, <2>2 DEF LimitInv
  <2>3. CASE drain.pc \notin WindowPcs
    <3>1. drain.pc = "guard" /\ Allowed(Normalized(drain.snap))
      BY <1>3, <2>3, WindowMoves DEF WindowPcs
    <3>2. Normalized(drain.snap).failures = orch.failures
      BY <3>1 DEF Normalized, TypeOK, DrainRecord, OrchRecord, LimitInv
    <3> QED BY <1>1, <1>3, <2>1, <3>1, <3>2 DEF Allowed
  <2> QED BY <2>2, <2>3
<1> QED BY <1>2, <1>3 DEF LimitInv

(* The counters of a row or a snapshot as far as they are of today. *)
TokensToday(s) == IF s.day = today THEN s.tokens ELSE 0
StartedToday(s) == IF s.day = today THEN s.started ELSE 0

LEMMA TodayCounters ==
    ASSUME TypeOK, NEW s \in OrchRecord
    PROVE  /\ Normalized(s).tokens = TokensToday(s) /\ TokensToday(s) \in Nat
           /\ Normalized(s).started = StartedToday(s) /\ StartedToday(s) \in Nat
           /\ Normalized(s).day = today /\ s.day \in Nat /\ s.tokens \in Nat /\ s.started \in Nat
  BY DEF Normalized, TokensToday, StartedToday, OrchRecord

(* At most one start is about to write: there is one client, or clients wait   *)
(* for their turn (QuietStart).                                                *)
SingleStart == QuietStart \/ \A j, k \in Clients : j = k
OneStarting ==
    \A j, k \in Clients : call[j].pc \in StartPcs2 /\ call[k].pc \in StartPcs2 => j = k

LEMMA OneStartingStep ==
    ASSUME TypeOK, SingleStart, OneStarting, Next
    PROVE  OneStarting'
<1>1. CASE \A j, k \in Clients : j = k
  BY <1>1 DEF OneStarting
<1>2. CASE QuietStart
  <2> SUFFICES ASSUME NEW j \in Clients, NEW k \in Clients, call'[j].pc \in StartPcs2,
                      call'[k].pc \in StartPcs2, j # k
               PROVE  FALSE
    BY DEF OneStarting
  <2>1. ASSUME NEW i \in Clients, call'[i].pc \in StartPcs2
        PROVE  call[i].pc \in StartPcs2 \/ StartRequest(i)
    BY <2>1, StartMoves, StartWriteEffect DEF StartPcs2
  <2>2. ASSUME NEW i \in Clients, StartRequest(i), NEW o \in Clients, o # i, call'[o].pc \in StartPcs2
        PROVE  FALSE
    <3>1. call[o].pc \notin StartPcs2
      BY <1>2, <2>2 DEF StartRequest, StartPcs2
    <3>2. call'[o] = call[o]
      BY <2>2 DEF StartRequest, TypeOK
    <3> QED BY <2>2, <3>1, <3>2
  <2> QED BY <2>1, <2>2 DEF OneStarting
<1> QED BY <1>1, <1>2 DEF SingleStart

(* What a start or the drain is about to write back never makes the tokens of  *)
(* today fewer than those the drain was allowed to go on with.                 *)
TokenInv ==
    /\ orch.day <= today
    /\ \A k \in Clients : call[k].pc = "startWrite" =>
         call[k].snap.day <= today /\ TokensToday(call[k].snap) <= TokensToday(orch)
    /\ drain.pc \in {"budget", "guard", "markRunning", "markState"} =>
         drain.snap.day <= today /\ TokensToday(orch) <= TokensToday(drain.snap)
    /\ drain.pc = "accountWrite" /\ orch.day = today => orch.tokens <= drain.snap.tokens
    /\ drain.pc \in WindowPcs => TokensToday(orch) < TokenBudget

LEMMA TokenRowTypes ==
    ASSUME TypeOK
    PROVE  /\ orch \in OrchRecord /\ drain.snap \in OrchRecord /\ drain \in DrainRecord
           /\ \A k \in Clients : call[k].snap \in OrchRecord
           /\ TokenBudget \in Nat \ {0} /\ today \in Nat
  BY SchedulerAssumption DEF TypeOK, DrainRecord, CallRecord

(* Tomorrow every counter starts again. *)
LEMMA TokenNextDay ==
    ASSUME TypeOK, TokenInv, Next, NextDay
    PROVE  TokenInv'
<1>1. today' = today + 1 /\ UNCHANGED <<orch, drain, call>> /\ today \in Nat
  BY TodayMoves
<1>2. ASSUME NEW s \in OrchRecord, s.day <= today
      PROVE  s.day <= today + 1 /\ s.day # today + 1
  BY <1>1, <1>2 DEF OrchRecord
<1>3. orch.day <= today + 1 /\ orch.day # today + 1
  BY <1>2, TokenRowTypes DEF TokenInv
<1>4. \A k \in Clients : call[k].pc = "startWrite" =>
         call[k].snap.day <= today + 1 /\ call[k].snap.day # today + 1
  BY <1>2, TokenRowTypes DEF TokenInv
<1>5. drain.pc \in {"budget", "guard", "markRunning", "markState"} =>
         drain.snap.day <= today + 1 /\ drain.snap.day # today + 1
  BY <1>2, TokenRowTypes DEF TokenInv
<1> QED BY <1>1, <1>3, <1>4, <1>5, TokenRowTypes DEF TokenInv, TokensToday

(* The steps that write no counter: those of the drain take a new snapshot,    *)
(* check one or throw it away, and a start reads the row.                      *)
LEMMA TokenReaders ==
    ASSUME TypeOK, LoopsInv, TokenInv, Next, today' = today, orch'.day = orch.day,
           orch'.tokens = orch.tokens, ~DrainBudget
    PROVE  TokenInv'
<1>1. orch'.day <= today /\ TokensToday(orch)' = TokensToday(orch)
  BY DEF TokenInv, TokensToday
<1>2. ASSUME NEW k \in Clients, call'[k].pc = "startWrite"
      PROVE  call'[k].snap.day <= today /\ TokensToday(call[k].snap)' <= TokensToday(orch)
  <2>1. CASE call'[k] = call[k]
    BY <1>2, <2>1 DEF TokenInv, TokensToday
  <2>2. CASE call'[k].snap.day = today /\ call'[k].snap.tokens = Normalized(orch).tokens
    BY <2>2, TodayCounters, TokenRowTypes DEF TokensToday
  <2> QED BY <1>2, <2>1, <2>2, StartMoves DEF StartPcs2
<1>3. ASSUME drain'.pc \in {"budget", "guard", "markRunning", "markState"}
      PROVE  drain'.snap.day <= today /\ TokensToday(orch) <= TokensToday(drain.snap)'
  <2>1. CASE drain'.snap = drain.snap /\ drain.pc \in {"budget", "guard", "markRunning", "markState"}
    BY <2>1 DEF TokenInv, TokensToday
  <2>2. CASE drain'.snap = orch
    <3>1. TokensToday(orch) \in Nat
      BY TodayCounters, TokenRowTypes
    <3> QED BY <2>2, <3>1 DEF TokenInv, TokensToday
  <2>3. CASE drain'.snap = Normalized(orch)
    <3>1. drain'.snap.day = today /\ drain'.snap.tokens = TokensToday(orch)
          /\ TokensToday(orch) \in Nat
      BY <2>3, TodayCounters, TokenRowTypes
    <3> QED BY <3>1, TokenRowTypes DEF TokensToday
  <2> QED BY <1>3, <2>1, <2>2, <2>3, WindowMoves DEF WindowPcs
<1>4. ASSUME drain'.pc = "accountWrite", orch'.day = today
      PROVE  orch.tokens <= drain'.snap.tokens
  <2>1. orch.tokens \in Nat
    BY TodayCounters, TokenRowTypes
  <2>2. CASE drain'.pc = drain.pc /\ drain'.snap = drain.snap
    BY <1>4, <2>2 DEF TokenInv
  <2>3. CASE drain'.snap.tokens >= orch.tokens
    BY <2>1, <2>3
  <2> QED BY <1>4, <2>2, <2>3, WindowMoves DEF WindowPcs
<1>5. ASSUME drain'.pc \in WindowPcs PROVE TokensToday(orch) < TokenBudget
  <2>1. CASE drain.pc \in WindowPcs
    BY <2>1 DEF TokenInv
  <2>2. CASE drain.pc = "guard" /\ Allowed(Normalized(drain.snap))
    <3>1. TokensToday(orch) <= TokensToday(drain.snap) /\ TokensToday(drain.snap) < TokenBudget
      BY <2>2, TodayCounters, TokenRowTypes DEF TokenInv, Allowed
    <3> QED BY <3>1, TodayCounters, TokenRowTypes
  <2> QED BY <1>5, <2>1, <2>2, WindowMoves DEF WindowPcs
<1> QED BY <1>1, <1>2, <1>3, <1>4, <1>5 DEF TokenInv

(* The four steps that write the counters. *)
LEMMA TokenBudgetStep ==
    ASSUME TypeOK, TokenInv, DrainBudget
    PROVE  TokenInv'
<1>1. /\ TokensToday(orch) \in Nat /\ TokensToday(drain.snap) \in Nat
      /\ \A k \in Clients : TokensToday(call[k].snap) \in Nat
      /\ orch \in OrchRecord /\ drain.snap \in OrchRecord /\ today \in Nat
  BY TodayCounters, TokenRowTypes
<1>2. /\ drain.pc = "budget" /\ drain'.pc = "guard" /\ call' = call /\ today' = today
      /\ drain'.snap.day = today /\ drain'.snap.tokens = TokensToday(drain.snap)
  BY <1>1, BudgetEffect, TodayCounters
<1>3. TokensToday(orch) <= TokensToday(drain.snap)
  BY <1>2 DEF TokenInv
<1>4. orch'.day <= today /\ TokensToday(orch)' = TokensToday(orch)
  <2>1. CASE drain.snap.day = today
    BY <1>2, <2>1, BudgetEffect DEF TokenInv, TokensToday
  <2>2. CASE drain.snap.day # today
    <3>1. TokensToday(orch) = 0
      BY <1>1, <1>3, <2>2 DEF TokensToday
    <3> QED BY <1>1, <1>2, <2>2, <3>1, BudgetEffect DEF TokensToday
  <2> QED BY <2>1, <2>2
<1>5. TokensToday(drain.snap)' = TokensToday(drain.snap)
  BY <1>2 DEF TokensToday
<1>6. \A k \in Clients : TokensToday(call[k].snap)' = TokensToday(call[k].snap)
  BY <1>2 DEF TokensToday
<1> QED BY <1>1, <1>2, <1>3, <1>4, <1>5, <1>6 DEF TokenInv, WindowPcs

LEMMA TokenDrainWrites ==
    ASSUME TypeOK, TokenInv, DrainMarkState \/ DrainAccountWrite
    PROVE  TokenInv'
<1>1. /\ TokensToday(orch) \in Nat /\ TokensToday(drain.snap) \in Nat
      /\ \A k \in Clients : TokensToday(call[k].snap) \in Nat
      /\ orch \in OrchRecord /\ drain.snap \in OrchRecord
      /\ orch.tokens \in Nat /\ drain.snap.tokens \in Nat
  BY TodayCounters, TokenRowTypes
<1>2. drain'.pc \in {"prepare", "settle"} /\ call' = call /\ today' = today
  BY MarkStateEffect, AccountWriteEffect
<1>3. orch'.day <= today
  BY MarkStateEffect, AccountWriteEffect DEF TokenInv
<1>4. TokensToday(orch) <= TokensToday(orch)'
  <2>1. CASE DrainMarkState
    <3>1. TokensToday(orch)' = TokensToday(drain.snap) /\ drain.pc = "markState"
      BY <1>2, <2>1, MarkStateEffect DEF TokensToday
    <3> QED BY <3>1 DEF TokenInv
  <2>2. CASE DrainAccountWrite
    BY <1>1, <1>2, <2>2, AccountWriteEffect DEF TokenInv, TokensToday
  <2> QED BY <2>1, <2>2
<1>5. \A k \in Clients : TokensToday(call[k].snap)' = TokensToday(call[k].snap)
  BY <1>2 DEF TokensToday
<1>6. TokensToday(orch)' \in Nat
  BY <1>1, <1>2, MarkStateEffect, AccountWriteEffect DEF TokensToday
<1> QED BY <1>1, <1>2, <1>3, <1>4, <1>5, <1>6 DEF TokenInv, WindowPcs

LEMMA TokenStartWrite ==
    ASSUME TypeOK, OneStarting, TokenInv, NEW k \in Clients, StartWrite(k)
    PROVE  TokenInv'
<1>1. /\ TokensToday(orch) \in Nat /\ TokensToday(drain.snap) \in Nat
      /\ TokensToday(call[k].snap) \in Nat /\ TokenBudget \in Nat
      /\ orch.tokens \in Nat /\ drain.snap.tokens \in Nat /\ call[k].snap.tokens \in Nat
  BY TodayCounters, TokenRowTypes
<1>2. /\ call[k].pc = "startWrite" /\ drain' = drain /\ today' = today
      /\ orch'.day = call[k].snap.day /\ orch'.tokens = call[k].snap.tokens
  BY StartWriteEffect
<1>3. call[k].snap.day <= today /\ TokensToday(call[k].snap) <= TokensToday(orch)
  BY <1>2 DEF TokenInv
<1>4. TokensToday(orch)' = TokensToday(call[k].snap)
      /\ TokensToday(drain.snap)' = TokensToday(drain.snap)
  BY <1>2 DEF TokensToday
<1>5. \A j \in Clients : call'[j].pc # "startWrite"
  BY <1>2, StartWriteEffect DEF OneStarting, StartPcs2
<1>6. ASSUME drain.pc = "accountWrite", call[k].snap.day = today
      PROVE  call[k].snap.tokens <= drain.snap.tokens
  <2>1. call[k].snap.tokens <= TokensToday(orch)
    BY <1>3, <1>6 DEF TokensToday
  <2>2. TokensToday(orch) <= drain.snap.tokens
    BY <1>1, <1>6 DEF TokenInv, TokensToday
  <2> QED BY <1>1, <2>1, <2>2
<1> QED BY <1>1, <1>2, <1>3, <1>4, <1>5, <1>6 DEF TokenInv

LEMMA TokenStep ==
    ASSUME TypeOK, LoopsInv, OneStarting, TokenInv, Next
    PROVE  TokenInv'
<1>1. CASE NextDay
  BY <1>1, TokenNextDay
<1>2. CASE ~NextDay /\ ~DrainBudget /\ ~DrainMarkState /\ ~DrainAccountWrite
             /\ \A k \in Clients : ~StartWrite(k)
  BY <1>2, CountersKept, TodayMoves, TokenReaders
<1> QED BY <1>1, <1>2, TokenBudgetStep, TokenDrainWrites, TokenStartWrite

(* When a loop is created every guardrail holds that was checked four awaits   *)
(* before, for any number of candidates, failing store calls, crashes and days *)
(* - as long as at most one start is in flight.  Two starts at once can put    *)
(* back the tokens of a row read before the last run was accounted for.        *)
THEOREM GuardrailsAtCreate ==
    ASSUME SingleStart
    PROVE  Spec => GuardrailsHoldAtCreate
<1> DEFINE IInv == TypeOK /\ LoopsInv /\ OneStarting /\ LimitInv /\ TokenInv
<1>1. Init => IInv
  <2>1. Init => OneStarting
    BY DEF Init, NoCall, OneStarting, StartPcs2
  <2>2. Init => LimitInv
    BY DEF Init, DrainAt, LimitInv, WindowPcs
  <2>3. Init => TokenInv
    BY DEF Init, InitOrch, DrainAt, NoCall, TokenInv, WindowPcs
  <2> QED BY <2>1, <2>2, <2>3, InitTypeOK, LoopsInvInit
<1>2. IInv /\ [Next]_vars => IInv'
  <2>1. IInv /\ UNCHANGED vars => OneStarting' /\ LimitInv' /\ TokenInv'
    BY DEF vars, store, world, OneStarting, LimitInv, TokenInv, OpenDraftPrs, TokensToday
  <2>2. IInv /\ Next => OneStarting' /\ LimitInv' /\ TokenInv'
    BY OneStartingStep, LimitStep, TokenStep
  <2> QED BY <2>1, <2>2, TypeStep, LoopsInvStep
<1>3. IInv /\ [Next]_vars =>
        [(At("create") /\ At("readState")') =>
            /\ orch.failures < FailureLimit
            /\ Normalized(orch).tokens < TokenBudget
            /\ OpenDraftPrs < OpenDraftPrLimit]_vars
  BY TodayCounters, TokenRowTypes DEF At, LimitInv, TokenInv, WindowPcs
<1> QED BY <1>1, <1>2, <1>3, PTL DEF Spec, GuardrailsHoldAtCreate
-----------------------------------------------------------------------------
(* The daily loop budget *)

(* A start waits for the drain to be over, and one start for the other. *)
StartsWait ==
    /\ OneStarting
    /\ \A k \in Clients : call[k].pc \in StartPcs2 => drain.pc = "off"

LEMMA DrainOff ==
    ASSUME drain.pc = "off"
    PROVE  ~DrainStep /\ ~DrainError
  BY DEF DrainStep, DrainError, At, DrainTop, DrainBudget, DrainGuard, DrainPick, DrainIdle,
     DrainClaim, DrainClaimWrite, DrainCreate, DrainActiveLoop, DrainActiveExists, DrainReadState,
     DrainMarkRunning, DrainMarkState, DrainPrepare, DrainRunner, DrainAccount, DrainAccountWrite,
     DrainSettle, DrainRetryWrite, DrainOpenApproval, DrainOpenPr, DrainCreatePr, DrainPause,
     DrainExit

LEMMA StartsWaitStep ==
    ASSUME TypeOK, QuietStart, StartsWait, Next
    PROVE  StartsWait'
<1>1. OneStarting'
  BY OneStartingStep DEF StartsWait, SingleStart
<1>2. ASSUME NEW k \in Clients, call'[k].pc \in StartPcs2
      PROVE  drain'.pc = "off"
  <2>1. CASE StartRequest(k)
    BY <2>1 DEF StartRequest
  <2>2. CASE StartWrite(k)
    BY <2>2, StartWriteEffect DEF StartsWait, StartPcs2
  <2>3. CASE call'[k] = call[k]
    <3>1. drain.pc = "off" /\ ~DrainStep /\ ~DrainError
      BY <1>2, <2>3, DrainOff DEF StartsWait
    <3>2. ASSUME NEW j \in Clients, StartKick(j)
          PROVE  FALSE
      <4>1. call[j].pc = "startKick" /\ j = k
        BY <1>2, <2>3, <3>2 DEF StartKick, Working, StartsWait, OneStarting, StartPcs2
      <4>2. call'[k].pc = "none"
        BY <3>2, <4>1 DEF StartKick, Finish, NoCall, TypeOK
      <4> QED BY <1>2, <4>2 DEF StartPcs2
    <3>3. CASE Crash
      BY <3>3 DEF Crash, DrainAt
    <3>4. ASSUME NEW j \in Clients, StopRequest(j)
          PROVE  drain'.pc = "off"
      BY <3>1, <3>4 DEF StopRequest
    <3> QED BY <3>1, <3>2, <3>3, <3>4, DrainKept
  <2> QED BY <1>2, <2>1, <2>2, <2>3, StartMoves
<1> QED BY <1>1, <1>2 DEF StartsWait

(* Only markState begins a run. *)
LEMMA BegunWriters ==
    ASSUME TypeOK, Next, ~DrainMarkState
    PROVE  hist'.startedOn = hist.startedOn
<1>1. hist \in HistRecord
  BY DEF TypeOK
<1>2. CASE DrainRunner
  BY <1>2, RunnerEffect
<1>3. ASSUME NEW k \in Clients, \/ StopRequest(k) \/ StartWrite(k) \/ StartKick(k) \/ StopWrite(k)
                                \/ StopLoopWrite(k) \/ CancelWrite(k)
      PROVE  hist'.startedOn = hist.startedOn
  BY <1>1, <1>3 DEF StopRequest, StartWrite, StartKick, StopWrite, StopLoopWrite, CancelWrite,
     HistRecord
<1>4. CASE ~DrainRunner /\ \A k \in Clients : ~StopRequest(k) /\ ~StartWrite(k) /\ ~StartKick(k)
                                  /\ ~StopWrite(k) /\ ~StopLoopWrite(k) /\ ~CancelWrite(k)
  BY <1>4 DEF Next, DrainStep, DrainError, RequestStep, ClientStep, NextDay, Crash, BootStep,
         Restart, RecoverCandidate, RecoverLoops, RecoverCurrent, RecoverState,
         DrainTop, DrainBudget, DrainGuard, DrainPick, DrainIdle, DrainClaim, DrainClaimWrite,
         DrainCreate, DrainActiveLoop, DrainActiveExists, DrainReadState, DrainMarkRunning,
         DrainPrepare, DrainAccount, DrainAccountWrite, DrainSettle,
         DrainRetryWrite, DrainOpenApproval, DrainOpenPr, DrainCreatePr, DrainPause, DrainExit,
         StartRequest, CancelRequest, ApproveRequest, Dismiss, ReviewRequest,
         StopLoop, StopCand, StopCandWrite, ApproveWrite, ReviewApproval, ReviewLoop
<1> QED BY <1>2, <1>3, <1>4

(* s may replace the day and the count of the row: it does not go back in time, *)
(* and it forgets the runs of a day only with the day.                          *)
Succeeds(s) ==
    /\ orch.day <= s.day /\ s.day <= today
    /\ s.started = IF s.day = orch.day THEN orch.started ELSE 0

(* The row counts every run begun on its day, and there is none of a later one. *)
DayInv ==
    /\ orch.day <= today
    /\ \A d \in 0 .. MaxDay :
         /\ hist.startedOn[d] <= DailyLoopBudget
         /\ d > orch.day => hist.startedOn[d] = 0
         /\ d = orch.day => hist.startedOn[d] <= orch.started
    /\ \A k \in Clients : call[k].pc = "startWrite" => Succeeds(call[k].snap)
    /\ drain.pc \in {"budget", "guard"} =>
         drain.snap.day = orch.day /\ drain.snap.started = orch.started
    /\ drain.pc \in WindowPcs \union {"readState"} => StartedToday(orch) < DailyLoopBudget
    /\ drain.pc \in {"markRunning", "markState"} =>
         drain.snap.started < DailyLoopBudget /\ Succeeds(drain.snap)

LEMMA DayTypes ==
    ASSUME TypeOK
    PROVE  /\ orch.day \in Nat /\ orch.started \in Nat /\ today \in 0 .. MaxDay /\ MaxDay \in Nat
           /\ drain.snap.day \in Nat /\ drain.snap.started \in Nat
           /\ \A k \in Clients : call[k].snap.day \in Nat /\ call[k].snap.started \in Nat
           /\ hist.startedOn \in [0 .. MaxDay -> Nat] /\ DailyLoopBudget \in Nat \ {0}
           /\ orch \in OrchRecord /\ drain.snap \in OrchRecord
  BY SchedulerAssumption DEF TypeOK, DrainRecord, CallRecord, OrchRecord, HistRecord

(* A day that begins changes nothing but what counts as today's. *)
LEMMA DayNextDay ==
    ASSUME TypeOK, DayInv, Next, NextDay
    PROVE  DayInv'
<1>1. today' = today + 1 /\ UNCHANGED <<orch, drain, call, hist>>
  BY TodayMoves
<1>2. StartedToday(orch)' = 0
  BY <1>1, DayTypes DEF StartedToday, DayInv
<1>3. \A s \in OrchRecord : Succeeds(s) => Succeeds(s)'
  BY <1>1, DayTypes DEF Succeeds, OrchRecord
<1>4. \A k \in Clients : call[k].snap \in OrchRecord
  BY TokenRowTypes
<1> QED BY <1>1, <1>2, <1>3, <1>4, DayTypes DEF DayInv, Succeeds

(* The steps that write neither the day nor the count. *)
LEMMA DayReaders ==
    ASSUME TypeOK, LoopsInv, DayInv, Next, today' = today, orch'.day = orch.day,
           orch'.started = orch.started, ~DrainBudget, ~DrainMarkState
    PROVE  DayInv'
<1>1. hist'.startedOn = hist.startedOn
  BY BegunWriters
<1>2. ASSUME NEW k \in Clients, call'[k].pc = "startWrite"
      PROVE  Succeeds(call[k].snap)'
  <2>1. CASE call'[k] = call[k]
    BY <1>2, <2>1 DEF DayInv, Succeeds
  <2>2. CASE call'[k].snap.day = today /\ call'[k].snap.started = Normalized(orch).started
    BY <2>2, TodayCounters, DayTypes DEF StartedToday, Succeeds, DayInv
  <2> QED BY <1>2, <2>1, <2>2, StartMoves DEF StartPcs2
<1>3. ASSUME drain'.pc \in {"budget", "guard"}
      PROVE  drain'.snap.day = orch.day /\ drain'.snap.started = orch.started
  BY <1>3, WindowMoves DEF WindowPcs, DayInv
<1>4. ASSUME drain'.pc \in WindowPcs \union {"readState"} PROVE StartedToday(orch) < DailyLoopBudget
  <2>1. CASE drain.pc \in WindowPcs \union {"readState"}
    BY <2>1 DEF DayInv
  <2>2. CASE drain.pc = "guard" /\ Allowed(Normalized(drain.snap))
    <3>1. StartedToday(orch) = StartedToday(drain.snap)
      BY <2>2 DEF StartedToday, DayInv
    <3> QED BY <2>2, <3>1, TodayCounters, DayTypes DEF Allowed
  <2> QED BY <1>4, <2>1, <2>2, WindowMoves DEF WindowPcs
<1>5. ASSUME drain'.pc \in {"markRunning", "markState"}
      PROVE  drain'.snap.started < DailyLoopBudget /\ Succeeds(drain.snap)'
  <2>1. CASE drain'.snap = drain.snap /\ drain.pc \in {"markRunning", "markState"}
    BY <2>1 DEF DayInv, Succeeds
  <2>2. CASE drain.pc = "readState" /\ drain'.snap = Normalized(orch)
    <3>1. drain'.snap.day = today /\ drain'.snap.started = StartedToday(orch)
      BY <2>2, TodayCounters, DayTypes
    <3> QED BY <2>2, <3>1, DayTypes DEF DayInv, Succeeds, StartedToday
  <2> QED BY <1>5, <2>1, <2>2, WindowMoves DEF WindowPcs
<1>6. StartedToday(orch)' = StartedToday(orch)
  BY DEF StartedToday
<1> QED BY <1>1, <1>2, <1>3, <1>4, <1>5, <1>6 DEF DayInv

LEMMA DayBudgetStep ==
    ASSUME TypeOK, StartsWait, DayInv, Next, DrainBudget
    PROVE  DayInv'
<1>1. /\ drain.pc = "budget" /\ drain'.pc = "guard" /\ call' = call /\ today' = today
      /\ drain'.snap.day = today /\ drain'.snap.started = StartedToday(drain.snap)
      /\ drain.snap.day = today => orch'.day = orch.day /\ orch'.started = orch.started
      /\ drain.snap.day # today => orch'.day = today /\ orch'.started = 0
      /\ hist' = hist
  BY BudgetEffect, TodayCounters, DayTypes
<1>2. drain.snap.day = orch.day /\ drain.snap.started = orch.started
  BY <1>1 DEF DayInv
<1>3. orch'.day = today /\ drain'.snap.started = orch'.started /\ orch.day <= today
  BY <1>1, <1>2 DEF StartedToday, DayInv
<1>4. \A k \in Clients : call'[k].pc # "startWrite"
  BY <1>1 DEF StartsWait, StartPcs2
<1>5. \A d \in 0 .. MaxDay : d > orch'.day => hist.startedOn[d] = 0
  BY <1>3, DayTypes DEF DayInv
<1>6. \A d \in 0 .. MaxDay : d = orch'.day => hist.startedOn[d] <= orch'.started
  BY <1>1, <1>2, <1>3, DayTypes DEF DayInv
<1> QED BY <1>1, <1>3, <1>4, <1>5, <1>6, DayTypes DEF DayInv, WindowPcs

LEMMA DayStartWrite ==
    ASSUME TypeOK, StartsWait, DayInv, NEW k \in Clients, StartWrite(k)
    PROVE  DayInv'
<1>1. /\ call[k].pc = "startWrite" /\ drain' = drain /\ today' = today
      /\ orch'.day = call[k].snap.day /\ orch'.started = call[k].snap.started
      /\ hist'.startedOn = hist.startedOn /\ drain.pc = "off"
  BY StartWriteEffect DEF StartsWait, StartPcs2
<1>2. \A j \in Clients : call'[j].pc # "startWrite"
  BY <1>1, StartWriteEffect DEF StartsWait, OneStarting, StartPcs2
<1>3. Succeeds(call[k].snap)
  BY <1>1 DEF DayInv
<1>4. \A d \in 0 .. MaxDay : /\ d > orch'.day => hist.startedOn[d] = 0
                             /\ d = orch'.day => hist.startedOn[d] <= orch'.started
  BY <1>1, <1>3, DayTypes DEF DayInv, Succeeds
<1>5. orch'.day <= today
  BY <1>1, <1>3 DEF Succeeds
<1> QED BY <1>1, <1>2, <1>4, <1>5 DEF DayInv, WindowPcs

LEMMA DayMarkState ==
    ASSUME TypeOK, StartsWait, DayInv, DrainMarkState
    PROVE  DayInv'
<1> DEFINE day == drain.snap.day
<1>1. /\ drain.pc = "markState" /\ drain'.pc = "prepare" /\ call' = call /\ today' = today
      /\ orch'.day = day /\ orch'.started = drain.snap.started + 1
  BY MarkStateEffect
<1>2. Succeeds(drain.snap) /\ drain.snap.started < DailyLoopBudget
  BY <1>1 DEF DayInv
<1>3. day \in 0 .. MaxDay
  BY <1>2, DayTypes DEF Succeeds
<1>4. hist'.startedOn = [hist.startedOn EXCEPT ![day] = @ + 1]
  BY DEF DrainMarkState, TypeOK, HistRecord
<1>5. hist.startedOn[day] <= drain.snap.started
  BY <1>2, <1>3, DayTypes, SMTT(30) DEF DayInv, Succeeds
<1>6. \A d \in 0 .. MaxDay :
         hist'.startedOn[d] = IF d = day THEN hist.startedOn[day] + 1 ELSE hist.startedOn[d]
  BY <1>3, <1>4, DayTypes
<1>7. hist.startedOn[day] \in Nat
  BY <1>3, DayTypes
<1>8. hist.startedOn[day] + 1 <= DailyLoopBudget /\ hist.startedOn[day] + 1 <= orch'.started
  <2>1. /\ drain.snap.started \in Nat /\ DailyLoopBudget \in Nat
        /\ \A a, b, c \in Nat : a <= b /\ b < c => a + 1 <= c /\ a + 1 <= b + 1
    BY DayTypes
  <2> QED BY <1>1, <1>2, <1>5, <1>7, <2>1
<1>9. \A d \in 0 .. MaxDay : d > day => hist.startedOn[d] = 0
  BY <1>2, DayTypes DEF DayInv, Succeeds
<1>10. \A k \in Clients : call'[k].pc # "startWrite"
  BY <1>1 DEF StartsWait, StartPcs2
<1>11. day <= today
  BY <1>2 DEF Succeeds
<1> HIDE DEF day
<1>12. \A d \in 0 .. MaxDay :
         /\ hist'.startedOn[d] <= DailyLoopBudget
         /\ d > orch'.day => hist'.startedOn[d] = 0
         /\ d = orch'.day => hist'.startedOn[d] <= orch'.started
  BY <1>1, <1>3, <1>6, <1>8, <1>9, DayTypes DEF DayInv
<1> QED BY <1>1, <1>10, <1>11, <1>12 DEF DayInv, WindowPcs

LEMMA DayStep ==
    ASSUME TypeOK, LoopsInv, StartsWait, DayInv, Next
    PROVE  DayInv'
<1>1. CASE NextDay
  BY <1>1, DayNextDay
<1>2. CASE ~NextDay /\ ~DrainBudget /\ ~DrainMarkState /\ \A k \in Clients : ~StartWrite(k)
  BY <1>2, CountersKept, AccountWriteEffect, TodayMoves, DayReaders
<1> QED BY <1>1, <1>2, DayBudgetStep, DayMarkState, DayStartWrite

(* The runs that really begin on a day never exceed the daily loop budget,     *)
(* across stops, store errors, crashes, restarts and midnights at any await -  *)
(* if clients send a start only when no drain is active and no other start is  *)
(* in flight.  The hypothesis is needed: the run start_resets_budget shows how *)
(* a start that overlaps a drain puts back the count it read before.           *)
THEOREM DailyBudget ==
    ASSUME QuietStart
    PROVE  Spec => []DailyBudgetHolds
<1> DEFINE IInv == TypeOK /\ LoopsInv /\ StartsWait /\ DayInv
<1>1. Init => IInv
  <2>1. Init => StartsWait
    BY DEF Init, DrainAt, NoCall, StartsWait, OneStarting, StartPcs2
  <2>2. Init => DayInv
    BY SchedulerAssumption DEF Init, InitOrch, DrainAt, NoCall, DayInv, WindowPcs
  <2> QED BY <2>1, <2>2, InitTypeOK, LoopsInvInit
<1>2. IInv /\ [Next]_vars => IInv'
  <2>1. IInv /\ UNCHANGED vars => StartsWait' /\ DayInv'
    BY DEF vars, store, world, StartsWait, OneStarting, DayInv, Succeeds, StartedToday
  <2>2. IInv /\ Next => StartsWait' /\ DayInv'
    BY StartsWaitStep, DayStep
  <2> QED BY <2>1, <2>2, TypeStep, LoopsInvStep
<1>3. IInv => DailyBudgetHolds
  BY DEF DayInv, DailyBudgetHolds
<1> QED BY <1>1, <1>2, <1>3, PTL DEF Spec
-----------------------------------------------------------------------------
(* The retries of a task: what each request, crash and run can add to them *)

One(b) == IF b THEN 1 ELSE 0

(* The loops of c that count as tries, and the other ones that may become so. *)
Failed(c) == {l \in LoopIds : loopTask[l] = c /\ loopStatus[l] \in RetryableStatuses}
InReview(c) == \E l \in LoopIds : loopTask[l] = c /\ loopStatus[l] = "needs_human_review"
InWork(c) == \E l \in LoopIds : loopTask[l] = c /\ loopStatus[l] \in DrivenStatuses
Waits(c) == candStatus[c] \in {"approved", "queued", "proposed"}

LEMMA CountType ==
    ASSUME NEW c
    PROVE  IsFiniteSet(Failed(c)) /\ RetryCount(c) = Cardinality(Failed(c)) /\ RetryCount(c) \in Nat
<1>1. IsFiniteSet(LoopIds)
  BY StoreAssumption, FS_Interval DEF LoopIds
<1>2. IsFiniteSet(Failed(c))
  BY <1>1, FS_Subset DEF Failed
<1> QED BY <1>2, FS_CardinalityType DEF RetryCount, Failed

LEMMA CountPrimed ==
    ASSUME NEW c
    PROVE  IsFiniteSet(Failed(c)') /\ RetryCount(c)' = Cardinality(Failed(c)') /\ RetryCount(c)' \in Nat
<1>1. IsFiniteSet(LoopIds)
  BY StoreAssumption, FS_Interval DEF LoopIds
<1>2. IsFiniteSet(Failed(c)')
  BY <1>1, FS_Subset DEF Failed
<1> QED BY <1>2, FS_CardinalityType DEF RetryCount, Failed

LEMMA CountKept ==
    ASSUME NEW c, Failed(c)' \subseteq Failed(c)
    PROVE  RetryCount(c)' <= RetryCount(c)
  BY CountType, CountPrimed, FS_Subset

LEMMA CountGrows ==
    ASSUME NEW c, NEW l, Failed(c)' \subseteq Failed(c) \union {l}
    PROVE  RetryCount(c)' <= RetryCount(c) + 1
<1>1. /\ IsFiniteSet(Failed(c) \union {l})
      /\ Cardinality(Failed(c) \union {l}) <= Cardinality(Failed(c)) + 1
  BY CountType, FS_AddElement
<1>2. Cardinality(Failed(c)') <= Cardinality(Failed(c) \union {l})
  BY <1>1, FS_Subset
<1>3. Cardinality(Failed(c) \union {l}) \in Nat
  BY <1>1, FS_CardinalityType
<1> QED BY <1>1, <1>2, <1>3, CountType, CountPrimed

(* What a task has pending when its loops only move to other statuses. *)
LoopsEase(c) ==
    /\ Failed(c)' \subseteq Failed(c)
    /\ InReview(c)' => InReview(c)
    /\ InWork(c)' => InWork(c)

LEMMA KeptEases == ASSUME UNCHANGED loops, NEW c PROVE LoopsEase(c)
  BY DEF loops, LoopsEase, Failed, InReview, InWork

LEMMA UpdateOther ==
    ASSUME LoopsTypeOK, NEW l, NEW s, UpdateLoop(l, s), NEW c, loopTask[l] # c
    PROVE  LoopsEase(c)
  BY DEF LoopsTypeOK, UpdateLoop, LoopsEase, Failed, InReview, InWork

LEMMA UpdateEnds ==
    ASSUME LoopsTypeOK, NEW l, NEW s, UpdateLoop(l, s), s \notin ActiveStatuses, NEW c
    PROVE  /\ Failed(c)' \subseteq Failed(c) \union {l}
           /\ s \notin RetryableStatuses => Failed(c)' \subseteq Failed(c)
           /\ InReview(c)' => InReview(c)
           /\ InWork(c)' => InWork(c)
  BY DEF LoopsTypeOK, UpdateLoop, Failed, InReview, InWork, ActiveStatuses, DrivenStatuses
-----------------------------------------------------------------------------
StopPcs == {"stopLoop", "stopLoopWrite", "stopCand", "stopCandWrite"}
Requeuing(c) == \E k \in Clients : call[k].pc \in StopPcs /\ call[k].cand = c
Approving(c) == \E k \in Clients : call[k].pc = "approveWrite" /\ call[k].cand = c

(* The stages of the drain's work on a candidate: before it is marked running, *)
(* until its loop has run, and until it is settled.                            *)
EarlyPcs == PickedPcs \union {"readState", "markRunning"}
MidPcs == {"markState", "prepare", "runner"}
LatePcs == {"account", "accountWrite", "settle", "retryWrite"}
Works(c) == drain.pc \in EarlyPcs \union MidPcs \union LatePcs /\ drain.cand = c

(* The drain will put its candidate back without counting a try. *)
Requeues ==
    \/ drain.pc # "retryWrite" /\ drain.run.status = "cancelled"
    \/ drain.pc = "account" /\ drain.aborted

(* The tries a task may still collect before anybody counts them again. *)
DrainOwes(c) ==
    IF ~Works(c) THEN One(Waits(c) \/ InWork(c) \/ Requeuing(c))
    ELSE IF drain.pc \in EarlyPcs THEN 1
    ELSE IF drain.pc \in MidPcs THEN 1 + One(Waits(c) /\ ~drain.aborted)
    ELSE One(Waits(c) \/ Requeuing(c) \/ Requeues)
Owes(c) ==
    IF boot.pc = "up" THEN One(InReview(c)) + One(Approving(c)) + DrainOwes(c)
    ELSE One(ActiveLoops(c) # {}) + One(Waits(c) \/ candStatus[c] = "running")

(* What has been sent that may add a try. *)
Spent == faults.crashes + (Quota["stop"] - quota["stop"]) + (Quota["approve"] - quota["approve"])

CallSide(k) ==
    /\ call[k].pc \in {"reviewApproval", "reviewLoop"} =>
         call[k].loop \in LoopIds /\ loopStatus[call[k].loop] = "needs_human_review"
    /\ boot.pc # "up" => call[k].pc = "none"
    /\ call[k].pc = "approveWrite" => quota["approve"] < Quota["approve"]
    /\ call[k].pc \in StopPcs => drain.pc = "off" \/ drain.aborted

LoopSide ==
    /\ drain.pc \in BeforeRunPcs => loopStatus[drain.loop] # "needs_human_review"
    /\ drain.pc \in HoldingPcs \ BeforeRunPcs =>
         /\ loopStatus[drain.loop] \notin DrivenStatuses
         /\ loopStatus[drain.loop] = "needs_human_review" =>
              drain.run.status \in {"needs_human_review", "cancelled"}

SideInv ==
    /\ LoopSide
    /\ \A k \in Clients : CallSide(k)
    /\ quota["stop"] <= Quota["stop"] /\ quota["approve"] <= Quota["approve"]

LEMMA LoopSideStep ==
    ASSUME TypeOK, LoopsInv, LoopSide, Next
    PROVE  LoopSide'
<1>1. CASE DrainCreate
  <2>1. PICK l \in LoopIds : /\ drain'.pc = "readState" /\ drain'.loop = l
                             /\ loopStatus' = [loopStatus EXCEPT ![l] = "queued"]
    BY <1>1, CreateEffect
  <2> QED BY <2>1 DEF LoopSide, TypeOK, LoopsTypeOK, BeforeRunPcs
<1>2. CASE ~DrainCreate /\ drain'.pc \in HoldingPcs
  <2>1. PICK l \in LoopIds : /\ drain.pc \in HoldingPcs /\ drain.loop = l /\ drain'.loop = l
                             /\ loopStatus[l] # "none" /\ ActiveLoops(loopTask[l]) \ {l} = {}
    BY <1>2, HeldRun DEF LoopsInv, OwnLoop, ActiveLoops
  <2>2. boot.pc = "up"
    BY <2>1, PcNames DEF LoopsInv
  <2>3. ASSUME loopStatus'[l] # loopStatus[l], ~DrainRunner, ~DrainPrepare
        PROVE  loopStatus'[l] \in TerminalStatuses
    BY <2>1, <2>2, <2>3, StatusWriters
  <2>4. CASE drain'.pc \in BeforeRunPcs
    <3>1. drain.pc \in BeforeRunPcs /\ ~DrainRunner
      BY <1>2, <2>4, HeldRun, RunnerEffect DEF BeforeRunPcs
    <3>2. DrainPrepare => loopStatus'[l] \in {loopStatus[l], "workspace_preparing"}
      BY <2>1, PrepareEffect DEF UpdateLoop, TypeOK, LoopsTypeOK
    <3> QED BY <2>1, <2>3, <2>4, <3>1, <3>2 DEF LoopSide, TerminalStatuses
  <2>5. CASE drain'.pc \notin BeforeRunPcs /\ drain.pc \in BeforeRunPcs
    <3>1. ~DrainError /\ ~Crash
      BY <1>2, PcNames DEF DrainError, Goto, Crash, DrainAt, TypeOK, DrainRecord
    <3>2. DrainRunner
      BY <2>5, <3>1, BeforeRunStays
    <3>3. UpdateLoop(l, drain'.run.status) /\ drain'.run.status \in RunStatuses
      BY <2>1, <3>2, RunnerEffect
    <3>4. loopStatus'[l] = drain'.run.status
      BY <2>1, <3>3 DEF UpdateLoop, TypeOK, LoopsTypeOK
    <3> QED BY <2>1, <2>5, <3>3, <3>4 DEF LoopSide, RunStatuses, DrivenStatuses
  <2>6. CASE drain'.pc \notin BeforeRunPcs /\ drain.pc \notin BeforeRunPcs
    <3>1. ~DrainPrepare /\ ~DrainRunner
      BY <2>6, PrepareEffect, RunnerEffect DEF BeforeRunPcs
    <3>2. drain'.run.status \in {drain.run.status, "cancelled"}
      BY <1>2, <2>6, HeldRun
    <3> QED BY <2>1, <2>3, <2>6, <3>1, <3>2 DEF LoopSide, TerminalStatuses, DrivenStatuses
  <2> QED BY <2>4, <2>5, <2>6
<1>3. CASE drain'.pc \notin HoldingPcs
  BY <1>3 DEF LoopSide, HoldingPcs
<1> QED BY <1>1, <1>2, <1>3

LEMMA CallFlow ==
    ASSUME TypeOK, Next, NEW k \in Clients
    PROVE  /\ call'[k].pc \in StopPcs =>
                \/ StopRequest(k)
                \/ call[k].pc \in StopPcs /\ call'[k].cand = call[k].cand
           /\ call'[k].pc = "approveWrite" => ApproveRequest(k) \/ call'[k] = call[k]
<1> USE DEF StopPcs
<1>1. call \in [Clients -> CallRecord]
  BY DEF TypeOK
<1>2. CASE call' = call
  BY <1>2
<1>3. CASE Crash
  BY <1>3 DEF Crash, NoCall
<1>4. ASSUME NEW j \in Clients, RequestStep(j) \/ ClientStep(j), j # k
      PROVE  call'[k] = call[k]
  <2>1. call' = call \/ \E r : call' = [call EXCEPT ![j] = r]
    BY <1>4 DEF RequestStep, ClientStep, Finish, StartRequest, StopRequest, CancelRequest,
         ApproveRequest, Dismiss, ReviewRequest, StartKick, CancelWrite, ApproveWrite, ReviewLoop,
         StopWrite, StartWrite, StopLoop, StopLoopWrite, StopCand, StopCandWrite, ReviewApproval,
         Continue
  <2> QED BY <1>1, <1>4, <2>1
<1>5. CASE StopRequest(k) \/ ReviewRequest(k) \/ StartRequest(k) \/ ApproveRequest(k)
           \/ CancelRequest(k)
  BY <1>1, <1>5, ZenonT(30) DEF StopRequest, ReviewRequest, StartRequest, ApproveRequest, CancelRequest, NoCall
<1>6. CASE StopLoop(k) \/ StopLoopWrite(k) \/ StopCand(k) \/ ReviewApproval(k) \/ StartWrite(k)
           \/ StopCandWrite(k)
  BY <1>1, <1>6 DEF StopLoop, StopLoopWrite, StopCand, ReviewApproval, StartWrite, StopCandWrite,
     Continue, Working, CallRecord
<1>7. CASE StartKick(k) \/ StopWrite(k) \/ CancelWrite(k) \/ ApproveWrite(k) \/ ReviewLoop(k)
  <2>1. Finish(k)
    BY <1>7 DEF StartKick, StopWrite, CancelWrite, ApproveWrite, ReviewLoop
  <2> QED BY <1>1, <2>1 DEF Finish, NoCall
<1>8. CASE Dismiss(k)
  BY <1>2, <1>8 DEF Dismiss
<1>9. CASE DrainStep \/ DrainError \/ BootStep \/ NextDay
  BY <1>2, <1>9, DrainStepRest DEF DrainError, NextDay, BootStep, Restart, RecoverCandidate,
     RecoverLoops, RecoverCurrent, RecoverState
<1> QED BY <1>3, <1>4, <1>5, <1>6, <1>7, <1>8, <1>9 DEF Next, RequestStep, ClientStep

(* An aborted drain stays so until it is off, and off until a start kicks it. *)
LEMMA AbortStays ==
    ASSUME TypeOK, Next, drain.pc = "off" \/ drain.aborted, \A k \in Clients : ~StartKick(k)
    PROVE  drain'.pc = "off" \/ drain'.aborted
<1>1. drain \in DrainRecord
  BY DEF TypeOK
<1>2. CASE DrainStep
  <2>1. drain.pc # "off"
    BY <1>2 DEF DrainStep, At, DrainTop, DrainBudget, DrainGuard, DrainPick, DrainIdle, DrainClaim,
       DrainClaimWrite, DrainCreate, DrainActiveLoop, DrainActiveExists, DrainReadState,
       DrainMarkRunning, DrainMarkState, DrainPrepare, DrainRunner, DrainAccount,
       DrainAccountWrite, DrainSettle, DrainRetryWrite, DrainOpenApproval, DrainOpenPr,
       DrainCreatePr, DrainPause, DrainExit
  <2> QED BY <1>2, <2>1, DrainKeeps
<1>3. CASE DrainError \/ Crash
  BY <1>1, <1>3 DEF DrainError, Goto, Crash, DrainAt, DrainRecord
<1>4. ASSUME NEW k \in Clients, StopRequest(k) PROVE drain'.pc = "off" \/ drain'.aborted
  BY <1>1, <1>4 DEF StopRequest, DrainRecord
<1>5. CASE ~DrainStep /\ ~DrainError /\ ~Crash /\ \A k \in Clients : ~StopRequest(k)
  BY <1>5, DrainKept
<1> QED BY <1>2, <1>3, <1>4, <1>5

LEMMA CallSideStep ==
    ASSUME TypeOK, LoopsInv, SideInv, Next, \A j, k \in Clients : j = k, NEW k \in Clients
    PROVE  CallSide(k)'
<1> USE DEF SideInv
<1>1. CallSide(k) /\ call \in [Clients -> CallRecord] /\ drain \in DrainRecord
  BY DEF TypeOK
<1>2. ASSUME call'[k].pc \in {"reviewApproval", "reviewLoop"}
      PROVE  call'[k].loop \in LoopIds /\ loopStatus'[call'[k].loop] = "needs_human_review"
  <2>1. CASE call'[k] = call[k]
    <3> DEFINE l == call[k].loop
    <3>1. boot.pc = "up" /\ l \in LoopIds /\ loopStatus[l] = "needs_human_review"
      BY <1>1, <1>2, <2>1 DEF CallSide
    <3>2. ASSUME NEW j \in Clients, LoopWrite(j) PROVE FALSE
      <4>1. ReviewLoop(k)
        BY <1>2, <2>1, <3>2 DEF LoopWrite, StopLoopWrite, CancelWrite, Working
      <4> QED BY <1>1, <1>2, <2>1, <4>1 DEF ReviewLoop, Finish, NoCall
    <3>3. ~(drain.loop = l /\ drain.pc \in BeforeRunPcs)
      BY <3>1 DEF LoopSide
    <3> QED BY <2>1, <3>1, <3>2, <3>3, StatusWriters
  <2>2. CASE /\ ReviewRequest(k) /\ call'[k].loop \in LoopIds
             /\ loopStatus[call'[k].loop] = "needs_human_review"
    BY <2>2 DEF ReviewRequest, loops
  <2>3. CASE ReviewApproval(k) /\ call[k].pc = "reviewApproval" /\ call'[k].loop = call[k].loop
    BY <1>1, <2>3 DEF CallSide, ReviewApproval, loops
  <2>4. CancelRequest(k) => call'[k].pc = "cancelWrite"
    BY <1>1 DEF CancelRequest, NoCall
  <2> QED BY <1>2, <2>1, <2>2, <2>3, <2>4, CallMoves DEF LoopPcs
<1>3. ASSUME boot'.pc # "up" PROVE call'[k].pc = "none"
  <2>1. CASE Crash
    BY <2>1 DEF Crash, NoCall
  <2>2. CASE ~Crash
    <3>1. boot.pc # "up"
      <4>1. BootStep => boot.pc # "up"
        BY DEF BootStep, Restart, RecoverCandidate, RecoverLoops, RecoverCurrent, RecoverState
      <4> QED BY <1>3, <2>2, <4>1, BootMoves
    <3>2. BootStep \/ NextDay
      BY <2>2, <3>1, OnlyBootSteps
    <3>3. call' = call
      BY <3>2 DEF BootStep, NextDay, Restart, RecoverCandidate, RecoverLoops, RecoverCurrent,
         RecoverState
    <3> QED BY <1>1, <3>1, <3>3 DEF CallSide
  <2> QED BY <2>1, <2>2
<1>4. ASSUME call'[k].pc = "approveWrite" PROVE quota'["approve"] < Quota["approve"]
  <2>1. "approve" \in Requests /\ quota \in [Requests -> Nat] /\ Quota["approve"] \in Nat
    BY SchedulerAssumption DEF Requests, TypeOK
  <2>2. CASE ApproveRequest(k)
    BY <2>1, <2>2 DEF ApproveRequest, Begin
  <2>3. CASE call'[k] = call[k]
    BY <1>1, <1>4, <2>1, <2>3, QuotaMoves DEF CallSide
  <2> QED BY <1>4, <2>2, <2>3, CallFlow
<1>5. ASSUME call'[k].pc \in StopPcs PROVE drain'.pc = "off" \/ drain'.aborted
  <2>1. CASE StopRequest(k)
    BY <1>1, <2>1 DEF StopRequest, DrainRecord
  <2>2. CASE call[k].pc \in StopPcs
    <3>1. \A j \in Clients : ~StartKick(j)
      BY <2>2 DEF StartKick, Working, StopPcs
    <3> QED BY <1>1, <2>2, <3>1, AbortStays DEF CallSide
  <2> QED BY <1>5, <2>1, <2>2, CallFlow
<1> QED BY <1>2, <1>3, <1>4, <1>5 DEF CallSide

LEMMA SideStep ==
    ASSUME TypeOK, LoopsInv, SideInv, Next, \A j, k \in Clients : j = k
    PROVE  SideInv'
<1>1. "stop" \in Requests /\ "approve" \in Requests
  BY DEF Requests
<1>2. Quota["stop"] \in Nat /\ Quota["approve"] \in Nat
  BY <1>1, SchedulerAssumption
<1>3. quota'["stop"] <= Quota["stop"] /\ quota'["approve"] <= Quota["approve"]
  BY <1>1, <1>2, QuotaMoves DEF SideInv
<1> QED BY <1>3, LoopSideStep, CallSideStep DEF SideInv
-----------------------------------------------------------------------------
LEMMA StageNames ==
    /\ EarlyPcs = {"claim", "claimWrite", "create", "activeExists", "readState", "markRunning"}
    /\ LatePcs \subseteq HoldingPcs \ BeforeRunPcs /\ MidPcs \subseteq BeforeRunPcs
    /\ EarlyPcs \cap MidPcs = {} /\ EarlyPcs \cap LatePcs = {} /\ MidPcs \cap LatePcs = {}
    /\ MidPcs = {"markState", "prepare", "runner"}
    /\ LatePcs = {"account", "accountWrite", "settle", "retryWrite"}
  BY DEF EarlyPcs, MidPcs, LatePcs, PickedPcs, BeforeRunPcs, HoldingPcs

LEMMA SpentMoves ==
    ASSUME TypeOK, SideInv, Next
    PROVE  /\ Spent \in Nat /\ Spent' \in Int /\ Spent <= Spent'
           /\ Crash => Spent + 1 <= Spent'
           /\ \A k \in Clients : StopRequest(k) \/ ApproveRequest(k) => Spent + 1 <= Spent'
<1>1. /\ "stop" \in Requests /\ "approve" \in Requests /\ "stop" # "approve"
      /\ faults \in [crashes : Nat, errors : Nat] /\ quota \in [Requests -> Nat]
  BY DEF Requests, TypeOK
<1>2. Quota["stop"] \in Nat /\ Quota["approve"] \in Nat
  BY <1>1, SchedulerAssumption
<1>3. /\ quota'["stop"] \in Nat /\ quota'["stop"] <= quota["stop"]
      /\ quota'["approve"] \in Nat /\ quota'["approve"] <= quota["approve"]
  BY <1>1, QuotaMoves
<1>4. faults'.crashes \in Nat /\ faults'.crashes >= faults.crashes
      /\ (Crash => faults'.crashes = faults.crashes + 1)
  <2>1. CASE Crash
    BY <1>1, <2>1 DEF Crash
  <2>2. CASE DrainError /\ ~Crash
    BY <1>1, <2>2 DEF DrainError
  <2>3. CASE ~Crash /\ ~DrainError
    <3>1. faults' = faults
      BY <2>3, DrainStepRest, RequestRest
      DEF Next, world, BootStep, NextDay, Restart, RecoverCandidate, RecoverLoops, RecoverCurrent,
          RecoverState
    <3> QED BY <1>1, <2>3, <3>1
  <2> QED BY <2>1, <2>2, <2>3
<1>5. ASSUME NEW k \in Clients, StopRequest(k)
      PROVE  quota'["stop"] = quota["stop"] - 1
  BY <1>1, <1>5 DEF StopRequest, Begin
<1>6. ASSUME NEW k \in Clients, ApproveRequest(k)
      PROVE  quota'["approve"] = quota["approve"] - 1
  BY <1>1, <1>6 DEF ApproveRequest, Begin
<1>7. quota["stop"] <= Quota["stop"] /\ quota["approve"] <= Quota["approve"]
  BY DEF SideInv
<1>8. quota["stop"] \in Nat /\ quota["approve"] \in Nat /\ faults.crashes \in Nat
  BY <1>1
<1> QED BY <1>2, <1>3, <1>4, <1>5, <1>6, <1>7, <1>8 DEF Spent

(* The drain goes from stage to stage without owing more to c. *)
DrainEase(c) ==
    /\ Works(c)' /\ drain'.pc \in EarlyPcs => Waits(c) \/ (Works(c) /\ drain.pc \in EarlyPcs)
    /\ Works(c)' /\ drain'.pc \in MidPcs =>
         Works(c) /\ drain.pc \in MidPcs /\ (drain.aborted => drain'.aborted)
    /\ Works(c)' /\ drain'.pc \in LatePcs =>
         Works(c) /\ drain.pc \in LatePcs /\ (Requeues' => Requeues)

LEMMA LateDone ==
    ASSUME LoopsInv, LoopSide, NEW c, Works(c), drain.pc \in LatePcs
    PROVE  ~InWork(c)
  BY StageNames DEF LoopsInv, OwnLoop, LoopSide, Works, InWork, DrivenStatuses, ActiveStatuses

LEMMA DrainOwesFollows ==
    ASSUME LoopsInv, LoopSide, NEW c, InWork(c)' => InWork(c), DrainEase(c),
           Waits(c)' => Waits(c), Requeuing(c)' => Requeuing(c)
    PROVE  DrainOwes(c)' <= DrainOwes(c)
<1>1. Works(c) => drain.pc \in EarlyPcs \union MidPcs \union LatePcs
  BY DEF Works
<1>2. Works(c)' => drain'.pc \in EarlyPcs \union MidPcs \union LatePcs
  BY DEF Works
<1>3. CASE ~Works(c)'
  BY <1>1, <1>3, LateDone DEF DrainOwes, One
<1>4. CASE Works(c)' /\ drain'.pc \in EarlyPcs
  BY <1>4, StageNames DEF DrainOwes, DrainEase, One
<1>5. CASE Works(c)' /\ drain'.pc \in MidPcs
  BY <1>5, StageNames DEF DrainOwes, DrainEase, One
<1>6. CASE Works(c)' /\ drain'.pc \in LatePcs
  BY <1>6, StageNames DEF DrainOwes, DrainEase, One
<1> QED BY <1>2, <1>3, <1>4, <1>5, <1>6

LEMMA OwesParts ==
    ASSUME NEW c
    PROVE  /\ boot.pc = "up" => Owes(c) = One(InReview(c)) + One(Approving(c)) + DrainOwes(c)
           /\ boot'.pc = "up" =>
                Owes(c)' = One(InReview(c))' + One(Approving(c))' + DrainOwes(c)'
           /\ One(InReview(c)) \in 0 .. 1 /\ One(InReview(c))' \in 0 .. 1
           /\ One(Approving(c)) \in 0 .. 1 /\ One(Approving(c))' \in 0 .. 1
           /\ DrainOwes(c) \in 0 .. 2 /\ DrainOwes(c)' \in 0 .. 2
           /\ Owes(c) \in Nat /\ Owes(c)' \in Nat
           /\ RetryCount(c) \in Nat /\ RetryCount(c)' \in Nat
<1>1. DrainOwes(c) \in 0 .. 2 /\ DrainOwes(c)' \in 0 .. 2
  BY DEF DrainOwes, One
<1> QED BY <1>1, CountType, CountPrimed DEF Owes, One

LEMMA OwesFollows ==
    ASSUME LoopsInv, LoopSide, NEW c, boot.pc = "up", boot'.pc = "up", LoopsEase(c), DrainEase(c),
           Waits(c)' => Waits(c), Requeuing(c)' => Requeuing(c), Approving(c)' => Approving(c)
    PROVE  RetryCount(c)' + Owes(c)' <= RetryCount(c) + Owes(c)
<1>1. RetryCount(c)' <= RetryCount(c)
  BY CountKept DEF LoopsEase
<1>2. One(InReview(c))' <= One(InReview(c)) /\ One(Approving(c))' <= One(Approving(c))
  BY DEF LoopsEase, One
<1>3. DrainOwes(c)' <= DrainOwes(c)
  BY DrainOwesFollows DEF LoopsEase
<1> QED BY <1>1, <1>2, <1>3, OwesParts

LEMMA CallsEase ==
    ASSUME TypeOK, Next, \A k \in Clients : ~StopRequest(k) /\ ~ApproveRequest(k), NEW c
    PROVE  (Requeuing(c)' => Requeuing(c)) /\ (Approving(c)' => Approving(c))
  BY CallFlow DEF Requeuing, Approving

LEMMA DrainCallsKept ==
    ASSUME call' = call, NEW c
    PROVE  (Requeuing(c)' <=> Requeuing(c)) /\ (Approving(c)' <=> Approving(c))
  BY DEF Requeuing, Approving
-----------------------------------------------------------------------------
(* The steps of the drain that read, or write anything but candidates and loops. *)
LEMMA RetryQuiet ==
    ASSUME TypeOK, LoopsInv, SideInv, DrainStep, UNCHANGED loops, UNCHANGED candStatus,
           ~DrainCreate, ~DrainMarkRunning, ~DrainRunner, NEW c \in Candidates
    PROVE  RetryCount(c)' + Owes(c)' <= RetryCount(c) + Owes(c)
<1> USE DEF At, Goto
<1>1. /\ drain \in DrainRecord /\ boot.pc = "up" /\ boot' = boot /\ call' = call
      /\ c # None
  BY DrainStepRest, StoreAssumption DEF TypeOK, world, None
<1>2. Waits(c)' <=> Waits(c)
  BY DEF Waits
<1>3. DrainEase(c)
  <2> USE StageNames DEF Works
  <2>1. CASE DrainTop \/ DrainBudget \/ DrainGuard \/ DrainIdle
    <3>1. drain'.pc \in {"budget", "exit", "guard", "pick", "pauseExit"}
      BY <1>1, <2>1 DEF DrainRecord, DrainTop, DrainBudget, DrainGuard, DrainIdle
    <3> QED BY <3>1 DEF DrainEase
  <2>7. CASE DrainClaim \/ DrainActiveLoop \/ DrainReadState \/ DrainMarkState \/ DrainAccountWrite
    <3>1. /\ drain'.cand = drain.cand /\ drain'.aborted = drain.aborted
          /\ drain'.run = drain.run
          /\ \/ drain.pc \in EarlyPcs /\ drain'.pc \in EarlyPcs \union {"pauseExit"}
             \/ drain.pc = "markState" /\ drain'.pc = "prepare"
             \/ drain.pc = "accountWrite" /\ drain'.pc = "settle"
      BY <1>1, <2>7 DEF DrainRecord, DrainClaim, DrainActiveLoop, DrainReadState, DrainMarkState,
         DrainAccountWrite
    <3> QED BY <3>1 DEF DrainEase, Requeues
  <2>2. CASE DrainPick
    <3>1. CASE drain'.pc \notin EarlyPcs \union MidPcs \union LatePcs
      BY <3>1 DEF DrainEase
    <3>2. CASE drain'.pc \in EarlyPcs \union MidPcs \union LatePcs
      <4>1. PICK p \in Candidates : /\ Selectable(p, drain.snap.mode)
                                    /\ drain' = [drain EXCEPT !.pc = "claim", !.cand = p]
        BY <1>1, <2>2, <3>2 DEF DrainPick, DrainRecord
      <4>2. Waits(p)
        BY <4>1 DEF Selectable, Waits
      <4>3. drain'.pc = "claim" /\ drain'.cand = p
        BY <1>1, <4>1 DEF DrainRecord
      <4> QED BY <4>2, <4>3 DEF DrainEase
    <3> QED BY <3>1, <3>2
  <2>3. CASE DrainAccount
    <3>1. /\ drain.pc = "account" /\ drain'.pc = "accountWrite" /\ drain'.cand = drain.cand
          /\ drain'.run.status = IF drain.aborted THEN "cancelled" ELSE drain.run.status
      BY <1>1, <2>3 DEF DrainAccount, DrainRecord, RunRecord
    <3> QED BY <3>1 DEF DrainEase, Requeues
  <2>4. CASE DrainSettle
    <3>0. drain.pc = "settle"
      BY <2>4 DEF DrainSettle
    <3>1. CASE drain' = [drain EXCEPT !.pc = "retryWrite",
                                      !.run.qualified = RetriesSpent(drain.cand)]
      <4>1. drain'.pc = "retryWrite" /\ drain'.cand = drain.cand
        BY <1>1, <3>1 DEF DrainRecord
      <4> QED BY <3>0, <4>1 DEF DrainEase, Requeues
    <3>2. CASE drain' = [drain EXCEPT !.pc = "openPr"] \/ drain' = [drain EXCEPT !.pc = "openApproval"]
      BY <1>1, <3>2 DEF DrainRecord, DrainEase
    <3>3. CASE \E pc \in {"top", "pauseLoop"} : drain' = DrainAt(pc, drain.aborted)
      BY <3>3 DEF DrainAt, DrainEase
    <3> QED BY <2>4, <3>1, <3>2, <3>3, PcNames DEF DrainSettle
  <2>5. CASE DrainActiveExists \/ DrainRetryWrite \/ DrainOpenApproval \/ DrainOpenPr
             \/ DrainCreatePr \/ DrainPause \/ DrainExit
    <3>1. drain'.pc \in {"top", "pauseLoop", "exit", "off", "createPr"}
      BY <1>1, <2>5, PcNames DEF DrainActiveExists, DrainRetryWrite, DrainOpenApproval, DrainOpenPr,
         DrainCreatePr, DrainPause, DrainExit, DrainAt, DrainRecord
    <3> QED BY <3>1 DEF DrainEase
  <2>6. CASE DrainClaimWrite \/ DrainPrepare
    BY <1>1, <2>6 DEF DrainClaimWrite, DrainPrepare, DrainRecord, DrainEase
  <2> QED BY <2>1, <2>2, <2>3, <2>4, <2>5, <2>6, <2>7 DEF DrainStep
<1> QED BY <1>1, <1>2, <1>3, KeptEases, DrainCallsKept, OwesFollows DEF SideInv

(* The candidates the drain does not work on are left alone when it writes one. *)
LEMMA OtherCandidates ==
    ASSUME TypeOK, LoopsInv, SideInv, DrainStep, UNCHANGED loops, NEW s, NEW c \in Candidates,
           SetCandidate(drain.cand, s), drain.cand # c, drain'.cand \in {drain.cand, None}
    PROVE  RetryCount(c)' + Owes(c)' <= RetryCount(c) + Owes(c)
<1>1. boot.pc = "up" /\ boot' = boot /\ call' = call /\ c # None
  BY DrainStepRest, StoreAssumption DEF world, None
<1>2. Waits(c)' <=> Waits(c)
  BY DEF Waits, SetCandidate, TypeOK
<1>3. DrainEase(c)
  BY <1>1 DEF DrainEase, Works
<1> QED BY <1>1, <1>2, <1>3, KeptEases, DrainCallsKept, OwesFollows DEF SideInv

(* What remains of the debt when loops, requests and recovery stay the same. *)
LEMMA SameButDrain ==
    ASSUME boot.pc = "up", boot'.pc = "up", UNCHANGED loops, call' = call, NEW c,
           DrainOwes(c)' <= DrainOwes(c)
    PROVE  RetryCount(c)' + Owes(c)' <= RetryCount(c) + Owes(c)
<1>1. RetryCount(c)' = RetryCount(c) /\ RetryCount(c) \in Nat
  BY CountType DEF RetryCount, loops
<1>2. InReview(c)' <=> InReview(c)
  BY DEF InReview, loops
<1>3. DrainOwes(c) \in Int /\ DrainOwes(c)' \in Int
  BY DEF DrainOwes, One
<1> QED BY <1>1, <1>2, <1>3, DrainCallsKept DEF Owes, One

(* The drain lets go of a candidate whose run has ended. *)
LEMMA LateEnds ==
    ASSUME LoopsInv, LoopSide, NEW c, Works(c), drain.pc \in LatePcs, ~Works(c)', UNCHANGED loops,
           call' = call, Waits(c)' => Waits(c) \/ Requeues
    PROVE  DrainOwes(c)' <= DrainOwes(c)
<1>1. ~InWork(c)'
  BY LateDone DEF InWork, loops
<1> QED BY <1>1, StageNames, DrainCallsKept DEF DrainOwes, One

LEMMA RetryCandidateWrites ==
    ASSUME TypeOK, LoopsInv, SideInv, NEW c \in Candidates,
           DrainClaimWrite \/ DrainActiveExists \/ DrainMarkRunning \/ DrainSettle
    PROVE  RetryCount(c)' + Owes(c)' <= RetryCount(c) + Owes(c)
<1> USE DEF At, Goto
<1>1. /\ drain \in DrainRecord /\ boot.pc = "up" /\ boot' = boot /\ call' = call
      /\ c # None /\ DrainStep /\ UNCHANGED loops /\ LoopSide
      /\ candStatus \in [Candidates -> CandidateStatuses]
  <2>1. DrainStep
    BY DEF DrainStep
  <2> QED BY <2>1, DrainStepRest, StoreAssumption
          DEF TypeOK, world, None, SideInv, DrainClaimWrite, DrainActiveExists, DrainMarkRunning,
              DrainSettle
<1>2. CASE DrainSettle /\ UNCHANGED candStatus
  <2>1. drain.pc = "settle"
    BY <1>2 DEF DrainSettle
  <2> QED BY <1>1, <1>2, <2>1, RetryQuiet DEF DrainCreate, DrainMarkRunning, DrainRunner
<1>3. CASE drain.cand # c /\ ~(DrainSettle /\ UNCHANGED candStatus)
  <2>1. drain'.cand \in {drain.cand, None} /\ \E s : SetCandidate(drain.cand, s)
    BY <1>1, <1>3, PcNames DEF DrainClaimWrite, DrainActiveExists, DrainMarkRunning, DrainSettle,
       DrainRecord, DrainAt
  <2> QED BY <1>1, <1>3, <2>1, OtherCandidates
<1>4. CASE drain.cand = c /\ (DrainClaimWrite \/ DrainActiveExists)
  <2>1. Works(c) /\ drain.pc \in EarlyPcs /\ drain'.pc \in {"create", "top"} /\ DrainOwes(c) = 1
    BY <1>1, <1>4, StageNames DEF Works, DrainClaimWrite, DrainActiveExists, DrainAt, DrainRecord,
       DrainOwes
  <2>2. DrainOwes(c)' <= 1
    BY <2>1, StageNames DEF Works, DrainOwes, One
  <2> QED BY <1>1, <2>1, <2>2, SameButDrain
<1>5. CASE drain.cand = c /\ DrainMarkRunning
  <2>1. /\ Works(c) /\ drain.pc \in EarlyPcs /\ drain'.pc = "markState" /\ drain'.cand = c
        /\ DrainOwes(c) = 1
    BY <1>1, <1>5, StageNames DEF Works, DrainMarkRunning, DrainRecord, DrainOwes
  <2>2. ~Waits(c)'
    BY <1>1, <1>5 DEF DrainMarkRunning, SetCandidate, Waits
  <2>3. DrainOwes(c)' <= 1
    BY <2>1, <2>2, StageNames DEF Works, DrainOwes, One
  <2> QED BY <1>1, <2>1, <2>3, SameButDrain
<1>6. CASE drain.cand = c /\ DrainSettle /\ ~UNCHANGED candStatus
  <2>1. drain.pc = "settle" /\ Works(c) /\ drain.pc \in LatePcs
    BY <1>6, StageNames DEF DrainSettle, Works
  <2>2. drain'.pc \in {"top", "pauseLoop", "openPr", "openApproval"}
    BY <1>1, <1>6, PcNames DEF DrainSettle, DrainAt, DrainRecord
  <2>3. ~Works(c)'
    BY <2>2, StageNames DEF Works
  <2>4. Waits(c)' => Requeues
    <3>1. CASE drain.run.status = "cancelled"
      BY <2>1, <3>1 DEF Requeues
    <3>2. CASE drain.run.status # "cancelled"
      BY <1>1, <1>6, <3>2 DEF DrainSettle, SetCandidate, Waits
    <3> QED BY <3>1, <3>2
  <2> QED BY <1>1, <2>1, <2>3, <2>4, LateEnds, SameButDrain
<1> QED BY <1>2, <1>3, <1>4, <1>5, <1>6

LEMMA RetryDrainLoops ==
    ASSUME TypeOK, LoopsInv, SideInv, NEW c \in Candidates, DrainCreate \/ DrainPrepare
    PROVE  RetryCount(c)' + Owes(c)' <= RetryCount(c) + Owes(c)
<1>1. /\ drain \in DrainRecord /\ boot.pc = "up" /\ boot' = boot /\ call' = call
      /\ candStatus' = candStatus /\ LoopsTypeOK
  <2>1. DrainStep
    BY DEF DrainStep
  <2> QED BY <2>1, DrainStepRest DEF TypeOK, world, store, DrainCreate, DrainPrepare
<1>2. Waits(c)' <=> Waits(c)
  BY <1>1 DEF Waits
<1>3. CASE DrainCreate
  <2>1. PICK l \in LoopIds :
             /\ drain.pc = "create" /\ drain'.pc = "readState"
             /\ drain'.cand = drain.cand
             /\ loopStatus[l] = "none"
             /\ loopTask' = [loopTask EXCEPT ![l] = drain.cand]
             /\ loopStatus' = [loopStatus EXCEPT ![l] = "queued"]
    BY <1>3, CreateEffect
  <2>2. Failed(c)' \subseteq Failed(c)
    BY <1>1, <2>1 DEF Failed, LoopsTypeOK, RetryableStatuses
  <2>3. InReview(c)' => InReview(c)
    BY <1>1, <2>1 DEF InReview, LoopsTypeOK
  <2>4. CASE drain.cand = c
    <3>1. DrainOwes(c) = 1 /\ DrainOwes(c)' = 1
      BY <2>1, <2>4, StageNames DEF DrainOwes, Works
    <3>2. RetryCount(c)' <= RetryCount(c) /\ RetryCount(c) \in Nat /\ RetryCount(c)' \in Nat
      BY <2>2, CountKept, CountType, CountPrimed
    <3> QED BY <1>1, <2>3, <3>1, <3>2, DrainCallsKept DEF Owes, One
  <2>5. CASE drain.cand # c
    <3>1. InWork(c)' => InWork(c)
      BY <1>1, <2>1, <2>5 DEF InWork, LoopsTypeOK
    <3>2. LoopsEase(c) /\ DrainEase(c)
      BY <2>1, <2>2, <2>3, <2>5, <3>1 DEF LoopsEase, DrainEase, Works
    <3> QED BY <1>1, <1>2, <3>2, DrainCallsKept, OwesFollows DEF SideInv
  <2> QED BY <2>4, <2>5
<1>4. CASE DrainPrepare
  <2>1. /\ drain.pc = "prepare" /\ drain'.pc = "runner" /\ drain'.cand = drain.cand
        /\ drain'.aborted = drain.aborted
        /\ UpdateLoop(drain.loop, "workspace_preparing")
        /\ loopTask[drain.loop] = drain.cand
    BY <1>4, PrepareEffect, PcNames DEF LoopsInv, OwnLoop
  <2>2. CASE drain.cand # c
    <3>1. LoopsEase(c) /\ DrainEase(c)
      BY <1>1, <2>1, <2>2, UpdateOther DEF DrainEase, Works
    <3> QED BY <1>1, <1>2, <3>1, DrainCallsKept, OwesFollows DEF SideInv
  <2>3. CASE drain.cand = c
    <3>1. Failed(c)' \subseteq Failed(c) /\ (InReview(c)' => InReview(c))
      BY <1>1, <2>1 DEF UpdateLoop, Failed, InReview, LoopsTypeOK, RetryableStatuses
    <3>2. DrainOwes(c)' = DrainOwes(c) /\ DrainOwes(c) \in Int
      BY <1>2, <2>1, <2>3, StageNames DEF DrainOwes, Works, One
    <3>3. RetryCount(c)' <= RetryCount(c) /\ RetryCount(c) \in Nat /\ RetryCount(c)' \in Nat
      BY <3>1, CountKept, CountType, CountPrimed
    <3> QED BY <1>1, <3>1, <3>2, <3>3, DrainCallsKept DEF Owes, One
  <2> QED BY <2>2, <2>3
<1> QED BY <1>3, <1>4

(* A run that is over: a failed one counts where it was owed before. *)
LEMMA RetryRunner ==
    ASSUME TypeOK, LoopsInv, SideInv, NEW c \in Candidates, DrainRunner
    PROVE  RetryCount(c)' + Owes(c)' <= RetryCount(c) + Owes(c)
<1>1. /\ drain \in DrainRecord /\ boot.pc = "up" /\ boot' = boot /\ call' = call
      /\ candStatus' = candStatus /\ LoopsTypeOK
  <2>1. DrainStep
    BY DEF DrainStep
  <2> QED BY <2>1, DrainStepRest DEF TypeOK, world, store, DrainRunner
<1>2. Waits(c)' <=> Waits(c)
  BY <1>1 DEF Waits
<1>3. PICK s \in RunStatuses :
        /\ drain.pc = "runner" /\ drain'.pc = "account" /\ drain'.cand = drain.cand
        /\ drain'.aborted = drain.aborted /\ drain'.run.status = s
        /\ drain.aborted => s = "cancelled"
        /\ UpdateLoop(drain.loop, s)
  BY RunnerEffect
<1>4. /\ drain.loop \in LoopIds /\ loopTask[drain.loop] = drain.cand
      /\ \A l \in LoopIds \ {drain.loop} :
             loopTask[l] = drain.cand => loopStatus[l] \notin ActiveStatuses
  BY <1>3, PcNames DEF LoopsInv, OwnLoop
<1>5. CASE drain.cand # c
  <2>1. LoopsEase(c) /\ DrainEase(c)
    BY <1>1, <1>3, <1>4, <1>5, UpdateOther DEF DrainEase, Works
  <2> QED BY <1>1, <1>2, <2>1, DrainCallsKept, OwesFollows DEF SideInv
<1>6. CASE drain.cand = c
  <2>1. loopTask' = loopTask /\ loopStatus' = [loopStatus EXCEPT ![drain.loop] = s]
    BY <1>3, <1>4 DEF UpdateLoop, ActiveLoops
  <2>2. InReview(c)' => s = "needs_human_review"
    BY <1>1, <1>4, <1>6, <2>1 DEF InReview, LoopsTypeOK, ActiveStatuses
  <2>3. /\ RetryCount(c)' <= RetryCount(c) + One(s \in RetryableStatuses)
        /\ RetryCount(c) \in Nat /\ RetryCount(c)' \in Nat
    <3>1. CASE s \in RetryableStatuses
      <4>1. Failed(c)' \subseteq Failed(c) \union {drain.loop}
        BY <1>1, <2>1 DEF Failed, LoopsTypeOK
      <4> QED BY <3>1, <4>1, CountGrows, CountType, CountPrimed DEF One
    <3>2. CASE s \notin RetryableStatuses
      <4>1. Failed(c)' \subseteq Failed(c)
        BY <1>1, <2>1, <3>2 DEF Failed, LoopsTypeOK
      <4> QED BY <3>2, <4>1, CountKept, CountType, CountPrimed DEF One
    <3> QED BY <3>1, <3>2
  <2>4. Requeuing(c) => s = "cancelled"
    BY <1>3 DEF Requeuing, SideInv, CallSide
  <2>5. Requeues' <=> s = "cancelled"
    BY <1>3 DEF Requeues
  <2>6. DrainOwes(c) = 1 + One(Waits(c) /\ ~drain.aborted)
    BY <1>3, <1>6, StageNames DEF DrainOwes, Works
  <2>7. DrainOwes(c)' = One(Waits(c) \/ s = "cancelled")
    BY <1>1, <1>2, <1>3, <1>6, <2>4, <2>5, StageNames, DrainCallsKept DEF DrainOwes, Works
  <2>8. /\ s \in RetryableStatuses => s \notin {"cancelled", "needs_human_review"}
        /\ "cancelled" # "needs_human_review"
    BY DEF RetryableStatuses
  <2>9. One(Approving(c))' = One(Approving(c)) /\ One(Approving(c)) \in Nat
    BY <1>1, DrainCallsKept DEF One
  <2>10. One(InReview(c))' + DrainOwes(c)' + One(s \in RetryableStatuses) <= DrainOwes(c)
    BY <1>3, <2>2, <2>6, <2>7, <2>8 DEF One
  <2>11. One(InReview(c))' \in Nat /\ One(InReview(c)) \in Nat /\ One(s \in RetryableStatuses) \in Nat
         /\ DrainOwes(c) \in Nat /\ DrainOwes(c)' \in Nat
    BY DEF One, DrainOwes
  <2>12. Owes(c) = One(InReview(c)) + One(Approving(c)) + DrainOwes(c)
         /\ Owes(c)' = One(InReview(c))' + One(Approving(c))' + DrainOwes(c)'
    BY <1>1 DEF Owes
  <2> QED BY <2>3, <2>9, <2>10, <2>11, <2>12
<1> QED BY <1>5, <1>6

LEMMA RetryQuietDrain ==
    ASSUME TypeOK, LoopsInv, SideInv, DrainStep, ~DrainRetryWrite, NEW c \in Candidates
    PROVE  RetryCount(c)' + Owes(c)' <= RetryCount(c) + Owes(c)
<1>1. CASE DrainClaimWrite \/ DrainActiveExists \/ DrainMarkRunning \/ DrainSettle
  BY <1>1, RetryCandidateWrites
<1>2. CASE DrainCreate \/ DrainPrepare
  BY <1>2, RetryDrainLoops
<1>3. CASE DrainRunner
  BY <1>3, RetryRunner
<1>4. CASE ~(DrainClaimWrite \/ DrainActiveExists \/ DrainMarkRunning \/ DrainSettle)
           /\ ~(DrainCreate \/ DrainPrepare) /\ ~DrainRunner
  <2>1. UNCHANGED loops /\ UNCHANGED candStatus
    BY <1>4 DEF DrainStep, store, DrainTop, DrainBudget, DrainGuard, DrainPick, DrainIdle,
       DrainClaim, DrainActiveLoop, DrainReadState, DrainMarkState, DrainAccount,
       DrainAccountWrite, DrainOpenApproval, DrainOpenPr, DrainCreatePr, DrainPause, DrainExit
  <2> QED BY <1>4, <2>1, RetryQuiet
<1> QED BY <1>1, <1>2, <1>3, <1>4

LEMMA LoopTaskKept ==
    ASSUME TypeOK, Next, ~DrainCreate
    PROVE  loopTask' = loopTask
<1>1. CASE DrainPrepare \/ DrainRunner
  BY <1>1, PrepareEffect, RunnerEffect DEF UpdateLoop
<1>2. ASSUME NEW k \in Clients, LoopWrite(k) PROVE loopTask' = loopTask
  BY <1>2 DEF LoopWrite, StopLoopWrite, CancelWrite, ReviewLoop, UpdateLoop
<1>3. CASE RecoverLoops \/ RecoverCurrent
  BY <1>3 DEF RecoverLoops, RecoverCurrent, CloseActiveLoops, UpdateLoop, loops
<1> QED BY <1>1, <1>2, <1>3, OtherStepsLeaveLoops DEF loops

(* The count read before the candidate of a failed run is put back or dismissed *)
(* is still right when it is: no review, stop or cancel adds a try meanwhile.  *)
CountLeft ==
    drain.pc = "retryWrite" =>
        /\ drain.run.status \in RetryableStatuses
        /\ ~drain.run.qualified => RetryCount(drain.cand) < RetryLimit

LEMMA RetryWriteReached ==
    ASSUME TypeOK, LoopsInv, Next, drain'.pc = "retryWrite"
    PROVE  \/ /\ drain.pc = "settle" /\ drain.run.status \in RetryableStatuses
              /\ drain'.run.status = drain.run.status
              /\ drain'.run.qualified = RetriesSpent(drain.cand)
              /\ drain'.cand = drain.cand /\ UNCHANGED loops
           \/ /\ drain.pc = "retryWrite" /\ drain'.run = drain.run /\ drain'.cand = drain.cand
              /\ ~DrainStep
<1> USE DEF At, Goto
<1>1. drain \in DrainRecord
  BY DEF TypeOK
<1>2. CASE DrainSettle
  <2>1. CASE drain' = [drain EXCEPT !.pc = "retryWrite",
                                    !.run.qualified = RetriesSpent(drain.cand)]
    <3>1. drain.run.status \in RetryableStatuses
      BY <1>1, <1>2, <2>1 DEF DrainSettle, DrainAt, DrainRecord, AfterSettle
    <3>2. drain'.run.qualified = RetriesSpent(drain.cand) /\ drain'.run.status = drain.run.status
          /\ drain'.cand = drain.cand
      BY <1>1, <2>1 DEF DrainRecord, RunRecord
    <3> QED BY <1>2, <3>1, <3>2 DEF DrainSettle
  <2>2. CASE \E pc \in {"openPr", "openApproval"} : drain' = [drain EXCEPT !.pc = pc]
    BY <1>1, <2>2 DEF DrainRecord
  <2>3. CASE \E pc \in {"top", "pauseLoop"} : drain' = DrainAt(pc, drain.aborted)
    BY <2>3 DEF DrainAt
  <2> QED BY <1>2, <2>1, <2>2, <2>3, PcNames DEF DrainSettle
<1>3. ~DrainTop /\ ~DrainBudget /\ ~DrainGuard /\ ~DrainPick /\ ~DrainIdle /\ ~DrainClaim
      /\ ~DrainClaimWrite /\ ~DrainActiveLoop /\ ~DrainReadState /\ ~DrainMarkRunning
      /\ ~DrainMarkState /\ ~DrainPrepare /\ ~DrainAccountWrite /\ ~DrainCreate
  BY <1>1 DEF DrainRecord, DrainTop, DrainBudget, DrainGuard, DrainPick, DrainIdle, DrainClaim,
     DrainClaimWrite, DrainActiveLoop, DrainReadState, DrainMarkRunning, DrainMarkState,
     DrainPrepare, DrainAccountWrite, DrainCreate
<1>4. ~DrainActiveExists /\ ~DrainRetryWrite /\ ~DrainOpenApproval /\ ~DrainOpenPr
      /\ ~DrainCreatePr /\ ~DrainPause /\ ~DrainExit
  BY <1>1, PcNames DEF DrainRecord, DrainAt, DrainActiveExists, DrainRetryWrite, DrainOpenApproval,
     DrainOpenPr, DrainCreatePr, DrainPause, DrainExit
<1>5. ~DrainRunner /\ ~DrainAccount
  <2>1. DrainAccount => drain'.pc = "accountWrite"
    BY <1>1 DEF DrainAccount, DrainRecord
  <2> QED BY <2>1, RunnerEffect
<1>6. CASE ~DrainStep
  <2>1. ~DrainError /\ ~Crash
    BY <1>1 DEF DrainError, Crash, DrainAt, DrainRecord
  <2>2. ASSUME NEW k \in Clients, StartKick(k) \/ StopRequest(k)
        PROVE  drain'.pc = drain.pc /\ drain'.run = drain.run /\ drain'.cand = drain.cand
    BY <1>1, <2>2 DEF StartKick, StopRequest, DrainAt, DrainRecord
  <2> QED BY <1>6, <2>1, <2>2, DrainKept
<1> QED BY <1>2, <1>3, <1>4, <1>5, <1>6 DEF DrainStep

LEMMA CountLeftStep ==
    ASSUME TypeOK, LoopsInv, SideInv, CountLeft, Next
    PROVE  CountLeft'
<1> SUFFICES ASSUME drain'.pc = "retryWrite"
             PROVE  /\ drain'.run.status \in RetryableStatuses
                    /\ ~drain'.run.qualified => RetryCount(drain.cand)' < RetryLimit
  BY DEF CountLeft
<1>1. RetryLimit \in Nat
  BY SchedulerAssumption
<1>2. CASE drain.pc = "settle"
  <2>1. /\ drain.run.status \in RetryableStatuses /\ drain'.run.status = drain.run.status
        /\ drain'.run.qualified = RetriesSpent(drain.cand)
        /\ drain'.cand = drain.cand /\ UNCHANGED loops
    BY <1>2, RetryWriteReached
  <2>2. RetryCount(drain.cand)' = RetryCount(drain.cand) /\ RetryCount(drain.cand) \in Nat
    BY <2>1, CountType DEF RetryCount, loops
  <2>3. ~drain'.run.qualified => ~(RetryCount(drain.cand) >= RetryLimit)
    BY <2>1, Zenon DEF RetriesSpent
  <2>4. drain'.run.status \in RetryableStatuses
    BY <2>1
  <2> QED BY <1>1, <2>2, <2>3, <2>4
<1>3. CASE drain.pc = "retryWrite"
  <2> DEFINE c == drain.cand
  <2>1. drain'.run = drain.run /\ drain'.cand = c /\ ~DrainStep
    BY <1>3, RetryWriteReached
  <2>2. /\ drain.run.status \in RetryableStatuses /\ loopTask[drain.loop] = c /\ boot.pc = "up"
        /\ \A l \in LoopIds \ {drain.loop} : loopTask[l] = c => loopStatus[l] \notin ActiveStatuses
    BY <1>3, PcNames DEF CountLeft, LoopsInv, OwnLoop
  <2>3. loopTask' = loopTask
    BY <2>1, LoopTaskKept DEF DrainStep
  <2>4. ASSUME NEW l \in LoopIds, loopTask[l] = c, loopStatus'[l] \in RetryableStatuses,
               loopStatus'[l] # loopStatus[l]
        PROVE  FALSE
    <3>1. PICK k \in Clients : LoopWrite(k) /\ call[k].loop = l
      BY <2>1, <2>2, <2>4, StatusWriters DEF DrainStep
    <3>2. ~StopLoopWrite(k) /\ ~CancelWrite(k)
      BY <2>4, <3>1 DEF StopLoopWrite, CancelWrite, UpdateLoop, TypeOK, LoopsTypeOK,
         RetryableStatuses, ActiveStatuses, DrivenStatuses
    <3>3. loopStatus[l] = "needs_human_review"
      BY <3>1, <3>2 DEF LoopWrite, ReviewLoop, Working, SideInv, CallSide
    <3> QED BY <1>3, <2>2, <2>4, <3>3, PcNames
            DEF SideInv, LoopSide, RetryableStatuses, ActiveStatuses, BeforeRunPcs
  <2>5. Failed(c)' \subseteq Failed(c)
    BY <2>1, <2>3, <2>4 DEF Failed
  <2>6. RetryCount(c)' <= RetryCount(c) /\ RetryCount(c) \in Nat /\ RetryCount(c)' \in Nat
    BY <2>1, <2>5, CountKept, CountType, CountPrimed
  <2> QED BY <1>1, <1>3, <2>1, <2>2, <2>6 DEF CountLeft
<1> QED BY <1>2, <1>3, RetryWriteReached

(* When the drain puts the candidate back its tries are below the limit, and    *)
(* nothing else is pending for it but an approval.                             *)
LEMMA RetryWritten ==
    ASSUME TypeOK, LoopsInv, SideInv, CountLeft, NEW c \in Candidates, DrainRetryWrite,
           RetryCount(c) + Owes(c) <= RetryLimit + Spent
    PROVE  RetryCount(c)' + Owes(c)' <= RetryLimit + Spent
<1>1. /\ boot.pc = "up" /\ boot' = boot /\ call' = call /\ UNCHANGED loops /\ LoopSide
      /\ DrainStep /\ drain.pc = "retryWrite" /\ drain'.cand = None
      /\ drain'.pc \in {"top", "pauseLoop"} /\ c # None
      /\ SetCandidate(drain.cand, IF drain.run.qualified THEN "dismissed" ELSE "queued")
      /\ candStatus \in [Candidates -> CandidateStatuses]
  <2>1. DrainStep
    BY DEF DrainStep
  <2> QED BY <2>1, DrainStepRest, StoreAssumption, PcNames
          DEF TypeOK, world, None, SideInv, DrainRetryWrite, At, DrainAt
<1>2. Spent \in Int /\ RetryLimit \in Nat
  BY SchedulerAssumption DEF Spent, TypeOK, Requests
<1>3. CASE drain.cand # c
  <2>1. RetryCount(c)' + Owes(c)' <= RetryCount(c) + Owes(c)
    BY <1>1, <1>3, OtherCandidates
  <2> QED BY <1>2, <2>1, OwesParts
<1>4. CASE drain.cand = c /\ drain.run.qualified
  <2>1. Works(c) /\ drain.pc \in LatePcs /\ ~Works(c)'
    BY <1>1, <1>4, StageNames DEF Works
  <2>2. ~Waits(c)'
    BY <1>1, <1>4 DEF SetCandidate, Waits
  <2>3. RetryCount(c)' + Owes(c)' <= RetryCount(c) + Owes(c)
    BY <1>1, <2>1, <2>2, LateEnds, SameButDrain
  <2> QED BY <1>2, <2>3, OwesParts
<1>5. CASE drain.cand = c /\ ~drain.run.qualified
  <2>1. RetryCount(c) < RetryLimit /\ drain.run.status \in RetryableStatuses
    BY <1>1, <1>5 DEF CountLeft
  <2>2. RetryCount(c)' = RetryCount(c)
    BY <1>1 DEF RetryCount, loops
  <2>3. ~InReview(c)
    <3>1. /\ drain.pc \in HoldingPcs \ BeforeRunPcs
          /\ \A l \in LoopIds \ {drain.loop} : loopTask[l] = c => loopStatus[l] \notin ActiveStatuses
      BY <1>1, <1>5, StageNames DEF LoopsInv, OwnLoop
    <3>2. loopStatus[drain.loop] # "needs_human_review"
      BY <1>1, <2>1, <3>1 DEF LoopSide, RetryableStatuses
    <3> QED BY <3>1, <3>2 DEF InReview, ActiveStatuses
  <2>4. One(InReview(c))' = 0
    BY <1>1, <2>3 DEF InReview, One, loops
  <2>5. One(Approving(c))' <= Spent
    <3>1. "stop" \in Requests /\ "approve" \in Requests
      BY DEF Requests
    <3>2. /\ quota["stop"] \in Nat /\ Quota["stop"] \in Nat /\ quota["stop"] <= Quota["stop"]
          /\ quota["approve"] \in Nat /\ Quota["approve"] \in Nat
          /\ quota["approve"] <= Quota["approve"] /\ faults.crashes \in Nat
      BY <3>1, SchedulerAssumption DEF TypeOK, SideInv
    <3>3. CASE Approving(c)
      <4>1. quota["approve"] < Quota["approve"]
        BY <3>3 DEF Approving, SideInv, CallSide
      <4> QED BY <1>1, <3>2, <3>3, <4>1, DrainCallsKept DEF One, Spent
    <3>4. CASE ~Approving(c)
      <4>1. One(Approving(c))' = 0
        BY <1>1, <3>4, DrainCallsKept DEF One
      <4> QED BY <3>2, <4>1 DEF Spent
    <3> QED BY <3>3, <3>4
  <2>6. DrainOwes(c)' <= 1
    BY <1>1, StageNames DEF DrainOwes, Works, One
  <2> QED BY <1>1, <1>2, <2>1, <2>2, <2>4, <2>5, <2>6, OwesParts
<1> QED BY <1>3, <1>4, <1>5
-----------------------------------------------------------------------------
(* The steps of a client *)

(* A request that leaves the drain as it is, or starts a new one. *)
LEMMA RequestEase ==
    ASSUME drain' = drain \/ drain'.pc \in {"top", "pauseExit"}, NEW c
    PROVE  DrainEase(c)
  BY StageNames DEF DrainEase, Works, Requeues

LEMMA RetryRequests ==
    ASSUME TypeOK, LoopsInv, SideInv, Next, NEW k \in Clients, NEW c \in Candidates,
           RequestStep(k) \/ ClientStep(k),
           ~StopRequest(k), ~ApproveRequest(k), ~ApproveWrite(k), ~StopCandWrite(k), ~ReviewLoop(k),
           \A j \in Clients : j = k
    PROVE  RetryCount(c)' + Owes(c)' <= RetryCount(c) + Owes(c)
<1>1. boot.pc = "up" /\ boot' = boot /\ LoopSide /\ LoopsTypeOK
      /\ candStatus \in [Candidates -> CandidateStatuses]
  BY RequestRest DEF SideInv, TypeOK
<1>2. drain' = drain \/ drain'.pc \in {"top", "pauseExit"}
  <2>1. CASE StartKick(k)
    BY <2>1 DEF StartKick, DrainAt
  <2>2. CASE ~StartKick(k)
    BY <2>2 DEF RequestStep, ClientStep, store, StartRequest, CancelRequest,
         ApproveRequest, Dismiss, ReviewRequest, StopLoop, StopLoopWrite, StopCand, StopCandWrite,
         CancelWrite, ApproveWrite, ReviewApproval, ReviewLoop, StartWrite, StopWrite
  <2> QED BY <2>1, <2>2
<1>3. Waits(c)' => Waits(c)
  <2>1. CASE Dismiss(k)
    BY <1>1, <2>1 DEF Dismiss, SetCandidate, Waits
  <2>2. CASE ~Dismiss(k)
    <3>1. candStatus' = candStatus
      BY <2>2 DEF RequestStep, ClientStep, store, StartRequest, CancelRequest,
         ReviewRequest, StopLoop, StopLoopWrite, StopCand, StartKick,
         CancelWrite, ReviewApproval, StartWrite, StopWrite
    <3> QED BY <3>1 DEF Waits
  <2> QED BY <2>1, <2>2
<1>4. LoopsEase(c)
  <2>1. CASE StopLoopWrite(k) \/ CancelWrite(k)
    <3>1. UpdateLoop(call[k].loop, "cancelled")
      BY <2>1 DEF StopLoopWrite, CancelWrite
    <3>2. "cancelled" \notin ActiveStatuses /\ "cancelled" \notin RetryableStatuses
      BY DEF ActiveStatuses, DrivenStatuses, RetryableStatuses
    <3> QED BY <1>1, <3>1, <3>2, UpdateEnds DEF LoopsEase
  <2>2. CASE ~StopLoopWrite(k) /\ ~CancelWrite(k)
    <3>1. UNCHANGED loops
      BY <2>2 DEF RequestStep, ClientStep, store, StartRequest, CancelRequest,
         Dismiss, ReviewRequest, StopLoop, StopCand, StartKick,
         ReviewApproval, StartWrite, StopWrite
    <3> QED BY <3>1, KeptEases
  <2> QED BY <2>1, <2>2
<1>5. (Requeuing(c)' => Requeuing(c)) /\ (Approving(c)' => Approving(c))
  BY CallsEase
<1> QED BY <1>1, <1>2, <1>3, <1>4, <1>5, RequestEase, OwesFollows

(* A stop may make a task be tried once more, and so may an approval. *)
LEMMA RetrySent ==
    ASSUME TypeOK, LoopsInv, SideInv, Next, NEW k \in Clients, NEW c \in Candidates,
           StopRequest(k) \/ ApproveRequest(k), \A j \in Clients : j = k
    PROVE  RetryCount(c)' + Owes(c)' <= RetryCount(c) + Owes(c) + 1
<1>1. boot.pc = "up" /\ boot' = boot /\ LoopSide /\ UNCHANGED loops /\ UNCHANGED candStatus
      /\ drain \in DrainRecord /\ call \in [Clients -> CallRecord]
  BY RequestRest DEF SideInv, TypeOK, StopRequest, ApproveRequest, store,
     RequestStep
<1>2. Waits(c)' <=> Waits(c)
  BY <1>1 DEF Waits
<1>3. RetryCount(c)' = RetryCount(c) /\ One(InReview(c))' = One(InReview(c))
      /\ (InWork(c)' <=> InWork(c))
  BY <1>1 DEF RetryCount, InReview, InWork, loops
<1>4. CASE StopRequest(k)
  <2>1. /\ drain'.pc = drain.pc /\ drain'.cand = drain.cand
        /\ drain.aborted => drain'.aborted
    BY <1>1, <1>4 DEF StopRequest, DrainRecord
  <2>2. Works(c)' <=> Works(c)
    BY <2>1 DEF Works
  <2>3. DrainOwes(c)' <= DrainOwes(c) + 1
    <3>1. CASE Works(c) /\ drain.pc \in MidPcs
      BY <1>2, <2>1, <2>2, <3>1, StageNames DEF DrainOwes, One
    <3>2. CASE ~(Works(c) /\ drain.pc \in MidPcs)
      BY <2>1, <2>2, <3>2, StageNames DEF DrainOwes, Works, One
    <3> QED BY <3>1, <3>2
  <2>4. Approving(c)' => Approving(c)
    <3>1. call'[k].pc = "stopLoop"
      BY <1>1, <1>4 DEF StopRequest, NoCall
    <3> QED BY <3>1 DEF Approving
  <2>5. One(Approving(c))' <= One(Approving(c))
    BY <2>4 DEF One
  <2> QED BY <1>1, <1>3, <2>3, <2>5, OwesParts
<1>5. CASE ApproveRequest(k)
  <2>1. Requeuing(c)' => Requeuing(c)
    <3>1. call'[k].pc = "approveWrite"
      BY <1>1, <1>5 DEF ApproveRequest, NoCall
    <3> QED BY <3>1 DEF Requeuing, StopPcs
  <2>2. drain' = drain
    BY <1>5 DEF ApproveRequest
  <2>3. DrainOwes(c)' <= DrainOwes(c)
    BY <1>1, <1>2, <1>3, <2>1, <2>2, RequestEase, DrainOwesFollows
  <2> QED BY <1>1, <1>3, <2>3, OwesParts
<1> QED BY <1>4, <1>5

(* Approved, or put back by a stop: the task was known to be pending. *)
LEMMA RetryPutBack ==
    ASSUME TypeOK, LoopsInv, SideInv, NEW k \in Clients, NEW c \in Candidates,
           ApproveWrite(k) \/ StopCandWrite(k), \A j \in Clients : j = k
    PROVE  RetryCount(c)' + Owes(c)' <= RetryCount(c) + Owes(c)
<1>1. /\ boot.pc = "up" /\ boot' = boot /\ LoopSide /\ UNCHANGED loops /\ drain' = drain
      /\ candStatus \in [Candidates -> CandidateStatuses] /\ call \in [Clients -> CallRecord]
  BY DEF SideInv, TypeOK, ApproveWrite, StopCandWrite, Working, world
<1>2. RetryCount(c)' = RetryCount(c) /\ One(InReview(c))' = One(InReview(c))
      /\ (InWork(c)' <=> InWork(c))
  BY <1>1 DEF RetryCount, InReview, InWork, loops
<1>3. ~Approving(c)' /\ ~Requeuing(c)'
  <2>1. call'[k].pc \in {"none", "stopWrite"}
    BY <1>1 DEF ApproveWrite, StopCandWrite, Finish, Continue, NoCall, CallRecord
  <2> QED BY <2>1 DEF Approving, Requeuing, StopPcs
<1>4. (Works(c)' <=> Works(c)) /\ (Requeues' <=> Requeues)
  BY <1>1 DEF Works, Requeues
<1>5. CASE call[k].cand # c
  <2>1. Waits(c)' <=> Waits(c)
    BY <1>1, <1>5 DEF ApproveWrite, StopCandWrite, SetCandidate, Waits
  <2>2. DrainOwes(c)' <= DrainOwes(c)
    BY <1>1, <1>2, <1>3, <2>1, RequestEase, DrainOwesFollows
  <2> QED BY <1>1, <1>2, <1>3, <2>2, OwesParts DEF One
<1>6. CASE call[k].cand = c /\ ApproveWrite(k)
  <2>1. One(Approving(c)) = 1 /\ One(Approving(c))' = 0
    BY <1>3, <1>6 DEF ApproveWrite, Working, Approving, One
  <2>2. DrainOwes(c)' <= DrainOwes(c) + 1
    BY <1>1, <1>4, StageNames DEF DrainOwes, Works, One
  <2> QED BY <1>1, <1>2, <2>1, <2>2, OwesParts
<1>7. CASE call[k].cand = c /\ StopCandWrite(k)
  <2>1. Requeuing(c) /\ (drain.pc = "off" \/ drain.aborted)
    BY <1>7 DEF StopCandWrite, Working, Requeuing, StopPcs, SideInv, CallSide
  <2>2. DrainOwes(c)' <= DrainOwes(c)
    BY <1>1, <1>4, <2>1, StageNames DEF DrainOwes, Works, One
  <2>3. One(Approving(c))' = 0
    BY <1>3 DEF One
  <2> QED BY <1>1, <1>2, <2>2, <2>3, OwesParts
<1> QED BY <1>5, <1>6, <1>7

(* A review that ends as a try was known to be pending. *)
LEMMA RetryReviewed ==
    ASSUME TypeOK, LoopsInv, SideInv, Next, NEW k \in Clients, NEW c \in Candidates, ReviewLoop(k)
    PROVE  RetryCount(c)' + Owes(c)' <= RetryCount(c) + Owes(c)
<1> DEFINE l == call[k].loop
           v == call[k].verdict
<1>1. /\ boot.pc = "up" /\ boot' = boot /\ LoopSide /\ LoopsTypeOK /\ drain' = drain
      /\ candStatus' = candStatus /\ call \in [Clients -> CallRecord]
      /\ l \in LoopIds /\ loopStatus[l] = "needs_human_review" /\ UpdateLoop(l, v)
  BY DEF SideInv, CallSide, TypeOK, ReviewLoop, Working, world, store
<1>2. v \in Verdicts /\ v \notin ActiveStatuses
  BY <1>1 DEF CallRecord, Verdicts, ActiveStatuses, DrivenStatuses
<1>3. (Requeuing(c)' => Requeuing(c)) /\ (Approving(c)' => Approving(c))
  <2>1. \A j \in Clients : j = k \/ call'[j] = call[j]
    BY <1>1 DEF ReviewLoop, Finish
  <2>2. call'[k].pc = "none"
    BY <1>1 DEF ReviewLoop, Finish, NoCall
  <2> QED BY <2>1, <2>2 DEF Requeuing, Approving, StopPcs
<1>4. Waits(c)' <=> Waits(c)
  BY <1>1 DEF Waits
<1>5. CASE loopTask[l] # c
  <2>1. LoopsEase(c)
    BY <1>1, <1>5, UpdateOther
  <2> QED BY <1>1, <1>3, <1>4, <2>1, RequestEase, OwesFollows
<1>6. CASE loopTask[l] = c
  <2>1. Failed(c)' \subseteq Failed(c) \union {l} /\ (InWork(c)' => InWork(c))
    BY <1>1, <1>2, UpdateEnds
  <2>2. RetryCount(c)' <= RetryCount(c) + 1
    BY <2>1, CountGrows
  <2>3. One(InReview(c)) = 1
    BY <1>1, <1>6 DEF InReview, One
  <2>4. ~InReview(c)'
    BY <1>1, <1>2, <1>6 DEF InReview, UpdateLoop, LoopsTypeOK, LoopsInv, OneActiveLoopPerTask,
       ActiveStatuses
  <2>5. DrainOwes(c)' <= DrainOwes(c)
    BY <1>1, <1>3, <1>4, <2>1, RequestEase, DrainOwesFollows
  <2>6. One(InReview(c))' = 0 /\ One(Approving(c))' <= One(Approving(c))
    BY <1>3, <2>4 DEF One
  <2> QED BY <1>1, <2>2, <2>3, <2>5, <2>6, OwesParts
<1> QED BY <1>5, <1>6
-----------------------------------------------------------------------------
(* Crashes and recovery *)

LEMMA DownParts ==
    ASSUME NEW c
    PROVE  /\ boot.pc # "up" =>
                Owes(c) = One(ActiveLoops(c) # {}) + One(Waits(c) \/ candStatus[c] = "running")
           /\ boot'.pc # "up" =>
                Owes(c)' = One(ActiveLoops(c) # {})' + One(Waits(c) \/ candStatus[c] = "running")'
           /\ One(ActiveLoops(c) # {}) \in 0 .. 1 /\ One(ActiveLoops(c) # {})' \in 0 .. 1
           /\ One(Waits(c) \/ candStatus[c] = "running") \in 0 .. 1
           /\ One(Waits(c) \/ candStatus[c] = "running")' \in 0 .. 1
  BY DEF Owes, One

LEMMA ActiveParts ==
    ASSUME NEW c
    PROVE  ActiveLoops(c) # {} <=> InReview(c) \/ InWork(c)
  BY DEF ActiveLoops, ActiveStatuses, InReview, InWork

(* A crash may make a task be tried once more. *)
LEMMA RetryCrash ==
    ASSUME TypeOK, LoopsInv, SideInv, NEW c \in Candidates, Crash
    PROVE  RetryCount(c)' + Owes(c)' <= RetryCount(c) + Owes(c) + 1
<1>1. UNCHANGED loops /\ candStatus' = candStatus /\ boot'.pc = "down" /\ LoopSide
  BY DEF Crash, store, NoBoot, SideInv
<1>2. /\ RetryCount(c)' = RetryCount(c)
      /\ One(ActiveLoops(c) # {})' = One(ActiveLoops(c) # {})
      /\ One(Waits(c) \/ candStatus[c] = "running")' = One(Waits(c) \/ candStatus[c] = "running")
  BY <1>1 DEF RetryCount, ActiveLoops, Waits, loops
<1>3. CASE boot.pc # "up"
  BY <1>1, <1>2, <1>3, DownParts, OwesParts
<1>4. CASE boot.pc = "up"
  <2>1. One(ActiveLoops(c) # {}) <= One(InReview(c)) + DrainOwes(c)
    <3>1. CASE InReview(c)
      BY <3>1, DownParts, OwesParts DEF One
    <3>2. CASE InWork(c)
      <4>1. ~(Works(c) /\ drain.pc \in LatePcs)
        BY <1>1, <3>2, LateDone
      <4>2. DrainOwes(c) >= 1
        BY <3>2, <4>1, StageNames DEF DrainOwes, Works, One
      <4> QED BY <4>2, DownParts, OwesParts
    <3>3. CASE ~InReview(c) /\ ~InWork(c)
      <4>1. One(ActiveLoops(c) # {}) = 0
        BY <3>3, ActiveParts DEF One
      <4> QED BY <4>1, OwesParts
    <3> QED BY <3>1, <3>2, <3>3
  <2> QED BY <1>1, <1>2, <1>4, <2>1, DownParts, OwesParts
<1> QED BY <1>3, <1>4

(* Loops that recovery fails are tries that were pending. *)
LEMMA LoopsFail ==
    ASSUME TypeOK, LoopsInv, NEW c \in Candidates, boot.pc # "up", boot'.pc # "up",
           candStatus' = candStatus, loopTask' = loopTask,
           \A l \in LoopIds : \/ loopStatus'[l] = loopStatus[l]
                              \/ loopStatus[l] \in ActiveStatuses /\ loopStatus'[l] = "failed"
    PROVE  RetryCount(c)' + Owes(c)' <= RetryCount(c) + Owes(c)
<1>1. One(Waits(c) \/ candStatus[c] = "running")' = One(Waits(c) \/ candStatus[c] = "running")
  BY DEF Waits
<1>2. ActiveLoops(c)' \subseteq ActiveLoops(c)
  BY DEF ActiveLoops
<1>3. CASE ActiveLoops(c)' = ActiveLoops(c)
  <2>1. Failed(c)' \subseteq Failed(c)
    BY <1>3 DEF Failed, ActiveLoops, ActiveStatuses, DrivenStatuses
  <2>2. One(ActiveLoops(c) # {})' = One(ActiveLoops(c) # {})
    BY <1>3
  <2> QED BY <1>1, <2>1, <2>2, CountKept, DownParts, OwesParts
<1>4. CASE ActiveLoops(c)' # ActiveLoops(c)
  <2>1. PICK l \in ActiveLoops(c) : l \notin ActiveLoops(c)'
    BY <1>2, <1>4
  <2>2. \A j \in LoopIds \ {l} : loopTask[j] = c => loopStatus[j] \notin ActiveStatuses
    BY <2>1 DEF ActiveLoops, LoopsInv, OneActiveLoopPerTask
  <2>3. ActiveLoops(c)' = {}
    BY <1>2, <2>1, <2>2 DEF ActiveLoops
  <2>4. Failed(c)' \subseteq Failed(c) \union {l}
    BY <2>2 DEF Failed
  <2>5. One(ActiveLoops(c) # {}) = 1 /\ One(ActiveLoops(c) # {})' = 0
    BY <2>1, <2>3 DEF One
  <2>6. RetryCount(c)' <= RetryCount(c) + 1
    BY <2>4, CountGrows
  <2>7. /\ Owes(c) = 1 + One(Waits(c) \/ candStatus[c] = "running")
        /\ Owes(c)' = One(Waits(c) \/ candStatus[c] = "running")'
    BY <2>5, DownParts
  <2> QED BY <1>1, <2>6, <2>7, DownParts, OwesParts
<1> QED BY <1>3, <1>4

LEMMA RetryBoot ==
    ASSUME TypeOK, LoopsInv, SideInv, NEW c \in Candidates, BootStep
    PROVE  RetryCount(c)' + Owes(c)' <= RetryCount(c) + Owes(c)
<1>1. /\ LoopsTypeOK /\ candStatus \in [Candidates -> CandidateStatuses] /\ boot.pc # "up"
      /\ drain' = drain /\ call' = call
  BY DEF TypeOK, BootStep, Restart, RecoverCandidate, RecoverLoops, RecoverCurrent, RecoverState
<1>2. CASE Restart
  <2>1. /\ RetryCount(c)' = RetryCount(c)
        /\ One(ActiveLoops(c) # {})' = One(ActiveLoops(c) # {})
        /\ One(Waits(c) \/ candStatus[c] = "running")' = One(Waits(c) \/ candStatus[c] = "running")
    BY <1>2 DEF Restart, RetryCount, ActiveLoops, Waits, loops, store
  <2>2. boot'.pc # "up"
    BY <1>2 DEF Restart, NoBoot
  <2> QED BY <1>1, <2>1, <2>2, DownParts, OwesParts
<1>3. CASE RecoverCandidate
  <2>1. /\ RetryCount(c)' = RetryCount(c) /\ boot'.pc # "up"
        /\ One(ActiveLoops(c) # {})' = One(ActiveLoops(c) # {})
    BY <1>3 DEF RecoverCandidate, RetryCount, ActiveLoops, loops
  <2>2. PICK r \in Candidates : candStatus[r] = "running" /\ SetCandidate(r, "queued")
    BY <1>3 DEF RecoverCandidate
  <2>3. (Waits(c) \/ candStatus[c] = "running")' <=> (Waits(c) \/ candStatus[c] = "running")
    BY <1>1, <2>2 DEF SetCandidate, Waits
  <2>4. One(Waits(c) \/ candStatus[c] = "running")' = One(Waits(c) \/ candStatus[c] = "running")
    BY <2>3 DEF One
  <2> QED BY <1>1, <2>1, <2>4, DownParts, OwesParts
<1>4. CASE RecoverLoops \/ RecoverCurrent
  <2>1. /\ boot'.pc # "up" /\ candStatus' = candStatus /\ loopTask' = loopTask
        /\ \A l \in LoopIds : \/ loopStatus'[l] = loopStatus[l]
                              \/ loopStatus[l] \in ActiveStatuses /\ loopStatus'[l] = "failed"
    <3>1. CASE RecoverLoops
      BY <1>1, <3>1 DEF RecoverLoops, TypeOK, CloseActiveLoops, ActiveLoops, store
    <3>2. CASE RecoverCurrent
      BY <1>1, <3>2 DEF RecoverCurrent, TypeOK, UpdateLoop, LoopsTypeOK, loops, store
    <3> QED BY <1>4, <3>1, <3>2
  <2> QED BY <1>1, <2>1, LoopsFail
<1>5. CASE RecoverState
  <2>1. /\ RetryCount(c)' = RetryCount(c) /\ boot'.pc = "up"
        /\ (InReview(c)' <=> InReview(c)) /\ (InWork(c)' <=> InWork(c)) /\ (Waits(c)' <=> Waits(c))
    BY <1>5 DEF RecoverState, RetryCount, InReview, InWork, Waits, loops, NoBoot
  <2>2. drain.pc = "off" /\ \A k \in Clients : call[k].pc = "none"
    BY <1>1 DEF LoopsInv, SideInv, CallSide
  <2>3. ~Approving(c)' /\ ~Requeuing(c)' /\ ~Works(c)'
    BY <1>1, <2>2, StageNames DEF Approving, Requeuing, StopPcs, Works
  <2>4. One(Approving(c))' = 0 /\ DrainOwes(c)' = One(Waits(c) \/ InWork(c))
    BY <2>1, <2>3 DEF DrainOwes, One
  <2>5. ~(InReview(c) /\ InWork(c))
    <3>1. "needs_human_review" \notin DrivenStatuses
          /\ "needs_human_review" \in ActiveStatuses /\ DrivenStatuses \subseteq ActiveStatuses
      BY DEF ActiveStatuses, DrivenStatuses
    <3> QED BY <3>1 DEF InReview, InWork, LoopsInv, OneActiveLoopPerTask
  <2>6. One(InReview(c))' = One(InReview(c))
    BY <2>1 DEF One
  <2>7. One(InReview(c)) + One(Waits(c) \/ InWork(c))
          <= One(ActiveLoops(c) # {}) + One(Waits(c) \/ candStatus[c] = "running")
    BY <2>5, ActiveParts DEF One
  <2> QED BY <1>1, <2>1, <2>4, <2>6, <2>7, DownParts, OwesParts
<1> QED BY <1>2, <1>3, <1>4, <1>5 DEF BootStep

LEMMA RetryNextDay ==
    ASSUME TypeOK, NEW c, NextDay
    PROVE  RetryCount(c)' + Owes(c)' <= RetryCount(c) + Owes(c)
<1>1. UNCHANGED <<loops, candStatus, boot, drain, call>>
  BY DEF NextDay, store
<1>2. RetryCount(c)' = RetryCount(c)
  BY <1>1 DEF RetryCount, loops
<1>3. (InReview(c)' <=> InReview(c)) /\ (Approving(c)' <=> Approving(c))
      /\ (Requeuing(c)' <=> Requeuing(c)) /\ (InWork(c)' <=> InWork(c)) /\ (Works(c)' <=> Works(c))
      /\ (Waits(c)' <=> Waits(c)) /\ ActiveLoops(c)' = ActiveLoops(c) /\ (Requeues' <=> Requeues)
  BY <1>1 DEF InReview, Approving, Requeuing, InWork, Works, Waits, ActiveLoops, loops, Requeues
<1>4. Owes(c)' = Owes(c)
  BY <1>1, <1>3 DEF Owes, DrainOwes, One
<1> QED BY <1>2, <1>4, OwesParts
-----------------------------------------------------------------------------
(* What a task has collected and what is pending for it stays below the limit   *)
(* and what was sent.                                                          *)
RetryInv ==
    /\ SideInv /\ CountLeft
    /\ \A c \in Candidates : RetryCount(c) + Owes(c) <= RetryLimit + Spent

LEMMA RetryStep ==
    ASSUME TypeOK, LoopsInv, RetryInv, Next, \A j, k \in Clients : j = k
    PROVE  RetryInv'
<1> SUFFICES ASSUME NEW c \in Candidates
             PROVE  RetryCount(c)' + Owes(c)' <= RetryLimit + Spent'
  BY SideStep, CountLeftStep DEF RetryInv
<1>1. /\ Spent \in Nat /\ Spent' \in Int /\ Spent <= Spent' /\ SideInv /\ CountLeft
      /\ Crash => Spent + 1 <= Spent'
      /\ \A k \in Clients : StopRequest(k) \/ ApproveRequest(k) => Spent + 1 <= Spent'
      /\ RetryLimit \in Nat /\ RetryCount(c) + Owes(c) <= RetryLimit + Spent
  BY SpentMoves, SchedulerAssumption DEF RetryInv
<1>2. CASE RetryCount(c)' + Owes(c)' <= RetryCount(c) + Owes(c)
  BY <1>1, <1>2, OwesParts
<1>3. CASE DrainRetryWrite
  <2>1. RetryCount(c)' + Owes(c)' <= RetryLimit + Spent
    BY <1>1, <1>3, RetryWritten
  <2> QED BY <1>1, <2>1, OwesParts
<1>4. CASE DrainStep /\ ~DrainRetryWrite
  BY <1>1, <1>2, <1>4, RetryQuietDrain
<1>5. CASE DrainError
  <2>1. /\ boot.pc = "up" /\ boot' = boot /\ UNCHANGED loops /\ candStatus' = candStatus
        /\ call' = call /\ drain'.pc = "pauseExit" /\ LoopSide
    BY <1>1, <1>5 DEF DrainError, Goto, TypeOK, DrainRecord, store, SideInv
  <2>2. Waits(c)' => Waits(c)
    BY <2>1 DEF Waits
  <2> QED BY <1>2, <2>1, <2>2, KeptEases, DrainCallsKept, RequestEase, OwesFollows
<1>6. CASE Crash
  <2>1. RetryCount(c)' + Owes(c)' <= RetryCount(c) + Owes(c) + 1
    BY <1>1, <1>6, RetryCrash
  <2> QED BY <1>1, <1>6, <2>1, OwesParts
<1>7. CASE BootStep \/ NextDay
  BY <1>1, <1>2, <1>7, RetryBoot, RetryNextDay
<1>8. ASSUME NEW k \in Clients, RequestStep(k) \/ ClientStep(k)
      PROVE  RetryCount(c)' + Owes(c)' <= RetryLimit + Spent'
  <2>1. CASE StopRequest(k) \/ ApproveRequest(k)
    <3>1. RetryCount(c)' + Owes(c)' <= RetryCount(c) + Owes(c) + 1
      BY <1>1, <2>1, RetrySent
    <3> QED BY <1>1, <2>1, <3>1, OwesParts
  <2>2. CASE ApproveWrite(k) \/ StopCandWrite(k)
    BY <1>1, <1>2, <2>2, RetryPutBack
  <2>3. CASE ReviewLoop(k)
    BY <1>1, <1>2, <2>3, RetryReviewed
  <2>4. CASE ~StopRequest(k) /\ ~ApproveRequest(k) /\ ~ApproveWrite(k) /\ ~StopCandWrite(k)
             /\ ~ReviewLoop(k)
    BY <1>1, <1>2, <1>8, <2>4, RetryRequests
  <2> QED BY <2>1, <2>2, <2>3, <2>4
<1> QED BY <1>3, <1>4, <1>5, <1>6, <1>7, <1>8 DEF Next

LEMMA RetryInit ==
    ASSUME Init
    PROVE  RetryInv
<1>1. Quota["stop"] \in Nat /\ Quota["approve"] \in Nat /\ RetryLimit \in Nat \ {0}
  BY SchedulerAssumption DEF Requests
<1>2. /\ drain.pc = "off" /\ boot.pc = "up" /\ Spent = 0 /\ \A k \in Clients : call[k].pc = "none"
      /\ quota = Quota /\ \A l \in LoopIds : loopStatus[l] = "none"
  BY <1>1 DEF Init, DrainAt, NoBoot, NoCall, Spent, LoopsInit
<1>3. LoopSide /\ CountLeft
  BY <1>2, PcNames DEF LoopSide, CountLeft, BeforeRunPcs
<1>4. \A k \in Clients : CallSide(k)
  BY <1>2 DEF CallSide, StopPcs
<1>5. SideInv
  BY <1>1, <1>2, <1>3, <1>4 DEF SideInv
<1>6. ASSUME NEW c \in Candidates PROVE RetryCount(c) + Owes(c) <= RetryLimit + Spent
  <2>1. Failed(c) = {} /\ ~InReview(c)
    BY <1>2 DEF Failed, InReview, RetryableStatuses
  <2>2. RetryCount(c) = 0
    BY <2>1, CountType, FS_EmptySet
  <2>3. ~Approving(c) /\ ~Works(c)
    BY <1>2, StageNames DEF Approving, Works
  <2>4. One(InReview(c)) = 0 /\ One(Approving(c)) = 0 /\ DrainOwes(c) <= 1
    BY <2>1, <2>3 DEF DrainOwes, One
  <2> QED BY <1>1, <1>2, <2>2, <2>4, OwesParts
<1> QED BY <1>3, <1>5, <1>6 DEF RetryInv

(* No endless retry: a task collects at most RetryLimit failed loops, plus one *)
(* for each crash, each stop and each approval, whatever its runs report,      *)
(* whatever throws, and wherever the requests interleave with the drain - when *)
(* they come one at a time.  The hypothesis is needed: of two overlapping      *)
(* stops the later one can put a candidate back while the next drain is        *)
(* already running it.                                                         *)
THEOREM RetryBound ==
    ASSUME \A j, k \in Clients : j = k
    PROVE  Spec => []RetriesBounded
<1> DEFINE IInv == TypeOK /\ LoopsInv /\ RetryInv
<1>1. Init => IInv
  BY InitTypeOK, LoopsInvInit, RetryInit
<1>2. IInv /\ [Next]_vars => IInv'
  <2>1. IInv /\ UNCHANGED vars => RetryInv'
    <3> SUFFICES ASSUME IInv, UNCHANGED vars PROVE RetryInv'
      OBVIOUS
    <3>1. SideInv' /\ CountLeft' /\ Spent' = Spent
      BY DEF vars, store, world, loops, RetryInv, SideInv, LoopSide, CallSide, CountLeft, Spent,
         RetryCount
    <3>2. ASSUME NEW c \in Candidates PROVE RetryCount(c)' + Owes(c)' <= RetryLimit + Spent
      <4>1. RetryCount(c)' = RetryCount(c) /\ Owes(c)' = Owes(c)
        BY DEF vars, store, world, loops, RetryCount, Owes, DrainOwes, InReview, Approving,
           Requeuing, InWork, Works, Waits, ActiveLoops, Requeues
      <4> QED BY <4>1 DEF RetryInv
    <3> QED BY <3>1, <3>2 DEF RetryInv
  <2>2. IInv /\ Next => RetryInv'
    BY RetryStep
  <2> QED BY <2>1, <2>2, TypeStep, LoopsInvStep
<1>3. IInv => RetriesBounded
  <2> SUFFICES ASSUME IInv, NEW c \in Candidates
               PROVE  RetryCount(c) <= RetryLimit + faults.crashes + (Quota["stop"] - quota["stop"])
                                         + (Quota["approve"] - quota["approve"])
    BY DEF RetriesBounded
  <2>1. "stop" \in Requests /\ "approve" \in Requests
    BY DEF Requests
  <2>2. /\ RetryLimit \in Nat /\ Quota["stop"] \in Nat /\ Quota["approve"] \in Nat
        /\ quota["stop"] \in Nat /\ quota["approve"] \in Nat /\ faults.crashes \in Nat
    BY <2>1, SchedulerAssumption DEF TypeOK
  <2>3. RetryCount(c) <= RetryLimit + Spent
    BY <2>2, OwesParts DEF RetryInv, Spent
  <2> QED BY <2>2, <2>3, OwesParts DEF Spent
<1> QED BY <1>1, <1>2, <1>3, PTL DEF Spec
=============================================================================
