------------------------ MODULE LoopScheduler_proofs ------------------------
(***************************************************************************)
(* Proofs about LoopScheduler for every set of candidates and clients,     *)
(* every bound and every guardrail limit.                                  *)
(***************************************************************************)
EXTENDS LoopScheduler, TLAPS



(* The values the drain and the requests copy into records have the right type. *)
LEMMA NewDayType ==
    ASSUME NEW s \in OrchRecord, NEW day \in Nat
    PROVE  [s EXCEPT !.day = day, !.started = 0, !.tokens = 0] \in OrchRecord
  BY DEF OrchRecord

LEMMA NormalizedType ==
    ASSUME today \in Nat, NEW s \in OrchRecord
    PROVE  Normalized(s) \in OrchRecord
  BY NewDayType DEF Normalized

(* Moving the drain, with or without a new snapshot of the state. *)
LEMMA DrainMoveType ==
    ASSUME NEW d \in DrainRecord, NEW pc \in DrainPcs, NEW s \in OrchRecord
    PROVE  /\ [d EXCEPT !.pc = pc] \in DrainRecord
           /\ [d EXCEPT !.pc = pc, !.snap = s] \in DrainRecord
  BY DEF DrainRecord

LEMMA StartPcs ==
    /\ {"top", "budget", "guard", "pick", "idle", "claim", "claimWrite", "create"} \subseteq DrainPcs
    /\ {"activeExists", "readState", "markRunning", "markState", "prepare"} \subseteq DrainPcs
    /\ {"runner", "account", "accountWrite", "settle", "retryWrite"} \subseteq DrainPcs
    /\ {"openApproval", "openPr", "createPr", "pauseLoop", "pauseExit", "exit", "off"} \subseteq DrainPcs
  BY DEF DrainPcs

LEMMA DrainAtType ==
    ASSUME StoreAssumption, NEW pc \in DrainPcs, NEW aborted \in BOOLEAN
    PROVE  DrainAt(pc, aborted) \in DrainRecord
  BY DEF DrainAt, DrainRecord, NoRun, RunRecord, RunStatuses, InitOrch, OrchRecord, OrchStatuses

LEMMA NoCallType == StoreAssumption => NoCall \in CallRecord
  BY DEF NoCall, CallRecord, CallPcs, Verdicts, InitOrch, OrchRecord, OrchStatuses

LEMMA InitTypeOK == Init => TypeOK
<1> SUFFICES ASSUME Init PROVE TypeOK
  OBVIOUS
<1> USE StoreAssumption, SchedulerAssumption DEF Init
<1>1. LoopsTypeOK
  BY DEF LoopsInit, LoopsTypeOK, LoopStatuses
<1>2. candStatus \in [Candidates -> CandidateStatuses]
  BY DEF CandidateStatuses
<1>3. /\ approval \in [LoopIds -> {"none", "pending", "decided"}]
      /\ prStatus \in [LoopIds -> {"none", "creating", "draft_created", "create_failed"}]
  OBVIOUS
<1>4. orch \in OrchRecord /\ today \in 0 .. MaxDay
  BY DEF InitOrch, OrchRecord, OrchStatuses
<1>5. boot \in [pc : BootPcs, cand : Candidates \union {None}, recovered : BOOLEAN]
  BY DEF NoBoot, BootPcs
<1>6. drain \in DrainRecord
  BY DrainAtType DEF DrainPcs
<1>7. call \in [Clients -> CallRecord]
  BY NoCallType
<1>8. /\ quota \in [Requests -> Nat]
      /\ faults \in [crashes : Nat, errors : Nat]
      /\ hist \in HistRecord
  BY DEF HistRecord
<1> QED BY <1>1, <1>2, <1>3, <1>4, <1>5, <1>6, <1>7, <1>8 DEF TypeOK

LEMMA DrainCandType ==
    ASSUME NEW d \in DrainRecord, NEW pc \in DrainPcs, NEW c \in Candidates \union {None}
    PROVE  [d EXCEPT !.pc = pc, !.cand = c] \in DrainRecord
  BY DEF DrainRecord

LEMMA DrainLoopType ==
    ASSUME NEW d \in DrainRecord, NEW pc \in DrainPcs, NEW l \in LoopIds \union {None}
    PROVE  [d EXCEPT !.pc = pc, !.loop = l] \in DrainRecord
  BY DEF DrainRecord

LEMMA DrainRunType ==
    ASSUME NEW d \in DrainRecord, NEW pc \in DrainPcs, NEW r \in RunRecord, NEW s \in OrchRecord
    PROVE  /\ [d EXCEPT !.pc = pc, !.run = r] \in DrainRecord
           /\ [d EXCEPT !.pc = pc, !.snap = s, !.run = r] \in DrainRecord
  BY DEF DrainRecord

LEMMA RunStatusType ==
    ASSUME NEW r \in RunRecord, NEW status \in RunStatuses
    PROVE  [r EXCEPT !.status = status] \in RunRecord
  BY DEF RunRecord

LEMMA RunFlagType ==
    ASSUME NEW r \in RunRecord, NEW q \in BOOLEAN
    PROVE  [r EXCEPT !.qualified = q] \in RunRecord
  BY DEF RunRecord

(* What the update of a loop, of a candidate and of the current row returns. *)
LEMMA UpdateLoopType ==
    ASSUME LoopsTypeOK, NEW l, NEW status \in LoopStatuses, UpdateLoop(l, status)
    PROVE  LoopsTypeOK'
  BY DEF LoopsTypeOK, UpdateLoop

LEMMA SetCandidateType ==
    ASSUME candStatus \in [Candidates -> CandidateStatuses], NEW c,
           NEW status \in CandidateStatuses, SetCandidate(c, status)
    PROVE  candStatus' \in [Candidates -> CandidateStatuses]
  BY DEF SetCandidate

LEMMA StatusNames ==
    /\ RunStatuses \subseteq LoopStatuses
    /\ Verdicts \subseteq LoopStatuses
    /\ {"queued", "workspace_preparing", "failed", "cancelled"} \subseteq LoopStatuses
    /\ {"approved", "queued", "running", "processed", "dismissed"} \subseteq CandidateStatuses
  BY DEF RunStatuses, LoopStatuses, ActiveStatuses, DrivenStatuses, TerminalStatuses,
         Verdicts, CandidateStatuses

LEMMA CurrentRowTypes ==
    ASSUME NEW s \in OrchRecord, NEW status \in OrchStatuses, NEW n \in Nat, NEW m \in Nat
    PROVE  /\ [s EXCEPT !.cand = None, !.loop = None] \in OrchRecord
           /\ [s EXCEPT !.status = status, !.cand = None, !.loop = None] \in OrchRecord
           /\ [s EXCEPT !.tokens = n, !.failures = m] \in OrchRecord
           /\ [s EXCEPT !.tokens = n, !.failures = m, !.cand = None, !.loop = None] \in OrchRecord
  BY DEF OrchRecord

LEMMA CountersTypes ==
    ASSUME NEW s \in OrchRecord, NEW t \in OrchRecord
    PROVE  /\ [s EXCEPT !.day = t.day, !.started = t.started, !.tokens = t.tokens] \in OrchRecord
           /\ [s EXCEPT !.status = "running", !.mode = t.mode, !.day = t.day,
                        !.started = t.started, !.tokens = t.tokens] \in OrchRecord
  BY DEF OrchRecord, OrchStatuses

LEMMA PickedRowType ==
    ASSUME NEW s \in OrchRecord, NEW n \in Nat, NEW day \in Nat, NEW m \in Nat,
           NEW c \in Candidates \union {None}, NEW l \in LoopIds \union {None}
    PROVE  [s EXCEPT !.cand = c, !.loop = l, !.started = n,
                     !.day = day, !.tokens = m] \in OrchRecord
  BY DEF OrchRecord

LEMMA BegunType ==
    ASSUME NEW h \in HistRecord, NEW begun \in [0 .. MaxDay -> Nat]
    PROVE  [h EXCEPT !.startedOn = begun] \in HistRecord
  BY DEF HistRecord
-----------------------------------------------------------------------------
(* The steps of the drain keep every variable in its type. *)

LEMMA DrainStepType == TypeOK /\ DrainStep => TypeOK'
<1> SUFFICES ASSUME TypeOK, DrainStep PROVE TypeOK'
  OBVIOUS
<1> USE DEF LoopsTypeOK, loops, store, world
<1>1. /\ today \in Nat /\ orch \in OrchRecord
      /\ drain \in DrainRecord /\ drain.snap \in OrchRecord /\ drain.run \in RunRecord
      /\ drain.aborted \in BOOLEAN
      /\ drain.cand \in Candidates \union {None} /\ drain.loop \in LoopIds \union {None}
      /\ candStatus \in [Candidates -> CandidateStatuses]
  BY SchedulerAssumption DEF TypeOK, DrainRecord
<1>2. CASE DrainTop
  <2>1. drain' \in DrainRecord
    BY <1>1, <1>2, DrainMoveType, StartPcs DEF DrainTop
  <2> QED BY <2>1, <1>2 DEF DrainTop, TypeOK
<1>3. CASE DrainBudget
  <2>1. Normalized(drain.snap) \in OrchRecord
    BY <1>1, NormalizedType
  <2>2. drain' \in DrainRecord
    BY <1>1, <1>3, <2>1, DrainMoveType, StartPcs DEF DrainBudget
  <2>3. orch' \in OrchRecord
    BY <1>1, <1>3, <2>1, CountersTypes DEF DrainBudget
  <2> QED BY <2>2, <2>3, <1>3 DEF DrainBudget, TypeOK
<1>4. CASE DrainGuard
  <2>1. drain' \in DrainRecord
    BY <1>1, <1>4, DrainMoveType, StartPcs DEF DrainGuard, Goto
  <2> QED BY <2>1, <1>4 DEF DrainGuard, TypeOK
<1>5. CASE DrainPick
  <2>1. drain' \in DrainRecord
    <3>1. CASE drain' = [drain EXCEPT !.pc = "idle"]
      BY <1>1, <3>1, DrainMoveType, StartPcs
    <3>2. ASSUME NEW c \in Candidates, drain' = [drain EXCEPT !.pc = "claim", !.cand = c]
          PROVE  drain' \in DrainRecord
      <4>1. c \in Candidates \union {None} /\ "claim" \in DrainPcs
        BY StartPcs
      <4> QED BY <1>1, <3>2, <4>1, DrainCandType
    <3> QED BY <1>5, <3>1, <3>2 DEF DrainPick, Goto
  <2> QED BY <2>1, <1>5 DEF DrainPick, TypeOK
<1>6. CASE DrainIdle
  <2>1. drain' \in DrainRecord
    BY <1>1, <1>6, DrainMoveType, StartPcs DEF DrainIdle, Goto
  <2>2. orch' \in OrchRecord
    BY <1>1, <1>6, CurrentRowTypes DEF DrainIdle, OrchStatuses
  <2> QED BY <2>1, <2>2, <1>6 DEF DrainIdle, TypeOK
<1>7. CASE DrainClaim
  <2>1. drain' \in DrainRecord
    BY <1>1, <1>7, DrainMoveType, StartPcs DEF DrainClaim, Goto
  <2> QED BY <2>1, <1>7 DEF DrainClaim, TypeOK
<1>8. CASE DrainClaimWrite
  <2>1. drain' \in DrainRecord
    BY <1>1, <1>8, DrainMoveType, StartPcs DEF DrainClaimWrite, Goto
  <2>2. candStatus' \in [Candidates -> CandidateStatuses]
    BY <1>1, <1>8, SetCandidateType, StatusNames DEF DrainClaimWrite
  <2> QED BY <2>1, <2>2, <1>8 DEF DrainClaimWrite, TypeOK
<1>9. CASE DrainCreate
  <2>1. PICK l \in LoopIds : CreateLoop(l, drain.cand) /\
                             drain' = [drain EXCEPT !.pc = "readState", !.loop = l]
    BY <1>9 DEF DrainCreate
  <2>2. drain' \in DrainRecord
    BY <1>1, <2>1, DrainLoopType, StartPcs
  <2>3. LoopsTypeOK'
    BY <1>1, <2>1, StatusNames DEF CreateLoop, TypeOK
  <2> QED BY <2>2, <2>3, <1>9 DEF DrainCreate, TypeOK
<1>10. CASE DrainActiveLoop
  <2>1. drain' \in DrainRecord
    BY <1>1, <1>10, DrainMoveType, StartPcs DEF DrainActiveLoop, Goto
  <2> QED BY <2>1, <1>10 DEF DrainActiveLoop, TypeOK
<1>11. CASE DrainActiveExists
  <2>1. drain' \in DrainRecord
    BY <1>1, <1>11, StoreAssumption, DrainAtType, StartPcs DEF DrainActiveExists
  <2>2. candStatus' \in [Candidates -> CandidateStatuses]
    BY <1>1, <1>11, SetCandidateType, StatusNames DEF DrainActiveExists
  <2> QED BY <2>1, <2>2, <1>11 DEF DrainActiveExists, TypeOK
<1>12. CASE DrainReadState
  <2>1. drain' \in DrainRecord
    BY <1>1, <1>12, NormalizedType, DrainMoveType, StartPcs DEF DrainReadState
  <2> QED BY <2>1, <1>12 DEF DrainReadState, TypeOK
<1>13. CASE DrainMarkRunning
  <2>1. drain' \in DrainRecord
    BY <1>1, <1>13, DrainMoveType, StartPcs DEF DrainMarkRunning, Goto
  <2>2. candStatus' \in [Candidates -> CandidateStatuses]
    BY <1>1, <1>13, SetCandidateType, StatusNames DEF DrainMarkRunning
  <2> QED BY <2>1, <2>2, <1>13 DEF DrainMarkRunning, TypeOK
<1>14. CASE DrainMarkState
  <2>1. drain' \in DrainRecord
    BY <1>1, <1>14, DrainMoveType, StartPcs DEF DrainMarkState, Goto
  <2>2. orch' \in OrchRecord
    <3>1. /\ drain.snap.started + 1 \in Nat /\ drain.snap.day \in Nat
          /\ drain.snap.tokens \in Nat
      BY <1>1 DEF OrchRecord
    <3> QED BY <1>1, <1>14, <3>1, PickedRowType DEF DrainMarkState
  <2>3. hist' \in HistRecord
    <3> DEFINE day == drain.snap.day
               startedOn == [hist.startedOn EXCEPT ![day] = @ + 1]
    <3>1. hist.startedOn \in [0 .. MaxDay -> Nat]
      BY DEF TypeOK, HistRecord
    <3>2. startedOn \in [0 .. MaxDay -> Nat]
      <4>1. CASE day \in 0 .. MaxDay
        <5>1. ASSUME NEW f \in [0 .. MaxDay -> Nat], NEW d \in 0 .. MaxDay
              PROVE  f[d] + 1 \in Nat
          OBVIOUS
        <5> QED BY <3>1, <4>1, <5>1
      <4>2. CASE day \notin 0 .. MaxDay
        BY <3>1, <4>2
      <4> QED BY <4>1, <4>2
    <3>3. hist' = [hist EXCEPT !.startedOn = startedOn]
      BY <1>14 DEF DrainMarkState, TypeOK, HistRecord
    <3>4. hist \in HistRecord
      BY DEF TypeOK
    <3> HIDE DEF startedOn
    <3> QED BY <3>2, <3>3, <3>4, BegunType
  <2> QED BY <2>1, <2>2, <2>3, <1>14 DEF DrainMarkState, TypeOK
<1>15. CASE DrainPrepare
  <2>1. drain' \in DrainRecord
    BY <1>1, <1>15, DrainMoveType, StartPcs DEF DrainPrepare, Goto
  <2>2. LoopsTypeOK'
    BY <1>15, UpdateLoopType, StatusNames DEF DrainPrepare, TypeOK
  <2> QED BY <2>1, <2>2, <1>15 DEF DrainPrepare, TypeOK
<1>16. CASE DrainRunner
  <2>1. PICK outcome \in RunOutcomes :
          LET run == IF drain.aborted THEN [outcome EXCEPT !.status = "cancelled"]
                     ELSE outcome
          IN /\ UpdateLoop(drain.loop, run.status)
             /\ drain' = [drain EXCEPT !.pc = "account", !.run = run]
             /\ hist' = IF run.status = "cancelled"
                        THEN [hist EXCEPT !.cancelled = @ \union {drain.loop}] ELSE hist
    BY <1>16 DEF DrainRunner
  <2> DEFINE run == IF drain.aborted THEN [outcome EXCEPT !.status = "cancelled"]
                    ELSE outcome
  <2>2. run \in RunRecord /\ run.status \in LoopStatuses
    <3>1. outcome \in RunRecord
      <4>1. TokenUsage \subseteq Nat /\ TokenUsage \union {0} \subseteq Nat
        BY SchedulerAssumption
      <4>2. outcome \in [status : RunStatuses, qualified : BOOLEAN, tokens : TokenUsage]
            \/ outcome \in [status : RunStatuses, qualified : BOOLEAN, tokens : TokenUsage \union {0}]
        BY DEF RunOutcomes, RunStatuses
      <4> QED BY <4>1, <4>2 DEF RunRecord
    <3>2. "cancelled" \in RunStatuses
      BY DEF RunStatuses
    <3>3. run \in RunRecord
      BY <3>1, <3>2, RunStatusType
    <3> QED BY <3>3, StatusNames DEF RunRecord
  <2>3. drain' \in DrainRecord
    BY <1>1, <2>1, <2>2, DrainRunType, StartPcs
  <2>4. LoopsTypeOK'
    BY <2>1, <2>2, UpdateLoopType DEF TypeOK
  <2>5. hist' \in HistRecord
    BY <1>1, <2>1 DEF TypeOK, HistRecord
  <2> QED BY <2>3, <2>4, <2>5, <1>16 DEF DrainRunner, TypeOK
<1>17. CASE DrainAccount
  <2>1. PICK failed : drain' = [drain EXCEPT
                      !.pc = "accountWrite",
                      !.snap = [orch EXCEPT !.tokens = @ + drain.run.tokens,
                                            !.failures = IF failed THEN @ + 1 ELSE 0],
                      !.run.status = IF drain.aborted THEN "cancelled" ELSE @]
    BY <1>17 DEF DrainAccount
  <2> DEFINE snap == [orch EXCEPT !.tokens = @ + drain.run.tokens,
                                  !.failures = IF failed THEN @ + 1 ELSE 0]
             run == [drain.run EXCEPT !.status = IF drain.aborted THEN "cancelled" ELSE @]
  <2>2. snap \in OrchRecord
    <3>1. orch.tokens + drain.run.tokens \in Nat /\ orch.failures + 1 \in Nat
      BY <1>1 DEF OrchRecord, RunRecord
    <3> QED BY <1>1, <3>1, CurrentRowTypes DEF OrchStatuses
  <2>3. run \in RunRecord
    BY <1>1, RunStatusType DEF RunStatuses, RunRecord
  <2>4. drain' = [drain EXCEPT !.pc = "accountWrite", !.snap = snap, !.run = run]
    BY <1>1, <2>1 DEF DrainRecord
  <2>5. drain' \in DrainRecord
    BY <1>1, <2>2, <2>3, <2>4, DrainRunType, StartPcs
  <2> QED BY <2>5, <1>17 DEF DrainAccount, TypeOK
<1>18. CASE DrainAccountWrite
  <2>1. drain' \in DrainRecord
    BY <1>1, <1>18, DrainMoveType, StartPcs DEF DrainAccountWrite, Goto
  <2>2. drain.snap.tokens \in Nat /\ drain.snap.failures \in Nat
    BY <1>1 DEF OrchRecord
  <2>3. orch' \in OrchRecord
    BY <1>1, <1>18, <2>2, CurrentRowTypes DEF DrainAccountWrite, OrchStatuses
  <2> QED BY <2>1, <2>3, <1>18 DEF DrainAccountWrite, TypeOK
<1>19. CASE DrainSettle
  <2>1. candStatus' \in [Candidates -> CandidateStatuses]
    BY <1>1, <1>19, SetCandidateType, StatusNames DEF DrainSettle
  <2>2. AfterSettle \in DrainPcs
    BY StartPcs DEF AfterSettle
  <2>3. CASE UNCHANGED candStatus /\ drain' = [drain EXCEPT !.pc = "retryWrite",
                 !.run.qualified = RetriesSpent(drain.cand)]
    <3> DEFINE spent == RetriesSpent(drain.cand)
               run == [drain.run EXCEPT !.qualified = spent]
    <3>1. spent \in BOOLEAN
      BY DEF RetriesSpent
    <3>2. run \in RunRecord
      <4> HIDE DEF spent
      <4> QED BY <1>1, <3>1, RunFlagType
    <3>3. drain' = [drain EXCEPT !.pc = "retryWrite", !.run = run]
      BY <1>1, <2>3 DEF DrainRecord
    <3>4. drain' \in DrainRecord
      BY <1>1, <3>2, <3>3, DrainRunType, StartPcs
    <3> QED BY <2>1, <3>4, <1>19 DEF DrainSettle, TypeOK
  <2>4. CASE \/ drain' = DrainAt("top", drain.aborted)
             \/ drain' = DrainAt(AfterSettle, drain.aborted)
             \/ \E pc \in {"openPr", "openApproval"} : drain' = [drain EXCEPT !.pc = pc]
    <3>1. drain' \in DrainRecord
      BY <1>1, <2>2, <2>4, DrainMoveType, DrainAtType, StoreAssumption, StartPcs, ZenonT(30)
    <3> QED BY <2>1, <3>1, <1>19 DEF DrainSettle, TypeOK
  <2> QED BY <1>19, <2>3, <2>4 DEF DrainSettle, Goto
<1>20. CASE DrainRetryWrite
  <2>1. AfterSettle \in DrainPcs
    BY StartPcs DEF AfterSettle
  <2>2. drain' \in DrainRecord
    BY <1>1, <1>20, <2>1, DrainAtType, StoreAssumption DEF DrainRetryWrite
  <2>3. candStatus' \in [Candidates -> CandidateStatuses]
    BY <1>1, <1>20, SetCandidateType, StatusNames DEF DrainRetryWrite
  <2> QED BY <2>2, <2>3, <1>20 DEF DrainRetryWrite, TypeOK
<1>21. CASE DrainOpenApproval
  <2>1. AfterSettle \in DrainPcs
    BY StartPcs DEF AfterSettle
  <2>2. drain' \in DrainRecord
    BY <1>1, <1>21, <2>1, DrainAtType, StoreAssumption DEF DrainOpenApproval
  <2> QED BY <2>2, <1>21 DEF DrainOpenApproval, TypeOK
<1>22. CASE DrainOpenPr
  <2>1. AfterSettle \in DrainPcs
    BY StartPcs DEF AfterSettle
  <2>2. drain' \in DrainRecord
    BY <1>1, <1>22, <2>1, DrainAtType, DrainMoveType, StoreAssumption, StartPcs, ZenonT(30)
    DEF DrainOpenPr, Goto
  <2> QED BY <2>2, <1>22 DEF DrainOpenPr, TypeOK
<1>23. CASE DrainCreatePr
  <2>1. AfterSettle \in DrainPcs
    BY StartPcs DEF AfterSettle
  <2>2. drain' \in DrainRecord
    BY <1>1, <1>23, <2>1, DrainAtType, StoreAssumption DEF DrainCreatePr
  <2>3. prStatus' \in [LoopIds -> {"none", "creating", "draft_created", "create_failed"}]
    BY <1>23 DEF DrainCreatePr, TypeOK
  <2> QED BY <2>2, <2>3, <1>23 DEF DrainCreatePr, TypeOK
<1>24. CASE DrainPause
  <2>1. drain' \in DrainRecord
    BY <1>1, <1>24, DrainAtType, StoreAssumption, StartPcs DEF DrainPause
  <2>2. orch' \in OrchRecord
    BY <1>1, <1>24, CurrentRowTypes DEF DrainPause, OrchStatuses
  <2> QED BY <2>1, <2>2, <1>24 DEF DrainPause, TypeOK
<1>25. CASE DrainExit
  <2>1. drain' \in DrainRecord
    BY <1>1, <1>25, DrainAtType, StoreAssumption, StartPcs DEF DrainExit
  <2> QED BY <2>1, <1>25 DEF DrainExit, TypeOK
<1> QED
  BY <1>2, <1>3, <1>4, <1>5, <1>6, <1>7, <1>8, <1>9, <1>10, <1>11, <1>12, <1>13, <1>14,
     <1>15, <1>16, <1>17, <1>18, <1>19, <1>20, <1>21, <1>22, <1>23, <1>24, <1>25
  DEF DrainStep
-----------------------------------------------------------------------------
(* So do the steps of the requests, of a crash and of the recovery. *)

(* A request is begun, continued and finished; its record keeps its type. *)
LEMMA BeginType ==
    ASSUME quota \in [Requests -> Nat], NEW k, NEW request \in Requests, Begin(k, request)
    PROVE  quota' \in [Requests -> Nat]
<1>1. quota[request] - 1 \in Nat
  BY DEF Begin
<1> QED BY <1>1 DEF Begin

LEMMA OpenCallType ==
    ASSUME call \in [Clients -> CallRecord], NEW k, NEW r \in CallRecord,
           call' = [call EXCEPT ![k] = r]
    PROVE  call' \in [Clients -> CallRecord]
  OBVIOUS

LEMMA ContinueType ==
    ASSUME call \in [Clients -> CallRecord], NEW k \in Clients, NEW pc \in CallPcs, Continue(k, pc)
    PROVE  call' \in [Clients -> CallRecord]
<1>1. [call[k] EXCEPT !.pc = pc] \in CallRecord
  BY DEF CallRecord
<1>2. call' = [call EXCEPT ![k] = [call[k] EXCEPT !.pc = pc]]
  BY DEF Continue
<1> QED BY <1>1, <1>2

LEMMA FinishType ==
    ASSUME StoreAssumption, call \in [Clients -> CallRecord], NEW k, Finish(k)
    PROVE  call' \in [Clients -> CallRecord]
  BY NoCallType DEF Finish

LEMMA StartCallType ==
    ASSUME StoreAssumption, NEW s \in OrchRecord
    PROVE  [NoCall EXCEPT !.pc = "startWrite", !.snap = s] \in CallRecord
  BY NoCallType DEF CallRecord, CallPcs

LEMMA StopCallType ==
    ASSUME StoreAssumption, NEW c \in Candidates \union {None}, NEW l \in LoopIds \union {None}
    PROVE  [NoCall EXCEPT !.pc = "stopLoop", !.loop = l, !.cand = c] \in CallRecord
  BY NoCallType DEF CallRecord, CallPcs

LEMMA ApproveCallType ==
    ASSUME StoreAssumption, NEW c \in Candidates
    PROVE  [NoCall EXCEPT !.pc = "approveWrite", !.cand = c] \in CallRecord
  BY NoCallType DEF CallRecord, CallPcs

LEMMA CancelCallType ==
    ASSUME StoreAssumption, NEW l \in LoopIds
    PROVE  [NoCall EXCEPT !.pc = "cancelWrite", !.loop = l] \in CallRecord
  BY NoCallType DEF CallRecord, CallPcs

LEMMA ReviewCallType ==
    ASSUME StoreAssumption, NEW l \in LoopIds, NEW v \in Verdicts
    PROVE  [NoCall EXCEPT !.pc = "reviewApproval", !.loop = l, !.verdict = v] \in CallRecord
  BY NoCallType DEF CallRecord, CallPcs

LEMMA CallPcNames ==
    {"startWrite", "startKick", "stopLoop", "stopLoopWrite", "stopCand", "stopCandWrite",
     "stopWrite", "reviewLoop"} \subseteq CallPcs
  BY DEF CallPcs

LEMMA RequestStepType ==
    ASSUME TypeOK, NEW k \in Clients, RequestStep(k) PROVE TypeOK'
<1> USE DEF LoopsTypeOK, loops, store, world
<1>1. /\ today \in Nat /\ orch \in OrchRecord /\ drain \in DrainRecord
      /\ call \in [Clients -> CallRecord] /\ quota \in [Requests -> Nat]
      /\ candStatus \in [Candidates -> CandidateStatuses] /\ StoreAssumption
      /\ orch.cand \in Candidates \union {None} /\ orch.loop \in LoopIds \union {None}
  BY SchedulerAssumption, StoreAssumption DEF TypeOK, OrchRecord
<1>2. Requests = {"start", "stop", "cancel", "approve", "dismiss", "review"}
  BY DEF Requests
<1>3. CASE StartRequest(k)
  <2>1. quota' \in [Requests -> Nat]
    BY <1>1, <1>2, <1>3, BeginType DEF StartRequest
  <2>2. PICK m \in Modes : call' = [call EXCEPT ![k] = [NoCall EXCEPT !.pc = "startWrite",
                                       !.snap = [Normalized(orch) EXCEPT !.mode = m]]]
    BY <1>3 DEF StartRequest
  <2>3. [Normalized(orch) EXCEPT !.mode = m] \in OrchRecord
    <3>1. Normalized(orch) \in OrchRecord
      BY <1>1, NormalizedType
    <3>2. m \in {"supervised", "auto"}
      BY SchedulerAssumption
    <3> QED BY <3>1, <3>2 DEF OrchRecord
  <2>4. call' \in [Clients -> CallRecord]
    BY <1>1, <2>2, <2>3, StartCallType, OpenCallType
  <2> QED BY <2>1, <2>4, <1>3 DEF StartRequest, TypeOK
<1>4. CASE StopRequest(k)
  <2>1. quota' \in [Requests -> Nat]
    BY <1>1, <1>2, <1>4, BeginType DEF StopRequest
  <2>2. drain' \in DrainRecord
    BY <1>1, <1>4 DEF StopRequest, DrainRecord
  <2>3. call' \in [Clients -> CallRecord]
    BY <1>1, <1>4, StopCallType, OpenCallType DEF StopRequest
  <2>4. hist' \in HistRecord
    BY <1>4 DEF StopRequest, TypeOK, HistRecord
  <2> QED BY <2>1, <2>2, <2>3, <2>4, <1>4 DEF StopRequest, TypeOK
<1>5. CASE CancelRequest(k)
  <2>1. quota' \in [Requests -> Nat]
    BY <1>1, <1>2, <1>5, BeginType DEF CancelRequest
  <2>2. call' \in [Clients -> CallRecord]
    BY <1>1, <1>5, CancelCallType, OpenCallType DEF CancelRequest
  <2> QED BY <2>1, <2>2, <1>5 DEF CancelRequest, TypeOK
<1>6. CASE ApproveRequest(k)
  <2>1. quota' \in [Requests -> Nat]
    BY <1>1, <1>2, <1>6, BeginType DEF ApproveRequest
  <2>2. call' \in [Clients -> CallRecord]
    BY <1>1, <1>6, ApproveCallType, OpenCallType DEF ApproveRequest
  <2> QED BY <2>1, <2>2, <1>6 DEF ApproveRequest, TypeOK
<1>7. CASE Dismiss(k)
  <2>1. quota' \in [Requests -> Nat]
    BY <1>1, <1>2, <1>7, BeginType DEF Dismiss
  <2>2. candStatus' \in [Candidates -> CandidateStatuses]
    BY <1>1, <1>7, SetCandidateType, StatusNames DEF Dismiss
  <2> QED BY <2>1, <2>2, <1>7 DEF Dismiss, TypeOK
<1>8. CASE ReviewRequest(k)
  <2>1. quota' \in [Requests -> Nat]
    BY <1>1, <1>2, <1>8, BeginType DEF ReviewRequest
  <2>2. call' \in [Clients -> CallRecord]
    BY <1>1, <1>8, ReviewCallType, OpenCallType DEF ReviewRequest
  <2> QED BY <2>1, <2>2, <1>8 DEF ReviewRequest, TypeOK
<1> QED BY <1>3, <1>4, <1>5, <1>6, <1>7, <1>8 DEF RequestStep

LEMMA ClientStepType ==
    ASSUME TypeOK, NEW k \in Clients, ClientStep(k) PROVE TypeOK'
<1> USE DEF LoopsTypeOK, loops, store, world
<1>1. /\ orch \in OrchRecord /\ drain \in DrainRecord
      /\ call \in [Clients -> CallRecord] /\ StoreAssumption
      /\ candStatus \in [Candidates -> CandidateStatuses]
      /\ call[k].loop \in LoopIds \union {None} /\ call[k].snap \in OrchRecord
      /\ call[k].verdict \in Verdicts
  BY StoreAssumption DEF TypeOK, CallRecord
<1>2. CASE StartWrite(k)
  <2>1. orch' \in OrchRecord
    BY <1>1, <1>2, CountersTypes DEF StartWrite
  <2>2. call' \in [Clients -> CallRecord]
    BY <1>1, <1>2, ContinueType, CallPcNames DEF StartWrite
  <2>3. hist' \in HistRecord
    BY <1>2 DEF StartWrite, TypeOK, HistRecord
  <2> QED BY <2>1, <2>2, <2>3, <1>2 DEF StartWrite, TypeOK
<1>3. CASE StartKick(k)
  <2>1. drain' \in DrainRecord
    BY <1>1, <1>3, DrainAtType, StartPcs DEF StartKick
  <2>2. call' \in [Clients -> CallRecord]
    BY <1>1, <1>3, FinishType DEF StartKick
  <2>3. hist' \in HistRecord
    BY <1>3 DEF StartKick, TypeOK, HistRecord
  <2> QED BY <2>1, <2>2, <2>3, <1>3 DEF StartKick, TypeOK
<1>4. CASE StopLoop(k)
  <2>1. call' \in [Clients -> CallRecord]
    BY <1>1, <1>4, ContinueType, CallPcNames DEF StopLoop
  <2> QED BY <2>1, <1>4 DEF StopLoop, TypeOK
<1>5. CASE StopLoopWrite(k)
  <2>1. LoopsTypeOK'
    BY <1>5, UpdateLoopType, StatusNames DEF StopLoopWrite, TypeOK
  <2>2. call' \in [Clients -> CallRecord]
    BY <1>1, <1>5, ContinueType, CallPcNames DEF StopLoopWrite
  <2>3. hist' \in HistRecord
    BY <1>1, <1>5 DEF StopLoopWrite, TypeOK, HistRecord
  <2> QED BY <2>1, <2>2, <2>3, <1>5 DEF StopLoopWrite, TypeOK
<1>6. CASE StopCand(k)
  <2>1. call' \in [Clients -> CallRecord]
    BY <1>1, <1>6, ContinueType, CallPcNames DEF StopCand
  <2> QED BY <2>1, <1>6 DEF StopCand, TypeOK
<1>7. CASE StopCandWrite(k)
  <2>1. candStatus' \in [Candidates -> CandidateStatuses]
    BY <1>1, <1>7, SetCandidateType, StatusNames DEF StopCandWrite
  <2>2. call' \in [Clients -> CallRecord]
    BY <1>1, <1>7, ContinueType, CallPcNames DEF StopCandWrite
  <2> QED BY <2>1, <2>2, <1>7 DEF StopCandWrite, TypeOK
<1>8. CASE StopWrite(k)
  <2>1. orch' \in OrchRecord
    BY <1>1, <1>8, CurrentRowTypes DEF StopWrite, OrchStatuses
  <2>2. call' \in [Clients -> CallRecord]
    BY <1>1, <1>8, FinishType DEF StopWrite
  <2>3. hist' \in HistRecord
    BY <1>8 DEF StopWrite, TypeOK, HistRecord
  <2> QED BY <2>1, <2>2, <2>3, <1>8 DEF StopWrite, TypeOK
<1>9. CASE CancelWrite(k)
  <2>1. LoopsTypeOK'
    BY <1>9, UpdateLoopType, StatusNames DEF CancelWrite, TypeOK
  <2>2. call' \in [Clients -> CallRecord]
    BY <1>1, <1>9, FinishType DEF CancelWrite
  <2>3. hist' \in HistRecord
    BY <1>1, <1>9 DEF CancelWrite, TypeOK, HistRecord
  <2> QED BY <2>1, <2>2, <2>3, <1>9 DEF CancelWrite, TypeOK
<1>10. CASE ApproveWrite(k)
  <2>1. candStatus' \in [Candidates -> CandidateStatuses]
    BY <1>1, <1>10, SetCandidateType, StatusNames DEF ApproveWrite
  <2>2. call' \in [Clients -> CallRecord]
    BY <1>1, <1>10, FinishType DEF ApproveWrite
  <2> QED BY <2>1, <2>2, <1>10 DEF ApproveWrite, TypeOK
<1>11. CASE ReviewApproval(k)
  <2>1. call' \in [Clients -> CallRecord]
    BY <1>1, <1>11, ContinueType, CallPcNames DEF ReviewApproval
  <2> QED BY <2>1, <1>11 DEF ReviewApproval, TypeOK
<1>12. CASE ReviewLoop(k)
  <2>1. LoopsTypeOK'
    BY <1>1, <1>12, UpdateLoopType, StatusNames DEF ReviewLoop, TypeOK
  <2>2. call' \in [Clients -> CallRecord]
    BY <1>1, <1>12, FinishType DEF ReviewLoop
  <2> QED BY <2>1, <2>2, <1>12 DEF ReviewLoop, TypeOK
<1> QED
  BY <1>2, <1>3, <1>4, <1>5, <1>6, <1>7, <1>8, <1>9, <1>10, <1>11, <1>12 DEF ClientStep

LEMMA CrashStepType == TypeOK /\ (DrainError \/ Crash \/ BootStep \/ NextDay) => TypeOK'
<1> SUFFICES ASSUME TypeOK, DrainError \/ Crash \/ BootStep \/ NextDay PROVE TypeOK'
  OBVIOUS
<1> USE DEF LoopsTypeOK, loops, store
<1>1. /\ orch \in OrchRecord /\ drain \in DrainRecord
      /\ call \in [Clients -> CallRecord] /\ StoreAssumption
      /\ candStatus \in [Candidates -> CandidateStatuses]
      /\ boot \in [pc : BootPcs, cand : Candidates \union {None}, recovered : BOOLEAN]
      /\ faults \in [crashes : Nat, errors : Nat]
  BY StoreAssumption DEF TypeOK
<1>2. CASE DrainError
  <2>1. drain' \in DrainRecord
    BY <1>1, <1>2, DrainMoveType, StartPcs DEF DrainError, Goto
  <2>2. faults' \in [crashes : Nat, errors : Nat]
    BY <1>1, <1>2 DEF DrainError
  <2> QED BY <2>1, <2>2, <1>2 DEF DrainError, TypeOK
<1>3. CASE Crash
  <2>1. drain' \in DrainRecord
    BY <1>1, <1>3, DrainAtType, StartPcs DEF Crash
  <2>2. faults' \in [crashes : Nat, errors : Nat]
    BY <1>1, <1>3 DEF Crash
  <2>3. call' \in [Clients -> CallRecord]
    BY <1>1, <1>3, NoCallType DEF Crash
  <2>4. boot' \in [pc : BootPcs, cand : Candidates \union {None}, recovered : BOOLEAN]
    BY <1>3 DEF Crash, NoBoot, BootPcs
  <2> QED BY <2>1, <2>2, <2>3, <2>4, <1>3 DEF Crash, TypeOK
<1>4. CASE Restart
  <2>1. boot' \in [pc : BootPcs, cand : Candidates \union {None}, recovered : BOOLEAN]
    BY <1>4 DEF Restart, NoBoot, BootPcs
  <2> QED BY <2>1, <1>4 DEF Restart, TypeOK
<1>5. CASE RecoverCandidate
  <2>1. candStatus' \in [Candidates -> CandidateStatuses]
    BY <1>1, <1>5, SetCandidateType, StatusNames DEF RecoverCandidate
  <2>2. boot' \in [pc : BootPcs, cand : Candidates \union {None}, recovered : BOOLEAN]
    BY <1>5 DEF RecoverCandidate, BootPcs
  <2> QED BY <2>1, <2>2, <1>5 DEF RecoverCandidate, TypeOK
<1>6. CASE RecoverLoops
  <2>1. LoopsTypeOK'
    BY <1>6, StatusNames DEF RecoverLoops, CloseActiveLoops, TypeOK
  <2>2. boot' \in [pc : BootPcs, cand : Candidates \union {None}, recovered : BOOLEAN]
    BY <1>1, <1>6 DEF RecoverLoops, BootPcs
  <2> QED BY <2>1, <2>2, <1>6 DEF RecoverLoops, TypeOK
<1>7. CASE RecoverCurrent
  <2>1. LoopsTypeOK'
    BY <1>7, UpdateLoopType, StatusNames DEF RecoverCurrent, TypeOK
  <2>2. boot' \in [pc : BootPcs, cand : Candidates \union {None}, recovered : BOOLEAN]
    BY <1>1, <1>7 DEF RecoverCurrent, BootPcs
  <2> QED BY <2>1, <2>2, <1>7 DEF RecoverCurrent, TypeOK
<1>8. CASE RecoverState
  <2>1. orch' \in OrchRecord
    BY <1>1, <1>8, CurrentRowTypes DEF RecoverState, OrchStatuses
  <2>2. boot' \in [pc : BootPcs, cand : Candidates \union {None}, recovered : BOOLEAN]
    BY <1>8 DEF RecoverState, NoBoot, BootPcs
  <2> QED BY <2>1, <2>2, <1>8 DEF RecoverState, TypeOK
<1>9. CASE NextDay
  <2>1. today' \in 0 .. MaxDay
    BY <1>9, SchedulerAssumption DEF NextDay, TypeOK
  <2> QED BY <2>1, <1>9 DEF NextDay, TypeOK
<1> QED
  BY <1>2, <1>3, <1>4, <1>5, <1>6, <1>7, <1>8, <1>9 DEF BootStep

LEMMA StutterType == TypeOK /\ UNCHANGED vars => TypeOK'
  BY DEF TypeOK, LoopsTypeOK, vars, loops, store, world

LEMMA TypeStep == TypeOK /\ [Next]_vars => TypeOK'
  BY DrainStepType, RequestStepType, ClientStepType, CrashStepType, StutterType DEF Next

(* Every variable keeps its type, whatever the requests, the errors and the    *)
(* crashes, and for any number of clients and candidates.                      *)
THEOREM TypeCorrect == Spec => []TypeOK
<1>1. Init => TypeOK
  BY InitTypeOK
<1>2. TypeOK /\ [Next]_vars => TypeOK'
  BY TypeStep
<1> QED BY <1>1, <1>2, PTL DEF Spec
-----------------------------------------------------------------------------
(* Recovery: no candidate is left running, and the state row names no loop     *)
(* that is still active, when the server is about to serve again.              *)
Recovered ==
    boot.pc = "state" =>
        /\ \A c \in Candidates : candStatus[c] # "running"
        /\ orch.loop # None => (boot.recovered \/ loopStatus[orch.loop] \notin ActiveStatuses)

(* While the server is not up it does nothing but recover. *)
LEMMA OnlyBootSteps ==
    ASSUME boot.pc # "up", Next
    PROVE  Crash \/ BootStep \/ NextDay
  BY DEF Next, DrainStep, DrainError, RequestStep, ClientStep, Begin, Working, At,
         DrainTop, DrainBudget, DrainGuard, DrainPick, DrainIdle, DrainClaim, DrainClaimWrite,
         DrainCreate, DrainActiveLoop, DrainActiveExists, DrainReadState, DrainMarkRunning,
         DrainMarkState, DrainPrepare, DrainRunner, DrainAccount, DrainAccountWrite,
         DrainSettle, DrainRetryWrite, DrainOpenApproval, DrainOpenPr, DrainCreatePr,
         DrainPause, DrainExit, StartRequest, StopRequest, CancelRequest, ApproveRequest,
         Dismiss, ReviewRequest, StartWrite, StartKick, StopLoop, StopLoopWrite, StopCand,
         StopCandWrite, StopWrite, CancelWrite, ApproveWrite, ReviewApproval, ReviewLoop

(* Only Crash, BootStep and nothing else moves the boot counter. *)
LEMMA BootMoves ==
    ASSUME Next, ~Crash, ~BootStep
    PROVE  boot' = boot
  BY DEF Next, DrainStep, DrainError, RequestStep, ClientStep, Begin, Working, At, NextDay, world,
         DrainTop, DrainBudget, DrainGuard, DrainPick, DrainIdle, DrainClaim, DrainClaimWrite,
         DrainCreate, DrainActiveLoop, DrainActiveExists, DrainReadState, DrainMarkRunning,
         DrainMarkState, DrainPrepare, DrainRunner, DrainAccount, DrainAccountWrite,
         DrainSettle, DrainRetryWrite, DrainOpenApproval, DrainOpenPr, DrainCreatePr,
         DrainPause, DrainExit, StartRequest, StopRequest, CancelRequest, ApproveRequest,
         Dismiss, ReviewRequest, StartWrite, StartKick, StopLoop, StopLoopWrite, StopCand,
         StopCandWrite, StopWrite, CancelWrite, ApproveWrite, ReviewApproval, ReviewLoop

LEMMA RecoveredInit == Init => Recovered
  BY DEF Init, NoBoot, Recovered

LEMMA RecoveredStep == TypeOK /\ Recovered /\ [Next]_vars => Recovered'
<1> SUFFICES ASSUME TypeOK, Recovered, [Next]_vars PROVE Recovered'
  OBVIOUS
<1>1. CASE RecoverCurrent
  <2>1. \A c \in Candidates : candStatus'[c] # "running"
    BY <1>1 DEF RecoverCurrent, store
  <2>2. orch' = orch /\ boot' \in {[boot EXCEPT !.pc = "state", !.recovered = TRUE],
                                   [boot EXCEPT !.pc = "state"]}
    BY <1>1 DEF RecoverCurrent, store
  <2>3. CASE orch.loop # None /\ loopStatus[orch.loop] \in ActiveStatuses
    <3>1. boot'.recovered
      BY <1>1, <2>3 DEF RecoverCurrent, TypeOK
    <3> QED BY <2>1, <3>1 DEF Recovered
  <2>4. CASE ~(orch.loop # None /\ loopStatus[orch.loop] \in ActiveStatuses)
    <3>1. loopStatus' = loopStatus
      BY <1>1, <2>4 DEF RecoverCurrent, loops
    <3> QED BY <2>1, <2>2, <2>4, <3>1 DEF Recovered
  <2> QED BY <2>3, <2>4
<1>2. CASE Crash \/ Restart \/ RecoverCandidate \/ RecoverLoops \/ RecoverState
  <2>0. boot \in [pc : BootPcs, cand : Candidates \union {None}, recovered : BOOLEAN]
    BY DEF TypeOK
  <2>1. boot'.pc # "state"
    <3>1. CASE Crash \/ Restart
      BY <3>1 DEF Crash, Restart, NoBoot
    <3>2. CASE RecoverCandidate
      BY <3>2 DEF RecoverCandidate
    <3>3. CASE RecoverLoops
      BY <2>0, <3>3 DEF RecoverLoops
    <3>4. CASE RecoverState
      BY <3>4 DEF RecoverState, NoBoot
    <3> QED BY <1>2, <3>1, <3>2, <3>3, <3>4
  <2> QED BY <2>1 DEF Recovered
<1>3. CASE ~Crash /\ ~BootStep /\ Next
  <2>1. boot' = boot
    BY <1>3, BootMoves
  <2>2. CASE boot.pc = "up"
    BY <2>1, <2>2 DEF Recovered
  <2>3. CASE boot.pc # "up"
    <3>1. NextDay
      BY <1>3, <2>3, OnlyBootSteps
    <3> QED BY <3>1 DEF NextDay, Recovered, loops, store
  <2> QED BY <2>2, <2>3
<1>4. CASE UNCHANGED vars
  BY <1>4 DEF vars, loops, store, world, Recovered
<1> QED BY <1>1, <1>2, <1>3, <1>4 DEF BootStep

(* When recovery is over no candidate is running, the orchestrator is not      *)
(* running, and it names no active loop - for any interruption of the old      *)
(* process, whether a stop, a store error or a crash of the recovery itself.   *)
THEOREM RecoveryClean == Spec => RecoveryLeavesNothingRunning
<1>1. Init => TypeOK /\ Recovered
  BY InitTypeOK, RecoveredInit
<1>2. TypeOK /\ Recovered /\ [Next]_vars => (TypeOK /\ Recovered)'
  BY DrainStepType, RequestStepType, ClientStepType, CrashStepType, StutterType, RecoveredStep
  DEF Next
<1>3. TypeOK /\ Recovered /\ [Next]_vars =>
        [(boot.pc = "state" /\ boot'.pc = "up") =>
           /\ \A c \in Candidates : candStatus'[c] # "running"
           /\ orch'.status # "running"
           /\ orch'.loop # None => loopStatus'[orch'.loop] \notin ActiveStatuses]_vars
  <2> SUFFICES ASSUME TypeOK, Recovered, Next, boot.pc = "state", boot'.pc = "up"
               PROVE  /\ \A c \in Candidates : candStatus'[c] # "running"
                      /\ orch'.status # "running"
                      /\ orch'.loop # None => loopStatus'[orch'.loop] \notin ActiveStatuses
    OBVIOUS
  <2>1. RecoverState
    <3>1. Crash \/ BootStep \/ NextDay
      BY OnlyBootSteps
    <3> QED BY <3>1 DEF Crash, BootStep, NextDay, Restart, RecoverCandidate, RecoverLoops,
                        RecoverCurrent, NoBoot, TypeOK
  <2>2. orch \in OrchRecord
    BY DEF TypeOK
  <2>3. CASE boot.recovered \/ orch.status = "running"
    BY <2>1, <2>2, <2>3 DEF RecoverState, OrchRecord, Recovered
  <2>4. CASE ~(boot.recovered \/ orch.status = "running")
    BY <2>1, <2>4 DEF RecoverState, Recovered, loops
  <2> QED BY <2>3, <2>4
<1> QED BY <1>1, <1>2, <1>3, PTL DEF Spec, RecoveryLeavesNothingRunning
-----------------------------------------------------------------------------
(* A running candidate is the drain's. *)

(* The inductive form: the drain is off whenever the server is not up. *)
RunningInv ==
    /\ boot.pc # "up" => drain.pc = "off"
    /\ RunningCandidateIsDrained

LEMMA RunningInit == Init => RunningInv
  BY SchedulerAssumption DEF Init, RunningInv, RunningCandidateIsDrained, DrainAt, NoBoot

(* Steps of the drain that only move it from one place to another. *)
LEMMA RunningKept ==
    ASSUME RunningInv, boot' = boot, faults' = faults, candStatus' = candStatus,
           drain'.cand = drain.cand, drain.pc \in OwningPcs => drain'.pc \in OwningPcs,
           drain.pc = "off" => drain'.pc = "off"
    PROVE  RunningInv'
  BY DEF RunningInv, RunningCandidateIsDrained

LEMMA RunningDrain == TypeOK /\ RunningInv /\ DrainStep => RunningInv'
<1> SUFFICES ASSUME TypeOK, RunningInv, DrainStep PROVE RunningInv'
  OBVIOUS
<1> USE DEF At, Goto, world, store
<1>1. /\ drain \in DrainRecord /\ candStatus \in [Candidates -> CandidateStatuses]
      /\ boot.pc = "up" /\ boot' = boot /\ faults' = faults
  BY DEF TypeOK, DrainStep, DrainTop, DrainBudget, DrainGuard, DrainPick, DrainIdle, DrainClaim,
         DrainClaimWrite, DrainCreate, DrainActiveLoop, DrainActiveExists, DrainReadState,
         DrainMarkRunning, DrainMarkState, DrainPrepare, DrainRunner, DrainAccount,
         DrainAccountWrite, DrainSettle, DrainRetryWrite, DrainOpenApproval, DrainOpenPr,
         DrainCreatePr, DrainPause, DrainExit
<1>2. CASE drain.pc \notin OwningPcs /\ candStatus' = candStatus
  <2>1. \A c \in Candidates : faults.errors = 0 => candStatus[c] # "running"
    BY <1>1, <1>2 DEF RunningInv, RunningCandidateIsDrained
  <2> QED BY <1>1, <1>2, <2>1 DEF RunningInv, RunningCandidateIsDrained
<1>3. CASE DrainTop \/ DrainBudget \/ DrainGuard \/ DrainPick \/ DrainIdle \/ DrainClaim
           \/ DrainCreate \/ DrainActiveLoop \/ DrainReadState \/ DrainOpenApproval
           \/ DrainOpenPr \/ DrainCreatePr \/ DrainPause \/ DrainExit
  BY <1>2, <1>3 DEF OwningPcs, DrainTop, DrainBudget, DrainGuard, DrainPick, DrainIdle, DrainClaim,
         DrainCreate, DrainActiveLoop, DrainReadState, DrainOpenApproval, DrainOpenPr,
         DrainCreatePr, DrainPause, DrainExit
<1>4. CASE DrainMarkState \/ DrainPrepare \/ DrainRunner \/ DrainAccount \/ DrainAccountWrite
  <2>1. /\ candStatus' = candStatus /\ drain'.cand = drain.cand
        /\ drain.pc \in OwningPcs /\ drain'.pc \in OwningPcs
    BY <1>1, <1>4 DEF OwningPcs, DrainRecord, DrainMarkState, DrainPrepare, DrainRunner,
                      DrainAccount, DrainAccountWrite
  <2>2. drain.pc # "off"
    BY <2>1 DEF OwningPcs
  <2> QED BY <1>1, <2>1, <2>2, RunningKept
<1>5. CASE DrainMarkRunning
  <2>1. \A c \in Candidates : faults.errors = 0 => candStatus[c] # "running"
    BY <1>1, <1>5 DEF RunningInv, RunningCandidateIsDrained, OwningPcs, DrainMarkRunning
  <2>2. drain'.cand = drain.cand /\ drain'.pc = "markState"
    BY <1>1, <1>5 DEF DrainMarkRunning, DrainRecord
  <2> QED BY <1>1, <1>5, <2>1, <2>2
          DEF RunningInv, RunningCandidateIsDrained, OwningPcs, DrainMarkRunning, SetCandidate
<1>6. CASE drain.pc \in OwningPcs /\ \E s \in CandidateStatuses \ {"running"} :
             SetCandidate(drain.cand, s)
  <2>1. \A c \in Candidates : faults.errors = 0 => candStatus'[c] # "running"
    BY <1>1, <1>6 DEF RunningInv, RunningCandidateIsDrained, SetCandidate
  <2> QED BY <1>1, <2>1 DEF RunningInv, RunningCandidateIsDrained
<1>7. CASE drain.pc \notin OwningPcs /\ \E s \in CandidateStatuses \ {"running"} :
             SetCandidate(drain.cand, s)
  <2>1. \A c \in Candidates : faults.errors = 0 => candStatus'[c] # "running"
    BY <1>1, <1>7 DEF RunningInv, RunningCandidateIsDrained, SetCandidate
  <2> QED BY <1>1, <2>1 DEF RunningInv, RunningCandidateIsDrained
<1>8. CASE DrainClaimWrite \/ DrainActiveExists \/ DrainRetryWrite
  <2>1. {"queued", "approved", "dismissed"} \subseteq CandidateStatuses \ {"running"}
    BY DEF CandidateStatuses
  <2> QED BY <1>6, <1>7, <1>8, <2>1 DEF DrainClaimWrite, DrainActiveExists, DrainRetryWrite
<1>9. CASE DrainSettle
  <2>1. {"queued", "processed"} \subseteq CandidateStatuses \ {"running"}
    BY DEF CandidateStatuses
  <2>2. CASE \E s \in {"queued", "processed"} : SetCandidate(drain.cand, s)
    BY <1>6, <1>7, <2>1, <2>2
  <2>3. CASE candStatus' = candStatus /\ drain'.pc = "retryWrite" /\ drain'.cand = drain.cand
    <3>1. drain.pc \in OwningPcs /\ drain'.pc \in OwningPcs /\ drain.pc # "off"
      BY <1>9, <2>3 DEF DrainSettle, OwningPcs
    <3> QED BY <1>1, <2>3, <3>1, RunningKept
  <2> QED BY <1>1, <1>9, <2>2, <2>3 DEF DrainSettle, DrainRecord
<1> QED BY <1>3, <1>4, <1>5, <1>8, <1>9 DEF DrainStep

LEMMA RunningRequest ==
    ASSUME TypeOK, RunningInv, NEW k \in Clients, RequestStep(k) \/ ClientStep(k)
    PROVE  RunningInv'
<1> USE DEF world, store
<1>1. /\ drain \in DrainRecord /\ candStatus \in [Candidates -> CandidateStatuses]
      /\ boot.pc = "up" /\ boot' = boot /\ faults' = faults
  BY DEF TypeOK, RequestStep, ClientStep, Begin, Working, StartRequest, StopRequest, CancelRequest,
         ApproveRequest, Dismiss, ReviewRequest, StartWrite, StartKick, StopLoop, StopLoopWrite,
         StopCand, StopCandWrite, StopWrite, CancelWrite, ApproveWrite, ReviewApproval, ReviewLoop
<1>2. CASE StartKick(k)
  <2>1. CASE drain.pc = "off"
    <3>1. \A c \in Candidates : faults.errors = 0 => candStatus[c] # "running"
      BY <1>1, <2>1 DEF RunningInv, RunningCandidateIsDrained, OwningPcs
    <3> QED BY <1>1, <1>2, <3>1 DEF StartKick, RunningInv, RunningCandidateIsDrained
  <2>2. CASE drain.pc # "off"
    BY <1>1, <1>2, <2>2, RunningKept DEF StartKick
  <2> QED BY <2>1, <2>2
<1>3. CASE StopRequest(k)
  <2>1. drain'.pc = drain.pc /\ drain'.cand = drain.cand /\ candStatus' = candStatus
    BY <1>1, <1>3 DEF StopRequest, DrainRecord
  <2> QED BY <1>1, <2>1, RunningKept
<1>4. CASE drain' = drain /\ \E c, s : s # "running" /\ SetCandidate(c, s)
  <2>1. \A c \in Candidates : candStatus'[c] = "running" => candStatus[c] = "running"
    BY <1>1, <1>4 DEF SetCandidate
  <2> QED BY <1>1, <1>4, <2>1 DEF RunningInv, RunningCandidateIsDrained
<1>5. CASE Dismiss(k) \/ StopCandWrite(k) \/ ApproveWrite(k)
  BY <1>4, <1>5 DEF Dismiss, StopCandWrite, ApproveWrite
<1>6. CASE StartRequest(k) \/ CancelRequest(k) \/ ApproveRequest(k) \/ ReviewRequest(k)
           \/ StartWrite(k) \/ StopLoop(k) \/ StopLoopWrite(k) \/ StopCand(k) \/ StopWrite(k)
           \/ CancelWrite(k) \/ ReviewApproval(k) \/ ReviewLoop(k)
  <2>1. drain' = drain /\ candStatus' = candStatus
    BY <1>6 DEF StartRequest, CancelRequest, ApproveRequest, ReviewRequest, StartWrite,
         StopLoop, StopLoopWrite, StopCand, StopWrite, CancelWrite, ReviewApproval, ReviewLoop
  <2> QED BY <1>1, <2>1, RunningKept
<1> QED BY <1>2, <1>3, <1>5, <1>6 DEF RequestStep, ClientStep

LEMMA RunningBoot ==
    TypeOK /\ Recovered /\ RunningInv /\ (DrainError \/ Crash \/ BootStep \/ NextDay) => RunningInv'
<1> SUFFICES ASSUME TypeOK, Recovered, RunningInv, DrainError \/ Crash \/ BootStep \/ NextDay
             PROVE  RunningInv'
  OBVIOUS
<1> USE DEF store
<1>1. /\ boot \in [pc : BootPcs, cand : Candidates \union {None}, recovered : BOOLEAN]
      /\ faults \in [crashes : Nat, errors : Nat]
  BY DEF TypeOK
<1>2. CASE DrainError
  <2>1. faults'.errors # 0 /\ boot'.pc = "up"
    BY <1>1, <1>2 DEF DrainError
  <2> QED BY <2>1 DEF RunningInv, RunningCandidateIsDrained
<1>3. CASE Crash
  <2>1. boot'.pc = "down" /\ drain'.pc = "off"
    BY <1>3 DEF Crash, NoBoot, DrainAt
  <2> QED BY <2>1 DEF RunningInv, RunningCandidateIsDrained
<1>4. CASE Restart \/ RecoverCandidate \/ RecoverLoops \/ RecoverCurrent
  <2>1. boot.pc # "up" /\ boot'.pc # "up" /\ drain' = drain
    <3>1. CASE Restart \/ RecoverCandidate
      BY <3>1 DEF Restart, RecoverCandidate, NoBoot
    <3>2. CASE RecoverLoops \/ RecoverCurrent
      BY <1>1, <3>2 DEF RecoverLoops, RecoverCurrent
    <3> QED BY <1>4, <3>1, <3>2
  <2> QED BY <2>1 DEF RunningInv, RunningCandidateIsDrained
<1>5. CASE RecoverState
  BY <1>5 DEF RecoverState, NoBoot, Recovered, RunningInv, RunningCandidateIsDrained
<1>6. CASE NextDay
  BY <1>6 DEF NextDay, RunningInv, RunningCandidateIsDrained
<1> QED BY <1>2, <1>3, <1>4, <1>5, <1>6 DEF BootStep

LEMMA RunningStutter == RunningInv /\ UNCHANGED vars => RunningInv'
  BY DEF RunningInv, RunningCandidateIsDrained, vars, world, store

(* A candidate is "running" only while the drain holds it: no interleaving of  *)
(* start, stop, approve and dismiss requests, and no crash, leaves one behind. *)
THEOREM RunningIsDrained == Spec => []RunningCandidateIsDrained
<1> DEFINE IInv == TypeOK /\ Recovered /\ RunningInv
<1>1. Init => IInv
  BY InitTypeOK, RecoveredInit, RunningInit
<1>2. IInv /\ [Next]_vars => IInv'
  BY DrainStepType, RequestStepType, ClientStepType, CrashStepType, StutterType, RecoveredStep,
     RunningDrain, RunningRequest, RunningBoot, RunningStutter
  DEF Next
<1>3. IInv => RunningCandidateIsDrained
  BY DEF RunningInv
<1> QED BY <1>1, <1>2, <1>3, PTL DEF Spec
=============================================================================
