------------------------- MODULE KernelRun_proofs -------------------------
(***************************************************************************)
(* Theorems about KernelRun, for any number of runs and faults and any     *)
(* list of gates.                                                          *)
(***************************************************************************)
EXTENDS KernelRun, TLAPS

(* A process of the agent can be there only in these steps of a run. *)
Quiet(r) ==
    run[r].pc \notin {"agent", "agentFailed", "catch", "catchFinal", "cleanup", "returned"}
        => agent[r] = "none"

(* An abort was seen at once, or is by the next check of the signal. *)
AbortSeen(r) ==
    r \in aborted => run[r].pc \notin CancellableWaits \union {"start", "creating"}

Unsettled == {"final", "catch", "catchFinal", "cleanup", "returned", "dead"}

(* What a run has recorded at each step. *)
Records(r) ==
    /\ run[r].pc \notin Unsettled => run[r].stored = "none"
    /\ run[r].pc \in {"report", "final"} => run[r].verdict \in Decisions
    /\ run[r].pc = "final" => run[r].stored = run[r].verdict
    /\ run[r].pc = "start" => run[r].manifest = "none"
    /\ run[r].pc \notin {"start", "cleanup", "returned", "dead"} => run[r].manifest = "running"
    /\ run[r].pc \in {"catch", "catchFinal"} => run[r].status \in {"failed", "cancelled"}
    /\ run[r].pc = "catch" /\ run[r].stored \in Decisions => faults.errors >= 1
    /\ run[r].pc = "catchFinal" /\ run[r].stored \in Decisions => faults.errors >= 2
    /\ run[r].pc \in {"cleanup", "returned"} =>
          /\ faults.errors <= 1 /\ run[r].stored \in Decisions
                 => run[r].status = TerminalStatus[run[r].stored]
          /\ run[r].manifest \in {run[r].status, "none", "running"}
          /\ faults.errors = 0 => run[r].manifest = run[r].status

Adding == {"wantAdd", "adding", "added", "failed"}
Gone == {"idle", "failed", "removed", "leaked"}

(* Where the calls on the candidate's and on the base's worktree can be. *)
CandidateStages(pc) ==
    IF pc \in {"start", "create"} THEN {"idle"}
    ELSE IF pc \in {"creating", "createCancelled"} THEN Adding
    ELSE IF pc \in {"catch", "catchFinal"} THEN {"idle", "added", "failed"}
    ELSE IF pc = "cleanup" THEN Gone \union {"wantRemove", "removing", "fallback"}
    ELSE IF pc = "returned" THEN Gone
    ELSE IF pc = "dead" THEN {"dead"}
    ELSE {"added"}
BaseStages(pc) ==
    IF pc \in {"baseCreating"} THEN Adding
    ELSE IF pc \in {"baseProvisioning"} THEN {"added"}
    ELSE IF pc \in {"baseTests", "gates", "report", "final"} THEN {"idle", "added"}
    ELSE IF pc \in {"catch", "catchFinal"} THEN {"idle", "added", "failed"}
    ELSE IF pc = "cleanup" THEN Gone \union {"wantRemove", "removing", "fallback"}
    ELSE IF pc = "returned" THEN Gone
    ELSE IF pc = "dead" THEN {"dead"}
    ELSE {"idle"}

Staged(r) ==
    /\ git[Candidate(r)] \in CandidateStages(run[r].pc)
    /\ git[Base(r)] \in BaseStages(run[r].pc)

(* A directory, or a provision that can make one, belongs to a worktree    *)
(* that was added and not removed yet, unless the provision was torn.      *)
Owned(w) ==
    w \in dirs \/ ~ProvEnded(w) =>
        w \in torn \/ git[w] \in {"added", "wantRemove", "removing", "fallback", "leaked", "dead"}

RunInv == \A r \in Runs : Quiet(r) /\ AbortSeen(r) /\ Records(r)
TreeInv == (\A r \in Runs : Staged(r)) /\ (\A w \in Worktrees : Owned(w))
-----------------------------------------------------------------------------
(* The gates and the decision *)

LEMMA GateIdsAreNumbers == GateIds = 1 .. Len(Gates) /\ Len(Gates) \in Nat
  BY GatesAssumption DEF GateIds

LEMMA DecideDecides == ASSUME NEW in PROVE Decide(in) \in Decisions
  BY DEF Decide, Decisions

(* Only a report without a failed required gate is accepted, and only if   *)
(* some gate is required.                                                  *)
LEMMA DecideAccepts ==
  ASSUME NEW in, Decide(in) = "accept"
  PROVE  ~RequiredFailed(in.report) /\ \E i \in GateIds : Gates[i].required
  BY DEF Decide

(* No required gate failed, so none was skipped: only a failed required    *)
(* gate skips others.                                                      *)
LEMMA AcceptedGatesPass ==
  ASSUME NEW report \in Reports, ~RequiredFailed(report), NEW i \in GateIds, Gates[i].required
  PROVE  report[i] = "pass"
<1>1. report[i] \in Statuses /\ (report[i] = "skipped" <=> MustSkip(report, i))
  BY DEF Reports
<1>2. ~FailFast(report, i)
  BY DEF RequiredFailed
<1>3. ~MustSkip(report, i)
  BY GateIdsAreNumbers DEF MustSkip, RequiredFailed
<1> QED
  BY <1>1, <1>2, <1>3 DEF FailFast, Failed, Statuses, Outcomes
-----------------------------------------------------------------------------
(* Type correctness *)

FaultRecord == [aborts : Nat, crashes : Nat, errors : Nat]

LEMMA FaultType ==
  ASSUME faults \in FaultRecord, NEW kind \in {"aborts", "crashes", "errors"}, Fault(kind)
  PROVE  /\ faults' \in FaultRecord
         /\ kind = "errors" => faults'.errors = faults.errors + 1
         /\ kind # "errors" => faults'.errors = faults.errors
<1>1. CASE kind = "errors"  BY <1>1 DEF Fault, FaultRecord
<1>2. CASE kind = "aborts"  BY <1>2 DEF Fault, FaultRecord
<1>3. CASE kind = "crashes"  BY <1>3 DEF Fault, FaultRecord
<1> QED  BY <1>1, <1>2, <1>3
-----------------------------------------------------------------------------
(* What the building blocks of the steps do to the record of a run *)

RunTypes ==
    /\ run \in [Runs -> RunRecord]
    /\ agent \in [Runs -> {"none", "running", "dying"}]
    /\ capture \in [Runs -> CaptureRecord]
    /\ baseline \in SUBSET SUBSET GateIds
    /\ aborted \in SUBSET Runs
    /\ faults \in FaultRecord

LEMMA StatusesReturned ==
  /\ {"failed", "cancelled"} \subseteq RunStatuses
  /\ \A d \in Decisions : TerminalStatus[d] \in RunStatuses
  BY DEF RunStatuses

Others(r) == \A s \in Runs \ {r} : run'[s] = run[s]

LEMMA UpdatedRun ==
  ASSUME run \in [Runs -> RunRecord], NEW r \in Runs, NEW new \in RunRecord,
         run' = [run EXCEPT ![r] = new]
  PROVE  run' \in [Runs -> RunRecord] /\ Others(r) /\ run'[r] = new
  BY DEF Others

LEMMA GoEffect ==
  ASSUME run \in [Runs -> RunRecord], NEW r \in Runs, NEW pc \in RunPcs, Go(r, pc)
  PROVE  /\ run' \in [Runs -> RunRecord]
         /\ Others(r)
         /\ run'[r].pc = pc
         /\ run'[r].verdict = run[r].verdict
         /\ run'[r].stored = run[r].stored
         /\ run'[r].manifest = run[r].manifest
         /\ run'[r].status = run[r].status
  BY DEF Go, RunRecord, Others

LEMMA ThrowEffect ==
  ASSUME run \in [Runs -> RunRecord], NEW r \in Runs,
         NEW status \in {"failed", "cancelled"}, Throw(r, status)
  PROVE  /\ run' \in [Runs -> RunRecord]
         /\ Others(r)
         /\ run'[r].pc = "catch"
         /\ run'[r].verdict = "none"
         /\ run'[r].stored = run[r].stored
         /\ run'[r].manifest = run[r].manifest
         /\ run'[r].status = status
<1> DEFINE nothing == <<>>
           new == [run[r] EXCEPT !.pc = "catch", !.status = status, !.verdict = "none",
                                 !.report = nothing, !.failedOnBase = FALSE]
<1>1. nothing \in Reports \union {<<>>}
  OBVIOUS
<1>2. run' = [run EXCEPT ![r].pc = "catch", ![r].status = status, ![r].verdict = "none",
                         ![r].report = nothing, ![r].failedOnBase = FALSE]
  BY DEF Throw
<1> HIDE DEF nothing
<1>3. new \in RunRecord
  <2>1. run[r] \in RunRecord /\ status \in RunStatuses
    BY StatusesReturned
  <2> QED
    BY <1>1, <2>1 DEF RunRecord, RunPcs
<1>4. run' = [run EXCEPT ![r] = new]
  BY <1>2
<1>5. /\ new.pc = "catch" /\ new.verdict = "none" /\ new.status = status
      /\ new.stored = run[r].stored /\ new.manifest = run[r].manifest
  BY DEF RunRecord
<1> HIDE DEF new
<1> QED
  BY <1>3, <1>4, <1>5, UpdatedRun

LEMMA GoUnlessAbortedEffect ==
  ASSUME run \in [Runs -> RunRecord], NEW r \in Runs, NEW pc \in RunPcs,
         GoUnlessAborted(r, pc)
  PROVE  /\ run' \in [Runs -> RunRecord]
         /\ Others(r)
         /\ run'[r].pc = IF r \in aborted THEN "catch" ELSE pc
         /\ run'[r].verdict \in {run[r].verdict, "none"}
         /\ run'[r].stored = run[r].stored
         /\ run'[r].manifest = run[r].manifest
         /\ run'[r].status = IF r \in aborted THEN "cancelled" ELSE run[r].status
  BY GoEffect, ThrowEffect DEF GoUnlessAborted

(* Finalize writes the manifest, or a call failed. *)
LEMMA FinalizeEffect ==
  ASSUME RunTypes, NEW r \in Runs, NEW status \in RunStatuses, Finalize(r, status)
  PROVE  /\ run' \in [Runs -> RunRecord]
         /\ faults' \in FaultRecord
         /\ Others(r)
         /\ run'[r].pc = "cleanup"
         /\ run'[r].verdict = "none"
         /\ run'[r].stored = run[r].stored
         /\ run'[r].status = status
         /\ run[r].manifest = "running" =>
                \/ faults'.errors = faults.errors /\ run'[r].manifest = status
                \/ faults'.errors = faults.errors + 1 /\ run'[r].manifest = "running"
<1>1. PICK written \in BOOLEAN :
         /\ IF written THEN UNCHANGED faults ELSE CallFails
         /\ run' = [run EXCEPT
               ![r].pc = "cleanup", ![r].status = status, ![r].verdict = "none",
               ![r].manifest = IF written /\ @ = "running" THEN status ELSE @]
  BY DEF Finalize
<1>2. \/ written /\ faults' = faults
      \/ ~written /\ faults' \in FaultRecord /\ faults'.errors = faults.errors + 1
  BY <1>1, FaultType DEF CallFails, RunTypes
<1> DEFINE told == IF written /\ run[r].manifest = "running" THEN status ELSE run[r].manifest
           new == [run[r] EXCEPT !.pc = "cleanup", !.status = status, !.verdict = "none",
                                 !.manifest = told]
<1>3. run' = [run EXCEPT ![r] = new]
  BY <1>1
<1>4. told \in RunStatuses \union {"none", "running"}
  BY DEF RunTypes, RunRecord
<1> HIDE DEF told
<1>5. new \in RunRecord
  <2>1. run[r] \in RunRecord
    BY DEF RunTypes
  <2> QED
    BY <1>4, <2>1 DEF RunRecord, RunPcs
<1>6. /\ new.pc = "cleanup" /\ new.verdict = "none" /\ new.status = status
      /\ new.stored = run[r].stored /\ new.manifest = told
  BY DEF RunTypes, RunRecord
<1> HIDE DEF new
<1>7. run' \in [Runs -> RunRecord] /\ Others(r) /\ run'[r] = new
  BY <1>3, <1>5, UpdatedRun DEF RunTypes
<1> QED
  BY <1>2, <1>6, <1>7 DEF told, RunTypes
-----------------------------------------------------------------------------
(* Type correctness *)

LEMMA InitTypes == Init => TypeOK
  BY DEF Init, TypeOK, WorktreesInit, WorktreesTypeOK, CacheInit, CacheTypeOK, GitPcs, ProvPcs,
         Trees, NewRun, RunRecord, RunPcs, CaptureRecord

GitCall(w) ==
    \/ Acquire(w) \/ LockTimeout(w) \/ LockWriteFails(w) \/ Add(w) \/ AddFails(w)
    \/ Remove(w) \/ RemoveFails(w) \/ Fallback(w) \/ FallbackFails(w)

LEMMA GitCallTypes ==
  ASSUME WorktreesTypeOK, NEW w \in Worktrees, GitCall(w)
  PROVE  WorktreesTypeOK'
  BY DEF GitCall, WorktreesTypeOK, Acquire, LockTimeout, LockWriteFails, Add, AddFails, Remove,
         RemoveFails, Fallback, FallbackFails, WithoutLock, Waiting, GitPcs

LEMMA ProvToTypes ==
  ASSUME CacheTypeOK, NEW w \in Worktrees, NEW pc \in ProvPcs, NEW seen \in Trees,
         ProvTo(w, pc, seen)
  PROVE  prov' \in [Worktrees -> [pc : ProvPcs, seen : Trees]]
  BY DEF CacheTypeOK, ProvTo

LEMMA ProvStepTypes ==
  ASSUME CacheTypeOK, WorktreesTypeOK, NEW w \in Worktrees,
         ProvStep(w) \/ ProvFails(w), UNCHANGED <<lock, git>>
  PROVE  CacheTypeOK' /\ WorktreesTypeOK'
<1> USE DEF CacheTypeOK, WorktreesTypeOK, ProvPcs, Trees
<1>1. CASE ProvCheck(w)  BY <1>1, ProvToTypes DEF ProvCheck
<1>2. CASE CopyHit(w)  BY <1>2, ProvToTypes DEF CopyHit
<1>3. CASE Evict(w)  BY <1>3, ProvToTypes DEF Evict, UsersBesides
<1>4. CASE Install(w)  BY <1>4, ProvToTypes DEF Install
<1>5. CASE StoreBegin(w)  BY <1>5, ProvToTypes DEF StoreBegin, UsersBesides
<1>6. CASE StoreEnd(w)  BY <1>6, ProvToTypes DEF StoreEnd
<1>7. CASE Hash(w)  BY <1>7, ProvToTypes DEF Hash
<1>8. CASE Seal(w)  BY <1>8, ProvToTypes DEF Seal
<1>9. CASE ProvFails(w)  BY <1>9, ProvToTypes DEF ProvFails
<1> QED
  BY <1>1, <1>2, <1>3, <1>4, <1>5, <1>6, <1>7, <1>8, <1>9 DEF ProvStep

LEMMA KeptShared ==
  ASSUME UNCHANGED <<worktreeVars, cacheVars>>
  PROVE  (WorktreesTypeOK => WorktreesTypeOK') /\ (CacheTypeOK => CacheTypeOK')
  BY DEF worktreeVars, cacheVars, WorktreesTypeOK, CacheTypeOK
-----------------------------------------------------------------------------
(* The steps that write the record of a run themselves *)

LEMMA BeginEffect ==
  ASSUME run \in [Runs -> RunRecord], NEW r \in Runs, Begin(r)
  PROVE  /\ run' \in [Runs -> RunRecord] /\ Others(r)
         /\ run'[r].pc = "create" /\ run'[r].manifest = "running"
         /\ run'[r].stored = run[r].stored /\ run'[r].verdict = run[r].verdict
<1> DEFINE new == [run[r] EXCEPT !.pc = "create", !.manifest = "running"]
<1>1. run' = [run EXCEPT ![r] = new]
  BY DEF Begin
<1>2. new \in RunRecord
  BY ZenonT(30) DEF RunRecord, RunPcs
<1>3. /\ new.pc = "create" /\ new.manifest = "running"
      /\ new.stored = run[r].stored /\ new.verdict = run[r].verdict
  BY DEF RunRecord
<1> HIDE DEF new
<1> QED
  BY <1>1, <1>2, <1>3, UpdatedRun

LEMMA BeginThrowsEffect ==
  ASSUME run \in [Runs -> RunRecord], NEW r \in Runs, BeginThrows(r)
  PROVE  /\ run' \in [Runs -> RunRecord] /\ Others(r)
         /\ run'[r].pc = "returned" /\ run'[r].manifest = run[r].manifest
         /\ run'[r].stored = run[r].stored /\ run'[r].verdict = run[r].verdict
<1> DEFINE new == [run[r] EXCEPT !.pc = "returned", !.status = "failed"]
<1>1. run' = [run EXCEPT ![r] = new]
  BY DEF BeginThrows
<1>2. new \in RunRecord
  <2>1. "failed" \in RunStatuses
    BY StatusesReturned
  <2>2. run[r] \in RunRecord
    OBVIOUS
  <2> QED
    BY <2>1, <2>2 DEF RunRecord, RunPcs
<1>3. /\ new.pc = "returned" /\ new.manifest = run[r].manifest
      /\ new.stored = run[r].stored /\ new.verdict = run[r].verdict
  BY DEF RunRecord
<1> HIDE DEF new
<1> QED
  BY <1>1, <1>2, <1>3, UpdatedRun

LEMMA BaseTestsEffect ==
  ASSUME run \in [Runs -> RunRecord], NEW r \in Runs, BaseTests(r)
  PROVE  /\ run' \in [Runs -> RunRecord] /\ Others(r)
         /\ run'[r].pc = IF r \in aborted THEN "catch" ELSE "gates"
         /\ r \in aborted => run'[r].status = "cancelled"
         /\ run'[r].manifest = run[r].manifest
         /\ run'[r].stored = run[r].stored
         /\ run'[r].verdict \in {run[r].verdict, "none"}
<1>1. CASE r \in aborted
  BY <1>1, GoUnlessAbortedEffect DEF BaseTests, RunPcs
<1>2. CASE r \notin aborted
  <2>1. PICK failed \in BOOLEAN :
           run' = [run EXCEPT ![r].pc = "gates", ![r].failedOnBase = failed]
    BY <1>2 DEF BaseTests
  <2> DEFINE new == [run[r] EXCEPT !.pc = "gates", !.failedOnBase = failed]
  <2>2. run' = [run EXCEPT ![r] = new]
    BY <2>1
  <2>3. new \in RunRecord
    BY ZenonT(30) DEF RunRecord, RunPcs
  <2>4. /\ new.pc = "gates" /\ new.manifest = run[r].manifest
        /\ new.stored = run[r].stored /\ new.verdict = run[r].verdict
    BY DEF RunRecord
  <2> HIDE DEF new
  <2> QED
    BY <1>2, <2>2, <2>3, <2>4, UpdatedRun
<1> QED
  BY <1>1, <1>2

LEMMA JudgeEffect ==
  ASSUME run \in [Runs -> RunRecord], NEW r \in Runs, Judge(r)
  PROVE  /\ run' \in [Runs -> RunRecord] /\ Others(r)
         /\ run'[r].pc = "report"
         /\ run'[r].manifest = run[r].manifest
         /\ run'[r].stored = run[r].stored
         /\ run'[r].verdict \in Decisions
         /\ run'[r].report \in Reports
         /\ run'[r].verdict = "accept" =>
                /\ ~RequiredFailed(run'[r].report)
                /\ \E i \in GateIds : Gates[i].required
<1>1. PICK report \in Reports, change \in Changes :
         run' = [run EXCEPT
            ![r].pc = "report",
            ![r].report = report,
            ![r].verdict =
               Decide([change |-> change, report |-> report,
                       evidence |-> EvidenceOf(r, report), provenance |-> TRUE,
                       approval |-> HumanApproval, mismatch |-> StrictVerifier,
                       metaEvaluation |-> MetaTask])]
  BY DEF Judge
<1> DEFINE in == [change |-> change, report |-> report,
                  evidence |-> EvidenceOf(r, report), provenance |-> TRUE,
                  approval |-> HumanApproval, mismatch |-> StrictVerifier,
                  metaEvaluation |-> MetaTask]
           decision == Decide(in)
           new == [run[r] EXCEPT !.pc = "report", !.report = report, !.verdict = decision]
<1>2. decision \in Decisions
  BY DecideDecides
<1>3. in.report = report
  OBVIOUS
<1>4. decision = "accept" => ~RequiredFailed(report) /\ \E i \in GateIds : Gates[i].required
  <2> HIDE DEF in
  <2> QED  BY <1>3, DecideAccepts
<1>5. run' = [run EXCEPT ![r].pc = "report", ![r].report = report, ![r].verdict = decision]
  BY <1>1
<1> HIDE DEF decision, in
<1>6. run' = [run EXCEPT ![r] = new]
  BY <1>5
<1>7. new \in RunRecord
  BY <1>2, ZenonT(30) DEF RunRecord, RunPcs
<1>8. /\ new.pc = "report" /\ new.manifest = run[r].manifest /\ new.report = report
      /\ new.stored = run[r].stored /\ new.verdict = decision
  BY DEF RunRecord
<1> HIDE DEF new
<1>9. run' \in [Runs -> RunRecord] /\ Others(r) /\ run'[r] = new
  BY <1>6, <1>7, UpdatedRun
<1> QED
  BY <1>2, <1>4, <1>8, <1>9

LEMMA WriteReportEffect ==
  ASSUME run \in [Runs -> RunRecord], NEW r \in Runs, WriteReport(r)
  PROVE  /\ run' \in [Runs -> RunRecord] /\ Others(r)
         /\ run'[r].pc = "final"
         /\ run'[r].manifest = run[r].manifest
         /\ run'[r].stored = run[r].verdict
         /\ run'[r].verdict = run[r].verdict
<1> DEFINE nothing == <<>>
           new == [run[r] EXCEPT !.stored = run[r].verdict, !.pc = "final",
                                 !.report = nothing, !.failedOnBase = FALSE]
<1>1. nothing \in Reports \union {<<>>}
  OBVIOUS
<1>2. run' = [run EXCEPT ![r].stored = run[r].verdict, ![r].pc = "final",
                         ![r].report = nothing, ![r].failedOnBase = FALSE]
  BY DEF WriteReport
<1> HIDE DEF nothing
<1>3. new \in RunRecord
  BY <1>1, ZenonT(30) DEF RunRecord, RunPcs
<1>4. run' = [run EXCEPT ![r] = new]
  BY <1>2
<1>5. /\ new.pc = "final" /\ new.manifest = run[r].manifest
      /\ new.stored = run[r].verdict /\ new.verdict = run[r].verdict
  BY DEF RunRecord
<1> HIDE DEF new
<1> QED
  BY <1>3, <1>4, <1>5, UpdatedRun

LEMMA ReturnAgentFailedEffect ==
  ASSUME RunTypes, NEW r \in Runs, ReturnAgentFailed(r)
  PROVE  /\ run' \in [Runs -> RunRecord] /\ Others(r)
         /\ faults' \in FaultRecord /\ faults'.errors >= faults.errors
         /\ run'[r].pc = "cleanup" /\ run'[r].status = "failed" /\ run'[r].stored = "failure"
         /\ run'[r].verdict = run[r].verdict
         /\ \/ run'[r].manifest = "failed"
            \/ run'[r].manifest = run[r].manifest /\ faults'.errors = faults.errors + 1
<1>1. PICK written \in BOOLEAN :
         /\ IF written THEN UNCHANGED faults ELSE CallFails
         /\ run' = [run EXCEPT
               ![r].pc = "cleanup", ![r].status = "failed", ![r].stored = "failure",
               ![r].manifest = IF written THEN "failed" ELSE @]
  BY DEF ReturnAgentFailed
<1>2. \/ written /\ faults' = faults
      \/ ~written /\ faults' \in FaultRecord /\ faults'.errors = faults.errors + 1
  BY <1>1, FaultType DEF CallFails, RunTypes
<1> DEFINE told == IF written THEN "failed" ELSE run[r].manifest
           new == [run[r] EXCEPT !.pc = "cleanup", !.status = "failed", !.stored = "failure",
                                 !.manifest = told]
<1>3. run' = [run EXCEPT ![r] = new]
  BY <1>1
<1>4. run[r] \in RunRecord
  BY DEF RunTypes
<1>5. told \in RunStatuses \union {"none", "running"}
  BY <1>4, StatusesReturned DEF RunRecord
<1> HIDE DEF told
<1>6. new \in RunRecord
  BY <1>4, <1>5, StatusesReturned DEF RunRecord, RunPcs
<1>7. /\ new.pc = "cleanup" /\ new.status = "failed" /\ new.stored = "failure"
      /\ new.manifest = told /\ new.verdict = run[r].verdict
  BY <1>4 DEF RunRecord
<1> HIDE DEF new
<1>8. run' \in [Runs -> RunRecord] /\ Others(r) /\ run'[r] = new
  BY <1>3, <1>6, UpdatedRun DEF RunTypes
<1> QED
  BY <1>2, <1>7, <1>8 DEF told, RunTypes, FaultRecord

LEMMA CatchReportEffect ==
  ASSUME RunTypes, NEW r \in Runs, CatchReport(r)
  PROVE  /\ run' \in [Runs -> RunRecord] /\ Others(r)
         /\ faults' \in FaultRecord /\ faults'.errors >= faults.errors
         /\ run'[r].pc = "catchFinal" /\ run'[r].status = run[r].status
         /\ run'[r].verdict = run[r].verdict /\ run'[r].manifest = run[r].manifest
         /\ \/ run'[r].stored = "failure"
            \/ run'[r].stored = run[r].stored /\ faults'.errors = faults.errors + 1
<1>1. PICK written \in BOOLEAN :
         /\ IF written THEN UNCHANGED faults ELSE CallFails
         /\ run' = [run EXCEPT ![r].pc = "catchFinal",
                               ![r].stored = IF written THEN "failure" ELSE @]
  BY DEF CatchReport
<1>2. \/ written /\ faults' = faults
      \/ ~written /\ faults' \in FaultRecord /\ faults'.errors = faults.errors + 1
  BY <1>1, FaultType DEF CallFails, RunTypes
<1> DEFINE told == IF written THEN "failure" ELSE run[r].stored
           new == [run[r] EXCEPT !.pc = "catchFinal", !.stored = told]
<1>3. run' = [run EXCEPT ![r] = new]
  BY <1>1
<1>4. run[r] \in RunRecord
  BY DEF RunTypes
<1>5. told \in Decisions \union {"none", "failure"}
  BY <1>4 DEF RunRecord
<1> HIDE DEF told
<1>6. new \in RunRecord
  BY <1>4, <1>5 DEF RunRecord, RunPcs
<1>7. /\ new.pc = "catchFinal" /\ new.status = run[r].status /\ new.stored = told
      /\ new.manifest = run[r].manifest /\ new.verdict = run[r].verdict
  BY <1>4 DEF RunRecord
<1> HIDE DEF new
<1>8. run' \in [Runs -> RunRecord] /\ Others(r) /\ run'[r] = new
  BY <1>3, <1>6, UpdatedRun DEF RunTypes
<1> QED
  BY <1>2, <1>7, <1>8 DEF told, RunTypes, FaultRecord

LEMMA CrashEffect ==
  ASSUME RunTypes, NEW r \in Runs, Crash(r)
  PROVE  /\ run' \in [Runs -> RunRecord] /\ Others(r)
         /\ faults' \in FaultRecord /\ faults'.errors = faults.errors
         /\ run'[r].pc = "dead" /\ run'[r].verdict = "none"
<1> DEFINE new == [NewRun EXCEPT !.pc = "dead", !.stored = run[r].stored,
                                 !.manifest = run[r].manifest]
<1>1. run' = [run EXCEPT ![r] = new]
  BY DEF Crash
<1>2. new \in RunRecord
  BY DEF RunTypes, RunRecord, RunPcs, NewRun
<1>3. new.pc = "dead" /\ new.verdict = "none"
  BY DEF NewRun
<1> HIDE DEF new
<1>4. run' \in [Runs -> RunRecord] /\ Others(r) /\ run'[r] = new
  BY <1>1, <1>2, UpdatedRun DEF RunTypes
<1>5. faults' \in FaultRecord /\ faults'.errors = faults.errors
  BY FaultType DEF Crash, RunTypes
<1> QED
  BY <1>3, <1>4, <1>5
-----------------------------------------------------------------------------
(* Type correctness *)

LEMMA RunTypesStep ==
  ASSUME RunTypes, NEW r \in Runs, RunStep(r), Records(r)
  PROVE  RunTypes'
<1> USE DEF RunTypes, RunPcs
<1>0. run[r].pc = "final" => TerminalStatus[run[r].verdict] \in RunStatuses
  BY StatusesReturned DEF Records
<1>aux. run[r].pc = "catchFinal" => run[r].status \in RunStatuses
  BY StatusesReturned DEF Records
<1>1. CASE Begin(r)  BY <1>1, BeginEffect DEF Begin
<1>2. CASE BeginThrows(r)  BY <1>2, BeginThrowsEffect, FaultType DEF BeginThrows, CallFails
<1>3. CASE Create(r)  BY <1>3, GoUnlessAbortedEffect DEF Create
<1>4. CASE Created(r)  BY <1>4, GoEffect, ThrowEffect DEF Created
<1>5. CASE CreateCancelled(r)  BY <1>5, ThrowEffect DEF CreateCancelled
<1>6. CASE Provisioned(r)  BY <1>6, GoEffect, ThrowEffect DEF Provisioned
<1>7. CASE StartCapture(r)
  <2>1. capture' \in [Runs -> CaptureRecord]
    BY <1>7 DEF StartCapture, CaptureRecord
  <2> QED
    BY <1>7, <2>1, GoUnlessAbortedEffect DEF StartCapture
<1>8. CASE Captured(r)  BY <1>8, GoEffect, ThrowEffect DEF Captured
<1>9. CASE StartAgent(r)  BY <1>9, GoUnlessAbortedEffect DEF StartAgent
<1>10. CASE ApplyStoredPatch(r)  BY <1>10, GoUnlessAbortedEffect DEF ApplyStoredPatch
<1>11. CASE AgentEnds(r)  BY <1>11, GoEffect DEF AgentEnds
<1>12. CASE AgentTimeout(r)  BY <1>12, GoEffect DEF AgentTimeout
<1>13. CASE Diff(r)  BY <1>13, GoEffect DEF Diff
<1>14. CASE BaseCreated(r)  BY <1>14, GoEffect, ThrowEffect DEF BaseCreated
<1>15. CASE BaseProvisioned(r)  BY <1>15, GoEffect DEF BaseProvisioned
<1>16. CASE BaseTests(r)  BY <1>16, BaseTestsEffect DEF BaseTests
<1>17. CASE Judge(r)  BY <1>17, JudgeEffect DEF Judge
<1>18. CASE WriteReport(r)  BY <1>18, WriteReportEffect DEF WriteReport
<1>19. CASE Return(r)  BY <1>19, FinalizeEffect, <1>0 DEF Return, At
<1>20. CASE ReturnAgentFailed(r)  BY <1>20, ReturnAgentFailedEffect DEF ReturnAgentFailed
<1>21. CASE CatchReport(r)  BY <1>21, CatchReportEffect DEF CatchReport
<1>22. CASE CatchReturn(r)  BY <1>22, FinalizeEffect, <1>aux DEF CatchReturn, At
<1>23. CASE CleanedUp(r)  BY <1>23, GoEffect DEF CleanedUp
<1> QED
  BY <1>1, <1>2, <1>3, <1>4, <1>5, <1>6, <1>7, <1>8, <1>9, <1>10, <1>11, <1>12, <1>13, <1>14,
     <1>15, <1>16, <1>17, <1>18, <1>19, <1>20, <1>21, <1>22, <1>23 DEF RunStep

(* The steps of captureBaseline and of the agent, the faults. *)
LEMMA OtherTypesStep ==
  ASSUME RunTypes, NEW r \in Runs,
         \/ Begin(r) \/ BeginThrows(r) \/ Capture(r) \/ CaptureFails(r)
         \/ AgentDies(r) \/ StepThrows(r) \/ Abort(r) \/ Crash(r)
  PROVE  RunTypes'
<1>1. CASE Begin(r)  BY <1>1, BeginEffect DEF Begin, RunTypes
<1>2. CASE BeginThrows(r)
  BY <1>2, BeginThrowsEffect, FaultType DEF BeginThrows, CallFails, RunTypes
<1>3. CASE CaptureRead(r)
  <2>1. capture' \in [Runs -> CaptureRecord]
    BY <1>3 DEF CaptureRead, CaptureRecord, RunTypes
  <2> QED  BY <1>3, <2>1 DEF CaptureRead, RunTypes
<1>4. CASE CaptureGates(r)
  <2>1. RedOnBase \in SUBSET GateIds /\ BaselineGates \in SUBSET GateIds
    BY KernelAssumption
  <2>2. PICK killed \in SUBSET BaselineGates :
           capture' = [capture EXCEPT ![r] = [pc |-> "write", red |-> RedOnBase \union killed]]
    BY <1>4 DEF CaptureGates
  <2>3. RedOnBase \union killed \in SUBSET GateIds
    BY <2>1
  <2>4. capture' \in [Runs -> CaptureRecord]
    BY <2>2, <2>3 DEF CaptureRecord, RunTypes
  <2> QED  BY <1>4, <2>4 DEF CaptureGates, RunTypes
<1>5. CASE CaptureWrite(r)
  <2>1. capture[r].red \in SUBSET GateIds
    BY DEF CaptureRecord, RunTypes
  <2>2. capture' \in [Runs -> CaptureRecord]
    BY <1>5 DEF CaptureWrite, CaptureRecord, RunTypes
  <2> QED  BY <1>5, <2>1, <2>2 DEF CaptureWrite, RunTypes
<1>6. CASE CaptureFails(r)
  <2>1. capture' \in [Runs -> CaptureRecord]
    BY <1>6 DEF CaptureFails, CaptureRecord, RunTypes
  <2> QED  BY <1>6, <2>1, FaultType DEF CaptureFails, CallFails, RunTypes
<1>7. CASE AgentDies(r)  BY <1>7 DEF AgentDies, RunTypes
<1>8. CASE StepThrows(r)
  BY <1>8, ThrowEffect, FaultType DEF StepThrows, CallFails, RunTypes
<1>9. CASE Abort(r)
  <2>1. run' \in [Runs -> RunRecord]
    BY <1>9, GoEffect, ThrowEffect DEF Abort, RunTypes, RunPcs
  <2>2. faults' \in FaultRecord
    BY <1>9, FaultType DEF Abort, RunTypes
  <2> QED  BY <1>9, <2>1, <2>2 DEF Abort, RunTypes
<1>10. CASE Crash(r)
  <2>1. capture' \in [Runs -> CaptureRecord]
    BY <1>10 DEF Crash, CaptureRecord, RunTypes
  <2> QED  BY <1>10, <2>1, CrashEffect DEF Crash, RunTypes
<1> QED
  BY <1>1, <1>2, <1>3, <1>4, <1>5, <1>6, <1>7, <1>8, <1>9, <1>10 DEF Capture

(* What the steps of a run do to the worktrees and the dependencies. *)
LEMMA SharedTypesStep ==
  ASSUME WorktreesTypeOK, CacheTypeOK, NEW r \in Runs,
         \/ RunStep(r) \/ Begin(r) \/ BeginThrows(r) \/ Capture(r) \/ CaptureFails(r)
         \/ AgentDies(r) \/ StepThrows(r) \/ Abort(r) \/ Crash(r)
  PROVE  WorktreesTypeOK' /\ CacheTypeOK'
<1>1. Candidate(r) \in Worktrees /\ Base(r) \in Worktrees
  BY KernelAssumption DEF Candidate, Base
<1>2. CASE UNCHANGED <<worktreeVars, cacheVars>>
  BY <1>2, KeptShared
<1>3. CASE Create(r)
  BY <1>3, <1>1 DEF Create, WorktreesTypeOK, CacheTypeOK, cacheVars, GitPcs
<1>4. CASE Created(r)
  BY <1>4, <1>1, ProvToTypes
     DEF Created, WorktreesTypeOK, CacheTypeOK, worktreeVars, ProvPcs, Trees
<1>5. CASE Diff(r)
  BY <1>5, <1>1 DEF Diff, WorktreesTypeOK, CacheTypeOK, cacheVars, GitPcs
<1>6. CASE BaseCreated(r)
  BY <1>6, <1>1, ProvToTypes
     DEF BaseCreated, WorktreesTypeOK, CacheTypeOK, worktreeVars, ProvPcs, Trees
<1>7. CASE Return(r)
  BY <1>7 DEF Return, StartCleanup, WorktreesTypeOK, CacheTypeOK, cacheVars, GitPcs
<1>8. CASE ReturnAgentFailed(r)
  BY <1>8 DEF ReturnAgentFailed, StartCleanup, WorktreesTypeOK, CacheTypeOK, cacheVars, GitPcs
<1>9. CASE CatchReturn(r)
  BY <1>9 DEF CatchReturn, StartCleanup, WorktreesTypeOK, CacheTypeOK, cacheVars, GitPcs
<1>10. CASE Crash(r)
  BY <1>10 DEF Crash, KillGit, KillProvisions, WorktreesTypeOK, CacheTypeOK, GitPcs, ProvPcs, Trees
<1> QED
  BY <1>2, <1>3, <1>4, <1>5, <1>6, <1>7, <1>8, <1>9, <1>10
     DEF RunStep, CreateCancelled, Provisioned, StartCapture, Captured, StartAgent,
         ApplyStoredPatch, AgentEnds, AgentTimeout, BaseProvisioned, BaseTests, Judge,
         WriteReport, CatchReport, CleanedUp, Begin, BeginThrows, Capture, CaptureRead,
         CaptureGates, CaptureWrite, CaptureFails, AgentDies, StepThrows, Abort
-----------------------------------------------------------------------------
(* What a step of a run keeps *)

(* The step is one of r: nothing of another run changes, no error is       *)
(* forgotten.                                                              *)
Alone(r) ==
    /\ Others(r)
    /\ \A s \in Runs \ {r} : agent'[s] = agent[s]
    /\ aborted' \subseteq aborted \union {r}
    /\ faults'.errors \in Nat
    /\ faults'.errors >= faults.errors

RunGood(r) == Quiet(r) /\ AbortSeen(r) /\ Records(r)

LEMMA OthersKept ==
  ASSUME RunTypes, RunInv, NEW r \in Runs, Alone(r), RunGood(r)'
  PROVE  RunInv'
<1> SUFFICES ASSUME NEW s \in Runs \ {r}
             PROVE  RunGood(s)'
  BY DEF RunInv, RunGood
<1>1. RunGood(s)
  BY DEF RunInv, RunGood
<1>2. run'[s] = run[s] /\ agent'[s] = agent[s] /\ (s \in aborted' => s \in aborted)
  BY DEF Alone, Others
<1>3. faults.errors \in Nat /\ faults'.errors \in Nat /\ faults'.errors >= faults.errors
  BY DEF Alone, RunTypes, FaultRecord
<1>4. Quiet(s)' /\ AbortSeen(s)'
  BY <1>1, <1>2 DEF RunGood, Quiet, AbortSeen
<1>5. Records(s)'
  BY <1>1, <1>2, <1>3 DEF RunGood, Records
<1> QED
  BY <1>4, <1>5 DEF RunGood

(* The moves of a run between its start and its end: on to the next await, *)
(* or into the catch.                                                      *)
Working == RunPcs \ (Unsettled \union {"start", "report"})

KeepsFiles(r) == run'[r].stored = run[r].stored /\ run'[r].manifest = run[r].manifest

Onward(r) ==
    /\ run[r].pc \in Working
    /\ run'[r].pc \in Working
    /\ KeepsFiles(r)

Thrown(r) ==
    /\ run[r].pc \in Working \union {"report", "final"}
    /\ run[r].pc = "final" => faults'.errors > faults.errors
    /\ run'[r].pc = "catch"
    /\ run'[r].status \in {"failed", "cancelled"}
    /\ KeepsFiles(r)

LEMMA OnwardRecords ==
  ASSUME NEW r \in Runs, Records(r), Onward(r)
  PROVE  Records(r)'
  BY DEF Records, Onward, Working, RunPcs, Unsettled, KeepsFiles

LEMMA ThrownRecords ==
  ASSUME RunTypes, RunTypes', NEW r \in Runs, Records(r), Thrown(r)
  PROVE  Records(r)'
<1>1. faults.errors \in Nat /\ faults'.errors \in Nat
  BY DEF RunTypes, FaultRecord
<1>2. run'[r].stored \in Decisions => faults'.errors >= 1
  <2>1. CASE run[r].pc = "final"
    BY <1>1, <2>1 DEF Thrown
  <2>2. CASE run[r].pc # "final"
    BY <2>2 DEF Records, Thrown, Working, Unsettled, KeepsFiles, Decisions
  <2> QED  BY <2>1, <2>2
<1> QED
  BY <1>2 DEF Records, Thrown, Working, RunPcs, Unsettled, KeepsFiles

LEMMA StepMoves ==
  ASSUME RunTypes, NEW r \in Runs,
         \/ Create(r) \/ Created(r) \/ CreateCancelled(r) \/ Provisioned(r) \/ StartCapture(r)
         \/ Captured(r) \/ StartAgent(r) \/ ApplyStoredPatch(r) \/ AgentEnds(r) \/ AgentTimeout(r)
         \/ Diff(r) \/ BaseCreated(r) \/ BaseProvisioned(r) \/ BaseTests(r) \/ StepThrows(r)
  PROVE  Others(r) /\ (Onward(r) \/ Thrown(r))
<1> USE DEF Onward, Thrown, Working, KeepsFiles, RunPcs, Unsettled, At
<1>0. run \in [Runs -> RunRecord]
  BY DEF RunTypes
<1>1. CASE Create(r)
  BY <1>0, <1>1, GoUnlessAbortedEffect DEF Create
<1>2. CASE Created(r)
  BY <1>0, <1>2, GoEffect, ThrowEffect DEF Created
<1>3. CASE CreateCancelled(r)
  BY <1>0, <1>3, ThrowEffect DEF CreateCancelled
<1>4. CASE Provisioned(r)
  BY <1>0, <1>4, GoEffect, ThrowEffect DEF Provisioned
<1>5. CASE StartCapture(r)
  BY <1>0, <1>5, GoUnlessAbortedEffect DEF StartCapture
<1>6. CASE Captured(r)
  BY <1>0, <1>6, GoEffect, ThrowEffect DEF Captured
<1>7. CASE StartAgent(r)
  BY <1>0, <1>7, GoUnlessAbortedEffect DEF StartAgent
<1>8. CASE ApplyStoredPatch(r)
  BY <1>0, <1>8, GoUnlessAbortedEffect DEF ApplyStoredPatch
<1>9. CASE AgentEnds(r)
  BY <1>0, <1>9, GoEffect DEF AgentEnds
<1>10. CASE AgentTimeout(r)
  BY <1>0, <1>10, GoEffect DEF AgentTimeout
<1>11. CASE Diff(r)
  BY <1>0, <1>11, GoEffect DEF Diff
<1>12. CASE BaseCreated(r)
  BY <1>0, <1>12, GoEffect, ThrowEffect DEF BaseCreated
<1>13. CASE BaseProvisioned(r)
  BY <1>0, <1>13, GoEffect DEF BaseProvisioned
<1>14. CASE BaseTests(r)
  <2>1. At(r, "baseTests")
    BY <1>14 DEF BaseTests
  <2> QED
    BY <1>0, <1>14, <2>1, BaseTestsEffect
<1>15. CASE StepThrows(r)
  <2>1. faults'.errors = faults.errors + 1 /\ faults.errors \in Nat
    BY <1>15, FaultType DEF StepThrows, CallFails, RunTypes, FaultRecord
  <2> QED
    BY <1>0, <1>15, <2>1, ThrowEffect DEF StepThrows
<1> QED
  BY <1>1, <1>2, <1>3, <1>4, <1>5, <1>6, <1>7, <1>8, <1>9, <1>10, <1>11, <1>12, <1>13, <1>14, <1>15

LEMMA StepMovesGood ==
  ASSUME RunTypes, RunTypes', RunInv, NEW r \in Runs,
         \/ Create(r) \/ Created(r) \/ CreateCancelled(r) \/ Provisioned(r) \/ StartCapture(r)
         \/ Captured(r) \/ StartAgent(r) \/ ApplyStoredPatch(r) \/ AgentEnds(r) \/ AgentTimeout(r)
         \/ Diff(r) \/ BaseCreated(r) \/ BaseProvisioned(r) \/ BaseTests(r) \/ StepThrows(r)
  PROVE  Alone(r) /\ RunGood(r)'
<1>0. run \in [Runs -> RunRecord] /\ agent \in [Runs -> {"none", "running", "dying"}]
  BY DEF RunTypes
<1>aux. faults.errors \in Nat /\ faults'.errors \in Nat
  BY DEF RunTypes, FaultRecord
<1>inv. Quiet(r) /\ AbortSeen(r) /\ Records(r)
  BY DEF RunInv
<1>1. Others(r) /\ (Onward(r) \/ Thrown(r))
  BY StepMoves
<1>2. Records(r)'
  BY <1>inv, <1>1, OnwardRecords, ThrownRecords
<1>3. aborted' = aborted /\ faults'.errors >= faults.errors
  <2>1. CASE StepThrows(r)
    BY <1>aux, <2>1, FaultType DEF StepThrows, CallFails, RunTypes
  <2>2. CASE ~StepThrows(r)
    <3>1. aborted' = aborted /\ faults' = faults
      BY <2>2
         DEF Create, Created, CreateCancelled, Provisioned, StartCapture, Captured, StartAgent,
             ApplyStoredPatch,
         AgentEnds, AgentTimeout, Diff, BaseCreated, BaseProvisioned, BaseTests, StepThrows
    <3> QED  BY <1>aux, <3>1
  <2> QED  BY <2>1, <2>2
<1>4. \A s \in Runs \ {r} : agent'[s] = agent[s]
  BY <1>0
     DEF Create, Created, CreateCancelled, Provisioned, StartCapture, Captured, StartAgent,
         ApplyStoredPatch,
         AgentEnds, AgentTimeout, Diff, BaseCreated, BaseProvisioned, BaseTests, StepThrows
<1>5. Alone(r)
  BY <1>aux, <1>1, <1>3, <1>4 DEF Alone
<1>6. Quiet(r)' /\ AbortSeen(r)'
  <2> USE DEF Quiet, AbortSeen, CancellableWaits, RunPcs, At
  <2>1. CASE Create(r)  BY <1>0, <1>inv, <2>1, GoUnlessAbortedEffect DEF Create
  <2>2. CASE Created(r)  BY <1>0, <1>inv, <2>2, GoEffect, ThrowEffect DEF Created
  <2>3. CASE CreateCancelled(r)  BY <1>0, <1>inv, <2>3, ThrowEffect DEF CreateCancelled
  <2>4. CASE Provisioned(r)  BY <1>0, <1>inv, <2>4, GoEffect, ThrowEffect DEF Provisioned
  <2>5. CASE StartCapture(r)  BY <1>0, <1>inv, <2>5, GoUnlessAbortedEffect DEF StartCapture
  <2>6. CASE Captured(r)  BY <1>0, <1>inv, <2>6, GoEffect, ThrowEffect DEF Captured
  <2>7. CASE StartAgent(r)  BY <1>0, <1>inv, <2>7, GoUnlessAbortedEffect DEF StartAgent
  <2>8. CASE ApplyStoredPatch(r)  BY <1>0, <1>inv, <2>8, GoUnlessAbortedEffect DEF ApplyStoredPatch
  <2>9. CASE AgentEnds(r)  BY <1>0, <1>inv, <2>9, GoEffect DEF AgentEnds
  <2>10. CASE AgentTimeout(r)  BY <1>0, <1>inv, <2>10, GoEffect DEF AgentTimeout
  <2>11. CASE Diff(r)  BY <1>0, <1>inv, <2>11, GoEffect DEF Diff
  <2>12. CASE BaseCreated(r)  BY <1>0, <1>inv, <2>12, GoEffect, ThrowEffect DEF BaseCreated
  <2>13. CASE BaseProvisioned(r)  BY <1>0, <1>inv, <2>13, GoEffect DEF BaseProvisioned
  <2>14. CASE BaseTests(r)
    <3>1. At(r, "baseTests") /\ agent' = agent /\ aborted' = aborted
      BY <2>14 DEF BaseTests
    <3>2. run'[r].pc = IF r \in aborted THEN "catch" ELSE "gates"
      BY <1>0, <2>14, BaseTestsEffect
    <3> QED
      BY <1>inv, <3>1, <3>2
  <2>15. CASE StepThrows(r)  BY <1>0, <1>inv, <2>15, ThrowEffect DEF StepThrows
  <2> QED
    BY <2>1, <2>2, <2>3, <2>4, <2>5, <2>6, <2>7, <2>8, <2>9, <2>10, <2>11, <2>12, <2>13, <2>14,
       <2>15
<1> QED
  BY <1>2, <1>5, <1>6 DEF RunGood

(* The steps at the start and at the end of a run, aborts and crashes. *)
LEMMA OtherStepsGood ==
  ASSUME RunTypes, RunTypes', RunInv, NEW r \in Runs,
         \/ Begin(r) \/ BeginThrows(r) \/ AgentDies(r) \/ Judge(r) \/ WriteReport(r)
         \/ Return(r) \/ ReturnAgentFailed(r) \/ CatchReport(r) \/ CatchReturn(r)
         \/ CleanedUp(r) \/ Abort(r) \/ Crash(r)
  PROVE  Alone(r) /\ RunGood(r)'
<1>0. /\ run \in [Runs -> RunRecord] /\ agent \in [Runs -> {"none", "running", "dying"}]
      /\ faults \in FaultRecord /\ faults.errors \in Nat /\ faults'.errors \in Nat
      /\ Quiet(r) /\ AbortSeen(r) /\ Records(r)
  BY DEF RunTypes, FaultRecord, RunInv
<1>1. CASE Begin(r)
  <2>1. /\ run[r].pc = "start"
        /\ agent' = agent /\ aborted' = aborted /\ faults' = faults
    BY <1>1 DEF Begin, At
  <2>2. /\ Others(r) /\ run'[r].pc = "create" /\ run'[r].manifest = "running"
        /\ run'[r].stored = run[r].stored
    BY <1>0, <1>1, BeginEffect
  <2>3. Alone(r)
    BY <1>0, <2>1, <2>2 DEF Alone
  <2>4. Quiet(r)' /\ AbortSeen(r)'
    BY <1>0, <2>1, <2>2 DEF Quiet, AbortSeen, CancellableWaits
  <2>5. Records(r)'
    BY <1>0, <2>1, <2>2 DEF Records, Unsettled, Decisions
  <2> QED
    BY <2>3, <2>4, <2>5 DEF RunGood
<1>2. CASE BeginThrows(r)
  <2>1. /\ run[r].pc = "start"
        /\ agent' = agent /\ aborted' = aborted /\ faults'.errors = faults.errors + 1
    BY <1>2, <1>0, FaultType DEF BeginThrows, CallFails, At
  <2>2. /\ Others(r) /\ run'[r].pc = "returned"
        /\ run'[r].stored = run[r].stored /\ run'[r].manifest = run[r].manifest
    BY <1>0, <1>2, BeginThrowsEffect
  <2>3. Alone(r)
    BY <1>0, <2>1, <2>2 DEF Alone
  <2>4. Quiet(r)' /\ AbortSeen(r)'
    BY <1>0, <2>1, <2>2 DEF Quiet, AbortSeen, CancellableWaits
  <2>5. Records(r)'
    BY <1>0, <2>1, <2>2 DEF Records, Unsettled, Decisions
  <2> QED
    BY <2>3, <2>4, <2>5 DEF RunGood
<1>3. CASE AgentDies(r)
  <2>1. /\ run' = run /\ aborted' = aborted /\ faults' = faults
        /\ agent' = [agent EXCEPT ![r] = "none"]
    BY <1>3 DEF AgentDies
  <2>2. Alone(r)
    BY <1>0, <2>1 DEF Alone, Others
  <2>3. Quiet(r)' /\ AbortSeen(r)'
    BY <1>0, <2>1 DEF Quiet, AbortSeen
  <2>4. Records(r)'
    BY <1>0, <2>1 DEF Records
  <2> QED
    BY <2>2, <2>3, <2>4 DEF RunGood
<1>4. CASE Judge(r)
  <2>1. /\ run[r].pc = "gates"
        /\ agent' = agent /\ aborted' = aborted /\ faults' = faults
    BY <1>4 DEF Judge, At
  <2>2. /\ Others(r) /\ run'[r].pc = "report" /\ run'[r].verdict \in Decisions
        /\ run'[r].stored = run[r].stored /\ run'[r].manifest = run[r].manifest
    BY <1>0, <1>4, JudgeEffect
  <2>3. Alone(r)
    BY <1>0, <2>1, <2>2 DEF Alone
  <2>4. Quiet(r)' /\ AbortSeen(r)'
    BY <1>0, <2>1, <2>2 DEF Quiet, AbortSeen, CancellableWaits
  <2>5. Records(r)'
    BY <1>0, <2>1, <2>2 DEF Records, Unsettled, Decisions
  <2> QED
    BY <2>3, <2>4, <2>5 DEF RunGood
<1>5. CASE WriteReport(r)
  <2>1. /\ run[r].pc = "report"
        /\ agent' = agent /\ aborted' = aborted /\ faults' = faults
    BY <1>5 DEF WriteReport, At
  <2>2. /\ Others(r) /\ run'[r].pc = "final" /\ run'[r].verdict = run[r].verdict
        /\ run'[r].stored = run[r].verdict /\ run'[r].manifest = run[r].manifest
    BY <1>0, <1>5, WriteReportEffect
  <2>3. Alone(r)
    BY <1>0, <2>1, <2>2 DEF Alone
  <2>4. Quiet(r)' /\ AbortSeen(r)'
    BY <1>0, <2>1, <2>2 DEF Quiet, AbortSeen, CancellableWaits
  <2>5. Records(r)'
    BY <1>0, <2>1, <2>2 DEF Records, Unsettled, Decisions
  <2> QED
    BY <2>3, <2>4, <2>5 DEF RunGood
<1>6. CASE Return(r)
  <2>1. /\ run[r].pc = "final" /\ Finalize(r, TerminalStatus[run[r].verdict])
        /\ agent' = agent /\ aborted' = aborted
    BY <1>6 DEF Return, At
  <2>2. TerminalStatus[run[r].verdict] \in RunStatuses
    BY <1>0, <2>1, StatusesReturned DEF Records
  <2>3. run[r].manifest = "running"
    BY <1>0, <2>1 DEF Records
  <2>4. /\ Others(r) /\ run'[r].pc = "cleanup" /\ run'[r].stored = run[r].stored
        /\ run'[r].status = TerminalStatus[run[r].verdict]
        /\ \/ faults'.errors = faults.errors /\ run'[r].manifest = TerminalStatus[run[r].verdict]
           \/ faults'.errors = faults.errors + 1 /\ run'[r].manifest = "running"
    BY <2>1, <2>2, <2>3, FinalizeEffect
  <2>5. Alone(r)
    BY <1>0, <2>1, <2>4 DEF Alone
  <2>6. Quiet(r)' /\ AbortSeen(r)'
    BY <1>0, <2>1, <2>4 DEF Quiet, AbortSeen, CancellableWaits
  <2>7. run'[r].status = TerminalStatus[run'[r].stored]
    BY <1>0, <2>1, <2>4 DEF Records
  <2>8. Records(r)'
    BY <1>0, <2>4, <2>7 DEF Records, Unsettled
  <2> QED
    BY <2>5, <2>6, <2>8 DEF RunGood
<1>7. CASE ReturnAgentFailed(r)
  <2>1. /\ run[r].pc = "agentFailed"
        /\ agent' = agent /\ aborted' = aborted /\ TRUE
    BY <1>7 DEF ReturnAgentFailed, At
  <2>2. /\ Others(r) /\ run'[r].pc = "cleanup" /\ run'[r].status = "failed"
        /\ run'[r].stored = "failure" /\ faults'.errors >= faults.errors
        /\ \/ run'[r].manifest = "failed"
           \/ run'[r].manifest = run[r].manifest /\ faults'.errors = faults.errors + 1
    BY <1>0, <1>7, ReturnAgentFailedEffect
  <2>3. Alone(r)
    BY <1>0, <2>1, <2>2 DEF Alone
  <2>4. Quiet(r)' /\ AbortSeen(r)'
    BY <1>0, <2>1, <2>2 DEF Quiet, AbortSeen, CancellableWaits
  <2>5. Records(r)'
    BY <1>0, <2>1, <2>2 DEF Records, Unsettled, Decisions
  <2> QED
    BY <2>3, <2>4, <2>5 DEF RunGood
<1>8. CASE CatchReport(r)
  <2>1. /\ run[r].pc = "catch"
        /\ agent' = agent /\ aborted' = aborted /\ TRUE
    BY <1>8 DEF CatchReport, At
  <2>2. /\ Others(r) /\ run'[r].pc = "catchFinal" /\ run'[r].status = run[r].status
        /\ run'[r].manifest = run[r].manifest /\ faults'.errors >= faults.errors
        /\ \/ run'[r].stored = "failure"
           \/ run'[r].stored = run[r].stored /\ faults'.errors = faults.errors + 1
    BY <1>0, <1>8, CatchReportEffect
  <2>3. Alone(r)
    BY <1>0, <2>1, <2>2 DEF Alone
  <2>4. Quiet(r)' /\ AbortSeen(r)'
    BY <1>0, <2>1, <2>2 DEF Quiet, AbortSeen, CancellableWaits
  <2>5. Records(r)'
    BY <1>0, <2>1, <2>2 DEF Records, Unsettled, Decisions
  <2> QED
    BY <2>3, <2>4, <2>5 DEF RunGood
<1>9. CASE CatchReturn(r)
  <2>1. /\ run[r].pc = "catchFinal" /\ Finalize(r, run[r].status)
        /\ agent' = agent /\ aborted' = aborted
    BY <1>9 DEF CatchReturn, At
  <2>2. run[r].status \in RunStatuses
    BY <1>0, <2>1, StatusesReturned DEF Records
  <2>3. run[r].manifest = "running"
    BY <1>0, <2>1 DEF Records
  <2>4. /\ Others(r) /\ run'[r].pc = "cleanup" /\ run'[r].stored = run[r].stored
        /\ run'[r].status = run[r].status
        /\ \/ faults'.errors = faults.errors /\ run'[r].manifest = run[r].status
           \/ faults'.errors = faults.errors + 1 /\ run'[r].manifest = "running"
    BY <2>1, <2>2, <2>3, FinalizeEffect
  <2>5. Alone(r)
    BY <1>0, <2>1, <2>4 DEF Alone
  <2>6. Quiet(r)' /\ AbortSeen(r)'
    BY <1>0, <2>1, <2>4 DEF Quiet, AbortSeen, CancellableWaits
  <2>7. run'[r].stored \in Decisions => faults'.errors >= 2
    BY <1>0, <2>1, <2>4 DEF Records
  <2>8. Records(r)'
    BY <1>0, <2>4, <2>7 DEF Records, Unsettled
  <2> QED
    BY <2>5, <2>6, <2>8 DEF RunGood
<1>10. CASE CleanedUp(r)
  <2>1. /\ run[r].pc = "cleanup"
        /\ agent' = agent /\ aborted' = aborted /\ faults' = faults
    BY <1>10 DEF CleanedUp, At
  <2>2. /\ Others(r) /\ run'[r].pc = "returned" /\ run'[r].status = run[r].status
        /\ run'[r].stored = run[r].stored /\ run'[r].manifest = run[r].manifest
    BY <1>0, <1>10, GoEffect DEF CleanedUp, RunPcs
  <2>3. Alone(r)
    BY <1>0, <2>1, <2>2 DEF Alone
  <2>4. Quiet(r)' /\ AbortSeen(r)'
    BY <1>0, <2>1, <2>2 DEF Quiet, AbortSeen, CancellableWaits
  <2>5. Records(r)'
    BY <1>0, <2>1, <2>2 DEF Records, Unsettled, Decisions
  <2> QED
    BY <2>3, <2>4, <2>5 DEF RunGood
<1>11. CASE Abort(r)
  <2>1. /\ run[r].pc \notin {"start", "cleanup", "returned", "dead"}
        /\ aborted' = aborted \union {r} /\ faults'.errors = faults.errors
        /\ agent' = IF agent[r] = "running" THEN [agent EXCEPT ![r] = "dying"] ELSE agent
    BY <1>0, <1>11, FaultType DEF Abort
  <2>2. CASE run[r].pc = "creating"
    <3>1. Others(r) /\ run'[r].pc = "createCancelled" /\ KeepsFiles(r)
      BY <1>0, <1>11, <2>2, GoEffect DEF Abort, At, RunPcs, KeepsFiles
    <3>2. Onward(r)
      BY <2>2, <3>1 DEF Onward, Working, RunPcs, Unsettled
    <3>3. Records(r)'
      BY <1>0, <3>2, OnwardRecords
    <3> QED
      BY <1>0, <2>1, <2>2, <3>1, <3>3
         DEF Alone, RunGood, Quiet, AbortSeen, CancellableWaits
  <2>3. CASE run[r].pc \in CancellableWaits
    <3>1. /\ Others(r) /\ run'[r].pc = "catch" /\ run'[r].status = "cancelled"
          /\ KeepsFiles(r)
      BY <1>0, <1>11, <2>3, ThrowEffect DEF Abort, At, CancellableWaits, KeepsFiles
    <3>2. Thrown(r)
      BY <2>3, <3>1 DEF Thrown, Working, RunPcs, Unsettled, CancellableWaits
    <3>3. Records(r)'
      BY <1>0, <3>2, ThrownRecords
    <3> QED
      BY <1>0, <2>1, <2>3, <3>1, <3>3
         DEF Alone, RunGood, Quiet, AbortSeen, CancellableWaits
  <2>4. CASE run[r].pc \notin CancellableWaits \union {"creating"}
    <3>1. run' = run
      BY <1>11, <2>4 DEF Abort, At
    <3>2. Records(r)'
      BY <1>0, <2>1, <3>1 DEF Records
    <3> QED
      BY <1>0, <2>1, <2>4, <3>1, <3>2 DEF Alone, Others, RunGood, Quiet, AbortSeen
  <2> QED
    BY <2>2, <2>3, <2>4
<1>12. CASE Crash(r)
  <2>1. aborted' = aborted /\ agent' = [agent EXCEPT ![r] = "none"]
    BY <1>12 DEF Crash
  <2>2. Others(r) /\ run'[r].pc = "dead" /\ faults'.errors = faults.errors
    BY <1>12, CrashEffect
  <2>3. Alone(r)
    BY <1>0, <2>1, <2>2 DEF Alone
  <2>4. Quiet(r)' /\ AbortSeen(r)'
    BY <1>0, <2>1, <2>2 DEF Quiet, AbortSeen, CancellableWaits
  <2>5. Records(r)'
    BY <2>2 DEF Records, Unsettled
  <2> QED
    BY <2>3, <2>4, <2>5 DEF RunGood
<1> QED
  BY <1>1, <1>2, <1>3, <1>4, <1>5, <1>6, <1>7, <1>8, <1>9, <1>10, <1>11, <1>12
-----------------------------------------------------------------------------
(* The worktrees *)

LEMMA Names ==
  ASSUME NEW r \in Runs
  PROVE  /\ Candidate(r) \in Worktrees /\ Base(r) \in Worktrees
         /\ Candidate(r) # Base(r)
         /\ Own(r) = {Candidate(r), Base(r)}
         /\ \A s \in Runs \ {r} : Candidate(s) \notin Own(r) /\ Base(s) \notin Own(r)
  BY KernelAssumption DEF Candidate, Base, Own

(* One git mutation at a time. *)
LEMMA LockStep ==
  ASSUME WorktreesTypeOK, LockExclusive, NEW w \in Worktrees, GitCall(w)
  PROVE  LockExclusive'
<1> USE DEF WorktreesTypeOK, LockExclusive, Mutating
<1>1. CASE Acquire(w)  BY <1>1 DEF Acquire
<1>2. CASE LockTimeout(w)  BY <1>2 DEF LockTimeout, WithoutLock
<1>3. CASE LockWriteFails(w)  BY <1>3 DEF LockWriteFails, WithoutLock
<1>4. CASE Add(w)  BY <1>4 DEF Add
<1>5. CASE AddFails(w)  BY <1>5 DEF AddFails
<1>6. CASE Remove(w)  BY <1>6 DEF Remove
<1>7. CASE RemoveFails(w)  BY <1>7 DEF RemoveFails
<1>8. CASE Fallback(w)  BY <1>8 DEF Fallback
<1>9. CASE FallbackFails(w)  BY <1>9 DEF FallbackFails
<1> QED
  BY <1>1, <1>2, <1>3, <1>4, <1>5, <1>6, <1>7, <1>8, <1>9 DEF GitCall

(* How a call moves its worktree on. *)
Moves ==
    {<<"wantAdd", "adding">>, <<"wantAdd", "failed">>, <<"adding", "added">>,
     <<"adding", "failed">>, <<"wantRemove", "removing">>, <<"wantRemove", "fallback">>,
     <<"removing", "removed">>, <<"removing", "fallback">>, <<"fallback", "removed">>,
     <<"fallback", "leaked">>}

LEMMA GitCallMoves ==
  ASSUME WorktreesTypeOK, NEW w \in Worktrees, GitCall(w)
  PROVE  /\ <<git[w], git'[w]>> \in Moves
         /\ \A v \in Worktrees \ {w} : git'[v] = git[v]
         /\ \A v \in Worktrees \ {w} : v \in dirs' => v \in dirs
         /\ w \in dirs' => w \in dirs \/ git'[w] = "added"
         /\ git'[w] = "removed" => w \notin dirs'
  BY DEF GitCall, WorktreesTypeOK, Acquire, LockTimeout, LockWriteFails, Add, AddFails, Remove,
         RemoveFails, Fallback, FallbackFails, WithoutLock, Waiting, Moves

LEMMA StagesClosed ==
  ASSUME NEW pc \in RunPcs, NEW a, NEW b, <<a, b>> \in Moves
  PROVE  /\ a \in CandidateStages(pc) => b \in CandidateStages(pc)
         /\ a \in BaseStages(pc) => b \in BaseStages(pc)
  BY DEF Moves, CandidateStages, BaseStages, Adding, Gone

(* A git call: the run does not move. *)
LEMMA GitCallStaged ==
  ASSUME WorktreesTypeOK, RunTypes, \A r \in Runs : Staged(r), run' = run,
         NEW w \in Worktrees, GitCall(w)
  PROVE  \A r \in Runs : Staged(r)'
<1> SUFFICES ASSUME NEW r \in Runs  PROVE Staged(r)'
  OBVIOUS
<1>1. Candidate(r) \in Worktrees /\ Base(r) \in Worktrees /\ run[r].pc \in RunPcs
  BY Names DEF RunTypes, RunRecord
<1>2. git'[Candidate(r)] \in CandidateStages(run[r].pc)
  BY <1>1, GitCallMoves, StagesClosed DEF Staged
<1>3. git'[Base(r)] \in BaseStages(run[r].pc)
  BY <1>1, GitCallMoves, StagesClosed DEF Staged
<1> QED
  BY <1>2, <1>3 DEF Staged

LEMMA StagedOthers ==
  ASSUME \A r \in Runs : Staged(r), NEW r \in Runs, Others(r), Staged(r)',
         \A w \in Worktrees \ Own(r) : git'[w] = git[w]
  PROVE  \A s \in Runs : Staged(s)'
<1> SUFFICES ASSUME NEW s \in Runs \ {r}  PROVE Staged(s)'
  OBVIOUS
<1>1. git'[Candidate(s)] = git[Candidate(s)] /\ git'[Base(s)] = git[Base(s)]
  BY Names
<1> QED
  BY <1>1 DEF Staged, Others

(* What a step of a run does to its own worktrees. *)
LEMMA RunStaged ==
  ASSUME WorktreesTypeOK, RunTypes, RunInv, NEW r \in Runs, Staged(r),
         \/ RunStep(r) \/ Begin(r) \/ BeginThrows(r) \/ AgentDies(r)
         \/ StepThrows(r) \/ Abort(r) \/ Crash(r)
  PROVE  Staged(r)' /\ \A w \in Worktrees \ Own(r) : git'[w] = git[w]
<1>0. /\ run \in [Runs -> RunRecord] /\ run[r].pc \in RunPcs /\ git \in [Worktrees -> GitPcs]
      /\ git[Candidate(r)] \in CandidateStages(run[r].pc)
      /\ git[Base(r)] \in BaseStages(run[r].pc)
  BY DEF RunTypes, RunRecord, WorktreesTypeOK, Staged
<1>aux. /\ Candidate(r) \in Worktrees /\ Base(r) \in Worktrees /\ Candidate(r) # Base(r)
       /\ Own(r) = {Candidate(r), Base(r)}
  BY Names
<1> USE DEF CandidateStages, BaseStages, Adding, Gone
<1>1. CASE Created(r)
  <2>1. git' = git
    BY <1>1 DEF Created, worktreeVars
  <2> QED
    BY <1>0, <1>aux, <1>1, <2>1, GoEffect, ThrowEffect DEF Created, At, Staged, RunPcs
<1>2. CASE CreateCancelled(r)
  <2>1. git' = git
    BY <1>2 DEF CreateCancelled, worktreeVars
  <2> QED
    BY <1>0, <1>aux, <1>2, <2>1, ThrowEffect DEF CreateCancelled, At, Staged, RunPcs
<1>3. CASE Provisioned(r)
  <2>1. git' = git
    BY <1>3 DEF Provisioned, worktreeVars
  <2> QED
    BY <1>0, <1>aux, <1>3, <2>1, GoEffect, ThrowEffect DEF Provisioned, At, Staged, RunPcs
<1>4. CASE StartCapture(r)
  <2>1. git' = git
    BY <1>4 DEF StartCapture, worktreeVars
  <2> QED
    BY <1>0, <1>aux, <1>4, <2>1, GoUnlessAbortedEffect DEF StartCapture, At, Staged, RunPcs
<1>5. CASE Captured(r)
  <2>1. git' = git
    BY <1>5 DEF Captured, worktreeVars
  <2> QED
    BY <1>0, <1>aux, <1>5, <2>1, GoEffect, ThrowEffect DEF Captured, At, Staged, RunPcs
<1>6. CASE StartAgent(r)
  <2>1. git' = git
    BY <1>6 DEF StartAgent, worktreeVars
  <2> QED
    BY <1>0, <1>aux, <1>6, <2>1, GoUnlessAbortedEffect DEF StartAgent, At, Staged, RunPcs
<1>7. CASE ApplyStoredPatch(r)
  <2>1. git' = git
    BY <1>7 DEF ApplyStoredPatch, worktreeVars
  <2> QED
    BY <1>0, <1>aux, <1>7, <2>1, GoUnlessAbortedEffect DEF ApplyStoredPatch, At, Staged, RunPcs
<1>8. CASE AgentEnds(r)
  <2>1. git' = git
    BY <1>8 DEF AgentEnds, worktreeVars
  <2> QED
    BY <1>0, <1>aux, <1>8, <2>1, GoEffect DEF AgentEnds, At, Staged, RunPcs
<1>9. CASE AgentTimeout(r)
  <2>1. git' = git
    BY <1>9 DEF AgentTimeout, worktreeVars
  <2> QED
    BY <1>0, <1>aux, <1>9, <2>1, GoEffect DEF AgentTimeout, At, Staged, RunPcs
<1>10. CASE BaseCreated(r)
  <2>1. git' = git
    BY <1>10 DEF BaseCreated, worktreeVars
  <2> QED
    BY <1>0, <1>aux, <1>10, <2>1, GoEffect, ThrowEffect DEF BaseCreated, At, Staged, RunPcs
<1>11. CASE BaseProvisioned(r)
  <2>1. git' = git
    BY <1>11 DEF BaseProvisioned, worktreeVars
  <2> QED
    BY <1>0, <1>aux, <1>11, <2>1, GoEffect DEF BaseProvisioned, At, Staged, RunPcs
<1>12. CASE CleanedUp(r)
  <2>1. git' = git
    BY <1>12 DEF CleanedUp, worktreeVars
  <2> QED
    BY <1>0, <1>aux, <1>12, <2>1, GoEffect DEF CleanedUp, At, Staged, RunPcs
<1>13. CASE StepThrows(r)
  <2>1. git' = git
    BY <1>13 DEF StepThrows, worktreeVars
  <2> QED
    BY <1>0, <1>aux, <1>13, <2>1, ThrowEffect DEF StepThrows, At, Staged, RunPcs
<1>14. CASE Begin(r)
  <2>1. git' = git /\ run[r].pc = "start"
    BY <1>14 DEF Begin, At, worktreeVars
  <2>2. run'[r].pc = "create"
    BY <1>0, <1>14, BeginEffect
  <2> QED
    BY <1>0, <2>1, <2>2 DEF Staged
<1>15. CASE BeginThrows(r)
  <2>1. git' = git /\ run[r].pc = "start"
    BY <1>15 DEF BeginThrows, At, worktreeVars
  <2>2. run'[r].pc = "returned"
    BY <1>0, <1>15, BeginThrowsEffect
  <2> QED
    BY <1>0, <2>1, <2>2 DEF Staged
<1>16. CASE BaseTests(r)
  <2>1. git' = git /\ run[r].pc = "baseTests"
    BY <1>16 DEF BaseTests, At, worktreeVars
  <2>2. run'[r].pc \in {"catch", "gates"}
    BY <1>0, <1>16, BaseTestsEffect
  <2> QED
    BY <1>0, <2>1, <2>2 DEF Staged
<1>17. CASE Judge(r)
  <2>1. git' = git /\ run[r].pc = "gates"
    BY <1>17 DEF Judge, At, worktreeVars
  <2>2. run'[r].pc = "report"
    BY <1>0, <1>17, JudgeEffect
  <2> QED
    BY <1>0, <2>1, <2>2 DEF Staged
<1>18. CASE WriteReport(r)
  <2>1. git' = git /\ run[r].pc = "report"
    BY <1>18 DEF WriteReport, At, worktreeVars
  <2>2. run'[r].pc = "final"
    BY <1>0, <1>18, WriteReportEffect
  <2> QED
    BY <1>0, <2>1, <2>2 DEF Staged
<1>19. CASE CatchReport(r)
  <2>1. git' = git /\ run[r].pc = "catch"
    BY <1>19 DEF CatchReport, At, worktreeVars
  <2>2. run'[r].pc = "catchFinal"
    BY <1>0, <1>19, CatchReportEffect
  <2> QED
    BY <1>0, <2>1, <2>2 DEF Staged
<1>20. CASE AgentDies(r)
  BY <1>0, <1>20 DEF AgentDies, worktreeVars, Staged
<1>21. CASE Create(r)
  <2>1. run[r].pc = "create" /\ run'[r].pc = IF r \in aborted THEN "catch" ELSE "creating"
    BY <1>0, <1>21, GoUnlessAbortedEffect DEF Create, At, RunPcs
  <2>2. git' = IF r \in aborted THEN git ELSE [git EXCEPT ![Candidate(r)] = "wantAdd"]
    BY <1>21 DEF Create
  <2> QED
    BY <1>0, <1>aux, <2>1, <2>2 DEF Staged
<1>22. CASE Diff(r)
  <2>1. /\ run[r].pc = "diff"
        /\ run'[r].pc = IF r \in TestedRuns THEN "baseCreating" ELSE "gates"
    BY <1>0, <1>22, GoEffect DEF Diff, At, RunPcs
  <2>2. git' = IF r \in TestedRuns THEN [git EXCEPT ![Base(r)] = "wantAdd"] ELSE git
    BY <1>22 DEF Diff
  <2> QED
    BY <1>0, <1>aux, <2>1, <2>2 DEF Staged
<1>23. CASE Return(r)
  <2>1. run[r].pc = "final" /\ StartCleanup(r) /\ Finalize(r, TerminalStatus[run[r].verdict])
    BY <1>23 DEF Return, At
  <2>2. run'[r].pc = "cleanup"
    <3>1. TerminalStatus[run[r].verdict] \in RunStatuses
      BY <2>1, StatusesReturned DEF RunInv, Records
    <3> QED  BY <2>1, <3>1, FinalizeEffect
  <2> QED
    BY <1>0, <1>aux, <2>1, <2>2 DEF Staged, StartCleanup
<1>24. CASE ReturnAgentFailed(r)
  <2>1. run[r].pc = "agentFailed" /\ StartCleanup(r)
    BY <1>24 DEF ReturnAgentFailed, At
  <2>2. run'[r].pc = "cleanup"
    BY <1>24, ReturnAgentFailedEffect
  <2> QED
    BY <1>0, <1>aux, <2>1, <2>2 DEF Staged, StartCleanup
<1>25. CASE CatchReturn(r)
  <2>1. run[r].pc = "catchFinal" /\ StartCleanup(r) /\ Finalize(r, run[r].status)
    BY <1>25 DEF CatchReturn, At
  <2>2. run'[r].pc = "cleanup"
    <3>1. run[r].status \in RunStatuses
      BY <2>1, StatusesReturned DEF RunInv, Records
    <3> QED  BY <2>1, <3>1, FinalizeEffect
  <2> QED
    BY <1>0, <1>aux, <2>1, <2>2 DEF Staged, StartCleanup
<1>26. CASE Abort(r)
  <2>1. git' = git
    BY <1>26 DEF Abort, worktreeVars
  <2>2. \/ run'[r].pc = run[r].pc
        \/ run[r].pc = "creating" /\ run'[r].pc = "createCancelled"
        \/ run[r].pc \in CancellableWaits /\ run'[r].pc = "catch"
    BY <1>0, <1>26, GoEffect, ThrowEffect DEF Abort, At, RunPcs
  <2> QED
    BY <1>0, <2>1, <2>2 DEF Staged, CancellableWaits
<1>27. CASE Crash(r)
  <2>1. KillGit(Own(r)) /\ run'[r].pc = "dead"
    BY <1>27, CrashEffect DEF Crash
  <2> QED
    BY <1>0, <1>aux, <2>1 DEF Staged, KillGit
<1> QED
  BY <1>1, <1>2, <1>3, <1>4, <1>5, <1>6, <1>7, <1>8, <1>9, <1>10, <1>11, <1>12, <1>13, <1>14,
     <1>15, <1>16, <1>17, <1>18, <1>19, <1>20, <1>21, <1>22, <1>23, <1>24, <1>25, <1>26, <1>27
     DEF RunStep

(* Where the git calls of a run's steps start, end or are cut off. *)
LEMMA RunOwned ==
  ASSUME WorktreesTypeOK, CacheTypeOK, NEW r \in Runs, Staged(r),
         \/ RunStep(r) \/ Begin(r) \/ BeginThrows(r) \/ AgentDies(r)
         \/ StepThrows(r) \/ Abort(r) \/ Crash(r),
         NEW w \in Worktrees, Owned(w)
  PROVE  Owned(w)'
<1> USE Names DEF Owned, ProvEnded
<1>0. git \in [Worktrees -> GitPcs] /\ prov \in [Worktrees -> [pc : ProvPcs, seen : Trees]]
  BY DEF WorktreesTypeOK, CacheTypeOK
<1>1. CASE UNCHANGED <<worktreeVars, cacheVars>>
  BY <1>1 DEF worktreeVars, cacheVars
<1>2. CASE Create(r)
  BY <1>0, <1>2 DEF Create, cacheVars, Staged, CandidateStages, At
<1>3. CASE Created(r)
  BY <1>0, <1>3 DEF Created, worktreeVars, ProvTo
<1>4. CASE Diff(r)
  BY <1>0, <1>4 DEF Diff, cacheVars, Staged, BaseStages, At
<1>5. CASE BaseCreated(r)
  BY <1>0, <1>5 DEF BaseCreated, worktreeVars, ProvTo
<1>6. CASE StartCleanup(r) /\ UNCHANGED <<dirs, cacheVars>>
  BY <1>0, <1>6 DEF StartCleanup, cacheVars
<1>7. CASE Crash(r)
  BY <1>0, <1>7 DEF Crash, KillGit, KillProvisions
<1> QED
  BY <1>1, <1>2, <1>3, <1>4, <1>5, <1>6, <1>7
     DEF RunStep, CreateCancelled, Provisioned, StartCapture, Captured, StartAgent,
         ApplyStoredPatch, AgentEnds, AgentTimeout, BaseProvisioned, BaseTests, Judge,
         WriteReport, Return, ReturnAgentFailed, CatchReport, CatchReturn, CleanedUp,
         Begin, BeginThrows, AgentDies, StepThrows, Abort

LEMMA GitCallOwned ==
  ASSUME WorktreesTypeOK, CacheTypeOK, NEW v \in Worktrees, GitCall(v), prov' = prov,
         torn \subseteq torn',
         git'[v] = "removed" => ProvEnded(v) \/ v \in torn',
         NEW w \in Worktrees, Owned(w)
  PROVE  Owned(w)'
<1> USE GitCallMoves DEF Owned, ProvEnded
<1>1. CASE w # v
  BY <1>1
<1>2. CASE w = v
  BY <1>2 DEF Moves
<1> QED
  BY <1>1, <1>2

LEMMA ProvOwned ==
  ASSUME WorktreesTypeOK, CacheTypeOK, NEW v \in Worktrees,
         ProvStep(v) \/ ProvFails(v), UNCHANGED <<lock, git>>,
         NEW w \in Worktrees, Owned(w)
  PROVE  Owned(w)'
<1> USE DEF Owned, ProvEnded, ProvTo
<1>0. prov \in [Worktrees -> [pc : ProvPcs, seen : Trees]]
  BY DEF CacheTypeOK
<1>1. CASE ProvCheck(v)  BY <1>0, <1>1 DEF ProvCheck
<1>2. CASE CopyHit(v)  BY <1>0, <1>2 DEF CopyHit
<1>3. CASE Evict(v)  BY <1>0, <1>3 DEF Evict
<1>4. CASE Install(v)  BY <1>0, <1>4 DEF Install
<1>5. CASE StoreBegin(v)  BY <1>0, <1>5 DEF StoreBegin
<1>6. CASE StoreEnd(v)  BY <1>0, <1>6 DEF StoreEnd
<1>7. CASE Hash(v)  BY <1>0, <1>7 DEF Hash
<1>8. CASE Seal(v)  BY <1>0, <1>8 DEF Seal
<1>9. CASE ProvFails(v)  BY <1>0, <1>9 DEF ProvFails
<1> QED
  BY <1>1, <1>2, <1>3, <1>4, <1>5, <1>6, <1>7, <1>8, <1>9 DEF ProvStep
-----------------------------------------------------------------------------
(* The inductive invariant *)

IInv ==
    /\ WorktreesTypeOK /\ CacheTypeOK /\ RunTypes
    /\ LockExclusive
    /\ RunInv
    /\ TreeInv

LEMMA InitInv == ASSUME Init PROVE IInv
<1>1. WorktreesTypeOK /\ CacheTypeOK /\ RunTypes
  BY InitTypes DEF TypeOK, RunTypes, FaultRecord
<1>2. LockExclusive
  BY DEF Init, WorktreesInit, LockExclusive, Mutating
<1>3. RunInv
  BY DEF Init, RunInv, Quiet, AbortSeen, Records, NewRun, Decisions, Unsettled
<1>4. \A r \in Runs : Staged(r)
  BY Names DEF Init, WorktreesInit, Staged, NewRun, CandidateStages, BaseStages
<1>5. \A w \in Worktrees : Owned(w)
  BY DEF Init, WorktreesInit, CacheInit, Owned, ProvEnded
<1> QED
  BY <1>1, <1>2, <1>3, <1>4, <1>5 DEF IInv, TreeInv

RunAction(r) ==
    \/ RunStep(r) \/ Begin(r) \/ BeginThrows(r) \/ AgentDies(r)
    \/ StepThrows(r) \/ Abort(r) \/ Crash(r)

LEMMA RunGoodStep ==
  ASSUME RunTypes, RunTypes', RunInv, NEW r \in Runs, RunAction(r)
  PROVE  Alone(r) /\ RunGood(r)'
  BY StepMovesGood, OtherStepsGood DEF RunAction, RunStep

(* No step of a run is a git command. *)
LEMMA RunLock ==
  ASSUME WorktreesTypeOK, LockExclusive, NEW r \in Runs, RunAction(r)
  PROVE  LockExclusive'
<1> SUFFICES lock' = lock /\ \A w \in Worktrees : Mutating(w)' => Mutating(w)
  BY DEF LockExclusive
<1> USE Names DEF Mutating
<1>1. CASE UNCHANGED worktreeVars
  BY <1>1 DEF worktreeVars
<1>2. CASE Create(r)  BY <1>2 DEF Create, WorktreesTypeOK
<1>3. CASE Diff(r)  BY <1>3 DEF Diff, WorktreesTypeOK
<1>4. CASE StartCleanup(r) /\ lock' = lock  BY <1>4 DEF StartCleanup
<1>5. CASE Crash(r)  BY <1>5 DEF Crash, KillGit
<1> QED
  BY <1>1, <1>2, <1>3, <1>4, <1>5
     DEF RunAction, RunStep, Created, CreateCancelled, Provisioned, StartCapture, Captured,
         StartAgent, ApplyStoredPatch, AgentEnds, AgentTimeout, BaseCreated, BaseProvisioned,
         BaseTests, Judge, WriteReport, Return, ReturnAgentFailed, CatchReport, CatchReturn,
         CleanedUp, Begin, BeginThrows, AgentDies, StepThrows, Abort

LEMMA RunActionInv ==
  ASSUME IInv, NEW r \in Runs, RunAction(r)
  PROVE  IInv'
<1>1. WorktreesTypeOK /\ CacheTypeOK /\ RunTypes /\ LockExclusive /\ RunInv /\ TreeInv
  BY DEF IInv
<1>2. RunTypes'
  BY <1>1, RunTypesStep, OtherTypesStep DEF RunAction, RunInv
<1>3. WorktreesTypeOK' /\ CacheTypeOK'
  BY <1>1, SharedTypesStep DEF RunAction
<1>4. RunInv'
  BY <1>1, <1>2, RunGoodStep, OthersKept
<1>5. Staged(r) /\ Others(r)
  BY <1>1, <1>2, RunGoodStep DEF TreeInv, Alone
<1>6. \A s \in Runs : Staged(s)'
  BY <1>1, <1>5, RunStaged, StagedOthers DEF RunAction, TreeInv
<1>7. \A w \in Worktrees : Owned(w)'
  BY <1>1, <1>5, RunOwned DEF RunAction, TreeInv
<1>8. LockExclusive'
  BY <1>1, RunLock
<1> QED
  BY <1>2, <1>3, <1>4, <1>6, <1>7, <1>8 DEF IInv, TreeInv

(* The steps that move no run: only the number of failed calls can grow. *)
LEMMA RestKept ==
  ASSUME RunTypes, RunTypes', RunInv, UNCHANGED <<run, agent, aborted>>,
         faults'.errors >= faults.errors
  PROVE  RunInv'
<1> SUFFICES ASSUME NEW r \in Runs  PROVE RunGood(r)'
  BY DEF RunInv, RunGood
<1>1. faults.errors \in Nat /\ faults'.errors \in Nat
  BY DEF RunTypes, FaultRecord
<1>2. Quiet(r)' /\ AbortSeen(r)'
  BY DEF RunInv, Quiet, AbortSeen
<1>3. Records(r)'
  BY <1>1 DEF RunInv, Records
<1> QED
  BY <1>2, <1>3 DEF RunGood

LEMMA FaultsKept ==
  ASSUME RunTypes, UNCHANGED faults \/ CallFails
  PROVE  faults' \in FaultRecord /\ faults'.errors >= faults.errors
  BY FaultType DEF RunTypes, CallFails, FaultRecord

LEMMA CaptureInv ==
  ASSUME IInv, NEW r \in Runs, Capture(r) \/ CaptureFails(r)
  PROVE  IInv'
<1>1. RunTypes /\ RunInv /\ WorktreesTypeOK /\ CacheTypeOK
  BY DEF IInv
<1>2. RunTypes' /\ WorktreesTypeOK' /\ CacheTypeOK'
  BY <1>1, OtherTypesStep, SharedTypesStep
<1>3. UNCHANGED <<run, agent, aborted, worktreeVars, cacheVars>> /\ (UNCHANGED faults \/ CallFails)
  BY DEF Capture, CaptureRead, CaptureGates, CaptureWrite, CaptureFails
<1>4. RunInv'
  BY <1>1, <1>2, <1>3, FaultsKept, RestKept
<1>5. TreeInv' /\ LockExclusive'
  BY <1>3 DEF IInv, TreeInv, Staged, Owned, ProvEnded, LockExclusive, Mutating, worktreeVars,
              cacheVars
<1> QED
  BY <1>2, <1>4, <1>5 DEF IInv

LEMMA GitInv ==
  ASSUME IInv, NEW w \in Worktrees, GitStep(w) \/ GitFault(w)
  PROVE  IInv'
<1>1. RunTypes /\ RunInv /\ TreeInv /\ WorktreesTypeOK /\ CacheTypeOK /\ LockExclusive
  BY DEF IInv
<1>2. UNCHANGED runVars /\ (UNCHANGED faults \/ CallFails) /\ GitCall(w)
  BY DEF GitStep, GitFault, GitCall
<1>3. RunTypes'
  BY <1>1, <1>2, FaultsKept DEF RunTypes, runVars
<1>4. RunInv'
  BY <1>1, <1>2, <1>3, FaultsKept, RestKept DEF runVars
<1>5. WorktreesTypeOK' /\ LockExclusive'
  BY <1>1, <1>2, GitCallTypes, LockStep
<1>6. /\ prov' = prov /\ torn \subseteq torn' /\ CacheTypeOK'
      /\ git'[w] = "removed" => ProvEnded(w) \/ w \in torn'
  <2>1. CASE UNCHANGED cacheVars /\ git'[w] # "removed"
    BY <1>1, <2>1 DEF cacheVars, CacheTypeOK
  <2>2. CASE LoseModules(w)
    BY <1>1, <2>2 DEF LoseModules, CacheTypeOK, Trees
  <2>3. git[w] \in GitPcs /\ git \in [Worktrees -> GitPcs]
    BY <1>1 DEF WorktreesTypeOK
  <2> QED
    BY <2>1, <2>2, <2>3
       DEF GitStep, GitFault, Acquire, LockTimeout, LockWriteFails, Add, AddFails, RemoveFails,
           FallbackFails, WithoutLock
<1>7. \A r \in Runs : Staged(r)'
  BY <1>1, <1>2, GitCallStaged DEF TreeInv, runVars
<1>8. \A v \in Worktrees : Owned(v)'
  BY <1>1, <1>2, <1>6, GitCallOwned DEF TreeInv
<1> QED
  BY <1>3, <1>4, <1>5, <1>6, <1>7, <1>8 DEF IInv, TreeInv

LEMMA ProvisionInv ==
  ASSUME IInv, NEW w \in Worktrees, Provision(w) \/ ProvisionFault(w)
  PROVE  IInv'
<1>1. RunTypes /\ RunInv /\ TreeInv /\ WorktreesTypeOK /\ CacheTypeOK /\ LockExclusive
  BY DEF IInv
<1>2. /\ UNCHANGED runVars /\ (UNCHANGED faults \/ CallFails)
      /\ ProvStep(w) \/ ProvFails(w)
      /\ UNCHANGED <<lock, git>>
  BY DEF Provision, ProvisionFault
<1>3. RunTypes'
  BY <1>1, <1>2, FaultsKept DEF RunTypes, runVars
<1>4. RunInv'
  BY <1>1, <1>2, <1>3, FaultsKept, RestKept DEF runVars
<1>5. WorktreesTypeOK' /\ CacheTypeOK'
  BY <1>1, <1>2, ProvStepTypes
<1>6. \A v \in Worktrees : Owned(v)'
  BY <1>1, <1>2, ProvOwned DEF TreeInv
<1>7. LockExclusive' /\ \A r \in Runs : Staged(r)'
  BY <1>1, <1>2 DEF LockExclusive, Mutating, TreeInv, Staged, runVars
<1> QED
  BY <1>3, <1>4, <1>5, <1>6, <1>7 DEF IInv, TreeInv

LEMMA StutterInv ==
  ASSUME IInv, UNCHANGED vars
  PROVE  IInv'
<1>1. WorktreesTypeOK' /\ CacheTypeOK'
  BY KeptShared DEF IInv, vars
<1>2. RunTypes'
  BY DEF IInv, RunTypes, vars, runVars
<1>3. RunInv'
  BY DEF IInv, RunInv, Quiet, AbortSeen, Records, vars, runVars
<1>4. TreeInv' /\ LockExclusive'
  BY DEF IInv, TreeInv, Staged, Owned, ProvEnded, LockExclusive, Mutating, worktreeVars, cacheVars,
         runVars, vars
<1> QED
  BY <1>1, <1>2, <1>3, <1>4 DEF IInv

LEMMA NextInv == ASSUME IInv, [Next]_vars PROVE IInv'
  BY RunActionInv, CaptureInv, GitInv, ProvisionInv, StutterInv DEF Next, RunAction

LEMMA Invariant == Spec => []IInv
  BY InitInv, NextInv, PTL DEF Spec
-----------------------------------------------------------------------------
(* The theorems *)

(* Every variable keeps its type, whatever fails. *)
THEOREM KernelTypeCorrect == Spec => []TypeOK
<1>1. IInv => TypeOK
  BY DEF IInv, RunTypes, FaultRecord, TypeOK
<1> QED  BY <1>1, Invariant, PTL

(* The lock file excludes: two git mutations never run at the same time,   *)
(* also after timeouts, crashes and failed writes of the file.             *)
THEOREM GitIsExclusive == Spec => []LockExclusive
<1>1. IInv => LockExclusive
  BY DEF IInv
<1> QED  BY <1>1, Invariant, PTL

(* No process of the agent is left when its work is read and evaluated. *)
THEOREM TreeIsQuiet == Spec => []EvaluatedTreeIsQuiet
<1>1. IInv => EvaluatedTreeIsQuiet
  BY DEF IInv, RunInv, Quiet, EvaluatedTreeIsQuiet
<1> QED  BY <1>1, Invariant, PTL

(* The report and the manifest of a run that returned agree with what it   *)
(* returned, for any number of faults but those the property names.        *)
THEOREM RecordsTellOneStory == Spec => []RecordsAgree
<1>1. IInv => RecordsAgree
  BY DEF IInv, RunInv, Records, RecordsAgree, At
<1> QED  BY <1>1, Invariant, PTL

(* A run that returned has left no worktree but a torn or a leaked one. *)
THEOREM NoWorktreeLeft == Spec => []ReturnedLeavesNoWorktree
<1>1. ASSUME IInv PROVE ReturnedLeavesNoWorktree
  <2> SUFFICES ASSUME NEW r \in Runs, At(r, "returned"), NEW w \in Own(r) \ torn,
                      git[w] # "leaked"
               PROVE  w \notin dirs
    BY DEF ReturnedLeavesNoWorktree
  <2>1. w \in {Candidate(r), Base(r)} /\ w \in Worktrees
    BY Names
  <2>2. git[w] \in Gone
    BY <1>1, <2>1 DEF IInv, TreeInv, Staged, CandidateStages, BaseStages, At
  <2> QED
    BY <1>1, <2>1, <2>2 DEF IInv, TreeInv, Owned, Gone
<1> QED  BY <1>1, Invariant, PTL

(* Only the end of the gates gives a run a verdict. *)
LEMMA OnlyJudgeDecides ==
  ASSUME IInv, [Next]_vars, NEW r \in Runs, ~Judge(r)
  PROVE  run'[r].verdict \in {run[r].verdict, "none"}
<1>0. RunTypes /\ RunTypes' /\ RunInv /\ run \in [Runs -> RunRecord]
  BY NextInv DEF IInv, RunTypes
<1>1. CASE \E s \in Runs \ {r} : RunAction(s)
  BY <1>0, <1>1, RunGoodStep DEF Alone, Others
<1>2. CASE RunAction(r)
  <2> USE <1>0 DEF RunPcs
  <2>1. CASE Begin(r)  BY <2>1, BeginEffect
  <2>2. CASE BeginThrows(r)  BY <2>2, BeginThrowsEffect
  <2>3. CASE AgentDies(r)  BY <2>3 DEF AgentDies
  <2>4. CASE BaseTests(r)  BY <2>4, BaseTestsEffect
  <2>5. CASE WriteReport(r)  BY <2>5, WriteReportEffect
  <2>6. CASE Return(r) \/ CatchReturn(r)
    <3>1. PICK status : Finalize(r, status)
      BY <2>6 DEF Return, CatchReturn
    <3> QED  BY <3>1 DEF Finalize, RunRecord
  <2>7. CASE ReturnAgentFailed(r)  BY <2>7, ReturnAgentFailedEffect
  <2>8. CASE CatchReport(r)  BY <2>8, CatchReportEffect
  <2>9. CASE Crash(r)  BY <2>9, CrashEffect
  <2>10. CASE Abort(r)  BY <2>10, GoEffect, ThrowEffect DEF Abort
  <2>11. CASE StepThrows(r)  BY <2>11, ThrowEffect DEF StepThrows
  <2>12. CASE Create(r) \/ StartCapture(r) \/ StartAgent(r) \/ ApplyStoredPatch(r)
    BY <2>12, GoUnlessAbortedEffect DEF Create, StartCapture, StartAgent, ApplyStoredPatch
  <2>13. CASE \/ Created(r) \/ CreateCancelled(r) \/ Provisioned(r) \/ Captured(r)
              \/ BaseCreated(r)
    BY <2>13, GoEffect, ThrowEffect
       DEF Created, CreateCancelled, Provisioned, Captured, BaseCreated
  <2>14. CASE \/ AgentEnds(r) \/ AgentTimeout(r) \/ Diff(r) \/ BaseProvisioned(r)
              \/ CleanedUp(r)
    BY <2>14, GoEffect DEF AgentEnds, AgentTimeout, Diff, BaseProvisioned, CleanedUp
  <2> QED
    BY <1>2, <2>1, <2>2, <2>3, <2>4, <2>5, <2>6, <2>7, <2>8, <2>9, <2>10, <2>11, <2>12,
       <2>13, <2>14 DEF RunAction, RunStep
<1>3. CASE run' = run
  BY <1>3
<1> QED
  BY <1>1, <1>2, <1>3
     DEF Next, RunAction, Capture, CaptureRead, CaptureGates, CaptureWrite, CaptureFails,
         GitStep, GitFault, Provision, ProvisionFault, runVars, vars

(* A candidate is accepted only if every required gate ran and passed, for *)
(* any list of gates: a skipped or failed one is enough to refuse it.      *)
THEOREM AcceptedIsEarned == Spec => AcceptIsEarned
<1> DEFINE A == \A r \in Runs : Accepts(r) =>
                  /\ \E i \in GateIds : Gates[i].required
                  /\ \A i \in GateIds : Gates[i].required => run'[r].report[i] = "pass"
<1>1. ASSUME IInv, [Next]_vars PROVE A
  <2> SUFFICES ASSUME NEW r \in Runs, Accepts(r)
               PROVE  /\ \E i \in GateIds : Gates[i].required
                      /\ \A i \in GateIds : Gates[i].required => run'[r].report[i] = "pass"
    OBVIOUS
  <2>1. Judge(r)
    BY <1>1, OnlyJudgeDecides DEF Accepts
  <2>2. /\ run'[r].report \in Reports /\ ~RequiredFailed(run'[r].report)
        /\ \E i \in GateIds : Gates[i].required
    BY <1>1, <2>1, JudgeEffect DEF IInv, RunTypes, Accepts
  <2> QED
    BY <2>2, AcceptedGatesPass
<1>2. IInv /\ [Next]_vars => [A]_vars
  BY <1>1
<1> QED  BY <1>2, Invariant, PTL DEF Spec, AcceptIsEarned

(* A run whose signal was aborted before its gates had ended gets no       *)
(* verdict, in whatever await the abort found it.                          *)
THEOREM NoVerdictAfterAbort == Spec => AbortedRunIsNotJudged
<1> DEFINE A == \A r \in aborted : run[r].verdict = "none" => run'[r].verdict = "none"
<1>1. ASSUME IInv, [Next]_vars PROVE A
  <2> SUFFICES ASSUME NEW r \in aborted, run[r].verdict = "none"
               PROVE  run'[r].verdict = "none"
    OBVIOUS
  <2>1. r \in Runs /\ AbortSeen(r)
    BY <1>1 DEF IInv, RunTypes, RunInv
  <2>2. ~Judge(r)
    BY <2>1 DEF Judge, At, AbortSeen, CancellableWaits
  <2> QED
    BY <1>1, <2>1, <2>2, OnlyJudgeDecides
<1>2. IInv /\ [Next]_vars => [A]_vars
  BY <1>1
<1> QED  BY <1>2, Invariant, PTL DEF Spec, AbortedRunIsNotJudged
-----------------------------------------------------------------------------
(* The dependency cache *)

(* A worktree that was added is there, and its provision began after that. *)
Begun(w) ==
    /\ git[w] = "added" => w \in dirs
    /\ git[w] \in {"idle", "wantAdd", "adding"} => prov[w].pc = "idle"

Storing(w) == prov[w].pc \in {"storing", "hash", "seal"}

(* What a provision that nothing disturbed has made and seen so far. *)
Sound(w) ==
    /\ prov[w].pc \in {"copying", "storing", "seal"} => prov[w].seen = "whole"
    /\ prov[w].pc = "hash" => tree = "whole"
    /\ prov[w].pc = "store" \/ Storing(w) => modules[w] = "whole"
    /\ prov[w].pc = "done" /\ git[w] = "added" => modules[w] = "whole"

(* One provision at a time stores, so what it finds in the entry is its    *)
(* own copy, and no manifest describes a partial tree.                     *)
Undisturbed ==
    /\ manifest # "partial"
    /\ \A w \in Worktrees : Sound(w)
    /\ \A v, w \in Worktrees : Storing(v) /\ Storing(w) => v = w

CacheInv ==
    /\ \A w \in Worktrees : Begun(w)
    /\ torn = {} => Undisturbed

Typed == WorktreesTypeOK /\ CacheTypeOK

(* A step that only ends or starts calls of git, or starts or kills        *)
(* provisions.                                                             *)
LEMMA CallsKeepCache ==
  ASSUME Typed, CacheInv, UNCHANGED <<dirs, modules, tree, manifest, torn>>,
         \A w \in Worktrees :
            /\ git'[w] = "added" => git[w] = "added"
            /\ git'[w] \in {"idle", "wantAdd", "adding"} =>
                  git[w] \in {"idle", "wantAdd", "adding"} /\ prov'[w] = prov[w]
            /\ prov'[w] = prov[w] \/ prov'[w].pc \in {"check", "dead", "failed"}
  PROVE  CacheInv'
<1>1. \A w \in Worktrees : Begun(w)'
  BY DEF CacheInv, Begun
<1>2. ASSUME torn' = {} PROVE Undisturbed'
  <2>1. Undisturbed
    BY <1>2 DEF CacheInv
  <2>2. \A w \in Worktrees : Sound(w)'
    BY <2>1 DEF Undisturbed, Sound, Storing
  <2>3. \A w \in Worktrees : Storing(w)' => Storing(w)
    BY DEF Storing
  <2> QED
    BY <2>1, <2>2, <2>3 DEF Undisturbed
<1> QED
  BY <1>1, <1>2 DEF CacheInv

LEMMA RunCache ==
  ASSUME Typed, CacheInv, NEW r \in Runs, Staged(r), RunAction(r)
  PROVE  CacheInv'
<1> USE Names
<1>0. git \in [Worktrees -> GitPcs] /\ prov \in [Worktrees -> [pc : ProvPcs, seen : Trees]]
  BY DEF Typed, WorktreesTypeOK, CacheTypeOK
<1>1. CASE UNCHANGED <<worktreeVars, cacheVars>>
  BY <1>1, CallsKeepCache DEF worktreeVars, cacheVars
<1>2. CASE Create(r)
  <2>1. git[Candidate(r)] = "idle"
    BY <1>2 DEF Create, At, Staged, CandidateStages
  <2>2. \/ git' = git
        \/ git' = [git EXCEPT ![Candidate(r)] = "wantAdd"]
    BY <1>2 DEF Create
  <2>3. \A w \in Worktrees : git'[w] = git[w] \/ (git[w] = "idle" /\ git'[w] = "wantAdd")
    BY <1>0, <2>1, <2>2
  <2> QED
    BY <1>2, <2>3, CallsKeepCache DEF Create, cacheVars
<1>3. CASE Created(r)
  <2>1. /\ UNCHANGED <<git, dirs, modules, tree, manifest, torn>>
        /\ prov' = prov \/ (git[Candidate(r)] = "added" /\ ProvTo(Candidate(r), "check", "none"))
    BY <1>3 DEF Created, worktreeVars
  <2>2. \A w \in Worktrees :
           prov'[w] = prov[w] \/ (git[w] = "added" /\ prov'[w].pc = "check")
    BY <1>0, <2>1 DEF ProvTo
  <2> QED
    BY <2>1, <2>2, CallsKeepCache
<1>4. CASE Diff(r)
  <2>1. r \in TestedRuns => git[Base(r)] = "idle"
    BY <1>4 DEF Diff, At, Staged, BaseStages
  <2>2. \/ git' = git
        \/ git[Base(r)] = "idle" /\ git' = [git EXCEPT ![Base(r)] = "wantAdd"]
    BY <1>4, <2>1 DEF Diff
  <2>3. \A w \in Worktrees : git'[w] = git[w] \/ (git[w] = "idle" /\ git'[w] = "wantAdd")
    BY <1>0, <2>2
  <2> QED
    BY <1>4, <2>3, CallsKeepCache DEF Diff, cacheVars
<1>5. CASE BaseCreated(r)
  <2>1. /\ UNCHANGED <<git, dirs, modules, tree, manifest, torn>>
        /\ prov' = prov \/ (git[Base(r)] = "added" /\ ProvTo(Base(r), "check", "none"))
    BY <1>5 DEF BaseCreated, worktreeVars
  <2>2. \A w \in Worktrees :
           prov'[w] = prov[w] \/ (git[w] = "added" /\ prov'[w].pc = "check")
    BY <1>0, <2>1 DEF ProvTo
  <2> QED
    BY <2>1, <2>2, CallsKeepCache
<1>6. CASE StartCleanup(r) /\ UNCHANGED <<dirs, cacheVars>>
  <2>1. \A w \in Worktrees : git'[w] = git[w] \/ git'[w] = "wantRemove"
    BY <1>6 DEF StartCleanup
  <2> QED
    BY <1>6, <2>1, CallsKeepCache DEF cacheVars
<1>7. CASE Crash(r)
  <2>1. UNCHANGED <<dirs, modules, tree, manifest, torn>>
    BY <1>7 DEF Crash, KillGit, KillProvisions
  <2>2. \A w \in Worktrees :
           \/ git'[w] = git[w] /\ prov'[w] = prov[w]
           \/ git'[w] = "dead" /\ prov'[w].pc = "dead"
    BY <1>7 DEF Crash, KillGit, KillProvisions
  <2> QED
    BY <2>1, <2>2, CallsKeepCache
<1> QED
  BY <1>1, <1>2, <1>3, <1>4, <1>5, <1>6, <1>7
     DEF RunAction, RunStep, CreateCancelled, Provisioned, StartCapture, Captured, StartAgent,
         ApplyStoredPatch, AgentEnds, AgentTimeout, BaseProvisioned, BaseTests, Judge,
         WriteReport, Return, ReturnAgentFailed, CatchReport, CatchReturn, CleanedUp,
         Begin, BeginThrows, AgentDies, StepThrows, Abort

LEMMA GitCache ==
  ASSUME Typed, CacheInv, NEW w \in Worktrees, GitStep(w) \/ GitFault(w)
  PROVE  CacheInv'
<1>0. GitCall(w) /\ <<git[w], git'[w]>> \in Moves
  BY GitCallMoves DEF GitStep, GitFault, GitCall, Typed
<1>1. CASE git[w] \in {"wantAdd", "adding"}
  <2>1. \/ Acquire(w) \/ LockTimeout(w) \/ LockWriteFails(w) \/ Add(w) \/ AddFails(w)
    BY <1>1 DEF GitStep, GitFault, Remove, RemoveFails, Fallback, FallbackFails
  <2>2. UNCHANGED cacheVars
    BY <1>1 DEF GitStep, GitFault, Remove, Fallback
  <2>3. /\ \A v \in Worktrees \ {w} : git'[v] = git[v] /\ (v \in dirs => v \in dirs')
        /\ git'[w] = "added" => w \in dirs'
    BY <1>1, <2>1 DEF Acquire, LockTimeout, LockWriteFails, Add, AddFails, WithoutLock, Typed,
                      WorktreesTypeOK
  <2>4. \A v \in Worktrees : Begun(v)'
    <3> SUFFICES ASSUME NEW v \in Worktrees  PROVE Begun(v)'
      OBVIOUS
    <3>1. CASE v = w
      BY <1>0, <1>1, <2>2, <2>3, <3>1 DEF CacheInv, Begun, Moves, cacheVars
    <3>2. CASE v # w
      BY <2>2, <2>3, <3>2 DEF CacheInv, Begun, cacheVars
    <3> QED  BY <3>1, <3>2
  <2>5. ASSUME torn' = {} PROVE Undisturbed'
    <3>1. Undisturbed /\ prov[w].pc = "idle"
      BY <1>1, <2>2, <2>5 DEF CacheInv, Begun, cacheVars
    <3>2. \A v \in Worktrees : Sound(v)'
      BY <2>2, <2>3, <3>1 DEF Undisturbed, Sound, Storing, cacheVars
    <3> QED
      BY <2>2, <3>1, <3>2 DEF Undisturbed, Storing, cacheVars
  <2> QED
    BY <2>4, <2>5 DEF CacheInv
<1>2. CASE git[w] \notin {"wantAdd", "adding"}
  <2>1. /\ git'[w] \notin {"idle", "wantAdd", "adding", "added"}
        /\ \A v \in Worktrees \ {w} : git'[v] = git[v]
    BY <1>0, <1>2, GitCallMoves DEF Moves, Typed
  <2>2. \A v \in Worktrees \ {w} : v \in dirs => v \in dirs'
    BY DEF GitStep, GitFault, Acquire, LockTimeout, LockWriteFails, Add, AddFails, Remove,
           RemoveFails, Fallback, FallbackFails
  <2>3. UNCHANGED cacheVars \/ LoseModules(w)
    BY DEF GitStep, GitFault
  <2>4. \A v \in Worktrees : Begun(v)'
    BY <2>1, <2>2, <2>3 DEF CacheInv, Begun, cacheVars, LoseModules
  <2>5. ASSUME torn' = {} PROVE Undisturbed'
    <3>1. Undisturbed /\ UNCHANGED <<prov, tree, manifest>>
      BY <2>3, <2>5 DEF CacheInv, cacheVars, LoseModules
    <3>2. modules' = modules \/ ProvEnded(w)
      BY <2>3, <2>5 DEF cacheVars, LoseModules
    <3>3. \A v \in Worktrees \ {w} : modules'[v] = modules[v]
      BY <2>3 DEF cacheVars, LoseModules, Typed, CacheTypeOK
    <3>4. \A v \in Worktrees : Sound(v)'
      BY <2>1, <3>1, <3>2, <3>3 DEF Undisturbed, Sound, Storing, ProvEnded
    <3> QED
      BY <3>1, <3>4 DEF Undisturbed, Storing
  <2> QED
    BY <2>4, <2>5 DEF CacheInv
<1> QED
  BY <1>1, <1>2

(* A step of a provision: it moves alone, and no git call moves. *)
LEMMA ProvMoves ==
  ASSUME Typed, NEW w \in Worktrees, ProvStep(w) \/ ProvFails(w)
  PROVE  /\ prov[w].pc # "idle"
         /\ \A v \in Worktrees \ {w} : prov'[v] = prov[v] /\ modules'[v] = modules[v]
         /\ dirs \subseteq dirs' /\ torn \subseteq torn'
  BY DEF ProvStep, ProvFails, ProvCheck, CopyHit, Evict, Install, StoreBegin, StoreEnd, Hash,
         Seal, ProvTo, ProvEnded, Typed, CacheTypeOK

LEMMA ProvisionCache ==
  ASSUME Typed, CacheInv, NEW w \in Worktrees, ProvStep(w) \/ ProvFails(w), UNCHANGED git
  PROVE  CacheInv'
<1>1. \A v \in Worktrees : Begun(v)'
  BY ProvMoves DEF CacheInv, Begun
<1>2. ASSUME torn' = {} PROVE Undisturbed'
  <2>0. /\ Undisturbed /\ torn = {} /\ tree \in Trees /\ manifest \in Trees
        /\ prov \in [Worktrees -> [pc : ProvPcs, seen : Trees]]
        /\ modules \in [Worktrees -> Trees]
    BY <1>2, ProvMoves DEF CacheInv, Typed, CacheTypeOK
  <2>1. /\ \A v \in Worktrees \ {w} : Sound(v) /\ prov'[v] = prov[v] /\ modules'[v] = modules[v]
        /\ Sound(w) /\ manifest # "partial"
    BY <2>0, ProvMoves DEF Undisturbed
  <2>2. \A v \in Worktrees \ {w} : Storing(v)' <=> Storing(v)
    BY <2>1 DEF Storing
  <2>3. Storing(w) => \A v \in Worktrees \ {w} : ~Storing(v)
    BY <2>0 DEF Undisturbed
  <2>4. ASSUME tree' = tree \/ \A v \in Worktrees \ {w} : ~Storing(v)
        PROVE  \A v \in Worktrees \ {w} : Sound(v)'
    BY <2>1, <2>2, <2>4 DEF Sound, Storing
  <2>5. ASSUME manifest' # "partial", Sound(w)',
               tree' = tree \/ \A v \in Worktrees \ {w} : ~Storing(v),
               Storing(w)' => \A v \in Worktrees \ {w} : ~Storing(v)
        PROVE  Undisturbed'
    BY <2>0, <2>2, <2>4, <2>5 DEF Undisturbed
  <2> USE <2>0 DEF ProvTo, Storing, Sound, Trees
  <2>6. CASE ProvCheck(w)
    <3>1. prov'[w].pc \in {"install", "evict"} \/ (prov'[w].pc = "copying" /\ prov'[w].seen = "whole")
             \/ (prov'[w].pc = "done" /\ w \notin dirs)
      BY <2>1, <2>6 DEF ProvCheck
    <3>2. git[w] = "added" => w \in dirs
      BY DEF CacheInv, Begun
    <3> QED  BY <2>1, <2>5, <2>6, <3>1, <3>2 DEF ProvCheck
  <2>7. CASE CopyHit(w)
    <3>1. modules'[w] = "whole" /\ prov'[w].pc = "done"
      BY <2>1, <2>7 DEF CopyHit
    <3> QED  BY <2>1, <2>5, <2>7, <3>1 DEF CopyHit
  <2>8. CASE Evict(w)
    <3>1. UsersBesides(w) = {}
      BY <1>2, <2>8 DEF Evict
    <3> QED  BY <2>5, <2>8, <3>1 DEF Evict, UsersBesides
  <2>9. CASE Install(w)
    <3>1. modules'[w] = "whole" /\ prov'[w].pc = "store"
      BY <2>9 DEF Install
    <3> QED  BY <2>1, <2>5, <2>9, <3>1 DEF Install
  <2>10. CASE StoreBegin(w)
    <3>1. UsersBesides(w) = {}
      BY <1>2, <2>10 DEF StoreBegin
    <3>2. prov'[w] = [pc |-> "storing", seen |-> "whole"] /\ modules' = modules
      BY <2>1, <2>10 DEF StoreBegin
    <3> QED  BY <2>1, <2>5, <2>10, <3>1, <3>2 DEF StoreBegin, UsersBesides
  <2>11. CASE StoreEnd(w)
    <3>1. tree' = "whole" /\ prov'[w].pc = "hash" /\ modules' = modules
      BY <2>1, <2>11 DEF StoreEnd
    <3> QED  BY <2>1, <2>3, <2>5, <2>11, <3>1 DEF StoreEnd
  <2>12. CASE Hash(w)
    <3>1. prov'[w] = [pc |-> "seal", seen |-> "whole"] /\ modules' = modules
      BY <2>1, <2>12 DEF Hash
    <3> QED  BY <2>1, <2>3, <2>5, <2>12, <3>1 DEF Hash
  <2>13. CASE Seal(w)
    <3>1. prov'[w].pc = "done" /\ modules' = modules /\ manifest' = "whole"
      BY <2>1, <2>13 DEF Seal
    <3> QED  BY <2>1, <2>3, <2>5, <2>13, <3>1 DEF Seal
  <2>14. CASE ProvFails(w)
    <3>1. prov'[w].pc = "failed"
      BY <2>14 DEF ProvFails
    <3> QED  BY <2>1, <2>5, <2>14, <3>1 DEF ProvFails
  <2> QED
    BY <2>6, <2>7, <2>8, <2>9, <2>10, <2>11, <2>12, <2>13, <2>14 DEF ProvStep
<1> QED
  BY <1>1, <1>2 DEF CacheInv

LEMMA InitCache == ASSUME Init PROVE CacheInv
  BY DEF Init, WorktreesInit, CacheInit, CacheInv, Begun, Undisturbed, Sound, Storing

LEMMA NextCache == ASSUME IInv, CacheInv, [Next]_vars PROVE CacheInv'
<1>0. Typed /\ \A r \in Runs : Staged(r)
  BY DEF IInv, TreeInv, Typed
<1>1. CASE \E r \in Runs : RunAction(r)
  BY <1>0, <1>1, RunCache
<1>2. CASE \E w \in Worktrees : GitStep(w) \/ GitFault(w)
  BY <1>0, <1>2, GitCache
<1>3. CASE \E w \in Worktrees : Provision(w) \/ ProvisionFault(w)
  BY <1>0, <1>3, ProvisionCache DEF Provision, ProvisionFault
<1>4. CASE UNCHANGED <<worktreeVars, cacheVars>>
  BY <1>0, <1>4, CallsKeepCache DEF worktreeVars, cacheVars
<1> QED
  BY <1>1, <1>2, <1>3, <1>4
     DEF Next, RunAction, Capture, CaptureRead, CaptureGates, CaptureWrite, CaptureFails, vars

(* Whatever crashes or fails between two steps of a provision: as long as  *)
(* no other call took files from under one, a provision that ended well    *)
(* has given its worktree whole dependencies.                              *)
THEOREM ModulesAreComplete == Spec => []CompleteModules
<1>1. IInv /\ CacheInv /\ [Next]_vars => CacheInv'
  BY NextCache
<1>2. CacheInv => CompleteModules
  BY DEF CacheInv, Undisturbed, Sound, CompleteModules
<1>3. Init => CacheInv
  BY InitCache
<1> QED
  BY <1>1, <1>2, <1>3, Invariant, PTL DEF Spec
=============================================================================
