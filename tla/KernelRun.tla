----------------------------- MODULE KernelRun -----------------------------
(***************************************************************************)
(* runKernel (sdk/src/run.ts): one loop from its inputs to its verdict and *)
(* the removal of its worktrees.  The runs share a repository and a data   *)
(* directory: the repo lock, the dependency cache and the baseline cache.  *)
(* Each is a process of its own and can crash alone.  An action is the     *)
(* code between two awaits that touch something another step looks at.     *)
(*                                                                         *)
(* cancellable(f(), signal) calls f before it looks at the signal and      *)
(* leaves f running when the signal aborts: provisioning and the capture   *)
(* of the baseline are tasks of their own here, and outlive their run.     *)
(***************************************************************************)
EXTENDS DependencyCache, EvalDecision

CONSTANTS
    Runs,            \* runs of the kernel, each with a loop id of its own
    EvalOnlyRuns,    \* those that apply a stored patch instead of an agent
    TestedRuns,      \* those whose task has acceptance tests: run on the base too
    FixTask,         \* the task asks for the evidence fixes_reproduced_failure
    MetaTask,        \* risk_area is eval_system
    HumanApproval,   \* the task asks for the approval of a human
    StrictVerifier,  \* verifier.policy is strict
    BaselineGates,   \* gates whose command the baseline runs (isBaselineGate)
    RedOnBase,       \* those that fail on the base commit
    MaxFaults        \* bound: aborts, crashes and calls of git, the installer or
                     \* the disk that fail

Candidate(r) == <<r, "candidate">>
Base(r) == <<r, "base">>
Own(r) == {Candidate(r), Base(r)}

ASSUME KernelAssumption ==
    /\ Worktrees = Runs \X {"candidate", "base"}
    /\ EvalOnlyRuns \subseteq Runs
    /\ TestedRuns \subseteq Runs
    /\ {FixTask, MetaTask, HumanApproval, StrictVerifier} \subseteq BOOLEAN
    /\ BaselineGates \subseteq GateIds
    /\ RedOnBase \subseteq BaselineGates
    /\ MaxFaults \in Nat

VARIABLES
    run,       \* each run: its pc, what it found, what it wrote and returns
    agent,     \* its agent process
    capture,   \* its captureBaseline: pc, and base_red_tests
    baseline,  \* the baseline cache: a set with the cached base_red_tests, or {}
    aborted,   \* runs whose signal was aborted
    faults     \* aborts, crashes and failed calls so far (bound)

runVars == <<run, agent, capture, baseline, aborted>>
vars == <<worktreeVars, cacheVars, runVars, faults>>

RunPcs ==
    {"start", "create", "creating", "createCancelled", "provisioning", "capture",
     "baselining", "ready", "agent", "agentFailed", "diff", "baseCreating",
     "baseProvisioning", "baseTests", "gates", "report", "final", "catch",
     "catchFinal", "cleanup", "returned", "dead"}
TerminalStatus ==
    [accept |-> "accepted", reject |-> "rejected",
     needs_human_review |-> "needs_human_review", needs_more_tests |-> "needs_more_tests"]
RunStatuses == {TerminalStatus[d] : d \in Decisions} \union {"failed", "cancelled"}

NewRun ==
    [pc |-> "start", failedOnBase |-> FALSE, report |-> <<>>,
     verdict |-> "none",    \* the decision, before it is written
     stored |-> "none",     \* reports/eval-report.json
     manifest |-> "none",   \* the status in the manifest
     status |-> "none"]     \* what runKernel returns

Init ==
    /\ WorktreesInit
    /\ CacheInit
    /\ run = [r \in Runs |-> NewRun]
    /\ agent = [r \in Runs |-> "none"]
    /\ capture = [r \in Runs |-> [pc |-> "none", red |-> {}]]
    /\ baseline = {}
    /\ aborted = {}
    /\ faults = [aborts |-> 0, crashes |-> 0, errors |-> 0]

Fault(kind) ==
    /\ faults.aborts + faults.crashes + faults.errors < MaxFaults
    /\ faults' = [faults EXCEPT ![kind] = @ + 1]

CallFails == Fault("errors")

At(r, pc) == run[r].pc = pc
Go(r, pc) == run' = [run EXCEPT ![r].pc = pc]

(* An error reaches the catch of runKernel. *)
Throw(r, status) ==
    run' = [run EXCEPT ![r].pc = "catch", ![r].status = status, ![r].verdict = "none",
                       ![r].report = <<>>, ![r].failedOnBase = FALSE]

(* The end of throwIfCancelled and of the check in cancellable. *)
GoUnlessAborted(r, pc) == IF r \in aborted THEN Throw(r, "cancelled") ELSE Go(r, pc)
-----------------------------------------------------------------------------
(* The workspace *)

Begin(r) ==
    /\ At(r, "start")
    /\ run' = [run EXCEPT ![r].pc = "create", ![r].manifest = "running"]
    /\ UNCHANGED <<worktreeVars, cacheVars, agent, capture, baseline, aborted, faults>>

(* Before there is a run directory an error is thrown to the caller. *)
BeginThrows(r) ==
    /\ At(r, "start")
    /\ CallFails
    /\ run' = [run EXCEPT ![r].pc = "returned", ![r].status = "failed"]
    /\ UNCHANGED <<worktreeVars, cacheVars, agent, capture, baseline, aborted>>

Create(r) ==
    /\ At(r, "create")
    /\ GoUnlessAborted(r, "creating")
    /\ git' = IF r \in aborted THEN git ELSE [git EXCEPT ![Candidate(r)] = "wantAdd"]
    /\ UNCHANGED <<lock, dirs, cacheVars, agent, capture, baseline, aborted, faults>>

(* createWorktree has ended; provisionDependencies is called at once. *)
Created(r) ==
    /\ At(r, "creating")
    /\ \/ /\ git[Candidate(r)] = "added"
          /\ Go(r, "provisioning")
          /\ ProvTo(Candidate(r), "check", "none")
       \/ /\ git[Candidate(r)] = "failed"
          /\ Throw(r, "failed")
          /\ UNCHANGED prov
    /\ UNCHANGED <<worktreeVars, modules, tree, manifest, torn, agent, capture, baseline,
                   aborted, faults>>

(* Mutant: it does not wait. *)
CreateCancelledAtOnce(r) ==
    /\ At(r, "createCancelled")
    /\ Throw(r, "cancelled")
    /\ UNCHANGED <<worktreeVars, cacheVars, agent, capture, baseline, aborted, faults>>

(* An aborted run waits for createWorktree, to remove what it made. *)
CreateCancelled(r) ==
    /\ At(r, "createCancelled")
    /\ git[Candidate(r)] \in {"added", "failed"}
    /\ Throw(r, "cancelled")
    /\ UNCHANGED <<worktreeVars, cacheVars, agent, capture, baseline, aborted, faults>>

Provisioned(r) ==
    /\ At(r, "provisioning")
    /\ \/ prov[Candidate(r)].pc = "done" /\ Go(r, "capture")
       \/ prov[Candidate(r)].pc = "failed" /\ Throw(r, "failed")
    /\ UNCHANGED <<worktreeVars, cacheVars, agent, capture, baseline, aborted, faults>>

StartCapture(r) ==
    /\ At(r, "capture")
    /\ GoUnlessAborted(r, "baselining")
    /\ capture' = [capture EXCEPT ![r].pc = "read"]
    /\ UNCHANGED <<worktreeVars, cacheVars, agent, baseline, aborted, faults>>
-----------------------------------------------------------------------------
(* captureBaseline: a task of its own *)

CaptureRead(r) ==
    /\ capture[r].pc = "read"
    /\ IF baseline = {}
       THEN capture' = [capture EXCEPT ![r].pc = "gates"]
       ELSE \E red \in baseline : capture' = [capture EXCEPT ![r] = [pc |-> "done", red |-> red]]
    /\ UNCHANGED <<worktreeVars, cacheVars, run, agent, baseline, aborted, faults>>

(* An abort kills the command that runs and each one after it: status      *)
(* 'error', which base_red_tests does not tell from 'fail'.                *)
CaptureGates(r) ==
    /\ capture[r].pc = "gates"
    /\ \E killed \in SUBSET BaselineGates :
          /\ killed # {} => r \in aborted
          /\ capture' = [capture EXCEPT ![r] = [pc |-> "write", red |-> RedOnBase \union killed]]
    /\ UNCHANGED <<worktreeVars, cacheVars, run, agent, baseline, aborted, faults>>

CaptureWrite(r) ==
    /\ capture[r].pc = "write"
    /\ baseline' = {capture[r].red}
    /\ capture' = [capture EXCEPT ![r].pc = "done"]
    /\ UNCHANGED <<worktreeVars, cacheVars, run, agent, aborted, faults>>

CaptureFails(r) ==
    /\ capture[r].pc \in {"gates", "write"}
    /\ CallFails
    /\ capture' = [capture EXCEPT ![r].pc = "failed"]
    /\ UNCHANGED <<worktreeVars, cacheVars, run, agent, baseline, aborted>>

(* The baseline is there: the git metadata is read next. *)
Captured(r) ==
    /\ At(r, "baselining")
    /\ \/ capture[r].pc = "done" /\ Go(r, "ready")
       \/ capture[r].pc = "failed" /\ Throw(r, "failed")
    /\ UNCHANGED <<worktreeVars, cacheVars, agent, capture, baseline, aborted, faults>>
-----------------------------------------------------------------------------
(* The agent, or the stored patch *)

StartAgent(r) ==
    /\ At(r, "ready")
    /\ r \notin EvalOnlyRuns
    /\ GoUnlessAborted(r, "agent")
    /\ IF r \in aborted
       THEN \E a \in {"none", "dying"} : agent' = [agent EXCEPT ![r] = a]
       ELSE agent' = [agent EXCEPT ![r] = "running"]
    /\ UNCHANGED <<worktreeVars, cacheVars, capture, baseline, aborted, faults>>

ApplyStoredPatch(r) ==
    /\ At(r, "ready")
    /\ r \in EvalOnlyRuns
    /\ GoUnlessAborted(r, "diff")
    /\ UNCHANGED <<worktreeVars, cacheVars, agent, capture, baseline, aborted, faults>>

AgentEnds(r) ==
    /\ At(r, "agent")
    /\ agent' = [agent EXCEPT ![r] = "none"]
    /\ \E pc \in {"diff", "agentFailed"} : Go(r, pc)
    /\ UNCHANGED <<worktreeVars, cacheVars, capture, baseline, aborted, faults>>

(* Mutant: what the agent had done when the time was up is evaluated. *)
AgentTimeoutEvaluated(r) ==
    /\ At(r, "agent")
    /\ agent' = [agent EXCEPT ![r] = "dying"]
    /\ Go(r, "diff")
    /\ UNCHANGED <<worktreeVars, cacheVars, capture, baseline, aborted, faults>>

(* runAgentWithHardTimeout answers 'error' at once; the process is killed  *)
(* by then or soon after.                                                  *)
AgentTimeout(r) ==
    /\ At(r, "agent")
    /\ agent' = [agent EXCEPT ![r] = "dying"]
    /\ Go(r, "agentFailed")
    /\ UNCHANGED <<worktreeVars, cacheVars, capture, baseline, aborted, faults>>

AgentDies(r) ==
    /\ agent[r] = "dying"
    /\ agent' = [agent EXCEPT ![r] = "none"]
    /\ UNCHANGED <<worktreeVars, cacheVars, run, capture, baseline, aborted, faults>>
-----------------------------------------------------------------------------
(* The evaluation *)

(* extractDiff.  What it found only matters to decide. *)
Diff(r) ==
    /\ At(r, "diff")
    /\ Go(r, IF r \in TestedRuns THEN "baseCreating" ELSE "gates")
    /\ git' = IF r \in TestedRuns THEN [git EXCEPT ![Base(r)] = "wantAdd"] ELSE git
    /\ UNCHANGED <<lock, dirs, cacheVars, agent, capture, baseline, aborted, faults>>

(* maybeVerifyTestOnBase is not cancellable, only its commands are. *)
BaseCreated(r) ==
    /\ At(r, "baseCreating")
    /\ \/ /\ git[Base(r)] = "added"
          /\ Go(r, "baseProvisioning")
          /\ ProvTo(Base(r), "check", "none")
       \/ /\ git[Base(r)] = "failed"
          /\ Throw(r, "failed")
          /\ UNCHANGED prov
    /\ UNCHANGED <<worktreeVars, modules, tree, manifest, torn, agent, capture, baseline,
                   aborted, faults>>

(* A provision that fails is taken for a skipped one. *)
BaseProvisioned(r) ==
    /\ At(r, "baseProvisioning")
    /\ prov[Base(r)].pc \in {"done", "failed"}
    /\ Go(r, "baseTests")
    /\ UNCHANGED <<worktreeVars, cacheVars, agent, capture, baseline, aborted, faults>>

(* The tests fail on the base and pass on the candidate, or not.  The next *)
(* await is that of runGates.                                              *)
BaseTests(r) ==
    /\ At(r, "baseTests")
    /\ IF r \in aborted THEN GoUnlessAborted(r, "gates")
       ELSE \E failed \in IF FixTask THEN BOOLEAN ELSE {FALSE} :
               run' = [run EXCEPT ![r].pc = "gates", ![r].failedOnBase = failed]
    /\ UNCHANGED <<worktreeVars, cacheVars, agent, capture, baseline, aborted, faults>>

(* The evidence the task requires, as the set of its statuses. *)
EvidenceOf(r, report) ==
    IF FixTask
    THEN {FixEvidence(run[r].failedOnBase, capture[r].red, report)}
    ELSE {}

(* runGates, then decide, with no look at the signal in between.  Hidden   *)
(* tests are in the worktree while the gates run.  The report is kept for  *)
(* the properties until it is written.                                     *)
Judge(r) ==
    /\ At(r, "gates")
    /\ \E report \in Reports, change \in Changes :
          run' = [run EXCEPT
             ![r].pc = "report",
             ![r].report = report,
             ![r].verdict =
                Decide([change |-> change, report |-> report,
                        evidence |-> EvidenceOf(r, report), provenance |-> TRUE,
                        approval |-> HumanApproval, mismatch |-> StrictVerifier,
                        metaEvaluation |-> MetaTask])]
    /\ UNCHANGED <<worktreeVars, cacheVars, agent, capture, baseline, aborted, faults>>
-----------------------------------------------------------------------------
(* The records, the return and the cleanup *)

(* The finally of runKernel: every worktree it made, all at once. *)
StartCleanup(r) ==
    git' = [w \in Worktrees |-> IF w \in Own(r) /\ git[w] = "added" THEN "wantRemove" ELSE git[w]]

(* Mutant: the manifest gets the decision instead of the status. *)
FinalizeDecision(r, status) ==
    /\ run' = [run EXCEPT
          ![r].pc = "cleanup", ![r].status = status, ![r].verdict = "none",
          ![r].manifest = IF run[r].verdict = "none" THEN status ELSE run[r].verdict]
    /\ UNCHANGED faults

(* finalizeIfRunning: an error is swallowed, the manifest stays running. *)
Finalize(r, status) ==
    \E written \in BOOLEAN :
        /\ IF written THEN UNCHANGED faults ELSE CallFails
        /\ run' = [run EXCEPT
              ![r].pc = "cleanup", ![r].status = status, ![r].verdict = "none",
              ![r].manifest = IF written /\ @ = "running" THEN status ELSE @]

WriteReport(r) ==
    /\ At(r, "report")
    /\ run' = [run EXCEPT ![r].stored = run[r].verdict, ![r].pc = "final",
                          ![r].report = <<>>, ![r].failedOnBase = FALSE]
    /\ UNCHANGED <<worktreeVars, cacheVars, agent, capture, baseline, aborted, faults>>

Return(r) ==
    /\ At(r, "final")
    /\ Finalize(r, TerminalStatus[run[r].verdict])
    /\ StartCleanup(r)
    /\ UNCHANGED <<lock, dirs, cacheVars, agent, capture, baseline, aborted>>

ReturnAgentFailed(r) ==
    /\ At(r, "agentFailed")
    /\ \E written \in BOOLEAN :
          /\ IF written THEN UNCHANGED faults ELSE CallFails
          /\ run' = [run EXCEPT
                ![r].pc = "cleanup", ![r].status = "failed", ![r].stored = "failure",
                ![r].manifest = IF written THEN "failed" ELSE @]
    /\ StartCleanup(r)
    /\ UNCHANGED <<lock, dirs, cacheVars, agent, capture, baseline, aborted>>

(* A write or a read between two of the awaits above fails. *)
StepThrows(r) ==
    /\ run[r].pc \in {"create", "capture", "ready", "agentFailed", "diff", "baseTests",
                      "gates", "report", "final"}
    /\ CallFails
    /\ Throw(r, "failed")
    /\ UNCHANGED <<worktreeVars, cacheVars, agent, capture, baseline, aborted>>

(* Mutant: a report that is there is kept. *)
CatchReportKeeps(r) ==
    /\ At(r, "catch")
    /\ run' = [run EXCEPT ![r].pc = "catchFinal",
                          ![r].stored = IF @ = "none" THEN "failure" ELSE @]
    /\ UNCHANGED <<worktreeVars, cacheVars, agent, capture, baseline, aborted, faults>>

(* The catch of runKernel writes the failure report over the other one. *)
CatchReport(r) ==
    /\ At(r, "catch")
    /\ \E written \in BOOLEAN :
          /\ IF written THEN UNCHANGED faults ELSE CallFails
          /\ run' = [run EXCEPT ![r].pc = "catchFinal",
                                ![r].stored = IF written THEN "failure" ELSE @]
    /\ UNCHANGED <<worktreeVars, cacheVars, agent, capture, baseline, aborted>>

CatchReturn(r) ==
    /\ At(r, "catchFinal")
    /\ Finalize(r, run[r].status)
    /\ StartCleanup(r)
    /\ UNCHANGED <<lock, dirs, cacheVars, agent, capture, baseline, aborted>>

CleanedUp(r) ==
    /\ At(r, "cleanup")
    /\ \A w \in Own(r) : git[w] \notin {"wantRemove", "removing", "fallback"}
    /\ Go(r, "returned")
    /\ UNCHANGED <<worktreeVars, cacheVars, agent, capture, baseline, aborted, faults>>
-----------------------------------------------------------------------------
(* Cancellation and crashes *)

(* Mutant: the evaluation is not cancellable. *)
CancellableUpToAgent == {"provisioning", "baselining", "agent"}

(* The awaits that an abort ends; the others run to their end. *)
CancellableWaits == {"provisioning", "baselining", "agent", "diff", "gates"}

Abort(r) ==
    /\ run[r].pc \notin {"start", "cleanup", "returned", "dead"}
    /\ r \notin aborted
    /\ Fault("aborts")
    /\ aborted' = aborted \union {r}
    /\ IF At(r, "creating") THEN Go(r, "createCancelled")
       ELSE IF run[r].pc \in CancellableWaits THEN Throw(r, "cancelled")
       ELSE UNCHANGED run
    /\ agent' = IF agent[r] = "running" THEN [agent EXCEPT ![r] = "dying"] ELSE agent
    /\ UNCHANGED <<worktreeVars, cacheVars, capture, baseline>>

(* The process of the run ends, with its tasks.  Its files stay. *)
Crash(r) ==
    /\ run[r].pc \notin {"start", "returned", "dead"}
    /\ Fault("crashes")
    /\ run' = [run EXCEPT ![r] = [NewRun EXCEPT !.pc = "dead", !.stored = run[r].stored,
                                                !.manifest = run[r].manifest]]
    /\ KillGit(Own(r))
    /\ KillProvisions(Own(r))
    /\ capture' = [capture EXCEPT ![r].pc = "none"]
    /\ agent' = [agent EXCEPT ![r] = "none"]
    /\ UNCHANGED <<baseline, aborted>>
-----------------------------------------------------------------------------
GitStep(w) ==
    /\ \/ (Acquire(w) \/ LockTimeout(w) \/ Add(w)) /\ UNCHANGED cacheVars
       \/ (Remove(w) \/ Fallback(w)) /\ LoseModules(w)
    /\ UNCHANGED <<runVars, faults>>

GitFault(w) ==
    /\ LockWriteFails(w) \/ AddFails(w) \/ RemoveFails(w) \/ FallbackFails(w)
    /\ CallFails
    /\ UNCHANGED <<cacheVars, runVars>>

Provision(w) ==
    /\ ProvStep(w) \/ (LostFiles(w) /\ ProvFails(w))
    /\ UNCHANGED <<lock, git, runVars, faults>>

ProvisionFault(w) ==
    /\ ProvFails(w)
    /\ CallFails
    /\ UNCHANGED <<lock, git, runVars>>

Capture(r) == CaptureRead(r) \/ CaptureGates(r) \/ CaptureWrite(r)

RunStep(r) ==
    \/ Create(r) \/ Created(r) \/ CreateCancelled(r) \/ Provisioned(r) \/ StartCapture(r)
    \/ Captured(r) \/ StartAgent(r) \/ ApplyStoredPatch(r) \/ AgentEnds(r) \/ AgentTimeout(r)
    \/ Diff(r) \/ BaseCreated(r) \/ BaseProvisioned(r) \/ BaseTests(r)
    \/ Judge(r) \/ WriteReport(r) \/ Return(r) \/ ReturnAgentFailed(r)
    \/ CatchReport(r) \/ CatchReturn(r) \/ CleanedUp(r)

Next ==
    \/ \E r \in Runs :
          \/ Begin(r) \/ BeginThrows(r) \/ RunStep(r) \/ Capture(r) \/ CaptureFails(r)
          \/ AgentDies(r) \/ StepThrows(r) \/ Abort(r) \/ Crash(r)
    \/ \E w \in Worktrees :
          GitStep(w) \/ GitFault(w) \/ Provision(w) \/ ProvisionFault(w)

Spec == Init /\ [][Next]_vars

(* Every call that is made comes back; nobody has to begin a run. *)
FairSpec ==
    /\ Spec
    /\ \A r \in Runs : WF_vars(RunStep(r)) /\ WF_vars(Capture(r))
    /\ \A w \in Worktrees : WF_vars(GitStep(w)) /\ WF_vars(Provision(w))
-----------------------------------------------------------------------------
RunRecord ==
    [pc : RunPcs, failedOnBase : BOOLEAN, report : Reports \union {<<>>},
     verdict : Decisions \union {"none"}, stored : Decisions \union {"none", "failure"},
     manifest : RunStatuses \union {"none", "running"}, status : RunStatuses \union {"none"}]
CaptureRecord ==
    [pc : {"none", "read", "gates", "write", "done", "failed"}, red : SUBSET GateIds]

(* Types of all variables. *)
TypeOK ==
    /\ WorktreesTypeOK
    /\ CacheTypeOK
    /\ run \in [Runs -> RunRecord]
    /\ agent \in [Runs -> {"none", "running", "dying"}]
    /\ capture \in [Runs -> CaptureRecord]
    /\ baseline \in SUBSET SUBSET GateIds
    /\ aborted \in SUBSET Runs
    /\ faults \in [aborts : Nat, crashes : Nat, errors : Nat]

(* A run that returned has left no worktree, whatever failed, timed out or *)
(* was aborted, but for one whose provision outlived the run and one whose *)
(* last rm failed.                                                         *)
ReturnedLeavesNoWorktree ==
    \A r \in Runs : At(r, "returned") =>
        \A w \in Own(r) \ torn : git[w] # "leaked" => w \notin dirs

(* As long as no two provisions touched the cache entry at the same time   *)
(* and none lost its worktree, a provision that ends well has given whole  *)
(* dependencies: also after crashes and failures between any two steps.    *)
CompleteModules ==
    torn = {} =>
        \A w \in Worktrees :
            prov[w].pc = "done" /\ git[w] = "added" => modules[w] = "whole"

(* While the work of the agent is read and evaluated its process is gone.  *)
EvaluatedTreeIsQuiet ==
    \A r \in Runs :
        run[r].pc \in {"diff", "baseCreating", "baseProvisioning", "baseTests", "gates"}
            => agent[r] = "none"

(* A run that returned tells one story: its report is not a verdict the    *)
(* returned status contradicts (with at most one failing call), and the    *)
(* manifest has that status unless writing it failed.                      *)
RecordsAgree ==
    \A r \in Runs : At(r, "returned") =>
        /\ faults.errors <= 1 /\ run[r].stored \in Decisions
               => run[r].status = TerminalStatus[run[r].stored]
        /\ run[r].manifest \in {run[r].status, "none", "running"}
        /\ faults.errors = 0 => run[r].manifest = run[r].status

Accepts(r) == run[r].verdict # "accept" /\ run'[r].verdict = "accept"

(* A candidate is accepted only if every required gate ran and passed, and *)
(* there is one; no skipped gate counts.                                   *)
AcceptIsEarned ==
    [][\A r \in Runs : Accepts(r) =>
          /\ \E i \in GateIds : Gates[i].required
          /\ \A i \in GateIds : Gates[i].required => run'[r].report[i] = "pass"]_vars

(* A run aborted before its gates have ended goes no further: nothing      *)
(* decides on it, in whatever await the abort found it.                    *)
AbortedRunIsNotJudged ==
    [][\A r \in aborted : run[r].verdict = "none" => run'[r].verdict = "none"]_vars

(* fixes_reproduced_failure is accepted only for a test that failed on the *)
(* base: docs/EVAL_ENGINE_SPEC.md, section on required evidence.           *)
FixEvidenceIsReal ==
    [][\A r \in Runs : Accepts(r) /\ FixTask =>
          \/ run'[r].failedOnBase
          \/ \E i \in RedOnBase : run'[r].report[i] = "pass"]_vars

(* Every run that began ends, also behind a lock file nobody removes. *)
EveryRunEnds ==
    \A r \in Runs : run[r].pc = "create" ~> run[r].pc \in {"returned", "dead"}
=============================================================================
