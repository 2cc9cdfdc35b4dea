--------------------------- MODULE LoopScheduler ---------------------------
(***************************************************************************)
(* LoopOrchestratorScheduler of one project                                *)
(* (apps/server/src/orchestrator/scheduler.ts): the drain that picks       *)
(* candidates and runs their loops one after the other, the API requests   *)
(* that start and stop it and change the same records, and the recovery    *)
(* of a restarted server.  The process is single-threaded, but every       *)
(* await lets another request in: an action here is the code from one      *)
(* await that reads or writes shared state to the next one.                *)
(***************************************************************************)
EXTENDS LoopStore, FiniteSets

CONSTANTS
    Clients,           \* API clients, each with at most one request in flight
    Modes,             \* modes a start request may carry
    LowRisk,           \* candidates auto mode may pick unapproved
    InitialStatus,     \* status of each candidate when the server first starts
    DailyLoopBudget, TokenBudget, OpenDraftPrLimit,   \* guardrails.ts
    FailureLimit, RetryLimit,
    TokenUsage,        \* tokens a run may report
    Quota,             \* bound: requests of each kind
    MaxDay,            \* bound: the last calendar day
    MaxCrashes,        \* bound: server crashes
    MaxErrors,         \* bound: store calls that throw under the drain
    QuietStart         \* assumption on clients: a start is sent only when no drain is
                       \* active and no other start is in flight

Requests == {"start", "stop", "cancel", "approve", "dismiss", "review"}
CandidateStatuses ==
    {"proposed", "approved", "queued", "running", "processed", "dismissed"}

ASSUME SchedulerAssumption ==
    /\ Modes \subseteq {"supervised", "auto"}
    /\ LowRisk \subseteq Candidates
    /\ InitialStatus \in [Candidates -> CandidateStatuses \ {"running"}]
    /\ DailyLoopBudget \in Nat \ {0}
    /\ TokenBudget \in Nat \ {0}
    /\ OpenDraftPrLimit \in Nat \ {0}
    /\ FailureLimit \in Nat \ {0}
    /\ RetryLimit \in Nat \ {0}
    /\ TokenUsage \subseteq Nat
    /\ Quota \in [Requests -> Nat]
    /\ MaxDay \in Nat
    /\ MaxCrashes \in Nat
    /\ MaxErrors \in Nat
    /\ QuietStart \in BOOLEAN

VARIABLES
    candStatus,  \* store: status of each ImprovementCandidate
    approval,    \* store: the Approval of each loop
    prStatus,    \* store: status of each loop's PullRequest
    orch,        \* store: the OrchestratorState row
    today,       \* the calendar day of now()
    boot,        \* server process: up, down, or a step of recoverProject
    drain,       \* the drain of the project; pc "off" when `active` has no entry
    call,        \* the request each client has in flight
    quota,       \* requests still allowed (bound)
    faults,      \* crashes and store errors so far (bound)
    hist         \* history: read by properties only, never by an action

store == <<candStatus, approval, prStatus, orch>>
world == <<today, boot, quota, faults>>
vars == <<loops, store, world, drain, call, hist>>
-----------------------------------------------------------------------------
(* Records *)

OrchStatuses == {"stopped", "running", "paused"}
OrchRecord ==
    [status : OrchStatuses, mode : {"supervised", "auto"},
     cand : Candidates \union {None}, loop : LoopIds \union {None},
     started : Nat, day : Nat, tokens : Nat, failures : Nat]

RunStatuses ==
    {"accepted", "rejected", "needs_human_review", "needs_more_tests", "cancelled", "failed"}
NoRun == [status |-> "cancelled", qualified |-> FALSE, tokens |-> 0]
RunRecord == [status : RunStatuses, qualified : BOOLEAN, tokens : Nat]

(* defaultStatePatch *)
InitOrch ==
    [status |-> "stopped", mode |-> "supervised", cand |-> None, loop |-> None,
     started |-> 0, day |-> 0, tokens |-> 0, failures |-> 0]

DrainPcs ==
    {"off", "top", "budget", "guard", "pick", "idle", "claim", "claimWrite", "create",
     "activeExists", "readState", "markRunning", "markState", "prepare", "runner",
     "account", "accountWrite", "settle", "retryWrite", "openApproval", "openPr", "createPr",
     "pauseLoop", "pauseExit", "exit"}
DrainRecord ==
    [pc : DrainPcs, aborted : BOOLEAN, cand : Candidates \union {None},
     loop : LoopIds \union {None}, run : RunRecord, snap : OrchRecord]
DrainAt(pc, aborted) ==
    [pc |-> pc, aborted |-> aborted, cand |-> None, loop |-> None,
     run |-> NoRun, snap |-> InitOrch]

CallPcs ==
    {"none", "startWrite", "startKick", "stopLoop", "stopLoopWrite", "stopCand",
     "stopCandWrite", "stopWrite", "cancelWrite", "approveWrite",
     "reviewApproval", "reviewLoop"}
Verdicts == {"approved", "rejected", "needs_more_tests"}
CallRecord ==
    [pc : CallPcs, cand : Candidates \union {None}, loop : LoopIds \union {None},
     verdict : Verdicts, snap : OrchRecord]
NoCall == [pc |-> "none", cand |-> None, loop |-> None, verdict |-> "approved",
           snap |-> InitOrch]

(* Has a stop returned with no start since; the stops in flight that no start *)
(* overlapped; the loops a cancellation was written for; runs begun by day.    *)
HistRecord ==
    [stopHeld : BOOLEAN, stopping : SUBSET Clients,
     cancelled : SUBSET (LoopIds \union {None}), startedOn : [0 .. MaxDay -> Nat]]

BootPcs == {"up", "down", "candidates", "loops", "current", "state"}
NoBoot == [pc |-> "up", cand |-> None, recovered |-> FALSE]

(* resetDailyBudgetIfNeeded *)
Normalized(s) ==
    IF s.day = today THEN s ELSE [s EXCEPT !.day = today, !.started = 0, !.tokens = 0]

OpenDraftPrs == Cardinality({l \in LoopIds : prStatus[l] = "draft_created"})

(* Mutant: the cap on open draft pull requests is not looked at. *)
AllowedIgnoringDraftPrs(s) ==
    s.started < DailyLoopBudget /\ s.tokens < TokenBudget /\ s.failures < FailureLimit

(* evaluateBeforeLoop; the token budget is always set, start requires it *)
Allowed(s) ==
    /\ s.started < DailyLoopBudget
    /\ s.tokens < TokenBudget
    /\ OpenDraftPrs < OpenDraftPrLimit
    /\ s.failures < FailureLimit

(* Mutant: a queued candidate is taken for one already in work. *)
SelectableOnlyApproved(c, mode) ==
    \/ candStatus[c] = "approved"
    \/ mode = "auto" /\ candStatus[c] = "proposed" /\ c \in LowRisk

(* isCandidateSelectableForMode *)
Selectable(c, mode) ==
    \/ candStatus[c] \in {"approved", "queued"}
    \/ mode = "auto" /\ candStatus[c] = "proposed" /\ c \in LowRisk

RetryableStatuses == {"rejected", "needs_more_tests", "failed"}
RetryCount(c) ==
    Cardinality({l \in LoopIds : loopTask[l] = c /\ loopStatus[l] \in RetryableStatuses})

Init ==
    /\ LoopsInit
    /\ candStatus = InitialStatus
    /\ approval = [l \in LoopIds |-> "none"]
    /\ prStatus = [l \in LoopIds |-> "none"]
    /\ orch = InitOrch
    /\ today = 0
    /\ boot = NoBoot
    /\ drain = DrainAt("off", FALSE)
    /\ call = [k \in Clients |-> NoCall]
    /\ quota = Quota
    /\ faults = [crashes |-> 0, errors |-> 0]
    /\ hist = [stopHeld |-> FALSE, stopping |-> {}, cancelled |-> {},
               startedOn |-> [d \in 0 .. MaxDay |-> 0]]
-----------------------------------------------------------------------------
(* The drain: one iteration of its loop *)

At(pc) == boot.pc = "up" /\ drain.pc = pc
Goto(pc) == drain' = [drain EXCEPT !.pc = pc]
SetCandidate(c, status) == candStatus' = [candStatus EXCEPT ![c] = status]

(* The loop condition and the read of the state. *)
DrainTop ==
    /\ At("top")
    /\ drain' = IF ~drain.aborted /\ orch.status = "running"
                THEN [drain EXCEPT !.pc = "budget", !.snap = orch]
                ELSE [drain EXCEPT !.pc = "exit"]
    /\ UNCHANGED <<loops, store, world, call, hist>>

(* Write the counters of a new day. *)
DrainBudget ==
    /\ At("budget")
    /\ LET n == Normalized(drain.snap) IN
       /\ orch' = IF n = drain.snap THEN orch
                  ELSE [orch EXCEPT !.day = n.day, !.started = n.started, !.tokens = n.tokens]
       /\ drain' = [drain EXCEPT !.pc = "guard", !.snap = n]
    /\ UNCHANGED <<loops, candStatus, approval, prStatus, world, call, hist>>

(* evaluateBeforeLoop on the snapshot and the current number of draft PRs. *)
DrainGuard ==
    /\ At("guard")
    /\ Goto(IF Allowed(Normalized(drain.snap)) THEN "pick" ELSE "pauseExit")
    /\ UNCHANGED <<loops, store, world, call, hist>>

(* nextCandidate: the selectable one of highest priority. *)
DrainPick ==
    /\ At("pick")
    /\ LET selectable == {c \in Candidates : Selectable(c, drain.snap.mode)} IN
       \/ /\ selectable = {}
          /\ Goto("idle")
       \/ \E c \in selectable :
             /\ \A k \in selectable : c <= k
             /\ drain' = [drain EXCEPT !.pc = "claim", !.cand = c]
    /\ UNCHANGED <<loops, store, world, call, hist>>

(* Nothing to do: the drain returns and the status stays "running". *)
DrainIdle ==
    /\ At("idle")
    /\ orch' = [orch EXCEPT !.cand = None, !.loop = None]
    /\ Goto("exit")
    /\ UNCHANGED <<loops, candStatus, approval, prStatus, world, call, hist>>

(* approveCandidate(.., 'queued') reads the candidate; a dismissed one throws. *)
DrainClaim ==
    /\ At("claim")
    /\ Goto(IF candStatus[drain.cand] = "dismissed" THEN "pauseExit" ELSE "claimWrite")
    /\ UNCHANGED <<loops, store, world, call, hist>>

DrainClaimWrite ==
    /\ At("claimWrite")
    /\ SetCandidate(drain.cand, "queued")
    /\ Goto("create")
    /\ UNCHANGED <<loops, approval, prStatus, orch, world, call, hist>>

(* createLoopIfNoActive, after the task and the latest base were fetched. *)
DrainCreate ==
    /\ At("create")
    /\ \E l \in LoopIds :
          /\ CreateLoop(l, drain.cand)
          /\ drain' = [drain EXCEPT !.pc = "readState", !.loop = l]
    /\ UNCHANGED <<store, world, call, hist>>

DrainActiveLoop ==
    /\ At("create")
    /\ ActiveLoops(drain.cand) # {}
    /\ Goto("activeExists")
    /\ UNCHANGED <<loops, store, world, call, hist>>

(* The task already has an active loop: back to "approved", and round again. *)
DrainActiveExists ==
    /\ At("activeExists")
    /\ SetCandidate(drain.cand, "approved")
    /\ drain' = DrainAt("top", drain.aborted)
    /\ UNCHANGED <<loops, approval, prStatus, orch, world, call, hist>>

DrainReadState ==
    /\ At("readState")
    /\ drain' = [drain EXCEPT !.pc = "markRunning", !.snap = Normalized(orch)]
    /\ UNCHANGED <<loops, store, world, call, hist>>

DrainMarkRunning ==
    /\ At("markRunning")
    /\ SetCandidate(drain.cand, "running")
    /\ Goto("markState")
    /\ UNCHANGED <<loops, approval, prStatus, orch, world, call, hist>>

DrainMarkState ==
    /\ At("markState")
    /\ orch' = [orch EXCEPT !.cand = drain.cand, !.loop = drain.loop,
                            !.started = drain.snap.started + 1,
                            !.day = drain.snap.day, !.tokens = drain.snap.tokens]
    /\ hist' = [hist EXCEPT !.startedOn[drain.snap.day] = @ + 1]
    /\ Goto("prepare")
    /\ UNCHANGED <<loops, candStatus, approval, prStatus, world, call>>

(* runLoop: the loop goes to the runner whatever its status has become. *)
DrainPrepare ==
    /\ At("prepare")
    /\ UpdateLoop(drain.loop, "workspace_preparing")
    /\ Goto("runner")
    /\ UNCHANGED <<store, world, call, hist>>

(* The runner returns or throws, and its outcome replaces the loop's status. *)
RunOutcomes ==
    [status : {"rejected", "needs_human_review", "needs_more_tests", "cancelled"},
     qualified : {FALSE}, tokens : TokenUsage]
    \union [status : {"accepted"}, qualified : BOOLEAN, tokens : TokenUsage]
    \union [status : {"failed"}, qualified : {FALSE}, tokens : TokenUsage \union {0}]

(* Mutant: the loop of an aborted run is left as it is. *)
DrainRunnerSkippingAborted ==
    /\ At("runner")
    /\ \E outcome \in RunOutcomes :
          LET run == IF drain.aborted THEN [outcome EXCEPT !.status = "cancelled"]
                     ELSE outcome
          IN /\ IF drain.aborted THEN UNCHANGED loops ELSE UpdateLoop(drain.loop, run.status)
             /\ drain' = [drain EXCEPT !.pc = "account", !.run = run]
    /\ UNCHANGED <<store, world, call, hist>>

DrainRunner ==
    /\ At("runner")
    /\ \E outcome \in RunOutcomes :
          LET run == IF drain.aborted THEN [outcome EXCEPT !.status = "cancelled"]
                     ELSE outcome
          IN /\ UpdateLoop(drain.loop, run.status)
             /\ drain' = [drain EXCEPT !.pc = "account", !.run = run]
             /\ hist' = IF run.status = "cancelled"
                        THEN [hist EXCEPT !.cancelled = @ \union {drain.loop}] ELSE hist
    /\ UNCHANGED <<store, world, call>>

(* finalizeLoopResult reads the state and adds the run to its counters; an  *)
(* abort seen here turns any outcome into a cancellation of the candidate.  *)
DrainAccount ==
    /\ At("account")
    /\ LET run == drain.run
           failed == run.status \in {"rejected", "failed"}
       IN drain' = [drain EXCEPT
                      !.pc = "accountWrite",
                      !.snap = [orch EXCEPT !.tokens = @ + run.tokens,
                                            !.failures = IF failed THEN @ + 1 ELSE 0],
                      !.run.status = IF drain.aborted THEN "cancelled" ELSE @]
    /\ UNCHANGED <<loops, store, world, call, hist>>

(* Mutant: the current candidate and loop stay in the row. *)
DrainAccountKeepingCurrent ==
    /\ At("accountWrite")
    /\ orch' = [orch EXCEPT !.tokens = drain.snap.tokens, !.failures = drain.snap.failures]
    /\ Goto("settle")
    /\ UNCHANGED <<loops, candStatus, approval, prStatus, world, call, hist>>

DrainAccountWrite ==
    /\ At("accountWrite")
    /\ orch' = [orch EXCEPT !.tokens = drain.snap.tokens, !.failures = drain.snap.failures,
                            !.cand = None, !.loop = None]
    /\ Goto("settle")
    /\ UNCHANGED <<loops, candStatus, approval, prStatus, world, call, hist>>

(* The circuit breaker and the token budget, once the candidate is settled. *)
AfterSettle ==
    IF drain.snap.failures >= FailureLimit \/ drain.snap.tokens >= TokenBudget
    THEN "pauseLoop" ELSE "top"

(* Mutant: one retry too many. *)
RetriesSpentLate(c) == RetryCount(c) > RetryLimit

(* The retry limit is reached; retryCount includes the loop that just ended. *)
RetriesSpent(c) == RetryCount(c) >= RetryLimit

(* Mutant: a cancelled run leaves its candidate alone. *)
DrainSettleForgettingCancelled ==
    /\ At("settle")
    /\ IF drain.run.status = "cancelled"
       THEN UNCHANGED candStatus
       ELSE SetCandidate(drain.cand, "processed")
    /\ drain' = DrainAt("top", drain.aborted)
    /\ UNCHANGED <<loops, approval, prStatus, orch, world, call, hist>>

(* What the candidate becomes, by the outcome of its run. *)
DrainSettle ==
    /\ At("settle")
    /\ LET run == drain.run
           c == drain.cand
       IN \/ /\ run.status = "cancelled"
             /\ SetCandidate(c, "queued")
             /\ drain' = DrainAt("top", drain.aborted)
          \/ /\ run.status = "accepted" /\ run.qualified
             /\ SetCandidate(c, "processed")
             /\ Goto("openPr")
          \/ /\ run.status = "accepted" /\ ~run.qualified
             /\ SetCandidate(c, "processed")
             /\ drain' = DrainAt(AfterSettle, drain.aborted)
          \/ /\ run.status = "needs_human_review"
             /\ SetCandidate(c, "processed")
             /\ Goto("openApproval")
          \/ /\ run.status \in RetryableStatuses
             /\ drain' = [drain EXCEPT !.pc = "retryWrite", !.run.qualified = RetriesSpent(c)]
             /\ UNCHANGED candStatus
    /\ UNCHANGED <<loops, approval, prStatus, orch, world, call, hist>>

(* Requeue, or dismiss at the retry limit: the count was read one await ago *)
(* and is kept in run.qualified, which a retryable run does not use.        *)
DrainRetryWrite ==
    /\ At("retryWrite")
    /\ SetCandidate(drain.cand, IF drain.run.qualified THEN "dismissed" ELSE "queued")
    /\ drain' = DrainAt(AfterSettle, drain.aborted)
    /\ UNCHANGED <<loops, approval, prStatus, orch, world, call, hist>>

DrainOpenApproval ==
    /\ At("openApproval")
    /\ approval' = [approval EXCEPT ![drain.loop] = "pending"]
    /\ drain' = DrainAt(AfterSettle, drain.aborted)
    /\ UNCHANGED <<loops, candStatus, prStatus, orch, world, call, hist>>

(* createPullRequestForLoop: the loop is read again and the trust floor may  *)
(* refuse its report; every refusal is only an event (pr.create_failed).     *)
DrainOpenPr ==
    /\ At("openPr")
    /\ \/ /\ loopStatus[drain.loop] \in {"accepted", "approved"}
          /\ prStatus' = [prStatus EXCEPT ![drain.loop] = "creating"]
          /\ Goto("createPr")
       \/ /\ drain' = DrainAt(AfterSettle, drain.aborted)
          /\ UNCHANGED prStatus
    /\ UNCHANGED <<loops, candStatus, approval, orch, world, call, hist>>

DrainCreatePr ==
    /\ At("createPr")
    /\ \E status \in {"draft_created", "create_failed"} :
          prStatus' = [prStatus EXCEPT ![drain.loop] = status]
    /\ drain' = DrainAt(AfterSettle, drain.aborted)
    /\ UNCHANGED <<loops, candStatus, approval, orch, world, call, hist>>

(* pause: whatever the status was, it becomes "paused". *)
DrainPause ==
    /\ \E pc \in {"pauseLoop", "pauseExit"} :
          /\ At(pc)
          /\ drain' = DrainAt(IF pc = "pauseLoop" THEN "top" ELSE "exit", drain.aborted)
    /\ orch' = [orch EXCEPT !.status = "paused", !.cand = None, !.loop = None]
    /\ UNCHANGED <<loops, candStatus, approval, prStatus, world, call, hist>>

(* Mutant: the entry of `active` outlives its drain. *)
DrainExitKeepingEntry ==
    /\ At("exit")
    /\ UNCHANGED vars

(* The finally of kick: the project's entry of `active` is deleted. *)
DrainExit ==
    /\ At("exit")
    /\ drain' = DrainAt("off", FALSE)
    /\ UNCHANGED <<loops, store, world, call, hist>>

(* A store call of the drain throws outside runLoop's try and the PR's catch. *)
DrainError ==
    /\ boot.pc = "up"
    /\ drain.pc \notin {"off", "exit", "pauseLoop", "pauseExit", "runner", "openPr", "createPr"}
    /\ faults.errors < MaxErrors
    /\ faults' = [faults EXCEPT !.errors = @ + 1]
    /\ Goto("pauseExit")
    /\ UNCHANGED <<loops, store, today, boot, quota, call, hist>>

DrainStep ==
    \/ DrainTop \/ DrainBudget \/ DrainGuard \/ DrainPick \/ DrainIdle
    \/ DrainClaim \/ DrainClaimWrite \/ DrainCreate \/ DrainActiveLoop \/ DrainActiveExists
    \/ DrainReadState \/ DrainMarkRunning \/ DrainMarkState \/ DrainPrepare
    \/ DrainRunner \/ DrainAccount \/ DrainAccountWrite \/ DrainSettle \/ DrainRetryWrite
    \/ DrainOpenApproval \/ DrainOpenPr \/ DrainCreatePr \/ DrainPause \/ DrainExit
-----------------------------------------------------------------------------
(* API requests *)

(* The first step of a request of the given kind. *)
Begin(k, request) ==
    /\ boot.pc = "up"
    /\ call[k].pc = "none"
    /\ quota[request] > 0
    /\ quota' = [quota EXCEPT ![request] = @ - 1]

Working(k, pc) == boot.pc = "up" /\ call[k].pc = pc
Continue(k, pc) == call' = [call EXCEPT ![k].pc = pc]
Finish(k) == call' = [call EXCEPT ![k] = NoCall]

(* start: the counters it will write back are read here. *)
StartRequest(k) ==
    /\ Begin(k, "start")
    /\ QuietStart => /\ drain.pc = "off"
                     /\ \A j \in Clients : call[j].pc \notin {"startWrite", "startKick"}
    /\ \E m \in Modes :
          call' = [call EXCEPT ![k] = [NoCall EXCEPT !.pc = "startWrite",
                                          !.snap = [Normalized(orch) EXCEPT !.mode = m]]]
    /\ UNCHANGED <<loops, store, today, boot, faults, drain, hist>>

StartWrite(k) ==
    /\ Working(k, "startWrite")
    /\ LET s == call[k].snap IN
       orch' = [orch EXCEPT !.status = "running", !.mode = s.mode, !.day = s.day,
                            !.started = s.started, !.tokens = s.tokens]
    /\ hist' = [hist EXCEPT !.stopHeld = FALSE, !.stopping = {}]
    /\ Continue(k, "startKick")
    /\ UNCHANGED <<loops, candStatus, approval, prStatus, world, drain>>

(* kick: nothing happens while `active` has an entry, aborted or not. *)
StartKick(k) ==
    /\ Working(k, "startKick")
    /\ drain' = IF drain.pc = "off" THEN DrainAt("top", FALSE) ELSE drain
    /\ hist' = [hist EXCEPT !.stopping = {}]
    /\ Finish(k)
    /\ UNCHANGED <<loops, store, world>>

(* Mutant: the running loop is not signalled. *)
StopRequestWithoutAbort(k) ==
    /\ Begin(k, "stop")
    /\ call' = [call EXCEPT ![k] = [NoCall EXCEPT !.pc = "stopLoop",
                                       !.loop = orch.loop, !.cand = orch.cand]]
    /\ hist' = [hist EXCEPT !.stopping = @ \union {k}]
    /\ UNCHANGED <<loops, store, today, boot, faults, drain>>

(* Mutant: only a loop the row names is signalled. *)
StopRequestOfCurrent(k) ==
    /\ Begin(k, "stop")
    /\ drain' = IF orch.loop = None THEN drain ELSE [drain EXCEPT !.aborted = TRUE]
    /\ call' = [call EXCEPT ![k] = [NoCall EXCEPT !.pc = "stopLoop",
                                       !.loop = orch.loop, !.cand = orch.cand]]
    /\ hist' = [hist EXCEPT !.stopping = @ \union {k}]
    /\ UNCHANGED <<loops, store, today, boot, faults>>

(* stop: the abort comes first, then the state is read. *)
StopRequest(k) ==
    /\ Begin(k, "stop")
    /\ drain' = IF drain.pc = "off" THEN drain ELSE [drain EXCEPT !.aborted = TRUE]
    /\ call' = [call EXCEPT ![k] = [NoCall EXCEPT !.pc = "stopLoop",
                                       !.loop = orch.loop, !.cand = orch.cand]]
    /\ hist' = [hist EXCEPT !.stopping = @ \union {k}]
    /\ UNCHANGED <<loops, store, today, boot, faults>>

StopLoop(k) ==
    /\ Working(k, "stopLoop")
    /\ LET l == call[k].loop IN
       Continue(k, IF l # None /\ loopStatus[l] \in ActiveStatuses
                   THEN "stopLoopWrite" ELSE "stopCand")
    /\ UNCHANGED <<loops, store, world, drain, hist>>

StopLoopWrite(k) ==
    /\ Working(k, "stopLoopWrite")
    /\ UpdateLoop(call[k].loop, "cancelled")
    /\ hist' = [hist EXCEPT !.cancelled = @ \union {call[k].loop}]
    /\ Continue(k, "stopCand")
    /\ UNCHANGED <<store, world, drain>>

StopCand(k) ==
    /\ Working(k, "stopCand")
    /\ LET c == call[k].cand IN
       Continue(k, IF c # None /\ candStatus[c] = "running"
                   THEN "stopCandWrite" ELSE "stopWrite")
    /\ UNCHANGED <<loops, store, world, drain, hist>>

StopCandWrite(k) ==
    /\ Working(k, "stopCandWrite")
    /\ SetCandidate(call[k].cand, "queued")
    /\ Continue(k, "stopWrite")
    /\ UNCHANGED <<loops, approval, prStatus, orch, world, drain, hist>>

(* Mutant: the status of the kill switch in progress is never replaced. *)
StopWriteStopping(k) ==
    /\ Working(k, "stopWrite")
    /\ orch' = [orch EXCEPT !.status = "stopping", !.cand = None, !.loop = None]
    /\ Finish(k)
    /\ UNCHANGED <<loops, candStatus, approval, prStatus, world, drain, hist>>

StopWrite(k) ==
    /\ Working(k, "stopWrite")
    /\ orch' = [orch EXCEPT !.status = "stopped", !.cand = None, !.loop = None]
    /\ hist' = [hist EXCEPT !.stopHeld = @ \/ k \in hist.stopping, !.stopping = @ \ {k}]
    /\ Finish(k)
    /\ UNCHANGED <<loops, candStatus, approval, prStatus, world, drain>>

(* POST /loops/:id/cancel: refused for a terminal loop; queue.cancel knows  *)
(* only the queue's own loops, so a loop of the drain is not signalled.     *)
CancelRequest(k) ==
    /\ Begin(k, "cancel")
    /\ \E l \in LoopIds :
          /\ loopStatus[l] \in ActiveStatuses
          /\ call' = [call EXCEPT ![k] = [NoCall EXCEPT !.pc = "cancelWrite", !.loop = l]]
    /\ UNCHANGED <<loops, store, today, boot, faults, drain, hist>>

CancelWrite(k) ==
    /\ Working(k, "cancelWrite")
    /\ UpdateLoop(call[k].loop, "cancelled")
    /\ hist' = [hist EXCEPT !.cancelled = @ \union {call[k].loop}]
    /\ Finish(k)
    /\ UNCHANGED <<store, world, drain>>

(* approveCandidate(.., 'approved') *)
ApproveRequest(k) ==
    /\ Begin(k, "approve")
    /\ \E c \in Candidates :
          /\ candStatus[c] # "dismissed"
          /\ call' = [call EXCEPT ![k] = [NoCall EXCEPT !.pc = "approveWrite", !.cand = c]]
    /\ UNCHANGED <<loops, store, today, boot, faults, drain, hist>>

ApproveWrite(k) ==
    /\ Working(k, "approveWrite")
    /\ SetCandidate(call[k].cand, "approved")
    /\ Finish(k)
    /\ UNCHANGED <<loops, approval, prStatus, orch, world, drain, hist>>

(* POST /candidates/:id/dismiss writes without looking at the status. *)
Dismiss(k) ==
    /\ Begin(k, "dismiss")
    /\ \E c \in Candidates : SetCandidate(c, "dismissed")
    /\ UNCHANGED <<loops, approval, prStatus, orch, today, boot, faults, drain, call, hist>>

(* transitionApproval: check, write the approval, write the loop. *)
ReviewRequest(k) ==
    /\ Begin(k, "review")
    /\ \E l \in LoopIds, v \in Verdicts :
          /\ approval[l] = "pending" /\ loopStatus[l] = "needs_human_review"
          /\ call' = [call EXCEPT ![k] = [NoCall EXCEPT !.pc = "reviewApproval",
                                             !.loop = l, !.verdict = v]]
    /\ UNCHANGED <<loops, store, today, boot, faults, drain, hist>>

ReviewApproval(k) ==
    /\ Working(k, "reviewApproval")
    /\ approval' = [approval EXCEPT ![call[k].loop] = "decided"]
    /\ Continue(k, "reviewLoop")
    /\ UNCHANGED <<loops, candStatus, prStatus, orch, world, drain, hist>>

ReviewLoop(k) ==
    /\ Working(k, "reviewLoop")
    /\ UpdateLoop(call[k].loop, call[k].verdict)
    /\ Finish(k)
    /\ UNCHANGED <<store, world, drain, hist>>

RequestStep(k) ==
    \/ StartRequest(k) \/ StopRequest(k) \/ CancelRequest(k)
    \/ ApproveRequest(k) \/ Dismiss(k) \/ ReviewRequest(k)

ClientStep(k) ==
    \/ StartWrite(k) \/ StartKick(k)
    \/ StopLoop(k) \/ StopLoopWrite(k) \/ StopCand(k) \/ StopCandWrite(k) \/ StopWrite(k)
    \/ CancelWrite(k) \/ ApproveWrite(k) \/ ReviewApproval(k) \/ ReviewLoop(k)
-----------------------------------------------------------------------------
(* Crash, and recoverProject before the server listens again *)

Crash ==
    /\ boot.pc # "down"
    /\ faults.crashes < MaxCrashes
    /\ faults' = [faults EXCEPT !.crashes = @ + 1]
    /\ boot' = [NoBoot EXCEPT !.pc = "down"]
    /\ drain' = DrainAt("off", FALSE)
    /\ call' = [k \in Clients |-> NoCall]
    /\ UNCHANGED <<loops, store, today, quota, hist>>

Restart ==
    /\ boot.pc = "down"
    /\ boot' = [NoBoot EXCEPT !.pc = "candidates"]
    /\ UNCHANGED <<loops, store, today, quota, faults, drain, call, hist>>

(* Each running candidate is queued again, then the active loops of its task fail. *)
RecoverCandidate ==
    /\ boot.pc = "candidates"
    /\ \E c \in Candidates :
          /\ candStatus[c] = "running"
          /\ SetCandidate(c, "queued")
          /\ boot' = [pc |-> "loops", cand |-> c, recovered |-> TRUE]
    /\ UNCHANGED <<loops, approval, prStatus, orch, today, quota, faults, drain, call, hist>>

RecoverLoops ==
    /\ boot.pc = "loops"
    /\ CloseActiveLoops(boot.cand, "failed")
    /\ boot' = [boot EXCEPT !.pc = "candidates", !.cand = None]
    /\ UNCHANGED <<store, today, quota, faults, drain, call, hist>>

(* Then the loop the state names, if it is still active. *)
RecoverCurrent ==
    /\ boot.pc = "candidates"
    /\ \A c \in Candidates : candStatus[c] # "running"
    /\ IF orch.loop # None /\ loopStatus[orch.loop] \in ActiveStatuses
       THEN /\ UpdateLoop(orch.loop, "failed")
            /\ boot' = [boot EXCEPT !.pc = "state", !.recovered = TRUE]
       ELSE /\ UNCHANGED loops
            /\ boot' = [boot EXCEPT !.pc = "state"]
    /\ UNCHANGED <<store, today, quota, faults, drain, call, hist>>

(* Mutant: a row is recovered only along with a candidate or a loop. *)
RecoverStateOfZombies ==
    /\ boot.pc = "state"
    /\ orch' = IF boot.recovered
               THEN [orch EXCEPT !.status = "stopped", !.cand = None, !.loop = None]
               ELSE orch
    /\ boot' = NoBoot
    /\ UNCHANGED <<loops, candStatus, approval, prStatus, today, quota, faults, drain, call, hist>>

(* Mutant: recovery writes the defaults, the counters of the day with them. *)
RecoverStateAnew ==
    /\ boot.pc = "state"
    /\ orch' = [InitOrch EXCEPT !.day = orch.day]
    /\ boot' = NoBoot
    /\ UNCHANGED <<loops, candStatus, approval, prStatus, today, quota, faults, drain, call, hist>>

RecoverState ==
    /\ boot.pc = "state"
    /\ orch' = IF boot.recovered \/ orch.status = "running"
               THEN [orch EXCEPT !.status = "stopped", !.cand = None, !.loop = None]
               ELSE orch
    /\ boot' = NoBoot
    /\ UNCHANGED <<loops, candStatus, approval, prStatus, today, quota, faults, drain, call, hist>>

BootStep == Restart \/ RecoverCandidate \/ RecoverLoops \/ RecoverCurrent \/ RecoverState

NextDay ==
    /\ today < MaxDay
    /\ today' = today + 1
    /\ UNCHANGED <<loops, store, boot, quota, faults, drain, call, hist>>
-----------------------------------------------------------------------------
Next ==
    \/ DrainStep
    \/ DrainError
    \/ \E k \in Clients : RequestStep(k) \/ ClientStep(k)
    \/ Crash
    \/ BootStep
    \/ NextDay

Spec == Init /\ [][Next]_vars

(* The event loop runs every continuation, the runner always returns (the    *)
(* agent and every command have a hard timeout, packages/sdk/src/run.ts), and *)
(* a crashed server is restarted.  Nobody is obliged to send a request.       *)
Fairness ==
    /\ WF_vars(DrainStep)
    /\ \A k \in Clients : WF_vars(ClientStep(k))
    /\ WF_vars(BootStep)

FairSpec == Spec /\ Fairness
-----------------------------------------------------------------------------
(* Properties *)

(* Every variable stays within its type: the statuses are those the routes   *)
(* and the scheduler write, and ids name existing kinds of record.           *)
TypeOK ==
    /\ LoopsTypeOK
    /\ candStatus \in [Candidates -> CandidateStatuses]
    /\ approval \in [LoopIds -> {"none", "pending", "decided"}]
    /\ prStatus \in [LoopIds -> {"none", "creating", "draft_created", "create_failed"}]
    /\ orch \in OrchRecord
    /\ today \in 0 .. MaxDay
    /\ boot \in [pc : BootPcs, cand : Candidates \union {None}, recovered : BOOLEAN]
    /\ drain \in DrainRecord
    /\ call \in [Clients -> CallRecord]
    /\ quota \in [Requests -> Nat]
    /\ faults \in [crashes : Nat, errors : Nat]
    /\ hist \in HistRecord

(* Where the drain is between marking its candidate running and settling it. *)
OwningPcs ==
    {"markState", "prepare", "runner", "account", "accountWrite", "settle", "retryWrite"}

(* A candidate is "running" only while the drain is working on that very     *)
(* candidate, so none is left running by a stop, a dismiss or an approve that *)
(* interleaves with the drain (scheduler.ts processCandidate, stop).          *)
RunningCandidateIsDrained ==
    faults.errors = 0 /\ boot.pc = "up" =>
        \A c \in Candidates :
            candStatus[c] = "running" => drain.cand = c /\ drain.pc \in OwningPcs

(* While the server has not crashed and no store call has thrown, a queued or *)
(* preparing loop always has the drain behind it: no zombie blocks its task.  *)
(* In particular at most one loop runs (AUTONOMOUS_LOOP_SPEC.md:108).         *)
ActiveLoopIsDrained ==
    faults.crashes = 0 /\ faults.errors = 0 =>
        \A l \in LoopIds :
            loopStatus[l] \in DrivenStatuses =>
                /\ drain.loop = l
                /\ drain.pc \in {"readState", "markRunning", "markState", "prepare", "runner"}

(* The state row never names a loop that the drain has let go of, so stop     *)
(* cancels, and recovery fails, the loop that is really running.  Only after  *)
(* a crash may it still name an older one, and that one is finished: recovery *)
(* leaves a row alone that was stopped and whose loop had ended.              *)
CurrentLoopIsDrained ==
    boot.pc = "up" /\ orch.loop # None =>
        \/ /\ drain.loop = orch.loop /\ drain.cand = orch.cand
           /\ drain.pc \in {"prepare", "runner", "account", "accountWrite", "pauseExit"}
        \/ /\ faults.crashes > 0
           /\ drain.loop # orch.loop /\ loopStatus[orch.loop] \notin ActiveStatuses

(* Kill switch (API_SPEC.md, rules of section 10): once a stop has returned   *)
(* that no start overlapped, no run is handed to the runner with a live       *)
(* signal until a start is served.                                            *)
KillSwitchHolds ==
    [][(~At("runner") /\ At("runner")') => (~hist.stopHeld \/ drain.aborted)]_vars

(* A pull request belongs to a loop that was accepted and never cancelled     *)
(* (LOOP_STATE_MACHINE.md:85): the abort that stop sends first makes sure     *)
(* that a loop it cancels cannot end up accepted.                             *)
PrOnlyForUncancelledLoop ==
    \A l \in LoopIds :
        prStatus[l] # "none" =>
            loopStatus[l] \in {"accepted", "approved"} /\ l \notin hist.cancelled

(* A loop that was cancelled is never given a pull request                     *)
(* (LOOP_STATE_MACHINE.md:85).                                                 *)
NoPrForCancelledLoop ==
    [][\A l \in LoopIds :
         (prStatus[l] = "none" /\ prStatus'[l] # "none") => l \notin hist.cancelled]_vars

(* The drain creates a loop only while every guardrail still holds, although   *)
(* it checked them four awaits earlier (guardrails.ts evaluateBeforeLoop); the *)
(* tokens are those of the current day, whatever day the row was written on.   *)
GuardrailsHoldAtCreate ==
    [][(At("create") /\ At("readState")') =>
           /\ orch.failures < FailureLimit
           /\ Normalized(orch).tokens < TokenBudget
           /\ OpenDraftPrs < OpenDraftPrLimit]_vars

(* No endless retry (AUTONOMOUS_LOOP_SPEC.md:127): a task collects at most     *)
(* RetryLimit failed loops, plus one for each crash and for each stop (both    *)
(* may requeue the candidate of a failed run without counting it), and for     *)
(* each approval (which revives a dismissed candidate when it races with the   *)
(* dismissal).                                                                 *)
RetriesBounded ==
    LET Sent(r) == Quota[r] - quota[r]
    IN \A c \in Candidates :
          RetryCount(c) <= RetryLimit + faults.crashes + Sent("stop") + Sent("approve")

(* The daily loop budget bounds the runs that really start on a day, across    *)
(* restarts (AUTONOMOUS_LOOP_SPEC.md:125).                                     *)
DailyBudgetHolds == \A d \in 0 .. MaxDay : hist.startedOn[d] <= DailyLoopBudget

(* Once recovery is over nothing is left running: no candidate, no state row   *)
(* that says "running", and none that names a loop which is not finished, so   *)
(* the kill switch of the new process finds nothing stale to cancel            *)
(* (scheduler.ts recoverProject), whatever the crash interrupted.              *)
RecoveryLeavesNothingRunning ==
    [][(boot.pc = "state" /\ boot'.pc = "up") =>
           /\ \A c \in Candidates : candStatus'[c] # "running"
           /\ orch'.status # "running"
           /\ orch'.loop # None => loopStatus'[orch'.loop] \notin ActiveStatuses]_vars

(* AUTONOMOUS_LOOP_SPEC.md:114-115: a restart fails every zombie run, so that  *)
(* no loop without a drain stays queued or preparing.                          *)
RecoveryLeavesNoZombieLoop ==
    [][(boot.pc = "state" /\ boot'.pc = "up") =>
           \A l \in LoopIds : loopStatus'[l] \notin DrivenStatuses]_vars

(* The loop runs and their pull requests follow the abstract state machine:    *)
(* terminal statuses are final, whoever writes them and whatever was read      *)
(* before (LOOP_STATE_MACHINE.md, sections 2 and 4).  A stop or a cancel of a   *)
(* queued loop breaks it, so the runs that check it allow neither.             *)
Lifecycle == INSTANCE LoopLifecycle WITH
    Loops <- LoopIds, Tasks <- Candidates, NoTask <- None,
    task <- loopTask, status <- loopStatus, pr <- prStatus
FollowsLifecycle == Lifecycle!Spec

(* Stop is obeyed: an aborted drain always comes to its end.                   *)
AbortedDrainEnds == drain.aborted ~> drain.pc = "off"

(* Every candidate the live drain has queued gets a decision, unless the drain *)
(* is aborted or the orchestrator leaves "running".                            *)
QueuedCandidateIsDecided ==
    \A c \in Candidates :
        (candStatus[c] = "queued" /\ orch.status = "running" /\ drain.pc # "off")
            ~> (\/ candStatus[c] \in {"processed", "dismissed"}
                \/ orch.status # "running" \/ drain.aborted)
=============================================================================
