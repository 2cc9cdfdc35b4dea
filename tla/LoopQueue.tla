----------------------------- MODULE LoopQueue -----------------------------
(***************************************************************************)
(* InProcessLoopQueue (apps/server/src/queue.ts) and the routes that       *)
(* create, retry and cancel loops by hand (routes/loops.ts).  The queue is *)
(* a chain of promises: one job runs at a time, and a job that throws is   *)
(* caught by its own handler.  An action is the code between two awaits    *)
(* that touch shared state.                                                *)
(***************************************************************************)
EXTENDS LoopStore, Sequences, Functions

CONSTANTS
    Clients,      \* API clients, each with at most one request in flight
    Keys,         \* idempotency keys
    Bodies,       \* request bodies, told apart by their hash
    Quota,        \* bound: requests of each kind
    MaxErrors,    \* bound: failing store calls
    MaxCrashes    \* bound: crashes of the server

Requests == {"create", "retry", "cancel"}

ASSUME QueueAssumption ==
    /\ Keys \subseteq Nat \ {0}
    /\ Bodies \subseteq Nat \ {0}
    /\ Quota \in [Requests -> Nat]
    /\ MaxErrors \in Nat
    /\ MaxCrashes \in Nat

VARIABLES
    loopReq,      \* store: idempotency key and body hash of each loop
    chain,        \* the jobs that wait in the chain of promises
    worker,       \* the job that runs
    controllers,  \* loops that have an AbortController
    aborted,      \* loops whose signal was aborted
    call,         \* the request each client has in flight
    quota,        \* requests still allowed (bound)
    faults,       \* store errors and crashes so far (bound)
    hist          \* history: read by properties only

queueVars == <<chain, worker, controllers, aborted>>
vars == <<loops, loopReq, queueVars, call, quota, faults, hist>>

NoReq == [key |-> 0, body |-> 0]
WorkerPcs ==
    {"idle", "check", "prepare", "runner", "recheck", "write", "completed",
     "catchRead", "catchWrite", "catchEvent"}
RunnerStatuses ==
    {"accepted", "rejected", "needs_human_review", "needs_more_tests", "cancelled", "failed"}
WorkerRecord == [pc : WorkerPcs, loop : LoopIds \union {None}, result : RunnerStatuses]
NoJob == [pc |-> "idle", loop |-> None, result |-> "cancelled"]

RequestIds == [key : Keys \union {0}, body : Bodies \union {0}]
CallPcs == {"none", "create", "enqueue", "cancel", "signal"}
CallRecord ==
    [pc : CallPcs, task : Candidates \union {None}, req : RequestIds, loop : LoopIds \union {None}]
NoCall == [pc |-> "none", task |-> None, req |-> NoReq, loop |-> None]

Init ==
    /\ LoopsInit
    /\ loopReq = [l \in LoopIds |-> NoReq]
    /\ chain = <<>>
    /\ worker = NoJob
    /\ controllers = {}
    /\ aborted = {}
    /\ call = [k \in Clients |-> NoCall]
    /\ quota = Quota
    /\ faults = [errors |-> 0, crashes |-> 0]
    /\ hist = [answered |-> {}, midRun |-> {}]

IsTerminal(l) == loopStatus[l] \in TerminalStatuses
StoreFails ==
    /\ faults.errors < MaxErrors
    /\ faults' = [faults EXCEPT !.errors = @ + 1]
-----------------------------------------------------------------------------
(* The routes *)

Begin(k, request) ==
    /\ call[k].pc = "none"
    /\ quota[request] > 0
    /\ quota' = [quota EXCEPT ![request] = @ - 1]

At(k, pc) == call[k].pc = pc
Answer(k) == call' = [call EXCEPT ![k] = NoCall]

(* findLoopByIdempotency *)
LoopsOfKey(c, key) == {l \in LoopIds : loopTask[l] = c /\ loopReq[l].key = key}

(* Mutant: a replayed request puts its loop into the queue once more. *)
CreateRequestEnqueuingReplay(k) ==
    /\ Begin(k, "create")
    /\ \E c \in Candidates, req \in [key : Keys, body : Bodies] :
          LET known == LoopsOfKey(c, req.key) IN
          call' = [call EXCEPT ![k] =
                     IF known = {}
                     THEN [NoCall EXCEPT !.pc = "create", !.task = c, !.req = req]
                     ELSE [NoCall EXCEPT !.pc = "enqueue", !.task = c, !.req = req,
                                         !.loop = CHOOSE l \in known : TRUE]]
    /\ UNCHANGED <<loops, loopReq, queueVars, faults, hist>>

(* POST /tasks/:id/loops: for a known key the loop is returned, or the request *)
(* is refused when its body is another.                                        *)
CreateRequest(k) ==
    /\ Begin(k, "create")
    /\ \E c \in Candidates, req \in [key : Keys, body : Bodies] :
          call' = IF LoopsOfKey(c, req.key) = {}
                  THEN [call EXCEPT ![k] = [NoCall EXCEPT !.pc = "create", !.task = c, !.req = req]]
                  ELSE call
    /\ UNCHANGED <<loops, loopReq, queueVars, faults, hist>>

RetryFrom == {"failed", "rejected", "needs_more_tests"}

(* POST /loops/:id/retry: a new loop of the same task, without a key. *)
RetryRequest(k) ==
    /\ Begin(k, "retry")
    /\ \E l \in LoopIds :
          /\ loopStatus[l] \in RetryFrom
          /\ call' = [call EXCEPT ![k] = [NoCall EXCEPT !.pc = "create", !.task = loopTask[l]]]
    /\ UNCHANGED <<loops, loopReq, queueVars, faults, hist>>

(* createLoopIfNoActive; the unique index on keys turns a duplicate into an error. *)
KeyTaken(c, req) == UniqueActiveIndex /\ req # NoReq /\ LoopsOfKey(c, req.key) # {}

CreateRefused(k) ==
    /\ At(k, "create")
    /\ ActiveLoops(call[k].task) # {} \/ KeyTaken(call[k].task, call[k].req)
    /\ Answer(k)
    /\ UNCHANGED <<loops, loopReq, queueVars, quota, faults, hist>>

CreateWrite(k) ==
    /\ At(k, "create")
    /\ ~KeyTaken(call[k].task, call[k].req)
    /\ \E l \in LoopIds :
          /\ CreateLoop(l, call[k].task)
          /\ loopReq' = [loopReq EXCEPT ![l] = call[k].req]
          /\ call' = [call EXCEPT ![k] = [@ EXCEPT !.pc = "enqueue", !.loop = l]]
    /\ UNCHANGED <<queueVars, quota, faults, hist>>

(* enqueue, for a retry after its event has been written *)
Enqueue(k) ==
    /\ At(k, "enqueue")
    /\ chain' = Append(chain, call[k].loop)
    /\ Answer(k)
    /\ UNCHANGED <<loops, loopReq, worker, controllers, aborted, quota, faults, hist>>

(* The event of a retry cannot be written: its loop never gets to the queue. *)
RetryEventThrows(k) ==
    /\ At(k, "enqueue") /\ call[k].req = NoReq
    /\ StoreFails
    /\ Answer(k)
    /\ UNCHANGED <<loops, loopReq, queueVars, quota, hist>>

CancelRequest(k) ==
    /\ Begin(k, "cancel")
    /\ \E l \in LoopIds :
          /\ loopStatus[l] \in ActiveStatuses
          /\ call' = [call EXCEPT ![k] = [NoCall EXCEPT !.pc = "cancel", !.loop = l]]
    /\ UNCHANGED <<loops, loopReq, queueVars, faults, hist>>

(* Mutant: a status that is not one of the loop's. *)
CancelWriteUnknown(k) ==
    /\ At(k, "cancel")
    /\ UpdateLoop(call[k].loop, "cancelling")
    /\ call' = [call EXCEPT ![k] = [@ EXCEPT !.pc = "signal"]]
    /\ UNCHANGED <<loopReq, queueVars, quota, faults, hist>>

CancelWrite(k) ==
    /\ At(k, "cancel")
    /\ UpdateLoop(call[k].loop, "cancelled")
    /\ hist' = IF worker.loop = call[k].loop /\ worker.pc \in {"runner", "recheck"}
               THEN [hist EXCEPT !.midRun = @ \union {call[k].loop}] ELSE hist
    /\ call' = [call EXCEPT ![k] = [@ EXCEPT !.pc = "signal"]]
    /\ UNCHANGED <<loopReq, queueVars, quota, faults>>

(* queue.cancel aborts the controller, if the loop has one. *)
CancelSignal(k) ==
    /\ At(k, "signal")
    /\ aborted' = aborted \union ({call[k].loop} \intersect controllers)
    /\ hist' = [hist EXCEPT !.answered = @ \union {call[k].loop}]
    /\ Answer(k)
    /\ UNCHANGED <<loops, loopReq, chain, worker, controllers, quota, faults>>

RequestStep(k) == CreateRequest(k) \/ RetryRequest(k) \/ CancelRequest(k)
ClientStep(k) ==
    \/ CreateRefused(k) \/ CreateWrite(k) \/ Enqueue(k)
    \/ CancelWrite(k) \/ CancelSignal(k)
-----------------------------------------------------------------------------
(* The job of the queue *)

Work(pc) == worker.pc = pc
Continue(pc) == worker' = [worker EXCEPT !.pc = pc]
JobEnds ==
    /\ worker' = NoJob
    /\ controllers' = controllers \ {worker.loop}

(* Mutant: the controller of the job is not registered. *)
JobStartsUnregistered ==
    /\ Work("idle") /\ chain # <<>>
    /\ chain' = Tail(chain)
    /\ worker' = [NoJob EXCEPT !.pc = "check", !.loop = Head(chain)]
    /\ UNCHANGED <<loops, loopReq, controllers, aborted, call, quota, faults, hist>>

JobStarts ==
    /\ Work("idle") /\ chain # <<>>
    /\ chain' = Tail(chain)
    /\ worker' = [NoJob EXCEPT !.pc = "check", !.loop = Head(chain)]
    /\ controllers' = controllers \union {Head(chain)}
    /\ UNCHANGED <<loops, loopReq, aborted, call, quota, faults, hist>>

(* A loop that is terminal by now is dropped. *)
JobCheck ==
    /\ Work("check")
    /\ IF IsTerminal(worker.loop)
       THEN JobEnds
       ELSE Continue("prepare") /\ UNCHANGED controllers
    /\ UNCHANGED <<loops, loopReq, chain, aborted, call, quota, faults, hist>>

JobPrepare ==
    /\ Work("prepare")
    /\ UpdateLoop(worker.loop, "workspace_preparing")
    /\ Continue("runner")
    /\ UNCHANGED <<loopReq, chain, controllers, aborted, call, quota, faults, hist>>

(* The runner ends, with any result: an abort may come too late for it. *)
RunnerReturns ==
    /\ Work("runner")
    /\ \E status \in RunnerStatuses :
          worker' = [worker EXCEPT !.pc = "recheck", !.result = status]
    /\ UNCHANGED <<loops, loopReq, chain, controllers, aborted, call, quota, faults, hist>>

RunnerThrows ==
    /\ Work("runner")
    /\ Continue("catchRead")
    /\ controllers' = controllers \ {worker.loop}
    /\ UNCHANGED <<loops, loopReq, chain, aborted, call, quota, faults, hist>>

(* Mutant: the result is written whatever the loop has become. *)
JobRecheckIgnored ==
    /\ Work("recheck")
    /\ Continue("write")
    /\ UNCHANGED <<loops, loopReq, chain, controllers, aborted, call, quota, faults, hist>>

(* The result of a loop that has become terminal is ignored. *)
JobRecheck ==
    /\ Work("recheck")
    /\ IF IsTerminal(worker.loop)
       THEN JobEnds
       ELSE Continue("write") /\ UNCHANGED controllers
    /\ UNCHANGED <<loops, loopReq, chain, aborted, call, quota, faults, hist>>

JobWrite ==
    /\ Work("write")
    /\ UpdateLoop(worker.loop, worker.result)
    /\ Continue("completed")
    /\ UNCHANGED <<loopReq, chain, controllers, aborted, call, quota, faults, hist>>

JobCompleted ==
    /\ Work("completed")
    /\ JobEnds
    /\ UNCHANGED <<loops, loopReq, chain, aborted, call, quota, faults, hist>>

(* A read or an event fails: the job goes to its handler.  The first read is *)
(* outside the try block that removes the controller.                        *)
JobThrows ==
    /\ worker.pc \in {"check", "recheck", "completed"}
    /\ StoreFails
    /\ Continue("catchRead")
    /\ controllers' = IF Work("check") THEN controllers ELSE controllers \ {worker.loop}
    /\ UNCHANGED <<loops, loopReq, chain, aborted, call, quota, hist>>

(* updateLoop swallows the error of a write, and its caller goes on. *)
WriteLost ==
    /\ StoreFails
    /\ \/ Work("prepare") /\ Continue("runner")
       \/ Work("write") /\ Continue("completed")
       \/ Work("catchWrite") /\ Continue("catchEvent")
    /\ UNCHANGED <<loops, loopReq, chain, controllers, aborted, call, quota, hist>>

CatchRead ==
    /\ Work("catchRead")
    /\ Continue(IF IsTerminal(worker.loop) THEN "catchEvent" ELSE "catchWrite")
    /\ UNCHANGED <<loops, loopReq, chain, controllers, aborted, call, quota, faults, hist>>

(* Mutant: the handler only writes its event. *)
CatchWriteNothing ==
    /\ Work("catchWrite")
    /\ Continue("catchEvent")
    /\ UNCHANGED <<loops, loopReq, chain, controllers, aborted, call, quota, faults, hist>>

CatchWrite ==
    /\ Work("catchWrite")
    /\ UpdateLoop(worker.loop, "failed")
    /\ Continue("catchEvent")
    /\ UNCHANGED <<loopReq, chain, controllers, aborted, call, quota, faults, hist>>

CatchEvent ==
    /\ Work("catchEvent")
    /\ worker' = NoJob
    /\ UNCHANGED <<loops, loopReq, chain, controllers, aborted, call, quota, faults, hist>>

(* The process dies and a new one starts: recoverAll looks at candidates and *)
(* at the orchestrator's loop only, so loops of the queue stay as they are.   *)
ProcessDies ==
    /\ chain' = <<>>
    /\ worker' = NoJob
    /\ controllers' = {}
    /\ aborted' = {}
    /\ call' = [k \in Clients |-> NoCall]
    /\ UNCHANGED <<loops, loopReq, quota, hist>>

Crash ==
    /\ faults.crashes < MaxCrashes
    /\ faults' = [faults EXCEPT !.crashes = @ + 1]
    /\ ProcessDies

(* Mutant: a handler that throws breaks the chain, nothing after it runs. *)
CatchThrowsBreakingChain ==
    /\ worker.pc \in {"catchRead", "catchEvent"} /\ chain # <<>>
    /\ StoreFails
    /\ chain' = <<>>
    /\ worker' = NoJob
    /\ UNCHANGED <<loops, loopReq, controllers, aborted, call, quota, hist>>

(* The handler throws: the next job of the chain is skipped and its handler   *)
(* takes the error for its own.                                               *)
CatchThrows ==
    /\ worker.pc \in {"catchRead", "catchEvent"} /\ chain # <<>>
    /\ StoreFails
    /\ chain' = Tail(chain)
    /\ worker' = [NoJob EXCEPT !.pc = "catchRead", !.loop = Head(chain)]
    /\ UNCHANGED <<loops, loopReq, controllers, aborted, call, quota, hist>>

(* Without a next job nobody handles the rejection, and the process dies; so   *)
(* does it when the event of enqueue fails, for which nobody waits.            *)
UnhandledRejection ==
    /\ \/ worker.pc \in {"catchRead", "catchEvent"} /\ chain = <<>>
       \/ \E k \in Clients : At(k, "enqueue")
    /\ faults.errors < MaxErrors
    /\ faults' = [errors |-> faults.errors + 1, crashes |-> faults.crashes + 1]
    /\ ProcessDies

JobStep ==
    \/ JobStarts \/ JobCheck \/ JobPrepare \/ RunnerReturns \/ RunnerThrows
    \/ JobRecheck \/ JobWrite \/ JobCompleted \/ CatchRead \/ CatchWrite \/ CatchEvent

Fault ==
    \/ JobThrows \/ WriteLost \/ CatchThrows \/ UnhandledRejection \/ Crash
    \/ \E k \in Clients : RetryEventThrows(k)

Next ==
    \/ JobStep
    \/ \E k \in Clients : RequestStep(k) \/ ClientStep(k)
    \/ Fault

Spec == Init /\ [][Next]_vars

(* The event loop runs every continuation, and the runner always returns: the *)
(* agent and every command have a hard timeout.  No client must call.         *)
Fairness == WF_vars(JobStep) /\ \A k \in Clients : WF_vars(ClientStep(k))

FairSpec == Spec /\ Fairness
-----------------------------------------------------------------------------
(* Properties *)

(* Every variable stays within its type; in particular the routes and the job  *)
(* write only statuses the store knows.                                        *)
TypeOK ==
    /\ LoopsTypeOK
    /\ loopReq \in [LoopIds -> RequestIds]
    /\ chain \in Seq(LoopIds)
    /\ worker \in WorkerRecord
    /\ controllers \subseteq LoopIds
    /\ aborted \subseteq LoopIds
    /\ call \in [Clients -> CallRecord]
    /\ quota \in [Requests -> Nat]
    /\ faults \in [errors : Nat, crashes : Nat]
    /\ hist \in [answered : SUBSET LoopIds, midRun : SUBSET LoopIds]

(* A loop has at most one job, in the chain or running, however its creation is *)
(* retried and replayed (routes/loops.ts:42-48): it never runs twice.           *)
NoDuplicateJob ==
    /\ IsInjective(chain)
    /\ worker.loop \notin Range(chain)
    /\ \A j, k \in Clients :
          (At(k, "enqueue") /\ (j # k => At(j, "enqueue")))
              => /\ call[k].loop \notin Range(chain) \union {worker.loop}
                 /\ j # k => call[j].loop # call[k].loop

(* As long as the store answers and the process lives, a queued or preparing   *)
(* loop is on its way: with the request that created it, in the chain or at    *)
(* the job that runs.  Otherwise it would block its task for ever, since       *)
(* createLoopIfNoActive refuses a second active loop.                          *)
DrivenLoopHasDriver ==
    faults.errors = 0 /\ faults.crashes = 0 =>
        \A l \in LoopIds :
            loopStatus[l] \in DrivenStatuses =>
                \/ \E k \in Clients : At(k, "enqueue") /\ call[k].loop = l
                \/ l \in Range(chain)
                \/ worker.loop = l

(* Once a cancel request has been answered the runner does not work on the     *)
(* loop with a live signal (LOOP_STATE_MACHINE.md section 6): the controller    *)
(* is registered before the job looks at the status, so a cancel that the job  *)
(* does not see in the store reaches it as an abort.                           *)
CancelledRunIsAborted ==
    \A l \in hist.answered : (worker.loop = l /\ Work("runner")) => l \in aborted

(* A loop that is cancelled while its runner works stays cancelled, whatever   *)
(* the runner returns or throws afterwards (queue.ts loop.result_ignored).     *)
CancelDuringRunSticks == \A l \in hist.midRun : loopStatus[l] = "cancelled"

(* LOOP_STATE_MACHINE.md:92: the same key with the same body returns the same  *)
(* loop, so the request is never refused on account of that very loop.         *)
ReplayReturnsTheLoop ==
    [][\A k \in Clients :
         CreateRefused(k) =>
             call[k].req = NoReq
             \/ \A l \in LoopsOfKey(call[k].task, call[k].req.key) : loopReq[l] # call[k].req]_vars

(* A queued loop does not wait for ever: it is prepared, or fails, or is       *)
(* cancelled - also when one store call fails, under its own job or under the  *)
(* handler of an earlier one.  A second failure may lose the write 'failed',   *)
(* and a crash loses the chain.                                                *)
QueuedLoopIsServed ==
    \A l \in LoopIds :
        (loopStatus[l] = "queued" /\ l \in Range(chain))
            ~> (loopStatus[l] # "queued" \/ faults.errors > 1 \/ faults.crashes > 0)
=============================================================================
