------------------------- MODULE LoopQueue_proofs -------------------------
(***************************************************************************)
(* Proofs about the loop queue, for any tasks, clients, keys, bounds and   *)
(* failures, with either store.                                            *)
(***************************************************************************)
EXTENDS LoopQueue, TLAPS

(* The jobs that wait for their look at the status of their loop. *)
Waiting ==
    Range(chain)
    \union {call[k].loop : k \in {j \in Clients : At(j, "enqueue")}}
    \union (IF Work("check") THEN {worker.loop} ELSE {})

(* Jobs and requests name loops that exist. *)
NamesExist ==
    /\ \A l \in Waiting \union hist.answered \union hist.midRun : loopStatus[l] # "none"
    /\ worker = NoJob \/ (worker.pc # "idle" /\ worker.loop \in LoopIds)
    /\ worker # NoJob => loopStatus[worker.loop] # "none"
    /\ \A k \in Clients :
          At(k, "enqueue") \/ At(k, "cancel") \/ At(k, "signal") =>
              call[k].loop \in LoopIds /\ loopStatus[call[k].loop] # "none"

(* A loop cancelled under its runner is past the writes of its job. *)
MidRunInv ==
    \A l \in hist.midRun :
        /\ loopStatus[l] = "cancelled"
        /\ l \notin Waiting
        /\ worker.loop = l => worker.pc \in {"runner", "recheck", "catchRead", "catchEvent"}

(* The controller is there while a cancel may have to reach the runner; a loop *)
(* cancelled before its job looks at the status is seen to be.                 *)
SignalInv ==
    /\ worker.pc \in {"check", "prepare", "runner"} => worker.loop \in controllers
    /\ \A l \in Waiting :
          (l \in hist.answered \/ \E k \in Clients : At(k, "signal") /\ call[k].loop = l)
              => loopStatus[l] = "cancelled"
    /\ \A l \in hist.answered :
          (worker.loop = l /\ worker.pc \in {"prepare", "runner"}) => l \in aborted

(* The unique index keeps the active loops of a task apart, so it never refuses *)
(* the result of a loop that is still active; the job ends with a loop that is  *)
(* no longer queued or preparing.                                               *)
OneActive ==
    UniqueActiveIndex =>
        \A k, l \in LoopIds :
            (k # l /\ loopStatus[k] \in ActiveStatuses /\ loopStatus[l] \in ActiveStatuses)
                => loopTask[k] # loopTask[l]

DriverInv ==
    /\ OneActive
    /\ DrivenLoopHasDriver
    /\ (faults.errors = 0 /\ worker.pc \in {"completed", "catchEvent"})
          => loopStatus[worker.loop] \notin DrivenStatuses

(* NoDuplicateJob keeps a loop from being written by two jobs; without it the *)
(* three facts about cancelled and driven loops would not be inductive.       *)
Safe == NamesExist /\ NoDuplicateJob /\ MidRunInv /\ SignalInv /\ DriverInv

IInv == TypeOK /\ Safe
-----------------------------------------------------------------------------
(* Sequences *)

LEMMA RangeOfAppend ==
    ASSUME NEW S, NEW s \in Seq(S), NEW e \in S
    PROVE  /\ Range(Append(s, e)) = Range(s) \union {e}
           /\ (IsInjective(s) /\ e \notin Range(s)) => IsInjective(Append(s, e))
  <1>1. /\ Append(s, e) \in Seq(S)
        /\ DOMAIN Append(s, e) = DOMAIN s \union {Len(s) + 1}
        /\ Len(s) + 1 \notin DOMAIN s
        /\ \A i \in DOMAIN s : Append(s, e)[i] = s[i]
        /\ Append(s, e)[Len(s) + 1] = e
    OBVIOUS
  <1>. QED  BY <1>1 DEF Range, IsInjective

LEMMA RangeOfTail ==
    ASSUME NEW S, NEW s \in Seq(S), s # <<>>
    PROVE  /\ Tail(s) \in Seq(S)
           /\ Head(s) \in S
           /\ Range(s) = {Head(s)} \union Range(Tail(s))
           /\ IsInjective(s) => (Head(s) \notin Range(Tail(s)) /\ IsInjective(Tail(s)))
  <1>1. /\ Tail(s) \in Seq(S) /\ Head(s) \in S
        /\ Len(s) \in Nat \ {0} /\ Head(s) = s[1]
        /\ DOMAIN s = 1 .. Len(s) /\ DOMAIN Tail(s) = 1 .. Len(s) - 1
        /\ \A i \in DOMAIN Tail(s) : Tail(s)[i] = s[i + 1]
    OBVIOUS
  <1>2. \A i \in DOMAIN Tail(s) : i + 1 \in DOMAIN s /\ i + 1 # 1
    BY <1>1
  <1>3. \A i \in DOMAIN s : i = 1 \/ (i - 1 \in DOMAIN Tail(s) /\ Tail(s)[i - 1] = s[i])
    BY <1>1
  <1>4. Range(s) = {Head(s)} \union Range(Tail(s))
    <2>1. ASSUME NEW x \in Range(s) PROVE x \in {Head(s)} \union Range(Tail(s))
      <3>1. PICK i \in DOMAIN s : s[i] = x  BY DEF Range
      <3>. QED  BY <3>1, <1>1, <1>3 DEF Range
    <2>2. Head(s) \in Range(s)  BY <1>1 DEF Range
    <2>3. Range(Tail(s)) \subseteq Range(s)  BY <1>1, <1>2 DEF Range
    <2>. QED  BY <2>1, <2>2, <2>3
  <1>5. ASSUME IsInjective(s)
        PROVE  Head(s) \notin Range(Tail(s)) /\ IsInjective(Tail(s))
    <2>1. Head(s) \notin Range(Tail(s))
      <3>1. SUFFICES ASSUME NEW i \in DOMAIN Tail(s), Tail(s)[i] = Head(s) PROVE FALSE
        BY DEF Range
      <3>. QED  BY <1>1, <1>2, <1>5, <3>1 DEF IsInjective
    <2>2. ASSUME NEW i \in DOMAIN Tail(s), NEW j \in DOMAIN Tail(s), Tail(s)[i] = Tail(s)[j]
          PROVE  i = j
      <3>1. s[i + 1] = s[j + 1]  BY <1>1, <2>2
      <3>2. i + 1 = j + 1  BY <1>2, <1>5, <3>1 DEF IsInjective
      <3>. QED  BY <1>1, <3>2
    <2>. QED  BY <2>1, <2>2 DEF IsInjective
  <1>. QED  BY <1>1, <1>4, <1>5

LEMMA RangeOfEmpty == Range(<<>>) = {} /\ IsInjective(<<>>)
  BY DEF Range, IsInjective
-----------------------------------------------------------------------------
(* The store *)

LEMMA UpdateLoopFacts ==
    ASSUME LoopsTypeOK, NEW l \in LoopIds, NEW s \in LoopStatuses, UpdateLoop(l, s)
    PROVE  /\ LoopsTypeOK' /\ loopTask' = loopTask
           /\ \A m \in LoopIds : m # l => loopStatus'[m] = loopStatus[m]
           /\ loopStatus'[l] \in {loopStatus[l], s}
           /\ s \notin ActiveStatuses => loopStatus'[l] = s
  BY DEF UpdateLoop, LoopsTypeOK

(* The index refuses the update only of a loop that is not the active one. *)
LEMMA UpdateOfActiveLoop ==
    ASSUME LoopsTypeOK, OneActive, NEW l \in LoopIds, NEW s, UpdateLoop(l, s),
           loopStatus[l] \in ActiveStatuses
    PROVE  loopStatus'[l] = s
  BY DEF UpdateLoop, LoopsTypeOK, OneActive, ActiveLoops

LEMMA UpdateKeepsOneActive ==
    ASSUME LoopsTypeOK, OneActive, NEW l \in LoopIds, NEW s \in LoopStatuses, UpdateLoop(l, s)
    PROVE  OneActive'
  <1>1. SUFFICES ASSUME UniqueActiveIndex, NEW j \in LoopIds, NEW k \in LoopIds, j # k,
                        loopStatus'[j] \in ActiveStatuses, loopStatus'[k] \in ActiveStatuses
                 PROVE  loopTask'[j] # loopTask'[k]
    BY DEF OneActive
  <1>. QED  BY <1>1 DEF UpdateLoop, LoopsTypeOK, OneActive, ActiveLoops

LEMMA CreateLoopFacts ==
    ASSUME LoopsTypeOK, OneActive, NEW l \in LoopIds, NEW c \in Candidates \union {None},
           CreateLoop(l, c)
    PROVE  /\ LoopsTypeOK' /\ OneActive'
           /\ loopStatus[l] = "none" /\ loopStatus'[l] = "queued"
           /\ \A m \in LoopIds : m # l => loopStatus'[m] = loopStatus[m]
  <1>1. LoopsTypeOK'  BY DEF CreateLoop, LoopsTypeOK, LoopStatuses, ActiveStatuses, DrivenStatuses
  <1>2. OneActive'  BY DEF CreateLoop, LoopsTypeOK, OneActive, ActiveLoops
  <1>. QED  BY <1>1, <1>2 DEF CreateLoop, LoopsTypeOK

-----------------------------------------------------------------------------
(* Records *)

LEMMA PcNames ==
    /\ {"check", "prepare", "runner", "recheck", "write", "completed"} \subseteq WorkerPcs
    /\ {"idle", "catchRead", "catchWrite", "catchEvent"} \subseteq WorkerPcs
    /\ {"none", "create", "enqueue", "cancel", "signal"} \subseteq CallPcs
  BY DEF WorkerPcs, CallPcs

LEMMA StatusNames ==
    /\ RunnerStatuses \subseteq LoopStatuses
    /\ {"queued", "workspace_preparing", "failed", "cancelled"} \subseteq LoopStatuses
  BY DEF RunnerStatuses, LoopStatuses, ActiveStatuses, DrivenStatuses, TerminalStatuses

LEMMA WorkerMove ==
    ASSUME NEW w \in WorkerRecord, NEW pc \in WorkerPcs
    PROVE  /\ [w EXCEPT !.pc = pc] \in WorkerRecord
           /\ [w EXCEPT !.pc = pc].pc = pc
           /\ [w EXCEPT !.pc = pc].loop = w.loop
  BY DEF WorkerRecord

LEMMA WorkerResult ==
    ASSUME NEW w \in WorkerRecord, NEW status \in RunnerStatuses
    PROVE  /\ [w EXCEPT !.pc = "recheck", !.result = status] \in WorkerRecord
           /\ [w EXCEPT !.pc = "recheck", !.result = status].pc = "recheck"
           /\ [w EXCEPT !.pc = "recheck", !.result = status].loop = w.loop
  BY DEF WorkerRecord, WorkerPcs

LEMMA JobOf ==
    ASSUME NEW pc \in WorkerPcs, NEW l \in LoopIds
    PROVE  /\ [NoJob EXCEPT !.pc = pc, !.loop = l] \in WorkerRecord
           /\ [NoJob EXCEPT !.pc = pc, !.loop = l].pc = pc
           /\ [NoJob EXCEPT !.pc = pc, !.loop = l].loop = l
  BY DEF NoJob, WorkerRecord, RunnerStatuses

LEMMA NoJobType == NoJob \in WorkerRecord /\ NoJob.pc = "idle" /\ NoJob.loop = None
  BY DEF NoJob, WorkerRecord, WorkerPcs, RunnerStatuses

LEMMA NoCallType == NoCall \in CallRecord /\ NoCall.pc = "none" /\ NoReq \in RequestIds
  BY DEF NoCall, CallRecord, CallPcs, NoReq, RequestIds

LEMMA NewCallTypes ==
    ASSUME NEW c \in Candidates \union {None}, NEW req \in RequestIds
    PROVE  /\ [NoCall EXCEPT !.pc = "create", !.task = c, !.req = req] \in CallRecord
           /\ [NoCall EXCEPT !.pc = "create", !.task = c, !.req = req].pc = "create"
           /\ [NoCall EXCEPT !.pc = "create", !.task = c] \in CallRecord
           /\ [NoCall EXCEPT !.pc = "create", !.task = c].pc = "create"
  BY DEF NoCall, CallRecord, CallPcs, NoReq, RequestIds

LEMMA CancelCall ==
    ASSUME NEW l \in LoopIds
    PROVE  /\ [NoCall EXCEPT !.pc = "cancel", !.loop = l] \in CallRecord
           /\ [NoCall EXCEPT !.pc = "cancel", !.loop = l].pc = "cancel"
           /\ [NoCall EXCEPT !.pc = "cancel", !.loop = l].loop = l
  BY DEF NoCall, CallRecord, CallPcs, NoReq, RequestIds

LEMMA CallMove ==
    ASSUME NEW r \in CallRecord, NEW pc \in CallPcs, NEW l \in LoopIds
    PROVE  /\ [r EXCEPT !.pc = pc] \in CallRecord
           /\ [r EXCEPT !.pc = pc].pc = pc
           /\ [r EXCEPT !.pc = pc].loop = r.loop
           /\ [r EXCEPT !.pc = pc, !.loop = l] \in CallRecord
           /\ [r EXCEPT !.pc = pc, !.loop = l].pc = pc
           /\ [r EXCEPT !.pc = pc, !.loop = l].loop = l
  BY DEF CallRecord

(* What an action does to the call of its client; other calls are kept. *)
LEMMA CallChange ==
    ASSUME NEW f \in [Clients -> CallRecord], NEW k \in Clients, NEW r \in CallRecord
    PROVE  /\ [f EXCEPT ![k] = r] \in [Clients -> CallRecord]
           /\ [f EXCEPT ![k] = r][k] = r
           /\ \A j \in Clients : j # k => [f EXCEPT ![k] = r][j] = f[j]
  OBVIOUS

(* Every step keeps every variable in its type. *)
LEMMA TypeOKStep ==
    ASSUME TypeOK, NamesExist, OneActive, Next
    PROVE  TypeOK'
  <1>. USE DEF loops, queueVars
  <1>a. /\ LoopsTypeOK /\ chain \in Seq(LoopIds) /\ worker \in WorkerRecord
        /\ controllers \subseteq LoopIds /\ aborted \subseteq LoopIds
        /\ call \in [Clients -> CallRecord] /\ loopReq \in [LoopIds -> RequestIds]
        /\ quota \in [Requests -> Nat] /\ faults \in [errors : Nat, crashes : Nat]
        /\ hist \in [answered : SUBSET LoopIds, midRun : SUBSET LoopIds]
    BY DEF TypeOK
  <1>1. ASSUME NEW k \in Clients, CreateRequest(k) PROVE TypeOK'
    <2>1. PICK c \in Candidates, req \in [key : Keys, body : Bodies] :
            call' = call \/ call' = [call EXCEPT ![k] = [NoCall EXCEPT !.pc = "create", !.task = c, !.req = req]]
      BY <1>a, <1>1 DEF CreateRequest
    <2>2. req \in RequestIds /\ c \in Candidates \union {None}
      BY <1>a, <1>1 DEF RequestIds
    <2>3. [NoCall EXCEPT !.pc = "create", !.task = c, !.req = req] \in CallRecord
      BY <1>a, <1>1, <2>2, NewCallTypes
    <2>4. call' \in [Clients -> CallRecord]
      BY <1>a, <1>1, <2>1, <2>3, CallChange
    <2>5. quota' \in [Requests -> Nat]
      BY <1>a, <1>1 DEF CreateRequest, Begin, Requests
    <2>. QED  BY <1>a, <1>1, <2>1, <2>2, <2>3, <2>4, <2>5 DEF TypeOK, LoopsTypeOK,
       CreateRequest
  <1>2. ASSUME NEW k \in Clients, RetryRequest(k) PROVE TypeOK'
    <2>1. PICK l \in LoopIds : call' = [call EXCEPT ![k] = [NoCall EXCEPT !.pc = "create", !.task = loopTask[l]]]
      BY <1>a, <1>2 DEF RetryRequest
    <2>2. loopTask[l] \in Candidates \union {None}
      BY <1>a, <1>2 DEF LoopsTypeOK
    <2>3. call' \in [Clients -> CallRecord]
      BY <1>a, <1>2, <2>1, <2>2, NewCallTypes, NoCallType, CallChange
    <2>4. quota' \in [Requests -> Nat]
      BY <1>a, <1>2 DEF RetryRequest, Begin, Requests
    <2>. QED  BY <1>a, <1>2, <2>1, <2>2, <2>3, <2>4 DEF TypeOK, LoopsTypeOK,
       RetryRequest
  <1>3. ASSUME NEW k \in Clients, CancelRequest(k) PROVE TypeOK'
    <2>1. PICK l \in LoopIds : call' = [call EXCEPT ![k] = [NoCall EXCEPT !.pc = "cancel", !.loop = l]]
      BY <1>a, <1>3 DEF CancelRequest
    <2>2. call' \in [Clients -> CallRecord]
      BY <1>a, <1>3, <2>1, CancelCall, CallChange
    <2>3. quota' \in [Requests -> Nat]
      BY <1>a, <1>3 DEF CancelRequest, Begin, Requests
    <2>. QED  BY <1>a, <1>3, <2>1, <2>2, <2>3 DEF TypeOK, LoopsTypeOK, CancelRequest
  <1>4. ASSUME NEW k \in Clients, CreateRefused(k) PROVE TypeOK'
    <2>1. call' \in [Clients -> CallRecord]
      BY <1>a, <1>4, NoCallType, CallChange DEF CreateRefused, Answer
    <2>. QED  BY <1>a, <1>4, <2>1 DEF TypeOK, LoopsTypeOK, CreateRefused
  <1>5. ASSUME NEW k \in Clients, CreateWrite(k) PROVE TypeOK'
    <2>1. call[k] \in CallRecord /\ call[k].task \in Candidates \union {None} /\ call[k].req \in RequestIds
      BY <1>a, <1>5 DEF CallRecord
    <2>2. LoopsTypeOK' /\ loopReq' \in [LoopIds -> RequestIds]
      BY <1>a, <1>5, <2>1, CreateLoopFacts DEF CreateWrite
    <2>3. PICK l \in LoopIds : call' = [call EXCEPT ![k] = [call[k] EXCEPT !.pc = "enqueue", !.loop = l]]
      BY <1>a, <1>5 DEF CreateWrite
    <2>4. [call[k] EXCEPT !.pc = "enqueue", !.loop = l] \in CallRecord
      BY <2>1, CallMove, PcNames
    <2>5. call' \in [Clients -> CallRecord]
      BY <1>a, <1>5, <2>3, <2>4, CallChange
    <2>. QED  BY <1>a, <1>5, <2>1, <2>2, <2>3, <2>5 DEF TypeOK, LoopsTypeOK, CreateWrite
  <1>6. ASSUME NEW k \in Clients, Enqueue(k) PROVE TypeOK'
    <2>1. call[k].loop \in LoopIds
      BY <1>a, <1>6 DEF Enqueue, NamesExist
    <2>2. chain' \in Seq(LoopIds)
      BY <1>a, <1>6, <2>1 DEF Enqueue
    <2>3. call' \in [Clients -> CallRecord]
      BY <1>a, <1>6, NoCallType, CallChange DEF Enqueue, Answer
    <2>. QED  BY <1>a, <1>6, <2>1, <2>2, <2>3 DEF TypeOK, LoopsTypeOK, Enqueue
  <1>7. ASSUME NEW k \in Clients, CancelWrite(k) PROVE TypeOK'
    <2>1. call[k] \in CallRecord /\ call[k].loop \in LoopIds
      BY <1>a, <1>7 DEF CancelWrite, NamesExist
    <2>2. LoopsTypeOK'
      BY <1>a, <1>7, <2>1, UpdateLoopFacts, StatusNames DEF CancelWrite
    <2>3. call' \in [Clients -> CallRecord]
      BY <1>a, <1>7, <2>1, CallMove, PcNames DEF CancelWrite
    <2>4. hist' \in [answered : SUBSET LoopIds, midRun : SUBSET LoopIds]
      BY <1>a, <1>7, <2>1 DEF CancelWrite
    <2>. QED  BY <1>a, <1>7, <2>1, <2>2, <2>3, <2>4 DEF TypeOK, LoopsTypeOK, CancelWrite
  <1>8. ASSUME NEW k \in Clients, CancelSignal(k) PROVE TypeOK'
    <2>1. call[k].loop \in LoopIds
      BY <1>a, <1>8 DEF CancelSignal, NamesExist
    <2>2. call' \in [Clients -> CallRecord]
      BY <1>a, <1>8, NoCallType, CallChange DEF CancelSignal, Answer
    <2>3. hist' \in [answered : SUBSET LoopIds, midRun : SUBSET LoopIds] /\ aborted' \subseteq LoopIds
      BY <1>a, <1>8, <2>1 DEF CancelSignal
    <2>. QED  BY <1>a, <1>8, <2>1, <2>2, <2>3 DEF TypeOK, LoopsTypeOK, CancelSignal
  <1>9. ASSUME NEW k \in Clients, RetryEventThrows(k) PROVE TypeOK'
    <2>1. call' \in [Clients -> CallRecord]
      BY <1>a, <1>9, NoCallType, CallChange DEF RetryEventThrows, Answer
    <2>2. faults' \in [errors : Nat, crashes : Nat]
      BY <1>a, <1>9 DEF RetryEventThrows, StoreFails
    <2>. QED  BY <1>a, <1>9, <2>1, <2>2 DEF TypeOK, LoopsTypeOK, RetryEventThrows
  <1>10. CASE JobStarts
    <2>1. Tail(chain) \in Seq(LoopIds) /\ Head(chain) \in LoopIds
      BY <1>a, <1>10, RangeOfTail DEF JobStarts
    <2>2. worker' \in WorkerRecord
      BY <1>a, <1>10, <2>1, JobOf, PcNames DEF JobStarts
    <2>. QED  BY <1>a, <1>10, <2>1, <2>2 DEF TypeOK, LoopsTypeOK, JobStarts
  <1>11. CASE JobCheck
    <2>1. worker' \in WorkerRecord
      BY <1>a, <1>11, WorkerMove, NoJobType, PcNames DEF JobCheck, Continue, JobEnds
    <2>2. controllers' \subseteq LoopIds
      BY <1>a, <1>11 DEF JobCheck, JobEnds
    <2>. QED  BY <1>a, <1>11, <2>1, <2>2 DEF TypeOK, LoopsTypeOK, JobCheck
  <1>12. CASE JobPrepare
    <2>1. worker.loop \in LoopIds
      BY <1>a, <1>12, NoJobType DEF JobPrepare, Work, NamesExist
    <2>2. LoopsTypeOK'
      BY <1>a, <1>12, <2>1, UpdateLoopFacts, StatusNames DEF JobPrepare
    <2>3. worker' \in WorkerRecord
      BY <1>a, <1>12, WorkerMove, PcNames DEF JobPrepare, Continue
    <2>. QED  BY <1>a, <1>12, <2>1, <2>2, <2>3 DEF TypeOK, LoopsTypeOK, JobPrepare
  <1>13. CASE RunnerReturns
    <2>1. PICK status \in RunnerStatuses : worker' = [worker EXCEPT !.pc = "recheck", !.result = status]
      BY <1>a, <1>13 DEF RunnerReturns
    <2>2. worker' \in WorkerRecord
      BY <1>a, <1>13, <2>1, WorkerResult
    <2>. QED  BY <1>a, <1>13, <2>1, <2>2 DEF TypeOK, LoopsTypeOK, RunnerReturns
  <1>14. CASE RunnerThrows
    <2>1. worker' \in WorkerRecord
      BY <1>a, <1>14, WorkerMove, PcNames DEF RunnerThrows, Continue
    <2>. QED  BY <1>a, <1>14, <2>1 DEF TypeOK, LoopsTypeOK, RunnerThrows
  <1>15. CASE JobRecheck
    <2>1. worker' \in WorkerRecord
      BY <1>a, <1>15, WorkerMove, NoJobType, PcNames DEF JobRecheck, Continue, JobEnds
    <2>2. controllers' \subseteq LoopIds
      BY <1>a, <1>15 DEF JobRecheck, JobEnds
    <2>. QED  BY <1>a, <1>15, <2>1, <2>2 DEF TypeOK, LoopsTypeOK, JobRecheck
  <1>16. CASE JobWrite
    <2>1. worker.loop \in LoopIds /\ worker.result \in LoopStatuses
      BY <1>a, <1>16, NoJobType, StatusNames DEF JobWrite, Work, NamesExist,
         WorkerRecord
    <2>2. LoopsTypeOK'
      BY <1>a, <1>16, <2>1, UpdateLoopFacts DEF JobWrite
    <2>3. worker' \in WorkerRecord
      BY <1>a, <1>16, WorkerMove, PcNames DEF JobWrite, Continue
    <2>. QED  BY <1>a, <1>16, <2>1, <2>2, <2>3 DEF TypeOK, LoopsTypeOK, JobWrite
  <1>17. CASE JobCompleted
    <2>1. worker' \in WorkerRecord
      BY <1>a, <1>17, NoJobType DEF JobCompleted, JobEnds
    <2>. QED  BY <1>a, <1>17, <2>1 DEF TypeOK, LoopsTypeOK, JobCompleted, JobEnds
  <1>18. CASE CatchRead
    <2>1. worker' \in WorkerRecord
      BY <1>a, <1>18, WorkerMove, PcNames DEF CatchRead, Continue
    <2>. QED  BY <1>a, <1>18, <2>1 DEF TypeOK, LoopsTypeOK, CatchRead
  <1>19. CASE CatchWrite
    <2>1. worker.loop \in LoopIds
      BY <1>a, <1>19, NoJobType DEF CatchWrite, Work, NamesExist
    <2>2. LoopsTypeOK'
      BY <1>a, <1>19, <2>1, UpdateLoopFacts, StatusNames DEF CatchWrite
    <2>3. worker' \in WorkerRecord
      BY <1>a, <1>19, WorkerMove, PcNames DEF CatchWrite, Continue
    <2>. QED  BY <1>a, <1>19, <2>1, <2>2, <2>3 DEF TypeOK, LoopsTypeOK, CatchWrite
  <1>20. CASE CatchEvent
    <2>1. worker' \in WorkerRecord
      BY <1>a, <1>20, NoJobType DEF CatchEvent
    <2>. QED  BY <1>a, <1>20, <2>1 DEF TypeOK, LoopsTypeOK, CatchEvent
  <1>21. CASE JobThrows
    <2>1. worker' \in WorkerRecord
      BY <1>a, <1>21, WorkerMove, PcNames DEF JobThrows, Continue
    <2>2. faults' \in [errors : Nat, crashes : Nat]
      BY <1>a, <1>21 DEF JobThrows, StoreFails
    <2>3. controllers' \subseteq LoopIds
      BY <1>a, <1>21 DEF JobThrows
    <2>. QED  BY <1>a, <1>21, <2>1, <2>2, <2>3 DEF TypeOK, LoopsTypeOK, JobThrows
  <1>22. CASE WriteLost
    <2>1. worker' \in WorkerRecord
      BY <1>a, <1>22, WorkerMove, PcNames DEF WriteLost, Continue
    <2>2. faults' \in [errors : Nat, crashes : Nat]
      BY <1>a, <1>22 DEF WriteLost, StoreFails
    <2>. QED  BY <1>a, <1>22, <2>1, <2>2 DEF TypeOK, LoopsTypeOK, WriteLost
  <1>23. CASE CatchThrows
    <2>1. Tail(chain) \in Seq(LoopIds) /\ Head(chain) \in LoopIds
      BY <1>a, <1>23, RangeOfTail DEF CatchThrows
    <2>2. worker' \in WorkerRecord
      BY <1>a, <1>23, <2>1, JobOf, PcNames DEF CatchThrows
    <2>3. faults' \in [errors : Nat, crashes : Nat]
      BY <1>a, <1>23, SMTT(30) DEF CatchThrows, StoreFails
    <2>. QED  BY <1>a, <1>23, <2>1, <2>2, <2>3 DEF TypeOK, LoopsTypeOK, CatchThrows
  <1>24. CASE UnhandledRejection
    <2>1. worker' \in WorkerRecord /\ call' \in [Clients -> CallRecord] /\ chain' \in Seq(LoopIds)
      BY <1>a, <1>24, NoJobType, NoCallType DEF UnhandledRejection, ProcessDies
    <2>2. faults' \in [errors : Nat, crashes : Nat]
      BY <1>a, <1>24 DEF UnhandledRejection
    <2>. QED  BY <1>a, <1>24, <2>1, <2>2 DEF TypeOK, LoopsTypeOK, UnhandledRejection,
       ProcessDies
  <1>25. CASE Crash
    <2>1. worker' \in WorkerRecord /\ call' \in [Clients -> CallRecord] /\ chain' \in Seq(LoopIds)
      BY <1>a, <1>25, NoJobType, NoCallType DEF Crash, ProcessDies
    <2>2. faults' \in [errors : Nat, crashes : Nat]
      BY <1>a, <1>25 DEF Crash
    <2>. QED  BY <1>a, <1>25, <2>1, <2>2 DEF TypeOK, LoopsTypeOK, Crash, ProcessDies
  <1>. QED  BY <1>1, <1>2, <1>3, <1>4, <1>5, <1>6, <1>7, <1>8, <1>9, <1>10, <1>11,
     <1>12, <1>13, <1>14, <1>15, <1>16, <1>17, <1>18, <1>19, <1>20, <1>21, <1>22, <1>23,
     <1>24, <1>25 DEF Next, JobStep, RequestStep, ClientStep, Fault

-----------------------------------------------------------------------------
(* What the actions do, as far as the invariants care *)

OthersKept(k) == \A j \in Clients : j # k => call'[j] = call[j]

FaultsGrow == (faults'.errors = 0 => faults.errors = 0) /\ faults'.crashes = faults.crashes

(* A request that begins or is refused leaves loops and queue alone. *)
QuietCall(k) ==
    /\ OthersKept(k) /\ call'[k].pc \in {"none", "create"}
    /\ At(k, "enqueue") => faults'.errors # 0
    /\ FaultsGrow /\ UNCHANGED <<loops, queueVars, hist>>

(* The job goes on without a write. *)
Advance ==
    /\ worker' \in WorkerRecord /\ worker'.loop = worker.loop
    /\ worker.pc # "idle" /\ worker'.pc \notin {"idle", "check"}
    /\ worker'.pc = "prepare" => worker.pc = "check"
    /\ worker'.pc = "runner" => worker.pc = "prepare"
    /\ worker'.pc = "completed" => worker.pc = "write"
    /\ worker'.pc \in {"prepare", "write", "catchWrite"} => ~IsTerminal(worker.loop)
    /\ worker'.pc \in {"completed", "catchEvent"} => faults'.errors # 0 \/ IsTerminal(worker.loop)
    /\ worker'.pc \in {"prepare", "runner"} => controllers' = controllers
    /\ FaultsGrow /\ UNCHANGED <<loops, chain, aborted, call, hist>>

(* The job is over: its loop is terminal, or a write before has seen to it. *)
Ends ==
    /\ worker' = NoJob
    /\ worker.pc \in {"completed", "catchEvent"} \/ (worker # NoJob /\ IsTerminal(worker.loop))
    /\ UNCHANGED <<loops, chain, aborted, call, faults, hist>>

(* The job writes the status of its loop. *)
Writes(s) ==
    /\ worker' \in WorkerRecord /\ worker'.loop = worker.loop
    /\ <<worker.pc, worker'.pc>> \in
          {<<"prepare", "runner">>, <<"write", "completed">>, <<"catchWrite", "catchEvent">>}
    /\ s \in LoopStatuses \ {"none", "queued"}
    /\ s \in DrivenStatuses => worker'.pc = "runner"
    /\ UpdateLoop(worker.loop, s)
    /\ UNCHANGED <<chain, controllers, aborted, call, faults, hist>>

(* The next job of the chain gets the turn, or an error that is not its own. *)
NextJob ==
    /\ chain # <<>> /\ chain' = Tail(chain)
    /\ worker' \in WorkerRecord /\ worker'.loop = Head(chain)
    /\ \/ /\ worker.pc = "idle" /\ worker'.pc = "check"
          /\ controllers' = controllers \union {Head(chain)}
       \/ worker'.pc = "catchRead" /\ faults'.errors # 0
    /\ FaultsGrow /\ UNCHANGED <<loops, aborted, call, hist>>

Dies ==
    /\ ProcessDies
    /\ faults'.crashes # 0

LEMMA QuietCallEffect ==
    ASSUME TypeOK, NEW k \in Clients,
           CreateRequest(k) \/ RetryRequest(k) \/ CreateRefused(k) \/ RetryEventThrows(k)
    PROVE  QuietCall(k)
  <1>. USE DEF loops, queueVars, QuietCall, OthersKept, FaultsGrow
  <1>a. call \in [Clients -> CallRecord] /\ faults \in [errors : Nat, crashes : Nat]
    BY DEF TypeOK
  <1>1. CASE CreateRequest(k)
    <2>1. PICK c \in Candidates, req \in [key : Keys, body : Bodies] :
            call' = call \/ call' = [call EXCEPT ![k] = [NoCall EXCEPT !.pc = "create", !.task = c, !.req = req]]
      BY <1>1 DEF CreateRequest
    <2>2. At(k, "none") /\ UNCHANGED <<loops, queueVars, hist, faults>>
      BY <1>1 DEF CreateRequest, Begin, At
    <2>3. [NoCall EXCEPT !.pc = "create", !.task = c, !.req = req].pc = "create"
      BY DEF NoCall
    <2>. QED  BY <1>a, <2>1, <2>2, <2>3 DEF At
  <1>2. CASE RetryRequest(k)
    <2>1. PICK l \in LoopIds : call' = [call EXCEPT ![k] = [NoCall EXCEPT !.pc = "create", !.task = loopTask[l]]]
      BY <1>2 DEF RetryRequest
    <2>2. At(k, "none") /\ UNCHANGED <<loops, queueVars, hist, faults>>
      BY <1>2 DEF RetryRequest, Begin, At
    <2>3. [NoCall EXCEPT !.pc = "create", !.task = loopTask[l]].pc = "create"
      BY DEF NoCall
    <2>. QED  BY <1>a, <2>1, <2>2, <2>3 DEF At
  <1>3. CASE CreateRefused(k)
    BY <1>a, <1>3, NoCallType DEF CreateRefused, Answer, At
  <1>4. CASE RetryEventThrows(k)
    BY <1>a, <1>4, NoCallType DEF RetryEventThrows, Answer, StoreFails
  <1>. QED  BY <1>1, <1>2, <1>3, <1>4

LEMMA JobEffect ==
    ASSUME TypeOK, NamesExist, JobStep \/ JobThrows \/ WriteLost \/ CatchThrows \/ UnhandledRejection \/ Crash
    PROVE  Advance \/ Ends \/ (\E s \in LoopStatuses : Writes(s)) \/ NextJob \/ Dies
  <1>. USE DEF loops, queueVars, Work, FaultsGrow
  <1>a. /\ worker \in WorkerRecord /\ chain \in Seq(LoopIds)
        /\ faults \in [errors : Nat, crashes : Nat]
    BY DEF TypeOK
  <1>1. CASE JobStarts
    <2>1. Head(chain) \in LoopIds  BY <1>a, <1>1, RangeOfTail DEF JobStarts
    <2>2. NextJob  BY <1>a, <1>1, <2>1, JobOf, PcNames DEF JobStarts, NextJob
    <2>. QED  BY <2>2
  <1>2. CASE JobCheck \/ JobRecheck
    <2>1. CASE IsTerminal(worker.loop)
      BY <1>2, <2>1, NoJobType DEF JobCheck, JobRecheck, JobEnds, Ends
    <2>2. CASE ~IsTerminal(worker.loop)
      <3>1. CASE JobCheck
        <4>1. worker' = [worker EXCEPT !.pc = "prepare"] /\ worker.pc = "check"
          BY <2>2, <3>1 DEF JobCheck, Continue
        <4>2. Advance  BY <1>a, <2>2, <3>1, <4>1, WorkerMove, PcNames DEF JobCheck, Advance
        <4>. QED  BY <4>2
      <3>2. CASE JobRecheck
        <4>1. worker' = [worker EXCEPT !.pc = "write"] /\ worker.pc = "recheck"
          BY <2>2, <3>2 DEF JobRecheck, Continue
        <4>2. Advance  BY <1>a, <2>2, <3>2, <4>1, WorkerMove, PcNames DEF JobRecheck, Advance
        <4>. QED  BY <4>2
      <3>. QED  BY <1>2, <3>1, <3>2
    <2>. QED  BY <2>1, <2>2
  <1>3. CASE JobPrepare
    <2>1. Writes("workspace_preparing")
      BY <1>a, <1>3, WorkerMove, PcNames, StatusNames DEF JobPrepare, Continue, Writes
    <2>. QED  BY <2>1, StatusNames
  <1>4. CASE RunnerReturns
    <2>1. PICK status \in RunnerStatuses : worker' = [worker EXCEPT !.pc = "recheck", !.result = status]
      BY <1>4 DEF RunnerReturns
    <2>2. Advance  BY <1>a, <1>4, <2>1, WorkerResult DEF RunnerReturns, Advance
    <2>. QED  BY <2>2
  <1>5. CASE RunnerThrows
    <2>1. Advance  BY <1>a, <1>5, WorkerMove, PcNames DEF RunnerThrows, Continue, Advance
    <2>. QED  BY <2>1
  <1>6. CASE JobWrite
    <2>1. worker.result \in RunnerStatuses  BY <1>a DEF WorkerRecord
    <2>2. worker.result \in LoopStatuses \ {"none", "queued"} /\ worker.result \notin DrivenStatuses
      BY <2>1, StatusNames DEF RunnerStatuses, DrivenStatuses
    <2>3. Writes(worker.result)
      BY <1>a, <1>6, <2>2, WorkerMove, PcNames DEF JobWrite, Continue, Writes
    <2>. QED  BY <2>2, <2>3
  <1>7. CASE JobCompleted \/ CatchEvent
    BY <1>7 DEF JobCompleted, CatchEvent, JobEnds, Ends
  <1>8. CASE CatchRead
    <2>1. Advance  BY <1>a, <1>8, WorkerMove, PcNames DEF CatchRead, Continue, Advance
    <2>. QED  BY <2>1
  <1>9. CASE CatchWrite
    <2>1. Writes("failed")
      BY <1>a, <1>9, WorkerMove, PcNames, StatusNames DEF CatchWrite, Continue, Writes, DrivenStatuses
    <2>. QED  BY <2>1, StatusNames
  <1>10. CASE JobThrows
    <2>1. Advance  BY <1>a, <1>10, WorkerMove, PcNames DEF JobThrows, StoreFails, Continue, Advance
    <2>. QED  BY <2>1
  <1>11. CASE WriteLost
    <2>1. /\ faults'.errors # 0 /\ FaultsGrow /\ worker \in WorkerRecord
          /\ UNCHANGED <<loops, chain, controllers, aborted, call, hist>>
      BY <1>a, <1>11 DEF WriteLost, StoreFails
    <2>2. PICK pc \in {"runner", "completed", "catchEvent"} :
            /\ worker' = [worker EXCEPT !.pc = pc]
            /\ worker.pc = IF pc = "runner" THEN "prepare"
                           ELSE IF pc = "completed" THEN "write" ELSE "catchWrite"
      BY <1>11 DEF WriteLost, Continue
    <2>3. Advance  BY <2>1, <2>2, WorkerMove, PcNames DEF Advance
    <2>. QED  BY <2>3
  <1>12. CASE CatchThrows
    <2>1. Head(chain) \in LoopIds  BY <1>a, <1>12, RangeOfTail DEF CatchThrows
    <2>2. faults'.errors # 0 /\ FaultsGrow  BY <1>a, <1>12 DEF CatchThrows, StoreFails
    <2>3. NextJob  BY <1>12, <2>1, <2>2, JobOf, PcNames DEF CatchThrows, NextJob
    <2>. QED  BY <2>3
  <1>13. CASE UnhandledRejection \/ Crash
    <2>1. Dies  BY <1>a, <1>13 DEF UnhandledRejection, Crash, Dies
    <2>. QED  BY <2>1
  <1>. QED
    BY <1>1, <1>2, <1>3, <1>4, <1>5, <1>6, <1>7, <1>8, <1>9, <1>10, <1>11, <1>12, <1>13
    DEF JobStep

-----------------------------------------------------------------------------
(* Each kind of step keeps the invariant *)

LEMMA WaitingKept ==
    ASSUME NEW k \in Clients, OthersKept(k), call'[k].pc # "enqueue", UNCHANGED <<chain, worker>>
    PROVE  Waiting' \subseteq Waiting
  BY DEF OthersKept, Waiting, At, Work

(* A request that begins, is refused, or has its answer; a cancel included. *)
LEMMA QuietCallInv ==
    ASSUME IInv, NEW k \in Clients, QuietCall(k)
    PROVE  Safe'
  <1>. USE DEF queueVars, loops, QuietCall
  <1>1. Waiting' \subseteq Waiting
    BY WaitingKept
  <1>2. NamesExist'
    BY <1>1 DEF IInv, Safe, NamesExist, OthersKept, At
  <1>3. NoDuplicateJob'
    BY DEF IInv, Safe, NoDuplicateJob, OthersKept, At
  <1>4. MidRunInv'
    BY <1>1 DEF IInv, Safe, MidRunInv
  <1>5. SignalInv'
    BY <1>1 DEF IInv, Safe, SignalInv, OthersKept, At
  <1>6. DriverInv'
    <2>1. DrivenLoopHasDriver'
      BY DEF IInv, Safe, DriverInv, DrivenLoopHasDriver, OthersKept, At, FaultsGrow
    <2>. QED  BY <2>1 DEF IInv, Safe, DriverInv, OneActive, FaultsGrow
  <1>. QED  BY <1>2, <1>3, <1>4, <1>5, <1>6 DEF Safe

LEMMA CancelRequestInv ==
    ASSUME IInv, NEW k \in Clients, CancelRequest(k)
    PROVE  Safe'
  <1>. USE DEF queueVars, loops
  <1>1. PICK l \in LoopIds :
          /\ loopStatus[l] \in ActiveStatuses
          /\ call' = [call EXCEPT ![k] = [NoCall EXCEPT !.pc = "cancel", !.loop = l]]
    BY DEF CancelRequest
  <1>2. /\ OthersKept(k) /\ call'[k].pc = "cancel" /\ call'[k].loop = l
        /\ call[k].pc = "none" /\ loopStatus[l] # "none"
        /\ UNCHANGED <<loops, queueVars, faults, hist>>
    BY <1>1, CancelCall DEF OthersKept, IInv, Safe, TypeOK, CancelRequest, Begin, ActiveStatuses, DrivenStatuses
  <1>3. Waiting' \subseteq Waiting
    BY <1>2, WaitingKept
  <1>4. NamesExist'
    BY <1>2, <1>3 DEF IInv, Safe, NamesExist, OthersKept, At
  <1>5. NoDuplicateJob'
    BY <1>2 DEF IInv, Safe, NoDuplicateJob, OthersKept, At
  <1>6. MidRunInv'
    BY <1>2, <1>3 DEF IInv, Safe, MidRunInv
  <1>7. SignalInv'
    BY <1>2, <1>3 DEF IInv, Safe, SignalInv, OthersKept, At
  <1>8. DriverInv'
    <2>1. DrivenLoopHasDriver'
      BY <1>2 DEF IInv, Safe, DriverInv, DrivenLoopHasDriver, OthersKept, At
    <2>. QED  BY <1>2, <2>1 DEF IInv, Safe, DriverInv, OneActive
  <1>. QED  BY <1>4, <1>5, <1>6, <1>7, <1>8 DEF Safe

LEMMA CreateWriteInv ==
    ASSUME IInv, NEW k \in Clients, CreateWrite(k)
    PROVE  Safe'
  <1>. USE DEF queueVars
  <1>a. call[k] \in CallRecord /\ call[k].task \in Candidates \union {None} /\ LoopsTypeOK /\ OneActive
    BY DEF IInv, Safe, TypeOK, CallRecord, DriverInv
  <1>1. PICK l \in LoopIds :
          /\ CreateLoop(l, call[k].task)
          /\ call' = [call EXCEPT ![k] = [call[k] EXCEPT !.pc = "enqueue", !.loop = l]]
    BY DEF CreateWrite
  <1>2. /\ OneActive' /\ loopStatus[l] = "none" /\ loopStatus'[l] = "queued"
        /\ \A m \in LoopIds : m # l => loopStatus'[m] = loopStatus[m]
    BY <1>a, <1>1, CreateLoopFacts
  <1>3. /\ OthersKept(k) /\ call'[k].pc = "enqueue" /\ call'[k].loop = l /\ call[k].pc = "create"
        /\ UNCHANGED <<queueVars, faults, hist>>
    <2>. DEFINE r == [call[k] EXCEPT !.pc = "enqueue", !.loop = l]
    <2>1. r \in CallRecord /\ r.pc = "enqueue" /\ r.loop = l
      BY <1>a, <1>1, PcNames DEF CallRecord
    <2>2. call \in [Clients -> CallRecord] /\ call' = [call EXCEPT ![k] = r]
      BY <1>1 DEF IInv, TypeOK
    <2>. HIDE DEF r
    <2>3. call'[k] = r /\ OthersKept(k)
      BY <2>1, <2>2, CallChange DEF OthersKept
    <2>4. call[k].pc = "create" /\ UNCHANGED <<queueVars, faults, hist>>
      BY DEF CreateWrite, At
    <2>. QED  BY <2>1, <2>3, <2>4
  <1>4. Waiting' \subseteq Waiting \union {l}
    BY <1>3 DEF OthersKept, Waiting, At, Work
  <1>5. l \notin Waiting \union hist.answered \union hist.midRun /\ l # worker.loop
    BY <1>2, StoreAssumption DEF IInv, Safe, NamesExist, NoJob, None, LoopIds
  <1>6. \A m \in LoopIds : loopStatus[m] # "none" => loopStatus'[m] # "none"
    BY <1>2
  <1>7. Waiting \union hist.answered \union hist.midRun \subseteq LoopIds
    BY DEF IInv, Safe, TypeOK, NamesExist, Waiting, Work, Range, NoJob
  <1>8. NamesExist'
    BY <1>2, <1>3, <1>4, <1>6, <1>7 DEF IInv, Safe, NamesExist, OthersKept, At
  <1>9. NoDuplicateJob'
    <2>1. l \notin Range(chain) /\ l # worker.loop
          /\ \A j \in Clients : At(j, "enqueue") => call[j].loop # l
      BY <1>5 DEF Waiting
    <2>. QED  BY <1>3, <2>1 DEF IInv, Safe, NoDuplicateJob, OthersKept, At
  <1>10. MidRunInv'
    BY <1>2, <1>3, <1>4, <1>5, <1>7 DEF IInv, Safe, MidRunInv
  <1>11. SignalInv'
    <2>1. \A j \in Clients : At(j, "signal")' => At(j, "signal") /\ call'[j].loop = call[j].loop /\ call[j].loop # l
      BY <1>2, <1>3 DEF At, OthersKept, IInv, Safe, NamesExist
    <2>. QED  BY <1>2, <1>3, <1>4, <1>5, <1>7, <2>1 DEF IInv, Safe, SignalInv
  <1>12. DriverInv'
    <2>1. DrivenLoopHasDriver'
      BY <1>2, <1>3 DEF IInv, Safe, DriverInv, DrivenLoopHasDriver, OthersKept, At
    <2>2. worker.pc \in {"completed", "catchEvent"} => worker.loop \in LoopIds
      BY DEF IInv, Safe, NamesExist, NoJob
    <2>. QED  BY <1>2, <1>3, <1>5, <2>1, <2>2 DEF IInv, Safe, DriverInv
  <1>. QED  BY <1>8, <1>9, <1>10, <1>11, <1>12 DEF Safe

LEMMA EnqueueInv ==
    ASSUME IInv, NEW k \in Clients, Enqueue(k)
    PROVE  Safe'
  <1>. USE DEF loops
  <1>1. /\ At(k, "enqueue") /\ call[k].loop \in LoopIds /\ chain \in Seq(LoopIds)
        /\ chain' = Append(chain, call[k].loop)
    BY DEF Enqueue, IInv, Safe, NamesExist, TypeOK
  <1>2. /\ OthersKept(k) /\ call'[k].pc = "none"
        /\ UNCHANGED <<loops, worker, controllers, aborted, faults, hist>>
    BY NoCallType DEF OthersKept, IInv, Safe, TypeOK, Enqueue, Answer
  <1>3. Range(chain)' = Range(chain) \union {call[k].loop}
        /\ (IsInjective(chain) /\ call[k].loop \notin Range(chain) => IsInjective(chain)')
    BY <1>1, RangeOfAppend
  <1>4. Waiting' \subseteq Waiting
    BY <1>1, <1>2, <1>3 DEF OthersKept, Waiting, At, Work
  <1>5. NamesExist'
    BY <1>2, <1>4 DEF IInv, Safe, NamesExist, OthersKept, At
  <1>6. NoDuplicateJob'
    BY <1>1, <1>2, <1>3 DEF IInv, Safe, NoDuplicateJob, OthersKept, At
  <1>7. MidRunInv'
    BY <1>2, <1>4 DEF IInv, Safe, MidRunInv
  <1>8. SignalInv'
    BY <1>2, <1>4 DEF IInv, Safe, SignalInv, OthersKept, At
  <1>9. DriverInv'
    <2>1. DrivenLoopHasDriver'
      BY <1>1, <1>2, <1>3 DEF IInv, Safe, DriverInv, DrivenLoopHasDriver, OthersKept, At
    <2>. QED  BY <1>2, <2>1 DEF IInv, Safe, DriverInv, OneActive
  <1>. QED  BY <1>5, <1>6, <1>7, <1>8, <1>9 DEF Safe

LEMMA CancelWriteInv ==
    ASSUME IInv, NEW k \in Clients, CancelWrite(k)
    PROVE  Safe'
  <1>. USE DEF queueVars
  <1>. DEFINE l == call[k].loop
  <1>a. call \in [Clients -> CallRecord] /\ call[k] \in CallRecord
    BY DEF IInv, TypeOK
  <1>1. /\ At(k, "cancel") /\ l \in LoopIds /\ loopStatus[l] # "none" /\ LoopsTypeOK /\ OneActive
        /\ UpdateLoop(l, "cancelled") /\ "cancelled" \in LoopStatuses \ ActiveStatuses
    BY StatusNames DEF CancelWrite, IInv, Safe, NamesExist, TypeOK, DriverInv, ActiveStatuses, DrivenStatuses
  <1>2. /\ loopStatus'[l] = "cancelled" /\ OneActive'
        /\ \A m \in LoopIds : m # l => loopStatus'[m] = loopStatus[m]
    BY <1>1, UpdateLoopFacts, UpdateKeepsOneActive
  <1>3. /\ OthersKept(k) /\ call'[k].pc = "signal" /\ call'[k].loop = l
        /\ UNCHANGED <<queueVars, faults>>
    <2>. DEFINE r == [call[k] EXCEPT !.pc = "signal"]
    <2>1. r \in CallRecord /\ r.pc = "signal" /\ r.loop = l
      BY <1>a, PcNames DEF CallRecord
    <2>2. call' = [call EXCEPT ![k] = r] /\ UNCHANGED <<queueVars, faults>>
      BY DEF CancelWrite
    <2>. HIDE DEF r
    <2>3. call'[k] = r /\ OthersKept(k)
      BY <1>a, <2>1, <2>2, CallChange DEF OthersKept
    <2>. QED  BY <2>1, <2>2, <2>3
  <1>4. /\ hist'.answered = hist.answered
        /\ hist'.midRun \subseteq hist.midRun \union {l}
        /\ l \in hist'.midRun =>
              l \in hist.midRun \/ (worker.loop = l /\ worker.pc \in {"runner", "recheck"})
    BY DEF CancelWrite, IInv, Safe, TypeOK
  <1>5. Waiting' \subseteq Waiting
    BY <1>3, WaitingKept
  <1>6. Waiting \union hist.answered \union hist.midRun \subseteq LoopIds
        /\ (worker # NoJob => worker.loop \in LoopIds)
    BY DEF IInv, Safe, TypeOK, NamesExist, Waiting, Work, Range, NoJob
  <1>7. \A m \in LoopIds : loopStatus[m] # "none" => loopStatus'[m] # "none"
    BY <1>2
  <1>8. NamesExist'
    BY <1>1, <1>3, <1>4, <1>5, <1>6, <1>7 DEF IInv, Safe, NamesExist, OthersKept, At
  <1>9. NoDuplicateJob'
    BY <1>3 DEF IInv, Safe, NoDuplicateJob, OthersKept, At
  <1>10. MidRunInv'
    <2>1. ASSUME worker.loop = l, worker.pc \in {"runner", "recheck"} PROVE l \notin Waiting
      <3>1. l \notin Range(chain)
        BY <2>1 DEF IInv, Safe, NoDuplicateJob
      <3>2. \A j \in Clients : At(j, "enqueue") => call[j].loop # l
        BY <2>1 DEF IInv, Safe, NoDuplicateJob
      <3>. QED  BY <2>1, <3>1, <3>2 DEF Waiting, Work
    <2>. QED  BY <1>2, <1>3, <1>4, <1>5, <1>6, <2>1 DEF IInv, Safe, MidRunInv
  <1>11. SignalInv'
    BY <1>2, <1>3, <1>4, <1>5, <1>6 DEF IInv, Safe, SignalInv, OthersKept, At
  <1>12. DriverInv'
    <2>1. DrivenLoopHasDriver'
      BY <1>1, <1>2, <1>3 DEF IInv, Safe, DriverInv, DrivenLoopHasDriver, OthersKept, At, DrivenStatuses
    <2>2. worker.pc \in {"completed", "catchEvent"} => worker.loop \in LoopIds
      BY <1>6 DEF NoJob
    <2>. QED  BY <1>2, <1>3, <2>1, <2>2 DEF IInv, Safe, DriverInv, DrivenStatuses
  <1>. QED  BY <1>8, <1>9, <1>10, <1>11, <1>12 DEF Safe

LEMMA CancelSignalInv ==
    ASSUME IInv, NEW k \in Clients, CancelSignal(k)
    PROVE  Safe'
  <1>. USE DEF loops
  <1>. DEFINE l == call[k].loop
  <1>1. /\ At(k, "signal") /\ l \in LoopIds /\ loopStatus[l] # "none"
        /\ hist'.answered = hist.answered \union {l} /\ hist'.midRun = hist.midRun
        /\ aborted' = aborted \union ({l} \intersect controllers)
    BY DEF CancelSignal, IInv, Safe, NamesExist, TypeOK
  <1>2. /\ OthersKept(k) /\ call'[k].pc = "none"
        /\ UNCHANGED <<loops, chain, worker, controllers, faults>>
    BY NoCallType DEF OthersKept, IInv, Safe, TypeOK, CancelSignal, Answer
  <1>3. Waiting' \subseteq Waiting
    BY <1>2, WaitingKept
  <1>4. NamesExist'
    BY <1>1, <1>2, <1>3 DEF IInv, Safe, NamesExist, OthersKept, At
  <1>5. NoDuplicateJob'
    BY <1>2 DEF IInv, Safe, NoDuplicateJob, OthersKept, At
  <1>6. MidRunInv'
    BY <1>1, <1>2, <1>3 DEF IInv, Safe, MidRunInv
  <1>7. SignalInv'
    <2>1. \A m \in Waiting' :
             (m \in hist'.answered \/ \E j \in Clients : At(j, "signal")' /\ call'[j].loop = m)
                => loopStatus'[m] = "cancelled"
      BY <1>1, <1>2, <1>3 DEF IInv, Safe, SignalInv, OthersKept, At
    <2>2. \A m \in hist'.answered :
             (worker'.loop = m /\ worker'.pc \in {"prepare", "runner"}) => m \in aborted'
      BY <1>1, <1>2 DEF IInv, Safe, SignalInv
    <2>3. worker'.pc \in {"check", "prepare", "runner"} => worker'.loop \in controllers'
      BY <1>2 DEF IInv, Safe, SignalInv
    <2>. QED  BY <2>1, <2>2, <2>3 DEF SignalInv
  <1>8. DriverInv'
    <2>1. DrivenLoopHasDriver'
      BY <1>1, <1>2 DEF IInv, Safe, DriverInv, DrivenLoopHasDriver, OthersKept, At
    <2>. QED  BY <1>2, <2>1 DEF IInv, Safe, DriverInv, OneActive
  <1>. QED  BY <1>4, <1>5, <1>6, <1>7, <1>8 DEF Safe

LEMMA AdvanceInv ==
    ASSUME IInv, Advance
    PROVE  Safe'
  <1>. USE DEF loops
  <1>1. /\ worker # NoJob /\ worker.loop \in LoopIds /\ loopStatus[worker.loop] # "none"
        /\ worker' # NoJob /\ worker'.loop = worker.loop
    BY DEF Advance, IInv, Safe, NamesExist, NoJob
  <1>2. Waiting' \subseteq Waiting /\ (Work("check") => worker.loop \in Waiting)
    BY DEF Advance, Waiting, At, Work
  <1>3. NamesExist'
    BY <1>1, <1>2 DEF Advance, IInv, Safe, NamesExist, At
  <1>4. NoDuplicateJob'
    BY DEF Advance, IInv, Safe, NoDuplicateJob, At
  <1>5. MidRunInv'
    <2>1. ASSUME worker.loop \in hist.midRun
          PROVE  worker'.pc \in {"runner", "recheck", "catchRead", "catchEvent"}
      <3>1. /\ worker.pc \in {"runner", "recheck", "catchRead", "catchEvent"}
            /\ IsTerminal(worker.loop)
        BY <2>1 DEF IInv, Safe, MidRunInv, IsTerminal, TerminalStatuses
      <3>2. worker'.pc \in WorkerPcs \ {"idle", "check", "prepare", "runner", "completed",
                                        "write", "catchWrite"}
        BY <3>1 DEF Advance, WorkerRecord
      <3>. QED  BY <3>2 DEF WorkerPcs
    <2>. QED  BY <1>1, <1>2, <2>1 DEF Advance, IInv, Safe, MidRunInv
  <1>6. SignalInv'
    <2>1. worker.loop \in hist.answered /\ worker'.pc = "prepare" => FALSE
      BY <1>2 DEF Advance, IInv, Safe, SignalInv, IsTerminal, TerminalStatuses, Work
    <2>. QED  BY <1>1, <1>2, <2>1 DEF Advance, IInv, Safe, SignalInv, At
  <1>7. DriverInv'
    <2>1. DrivenLoopHasDriver'
      BY <1>1 DEF Advance, IInv, Safe, DriverInv, DrivenLoopHasDriver, At, FaultsGrow
    <2>2. IsTerminal(worker.loop) => loopStatus[worker.loop] \notin DrivenStatuses
      BY DEF IsTerminal, TerminalStatuses, DrivenStatuses
    <2>. QED  BY <2>1, <2>2 DEF Advance, IInv, Safe, DriverInv, OneActive, FaultsGrow
  <1>. QED  BY <1>3, <1>4, <1>5, <1>6, <1>7 DEF Safe

LEMMA EndsInv ==
    ASSUME IInv, Ends
    PROVE  Safe'
  <1>. USE NoJobType DEF loops
  <1>1. Waiting' \subseteq Waiting
    BY DEF Ends, Waiting, At, Work
  <1>2. NamesExist'
    BY <1>1 DEF Ends, IInv, Safe, NamesExist, At
  <1>3. NoDuplicateJob'
    <2>1. None \notin LoopIds  BY StoreAssumption DEF None, LoopIds
    <2>2. Range(chain) \subseteq LoopIds  BY DEF IInv, Safe, TypeOK, Range
    <2>3. \A k \in Clients : At(k, "enqueue") => call[k].loop \in LoopIds
      BY DEF IInv, Safe, NamesExist
    <2>. QED  BY <2>1, <2>2, <2>3 DEF Ends, IInv, Safe, NoDuplicateJob, At
  <1>4. MidRunInv'
    BY <1>1, StoreAssumption DEF Ends, IInv, Safe, TypeOK, MidRunInv, None, LoopIds
  <1>5. SignalInv'
    BY <1>1 DEF Ends, IInv, Safe, SignalInv, At
  <1>6. DriverInv'
    <2>1. faults.errors = 0 => loopStatus[worker.loop] \notin DrivenStatuses
      BY DEF Ends, IInv, Safe, DriverInv, IsTerminal, TerminalStatuses, DrivenStatuses
    <2>2. DrivenLoopHasDriver'
      BY <2>1 DEF Ends, IInv, Safe, DriverInv, DrivenLoopHasDriver, At
    <2>. QED  BY <2>2 DEF Ends, IInv, Safe, DriverInv, OneActive
  <1>. QED  BY <1>2, <1>3, <1>4, <1>5, <1>6 DEF Safe

LEMMA WritesInv ==
    ASSUME IInv, NEW s \in LoopStatuses, Writes(s)
    PROVE  Safe'
  <1>. DEFINE l == worker.loop
  <1>1. /\ worker # NoJob /\ l \in LoopIds /\ loopStatus[l] # "none"
        /\ worker' # NoJob /\ worker'.loop = l /\ worker'.pc # "idle"
        /\ LoopsTypeOK /\ OneActive
    BY DEF Writes, IInv, Safe, NamesExist, NoJob, TypeOK, DriverInv
  <1>2. /\ OneActive' /\ loopStatus'[l] \in {loopStatus[l], s}
        /\ loopStatus[l] \in ActiveStatuses => loopStatus'[l] = s
        /\ \A m \in LoopIds : m # l => loopStatus'[m] = loopStatus[m]
    BY <1>1, UpdateLoopFacts, UpdateOfActiveLoop, UpdateKeepsOneActive DEF Writes
  <1>3. Waiting' = Waiting /\ l \notin Waiting
    <2>1. l \notin Range(chain) /\ \A j \in Clients : At(j, "enqueue") => call[j].loop # l
      BY DEF IInv, Safe, NoDuplicateJob
    <2>. QED  BY <2>1 DEF Writes, Waiting, At, Work
  <1>4. Waiting \union hist.answered \union hist.midRun \subseteq LoopIds
    BY DEF IInv, Safe, TypeOK, NamesExist, Waiting, Work, Range, NoJob
  <1>5. \A m \in LoopIds : loopStatus[m] # "none" => loopStatus'[m] # "none"
    BY <1>2 DEF Writes
  <1>6. NamesExist'
    BY <1>1, <1>3, <1>4, <1>5 DEF Writes, IInv, Safe, NamesExist, At
  <1>7. NoDuplicateJob'
    BY <1>1 DEF Writes, IInv, Safe, NoDuplicateJob, At
  <1>8. MidRunInv'
    <2>1. l \notin hist.midRun
      BY DEF Writes, IInv, Safe, MidRunInv
    <2>. QED  BY <1>1, <1>2, <1>3, <1>4, <2>1 DEF Writes, IInv, Safe, MidRunInv
  <1>9. SignalInv'
    BY <1>1, <1>2, <1>3, <1>4 DEF Writes, IInv, Safe, SignalInv, At
  <1>10. DriverInv'
    <2>1. DrivenLoopHasDriver'
      BY <1>1, <1>2 DEF Writes, IInv, Safe, DriverInv, DrivenLoopHasDriver, At
    <2>2. worker'.pc \in {"completed", "catchEvent"} => loopStatus'[l] \notin DrivenStatuses
      BY <1>2 DEF Writes, ActiveStatuses
    <2>. QED  BY <1>1, <1>2, <2>1, <2>2 DEF DriverInv
  <1>. QED  BY <1>6, <1>7, <1>8, <1>9, <1>10 DEF Safe

LEMMA NextJobInv ==
    ASSUME IInv, NextJob
    PROVE  Safe'
  <1>. USE DEF loops
  <1>. DEFINE l == Head(chain)
  <1>1. /\ l \in LoopIds /\ Range(chain) = {l} \union Range(chain)'
        /\ l \notin Range(chain)' /\ IsInjective(chain)'
        /\ worker'.loop = l /\ worker'.pc \in {"check", "catchRead"} /\ worker' # NoJob
        /\ UNCHANGED <<loops, aborted, call, hist>>
    BY RangeOfTail DEF NextJob, IInv, Safe, TypeOK, NoDuplicateJob, NoJob
  <1>2. l \in Waiting /\ Waiting' \subseteq Waiting /\ (worker'.pc # "check" => l \notin Waiting')
    <2>1. l \in Waiting  BY <1>1 DEF Waiting
    <2>2. Waiting' \subseteq Waiting  BY <1>1 DEF Waiting, At, Work
    <2>3. \A j \in Clients : At(j, "enqueue") => call[j].loop # l
      BY <1>1 DEF IInv, Safe, NoDuplicateJob
    <2>. QED  BY <1>1, <2>1, <2>2, <2>3 DEF Waiting, At, Work
  <1>3. NamesExist'
    BY <1>1, <1>2 DEF IInv, Safe, NamesExist, At
  <1>4. NoDuplicateJob'
    BY <1>1 DEF IInv, Safe, NoDuplicateJob, At
  <1>5. MidRunInv'
    BY <1>1, <1>2 DEF IInv, Safe, MidRunInv
  <1>6. SignalInv'
    <2>1. worker'.pc = "check" => worker'.loop \in controllers'
      BY <1>1 DEF NextJob
    <2>. QED  BY <1>1, <1>2, <2>1 DEF IInv, Safe, SignalInv, At
  <1>7. DriverInv'
    <2>1. faults'.errors = 0 => worker.pc = "idle" /\ faults.errors = 0 /\ faults'.crashes = faults.crashes
      BY DEF NextJob, FaultsGrow
    <2>2. worker.pc = "idle" => worker.loop = None
      BY NoJobType DEF IInv, Safe, NamesExist
    <2>3. None \notin LoopIds  BY StoreAssumption DEF None, LoopIds
    <2>4. DrivenLoopHasDriver'
      BY <1>1, <2>1, <2>2, <2>3 DEF IInv, Safe, DriverInv, DrivenLoopHasDriver, At
    <2>. QED  BY <1>1, <2>4 DEF IInv, Safe, DriverInv, OneActive
  <1>. QED  BY <1>3, <1>4, <1>5, <1>6, <1>7 DEF Safe

LEMMA DiesInv ==
    ASSUME IInv, Dies
    PROVE  Safe'
  <1>. USE NoJobType, NoCallType DEF loops, ProcessDies, Dies
  <1>1. /\ Range(chain)' = {} /\ IsInjective(chain)'
        /\ \A k \in Clients : call'[k].pc = "none"
        /\ Waiting' = {}
    BY RangeOfEmpty DEF Waiting, At, Work
  <1>2. NamesExist'
    BY <1>1 DEF IInv, Safe, NamesExist, At
  <1>3. NoDuplicateJob'
    BY <1>1 DEF NoDuplicateJob, At
  <1>4. MidRunInv'
    BY <1>1, StoreAssumption DEF IInv, Safe, TypeOK, MidRunInv, None, LoopIds
  <1>5. SignalInv'
    BY <1>1 DEF SignalInv
  <1>6. DriverInv'
    BY <1>1 DEF IInv, Safe, DriverInv, DrivenLoopHasDriver, OneActive
  <1>. QED  BY <1>2, <1>3, <1>4, <1>5, <1>6 DEF Safe
-----------------------------------------------------------------------------
(* The invariant *)

LEMMA InitInv == Init => IInv
  <1>1. SUFFICES ASSUME Init PROVE IInv
    OBVIOUS
  <1>. USE <1>1, NoJobType, NoCallType, RangeOfEmpty, QueueAssumption DEF Init, LoopsInit
  <1>2. TypeOK
    BY DEF TypeOK, LoopsTypeOK, LoopStatuses
  <1>3. Waiting = {} /\ hist.answered = {} /\ hist.midRun = {}
    BY DEF Waiting, At, Work
  <1>4. NamesExist /\ NoDuplicateJob /\ MidRunInv /\ SignalInv
    BY <1>3 DEF NamesExist, NoDuplicateJob, MidRunInv, SignalInv, At
  <1>5. DriverInv
    BY DEF DriverInv, OneActive, DrivenLoopHasDriver, ActiveStatuses, DrivenStatuses
  <1>. QED  BY <1>2, <1>4, <1>5 DEF IInv, Safe

LEMMA NextInv == IInv /\ [Next]_vars => IInv'
  <1>1. SUFFICES ASSUME IInv, [Next]_vars PROVE IInv'
    OBVIOUS
  <1>2. CASE UNCHANGED vars
    <2>. USE <1>1, <1>2 DEF vars, loops, queueVars
    <2>1. TypeOK'  BY DEF IInv, Safe, TypeOK, LoopsTypeOK
    <2>2. Waiting' = Waiting  BY DEF Waiting, At, Work
    <2>3. NamesExist'  BY <2>2 DEF IInv, Safe, NamesExist, At
    <2>4. NoDuplicateJob'  BY DEF IInv, Safe, NoDuplicateJob, At
    <2>5. MidRunInv'  BY <2>2 DEF IInv, Safe, MidRunInv
    <2>6. SignalInv'  BY <2>2 DEF IInv, Safe, SignalInv, At
    <2>7. DriverInv'  BY DEF IInv, Safe, DriverInv, OneActive, DrivenLoopHasDriver, At
    <2>. QED  BY <2>1, <2>3, <2>4, <2>5, <2>6, <2>7 DEF IInv, Safe
  <1>3. CASE Next
    <2>1. TypeOK /\ NamesExist /\ OneActive /\ TypeOK'
      BY <1>1, <1>3, TypeOKStep DEF IInv, Safe, DriverInv
    <2>2. ASSUME NEW k \in Clients, RequestStep(k) \/ ClientStep(k) \/ RetryEventThrows(k)
          PROVE  Safe'
      <3>1. CASE CreateRequest(k) \/ RetryRequest(k) \/ CreateRefused(k) \/ RetryEventThrows(k)
        <4>1. QuietCall(k)  BY <2>1, <3>1, QuietCallEffect
        <4>. QED  BY <1>1, <4>1, QuietCallInv
      <3>. QED
        BY <1>1, <2>2, <3>1, CancelRequestInv, CreateWriteInv, EnqueueInv, CancelWriteInv, CancelSignalInv
        DEF RequestStep, ClientStep
    <2>3. ASSUME JobStep \/ JobThrows \/ WriteLost \/ CatchThrows \/ UnhandledRejection \/ Crash
          PROVE  Safe'
      <3>1. Advance \/ Ends \/ (\E s \in LoopStatuses : Writes(s)) \/ NextJob \/ Dies
        BY <2>1, <2>3, JobEffect
      <3>2. ASSUME NEW s \in LoopStatuses, Writes(s) PROVE Safe'
        BY <1>1, <3>2, WritesInv
      <3>. QED  BY <1>1, <3>1, <3>2, AdvanceInv, EndsInv, NextJobInv, DiesInv
    <2>4. Safe'
      <3>1. \/ \E k \in Clients : RequestStep(k) \/ ClientStep(k) \/ RetryEventThrows(k)
            \/ JobStep \/ JobThrows \/ WriteLost \/ CatchThrows \/ UnhandledRejection \/ Crash
        BY <1>3 DEF Next, Fault
      <3>. QED  BY <2>2, <2>3, <3>1
    <2>. QED  BY <2>1, <2>4 DEF IInv, Safe
  <1>. QED  BY <1>1, <1>2, <1>3

LEMMA Invariance == Spec => []IInv
  BY InitInv, NextInv, PTL DEF Spec

(* However requests to create, replay, retry and cancel interleave with the    *)
(* jobs and with failures, no loop has two jobs (queue.ts enqueue).             *)
THEOREM JobsAreUnique == Spec => []NoDuplicateJob
  <1>1. IInv => NoDuplicateJob  BY DEF IInv, Safe
  <1>. QED  BY Invariance, <1>1, PTL

(* Every variable keeps its type. *)
THEOREM QueueTypeCorrect == Spec => []TypeOK
  <1>1. IInv => TypeOK  BY DEF IInv, Safe
  <1>. QED  BY Invariance, <1>1, PTL

(* While no store call fails and the process lives, no loop is left queued or  *)
(* preparing without a request or a job behind it (queue.ts, routes/loops.ts). *)
THEOREM DrivenLoopsAreDriven == Spec => []DrivenLoopHasDriver
  <1>1. IInv => DrivenLoopHasDriver  BY DEF IInv, Safe, DriverInv
  <1>. QED  BY Invariance, <1>1, PTL

(* A cancel that was answered has aborted the run of its loop, or the job has  *)
(* not called the runner (queue.ts cancel, routes/loops.ts).                   *)
THEOREM CancelReachesRun == Spec => []CancelledRunIsAborted
  <1>1. IInv => CancelledRunIsAborted  BY DEF IInv, Safe, SignalInv, CancelledRunIsAborted, Work
  <1>. QED  BY Invariance, <1>1, PTL

(* A loop cancelled under its runner stays cancelled (queue.ts                  *)
(* loop.result_ignored).                                                        *)
THEOREM CancelSticks == Spec => []CancelDuringRunSticks
  <1>1. IInv => CancelDuringRunSticks  BY DEF IInv, Safe, MidRunInv, CancelDuringRunSticks
  <1>. QED  BY Invariance, <1>1, PTL
=============================================================================
