---------------------------- MODULE PullRequests ----------------------------
(***************************************************************************)
(* createPullRequestForLoop (apps/server/src/routes/pull-requests.ts) with *)
(* several callers: the rows of the store, the branch prepareBranchAndPush *)
(* (github-integration/src/branch.ts) pushes and the draft that            *)
(* createDraftPullRequest (pull-request.ts) finds or opens.  The loops are *)
(* those loadContext lets through: accepted or approved, with a report     *)
(* that matches the patch.  An action per await on the store, git or       *)
(* GitHub.                                                                 *)
(***************************************************************************)
EXTENDS Naturals, Sequences

CONSTANTS
    Loops,      \* loops a pull request is allowed for
    Callers,    \* API clients and the scheduler
    MaxCalls,   \* bound: calls
    MaxFaults   \* bound: crashes, lost answers, failing calls

ASSUME PullRequestsAssumption == {MaxCalls, MaxFaults} \subseteq Nat

VARIABLES
    rows,    \* store: the pull request records, oldest first
    remote,  \* GitHub: how often the branch of each loop was pushed; 0: not there
    pull,    \* GitHub: the newest pull request of each loop's branch
    held,    \* loops whose branch a worktree left in the repository holds
    call,    \* the call each caller has in flight
    calls,   \* calls made so far (bound)
    faults,  \* faults so far (bound)
    stuck    \* history: rows whose call ended in a crash or in a failing catch

vars == <<rows, remote, pull, held, call, calls, faults, stuck>>

RowStatuses == {"creating", "draft_created", "create_failed"}
PullStates == {"none", "draft", "changed", "closed"}
CallPcs ==
    {"idle", "read", "insert", "claim", "checkout", "lease", "push", "release",
     "find", "post", "record", "event", "fail"}

(* hindered: history, the call met a fault, another call of its loop or    *)
(* what a person did to the pull request.                                  *)
NoCall == [pc |-> "idle", loop |-> "none", row |-> 0, lease |-> 0, ok |-> TRUE,
           hindered |-> FALSE]

Init ==
    /\ rows = <<>>
    /\ remote = [l \in Loops |-> 0]
    /\ pull = [l \in Loops |-> "none"]
    /\ held = {}
    /\ call = [k \in Callers |-> NoCall]
    /\ calls = 0
    /\ faults = 0
    /\ stuck = {}

Busy(k) == call[k].pc # "idle"
RowsOf(l) == {i \in DOMAIN rows : rows[i].loop = l}
Oldest(l) == {i \in RowsOf(l) : \A j \in RowsOf(l) : i <= j}

(* Where the call is once it has no more to do. *)
Answered == NoCall

Go(k, pc) == call' = [call EXCEPT ![k].pc = pc]

(* A fault on the way of caller k: it goes to pc. *)
FaultTo(k, pc) ==
    /\ faults < MaxFaults
    /\ faults' = faults + 1
    /\ call' = [call EXCEPT ![k].pc = pc, ![k].hindered = TRUE]

SetRow(k, status) == rows' = [rows EXCEPT ![call[k].row].status = status]
-----------------------------------------------------------------------------
(* The record *)

Request(k, l) ==
    /\ ~Busy(k)
    /\ calls < MaxCalls
    /\ calls' = calls + 1
    /\ LET same == {j \in Callers : Busy(j) /\ call[j].loop = l} IN
       call' = [j \in Callers |->
           IF j = k
           THEN [NoCall EXCEPT !.pc = "read", !.loop = l,
                               !.hindered = same # {} \/ pull[l] = "changed" \/ l \in held]
           ELSE [call[j] EXCEPT !.hindered = @ \/ j \in same]]
    /\ UNCHANGED <<rows, remote, pull, held, faults, stuck>>

(* Mutant: a draft that was created is created again. *)
ReadClaimsAny(k) ==
    /\ call[k].pc = "read"
    /\ \/ RowsOf(call[k].loop) = {} /\ Go(k, "insert")
       \/ \E i \in Oldest(call[k].loop) :
             call' = [call EXCEPT ![k].pc = "claim", ![k].row = i]
    /\ UNCHANGED <<rows, remote, pull, held, calls, faults, stuck>>

(* Mutant: a record of a failed creation is not used again. *)
ReadInsertsAgain(k) ==
    /\ call[k].pc = "read"
    /\ IF \E i \in Oldest(call[k].loop) : rows[i].status = "draft_created"
       THEN call' = [call EXCEPT ![k] = Answered]
       ELSE Go(k, "insert")
    /\ UNCHANGED <<rows, remote, pull, held, calls, faults, stuck>>

(* getPullRequest: the oldest row.  A call that finds it 'creating' is     *)
(* refused with 409, one that finds the draft returns it.                  *)
Read(k) ==
    /\ call[k].pc = "read"
    /\ \/ RowsOf(call[k].loop) = {} /\ Go(k, "insert")
       \/ \E i \in Oldest(call[k].loop) :
             IF rows[i].status = "create_failed"
             THEN call' = [call EXCEPT ![k].pc = "claim", ![k].row = i]
             ELSE call' = [call EXCEPT ![k] = Answered]
    /\ UNCHANGED <<rows, remote, pull, held, calls, faults, stuck>>

(* Mutant: the row says from the start what is only hoped for. *)
InsertCreated(k) ==
    /\ call[k].pc = "insert"
    /\ rows' = Append(rows, [loop |-> call[k].loop, status |-> "draft_created"])
    /\ call' = [call EXCEPT ![k].pc = "checkout", ![k].row = Len(rows) + 1]
    /\ UNCHANGED <<remote, pull, held, calls, faults, stuck>>

(* No unique index on the loop: two calls that both read nothing insert.   *)
Insert(k) ==
    /\ call[k].pc = "insert"
    /\ rows' = Append(rows, [loop |-> call[k].loop, status |-> "creating"])
    /\ call' = [call EXCEPT ![k].pc = "checkout", ![k].row = Len(rows) + 1]
    /\ UNCHANGED <<remote, pull, held, calls, faults, stuck>>

Claim(k) ==
    /\ call[k].pc = "claim"
    /\ SetRow(k, "creating")
    /\ Go(k, "checkout")
    /\ UNCHANGED <<remote, pull, held, calls, faults, stuck>>
-----------------------------------------------------------------------------
(* The branch *)

(* Callers that have the branch of the loop checked out. *)
Holders(l) == {j \in Callers : call[j].loop = l /\ call[j].pc \in {"lease", "push", "release"}}

(* Fetch, worktree add, checkout -B, apply and commit.  Git may refuse a   *)
(* branch that another worktree has checked out.                           *)
Checkout(k) ==
    /\ call[k].pc = "checkout"
    /\ \/ Go(k, "lease")
       \/ (Holders(call[k].loop) # {} \/ call[k].loop \in held) /\ Go(k, "fail")
    /\ UNCHANGED <<rows, remote, pull, held, calls, faults, stuck>>

ReadRemote(k) ==
    /\ call[k].pc = "lease"
    /\ call' = [call EXCEPT ![k].pc = "push", ![k].lease = remote[call[k].loop]]
    /\ UNCHANGED <<rows, remote, pull, held, calls, faults, stuck>>

(* Mutant: a plain push, which GitHub refuses when the branch is there. *)
PushPlain(k) ==
    /\ call[k].pc = "push"
    /\ LET l == call[k].loop IN
       IF remote[l] = 0
       THEN /\ remote' = [remote EXCEPT ![l] = 1]
            /\ Go(k, "release")
       ELSE /\ call' = [call EXCEPT ![k].pc = "release", ![k].ok = FALSE]
            /\ UNCHANGED remote
    /\ UNCHANGED <<rows, pull, held, calls, faults, stuck>>

(* With the lease ls-remote gave, or plain when there was no branch. *)
Push(k) ==
    /\ call[k].pc = "push"
    /\ LET l == call[k].loop IN
       IF remote[l] = call[k].lease
       THEN /\ remote' = [remote EXCEPT ![l] = @ + 1]
            /\ Go(k, "release")
       ELSE /\ call' = [call EXCEPT ![k].pc = "release", ![k].ok = FALSE]
            /\ UNCHANGED remote
    /\ UNCHANGED <<rows, pull, held, calls, faults, stuck>>

(* The finally: the worktree is removed, or left when that fails. *)
Release(k) ==
    /\ call[k].pc = "release"
    /\ Go(k, IF call[k].ok THEN "find" ELSE "fail")
    /\ UNCHANGED <<rows, remote, pull, held, calls, faults, stuck>>

ReleaseFails(k) ==
    /\ call[k].pc = "release"
    /\ FaultTo(k, IF call[k].ok THEN "find" ELSE "fail")
    /\ held' = held \union {call[k].loop}
    /\ UNCHANGED <<rows, remote, pull, calls, stuck>>
-----------------------------------------------------------------------------
(* The draft *)

(* An open draft is used again, an open pull request that a person took    *)
(* over is not.                                                            *)
Find(k) ==
    /\ call[k].pc = "find"
    /\ LET state == pull[call[k].loop] IN
       \/ state = "draft" /\ Go(k, "record")
       \/ state = "changed" /\ Go(k, "fail")
       \/ state \in {"none", "closed"} /\ Go(k, "post")
    /\ UNCHANGED <<rows, remote, pull, held, calls, faults, stuck>>

(* GitHub allows one open pull request for a branch and its base. *)
Post(k) ==
    /\ call[k].pc = "post"
    /\ IF pull[call[k].loop] \in {"none", "closed"}
       THEN /\ pull' = [pull EXCEPT ![call[k].loop] = "draft"]
            /\ Go(k, "record")
       ELSE /\ Go(k, "fail")
            /\ UNCHANGED pull
    /\ UNCHANGED <<rows, remote, held, calls, faults, stuck>>

(* The draft is opened and the answer is lost. *)
PostAnswerLost(k) ==
    /\ call[k].pc = "post"
    /\ pull[call[k].loop] \in {"none", "closed"}
    /\ pull' = [pull EXCEPT ![call[k].loop] = "draft"]
    /\ FaultTo(k, "fail")
    /\ UNCHANGED <<rows, remote, held, calls, stuck>>

Record(k) ==
    /\ call[k].pc = "record"
    /\ SetRow(k, "draft_created")
    /\ Go(k, "event")
    /\ UNCHANGED <<remote, pull, held, calls, faults, stuck>>

Event(k) ==
    /\ call[k].pc = "event"
    /\ call' = [call EXCEPT ![k] = Answered]
    /\ UNCHANGED <<rows, remote, pull, held, calls, faults, stuck>>

(* Mutant: the status the API answers is written to the row. *)
FailAsAnswered(k) ==
    /\ call[k].pc = "fail"
    /\ SetRow(k, "failed")
    /\ call' = [call EXCEPT ![k] = Answered]
    /\ UNCHANGED <<remote, pull, held, calls, faults, stuck>>

(* Mutant: what fails after the record was made leaves it as it is. *)
FailKeeps(k) ==
    /\ call[k].pc = "fail"
    /\ call' = [call EXCEPT ![k] = Answered]
    /\ UNCHANGED <<rows, remote, pull, held, calls, faults, stuck>>

(* The catch: whatever failed, the event after the record included. *)
Fail(k) ==
    /\ call[k].pc = "fail"
    /\ SetRow(k, "create_failed")
    /\ call' = [call EXCEPT ![k] = Answered]
    /\ UNCHANGED <<remote, pull, held, calls, faults, stuck>>
-----------------------------------------------------------------------------
(* Faults, and people *)

(* Before the try there is nothing to undo. *)
ReadThrows(k) ==
    /\ call[k].pc \in {"read", "insert", "claim"}
    /\ faults < MaxFaults
    /\ faults' = faults + 1
    /\ call' = [call EXCEPT ![k] = Answered]
    /\ UNCHANGED <<rows, remote, pull, held, calls, stuck>>

Throws(k) ==
    /\ call[k].pc \in {"checkout", "find", "post", "record", "event"}
    /\ FaultTo(k, "fail")
    /\ UNCHANGED <<rows, remote, pull, held, calls, stuck>>

(* In the worktree: its finally still runs. *)
BranchThrows(k) ==
    /\ call[k].pc \in {"lease", "push"}
    /\ faults < MaxFaults
    /\ faults' = faults + 1
    /\ call' = [call EXCEPT ![k].pc = "release", ![k].ok = FALSE, ![k].hindered = TRUE]
    /\ UNCHANGED <<rows, remote, pull, held, calls, stuck>>

(* The write in the catch fails: the row stays 'creating'. *)
FailThrows(k) ==
    /\ call[k].pc = "fail"
    /\ faults < MaxFaults
    /\ faults' = faults + 1
    /\ call' = [call EXCEPT ![k] = Answered]
    /\ stuck' = stuck \union {call[k].row}
    /\ UNCHANGED <<rows, remote, pull, held, calls>>

Crash ==
    /\ faults < MaxFaults
    /\ faults' = faults + 1
    /\ held' = held \union {l \in Loops : Holders(l) # {}}
    /\ stuck' = stuck \union {call[k].row : k \in Callers}
    /\ call' = [k \in Callers |-> NoCall]
    /\ UNCHANGED <<rows, remote, pull, calls>>

(* A person edits, publishes or closes an open pull request. *)
PersonActs(l) ==
    /\ pull[l] = "draft"
    /\ \E state \in {"changed", "closed"} : pull' = [pull EXCEPT ![l] = state]
    /\ call' = [k \in Callers |-> IF call[k].loop = l THEN [call[k] EXCEPT !.hindered = TRUE]
                                  ELSE call[k]]
    /\ UNCHANGED <<rows, remote, held, calls, faults, stuck>>
-----------------------------------------------------------------------------
Step(k) ==
    \/ Read(k) \/ Insert(k) \/ Claim(k) \/ Checkout(k) \/ ReadRemote(k) \/ Push(k)
    \/ Release(k) \/ Find(k) \/ Post(k) \/ Record(k) \/ Event(k) \/ Fail(k)

Next ==
    \/ \E k \in Callers :
          \/ Step(k)
          \/ \E l \in Loops : Request(k, l)
          \/ ReleaseFails(k) \/ PostAnswerLost(k) \/ ReadThrows(k) \/ Throws(k)
          \/ BranchThrows(k) \/ FailThrows(k)
    \/ Crash
    \/ \E l \in Loops : PersonActs(l)

Spec == Init /\ [][Next]_vars
-----------------------------------------------------------------------------
RowRecord == [loop : Loops, status : RowStatuses]
CallRecord ==
    [pc : CallPcs, loop : Loops \union {"none"}, row : Nat,
     lease : Nat, ok : BOOLEAN, hindered : BOOLEAN]

(* Types of all variables. *)
TypeOK ==
    /\ rows \in Seq(RowRecord)
    /\ remote \in [Loops -> Nat]
    /\ pull \in [Loops -> PullStates]
    /\ held \in SUBSET Loops
    /\ call \in [Callers -> CallRecord]
    /\ calls \in 0 .. MaxCalls
    /\ faults \in 0 .. MaxFaults
    /\ stuck \in SUBSET Nat

(* A row that says 'creating', for which every later call is refused with  *)
(* 409, has a call that works on it, or one that ended in a crash or in a  *)
(* failing write of its own catch.                                         *)
CreatingHasCaller ==
    \A i \in DOMAIN rows : rows[i].status = "creating" =>
        i \in stuck \/ \E k \in Callers : Busy(k) /\ call[k].row = i

(* A row says 'draft_created' only for a branch that was pushed and a pull *)
(* request that was opened.                                                *)
RecordedDraftExists ==
    \A i \in DOMAIN rows : rows[i].status = "draft_created" =>
        remote[rows[i].loop] > 0 /\ pull[rows[i].loop] # "none"

(* What an earlier call left behind (a pushed branch, a draft nobody       *)
(* recorded, a failed row) never makes a later call fail: only a fault,    *)
(* another call of its loop, a worktree left behind or a person does.      *)
LonelyCallSucceeds ==
    \A k \in Callers : call[k].pc = "fail" => call[k].hindered

(* A recorded draft is lost from its row only by a call that met a fault   *)
(* or another call of its loop.                                            *)
RecordedDraftStays ==
    [][\A i \in DOMAIN rows :
          rows[i].status = "draft_created" /\ rows'[i].status # "draft_created" =>
              \E k \in Callers : call[k].row = i /\ call[k].hindered]_vars

(* A loop gets a second row only from calls that overlapped. *)
SecondRowNeedsOverlap ==
    [][\A k \in Callers : Insert(k) /\ RowsOf(call[k].loop) # {} => call[k].hindered]_vars
=============================================================================
