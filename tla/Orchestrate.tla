----------------------------- MODULE Orchestrate -----------------------------
(***************************************************************************)
(* vibeloop orchestrate (packages/cli/src/commands/orchestrate.ts): one    *)
(* issue at a time, each discovered on the current state of the promotion  *)
(* branch, given to an improvement loop that starts from that state,       *)
(* committed on the branch when it is a PR candidate, and published as a   *)
(* draft pull request stacked on the one before (sdk/src/promotion.ts).    *)
(*                                                                         *)
(* A commit is the issue and the patch it holds; its base is the number of *)
(* commits below it.  The branch has no other writer: nothing in the code  *)
(* looks whether HEAD is still the base of the loop when it commits.       *)
(***************************************************************************)
EXTENDS ImprovementLoop

CONSTANT MaxIssues      \* --max-issues

ASSUME IssuesAssumption == MaxIssues \in Nat \ {0}

VARIABLES
    main,       \* where the command is
    issue,      \* issues taken up so far
    base,       \* currentBaseCommit, in commits
    branch,     \* the promotion branch
    published,  \* the stack of draft pull requests, the lowest first
    records     \* the issues of the final report

orchestrateVars == <<main, issue, base, branch, published, records>>
vars == <<loopVars, orchestrateVars>>

MainPcs == {"start", "issue", "loop", "commit", "publish", "catch", "done", "killed"}

Init ==
    /\ LoopInit
    /\ main = "start" /\ issue = 0 /\ base = 0
    /\ branch = <<>> /\ published = <<>> /\ records = <<>>

Record(pr, error) ==
    records' = Append(records, [issue |-> issue, pr |-> pr, error |-> error])

(* The content of the patch file of the selected candidate. *)
OtherPatch == [name |-> "altered", tests |-> 0, size |-> 0]
PatchFile == IF Selected \in altered THEN OtherPatch ELSE Patch(Selected)
Commit(file) == [issue |-> issue, patch |-> file]
Commits == [issue : 0..MaxIssues, patch : Patches \cup {OtherPatch}]
-----------------------------------------------------------------------------
(* checkoutPromotionBranch; a dirty repository ends the command. *)
Checkout ==
    /\ main = "start"
    /\ \/ main' = "issue" /\ UNCHANGED faults
       \/ options.promoteBranch /\ CallFails /\ main' = "done"
    /\ UNCHANGED <<options, loop, altered, aborted, verified, cutOff,
                   issue, base, branch, published, records>>

(* Discovery, which may find nothing or fail; then the loop of the issue. *)
TakeIssue ==
    /\ main = "issue" /\ ~aborted /\ issue < MaxIssues
    /\ main' = "loop" /\ issue' = issue + 1
    /\ loop' = Fresh(base) /\ altered' = {}
    /\ UNCHANGED <<options, aborted, faults, verified, cutOff,
                   base, branch, published, records>>

NoMoreIssues ==
    /\ main = "issue"
    /\ main' = "done"
    /\ UNCHANGED <<loopVars, issue, base, branch, published, records>>

Improve ==
    /\ main = "loop"
    /\ LoopStep \/ LoopThrows \/ PatchAltered
    /\ UNCHANGED orchestrateVars

(* The next issue; a promotion goes on only from a commit. *)
Continue(committed) ==
    main' = IF options.promoteBranch /\ ~committed THEN "done" ELSE "issue"

LoopEnds ==
    /\ main = "loop" /\ loop.pc \in {"returned", "threw"}
    /\ CASE loop.pc = "threw" -> main' = "catch" /\ UNCHANGED records
         [] options.promoteBranch /\ PrCandidate -> main' = "commit" /\ UNCHANGED records
         [] OTHER -> Record(PrCandidate, FALSE) /\ Continue(FALSE)
    /\ UNCHANGED <<loopVars, issue, base, branch, published>>

(* Mutant: the patch file is applied as it is. *)
CommitPatchUnchecked ==
    /\ main = "commit"
    /\ branch' = Append(branch, Commit(PatchFile)) /\ base' = Len(branch')
    /\ IF options.githubDraftPr THEN main' = "publish" /\ UNCHANGED records
       ELSE Record(TRUE, FALSE) /\ Continue(TRUE)
    /\ UNCHANGED <<loopVars, issue, published>>

(* commitSelectedPatchOnCurrentBranch: the patch file must have the hash of *)
(* the final verification.                                                  *)
CommitPatch ==
    /\ main = "commit" /\ Selected \notin altered
    /\ branch' = Append(branch, Commit(PatchFile)) /\ base' = Len(branch')
    /\ IF options.githubDraftPr THEN main' = "publish" /\ UNCHANGED records
       ELSE Record(TRUE, FALSE) /\ Continue(TRUE)
    /\ UNCHANGED <<loopVars, issue, published>>

(* publishSelectedPatchDraftPr: the branch of this issue, on the last one *)
(* published, pushed and opened as a draft.                               *)
Publish ==
    /\ main = "publish" /\ Selected \notin altered
    /\ published' = Append(published, Commit(PatchFile))
    /\ Record(TRUE, FALSE) /\ Continue(TRUE)
    /\ UNCHANGED <<loopVars, issue, base, branch>>

(* A promotion or publication that fails. *)
PromotionThrows ==
    /\ main \in {"commit", "publish"}
    /\ IF Selected \in altered THEN UNCHANGED faults ELSE CallFails
    /\ main' = "catch"
    /\ UNCHANGED <<options, loop, altered, aborted, verified, cutOff,
                   issue, base, branch, published, records>>

(* Mutant: the sweep goes on to the next issue. *)
CatchIssueGoesOn ==
    /\ main = "catch"
    /\ Record(FALSE, TRUE) /\ Continue(TRUE)
    /\ UNCHANGED <<loopVars, issue, base, branch, published>>

(* Mutant: an issue that failed to be promoted is reported as a candidate. *)
CatchIssueAsCandidate ==
    /\ main = "catch"
    /\ Record(PrCandidate, TRUE) /\ Continue(FALSE)
    /\ UNCHANGED <<loopVars, issue, base, branch, published>>

(* The catch of one issue: recorded, and the end of a promotion. *)
CatchIssue ==
    /\ main = "catch"
    /\ Record(FALSE, TRUE) /\ Continue(FALSE)
    /\ UNCHANGED <<loopVars, issue, base, branch, published>>

(* The first SIGINT aborts, the second one exits. *)
Interrupt ==
    /\ main \notin {"done", "killed"}
    /\ Abort
    /\ UNCHANGED orchestrateVars

Kill ==
    /\ main \notin {"done", "killed"} /\ aborted
    /\ main' = "killed"
    /\ UNCHANGED <<loopVars, issue, base, branch, published, records>>
-----------------------------------------------------------------------------
Next ==
    \/ Checkout \/ TakeIssue \/ NoMoreIssues \/ Improve \/ LoopEnds
    \/ CommitPatch \/ Publish \/ PromotionThrows \/ CatchIssue
    \/ Interrupt \/ Kill

Spec == Init /\ [][Next]_vars
-----------------------------------------------------------------------------
(* Types of all variables; the commits and records are those of issues that *)
(* were taken up.                                                           *)
TypeOK ==
    /\ LoopTypeOK
    /\ main \in MainPcs /\ issue \in 0..MaxIssues
    /\ branch \in Seq(Commits) /\ published \in Seq(Commits) /\ base = Len(branch)
    /\ records \in Seq([issue : 0..MaxIssues, pr : BOOLEAN, error : BOOLEAN])
    /\ Len(branch) <= issue /\ Len(records) <= issue

(* Only what a fresh kernel run accepted, on the very commit it lands on, is *)
(* ever committed to the promotion branch.                                   *)
PromotedIsReverified ==
    \A k \in DOMAIN branch : [patch |-> branch[k].patch, base |-> k - 1] \in verified

(* A failed candidate never displaces a passing one, and neither the judge *)
(* nor equal patches lift a candidate over one with a better score.        *)
PickIsBest ==
    loop.pick # 0 => /\ loop.pick \in Accepted
                     /\ \A c \in Accepted : Total(c) <= Total(loop.pick)

(* The stack of drafts is the promotion branch, at most its last commit is *)
(* missing: no draft is stacked on a tree that lacks what it was judged on. *)
StackFollowsBranch ==
    options.githubDraftPr =>
        /\ Len(branch) - Len(published) \in {0, 1}
        /\ published = SubSeq(branch, 1, Len(published))

(* A command interrupted before the fresh verification of its loop promotes *)
(* nothing any more.                                                        *)
InterruptedPromotesNothing == [][cutOff => UNCHANGED <<branch, published>>]_vars

(* An issue is reported as PR candidate only when its selected patch passed *)
(* a fresh run, and was committed if the command promotes.                  *)
ReportIsEarned ==
    [][\A k \in DOMAIN records' \ DOMAIN records :
          records'[k].pr =>
              /\ [patch |-> Patch(Selected), base |-> loop.base] \in verified
              /\ options.promoteBranch => \E c \in DOMAIN branch' : branch'[c].issue = issue
      ]_vars
=============================================================================
