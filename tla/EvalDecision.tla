---------------------------- MODULE EvalDecision ----------------------------
(***************************************************************************)
(* What the gates of a loop decide: the gates runGates skips               *)
(* (eval-engine/src/orchestrator.ts), the evidence that a failure was      *)
(* fixed (detectors/fixes-reproduced-failure.ts) and the ordered rules of  *)
(* decide (decision/engine.ts).  Pure operators, no state.                 *)
(***************************************************************************)
EXTENDS Naturals, Sequences

CONSTANTS
    Gates   \* the gates of eval.yaml in order: type, required, and which
            \* builtin check a gate of type "integrity" runs

GuardTypes == {"scope", "integrity"}
ProjectTypes ==
    {"hard", "task_acceptance", "regression", "security", "performance", "hidden_acceptance"}
GateTypes == GuardTypes \union ProjectTypes \union {"advisory"}
Checks == {"none", "git-meta-integrity", "test-integrity", "artifact-leak", "limits"}

ASSUME GatesAssumption ==
    Gates \in Seq([type : GateTypes, required : BOOLEAN, check : Checks])

GateIds == DOMAIN Gates

(* A report is the statuses of gates, in the order of Gates. *)
Outcomes == {"pass", "fail", "error"}
Statuses == Outcomes \union {"skipped"}

(* Mutant: a gate that errors does not count as failed. *)
FailedOnly(report, i) == report[i] = "fail"

Failed(report, i) == report[i] \in {"fail", "error"}

FailFast(report, i) == Gates[i].required /\ Failed(report, i)
-----------------------------------------------------------------------------
(* Gate k is skipped for what the gates before it returned. *)
MustSkip(report, k) ==
    \E i \in 1 .. k - 1 :
        /\ FailFast(report, i)
        /\ \/ Gates[i].type \in GuardTypes
           \/ /\ Gates[i].type \in ProjectTypes
              /\ Gates[k].type \in ProjectTypes \union {"advisory"}

(* What runGates can return: every other gate is run. *)
Reports ==
    {report \in [GateIds -> Statuses] :
        \A k \in GateIds : report[k] = "skipped" <=> MustSkip(report, k)}
-----------------------------------------------------------------------------
(* fixes_reproduced_failure: red names the gates the baseline saw fail.  A *)
(* gate matches itself by its name.                                        *)
FixEvidence(failedOnBase, red, report) ==
    IF failedOnBase THEN "present"
    ELSE IF red = {} THEN "missing"
    ELSE IF ~\E i \in GateIds :
               Gates[i].check = "test-integrity" /\ report[i] = "pass"
         THEN "inconclusive"
    ELSE IF \E i \in red : report[i] = "pass" THEN "present"
    ELSE "missing"

CheckFailed(report, check) ==
    \E i \in GateIds :
        Failed(report, i) /\ Gates[i].type = "integrity" /\ Gates[i].check = check

RequiredFailed(report) == \E i \in GateIds : FailFast(report, i)

(* Changes: what the candidate changed, as far as the rules tell it apart. *)
Changes == {"nothing", "allowed", "protected", "outside"}
Decisions == {"accept", "reject", "needs_human_review", "needs_more_tests"}

(* decide: the first rule that applies.  evidence is the set of statuses   *)
(* of the required evidence, approval that the task or its risk asks for a *)
(* human, metaEvaluation that the task may change the evaluation system.   *)
Decide(in) ==
    IF \/ in.change = "nothing"
       \/ CheckFailed(in.report, "git-meta-integrity")
       \/ ~in.provenance
    THEN "reject"
    ELSE IF in.change = "protected"
    THEN IF in.metaEvaluation THEN "needs_human_review" ELSE "reject"
    ELSE IF \/ in.change = "outside"
            \/ \E check \in {"test-integrity", "artifact-leak", "limits"} :
                   CheckFailed(in.report, check)
            \/ RequiredFailed(in.report)
    THEN "reject"
    ELSE IF ~\E i \in GateIds : Gates[i].required THEN "needs_more_tests"
    ELSE IF in.evidence = {"missing"} THEN "reject"
    ELSE IF "inconclusive" \in in.evidence THEN "needs_more_tests"
    ELSE IF in.approval \/ in.mismatch THEN "needs_human_review"
    ELSE "accept"
=============================================================================
