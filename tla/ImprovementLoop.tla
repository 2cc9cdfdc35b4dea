--------------------------- MODULE ImprovementLoop ---------------------------
(***************************************************************************)
(* One improvement loop (packages/sdk/src/improvement-loop.ts): rounds of  *)
(* candidates, each a kernel run of its own, the choice of the best of     *)
(* the accepted ones, the optional judge of ties, and the verification of  *)
(* the choice by a fresh kernel run before anybody may promote it.         *)
(*                                                                         *)
(* A kernel run is its answer: module KernelRun shows that a run aborted   *)
(* before it is judged is never accepted, and that is all that is used     *)
(* here.  A candidate is a number, the order of the candidate ids.  A      *)
(* score is its total; what its diff contributes on its own (changed files *)
(* and lines as one rank "size", changed tests) belongs to the patch, so   *)
(* equal patches cannot differ in it.  A loop without a judge or reviewer  *)
(* is one whose judge names nobody.                                        *)
(***************************************************************************)
EXTENDS Integers, Sequences, FiniteSets

CONSTANTS
    Options,        \* what callers ask for: rounds, verification, promotion
    Totals,         \* totals of scores
    Patches,        \* patches: records [name, tests, size]
    MaxCandidates,  \* the cap on candidates
    MaxFaults       \* bound: calls that fail and patch files that are altered

ASSUME LoopAssumption ==
    /\ \A o \in Options :
          /\ o.recovery \in Seq(Nat) /\ o.challengers \in Seq(Nat)
          /\ {o.skipFinalReverify, o.promoteBranch, o.githubDraftPr} \subseteq BOOLEAN
          /\ o.githubDraftPr => o.promoteBranch
    /\ Totals \subseteq Int
    /\ \A p \in Patches : p.tests \in Nat /\ p.size \in Nat
    /\ MaxCandidates \in Nat \ {0} /\ MaxFaults \in Nat

VARIABLES
    options,    \* the options of this command
    loop,       \* the locals of the loop that runs, or ran last
    altered,    \* candidates whose patch file is no longer the evaluated one
    aborted,    \* the first SIGINT has come
    faults,     \* faults that have happened
    verified,   \* history: what a fresh run accepted, on which base
    cutOff      \* history: the abort came before the fresh run began

loopVars == <<options, loop, altered, aborted, faults, verified, cutOff>>

Rejected == [accepted |-> FALSE]
Outcomes == {Rejected} \cup [accepted : {TRUE}, total : Totals, patch : Patches]

LoopPcs == {"idle", "candidates", "kernel", "judge", "verify", "reverify", "review",
            "report", "returned", "threw"}
EarlyPcs == {"idle", "candidates", "kernel", "judge", "verify"}
KernelWaits == {"kernel", "judge", "reverify", "review"}

Rounds == options.recovery \o options.challengers
Candidates == DOMAIN loop.outcomes
Accepted == {c \in Candidates : loop.outcomes[c].accepted}
Total(c) == loop.outcomes[c].total
Patch(c) == loop.outcomes[c].patch

CallFails == faults < MaxFaults /\ faults' = faults + 1

Fresh(base) ==
    [pc |-> "candidates", base |-> base, round |-> 1, spec |-> 0, outcomes |-> <<>>,
     pick |-> 0, passed |-> FALSE, reverified |-> FALSE]

LoopInit ==
    /\ options \in Options
    /\ loop = [Fresh(0) EXCEPT !.pc = "idle"]
    /\ altered = {} /\ aborted = FALSE /\ faults = 0
    /\ verified = {} /\ cutOff = FALSE
-----------------------------------------------------------------------------
(* The choice *)

(* compareAccepted: c comes before d. *)
Before(c, d) ==
    \/ Total(c) > Total(d)
    \/ /\ Total(c) = Total(d)
       /\ \/ Patch(c).tests < Patch(d).tests
          \/ /\ Patch(c).tests = Patch(d).tests
             /\ \/ Patch(c).size < Patch(d).size
                \/ Patch(c).size = Patch(d).size /\ c < d

(* What the arbiter and the judge take for equal leaves changed tests out. *)
TiedWith(c) == {d \in Accepted : Total(d) = Total(c) /\ Patch(d).size = Patch(c).size}
Twins(c) == {d \in TiedWith(c) : Patch(d) = Patch(c)}

(* The first in order, unless topEquivalentPatchGroup finds equal patches *)
(* among its ties: then the first of their largest group.                 *)
Preferred(c) ==
    \E top \in Accepted :
        /\ \A d \in Accepted \ {top} : Before(top, d)
        /\ LET Group(d) == Cardinality(Twins(d))
               twins    == {d \in TiedWith(top) : Group(d) >= 2}
           IN  IF twins = {} THEN c = top
               ELSE /\ c \in twins
                    /\ \A d \in twins \ {c} :
                          Group(c) > Group(d) \/ (Group(c) = Group(d) /\ c < d)
-----------------------------------------------------------------------------
(* The rounds *)

AtSpec == loop.pc = "candidates" /\ loop.round <= Len(Rounds)
                                 /\ loop.spec < Rounds[loop.round]

(* Mutant: the cap is not looked at. *)
StartCandidateUncapped ==
    /\ AtSpec
    /\ loop' = IF aborted
               THEN [loop EXCEPT !.outcomes = Append(@, Rejected), !.spec = @ + 1]
               ELSE [loop EXCEPT !.pc = "kernel"]
    /\ UNCHANGED <<options, altered, aborted, faults, verified, cutOff>>

(* A kernel that starts aborted comes back cancelled. *)
StartCandidate ==
    /\ AtSpec /\ Len(loop.outcomes) < MaxCandidates
    /\ loop' = IF aborted
               THEN [loop EXCEPT !.outcomes = Append(@, Rejected), !.spec = @ + 1]
               ELSE [loop EXCEPT !.pc = "kernel"]
    /\ UNCHANGED <<options, altered, aborted, faults, verified, cutOff>>

(* The cap, or the deadline or the token budget, which any check may find hit. *)
BudgetExhausted ==
    /\ AtSpec
    /\ loop' = [loop EXCEPT !.round = Len(Rounds) + 1]
    /\ UNCHANGED <<options, altered, aborted, faults, verified, cutOff>>

EndCandidate ==
    /\ loop.pc = "kernel"
    /\ \E o \in Outcomes :
          loop' = [loop EXCEPT !.pc = "candidates", !.spec = @ + 1,
                               !.outcomes = Append(@, o)]
    /\ UNCHANGED <<options, altered, aborted, faults, verified, cutOff>>

(* A later recovery round is for a loop that has nothing accepted yet; a *)
(* challenger round always runs.                                         *)
EndRound ==
    /\ loop.pc = "candidates" /\ loop.round <= Len(Rounds)
    /\ loop.spec = Rounds[loop.round]
    /\ LET recovery == Len(options.recovery)
           next     == IF loop.round < recovery /\ Accepted # {}
                       THEN recovery + 1 ELSE loop.round + 1
       IN  loop' = [loop EXCEPT !.round = next, !.spec = 0]
    /\ UNCHANGED <<options, altered, aborted, faults, verified, cutOff>>
-----------------------------------------------------------------------------
(* Selection and verification *)

Select ==
    /\ loop.pc = "candidates" /\ loop.round > Len(Rounds)
    /\ \/ Accepted = {} /\ loop' = [loop EXCEPT !.pc = "report"]
       \/ \E c \in Accepted :
             /\ Preferred(c)
             /\ loop' = [loop EXCEPT !.pick = c,
                                     !.pc = IF Cardinality(TiedWith(c)) >= 2
                                            THEN "judge" ELSE "verify"]
    /\ UNCHANGED <<options, altered, aborted, faults, verified, cutOff>>

(* Mutant: whomever the judge names. *)
JudgeAnswersTrusted ==
    /\ loop.pc = "judge"
    /\ \E winner \in Candidates :
          loop' = [loop EXCEPT !.pc = "verify", !.pick = winner]
    /\ UNCHANGED <<options, altered, aborted, faults, verified, cutOff>>

(* The judge picks among the ties; another name, or no answer, is ignored. *)
JudgeAnswers ==
    /\ loop.pc = "judge"
    /\ \E winner \in Candidates \cup {0} :
          loop' = [loop EXCEPT
                      !.pc = "verify",
                      !.pick = IF winner \in TiedWith(loop.pick) THEN winner ELSE @]
    /\ UNCHANGED <<options, altered, aborted, faults, verified, cutOff>>

(* Mutant: the fresh run is not given the signal. *)
VerifyUncancelled ==
    /\ loop.pc = "verify"
    /\ loop' = [loop EXCEPT !.pc = IF loop.pick \in altered THEN "report" ELSE "reverify"]
    /\ UNCHANGED <<options, altered, aborted, faults, verified, cutOff>>

(* The patch file must still be the evaluated one; then a fresh kernel run   *)
(* applies it to the base, unless the caller skips that.  A run that starts  *)
(* aborted comes back without a decision.                                    *)
Verify ==
    /\ loop.pc = "verify"
    /\ loop' = CASE loop.pick \in altered -> [loop EXCEPT !.pc = "report"]
                 [] loop.pick \notin altered /\ options.skipFinalReverify ->
                        [loop EXCEPT !.pc = "review", !.passed = TRUE]
                 [] loop.pick \notin altered /\ ~options.skipFinalReverify /\ aborted ->
                        [loop EXCEPT !.pc = "report", !.reverified = TRUE]
                 [] OTHER -> [loop EXCEPT !.pc = "reverify"]
    /\ UNCHANGED <<options, altered, aborted, faults, verified, cutOff>>

(* Only accept and qualified is a pass. *)
EndReverify ==
    /\ loop.pc = "reverify"
    /\ \E ok \in BOOLEAN :
          /\ loop' = [loop EXCEPT !.pc = IF ok THEN "review" ELSE "report",
                                  !.passed = ok, !.reverified = TRUE]
          /\ verified' = IF ok THEN verified \cup {[patch |-> Patch(loop.pick),
                                                    base |-> loop.base]}
                               ELSE verified
    /\ UNCHANGED <<options, altered, aborted, faults, cutOff>>

(* The reviewer of the selected patch decides nothing. *)
Reviewed ==
    /\ loop.pc = "review"
    /\ loop' = [loop EXCEPT !.pc = "report"]
    /\ UNCHANGED <<options, altered, aborted, faults, verified, cutOff>>

Report ==
    /\ loop.pc = "report"
    /\ loop' = [loop EXCEPT !.pc = "returned"]
    /\ UNCHANGED <<options, altered, aborted, faults, verified, cutOff>>

(* A kernel that cannot begin, a patch that cannot be read for the review, a *)
(* selection report that cannot be written: the loop throws.                 *)
LoopThrows ==
    /\ loop.pc \in {"kernel", "review", "report"}
    /\ CallFails
    /\ loop' = [loop EXCEPT !.pc = "threw"]
    /\ UNCHANGED <<options, altered, aborted, verified, cutOff>>
-----------------------------------------------------------------------------
(* The surroundings *)

(* During a long wait somebody rewrites the patch file of a candidate. *)
PatchAltered ==
    /\ loop.pc \in KernelWaits
    /\ CallFails
    /\ \E c \in Accepted : altered' = altered \cup {c}
    /\ UNCHANGED <<options, loop, aborted, verified, cutOff>>

Abort ==
    /\ ~aborted /\ aborted' = TRUE
    /\ cutOff' = (loop.pc \in EarlyPcs)
    /\ UNCHANGED <<options, loop, altered, faults, verified>>

LoopStep ==
    \/ StartCandidate \/ BudgetExhausted \/ EndCandidate \/ EndRound
    \/ Select \/ JudgeAnswers \/ Verify \/ EndReverify \/ Reviewed \/ Report

(* What runImprovementLoop selected: 0 for none. *)
Selected == IF loop.passed THEN loop.pick ELSE 0

(* isPrCandidate. *)
PrCandidate == loop.pc = "returned" /\ Selected # 0 /\ loop.reverified
-----------------------------------------------------------------------------
(* Types of the variables of the loop, which stays within its rounds and the *)
(* cap on candidates.                                                        *)
LoopTypeOK ==
    /\ options \in Options
    /\ loop \in [pc : LoopPcs, base : Nat, round : Nat, spec : Nat,
                 outcomes : Seq(Outcomes), pick : Nat, passed : BOOLEAN, reverified : BOOLEAN]
    /\ loop.round \in 1..Len(Rounds) + 1 /\ Len(loop.outcomes) <= MaxCandidates
    /\ loop.pick \in Candidates \cup {0} /\ altered \subseteq Accepted
    /\ aborted \in BOOLEAN /\ cutOff \in BOOLEAN /\ faults \in 0..MaxFaults
    /\ verified \subseteq [patch : Patches, base : Nat]
=============================================================================
