------------------------- MODULE Orchestrate_proofs -------------------------
(***************************************************************************)
(* What vibeloop orchestrate promises for every choice of options, rounds, *)
(* scores, patches, caps and faults.                                       *)
(***************************************************************************)
EXTENDS Orchestrate, TLAPS

(* An issue that is under way has neither its commit nor its record yet, and *)
(* the loop works on the tip of the branch.                                  *)
Position ==
    /\ main \in {"loop", "commit", "publish", "catch"} => Len(records) < issue
    /\ main \in {"loop", "commit"} => Len(branch) < issue /\ loop.base = Len(branch)
    /\ main \in {"commit", "publish"} =>
          /\ loop.pc = "returned" /\ loop.passed /\ loop.reverified
          /\ options.promoteBranch

(* The pick is made once, of an accepted candidate, when no more are to come. *)
Choice ==
    /\ loop.pc \in {"judge", "verify", "reverify", "review"} => loop.pick # 0
    /\ loop.pc \in {"idle", "candidates", "kernel"} => loop.pick = 0
    /\ loop.pick # 0 => loop.pick \in Accepted

(* A candidate that runs has its place under the cap. *)
Room == loop.pc = "kernel" => Len(loop.outcomes) < MaxCandidates

(* What passed a fresh run is in the history, with the base of the loop. *)
Passed ==
    /\ loop.passed \/ loop.reverified => loop.pc \in {"review", "report", "returned", "threw"}
    /\ loop.passed => loop.pick # 0
    /\ loop.passed /\ loop.reverified =>
          [patch |-> Patch(loop.pick), base |-> loop.base] \in verified

(* At most the last commit lacks its draft; none does between two issues, and *)
(* the one being published is the commit of the loop that just ended.        *)
Stack ==
    options.githubDraftPr =>
        /\ published = branch \/ \E c \in Commits : branch = Append(published, c)
        /\ main \in {"start", "issue", "loop", "commit"} => published = branch
        /\ main = "publish" => branch = Append(published, Commit(Patch(loop.pick)))

(* An abort before the fresh run began is one nothing passes any more. *)
Cut == cutOff => /\ aborted /\ loop.pc # "reverify"
                 /\ ~(loop.passed /\ loop.reverified)

-----------------------------------------------------------------------------
(* Types *)

LEMMA RoundsType ==
    ASSUME options \in Options
    PROVE  /\ Rounds \in Seq(Nat) /\ Len(Rounds) \in Nat
           /\ Len(options.recovery) \in Nat /\ Len(options.recovery) <= Len(Rounds)
<1>1. options.recovery \in Seq(Nat) /\ options.challengers \in Seq(Nat)
  BY LoopAssumption DEF LoopAssumption
<1>2. /\ Rounds \in Seq(Nat)
      /\ Len(Rounds) = Len(options.recovery) + Len(options.challengers)
  BY <1>1 DEF Rounds
<1>0. \A q \in Seq(Nat) : Len(q) \in Nat
  OBVIOUS
<1>3. /\ Len(options.recovery) \in Nat /\ Len(options.challengers) \in Nat
      /\ Len(Rounds) \in Nat
  BY <1>0, <1>1, <1>2
<1>4. \A a, b, c \in Nat : c = a + b => a <= c
  OBVIOUS
<1>5. Len(options.recovery) <= Len(Rounds)
  BY <1>2, <1>3, <1>4
<1> QED BY <1>2, <1>3, <1>5

LEMMA Bounds == MaxCandidates \in Nat \ {0} /\ MaxFaults \in Nat /\ MaxIssues \in Nat \ {0}
  BY LoopAssumption, IssuesAssumption DEF LoopAssumption, IssuesAssumption

LEMMA DraftsPromote ==
    ASSUME options \in Options, options.githubDraftPr
    PROVE  options.promoteBranch
  BY LoopAssumption DEF LoopAssumption

(* What only depends on the options and the outcomes. *)
LEMMA SameOutcomes ==
    ASSUME options' = options, loop'.outcomes = loop.outcomes
    PROVE  Rounds' = Rounds /\ Candidates' = Candidates /\ Accepted' = Accepted
  BY DEF Rounds, Candidates, Accepted

(* The fields of the loop have their types. *)
LoopRecord ==
    [pc : LoopPcs, base : Nat, round : Nat, spec : Nat, outcomes : Seq(Outcomes),
     pick : Nat, passed : BOOLEAN, reverified : BOOLEAN]

LEMMA InitLoop == ASSUME LoopInit PROVE LoopTypeOK
<1>1. options \in Options /\ Len(Rounds) \in Nat
  BY RoundsType DEF LoopInit
<1>2. /\ loop = [pc |-> "idle", base |-> 0, round |-> 1, spec |-> 0, outcomes |-> <<>>,
                 pick |-> 0, passed |-> FALSE, reverified |-> FALSE]
  BY DEF LoopInit, Fresh
<1>3. loop \in LoopRecord
  BY <1>2 DEF LoopRecord, LoopPcs
<1>4. loop.pick = 0 /\ loop.round = 1 /\ Len(loop.outcomes) = 0
  BY <1>2
<1>5. LoopTypeOK
  <2>1. loop.round \in 1..Len(Rounds) + 1 /\ Len(loop.outcomes) <= MaxCandidates
    BY <1>1, <1>4, Bounds
  <2>2. altered = {} /\ verified = {} /\ aborted = FALSE /\ cutOff = FALSE
    BY DEF LoopInit
  <2>3. faults \in 0..MaxFaults
    BY Bounds DEF LoopInit
  <2> QED BY <1>1, <1>3, <1>4, <2>1, <2>2, <2>3 DEF LoopTypeOK, LoopRecord
<1> QED BY <1>5

(* A new outcome keeps the candidates there are. *)
LEMMA MoreOutcomes ==
    ASSUME LoopTypeOK, NEW o \in Outcomes, loop'.outcomes = Append(loop.outcomes, o)
    PROVE  /\ loop'.outcomes \in Seq(Outcomes)
           /\ Len(loop'.outcomes) = Len(loop.outcomes) + 1
           /\ Candidates \subseteq Candidates' /\ Accepted \subseteq Accepted'
<1>1. loop.outcomes \in Seq(Outcomes)
  BY DEF LoopTypeOK
<1>2. /\ loop'.outcomes \in Seq(Outcomes)
      /\ Len(loop'.outcomes) = Len(loop.outcomes) + 1
      /\ \A k \in 1..Len(loop.outcomes) : loop'.outcomes[k] = loop.outcomes[k]
  BY <1>1
<1>3. Candidates = 1..Len(loop.outcomes) /\ Candidates' = 1..Len(loop'.outcomes)
  BY <1>1, <1>2 DEF Candidates
<1> QED BY <1>1, <1>2, <1>3 DEF Accepted

LEMMA AcceptedPatch ==
    ASSUME LoopTypeOK, NEW c \in Accepted
    PROVE  Patch(c) \in Patches /\ Total(c) \in Totals
<1>1. loop.outcomes \in Seq(Outcomes) /\ c \in DOMAIN loop.outcomes
      /\ loop.outcomes[c].accepted
  BY DEF LoopTypeOK, Accepted, Candidates
<1>2. loop.outcomes[c] \in Outcomes /\ loop.outcomes[c] # Rejected
  BY <1>1 DEF Rejected
<1> QED BY <1>2 DEF Outcomes, Patch, Total

(* Every step of the loop keeps the types of its variables. *)
LEMMA LoopStepType == ASSUME LoopTypeOK, Choice, Room, LoopStep PROVE LoopTypeOK'
<1>r. /\ options \in Options /\ loop \in LoopRecord
      /\ Rounds \in Seq(Nat) /\ Len(Rounds) \in Nat
      /\ Len(options.recovery) \in Nat /\ Len(options.recovery) <= Len(Rounds)
      /\ Candidates \subseteq Nat /\ Accepted \subseteq Candidates
  <2>1. options \in Options /\ loop \in LoopRecord
    BY DEF LoopTypeOK, LoopRecord
  <2>2. Candidates \subseteq Nat /\ Accepted \subseteq Candidates
    BY <2>1 DEF Candidates, Accepted, LoopRecord
  <2> QED BY <2>1, <2>2, RoundsType
<1>s. CASE StartCandidate
  <2>1. CASE aborted
    <3>1. loop' = [loop EXCEPT !.outcomes = Append(@, Rejected), !.spec = @ + 1]
      BY <1>s, <2>1 DEF StartCandidate
    <3>2. loop'.outcomes = Append(loop.outcomes, Rejected)
      BY <3>1, <1>r DEF LoopRecord
    <3>3. Rejected \in Outcomes
      BY DEF Outcomes
    <3>4. /\ loop'.outcomes \in Seq(Outcomes)
          /\ Len(loop'.outcomes) = Len(loop.outcomes) + 1
          /\ Candidates \subseteq Candidates' /\ Accepted \subseteq Accepted'
      BY <3>2, <3>3, MoreOutcomes
    <3>5. loop' \in LoopRecord
      <4> DEFINE os == loop'.outcomes
      <4>1. loop' = [loop EXCEPT !.outcomes = os, !.spec = loop.spec + 1]
        BY <3>1, <3>2, <1>r DEF LoopRecord
      <4>2. loop.spec + 1 \in Nat
        BY <1>r DEF LoopRecord
      <4>3. os \in Seq(Outcomes)
        BY <3>4
      <4> HIDE DEF os
      <4> QED BY <4>1, <4>2, <4>3, <1>r DEF LoopRecord
    <3>6. Len(loop'.outcomes) <= MaxCandidates
      BY <1>s, <1>r, <3>4, LoopAssumption DEF StartCandidate, LoopAssumption, LoopRecord
    <3>7. loop'.round = loop.round /\ loop'.pick = loop.pick /\ Rounds' = Rounds
      BY <1>s, <3>1, <1>r DEF StartCandidate, LoopRecord, Rounds
    <3> QED BY <1>s, <1>r, <3>4, <3>5, <3>6, <3>7 DEF StartCandidate, LoopTypeOK, LoopRecord
  <2>2. CASE ~aborted
    BY <1>s, <1>r, <2>2, SameOutcomes DEF StartCandidate, LoopTypeOK, LoopPcs
  <2> QED BY <2>1, <2>2
<1>b. CASE BudgetExhausted
  BY <1>b, <1>r, SameOutcomes, SMTT(30) DEF BudgetExhausted, LoopTypeOK
<1>e. CASE EndRound
  <2> DEFINE n == loop'.round
  <2>1. loop' = [loop EXCEPT !.round = n, !.spec = 0]
    BY <1>e, <1>r DEF EndRound, LoopRecord
  <2>3. n \in 1..Len(Rounds) + 1 /\ n \in Nat
    BY <1>e, <1>r, SMTT(30) DEF EndRound, LoopRecord
  <2> HIDE DEF n
  <2>2. loop' \in LoopRecord /\ loop'.outcomes = loop.outcomes
                           /\ loop'.pick = loop.pick
    BY <2>1, <2>3, <1>r DEF LoopRecord
  <2> QED BY <1>e, <1>r, <2>2, <2>3, SameOutcomes DEF EndRound, LoopTypeOK, LoopRecord, n
<1>j. CASE JudgeAnswers
  BY <1>j, <1>r, SameOutcomes DEF JudgeAnswers, LoopTypeOK, TiedWith, LoopPcs
<1>v. CASE Verify
  BY <1>v, <1>r, SameOutcomes DEF Verify, LoopTypeOK, LoopPcs
<1>w. CASE Reviewed \/ Report
  BY <1>w, <1>r, SameOutcomes DEF Reviewed, Report, LoopTypeOK, LoopPcs
<1>c. CASE EndCandidate
  <2>1. PICK o \in Outcomes :
           loop' = [loop EXCEPT !.pc = "candidates", !.spec = @ + 1,
                                !.outcomes = Append(@, o)]
    BY <1>c DEF EndCandidate
  <2>2. loop'.outcomes = Append(loop.outcomes, o)
    BY <2>1, <1>r DEF LoopRecord
  <2>3. /\ loop'.outcomes \in Seq(Outcomes)
        /\ Len(loop'.outcomes) = Len(loop.outcomes) + 1
        /\ Candidates \subseteq Candidates' /\ Accepted \subseteq Accepted'
    BY <2>2, MoreOutcomes
  <2>4. loop' \in LoopRecord
    <3> DEFINE os == loop'.outcomes
    <3>1. loop' = [loop EXCEPT !.pc = "candidates", !.spec = loop.spec + 1, !.outcomes = os]
      BY <2>1, <2>2, <1>r DEF LoopRecord
    <3>2. loop.spec + 1 \in Nat
      BY <1>r DEF LoopRecord
    <3>3. os \in Seq(Outcomes)
      BY <2>3
    <3> HIDE DEF os
    <3> QED BY <3>1, <3>2, <3>3, <1>r DEF LoopRecord, LoopPcs
  <2>5. Len(loop'.outcomes) <= MaxCandidates
    <3>1. Len(loop.outcomes) \in Nat /\ Len(loop.outcomes) < MaxCandidates
      BY <1>c, <1>r DEF EndCandidate, Room, LoopRecord
    <3> QED BY <2>3, <3>1, Bounds
  <2>6. loop'.round = loop.round /\ loop'.pick = loop.pick /\ Rounds' = Rounds
    BY <1>c, <2>1, <1>r DEF EndCandidate, LoopRecord, Rounds
  <2> QED BY <1>c, <1>r, <2>3, <2>4, <2>5, <2>6 DEF EndCandidate, LoopTypeOK, LoopRecord
<1>l. CASE Select
  <2>1. CASE Accepted = {} /\ loop' = [loop EXCEPT !.pc = "report"]
    BY <1>l, <1>r, <2>1, SameOutcomes DEF Select, LoopTypeOK, LoopPcs
  <2>2. ASSUME NEW c \in Accepted, NEW q \in {"judge", "verify"},
               loop' = [loop EXCEPT !.pick = c, !.pc = q]
        PROVE  LoopTypeOK'
    BY <1>l, <1>r, <2>2, SameOutcomes DEF Select, LoopTypeOK, LoopPcs
  <2> QED BY <1>l, <2>1, <2>2 DEF Select
<1>y. CASE EndReverify
  <2>1. PICK ok \in BOOLEAN :
          /\ loop' = [loop EXCEPT !.pc = IF ok THEN "review" ELSE "report",
                                  !.passed = ok, !.reverified = TRUE]
          /\ verified' = IF ok THEN verified \cup {[patch |-> Patch(loop.pick),
                                                    base |-> loop.base]}
                               ELSE verified
    BY <1>y DEF EndReverify
  <2>2. loop' \in LoopRecord /\ loop'.outcomes = loop.outcomes
        /\ loop'.pick = loop.pick /\ loop'.round = loop.round
    BY <2>1, <1>r DEF LoopRecord, LoopPcs
  <2>3. Patch(loop.pick) \in Patches
    BY <1>y, AcceptedPatch DEF EndReverify, Choice
  <2>4. verified' \subseteq [patch : Patches, base : Nat]
    BY <2>1, <2>3, <1>r DEF LoopTypeOK, LoopRecord
  <2> QED BY <1>y, <1>r, <2>2, <2>4, SameOutcomes DEF EndReverify, LoopTypeOK, LoopRecord
<1> QED BY <1>s, <1>b, <1>e, <1>j, <1>v, <1>w, <1>c, <1>l, <1>y DEF LoopStep
-----------------------------------------------------------------------------
(* The loop *)

LEMMA LoopStepChoice == ASSUME LoopTypeOK, Choice, Room, LoopStep PROVE Choice' /\ Room'
<1>r. loop \in LoopRecord /\ Candidates \subseteq Nat
  BY DEF LoopTypeOK, LoopRecord, Candidates
<1> USE DEF Choice, Room, LoopRecord
<1>s. CASE StartCandidate
  <2>1. loop'.pick = loop.pick /\ loop'.pc \in {"candidates", "kernel"}
    BY <1>s, <1>r DEF StartCandidate, AtSpec
  <2>2. loop'.pc = "kernel" => loop'.outcomes = loop.outcomes
    BY <1>s, <1>r DEF StartCandidate, AtSpec
  <2> QED BY <1>s, <2>1, <2>2 DEF StartCandidate, AtSpec
<1>b. CASE BudgetExhausted \/ EndRound
  BY <1>b, <1>r, SameOutcomes DEF BudgetExhausted, EndRound, AtSpec
<1>c. CASE EndCandidate
  BY <1>c, <1>r DEF EndCandidate
<1>l. CASE Select
  <2>1. CASE Accepted = {} /\ loop' = [loop EXCEPT !.pc = "report"]
    BY <1>l, <1>r, <2>1 DEF Select
  <2>2. ASSUME NEW c \in Accepted, NEW q \in {"judge", "verify"},
               loop' = [loop EXCEPT !.pick = c, !.pc = q]
        PROVE  Choice' /\ Room'
    <3>1. c # 0
      BY <1>r DEF Accepted, Candidates, LoopTypeOK
    <3> QED BY <1>l, <1>r, <2>2, <3>1, SameOutcomes DEF Select
  <2> QED BY <1>l, <2>1, <2>2 DEF Select
<1>j. CASE JudgeAnswers
  <2>1. PICK winner \in Candidates \cup {0} :
          loop' = [loop EXCEPT
                      !.pc = "verify",
                      !.pick = IF winner \in TiedWith(loop.pick) THEN winner ELSE @]
    BY <1>j DEF JudgeAnswers
  <2>2. TiedWith(loop.pick) \subseteq Accepted /\ 0 \notin Accepted
    BY <1>r DEF TiedWith, Accepted, Candidates, LoopTypeOK
  <2>3. loop'.pick \in Accepted /\ loop'.pick # 0 /\ loop'.pc = "verify"
    BY <1>j, <1>r, <2>1, <2>2 DEF JudgeAnswers
  <2>4. loop'.outcomes = loop.outcomes /\ options' = options
    BY <1>j, <1>r, <2>1 DEF JudgeAnswers
  <2> QED BY <2>3, <2>4, SameOutcomes
<1>v. CASE Verify
  BY <1>v, <1>r, SameOutcomes DEF Verify
<1>w. CASE Reviewed \/ Report \/ EndReverify
  BY <1>w, <1>r, SameOutcomes DEF Reviewed, Report, EndReverify
<1> QED BY <1>s, <1>b, <1>c, <1>l, <1>j, <1>v, <1>w DEF LoopStep

LEMMA LoopStepPassed == ASSUME LoopTypeOK, Choice, Passed, LoopStep PROVE Passed'
<1>r. loop \in LoopRecord
  BY DEF LoopTypeOK, LoopRecord
<1> USE DEF Passed, LoopRecord
<1>b. CASE StartCandidate \/ BudgetExhausted \/ EndRound \/ EndCandidate \/ Select \/ JudgeAnswers
  <2>1. ~loop'.passed /\ ~loop'.reverified
    BY <1>b, <1>r DEF StartCandidate, BudgetExhausted, EndRound, EndCandidate, Select,
                      JudgeAnswers, AtSpec
  <2> QED BY <2>1
<1>v. CASE Verify
  BY <1>v, <1>r DEF Verify, Choice
<1>y. CASE EndReverify
  BY <1>y, <1>r DEF EndReverify, Choice, Patch
<1>w. CASE Reviewed \/ Report
  BY <1>w, <1>r DEF Reviewed, Report, Patch
<1> QED BY <1>b, <1>v, <1>y, <1>w DEF LoopStep
(* Whatever ties decide, the total of the pick is the best one. *)
LEMMA PreferredIsBest ==
    ASSUME LoopTypeOK, NEW c \in Accepted, Preferred(c), NEW d \in Accepted
    PROVE  Total(d) <= Total(c)
<1>1. PICK top \in Accepted :
        /\ \A x \in Accepted \ {top} : Before(top, x)
        /\ c = top \/ c \in TiedWith(top)
  BY DEF Preferred
<1>2. Total(c) \in Int /\ Total(d) \in Int /\ Total(top) \in Int
  BY AcceptedPatch, LoopAssumption DEF LoopAssumption
<1>3. Total(d) <= Total(top)
  BY <1>1, <1>2 DEF Before
<1>4. Total(c) = Total(top)
  BY <1>1 DEF TiedWith
<1> QED BY <1>2, <1>3, <1>4

LEMMA LoopStepBest == ASSUME LoopTypeOK, Choice, PickIsBest, LoopStep PROVE PickIsBest'
<1>r. loop \in LoopRecord
  BY DEF LoopTypeOK, LoopRecord
<1>k. ASSUME loop'.pick = loop.pick, loop'.outcomes = loop.outcomes, options' = options
      PROVE  PickIsBest'
  BY <1>k, SameOutcomes DEF PickIsBest, Total
<1>a. CASE StartCandidate \/ BudgetExhausted \/ EndRound \/ EndCandidate
  <2>1. loop'.pick = 0
    BY <1>a, <1>r DEF StartCandidate, BudgetExhausted, EndRound, EndCandidate, AtSpec,
                      Choice, LoopRecord
  <2> QED BY <2>1 DEF PickIsBest
<1>l. CASE Select
  <2>1. CASE Accepted = {} /\ loop' = [loop EXCEPT !.pc = "report"]
    BY <1>l, <1>r, <1>k, <2>1 DEF Select, LoopRecord
  <2>2. ASSUME NEW c \in Accepted, Preferred(c), NEW q,
               loop' = [loop EXCEPT !.pick = c, !.pc = q]
        PROVE  PickIsBest'
    <3>1. loop'.pick = c /\ loop'.outcomes = loop.outcomes /\ options' = options
      BY <1>l, <1>r, <2>2 DEF Select, LoopRecord
    <3>2. \A d \in Accepted : Total(d) <= Total(c)
      BY <2>2, PreferredIsBest
    <3> QED BY <3>1, <3>2, SameOutcomes DEF PickIsBest, Total
  <2> QED BY <1>l, <2>1, <2>2 DEF Select
<1>j. CASE JudgeAnswers
  <2>1. PICK winner \in Candidates \cup {0} :
          loop' = [loop EXCEPT
                      !.pc = "verify",
                      !.pick = IF winner \in TiedWith(loop.pick) THEN winner ELSE @]
    BY <1>j DEF JudgeAnswers
  <2>2. loop'.outcomes = loop.outcomes /\ options' = options
    BY <1>j, <1>r, <2>1 DEF JudgeAnswers, LoopRecord
  <2>3. CASE winner \in TiedWith(loop.pick)
    <3>1. loop'.pick = winner /\ winner \in Accepted /\ Total(winner) = Total(loop.pick)
          /\ loop.pick # 0
      BY <1>j, <1>r, <2>1, <2>3 DEF JudgeAnswers, TiedWith, LoopRecord, Choice
    <3> QED BY <2>2, <3>1, SameOutcomes DEF PickIsBest, Total
  <2>4. CASE winner \notin TiedWith(loop.pick)
    <3>1. loop'.pick = loop.pick
      BY <1>r, <2>1, <2>4 DEF LoopRecord
    <3> QED BY <1>k, <2>2, <3>1
  <2> QED BY <2>3, <2>4
<1>v. CASE Verify \/ EndReverify \/ Reviewed \/ Report
  <2>1. loop'.pick = loop.pick /\ loop'.outcomes = loop.outcomes /\ options' = options
    BY <1>v, <1>r DEF Verify, EndReverify, Reviewed, Report, LoopRecord
  <2> QED BY <1>k, <2>1
<1> QED BY <1>a, <1>l, <1>j, <1>v DEF LoopStep

LoopInv == LoopTypeOK /\ Choice /\ Room /\ Passed /\ PickIsBest

LEMMA LoopStepInv == ASSUME LoopInv, LoopStep PROVE LoopInv'
  BY LoopStepType, LoopStepChoice, LoopStepPassed, LoopStepBest DEF LoopInv

(* What happens around the loop leaves its locals alone. *)
LEMMA KeptLoopInv ==
    ASSUME LoopInv, options' = options, loop' = loop, verified' = verified,
           altered' \subseteq Accepted, aborted' \in BOOLEAN, cutOff' \in BOOLEAN,
           faults' \in 0..MaxFaults
    PROVE  LoopInv'
<1>1. LoopTypeOK'
  BY SameOutcomes DEF LoopInv, LoopTypeOK
<1>2. Choice' /\ Room' /\ PickIsBest'
  BY SameOutcomes DEF LoopInv, Choice, Room, PickIsBest, Total
<1>3. Passed'
  BY DEF LoopInv, Passed, Patch
<1> QED BY <1>1, <1>2, <1>3 DEF LoopInv

LEMMA FaultsBounded == ASSUME LoopTypeOK, CallFails PROVE faults' \in 0..MaxFaults
  BY Bounds DEF LoopTypeOK, CallFails

LEMMA ThrowInv == ASSUME LoopInv, LoopThrows PROVE LoopInv'
<1>r. loop \in LoopRecord
  BY DEF LoopInv, LoopTypeOK, LoopRecord
<1>f. faults' \in 0..MaxFaults
  BY FaultsBounded DEF LoopThrows, LoopInv
<1>1. /\ loop' \in LoopRecord /\ loop'.pc = "threw" /\ loop'.outcomes = loop.outcomes
      /\ loop'.pick = loop.pick /\ loop'.round = loop.round /\ loop'.base = loop.base
      /\ loop'.passed = loop.passed /\ loop'.reverified = loop.reverified
  BY <1>r DEF LoopThrows, LoopRecord, LoopPcs
<1>2. LoopTypeOK'
  BY <1>1, <1>f, SameOutcomes DEF LoopThrows, LoopInv, LoopTypeOK, LoopRecord
<1>3. Choice' /\ Room' /\ PickIsBest'
  BY <1>1, SameOutcomes DEF LoopThrows, LoopInv, Choice, Room, PickIsBest, Total
<1>4. Passed'
  BY <1>1 DEF LoopThrows, LoopInv, Passed, Patch
<1> QED BY <1>2, <1>3, <1>4 DEF LoopInv

LEMMA AlteredInv == ASSUME LoopInv, PatchAltered PROVE LoopInv'
<1>1. altered' \subseteq Accepted
  BY DEF PatchAltered, LoopInv, LoopTypeOK
<1>2. faults' \in 0..MaxFaults
  BY FaultsBounded DEF PatchAltered, LoopInv
<1> QED BY <1>1, <1>2, KeptLoopInv DEF PatchAltered, LoopInv, LoopTypeOK

LEMMA FreshInv ==
    ASSUME LoopInv, NEW b \in Nat, loop' = Fresh(b), altered' = {},
           UNCHANGED <<options, aborted, faults, verified, cutOff>>
    PROVE  LoopInv'
<1>1. /\ loop' \in LoopRecord /\ loop'.pc = "candidates" /\ loop'.pick = 0
      /\ loop'.round = 1 /\ ~loop'.passed /\ ~loop'.reverified
      /\ Len(loop'.outcomes) = 0
  BY DEF Fresh, LoopRecord, LoopPcs
<1>2. Rounds' = Rounds /\ Len(Rounds) \in Nat
  BY RoundsType DEF LoopInv, LoopTypeOK, Rounds
<1>3. LoopTypeOK'
  BY <1>1, <1>2, Bounds DEF LoopInv, LoopTypeOK, LoopRecord
<1>4. Choice' /\ Room' /\ PickIsBest' /\ Passed'
  BY <1>1 DEF Choice, Room, PickIsBest, Passed
<1> QED BY <1>3, <1>4 DEF LoopInv
-----------------------------------------------------------------------------
(* The command *)

(* The command's own variables. *)
CommandTypeOK ==
    /\ main \in MainPcs /\ issue \in 0..MaxIssues
    /\ branch \in Seq(Commits) /\ published \in Seq(Commits) /\ base = Len(branch)
    /\ records \in Seq([issue : 0..MaxIssues, pr : BOOLEAN, error : BOOLEAN])
    /\ Len(branch) <= issue /\ Len(records) <= issue

CommandInv == CommandTypeOK /\ Position /\ Stack /\ PromotedIsReverified /\ Cut

IInv == LoopInv /\ CommandInv

LEMMA InitInv == Init => IInv
<1> SUFFICES ASSUME Init PROVE IInv
  OBVIOUS
<1>1. LoopInit /\ main = "start" /\ branch = <<>> /\ published = <<>> /\ records = <<>>
      /\ issue = 0 /\ base = 0 /\ cutOff = FALSE
  BY DEF Init, LoopInit
<1>2. loop.pick = 0 /\ loop.pc = "idle" /\ ~loop.passed /\ ~loop.reverified
  BY <1>1 DEF LoopInit, Fresh
<1>3. LoopInv
  BY <1>1, <1>2, InitLoop DEF LoopInv, Choice, Room, Passed, PickIsBest
<1>4. CommandInv
  BY <1>1, Bounds DEF CommandInv, CommandTypeOK, MainPcs, Position, Stack,
                      PromotedIsReverified, Cut
<1> QED BY <1>3, <1>4 DEF IInv

(* The command moves on, and leaves branch, drafts and records as they are. *)
LEMMA QuietInv ==
    ASSUME IInv, LoopInv', main' \in MainPcs, options' = options,
           verified \subseteq verified',
           UNCHANGED <<issue, base, branch, published, records>>,
           Position', Stack', Cut'
    PROVE  IInv'
  BY DEF IInv, CommandInv, CommandTypeOK, PromotedIsReverified
LEMMA ImproveInv == ASSUME IInv, Improve PROVE IInv'
<1>1. LoopInv'
  BY LoopStepInv, ThrowInv, AlteredInv DEF Improve, IInv
<1>2. /\ main = "loop" /\ main' = main /\ options' = options
      /\ UNCHANGED <<issue, base, branch, published, records>>
  BY DEF Improve, orchestrateVars, LoopStep, StartCandidate, BudgetExhausted, EndCandidate,
         EndRound, Select, JudgeAnswers, Verify, EndReverify, Reviewed, Report,
         LoopThrows, PatchAltered
<1>r. loop \in LoopRecord
  BY DEF IInv, LoopInv, LoopTypeOK, LoopRecord
<1>3. loop'.base = loop.base
  BY <1>r DEF Improve, LoopStep, StartCandidate, BudgetExhausted, EndCandidate, EndRound,
         Select, JudgeAnswers, Verify, EndReverify, Reviewed, Report, LoopThrows,
         PatchAltered, LoopRecord
<1>4. verified \subseteq verified'
  BY DEF Improve, LoopStep, StartCandidate, BudgetExhausted, EndCandidate, EndRound,
         Select, JudgeAnswers, Verify, EndReverify, Reviewed, Report, LoopThrows,
         PatchAltered
<1>5. Position'
  BY <1>2, <1>3 DEF IInv, CommandInv, Position
<1>6. Stack'
  BY <1>2 DEF IInv, CommandInv, Stack
<1>7. Cut'
  <2> SUFFICES ASSUME cutOff' PROVE /\ aborted' /\ loop'.pc # "reverify"
                                    /\ ~(loop'.passed /\ loop'.reverified)
    BY DEF Cut
  <2>1. cutOff /\ aborted /\ aborted' = aborted
    BY DEF Improve, LoopStep, StartCandidate, BudgetExhausted, EndCandidate, EndRound,
           Select, JudgeAnswers, Verify, EndReverify, Reviewed, Report, LoopThrows,
           PatchAltered, IInv, CommandInv, Cut
  <2>2. loop.pc # "reverify" /\ ~(loop.passed /\ loop.reverified)
    BY <2>1 DEF IInv, CommandInv, Cut
  <2>3. loop'.pc # "reverify" /\ ~(loop'.passed /\ loop'.reverified)
    <3>1. CASE Verify
      BY <1>r, <2>1, <3>1 DEF Verify, LoopRecord, IInv, LoopInv, Passed
    <3>2. CASE Select
      BY <1>r, <2>2, <3>2 DEF Select, LoopRecord
    <3>3. CASE StartCandidate \/ BudgetExhausted \/ EndCandidate \/ EndRound \/ JudgeAnswers
      BY <1>r, <2>2, <3>3 DEF StartCandidate, BudgetExhausted, EndCandidate, EndRound,
                             JudgeAnswers, LoopRecord
    <3>4. CASE EndReverify \/ Reviewed \/ Report \/ LoopThrows \/ PatchAltered
      BY <1>r, <2>2, <3>4 DEF EndReverify, Reviewed, Report, LoopThrows, PatchAltered,
                             LoopRecord
    <3> QED BY <3>1, <3>2, <3>3, <3>4 DEF Improve, LoopStep
  <2> QED BY <2>1, <2>3
<1> QED BY <1>1, <1>2, <1>4, <1>5, <1>6, <1>7, QuietInv DEF IInv, CommandInv, CommandTypeOK

(* The steps in which the loop rests. *)
LEMMA RestInv ==
    ASSUME IInv, UNCHANGED <<options, loop, altered, verified>>,
           aborted' \in BOOLEAN, cutOff' \in BOOLEAN, faults' \in 0..MaxFaults
    PROVE  LoopInv'
  BY KeptLoopInv DEF IInv, LoopInv, LoopTypeOK

LEMMA CheckoutInv == ASSUME IInv, Checkout PROVE IInv'
<1>1. faults' \in 0..MaxFaults
  BY FaultsBounded DEF Checkout, IInv, LoopInv, LoopTypeOK
<1>2. LoopInv'
  BY <1>1, RestInv DEF Checkout, IInv, LoopInv, LoopTypeOK
<1>3. Position' /\ Stack' /\ Cut'
  BY DEF Checkout, IInv, CommandInv, Position, Stack, Cut
<1> QED BY <1>2, <1>3, QuietInv DEF Checkout, MainPcs

LEMMA TakeIssueInv == ASSUME IInv, TakeIssue PROVE IInv'
<1>t. /\ base \in Nat /\ base = Len(branch) /\ Len(branch) <= issue /\ Len(records) <= issue
      /\ Len(records) \in Nat /\ issue \in Nat
  BY Bounds DEF IInv, CommandInv, CommandTypeOK
<1>1. LoopInv'
  BY <1>t, FreshInv DEF TakeIssue, IInv
<1>2. CommandTypeOK'
  BY <1>t, Bounds DEF TakeIssue, IInv, CommandInv, CommandTypeOK, MainPcs
<1>3. Position'
  BY <1>t DEF TakeIssue, Position, Fresh
<1>4. Stack' /\ PromotedIsReverified' /\ Cut'
  BY DEF TakeIssue, IInv, CommandInv, Stack, PromotedIsReverified, Cut, Fresh
<1> QED BY <1>1, <1>2, <1>3, <1>4 DEF IInv, CommandInv

LEMMA EndInv == ASSUME IInv, NoMoreIssues \/ Kill PROVE IInv'
<1>1. LoopInv'
  BY RestInv DEF NoMoreIssues, Kill, loopVars, IInv, LoopInv, LoopTypeOK
<1>2. Position' /\ Stack' /\ Cut'
  BY DEF NoMoreIssues, Kill, loopVars, IInv, CommandInv, Position, Stack, Cut
<1> QED BY <1>1, <1>2, QuietInv DEF NoMoreIssues, Kill, loopVars, MainPcs

LEMMA InterruptInv == ASSUME IInv, Interrupt PROVE IInv'
<1>1. LoopInv'
  BY RestInv DEF Interrupt, Abort, IInv, LoopInv, LoopTypeOK, EarlyPcs
<1>2. Position' /\ Stack'
  BY DEF Interrupt, Abort, orchestrateVars, IInv, CommandInv, Position, Stack, Commit, Patch
<1>3. Cut'
  BY DEF Interrupt, Abort, IInv, LoopInv, Passed, Cut, EarlyPcs
<1> QED BY <1>1, <1>2, <1>3, QuietInv
        DEF Interrupt, Abort, orchestrateVars, IInv, CommandInv, CommandTypeOK
LEMMA LoopEndsInv == ASSUME IInv, LoopEnds PROVE IInv'
<1>1. LoopInv'
  BY RestInv DEF LoopEnds, loopVars, IInv, LoopInv, LoopTypeOK
<1>2. /\ Len(records) < issue /\ issue \in 0..MaxIssues /\ Len(branch) < issue
      /\ records \in Seq([issue : 0..MaxIssues, pr : BOOLEAN, error : BOOLEAN])
      /\ loop.base = Len(branch)
  BY DEF LoopEnds, IInv, CommandInv, CommandTypeOK, Position
<1>3. PrCandidate \in BOOLEAN
  BY DEF PrCandidate, IInv, LoopInv, LoopTypeOK
<1>4. CASE records' = records /\ main' \in {"catch", "commit"}
  <2>1. main' = "commit" => /\ loop.pc = "returned" /\ loop.passed /\ loop.reverified
                            /\ options.promoteBranch
    BY <1>4 DEF LoopEnds, PrCandidate, Selected, Continue, Record
  <2>2. Position' /\ Stack' /\ Cut'
    BY <1>2, <1>4, <2>1 DEF LoopEnds, loopVars, IInv, CommandInv, Position, Stack, Cut
  <2> QED BY <1>1, <1>4, <2>2, QuietInv DEF LoopEnds, loopVars, MainPcs
<1>5. CASE Record(PrCandidate, FALSE) /\ Continue(FALSE)
  <2>1. /\ records' \in Seq([issue : 0..MaxIssues, pr : BOOLEAN, error : BOOLEAN])
        /\ Len(records') = Len(records) + 1
    BY <1>2, <1>3, <1>5 DEF Record
  <2>2. main' \in {"done", "issue"}
    BY <1>5 DEF Continue
  <2>3. CommandTypeOK'
    BY <1>2, <2>1, <2>2 DEF LoopEnds, IInv, CommandInv, CommandTypeOK, MainPcs
  <2>4. Position' /\ Stack' /\ Cut' /\ PromotedIsReverified'
    BY <2>2 DEF LoopEnds, loopVars, IInv, CommandInv, Position, Stack, Cut,
                PromotedIsReverified
  <2> QED BY <1>1, <2>3, <2>4 DEF IInv, CommandInv
<1> QED BY <1>4, <1>5 DEF LoopEnds

(* While it is promoted, the selected candidate is the pick that passed. *)
LEMMA SelectedPatch ==
    ASSUME IInv, main \in {"commit", "publish"}, Selected \notin altered
    PROVE  /\ PatchFile = Patch(loop.pick) /\ PatchFile \in Patches
           /\ Commit(PatchFile) \in Commits
<1>1. loop.passed /\ Selected = loop.pick /\ loop.pick # 0
  BY DEF IInv, LoopInv, CommandInv, Position, Passed, Selected
<1>2. PatchFile = Patch(loop.pick) /\ PatchFile \in Patches
  BY <1>1, AcceptedPatch DEF PatchFile, IInv, LoopInv, Choice
<1> QED BY <1>2 DEF Commit, Commits, IInv, CommandInv, CommandTypeOK

LEMMA CommitInv == ASSUME IInv, CommitPatch PROVE IInv'
<1>1. LoopInv'
  BY RestInv DEF CommitPatch, loopVars, IInv, LoopInv, LoopTypeOK
<1>p. PatchFile = Patch(loop.pick) /\ Commit(PatchFile) \in Commits
  BY SelectedPatch DEF CommitPatch
<1>2. /\ Len(records) < issue /\ issue \in 0..MaxIssues /\ Len(branch) < issue
      /\ records \in Seq([issue : 0..MaxIssues, pr : BOOLEAN, error : BOOLEAN])
      /\ branch \in Seq(Commits) /\ loop.base = Len(branch)
      /\ [patch |-> Patch(loop.pick), base |-> loop.base] \in verified
      /\ options.promoteBranch /\ loop.pc = "returned" /\ loop.passed /\ loop.reverified
  BY DEF CommitPatch, IInv, LoopInv, Passed, CommandInv, CommandTypeOK, Position
<1>3. /\ branch' \in Seq(Commits) /\ Len(branch') = Len(branch) + 1
      /\ branch' = Append(branch, Commit(PatchFile)) /\ base' = Len(branch')
      /\ branch'[Len(branch) + 1] = Commit(PatchFile)
      /\ \A k \in 1..Len(branch) : branch'[k] = branch[k]
  BY <1>p, <1>2 DEF CommitPatch
<1>4. \/ main' = "publish" /\ records' = records /\ options.githubDraftPr
      \/ main' = "issue" /\ Record(TRUE, FALSE) /\ ~options.githubDraftPr
  BY DEF CommitPatch, Continue
<1>5. CommandTypeOK' /\ Position'
  <2>1. CASE main' = "publish" /\ records' = records
    BY <1>2, <1>3, <2>1 DEF CommitPatch, loopVars, IInv, CommandInv, CommandTypeOK, MainPcs,
                            Position
  <2>2. CASE main' = "issue" /\ Record(TRUE, FALSE)
    <3>1. /\ records' \in Seq([issue : 0..MaxIssues, pr : BOOLEAN, error : BOOLEAN])
          /\ Len(records') = Len(records) + 1
      BY <1>2, <2>2 DEF Record
    <3> QED BY <1>2, <1>3, <2>2, <3>1
            DEF CommitPatch, loopVars, IInv, CommandInv, CommandTypeOK, MainPcs, Position
  <2> QED BY <1>4, <2>1, <2>2
<1>6. PromotedIsReverified'
  <2> SUFFICES ASSUME NEW k \in DOMAIN branch'
               PROVE  [patch |-> branch'[k].patch, base |-> k - 1] \in verified
    BY DEF PromotedIsReverified, CommitPatch, loopVars
  <2>1. k \in 1..(Len(branch) + 1)
    BY <1>3
  <2>2. CASE k \in 1..Len(branch)
    BY <1>2, <1>3, <2>2 DEF IInv, CommandInv, PromotedIsReverified
  <2>3. CASE k = Len(branch) + 1
    BY <1>p, <1>2, <1>3, <2>3 DEF Commit
  <2> QED BY <1>2, <2>1, <2>2, <2>3
<1>7. Stack'
  <2> SUFFICES ASSUME options.githubDraftPr
               PROVE  branch' = Append(published', Commit(Patch(loop.pick)))
                      /\ main' = "publish"
    BY <1>p DEF Stack, CommitPatch, loopVars, Commit, Patch, Commits
  <2> QED BY <1>p, <1>3, <1>4 DEF CommitPatch, IInv, CommandInv, Stack
<1>8. Cut'
  BY DEF CommitPatch, loopVars, IInv, CommandInv, Cut
<1> QED BY <1>1, <1>5, <1>6, <1>7, <1>8 DEF IInv, CommandInv

LEMMA PublishInv == ASSUME IInv, Publish PROVE IInv'
<1>1. LoopInv'
  BY RestInv DEF Publish, loopVars, IInv, LoopInv, LoopTypeOK
<1>p. PatchFile = Patch(loop.pick) /\ Commit(PatchFile) \in Commits
  BY SelectedPatch DEF Publish
<1>2. /\ Len(records) < issue /\ issue \in 0..MaxIssues /\ published \in Seq(Commits)
      /\ records \in Seq([issue : 0..MaxIssues, pr : BOOLEAN, error : BOOLEAN])
  BY DEF Publish, IInv, CommandInv, CommandTypeOK, Position
<1>3. /\ records' \in Seq([issue : 0..MaxIssues, pr : BOOLEAN, error : BOOLEAN])
      /\ Len(records') = Len(records) + 1
  BY <1>2 DEF Publish, Record
<1>4. main' = "issue" /\ published' \in Seq(Commits)
  BY <1>p, <1>2 DEF Publish, Continue
<1>5. CommandTypeOK' /\ Position'
  BY <1>2, <1>3, <1>4 DEF Publish, IInv, CommandInv, CommandTypeOK, MainPcs, Position
<1>6. PromotedIsReverified' /\ Cut'
  BY DEF Publish, loopVars, IInv, CommandInv, PromotedIsReverified, Cut
<1>7. Stack'
  BY <1>p, <1>4 DEF Publish, loopVars, IInv, CommandInv, Stack
<1> QED BY <1>1, <1>5, <1>6, <1>7 DEF IInv, CommandInv

LEMMA PromotionThrowsInv == ASSUME IInv, PromotionThrows PROVE IInv'
<1>1. faults' \in 0..MaxFaults
  BY FaultsBounded DEF PromotionThrows, IInv, LoopInv, LoopTypeOK
<1>2. LoopInv'
  BY <1>1, RestInv DEF PromotionThrows, IInv, LoopInv, LoopTypeOK
<1>3. Position' /\ Stack' /\ Cut'
  BY DEF PromotionThrows, IInv, CommandInv, Position, Stack, Cut
<1> QED BY <1>2, <1>3, QuietInv DEF PromotionThrows, MainPcs

LEMMA CatchInv == ASSUME IInv, CatchIssue PROVE IInv'
<1>1. LoopInv'
  BY RestInv DEF CatchIssue, loopVars, IInv, LoopInv, LoopTypeOK
<1>2. /\ Len(records) < issue /\ issue \in 0..MaxIssues /\ options \in Options
      /\ records \in Seq([issue : 0..MaxIssues, pr : BOOLEAN, error : BOOLEAN])
  BY DEF CatchIssue, IInv, LoopInv, LoopTypeOK, CommandInv, CommandTypeOK, Position
<1>3. /\ records' \in Seq([issue : 0..MaxIssues, pr : BOOLEAN, error : BOOLEAN])
      /\ Len(records') = Len(records) + 1
  BY <1>2 DEF CatchIssue, Record
<1>4. main' \in {"done", "issue"} /\ (options.githubDraftPr => main' = "done")
  BY <1>2, DraftsPromote DEF CatchIssue, Continue
<1>5. CommandTypeOK' /\ Position'
  BY <1>2, <1>3, <1>4 DEF CatchIssue, IInv, CommandInv, CommandTypeOK, MainPcs, Position
<1>6. PromotedIsReverified' /\ Cut' /\ Stack'
  BY <1>4 DEF CatchIssue, loopVars, IInv, CommandInv, PromotedIsReverified, Cut, Stack
<1> QED BY <1>1, <1>5, <1>6 DEF IInv, CommandInv
-----------------------------------------------------------------------------
(* The theorems *)

LEMMA StutterInv == ASSUME IInv, UNCHANGED vars PROVE IInv'
<1>1. LoopInv'
  BY RestInv DEF vars, loopVars, IInv, LoopInv, LoopTypeOK
<1>2. Position' /\ Stack' /\ Cut'
  BY DEF vars, loopVars, orchestrateVars, IInv, CommandInv, Position, Stack, Cut, Commit, Patch
<1> QED BY <1>1, <1>2, QuietInv
        DEF vars, loopVars, orchestrateVars, IInv, CommandInv, CommandTypeOK

LEMMA NextInv == ASSUME IInv, [Next]_vars PROVE IInv'
  BY CheckoutInv, TakeIssueInv, EndInv, ImproveInv, LoopEndsInv, CommitInv, PublishInv,
     PromotionThrowsInv, CatchInv, InterruptInv, StutterInv DEF Next

LEMMA Invariant == Spec => []IInv
  BY InitInv, NextInv, PTL DEF Spec

(* Every variable keeps its type, and no loop runs past its rounds or the cap. *)
THEOREM OrchestrateTypeCorrect == Spec => []TypeOK
<1>1. IInv => TypeOK
  BY DEF IInv, LoopInv, CommandInv, CommandTypeOK, TypeOK
<1> QED BY <1>1, Invariant, PTL

(* Every commit on the promotion branch is a patch a fresh kernel run accepted *)
(* on the commit below it.                                                     *)
THEOREM CommitsAreReverified == Spec => []PromotedIsReverified
<1>1. IInv => PromotedIsReverified
  BY DEF IInv, CommandInv
<1> QED BY <1>1, Invariant, PTL

(* No failed candidate, judge or group of equal patches displaces a better one. *)
THEOREM BestIsPicked == Spec => []PickIsBest
<1>1. IInv => PickIsBest
  BY DEF IInv, LoopInv
<1> QED BY <1>1, Invariant, PTL

(* The drafts are the commits of the branch, in order, but perhaps the last. *)
THEOREM DraftsFollowBranch == Spec => []StackFollowsBranch
<1>1. ASSUME IInv PROVE StackFollowsBranch
  <2> SUFFICES ASSUME options.githubDraftPr
               PROVE  /\ Len(branch) - Len(published) \in {0, 1}
                      /\ published = SubSeq(branch, 1, Len(published))
    BY DEF StackFollowsBranch
  <2>1. published \in Seq(Commits) /\ branch \in Seq(Commits)
    BY <1>1 DEF IInv, CommandInv, CommandTypeOK
  <2>2. CASE published = branch
    BY <2>1, <2>2
  <2>3. ASSUME NEW c \in Commits, branch = Append(published, c)
        PROVE  /\ Len(branch) - Len(published) \in {0, 1}
               /\ published = SubSeq(branch, 1, Len(published))
    BY <2>1, <2>3
  <2> QED BY <1>1, <2>2, <2>3 DEF IInv, CommandInv, Stack
<1> QED BY <1>1, Invariant, PTL

(* After an interrupt that comes before the fresh run, nothing is promoted. *)
THEOREM InterruptStopsPromotion == Spec => InterruptedPromotesNothing
<1>1. ASSUME IInv, [Next]_vars, cutOff PROVE UNCHANGED <<branch, published>>
  <2>1. main \notin {"commit", "publish"}
    BY <1>1 DEF IInv, CommandInv, Position, Cut
  <2> QED BY <1>1, <2>1 DEF Next, vars, orchestrateVars, Checkout, TakeIssue, NoMoreIssues,
          Improve, LoopEnds, CommitPatch, Publish, PromotionThrows, CatchIssue, Interrupt, Kill
<1>2. IInv /\ [Next]_vars => [cutOff => UNCHANGED <<branch, published>>]_vars
  BY <1>1
<1> QED BY <1>2, Invariant, PTL DEF Spec, InterruptedPromotesNothing
-----------------------------------------------------------------------------
(* The report of the command *)

(* An issue that waits for its draft has its commit. *)
Landed == main = "publish" => \E c \in DOMAIN branch : branch[c].issue = issue

LEMMA LandedCommit ==
    ASSUME IInv, CommitPatch
    PROVE  \E c \in DOMAIN branch' : branch'[c].issue = issue
<1>1. branch \in Seq(Commits) /\ Len(branch) \in Nat
  BY DEF IInv, CommandInv, CommandTypeOK
<1>2. Commit(PatchFile) \in Commits
  BY SelectedPatch DEF CommitPatch
<1>3. /\ Len(branch) + 1 \in DOMAIN branch'
      /\ branch'[Len(branch) + 1] = Commit(PatchFile)
  BY <1>1, <1>2 DEF CommitPatch
<1> QED BY <1>3 DEF Commit

LEMMA LandedStep == ASSUME IInv, Landed, [Next]_vars PROVE Landed'
<1>1. CASE CommitPatch
  <2>1. issue' = issue
    BY <1>1 DEF CommitPatch
  <2> QED BY <1>1, <2>1, LandedCommit DEF Landed
<1>2. CASE UNCHANGED <<issue, branch>> /\ (main' = main \/ main' # "publish")
  BY <1>2 DEF Landed
<1>3. CASE TakeIssue
  BY <1>3 DEF TakeIssue, Landed
<1> QED BY <1>1, <1>2, <1>3
        DEF Next, vars, orchestrateVars, Checkout, NoMoreIssues, Improve, LoopEnds, Publish,
            PromotionThrows, CatchIssue, Interrupt, Kill, Continue, Record

(* What a step adds to the records is the last of them. *)
LEMMA NewRecord ==
    ASSUME IInv, NEW pr, NEW error, Record(pr, error), NEW k \in DOMAIN records' \ DOMAIN records
    PROVE  records'[k].pr = pr
<1>1. records \in Seq([issue : 0..MaxIssues, pr : BOOLEAN, error : BOOLEAN])
      /\ Len(records) \in Nat
  BY DEF IInv, CommandInv, CommandTypeOK
<1>2. DOMAIN records' = 1..Len(records) + 1 /\ DOMAIN records = 1..Len(records)
  BY <1>1 DEF Record
<1>3. k = Len(records) + 1
  BY <1>1, <1>2
<1> QED BY <1>1, <1>3 DEF Record

(* A loop that returned a PR candidate passed a fresh run with its pick. *)
LEMMA CandidatePassed ==
    ASSUME IInv, loop.passed, loop.reverified
    PROVE  [patch |-> Patch(Selected), base |-> loop.base] \in verified
<1>1. loop.pick # 0 /\ [patch |-> Patch(loop.pick), base |-> loop.base] \in verified
  BY DEF IInv, LoopInv, Passed
<1> QED BY <1>1 DEF Selected

(* The final report names an issue a PR candidate only when a fresh run    *)
(* accepted its patch on the base of its loop and, in a command that       *)
(* promotes, the branch holds its commit.                                  *)
THEOREM ReportsAreEarned == Spec => ReportIsEarned
<1> DEFINE Earned ==
             /\ [patch |-> Patch(Selected), base |-> loop.base] \in verified
             /\ options.promoteBranch => \E c \in DOMAIN branch' : branch'[c].issue = issue
           A == \A k \in DOMAIN records' \ DOMAIN records : records'[k].pr => Earned
<1>1. ASSUME IInv, Landed, [Next]_vars PROVE A
  <2> SUFFICES ASSUME NEW k \in DOMAIN records' \ DOMAIN records, records'[k].pr
               PROVE  Earned
    OBVIOUS
  <2>1. CASE LoopEnds
    <3>1. Record(PrCandidate, FALSE) /\ ~(options.promoteBranch /\ PrCandidate)
      BY <2>1 DEF LoopEnds
    <3>2. CASE PrCandidate = FALSE
      <4>1. Record(FALSE, FALSE)
        BY <3>1, <3>2
      <4>2. records'[k].pr = FALSE
        BY <1>1, <4>1, NewRecord
      <4> QED BY <4>2
    <3>3. PrCandidate \in BOOLEAN
      BY <1>1 DEF PrCandidate, IInv, LoopInv, LoopTypeOK
    <3> QED BY <1>1, <3>1, <3>2, <3>3, CandidatePassed DEF PrCandidate, Selected
  <2>2. CASE CommitPatch
    <3>1. [patch |-> Patch(Selected), base |-> loop.base] \in verified
      BY <1>1, <2>2, CandidatePassed DEF CommitPatch, IInv, CommandInv, Position
    <3> QED BY <1>1, <2>2, <3>1, LandedCommit
  <2>3. CASE Publish
    <3>1. [patch |-> Patch(Selected), base |-> loop.base] \in verified
      BY <1>1, <2>3, CandidatePassed DEF Publish, IInv, CommandInv, Position
    <3> QED BY <1>1, <2>3, <3>1 DEF Publish, Landed
  <2>4. CASE CatchIssue
    BY <1>1, <2>4, NewRecord DEF CatchIssue
  <2>5. CASE UNCHANGED records
    BY <2>5
  <2> QED
    BY <1>1, <2>1, <2>2, <2>3, <2>4, <2>5
       DEF Next, vars, orchestrateVars, Checkout, TakeIssue, NoMoreIssues, Improve,
           PromotionThrows, Interrupt, Kill
<1>2. Init => Landed
  BY DEF Init, Landed
<1>3. IInv /\ Landed /\ [Next]_vars => Landed' /\ [A]_vars
  BY <1>1, LandedStep
<1>4. Spec => [][A]_vars
  BY <1>2, <1>3, Invariant, PTL DEF Spec
<1> QED BY <1>4 DEF ReportIsEarned
=============================================================================
