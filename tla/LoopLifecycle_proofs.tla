----------------------- MODULE LoopLifecycle_proofs -----------------------
(***************************************************************************)
(* What the abstract loop lifecycle guarantees for every set of loops and  *)
(* of tasks.  LoopScheduler refines it (FollowsLifecycle), so it inherits  *)
(* both theorems in the runs without stop and cancel.                      *)
(***************************************************************************)
EXTENDS LoopLifecycle, TLAPS

(* The three functions have the loops as their domain. *)
Shape ==
    /\ DOMAIN task = Loops
    /\ DOMAIN status = Loops
    /\ DOMAIN pr = Loops

(* A pull request that is being created belongs to a loop whose status no    *)
(* action changes any more, which is why PrIsEarned survives later steps.    *)
IInv == Shape /\ OneActiveLoopPerTask /\ PrIsEarned

LEMMA InitInv == Init => IInv
  BY DEF Init, IInv, Shape, OneActiveLoopPerTask, PrIsEarned, Active, Driven

(* An active loop may move to any status: this makes no other loop active,   *)
(* and no loop that has a pull request is active.                            *)
LEMMA MoveActive ==
    ASSUME IInv, NEW l \in Loops, NEW from \in SUBSET Active, NEW to, Move(l, from, to)
    PROVE  IInv'
<1>1. Shape'
  BY DEF IInv, Shape, Move
<1>2. OneActiveLoopPerTask'
  BY DEF IInv, Shape, Move, OneActiveLoopPerTask
<1>3. PrIsEarned'
  BY DEF IInv, Shape, Move, PrIsEarned, Active, Driven
<1> QED BY <1>1, <1>2, <1>3 DEF IInv

LEMMA CreateInv ==
    ASSUME IInv, NEW l \in Loops, NEW c \in Tasks, Create(l, c)
    PROVE  IInv'
<1>1. Shape'
  BY DEF IInv, Shape, Create
<1>2. OneActiveLoopPerTask'
  <2> SUFFICES ASSUME NEW j \in Loops, NEW k \in Loops, j # k,
                      status'[j] \in Active, status'[k] \in Active
               PROVE  task'[j] # task'[k]
    BY DEF OneActiveLoopPerTask
  <2>1. CASE j = l
    BY <2>1 DEF IInv, Shape, Create, ActiveOf
  <2>2. CASE k = l
    BY <2>2 DEF IInv, Shape, Create, ActiveOf
  <2>3. CASE j # l /\ k # l
    BY <2>3 DEF IInv, Shape, Create, OneActiveLoopPerTask
  <2> QED BY <2>1, <2>2, <2>3
<1>3. PrIsEarned'
  BY DEF IInv, Shape, Create, PrIsEarned
<1> QED BY <1>1, <1>2, <1>3 DEF IInv

LEMMA PullRequestInv ==
    ASSUME IInv, NEW l \in Loops, OpenPr(l) \/ ClosePr(l)
    PROVE  IInv'
<1>1. Shape'
  BY DEF IInv, Shape, OpenPr, ClosePr
<1>2. OneActiveLoopPerTask'
  BY DEF IInv, OneActiveLoopPerTask, OpenPr, ClosePr
<1>3. PrIsEarned'
  BY DEF IInv, Shape, PrIsEarned, OpenPr, ClosePr
<1> QED BY <1>1, <1>2, <1>3 DEF IInv

LEMMA NextInv == IInv /\ [Next]_vars => IInv'
<1> SUFFICES ASSUME IInv, [Next]_vars PROVE IInv'
  OBVIOUS
<1>1. ASSUME NEW l \in Loops, NEW c \in Tasks, Create(l, c) PROVE IInv'
  BY <1>1, CreateInv
<1>2. ASSUME NEW l \in Loops, OpenPr(l) \/ ClosePr(l) PROVE IInv'
  BY <1>2, PullRequestInv
<1>3. ASSUME NEW l \in Loops, Prepare(l) \/ Finish(l) \/ Decide(l) \/ Cancel(l) \/ Fail(l)
      PROVE  IInv'
  <2>1. {"queued"} \in SUBSET Active /\ {"workspace_preparing"} \in SUBSET Active
        /\ {"needs_human_review"} \in SUBSET Active /\ Active \in SUBSET Active
    BY DEF Active, Driven
  <2> QED BY <1>3, <2>1, MoveActive DEF Prepare, Finish, Decide, Cancel, Fail
<1>4. ASSUME UNCHANGED vars PROVE IInv'
  BY <1>4 DEF vars, IInv, Shape, OneActiveLoopPerTask, PrIsEarned
<1> QED BY <1>1, <1>2, <1>3, <1>4 DEF Next, Step

(* However many loops are created for a task, two are never active at once:   *)
(* createLoopIfNoActive is the only way in and no terminal status is left.    *)
THEOREM OneActiveLoop == Spec => []OneActiveLoopPerTask
<1>1. IInv => OneActiveLoopPerTask
  BY DEF IInv
<1> QED BY <1>1, InitInv, NextInv, PTL DEF Spec

(* A pull request always belongs to a loop that is accepted or approved, also *)
(* long after it was opened.                                                  *)
THEOREM PullRequestIsEarned == Spec => []PrIsEarned
<1>1. IInv => PrIsEarned
  BY DEF IInv
<1> QED BY <1>1, InitInv, NextInv, PTL DEF Spec
=============================================================================
