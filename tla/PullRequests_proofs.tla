------------------------ MODULE PullRequests_proofs ------------------------
(***************************************************************************)
(* Theorems about PullRequests, for any number of loops, callers, calls    *)
(* and faults.                                                             *)
(***************************************************************************)
EXTENDS PullRequests, SequenceTheorems, TLAPS

(* A call that works on its row, which it set to 'creating' or inserted. *)
Works(k) ==
    call[k].pc \in {"checkout", "lease", "push", "release", "find", "post", "record", "fail"}

HasRow(k) == Works(k) \/ call[k].pc \in {"claim", "event"}

RowAtHand(k) ==
    /\ Busy(k) => call[k].loop \in Loops
    /\ HasRow(k) => call[k].row \in DOMAIN rows /\ rows[call[k].row].loop = call[k].loop

(* Where the row is 'creating', or will be. *)
CreatingIsWorkedOn ==
    \A i \in DOMAIN rows : rows[i].status = "creating" =>
        i \in stuck \/ \E k \in Callers : Works(k) /\ call[k].row = i

(* How far a call has come at GitHub. *)
Reached(k) ==
    /\ call[k].pc \in {"find", "post", "record", "event"} => remote[call[k].loop] > 0
    /\ call[k].pc = "release" /\ call[k].ok => remote[call[k].loop] > 0
    /\ call[k].pc \in {"record", "event"} => pull[call[k].loop] # "none"

(* What a call that nothing has hindered can count on: it is the only one  *)
(* of its loop, and what it read is still so.                              *)
Lonely(k) ==
    /\ \A j \in Callers \ {k} : Busy(j) => call[j].loop # call[k].loop
    /\ call[k].loop \notin held
    /\ pull[call[k].loop] # "changed"
    /\ call[k].pc # "fail"
    /\ call[k].pc = "insert" => RowsOf(call[k].loop) = {}
    /\ call[k].pc = "claim" => rows[call[k].row].status = "create_failed"
    /\ call[k].pc = "push" => call[k].lease = remote[call[k].loop]
    /\ call[k].ok
    /\ call[k].pc = "post" => pull[call[k].loop] \in {"none", "closed"}

LonelyInv == \A k \in Callers : Busy(k) /\ ~call[k].hindered => Lonely(k)

IInv ==
    /\ TypeOK
    /\ \A k \in Callers : RowAtHand(k)
    /\ CreatingIsWorkedOn
    /\ RecordedDraftExists
    /\ \A k \in Callers : Reached(k)
    /\ LonelyInv
-----------------------------------------------------------------------------
(* What the building blocks of the steps do *)

CallTypes == call \in [Callers -> CallRecord]

Others(k) == \A j \in Callers \ {k} : call'[j] = call[j]

(* The call goes on for its loop and its row. *)
Same(k) ==
    /\ call'[k].loop = call[k].loop
    /\ call'[k].row = call[k].row
    /\ call'[k].lease = call[k].lease

LEMMA GoEffect ==
  ASSUME CallTypes, NEW k \in Callers, NEW pc \in CallPcs, Go(k, pc)
  PROVE  /\ CallTypes' /\ Others(k) /\ Same(k)
         /\ call'[k].pc = pc /\ call'[k].ok = call[k].ok
         /\ call'[k].hindered = call[k].hindered
  BY DEF CallTypes, Go, CallRecord, Others, Same

LEMMA FaultToEffect ==
  ASSUME CallTypes, NEW k \in Callers, NEW pc \in CallPcs, FaultTo(k, pc)
  PROVE  /\ CallTypes' /\ Others(k) /\ Same(k)
         /\ call'[k].pc = pc /\ call'[k].ok = call[k].ok /\ call'[k].hindered
  BY DEF CallTypes, FaultTo, CallRecord, Others, Same

LEMMA AnsweredEffect ==
  ASSUME CallTypes, NEW k \in Callers, call' = [call EXCEPT ![k] = Answered]
  PROVE  CallTypes' /\ Others(k) /\ call'[k].pc = "idle"
  BY DEF CallTypes, Answered, NoCall, CallRecord, CallPcs, Others

LEMMA TakeRowEffect ==
  ASSUME CallTypes, NEW k \in Callers, NEW pc \in CallPcs, NEW i \in Nat,
         call' = [call EXCEPT ![k].pc = pc, ![k].row = i]
  PROVE  /\ CallTypes' /\ Others(k)
         /\ call'[k].pc = pc /\ call'[k].row = i /\ call'[k].loop = call[k].loop
         /\ call'[k].ok = call[k].ok /\ call'[k].hindered = call[k].hindered
  BY DEF CallTypes, CallRecord, Others

LEMMA RefusedEffect ==
  ASSUME CallTypes, NEW k \in Callers,
         call' = [call EXCEPT ![k].pc = "release", ![k].ok = FALSE]
  PROVE  /\ CallTypes' /\ Others(k) /\ Same(k)
         /\ call'[k].pc = "release" /\ ~call'[k].ok /\ call'[k].hindered = call[k].hindered
  BY ZenonT(30) DEF CallTypes, CallRecord, CallPcs, Others, Same

LEMMA BranchThrowsEffect ==
  ASSUME CallTypes, NEW k \in Callers, BranchThrows(k)
  PROVE  /\ CallTypes' /\ Others(k) /\ Same(k)
         /\ call'[k].pc = "release" /\ ~call'[k].ok /\ call'[k].hindered
  BY DEF BranchThrows, CallTypes, CallRecord, CallPcs, Others, Same

LEMMA SetRowEffect ==
  ASSUME rows \in Seq(RowRecord), NEW k \in Callers, call[k].row \in DOMAIN rows,
         NEW status \in RowStatuses, SetRow(k, status)
  PROVE  /\ rows' \in Seq(RowRecord) /\ DOMAIN rows' = DOMAIN rows
         /\ \A i \in DOMAIN rows : i # call[k].row => rows'[i] = rows[i]
         /\ rows'[call[k].row].loop = rows[call[k].row].loop
         /\ rows'[call[k].row].status = status
<1> DEFINE n == call[k].row
<1>1. rows' = [rows EXCEPT ![n] = [rows[n] EXCEPT !.status = status]]
  BY DEF SetRow
<1>2. rows[n] \in RowRecord
  OBVIOUS
<1>3. [rows[n] EXCEPT !.status = status] \in RowRecord
  BY <1>2 DEF RowRecord
<1> QED
  BY <1>1, <1>2, <1>3 DEF RowRecord

LEMMA InsertEffect ==
  ASSUME rows \in Seq(RowRecord), NEW l \in Loops,
         rows' = Append(rows, [loop |-> l, status |-> "creating"])
  PROVE  /\ rows' \in Seq(RowRecord) /\ Len(rows) \in Nat
         /\ DOMAIN rows' = DOMAIN rows \union {Len(rows) + 1}
         /\ \A i \in DOMAIN rows : rows'[i] = rows[i]
         /\ Len(rows) + 1 \notin DOMAIN rows
         /\ rows'[Len(rows) + 1].loop = l /\ rows'[Len(rows) + 1].status = "creating"
<1> DEFINE new == [loop |-> l, status |-> "creating"]
<1>1. new \in RowRecord /\ new.loop = l /\ new.status = "creating"
  BY DEF RowRecord, RowStatuses
<1>2. rows' = Append(rows, new)
  OBVIOUS
<1> HIDE DEF new
<1> QED
  BY <1>1, <1>2
-----------------------------------------------------------------------------
(* What every step of a call keeps *)

(* The step of k touches nothing but its own call and what belongs to its  *)
(* loop; rows stay with their loop, GitHub does not forget.                *)
Local(k) ==
    /\ Others(k)
    /\ call'[k].pc # "idle" =>
          /\ call'[k].loop = call[k].loop
          /\ call[k].hindered => call'[k].hindered
    /\ DOMAIN rows \subseteq DOMAIN rows'
    /\ \A i \in DOMAIN rows : rows'[i].loop = rows[i].loop
    /\ \A i \in DOMAIN rows : rows[i].loop # call[k].loop => rows'[i] = rows[i]
    /\ \A i \in DOMAIN rows' \ DOMAIN rows : rows'[i].loop = call[k].loop
    /\ \A l \in Loops :
          /\ remote[l] > 0 => remote'[l] > 0
          /\ pull[l] # "none" => pull'[l] # "none"
          /\ l # call[k].loop =>
                remote'[l] = remote[l] /\ pull'[l] = pull[l] /\ (l \in held' => l \in held)
    /\ stuck \subseteq stuck'

LEMMA LocalKeeps ==
  ASSUME IInv, NEW k \in Callers, Busy(k), Local(k),
         RowAtHand(k)', Reached(k)', Busy(k)' /\ ~call'[k].hindered => Lonely(k)',
         CallTypes'
  PROVE  /\ \A j \in Callers : RowAtHand(j)'
         /\ \A j \in Callers : Reached(j)'
         /\ LonelyInv'
<1>1. \A j \in Callers : RowAtHand(j)'
  BY DEF IInv, Local, Others, RowAtHand, HasRow, Works, Busy
<1>2. \A j \in Callers : Reached(j)'
  BY DEF IInv, Local, Others, Reached, RowAtHand, Busy
<1>3. ASSUME NEW j \in Callers \ {k}, Busy(j)', ~call'[j].hindered
      PROVE  Lonely(j)'
  <2>1. call'[j] = call[j] /\ Busy(j) /\ Lonely(j) /\ RowAtHand(j) /\ call[j].loop \in Loops
    BY <1>3 DEF Local, Others, Busy, IInv, LonelyInv, RowAtHand
  <2>2. call[j].loop # call[k].loop
    BY <2>1 DEF Lonely
  <2>3. \A i \in Callers \ {j} : Busy(i)' => call'[i].loop # call'[j].loop
    BY <2>1, <2>2 DEF Lonely, Local, Others, Busy
  <2>4. RowsOf(call[j].loop) = {} => RowsOf(call[j].loop)' = {}
    BY <2>1, <2>2 DEF RowsOf, Local
  <2>5. call[j].pc = "claim" => rows'[call[j].row] = rows[call[j].row]
    BY <2>1, <2>2 DEF RowAtHand, HasRow, Local
  <2>6. /\ remote'[call[j].loop] = remote[call[j].loop] /\ pull'[call[j].loop] = pull[call[j].loop]
        /\ call[j].loop \notin held'
    BY <2>1, <2>2 DEF Local, Lonely
  <2> QED
    BY <2>1, <2>3, <2>4, <2>5, <2>6 DEF Lonely, RowsOf
<1> QED
  BY <1>1, <1>2, <1>3 DEF LonelyInv, Lonely, Busy
-----------------------------------------------------------------------------
(* The steps of a call *)

(* What a step of k has to be shown to keep. *)
Keeps(k) ==
    /\ TypeOK'
    /\ Local(k)
    /\ RowAtHand(k)'
    /\ Reached(k)'
    /\ (Busy(k) /\ ~call[k].hindered => Lonely(k))'
    /\ CreatingIsWorkedOn'
    /\ RecordedDraftExists'

LEMMA KeepsInv ==
  ASSUME IInv, NEW k \in Callers, Busy(k), Keeps(k)
  PROVE  IInv'
<1>1. CallTypes'
  BY DEF Keeps, TypeOK, CallTypes
<1> QED
  BY <1>1, LocalKeeps DEF Keeps, IInv, Busy

(* A step that leaves the rows alone. *)
LEMMA RowsAlone ==
  ASSUME IInv, NEW k \in Callers, rows' = rows, Local(k),
         Works(k) => call[k].row \in stuck' \/ (Works(k)' /\ call'[k].row = call[k].row)
  PROVE  CreatingIsWorkedOn' /\ RecordedDraftExists'
<1>1. CreatingIsWorkedOn'
  BY DEF IInv, CreatingIsWorkedOn, Local, Others, Works
<1>2. \A i \in DOMAIN rows : rows[i].loop \in Loops
  <2>1. \A i \in DOMAIN rows : rows[i] \in RowRecord
    BY DEF IInv, TypeOK
  <2> QED  BY <2>1 DEF RowRecord
<1>3. RecordedDraftExists'
  BY <1>2 DEF IInv, RecordedDraftExists, Local
<1> QED
  BY <1>1, <1>3

Types ==
    /\ rows \in Seq(RowRecord) /\ remote \in [Loops -> Nat] /\ pull \in [Loops -> PullStates]
    /\ held \in SUBSET Loops /\ CallTypes /\ calls \in 0 .. MaxCalls
    /\ faults \in 0 .. MaxFaults /\ stuck \in SUBSET Nat /\ MaxFaults \in Nat

(* What the invariant says of one call. *)
AtHand(k) ==
    /\ RowAtHand(k) /\ Reached(k)
    /\ Busy(k) => call[k].loop \in Loops
    /\ Busy(k) /\ ~call[k].hindered => Lonely(k)

LEMMA TypesAtHand == IInv => Types
  BY PullRequestsAssumption DEF IInv, TypeOK, CallTypes, Types

LEMMA CallAtHand == ASSUME IInv, NEW k \in Callers PROVE AtHand(k)
  BY DEF IInv, LonelyInv, AtHand, RowAtHand

LEMMA CheckoutStep ==
  ASSUME IInv, NEW k \in Callers, Checkout(k)
  PROVE  Keeps(k)
<1> USE DEF Busy
<1>t. Types
  BY TypesAtHand
<1>i. AtHand(k)
  BY CallAtHand
<1>1. /\ CallTypes' /\ Others(k) /\ Same(k)
      /\ call[k].pc = "checkout" /\ call'[k].pc \in {"lease", "fail"}
      /\ call'[k].ok = call[k].ok /\ call'[k].hindered = call[k].hindered
  BY <1>t, GoEffect DEF Types, Checkout, CallPcs
<1>2. /\ rows' = rows /\ remote' = remote /\ stuck' = stuck /\ calls' = calls
      /\ faults' \in 0 .. MaxFaults
  BY <1>t DEF Types, Checkout, FaultTo
<1>3. /\ pull' \in [Loops -> PullStates] /\ held' \in SUBSET Loops
      /\ \A l \in Loops : pull[l] # "none" => pull'[l] # "none"
      /\ \A l \in Loops \ {call[k].loop} : pull'[l] = pull[l] /\ (l \in held' => l \in held)
  BY <1>t, <1>i DEF Types, AtHand, Checkout, PullStates
<1>w. call'[k].pc = "fail" =>
         \/ call[k].loop \in held
         \/ \E j \in Callers \ {k} : Busy(j) /\ call[j].loop = call[k].loop
  BY <1>t, GoEffect DEF Types, Checkout, Holders, CallPcs
<1>u. pull' = pull /\ held' = held
  BY DEF Checkout
<1>4. Local(k)
  BY <1>t, <1>i, <1>1, <1>2, <1>3 DEF Types, AtHand, Local, Same
<1>5. RowAtHand(k)'
  BY <1>i, <1>1, <1>2 DEF AtHand, RowAtHand, HasRow, Works, Same
<1>6. Reached(k)'
  BY <1>i, <1>1, <1>2, <1>3, <1>w DEF AtHand, Reached, Same
<1>7. ASSUME ~call'[k].hindered  PROVE Lonely(k)'
  <2>1. Lonely(k)
    BY <1>i, <1>1, <1>7 DEF AtHand
  <2>2. call'[k].pc = "lease"
    BY <1>1, <1>w, <2>1 DEF Lonely
  <2> QED
    BY <1>i, <1>1, <1>2, <1>u, <2>1, <2>2 DEF AtHand, Lonely, Same, Others
<1>8. CreatingIsWorkedOn' /\ RecordedDraftExists'
  BY <1>1, <1>2, <1>4, RowsAlone DEF Works, Same
<1> QED
  BY <1>t, <1>1, <1>2, <1>3, <1>4, <1>5, <1>6, <1>7, <1>8 DEF Types, Keeps, TypeOK, CallTypes

LEMMA ReleaseStep ==
  ASSUME IInv, NEW k \in Callers, Release(k)
  PROVE  Keeps(k)
<1> USE DEF Busy
<1>t. Types
  BY TypesAtHand
<1>i. AtHand(k)
  BY CallAtHand
<1>1. /\ CallTypes' /\ Others(k) /\ Same(k)
      /\ call[k].pc = "release" /\ call'[k].pc = (IF call[k].ok THEN "find" ELSE "fail")
      /\ call'[k].ok = call[k].ok /\ call'[k].hindered = call[k].hindered
  BY <1>t, GoEffect DEF Types, Release, CallPcs
<1>2. /\ rows' = rows /\ remote' = remote /\ stuck' = stuck /\ calls' = calls
      /\ faults' \in 0 .. MaxFaults
  BY <1>t DEF Types, Release, FaultTo
<1>3. /\ pull' \in [Loops -> PullStates] /\ held' \in SUBSET Loops
      /\ \A l \in Loops : pull[l] # "none" => pull'[l] # "none"
      /\ \A l \in Loops \ {call[k].loop} : pull'[l] = pull[l] /\ (l \in held' => l \in held)
  BY <1>t, <1>i DEF Types, AtHand, Release, PullStates
<1>4. Local(k)
  BY <1>t, <1>i, <1>1, <1>2, <1>3 DEF Types, AtHand, Local, Same
<1>5. RowAtHand(k)'
  BY <1>i, <1>1, <1>2 DEF AtHand, RowAtHand, HasRow, Works, Same
<1>6. Reached(k)'
  BY <1>i, <1>1, <1>2, <1>3 DEF AtHand, Release, Reached, Same
<1>7. ASSUME ~call'[k].hindered  PROVE Lonely(k)'
  BY <1>i, <1>1, <1>2, <1>3, <1>7 DEF AtHand, Release, Lonely, Same, Others
<1>8. CreatingIsWorkedOn' /\ RecordedDraftExists'
  BY <1>1, <1>2, <1>4, RowsAlone DEF Works, Same
<1> QED
  BY <1>t, <1>1, <1>2, <1>3, <1>4, <1>5, <1>6, <1>7, <1>8 DEF Types, Keeps, TypeOK, CallTypes

LEMMA FindStep ==
  ASSUME IInv, NEW k \in Callers, Find(k)
  PROVE  Keeps(k)
<1> USE DEF Busy
<1>t. Types
  BY TypesAtHand
<1>i. AtHand(k)
  BY CallAtHand
<1>1. /\ CallTypes' /\ Others(k) /\ Same(k)
      /\ call[k].pc = "find" /\ call'[k].pc \in {"record", "fail", "post"}
      /\ call'[k].ok = call[k].ok /\ call'[k].hindered = call[k].hindered
  BY <1>t, GoEffect DEF Types, Find, CallPcs
<1>2. /\ rows' = rows /\ remote' = remote /\ stuck' = stuck /\ calls' = calls
      /\ faults' \in 0 .. MaxFaults
  BY <1>t DEF Types, Find, FaultTo
<1>3. /\ pull' \in [Loops -> PullStates] /\ held' \in SUBSET Loops
      /\ \A l \in Loops : pull[l] # "none" => pull'[l] # "none"
      /\ \A l \in Loops \ {call[k].loop} : pull'[l] = pull[l] /\ (l \in held' => l \in held)
  BY <1>t, <1>i DEF Types, AtHand, Find, PullStates
<1>w. /\ call'[k].pc = "record" => pull[call[k].loop] = "draft"
      /\ call'[k].pc = "fail" => pull[call[k].loop] = "changed"
      /\ call'[k].pc = "post" => pull[call[k].loop] \in {"none", "closed"}
      /\ pull' = pull /\ held' = held
  BY <1>t, GoEffect DEF Types, Find, CallPcs
<1>4. Local(k)
  BY <1>t, <1>i, <1>1, <1>2, <1>3 DEF Types, AtHand, Local, Same
<1>5. RowAtHand(k)'
  BY <1>i, <1>1, <1>2 DEF AtHand, RowAtHand, HasRow, Works, Same
<1>6. Reached(k)'
  BY <1>i, <1>1, <1>2, <1>3, <1>w DEF AtHand, Reached, Same
<1>7. ASSUME ~call'[k].hindered  PROVE Lonely(k)'
  BY <1>i, <1>1, <1>2, <1>3, <1>7, <1>w DEF AtHand, Lonely, Same, Others
<1>8. CreatingIsWorkedOn' /\ RecordedDraftExists'
  BY <1>1, <1>2, <1>4, RowsAlone DEF Works, Same
<1> QED
  BY <1>t, <1>1, <1>2, <1>3, <1>4, <1>5, <1>6, <1>7, <1>8 DEF Types, Keeps, TypeOK, CallTypes

LEMMA PostStep ==
  ASSUME IInv, NEW k \in Callers, Post(k)
  PROVE  Keeps(k)
<1> USE DEF Busy
<1>t. Types
  BY TypesAtHand
<1>i. AtHand(k)
  BY CallAtHand
<1>1. /\ CallTypes' /\ Others(k) /\ Same(k)
      /\ call[k].pc = "post" /\ call'[k].pc \in {"record", "fail"}
      /\ call'[k].ok = call[k].ok /\ call'[k].hindered = call[k].hindered
  BY <1>t, GoEffect DEF Types, Post, CallPcs
<1>2. /\ rows' = rows /\ remote' = remote /\ stuck' = stuck /\ calls' = calls
      /\ faults' \in 0 .. MaxFaults
  BY <1>t DEF Types, Post, FaultTo
<1>3. /\ pull' \in [Loops -> PullStates] /\ held' \in SUBSET Loops
      /\ \A l \in Loops : pull[l] # "none" => pull'[l] # "none"
      /\ \A l \in Loops \ {call[k].loop} : pull'[l] = pull[l] /\ (l \in held' => l \in held)
  BY <1>t, <1>i DEF Types, AtHand, Post, PullStates
<1>w. /\ call'[k].pc = "fail" => pull[call[k].loop] \notin {"none", "closed"}
      /\ call'[k].pc = "record" => pull' = [pull EXCEPT ![call[k].loop] = "draft"]
      /\ held' = held
  BY <1>t, GoEffect DEF Types, Post, CallPcs
<1>4. Local(k)
  BY <1>t, <1>i, <1>1, <1>2, <1>3 DEF Types, AtHand, Local, Same
<1>5. RowAtHand(k)'
  BY <1>i, <1>1, <1>2 DEF AtHand, RowAtHand, HasRow, Works, Same
<1>6. Reached(k)'
  BY <1>i, <1>1, <1>2, <1>3, <1>w DEF AtHand, Reached, Same
<1>7. ASSUME ~call'[k].hindered  PROVE Lonely(k)'
  BY <1>i, <1>1, <1>2, <1>3, <1>7, <1>w DEF AtHand, Lonely, Same, Others
<1>8. CreatingIsWorkedOn' /\ RecordedDraftExists'
  BY <1>1, <1>2, <1>4, RowsAlone DEF Works, Same
<1> QED
  BY <1>t, <1>1, <1>2, <1>3, <1>4, <1>5, <1>6, <1>7, <1>8 DEF Types, Keeps, TypeOK, CallTypes

LEMMA ThrowsStep ==
  ASSUME IInv, NEW k \in Callers, Throws(k)
  PROVE  Keeps(k)
<1> USE DEF Busy
<1>t. Types
  BY TypesAtHand
<1>i. AtHand(k)
  BY CallAtHand
<1>1. /\ CallTypes' /\ Others(k) /\ Same(k)
      /\ call[k].pc \in {"checkout", "find", "post", "record", "event"} /\ call'[k].pc = "fail"
      /\ call'[k].ok = call[k].ok /\ call'[k].hindered
  BY <1>t, FaultToEffect DEF Types, Throws, CallPcs
<1>2. /\ rows' = rows /\ remote' = remote /\ stuck' = stuck /\ calls' = calls
      /\ faults' \in 0 .. MaxFaults
  BY <1>t DEF Types, Throws, FaultTo
<1>3. /\ pull' \in [Loops -> PullStates] /\ held' \in SUBSET Loops
      /\ \A l \in Loops : pull[l] # "none" => pull'[l] # "none"
      /\ \A l \in Loops \ {call[k].loop} : pull'[l] = pull[l] /\ (l \in held' => l \in held)
  BY <1>t, <1>i DEF Types, AtHand, Throws, PullStates
<1>4. Local(k)
  BY <1>t, <1>i, <1>1, <1>2, <1>3 DEF Types, AtHand, Local, Same
<1>5. RowAtHand(k)'
  BY <1>i, <1>1, <1>2 DEF AtHand, RowAtHand, HasRow, Works, Same
<1>6. Reached(k)'
  BY <1>i, <1>1, <1>2, <1>3 DEF AtHand, Throws, Reached, Same
<1>7. ASSUME ~call'[k].hindered  PROVE Lonely(k)'
  BY <1>i, <1>1, <1>2, <1>3, <1>7 DEF AtHand, Throws, Lonely, Same, Others
<1>8. CreatingIsWorkedOn' /\ RecordedDraftExists'
  BY <1>1, <1>2, <1>4, RowsAlone DEF Works, Same
<1> QED
  BY <1>t, <1>1, <1>2, <1>3, <1>4, <1>5, <1>6, <1>7, <1>8 DEF Types, Keeps, TypeOK, CallTypes

LEMMA ReleaseFailsStep ==
  ASSUME IInv, NEW k \in Callers, ReleaseFails(k)
  PROVE  Keeps(k)
<1> USE DEF Busy
<1>t. Types
  BY TypesAtHand
<1>i. AtHand(k)
  BY CallAtHand
<1>1. /\ CallTypes' /\ Others(k) /\ Same(k)
      /\ call[k].pc = "release" /\ call'[k].pc = (IF call[k].ok THEN "find" ELSE "fail")
      /\ call'[k].ok = call[k].ok /\ call'[k].hindered
  BY <1>t, FaultToEffect DEF Types, ReleaseFails, CallPcs
<1>2. /\ rows' = rows /\ remote' = remote /\ stuck' = stuck /\ calls' = calls
      /\ faults' \in 0 .. MaxFaults
  BY <1>t DEF Types, ReleaseFails, FaultTo
<1>3. /\ pull' \in [Loops -> PullStates] /\ held' \in SUBSET Loops
      /\ \A l \in Loops : pull[l] # "none" => pull'[l] # "none"
      /\ \A l \in Loops \ {call[k].loop} : pull'[l] = pull[l] /\ (l \in held' => l \in held)
  BY <1>t, <1>i DEF Types, AtHand, ReleaseFails, PullStates
<1>4. Local(k)
  BY <1>t, <1>i, <1>1, <1>2, <1>3 DEF Types, AtHand, Local, Same
<1>5. RowAtHand(k)'
  BY <1>i, <1>1, <1>2 DEF AtHand, RowAtHand, HasRow, Works, Same
<1>6. Reached(k)'
  BY <1>i, <1>1, <1>2, <1>3 DEF AtHand, ReleaseFails, Reached, Same
<1>7. ASSUME ~call'[k].hindered  PROVE Lonely(k)'
  BY <1>i, <1>1, <1>2, <1>3, <1>7 DEF AtHand, ReleaseFails, Lonely, Same, Others
<1>8. CreatingIsWorkedOn' /\ RecordedDraftExists'
  BY <1>1, <1>2, <1>4, RowsAlone DEF Works, Same
<1> QED
  BY <1>t, <1>1, <1>2, <1>3, <1>4, <1>5, <1>6, <1>7, <1>8 DEF Types, Keeps, TypeOK, CallTypes

LEMMA PostAnswerLostStep ==
  ASSUME IInv, NEW k \in Callers, PostAnswerLost(k)
  PROVE  Keeps(k)
<1> USE DEF Busy
<1>t. Types
  BY TypesAtHand
<1>i. AtHand(k)
  BY CallAtHand
<1>1. /\ CallTypes' /\ Others(k) /\ Same(k)
      /\ call[k].pc = "post" /\ call'[k].pc = "fail"
      /\ call'[k].ok = call[k].ok /\ call'[k].hindered
  BY <1>t, FaultToEffect DEF Types, PostAnswerLost, CallPcs
<1>2. /\ rows' = rows /\ remote' = remote /\ stuck' = stuck /\ calls' = calls
      /\ faults' \in 0 .. MaxFaults
  BY <1>t DEF Types, PostAnswerLost, FaultTo
<1>3. /\ pull' \in [Loops -> PullStates] /\ held' \in SUBSET Loops
      /\ \A l \in Loops : pull[l] # "none" => pull'[l] # "none"
      /\ \A l \in Loops \ {call[k].loop} : pull'[l] = pull[l] /\ (l \in held' => l \in held)
  BY <1>t, <1>i DEF Types, AtHand, PostAnswerLost, PullStates
<1>4. Local(k)
  BY <1>t, <1>i, <1>1, <1>2, <1>3 DEF Types, AtHand, Local, Same
<1>5. RowAtHand(k)'
  BY <1>i, <1>1, <1>2 DEF AtHand, RowAtHand, HasRow, Works, Same
<1>6. Reached(k)'
  BY <1>i, <1>1, <1>2, <1>3 DEF AtHand, PostAnswerLost, Reached, Same
<1>7. ASSUME ~call'[k].hindered  PROVE Lonely(k)'
  BY <1>i, <1>1, <1>2, <1>3, <1>7 DEF AtHand, PostAnswerLost, Lonely, Same, Others
<1>8. CreatingIsWorkedOn' /\ RecordedDraftExists'
  BY <1>1, <1>2, <1>4, RowsAlone DEF Works, Same
<1> QED
  BY <1>t, <1>1, <1>2, <1>3, <1>4, <1>5, <1>6, <1>7, <1>8 DEF Types, Keeps, TypeOK, CallTypes

LEMMA ReadStep ==
  ASSUME IInv, NEW k \in Callers, Read(k)
  PROVE  Keeps(k)
<1> USE DEF Busy
<1>t. Types
  BY TypesAtHand
<1>i. AtHand(k)
  BY CallAtHand
<1>1. CASE RowsOf(call[k].loop) = {} /\ Go(k, "insert")
  <2>1. /\ CallTypes' /\ Others(k) /\ Same(k) /\ call[k].pc = "read" /\ call'[k].pc = "insert"
        /\ call'[k].hindered = call[k].hindered /\ call'[k].ok = call[k].ok
    BY <1>t, <1>1, GoEffect DEF Types, Read, CallPcs
  <2>2. UNCHANGED <<rows, remote, pull, held, calls, faults, stuck>>
    BY DEF Read
  <2>3. Local(k)
    BY <2>1, <2>2 DEF Local, Same
  <2>4. RowAtHand(k)' /\ Reached(k)'
    BY <1>i, <2>1, <2>2 DEF AtHand, RowAtHand, Reached, HasRow, Works, Same
  <2>5. ASSUME ~call'[k].hindered  PROVE Lonely(k)'
    BY <1>i, <1>1, <2>1, <2>2, <2>5 DEF AtHand, Lonely, Same, Others, RowsOf
  <2>6. CreatingIsWorkedOn' /\ RecordedDraftExists'
    BY <2>1, <2>2, <2>3, RowsAlone DEF Works, Same
  <2> QED
    BY <1>t, <2>1, <2>2, <2>3, <2>4, <2>5, <2>6 DEF Types, Keeps, TypeOK, CallTypes
<1>2. ASSUME NEW i \in Oldest(call[k].loop), rows[i].status = "create_failed",
             call' = [call EXCEPT ![k].pc = "claim", ![k].row = i]
      PROVE  Keeps(k)
  <2>1. i \in DOMAIN rows /\ rows[i].loop = call[k].loop /\ i \in Nat
    BY <1>t DEF Types, Oldest, RowsOf
  <2>2. /\ CallTypes' /\ Others(k) /\ call[k].pc = "read" /\ call'[k].pc = "claim"
        /\ call'[k].row = i /\ call'[k].loop = call[k].loop
        /\ call'[k].hindered = call[k].hindered /\ call'[k].ok = call[k].ok
    BY <1>t, <1>2, <2>1, TakeRowEffect DEF Types, Read, CallPcs
  <2>3. UNCHANGED <<rows, remote, pull, held, calls, faults, stuck>>
    BY DEF Read
  <2>4. Local(k)
    BY <2>2, <2>3 DEF Local
  <2>5. RowAtHand(k)' /\ Reached(k)'
    BY <1>i, <2>1, <2>2, <2>3 DEF AtHand, RowAtHand, Reached, HasRow, Works
  <2>6. ASSUME ~call'[k].hindered  PROVE Lonely(k)'
    <3>1. Lonely(k) /\ rows'[call'[k].row].status = "create_failed"
      BY <1>i, <1>2, <2>2, <2>3, <2>6 DEF AtHand
    <3> QED
      BY <2>2, <2>3, <3>1 DEF Lonely, Others
  <2>7. CreatingIsWorkedOn' /\ RecordedDraftExists'
    BY <2>2, <2>3, <2>4, RowsAlone DEF Works
  <2> QED
    BY <1>t, <2>2, <2>3, <2>4, <2>5, <2>6, <2>7 DEF Types, Keeps, TypeOK, CallTypes
<1>3. CASE call' = [call EXCEPT ![k] = Answered]
  <2>1. CallTypes' /\ Others(k) /\ call'[k].pc = "idle" /\ call[k].pc = "read"
    BY <1>t, <1>3, AnsweredEffect DEF Types, Read
  <2>2. UNCHANGED <<rows, remote, pull, held, calls, faults, stuck>>
    BY DEF Read
  <2>3. Local(k)
    BY <2>1, <2>2 DEF Local
  <2>4. RowAtHand(k)' /\ Reached(k)'
    BY <2>1 DEF RowAtHand, Reached, HasRow, Works
  <2>5. CreatingIsWorkedOn' /\ RecordedDraftExists'
    BY <2>1, <2>2, <2>3, RowsAlone DEF Works
  <2> QED
    BY <1>t, <2>1, <2>2, <2>3, <2>4, <2>5 DEF Types, Keeps, TypeOK, CallTypes
<1> QED
  BY <1>1, <1>2, <1>3 DEF Read

LEMMA InsertStep ==
  ASSUME IInv, NEW k \in Callers, Insert(k)
  PROVE  Keeps(k)
<1> USE DEF Busy
<1>t. Types
  BY TypesAtHand
<1>i. AtHand(k)
  BY CallAtHand
<1>1. call[k].pc = "insert" /\ call[k].loop \in Loops
  BY <1>i DEF AtHand, Insert
<1> DEFINE n == Len(rows) + 1
<1>2. /\ rows' \in Seq(RowRecord) /\ n \in Nat /\ n \notin DOMAIN rows
      /\ DOMAIN rows' = DOMAIN rows \union {n} /\ \A i \in DOMAIN rows : rows'[i] = rows[i]
      /\ rows'[n].loop = call[k].loop /\ rows'[n].status = "creating"
  BY <1>t, <1>1, InsertEffect DEF Types, Insert
<1>3. call' = [call EXCEPT ![k].pc = "checkout", ![k].row = n] /\ n \in Nat
  BY <1>2 DEF Insert
<1> HIDE DEF n
<1>4. /\ CallTypes' /\ Others(k) /\ call'[k].pc = "checkout" /\ call'[k].row = n
      /\ call'[k].loop = call[k].loop /\ call'[k].hindered = call[k].hindered
      /\ call'[k].ok = call[k].ok
  BY <1>t, <1>3, TakeRowEffect, ZenonT(30) DEF Types, CallPcs
<1>5. UNCHANGED <<remote, pull, held, calls, faults, stuck>>
  BY DEF Insert
<1>6. Local(k)
  BY <1>2, <1>4, <1>5 DEF Local
<1>7. RowAtHand(k)' /\ Reached(k)'
  BY <1>1, <1>2, <1>4 DEF RowAtHand, Reached, HasRow, Works
<1>8. ASSUME ~call'[k].hindered  PROVE Lonely(k)'
  BY <1>i, <1>1, <1>4, <1>5, <1>8 DEF AtHand, Lonely, Others
<1>9. CreatingIsWorkedOn'
  BY <1>1, <1>2, <1>4, <1>5 DEF IInv, CreatingIsWorkedOn, Others, Works
<1>10. RecordedDraftExists'
  BY <1>2, <1>5 DEF IInv, RecordedDraftExists
<1> QED
  BY <1>t, <1>2, <1>4, <1>5, <1>6, <1>7, <1>8, <1>9, <1>10 DEF Types, Keeps, TypeOK, CallTypes

LEMMA ClaimStep ==
  ASSUME IInv, NEW k \in Callers, Claim(k)
  PROVE  Keeps(k)
<1> USE DEF Busy
<1>t. Types
  BY TypesAtHand
<1>i. AtHand(k)
  BY CallAtHand
<1>1. call[k].pc = "claim" /\ call[k].row \in DOMAIN rows /\ rows[call[k].row].loop = call[k].loop
  BY <1>i DEF AtHand, Claim, RowAtHand, HasRow, Works
<1> DEFINE n == call[k].row
<1>2. /\ rows' \in Seq(RowRecord) /\ DOMAIN rows' = DOMAIN rows
      /\ \A i \in DOMAIN rows : i # n => rows'[i] = rows[i]
      /\ rows'[n].loop = call[k].loop /\ rows'[n].status = "creating"
  BY <1>t, <1>1, SetRowEffect DEF Types, Claim, RowStatuses
<1>3. /\ CallTypes' /\ Others(k) /\ Same(k) /\ call'[k].pc = "checkout"
      /\ call'[k].hindered = call[k].hindered /\ call'[k].ok = call[k].ok
  BY <1>t, GoEffect DEF Types, Claim, CallPcs
<1>4. UNCHANGED <<remote, pull, held, calls, faults, stuck>>
  BY DEF Claim
<1>5. Local(k)
  BY <1>1, <1>2, <1>3, <1>4 DEF Local, Same
<1>6. RowAtHand(k)' /\ Reached(k)'
  BY <1>i, <1>1, <1>2, <1>3, <1>4 DEF AtHand, RowAtHand, Reached, HasRow, Works, Same, Busy
<1>7. ASSUME ~call'[k].hindered  PROVE Lonely(k)'
  BY <1>i, <1>1, <1>3, <1>4, <1>7 DEF AtHand, Lonely, Others, Same
<1>8. CreatingIsWorkedOn'
  BY <1>1, <1>2, <1>3, <1>4 DEF IInv, CreatingIsWorkedOn, Others, Works, Same
<1>9. RecordedDraftExists'
  BY <1>i, <1>1, <1>2, <1>4 DEF AtHand, IInv, RecordedDraftExists, Reached
<1> QED
  BY <1>t, <1>2, <1>3, <1>4, <1>5, <1>6, <1>7, <1>8, <1>9 DEF Types, Keeps, TypeOK, CallTypes

LEMMA RecordStep ==
  ASSUME IInv, NEW k \in Callers, Record(k)
  PROVE  Keeps(k)
<1> USE DEF Busy
<1>t. Types
  BY TypesAtHand
<1>i. AtHand(k)
  BY CallAtHand
<1>1. call[k].pc = "record" /\ call[k].row \in DOMAIN rows /\ rows[call[k].row].loop = call[k].loop
  BY <1>i DEF AtHand, Record, RowAtHand, HasRow, Works
<1> DEFINE n == call[k].row
<1>2. /\ rows' \in Seq(RowRecord) /\ DOMAIN rows' = DOMAIN rows
      /\ \A i \in DOMAIN rows : i # n => rows'[i] = rows[i]
      /\ rows'[n].loop = call[k].loop /\ rows'[n].status = "draft_created"
  BY <1>t, <1>1, SetRowEffect DEF Types, Record, RowStatuses
<1>3. /\ CallTypes' /\ Others(k) /\ Same(k) /\ call'[k].pc = "event"
      /\ call'[k].hindered = call[k].hindered /\ call'[k].ok = call[k].ok
  BY <1>t, GoEffect DEF Types, Record, CallPcs
<1>4. UNCHANGED <<remote, pull, held, calls, faults, stuck>>
  BY DEF Record
<1>5. Local(k)
  BY <1>1, <1>2, <1>3, <1>4 DEF Local, Same
<1>6. RowAtHand(k)' /\ Reached(k)'
  BY <1>i, <1>1, <1>2, <1>3, <1>4 DEF AtHand, RowAtHand, Reached, HasRow, Works, Same, Busy
<1>7. ASSUME ~call'[k].hindered  PROVE Lonely(k)'
  BY <1>i, <1>1, <1>3, <1>4, <1>7 DEF AtHand, Lonely, Others, Same
<1>8. CreatingIsWorkedOn'
  BY <1>1, <1>2, <1>3, <1>4 DEF IInv, CreatingIsWorkedOn, Others, Works, Same
<1>9. RecordedDraftExists'
  BY <1>i, <1>1, <1>2, <1>4 DEF AtHand, IInv, RecordedDraftExists, Reached
<1> QED
  BY <1>t, <1>2, <1>3, <1>4, <1>5, <1>6, <1>7, <1>8, <1>9 DEF Types, Keeps, TypeOK, CallTypes

LEMMA FailStep ==
  ASSUME IInv, NEW k \in Callers, Fail(k)
  PROVE  Keeps(k)
<1> USE DEF Busy
<1>t. Types
  BY TypesAtHand
<1>i. AtHand(k)
  BY CallAtHand
<1>1. call[k].pc = "fail" /\ call[k].row \in DOMAIN rows /\ rows[call[k].row].loop = call[k].loop
  BY <1>i DEF AtHand, Fail, RowAtHand, HasRow, Works
<1> DEFINE n == call[k].row
<1>2. /\ rows' \in Seq(RowRecord) /\ DOMAIN rows' = DOMAIN rows
      /\ \A i \in DOMAIN rows : i # n => rows'[i] = rows[i]
      /\ rows'[n].loop = call[k].loop /\ rows'[n].status = "create_failed"
  BY <1>t, <1>1, SetRowEffect DEF Types, Fail, RowStatuses
<1>3. CallTypes' /\ Others(k) /\ call'[k].pc = "idle"
  BY <1>t, AnsweredEffect DEF Types, Fail
<1>4. UNCHANGED <<remote, pull, held, calls, faults, stuck>>
  BY DEF Fail
<1>5. Local(k)
  BY <1>1, <1>2, <1>3, <1>4 DEF Local, Same
<1>6. RowAtHand(k)' /\ Reached(k)'
  BY <1>i, <1>1, <1>2, <1>3, <1>4 DEF AtHand, RowAtHand, Reached, HasRow, Works, Same, Busy
<1>8. CreatingIsWorkedOn'
  BY <1>1, <1>2, <1>3, <1>4 DEF IInv, CreatingIsWorkedOn, Others, Works, Same
<1>9. RecordedDraftExists'
  BY <1>i, <1>1, <1>2, <1>4 DEF AtHand, IInv, RecordedDraftExists, Reached
<1> QED
  BY <1>t, <1>2, <1>3, <1>4, <1>5, <1>6, <1>8, <1>9 DEF Types, Keeps, TypeOK, CallTypes

LEMMA EventStep ==
  ASSUME IInv, NEW k \in Callers, Event(k)
  PROVE  Keeps(k)
<1> USE DEF Busy
<1>t. Types
  BY TypesAtHand
<1>i. AtHand(k)
  BY CallAtHand
<1>1. CallTypes' /\ Others(k) /\ call'[k].pc = "idle" /\ call[k].pc = "event"
  BY <1>t, AnsweredEffect DEF Types, Event
<1>2. /\ UNCHANGED <<rows, remote, pull, held, calls>> /\ faults' \in 0 .. MaxFaults
      /\ stuck' = stuck
  BY <1>t DEF Types, Event
<1>3. Local(k)
  BY <1>1, <1>2 DEF Local
<1>4. RowAtHand(k)' /\ Reached(k)'
  BY <1>1 DEF RowAtHand, Reached, HasRow, Works
<1>5. CreatingIsWorkedOn' /\ RecordedDraftExists'
  BY <1>1, <1>2, <1>3, RowsAlone DEF Works
<1>6. stuck' \in SUBSET Nat
  BY <1>t, <1>2 DEF Types, CallTypes, CallRecord
<1> QED
  BY <1>t, <1>1, <1>2, <1>3, <1>4, <1>5, <1>6 DEF Types, Keeps, TypeOK, CallTypes

LEMMA ReadThrowsStep ==
  ASSUME IInv, NEW k \in Callers, ReadThrows(k)
  PROVE  Keeps(k)
<1> USE DEF Busy
<1>t. Types
  BY TypesAtHand
<1>i. AtHand(k)
  BY CallAtHand
<1>1. CallTypes' /\ Others(k) /\ call'[k].pc = "idle" /\ call[k].pc \in {"read", "insert", "claim"}
  BY <1>t, AnsweredEffect DEF Types, ReadThrows
<1>2. /\ UNCHANGED <<rows, remote, pull, held, calls>> /\ faults' \in 0 .. MaxFaults
      /\ stuck' = stuck
  BY <1>t DEF Types, ReadThrows
<1>3. Local(k)
  BY <1>1, <1>2 DEF Local
<1>4. RowAtHand(k)' /\ Reached(k)'
  BY <1>1 DEF RowAtHand, Reached, HasRow, Works
<1>5. CreatingIsWorkedOn' /\ RecordedDraftExists'
  BY <1>1, <1>2, <1>3, RowsAlone DEF Works
<1>6. stuck' \in SUBSET Nat
  BY <1>t, <1>2 DEF Types, CallTypes, CallRecord
<1> QED
  BY <1>t, <1>1, <1>2, <1>3, <1>4, <1>5, <1>6 DEF Types, Keeps, TypeOK, CallTypes

LEMMA FailThrowsStep ==
  ASSUME IInv, NEW k \in Callers, FailThrows(k)
  PROVE  Keeps(k)
<1> USE DEF Busy
<1>t. Types
  BY TypesAtHand
<1>i. AtHand(k)
  BY CallAtHand
<1>1. CallTypes' /\ Others(k) /\ call'[k].pc = "idle" /\ call[k].pc = "fail"
  BY <1>t, AnsweredEffect DEF Types, FailThrows
<1>2. /\ UNCHANGED <<rows, remote, pull, held, calls>> /\ faults' \in 0 .. MaxFaults
      /\ stuck' = stuck \union {call[k].row}
  BY <1>t DEF Types, FailThrows
<1>3. Local(k)
  BY <1>1, <1>2 DEF Local
<1>4. RowAtHand(k)' /\ Reached(k)'
  BY <1>1 DEF RowAtHand, Reached, HasRow, Works
<1>5. CreatingIsWorkedOn' /\ RecordedDraftExists'
  BY <1>1, <1>2, <1>3, RowsAlone DEF Works
<1>6. stuck' \in SUBSET Nat
  BY <1>t, <1>2 DEF Types, CallTypes, CallRecord
<1> QED
  BY <1>t, <1>1, <1>2, <1>3, <1>4, <1>5, <1>6 DEF Types, Keeps, TypeOK, CallTypes

LEMMA ReadRemoteStep ==
  ASSUME IInv, NEW k \in Callers, ReadRemote(k)
  PROVE  Keeps(k)
<1> USE DEF Busy
<1>t. Types
  BY TypesAtHand
<1>i. AtHand(k)
  BY CallAtHand
<1>1. call[k].pc = "lease" /\ call[k].loop \in Loops
  BY <1>i DEF AtHand, ReadRemote
<1>2. remote[call[k].loop] \in Nat
  BY <1>t, <1>1 DEF Types
<1>3. /\ CallTypes' /\ Others(k) /\ call'[k].pc = "push" /\ call'[k].loop = call[k].loop
      /\ call'[k].row = call[k].row /\ call'[k].lease = remote[call[k].loop]
      /\ call'[k].hindered = call[k].hindered /\ call'[k].ok = call[k].ok
  BY <1>t, <1>2 DEF Types, ReadRemote, CallTypes, CallRecord, CallPcs, Others
<1>4. UNCHANGED <<rows, remote, pull, held, calls, faults, stuck>>
  BY DEF ReadRemote
<1>5. Local(k)
  BY <1>3, <1>4 DEF Local
<1>6. RowAtHand(k)' /\ Reached(k)'
  BY <1>i, <1>1, <1>3, <1>4 DEF AtHand, RowAtHand, Reached, HasRow, Works
<1>7. ASSUME ~call'[k].hindered  PROVE Lonely(k)'
  BY <1>i, <1>1, <1>3, <1>4, <1>7 DEF AtHand, Lonely, Others
<1>8. CreatingIsWorkedOn' /\ RecordedDraftExists'
  BY <1>1, <1>3, <1>4, <1>5, RowsAlone DEF Works
<1> QED
  BY <1>t, <1>3, <1>4, <1>5, <1>6, <1>7, <1>8 DEF Types, Keeps, TypeOK, CallTypes

LEMMA PushStep ==
  ASSUME IInv, NEW k \in Callers, Push(k)
  PROVE  Keeps(k)
<1> USE DEF Busy
<1>t. Types
  BY TypesAtHand
<1>i. AtHand(k)
  BY CallAtHand
<1>1. call[k].pc = "push" /\ call[k].loop \in Loops /\ remote[call[k].loop] \in Nat
  BY <1>t, <1>i DEF Types, AtHand, Push
<1>2. /\ CallTypes' /\ Others(k) /\ call'[k].pc = "release" /\ call'[k].loop = call[k].loop
      /\ call'[k].row = call[k].row /\ call'[k].hindered = call[k].hindered
      /\ \/ /\ call'[k].ok = call[k].ok
            /\ remote' = [remote EXCEPT ![call[k].loop] = @ + 1]
         \/ /\ ~call'[k].ok /\ remote[call[k].loop] # call[k].lease
            /\ remote' = remote
  <2>1. CASE remote[call[k].loop] = call[k].lease
    BY <1>t, <2>1, GoEffect DEF Types, Push, Same, CallPcs
  <2>2. CASE remote[call[k].loop] # call[k].lease
    BY <1>t, <2>2, RefusedEffect DEF Types, Push, Same
  <2> QED  BY <2>1, <2>2
<1>3. UNCHANGED <<rows, pull, held, calls, faults, stuck>>
  BY DEF Push
<1>4. /\ remote' \in [Loops -> Nat] /\ \A l \in Loops : remote[l] > 0 => remote'[l] > 0
      /\ \A l \in Loops \ {call[k].loop} : remote'[l] = remote[l]
      /\ call'[k].ok => remote'[call[k].loop] > 0
  BY <1>t, <1>1, <1>2 DEF Types
<1>5. Local(k)
  BY <1>2, <1>3, <1>4 DEF Local
<1>6. RowAtHand(k)' /\ Reached(k)'
  BY <1>i, <1>1, <1>2, <1>3, <1>4 DEF AtHand, RowAtHand, Reached, HasRow, Works
<1>7. ASSUME ~call'[k].hindered  PROVE Lonely(k)'
  <2>1. Lonely(k) /\ call[k].lease = remote[call[k].loop]
    BY <1>i, <1>1, <1>2, <1>7 DEF AtHand, Lonely
  <2>2. call'[k].ok
    BY <1>2, <2>1 DEF Lonely
  <2> QED
    BY <1>1, <1>2, <1>3, <2>1, <2>2 DEF Lonely, Others
<1>8. CreatingIsWorkedOn' /\ RecordedDraftExists'
  BY <1>1, <1>2, <1>3, <1>5, RowsAlone DEF Works
<1> QED
  BY <1>t, <1>2, <1>3, <1>4, <1>5, <1>6, <1>7, <1>8 DEF Types, Keeps, TypeOK, CallTypes

LEMMA BranchThrowsStep ==
  ASSUME IInv, NEW k \in Callers, BranchThrows(k)
  PROVE  Keeps(k)
<1> USE DEF Busy
<1>t. Types
  BY TypesAtHand
<1>i. AtHand(k)
  BY CallAtHand
<1>1. call[k].pc \in {"lease", "push"} /\ call[k].loop \in Loops
  BY <1>i DEF AtHand, BranchThrows
<1>2. /\ CallTypes' /\ Others(k) /\ call'[k].pc = "release" /\ call'[k].loop = call[k].loop
      /\ call'[k].row = call[k].row /\ ~call'[k].ok /\ call'[k].hindered
  BY <1>t, BranchThrowsEffect DEF Types, Same
<1>3. UNCHANGED <<rows, remote, pull, held, calls, stuck>> /\ faults' \in 0 .. MaxFaults
  BY <1>t DEF Types, BranchThrows
<1>4. Local(k)
  BY <1>2, <1>3 DEF Local
<1>5. RowAtHand(k)' /\ Reached(k)'
  BY <1>i, <1>1, <1>2, <1>3 DEF AtHand, RowAtHand, Reached, HasRow, Works
<1>6. CreatingIsWorkedOn' /\ RecordedDraftExists'
  BY <1>1, <1>2, <1>3, <1>4, RowsAlone DEF Works
<1> QED
  BY <1>t, <1>2, <1>3, <1>4, <1>5, <1>6 DEF Types, Keeps, TypeOK, CallTypes
-----------------------------------------------------------------------------
(* The steps that touch several calls *)

LEMMA RequestStep ==
  ASSUME IInv, NEW k \in Callers, NEW l \in Loops, Request(k, l)
  PROVE  IInv'
<1> DEFINE same == {j \in Callers : Busy(j) /\ call[j].loop = l}
<1>1. /\ CallTypes /\ calls \in 0 .. MaxCalls /\ MaxCalls \in Nat /\ ~Busy(k)
      /\ calls < MaxCalls /\ calls' = calls + 1
  BY PullRequestsAssumption DEF IInv, TypeOK, CallTypes, Request
<1>2. UNCHANGED <<rows, remote, pull, held, faults, stuck>>
  BY DEF Request
<1>3. /\ call'[k].pc = "read" /\ call'[k].loop = l /\ call'[k].ok
      /\ call'[k].hindered = (same # {} \/ pull[l] = "changed" \/ l \in held)
  BY <1>1 DEF Request, NoCall, CallTypes
<1>4. \A j \in Callers \ {k} :
         /\ call'[j].pc = call[j].pc /\ call'[j].loop = call[j].loop
         /\ call'[j].row = call[j].row /\ call'[j].lease = call[j].lease
         /\ call'[j].ok = call[j].ok
         /\ call'[j].hindered = (call[j].hindered \/ j \in same)
  BY <1>1 DEF Request, CallTypes, CallRecord
<1>5. CallTypes'
  <2>1. [NoCall EXCEPT !.pc = "read", !.loop = l,
                       !.hindered = same # {} \/ pull[l] = "changed" \/ l \in held] \in CallRecord
    BY DEF NoCall, CallRecord, CallPcs
  <2>2. \A j \in Callers : [call[j] EXCEPT !.hindered = @ \/ j \in same] \in CallRecord
    BY <1>1 DEF CallTypes, CallRecord
  <2> QED
    BY <2>1, <2>2 DEF Request, CallTypes
<1>6. TypeOK'
  BY <1>1, <1>2, <1>5 DEF IInv, TypeOK, CallTypes
<1>7. \A j \in Callers : (RowAtHand(j) /\ Reached(j))'
  BY <1>2, <1>3, <1>4 DEF IInv, RowAtHand, Reached, HasRow, Works, Busy
<1>8. CreatingIsWorkedOn' /\ RecordedDraftExists'
  BY <1>1, <1>2, <1>4 DEF IInv, CreatingIsWorkedOn, RecordedDraftExists, Works, Busy
<1>9. ASSUME NEW j \in Callers, Busy(j)', ~call'[j].hindered  PROVE Lonely(j)'
  <2>1. CASE j = k
    <3>1. same = {} /\ pull[l] # "changed" /\ l \notin held
      BY <1>3, <1>9, <2>1
    <3> QED
      BY <1>2, <1>3, <1>4, <2>1, <3>1 DEF Lonely, Busy
  <2>2. CASE j # k
    <3>1. Busy(j) /\ ~call[j].hindered /\ call[j].loop # l
      BY <1>4, <1>9, <2>2 DEF Busy
    <3>2. Lonely(j)
      BY <3>1 DEF IInv, LonelyInv
    <3>3. \A i \in Callers \ {j} : Busy(i)' => call'[i].loop # call'[j].loop
      BY <1>3, <1>4, <2>2, <3>1, <3>2 DEF Lonely, Busy
    <3> QED
      BY <1>2, <1>4, <2>2, <3>2, <3>3 DEF Lonely, RowsOf
  <2> QED  BY <2>1, <2>2
<1> QED
  BY <1>6, <1>7, <1>8, <1>9 DEF IInv, LonelyInv

LEMMA CrashStep ==
  ASSUME IInv, Crash
  PROVE  IInv'
<1>1. CallTypes /\ stuck \in SUBSET Nat /\ faults \in 0 .. MaxFaults /\ MaxFaults \in Nat
  BY PullRequestsAssumption DEF IInv, TypeOK, CallTypes
<1>2. \A k \in Callers : call'[k].pc = "idle"
  BY DEF Crash, NoCall
<1>3. stuck' \in SUBSET Nat /\ stuck \subseteq stuck' /\ \A k \in Callers : call[k].row \in stuck'
  BY <1>1 DEF Crash, CallTypes, CallRecord
<1>4. UNCHANGED <<rows, remote, pull, calls>>
  BY DEF Crash
<1>5. TypeOK'
  <2>1. NoCall \in CallRecord
    BY DEF NoCall, CallRecord, CallPcs
  <2>2. call' \in [Callers -> CallRecord]
    BY <2>1 DEF Crash
  <2>3. held' \in SUBSET Loops /\ faults' \in 0 .. MaxFaults
    BY <1>1 DEF Crash, IInv, TypeOK
  <2> QED
    BY <1>3, <1>4, <2>2, <2>3 DEF IInv, TypeOK
<1>6. CreatingIsWorkedOn'
  BY <1>3, <1>4 DEF IInv, CreatingIsWorkedOn
<1> QED
  BY <1>2, <1>4, <1>5, <1>6
     DEF IInv, LonelyInv, RowAtHand, Reached, RecordedDraftExists, HasRow, Works, Busy

LEMMA PersonActsStep ==
  ASSUME IInv, NEW l \in Loops, PersonActs(l)
  PROVE  IInv'
<1>1. CallTypes /\ pull \in [Loops -> PullStates]
  BY DEF IInv, TypeOK, CallTypes
<1>2. UNCHANGED <<rows, remote, held, calls, faults, stuck>>
  BY DEF PersonActs
<1>3. /\ pull' \in [Loops -> PullStates]
      /\ \A m \in Loops : pull[m] # "none" => pull'[m] # "none"
      /\ \A m \in Loops \ {l} : pull'[m] = pull[m]
  BY <1>1 DEF PersonActs, PullStates
<1>4. \A k \in Callers :
         /\ call'[k].pc = call[k].pc /\ call'[k].loop = call[k].loop
         /\ call'[k].row = call[k].row /\ call'[k].lease = call[k].lease
         /\ call'[k].ok = call[k].ok
         /\ ~call'[k].hindered => ~call[k].hindered /\ call[k].loop # l
  BY <1>1 DEF PersonActs, CallTypes, CallRecord
<1>5. TypeOK'
  <2>1. \A k \in Callers : [call[k] EXCEPT !.hindered = TRUE] \in CallRecord
    BY <1>1 DEF CallTypes, CallRecord
  <2>2. call' \in [Callers -> CallRecord]
    BY <1>1, <2>1 DEF PersonActs, CallTypes
  <2> QED
    BY <1>2, <1>3, <2>2 DEF IInv, TypeOK
<1>6. \A k \in Callers : RowAtHand(k)'
  BY <1>2, <1>4 DEF IInv, RowAtHand, HasRow, Works, Busy
<1>7. \A k \in Callers : Reached(k)'
  BY <1>2, <1>3, <1>4 DEF IInv, Reached, RowAtHand, Busy
<1>8. CreatingIsWorkedOn'
  BY <1>2, <1>4 DEF IInv, CreatingIsWorkedOn, Works
<1>9. RecordedDraftExists'
  <2>1. \A i \in DOMAIN rows : rows[i] \in RowRecord
    BY DEF IInv, TypeOK
  <2> QED
    BY <1>2, <1>3, <2>1 DEF IInv, RecordedDraftExists, RowRecord
<1>10. ASSUME NEW k \in Callers, Busy(k)', ~call'[k].hindered  PROVE Lonely(k)'
  <2>1. Lonely(k) /\ call[k].loop \in Loops \ {l}
    BY <1>4, <1>10 DEF IInv, LonelyInv, RowAtHand, Busy
  <2> QED
    BY <1>2, <1>3, <1>4, <2>1 DEF Lonely, RowsOf, Busy
<1> QED
  BY <1>5, <1>6, <1>7, <1>8, <1>9, <1>10 DEF IInv, LonelyInv
-----------------------------------------------------------------------------
(* The invariant *)

LEMMA InitInv == Init => IInv
<1> SUFFICES ASSUME Init PROVE IInv
  OBVIOUS
<1>1. NoCall \in CallRecord /\ NoCall.pc = "idle"
  BY DEF NoCall, CallRecord, CallPcs
<1>2. rows \in Seq(RowRecord) /\ DOMAIN rows = {}
  BY DEF Init
<1>3. TypeOK
  BY <1>1, <1>2, PullRequestsAssumption DEF Init, TypeOK, PullStates
<1>4. \A k \in Callers : call[k].pc = "idle"
  BY <1>1 DEF Init
<1> QED
  BY <1>2, <1>3, <1>4 DEF IInv, LonelyInv, RowAtHand, Reached, CreatingIsWorkedOn,
                          RecordedDraftExists, HasRow, Works, Busy

LEMMA StepInv ==
  ASSUME IInv, NEW k \in Callers, Step(k)
  PROVE  IInv'
<1>1. Busy(k)
  BY DEF Step, Busy, Read, Insert, Claim, Checkout, ReadRemote, Push, Release, Find, Post,
         Record, Event, Fail
<1>2. Keeps(k)
  BY ReadStep, InsertStep, ClaimStep, CheckoutStep, ReadRemoteStep, PushStep, ReleaseStep,
     FindStep, PostStep, RecordStep, EventStep, FailStep DEF Step
<1> QED
  BY <1>1, <1>2, KeepsInv

LEMMA FaultInv ==
  ASSUME IInv, NEW k \in Callers,
         \/ ReleaseFails(k) \/ PostAnswerLost(k) \/ ReadThrows(k) \/ Throws(k)
         \/ BranchThrows(k) \/ FailThrows(k)
  PROVE  IInv'
<1>1. Busy(k)
  BY DEF Busy, ReleaseFails, PostAnswerLost, ReadThrows, Throws, BranchThrows, FailThrows
<1>2. Keeps(k)
  BY ReleaseFailsStep, PostAnswerLostStep, ReadThrowsStep, ThrowsStep, BranchThrowsStep,
     FailThrowsStep
<1> QED
  BY <1>1, <1>2, KeepsInv

LEMMA StutterInv == IInv /\ UNCHANGED vars => IInv'
  BY DEF vars, IInv, TypeOK, RowAtHand, CreatingIsWorkedOn, RecordedDraftExists, Reached,
         LonelyInv, Lonely, HasRow, Works, Busy, RowsOf

LEMMA NextInv == IInv /\ [Next]_vars => IInv'
<1> SUFFICES ASSUME IInv, [Next]_vars PROVE IInv'
  OBVIOUS
<1>1. CASE UNCHANGED vars
  BY <1>1, StutterInv
<1>2. CASE Crash
  BY <1>2, CrashStep
<1>3. CASE \E l \in Loops : PersonActs(l)
  BY <1>3, PersonActsStep
<1>4. ASSUME NEW k \in Callers, Step(k) PROVE IInv'
  BY <1>4, StepInv
<1>5. ASSUME NEW k \in Callers, NEW l \in Loops, Request(k, l) PROVE IInv'
  BY <1>5, RequestStep
<1>6. ASSUME NEW k \in Callers,
             \/ ReleaseFails(k) \/ PostAnswerLost(k) \/ ReadThrows(k) \/ Throws(k)
             \/ BranchThrows(k) \/ FailThrows(k)
      PROVE  IInv'
  BY <1>6, FaultInv
<1> QED
  BY <1>1, <1>2, <1>3, <1>4, <1>5, <1>6 DEF Next

LEMMA Invariance == Spec => []IInv
  BY InitInv, NextInv, PTL DEF Spec
-----------------------------------------------------------------------------
(* Theorems *)

(* Every step keeps the types of rows, branches, pull requests and calls.  *)
THEOREM PullRequestsTypeCorrect == Spec => []TypeOK
<1>1. IInv => TypeOK
  BY DEF IInv
<1> QED
  BY <1>1, Invariance, PTL

(* A row that says 'creating', for which routes/pull-requests.ts answers   *)
(* 409, has a call working on it, or its last call ended in a crash or in  *)
(* a failing write of its own catch.                                       *)
THEOREM CreatingIsNeverForgotten == Spec => []CreatingHasCaller
<1>1. IInv => CreatingHasCaller
  BY DEF IInv, CreatingIsWorkedOn, CreatingHasCaller, Works, Busy
<1> QED
  BY <1>1, Invariance, PTL

(* A row says 'draft_created' only for a branch that was pushed and a pull *)
(* request that was opened.                                                *)
THEOREM DraftIsReal == Spec => []RecordedDraftExists
<1>1. IInv => RecordedDraftExists
  BY DEF IInv
<1> QED
  BY <1>1, Invariance, PTL

(* Nothing an earlier call left behind makes a later call fail: a call     *)
(* fails only by a fault, another call of its loop, a worktree left behind *)
(* or a person.                                                            *)
THEOREM RetrySucceeds == Spec => []LonelyCallSucceeds
<1>1. IInv => LonelyCallSucceeds
  BY DEF IInv, LonelyInv, Lonely, LonelyCallSucceeds, Busy
<1> QED
  BY <1>1, Invariance, PTL

(* A recorded draft is lost from its row only by a call that met a fault   *)
(* or another call of its loop.                                            *)
THEOREM DraftIsKept == Spec => RecordedDraftStays
<1> DEFINE Lost(i) == rows[i].status = "draft_created" /\ rows'[i].status # "draft_created"
           Kept == \A i \in DOMAIN rows : Lost(i) =>
                      \E k \in Callers : call[k].row = i /\ call[k].hindered
<1>1. ASSUME IInv, Next PROVE Kept
  <2> SUFFICES ASSUME NEW i \in DOMAIN rows, Lost(i)
               PROVE  \E k \in Callers : call[k].row = i /\ call[k].hindered
    OBVIOUS
  <2>1. PICK k \in Callers : Insert(k) \/ Claim(k) \/ Record(k) \/ Fail(k)
    BY <1>1 DEF Next, Step, Read, Checkout, ReadRemote, Push, Release, Find, Post, Event,
       Request, ReleaseFails, PostAnswerLost, ReadThrows, Throws, BranchThrows, FailThrows,
       Crash, PersonActs
  <2>2. ~Insert(k)
    <3> SUFFICES ASSUME Insert(k) PROVE FALSE
      OBVIOUS
    <3>1. call[k].loop \in Loops /\ rows \in Seq(RowRecord)
      BY <1>1 DEF IInv, RowAtHand, TypeOK, Insert, Busy
    <3> QED
      BY <3>1, InsertEffect DEF Insert
  <2>3. ~Record(k) /\ call[k].row = i
    BY <1>1, <2>1, <2>2, SetRowEffect
       DEF IInv, TypeOK, RowAtHand, HasRow, Works, RowStatuses, Claim, Record, Fail
  <2>4. ~Lonely(k)
    BY <2>1, <2>2, <2>3 DEF Lonely, Claim, Fail
  <2> QED
    BY <1>1, <2>1, <2>2, <2>3, <2>4 DEF IInv, LonelyInv, Busy, Claim, Fail
<1>2. ASSUME IInv, UNCHANGED vars PROVE Kept
  BY <1>2 DEF vars
<1>3. IInv /\ [Next]_vars => [Kept]_vars
  BY <1>1
<1> QED
  BY <1>3, Invariance, PTL DEF Spec, RecordedDraftStays

(* A loop gets a second row only from calls that overlapped.               *)
THEOREM SecondRowIsARace == Spec => SecondRowNeedsOverlap
<1> DEFINE Raced == \A k \in Callers :
                       Insert(k) /\ RowsOf(call[k].loop) # {} => call[k].hindered
<1>1. IInv /\ [Next]_vars => [Raced]_vars
  BY DEF IInv, LonelyInv, Lonely, Busy, Insert
<1> QED
  BY <1>1, Invariance, PTL DEF Spec, SecondRowNeedsOverlap
=============================================================================
