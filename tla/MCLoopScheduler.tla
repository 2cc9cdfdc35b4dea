-------------------------- MODULE MCLoopScheduler --------------------------
(* Constants of the TLC runs of LoopScheduler. *)
EXTENDS LoopScheduler

Approved == [c \in Candidates |-> "approved"]
Proposed == [c \in Candidates |-> "proposed"]
(* The first candidate waits for a person, the others were approved. *)
FirstProposed == [c \in Candidates |-> IF c = 1 THEN "proposed" ELSE "approved"]

Requesting(start, stop, cancel, approve, dismiss, review) ==
    [r \in Requests |->
        CASE r = "start" -> start
          [] r = "stop" -> stop
          [] r = "cancel" -> cancel
          [] r = "approve" -> approve
          [] r = "dismiss" -> dismiss
          [] r = "review" -> review]

SafetyQuota == Requesting(2, 1, 0, 1, 1, 0)
LivenessQuota == Requesting(1, 1, 1, 0, 0, 0)
QuietQuota == Requesting(2, 0, 0, 1, 0, 1)
StartOnce == Requesting(1, 0, 0, 0, 0, 0)
StartTwice == Requesting(2, 0, 0, 0, 0, 0)
StartAndCancel == Requesting(1, 0, 1, 0, 0, 0)
=============================================================================
