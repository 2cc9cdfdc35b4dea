---------------------------- MODULE MCKernelRun ----------------------------
(* Constants of the TLC runs of KernelRun. *)
EXTENDS KernelRun

AllWorktrees == Runs \X {"candidate", "base"}

(* A guard, and a required gate the baseline runs as well. *)
KernelGates ==
    <<[type |-> "integrity", required |-> TRUE, check |-> "test-integrity"],
      [type |-> "security", required |-> TRUE, check |-> "none"]>>
=============================================================================
