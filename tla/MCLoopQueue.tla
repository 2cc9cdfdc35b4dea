---------------------------- MODULE MCLoopQueue ----------------------------
(* Constants of the TLC runs of LoopQueue. *)
EXTENDS LoopQueue

Requesting(create, retry, cancel) ==
    [r \in Requests |-> CASE r = "create" -> create
                          [] r = "retry" -> retry
                          [] r = "cancel" -> cancel]

ServiceQuota == Requesting(2, 1, 1)
CreateTwice == Requesting(2, 0, 0)
=============================================================================
