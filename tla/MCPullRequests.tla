--------------------------- MODULE MCPullRequests ---------------------------
(* Symmetry of the TLC run of PullRequests. *)
EXTENDS PullRequests, TLC

Symmetric == Permutations(Callers)
=============================================================================
