----------------------------- MODULE Worktrees -----------------------------
(***************************************************************************)
(* The git worktrees of one repository and the lock file under which they  *)
(* are added and removed (workspace-runner/src/worktree.ts).  Each         *)
(* worktree has one createWorktree and one removeWorktree in its life, an  *)
(* action per await of theirs.  The bound on the failing calls is the      *)
(* concern of the module that composes this one.                           *)
(***************************************************************************)
CONSTANTS
    Worktrees   \* the worktrees of all runs

VARIABLES
    lock,   \* the worktree whose call made the lock file, as a set; {}: no file
    git,    \* where the calls on each worktree are
    dirs    \* worktrees whose directory exists

worktreeVars == <<lock, git, dirs>>

GitPcs ==
    {"idle", "wantAdd", "adding", "added", "failed",
     "wantRemove", "removing", "fallback", "removed", "leaked", "dead"}

(* The git commands that change the worktrees of the repository run here. *)
Mutating(w) == git[w] \in {"adding", "removing"}

Waiting(w) == git[w] \in {"wantAdd", "wantRemove"}

WorktreesTypeOK ==
    /\ lock \in SUBSET Worktrees
    /\ git \in [Worktrees -> GitPcs]
    /\ dirs \in SUBSET Worktrees

WorktreesInit ==
    /\ lock = {}
    /\ git = [w \in Worktrees |-> "idle"]
    /\ dirs = {}

(* One git mutation at a time, and the one that runs has the lock file. *)
LockExclusive == \A w \in Worktrees : Mutating(w) => lock = {w}
-----------------------------------------------------------------------------
(* Mutant: the lock file is opened without the exclusive flag. *)
AcquireShared(w) ==
    /\ Waiting(w)
    /\ lock' = {w}
    /\ git' = [git EXCEPT ![w] = IF @ = "wantAdd" THEN "adding" ELSE "removing"]
    /\ UNCHANGED dirs

(* open(lockPath, 'wx') succeeds only when there is no file. *)
Acquire(w) ==
    /\ Waiting(w)
    /\ lock = {}
    /\ lock' = {w}
    /\ git' = [git EXCEPT ![w] = IF @ = "wantAdd" THEN "adding" ELSE "removing"]
    /\ UNCHANGED dirs

(* A call without the lock fails; removeWorktree's caller falls back to rm. *)
WithoutLock(w) ==
    git' = [git EXCEPT ![w] = IF @ = "wantAdd" THEN "failed" ELSE "fallback"]

(* Mutant: only a lock that is in use is waited for no longer. *)
LockTimeoutInUse(w) ==
    /\ Waiting(w)
    /\ \E v \in lock : Mutating(v)
    /\ WithoutLock(w)
    /\ UNCHANGED <<lock, dirs>>

(* The file has been there for timeoutMs.  Nobody looks at its age or pid. *)
LockTimeout(w) ==
    /\ Waiting(w)
    /\ lock # {}
    /\ WithoutLock(w)
    /\ UNCHANGED <<lock, dirs>>

(* The file is made but its text cannot be written: nobody removes it. *)
LockWriteFails(w) ==
    /\ Waiting(w)
    /\ lock = {}
    /\ lock' = {w}
    /\ WithoutLock(w)
    /\ UNCHANGED dirs
-----------------------------------------------------------------------------
Add(w) ==
    /\ git[w] = "adding"
    /\ git' = [git EXCEPT ![w] = "added"]
    /\ dirs' = dirs \union {w}
    /\ lock' = {}

AddFails(w) ==
    /\ git[w] = "adding"
    /\ git' = [git EXCEPT ![w] = "failed"]
    /\ lock' = {}
    /\ UNCHANGED dirs

(* git worktree remove, or rm and a prune when it fails. *)
Remove(w) ==
    /\ git[w] = "removing"
    /\ git' = [git EXCEPT ![w] = "removed"]
    /\ dirs' = dirs \ {w}
    /\ lock' = {}

RemoveFails(w) ==
    /\ git[w] = "removing"
    /\ git' = [git EXCEPT ![w] = "fallback"]
    /\ lock' = {}
    /\ UNCHANGED dirs

(* runKernel's own rm, without the lock. *)
Fallback(w) ==
    /\ git[w] = "fallback"
    /\ git' = [git EXCEPT ![w] = "removed"]
    /\ dirs' = dirs \ {w}
    /\ UNCHANGED lock

(* Its failure is swallowed. *)
FallbackFails(w) ==
    /\ git[w] = "fallback"
    /\ git' = [git EXCEPT ![w] = "leaked"]
    /\ UNCHANGED <<lock, dirs>>
-----------------------------------------------------------------------------
(* The process ends: a lock file it made is left. *)
KillGit(ws) ==
    /\ git' = [w \in Worktrees |-> IF w \in ws THEN "dead" ELSE git[w]]
    /\ UNCHANGED <<lock, dirs>>
=============================================================================
