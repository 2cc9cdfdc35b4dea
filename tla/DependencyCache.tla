-------------------------- MODULE DependencyCache --------------------------
(***************************************************************************)
(* provisionDependencies (workspace-runner/src/deps.ts): node_modules of a *)
(* worktree, copied from the cache entry of its lockfile or installed and  *)
(* then stored there.  One lockfile, so one entry: a tree and, beside it,  *)
(* the integrity manifest that is written last.  Nothing locks the entry   *)
(* and nothing stops a provision whose run has ended.  A tree is whole or  *)
(* partial; two partial trees are taken to be equal.                       *)
(***************************************************************************)
EXTENDS Worktrees

VARIABLES
    prov,      \* the provision of each worktree: pc, and the tree it last saw
    modules,   \* node_modules of each worktree
    tree,      \* the tree of the cache entry
    manifest,  \* the tree its manifest describes
    torn       \* worktrees whose provision lost files to another call while
               \* it copied, installed or hashed them

cacheVars == <<prov, modules, tree, manifest, torn>>

Trees == {"none", "partial", "whole"}
ProvPcs ==
    {"idle", "check", "copying", "evict", "install", "store", "storing",
     "hash", "seal", "done", "failed", "dead"}

CacheTypeOK ==
    /\ prov \in [Worktrees -> [pc : ProvPcs, seen : Trees]]
    /\ modules \in [Worktrees -> Trees]
    /\ tree \in Trees
    /\ manifest \in Trees
    /\ torn \in SUBSET Worktrees

CacheInit ==
    /\ prov = [w \in Worktrees |-> [pc |-> "idle", seen |-> "none"]]
    /\ modules = [w \in Worktrees |-> "none"]
    /\ tree = "none"
    /\ manifest = "none"
    /\ torn = {}

ProvEnded(w) == prov[w].pc \in {"idle", "done", "failed", "dead"}

(* The other provisions that read or write the files of the cache entry. *)
UsersBesides(w) ==
    {v \in Worktrees \ {w} : prov[v].pc \in {"copying", "storing", "hash", "seal"}}

ProvTo(w, pc, seen) == prov' = [prov EXCEPT ![w] = [pc |-> pc, seen |-> seen]]
-----------------------------------------------------------------------------
(* Mutant: an entry is used without its manifest being compared. *)
ProvCheckTrusting(w) ==
    /\ prov[w].pc = "check"
    /\ IF w \notin dirs THEN ProvTo(w, "done", "none")
       ELSE IF tree = "none" THEN ProvTo(w, "install", "none")
       ELSE ProvTo(w, "copying", tree)
    /\ UNCHANGED <<modules, tree, manifest, torn, dirs>>

(* A worktree that is gone has no lockfile: skipped.  An entry whose       *)
(* manifest describes its tree is copied, any other entry is evicted.      *)
ProvCheck(w) ==
    /\ prov[w].pc = "check"
    /\ IF w \notin dirs THEN ProvTo(w, "done", "none")
       ELSE IF tree = "none" THEN ProvTo(w, "install", "none")
       ELSE IF manifest = tree THEN ProvTo(w, "copying", tree)
       ELSE ProvTo(w, "evict", "none")
    /\ UNCHANGED <<modules, tree, manifest, torn, dirs>>

(* copyNodeModules makes the directory of the worktree again if it is gone. *)
CopyHit(w) ==
    /\ prov[w].pc = "copying"
    /\ modules' = [modules EXCEPT ![w] = IF w \in torn THEN "partial" ELSE prov[w].seen]
    /\ dirs' = dirs \union {w}
    /\ ProvTo(w, "done", "none")
    /\ UNCHANGED <<tree, manifest, torn>>

Evict(w) ==
    /\ prov[w].pc = "evict"
    /\ tree' = "none"
    /\ manifest' = "none"
    /\ torn' = torn \union UsersBesides(w)
    /\ ProvTo(w, "install", "none")
    /\ UNCHANGED <<modules, dirs>>

(* The installer gets no signal and no timeout. *)
Install(w) ==
    /\ prov[w].pc = "install"
    /\ w \in dirs \union torn
    /\ modules' = [modules EXCEPT ![w] = IF w \in torn THEN "partial" ELSE "whole"]
    /\ dirs' = dirs \union {w}
    /\ ProvTo(w, "store", "none")
    /\ UNCHANGED <<tree, manifest, torn>>

(* The copy begins with an rm of the entry's tree; the manifest stays. *)
StoreBegin(w) ==
    /\ prov[w].pc = "store"
    /\ modules[w] # "none"
    /\ tree' = "partial"
    /\ torn' = torn \union UsersBesides(w)
    /\ ProvTo(w, "storing", modules[w])
    /\ UNCHANGED <<modules, manifest, dirs>>

(* The tree is whole once one undisturbed copy of a whole tree is in it. *)
StoreEnd(w) ==
    /\ prov[w].pc = "storing"
    /\ tree' = IF prov[w].seen = "whole" /\ w \notin torn THEN "whole"
               ELSE IF tree = "none" THEN "partial" ELSE tree
    /\ ProvTo(w, "hash", "none")
    /\ UNCHANGED <<modules, manifest, torn, dirs>>

Hash(w) ==
    /\ prov[w].pc = "hash"
    /\ tree # "none"
    /\ ProvTo(w, "seal", tree)
    /\ UNCHANGED <<modules, tree, manifest, torn, dirs>>

Seal(w) ==
    /\ prov[w].pc = "seal"
    /\ tree # "none"
    /\ manifest' = prov[w].seen
    /\ ProvTo(w, "done", "none")
    /\ UNCHANGED <<modules, tree, torn, dirs>>

ProvStep(w) ==
    \/ ProvCheck(w) \/ CopyHit(w) \/ Evict(w) \/ Install(w)
    \/ StoreBegin(w) \/ StoreEnd(w) \/ Hash(w) \/ Seal(w)

(* A file that another call removed under this one may make it throw, and  *)
(* one that is missing does.                                               *)
LostFiles(w) ==
    \/ w \in torn /\ prov[w].pc \in {"copying", "install", "storing"}
    \/ w \notin dirs \union torn /\ prov[w].pc = "install"
    \/ modules[w] = "none" /\ prov[w].pc = "store"
    \/ tree = "none" /\ prov[w].pc \in {"hash", "seal"}
    \/ UsersBesides(w) # {} /\ prov[w].pc = "evict"

ProvFails(w) ==
    /\ ~ProvEnded(w)
    /\ ProvTo(w, "failed", "none")
    /\ UNCHANGED <<modules, tree, manifest, torn, dirs>>
-----------------------------------------------------------------------------
(* The worktree is removed under whatever its provision does. *)
LoseModules(w) ==
    /\ modules' = [modules EXCEPT ![w] = "none"]
    /\ torn' = IF ProvEnded(w) THEN torn ELSE torn \union {w}
    /\ UNCHANGED <<prov, tree, manifest>>

KillProvisions(ws) ==
    /\ prov' = [w \in Worktrees |->
                   IF w \in ws THEN [pc |-> "dead", seen |-> "none"] ELSE prov[w]]
    /\ UNCHANGED <<modules, tree, manifest, torn>>
=============================================================================
