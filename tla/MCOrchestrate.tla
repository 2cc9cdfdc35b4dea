---- MODULE MCOrchestrate ----
(* Two patches of equal size, one of them changing a test; a pool of two     *)
(* builders with challengers (the cap of three candidates cuts the second    *)
(* one off), or single builders with a round of recovery.                    *)
EXTENDS Orchestrate

SmallPatches == {[name |-> "p", tests |-> 0, size |-> 1], [name |-> "q", tests |-> 1, size |-> 1]}

Asked(recovery, challengers, skip, promote, draft) ==
    [recovery |-> recovery, challengers |-> challengers, skipFinalReverify |-> skip,
     promoteBranch |-> promote, githubDraftPr |-> draft]

CliOptions ==
    {Asked(<<2>>, <<1>>, FALSE, TRUE, TRUE), Asked(<<2>>, <<2>>, FALSE, TRUE, FALSE),
     Asked(<<2>>, <<>>, TRUE, TRUE, TRUE), Asked(<<1, 1>>, <<1>>, TRUE, FALSE, FALSE),
     Asked(<<1, 1>>, <<1>>, FALSE, FALSE, FALSE)}
====
