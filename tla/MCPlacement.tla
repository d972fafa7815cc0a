----------------------------- MODULE MCPlacement -----------------------------
(***************************************************************************)
(* Two applications whose drawers have one name, a package of files beside *)
(* them, a root and one directory outside it.                              *)
(***************************************************************************)
EXTENDS Placement, TLC

CONSTANTS r1, r2

TwoDrawers ==
    [p \in Package |->
        CASE p = "quake" -> <<{<<"Games", "Quake", "prog">>, <<"Games", "Quake", "icon">>},
                              {<<"Games", "Quake", "prog">>, <<"Games", "Quake", "data", "new">>}>>
          [] p = "demo" -> <<{<<"Demo", "Quake", "prog">>}, {<<"Demo", "Quake", "prog">>, <<"C", "tool">>}>>
          [] p = "maps" -> <<{<<"Games", "Quake", "maps">>}, {}>>]
AnyRun == Permutations(Run)
Applications == {"quake", "demo"}
TheRoot == <<"SYS">>
Work == <<"Work">>
Games == <<"SYS", "Games">>
At == {Work, Games}
=============================================================================
