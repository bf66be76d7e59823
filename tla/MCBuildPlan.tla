---------------------------- MODULE MCBuildPlan ----------------------------
(* A home folder with a primary folder, a cache and a link, and the folder   *)
(* of a system folder beside it.                                             *)
EXTENDS BuildPlan

MCHome == <<"/", "u">>

MCBlocklist == {<<"/">>, <<"/", "usr", "lib">>}

U(p) == MCHome \o p

MCNode ==
  {<<"/">>, <<"/", "usr">>, U(<<>>), U(<<"docs">>), U(<<"docs", "f">>),
   U(<<"c">>), U(<<"c", "a">>), U(<<"c", "b">>), U(<<"c", "b", "g">>), U(<<"l">>)}

MCKind == [n \in MCNode |->
  CASE n \in {U(<<"docs", "f">>), U(<<"c", "a">>), U(<<"c", "b", "g">>)} -> "File"
    [] n = U(<<"l">>) -> "Symlink"
    [] OTHER -> "Directory"]

MCSize == [n \in MCNode |-> IF n = U(<<"c", "a">>) THEN 5 ELSE Len(n)]

MCStart == {MCNode, MCNode \ {U(<<"c", "a">>), U(<<"l">>)}}

MCRaw ==
  {<<"/", "..">>, <<"c">>, <<"/", "usr">>, U(<<>>), U(<<"docs">>), U(<<"docs", "f">>),
   U(<<"c">>), U(<<"c", "b", "..", ".", "a">>), U(<<"c", "a">>), U(<<"c", ".", "b">>), U(<<"c", "b", "g">>), U(<<"l">>)}
=============================================================================
