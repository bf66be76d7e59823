----------------------------- MODULE MCPlanCache -----------------------------
(* PlanCache for TLC: a folder of caches and a browser's cache in it, which  *)
(* two screens offer.  Threads and tokens are interchangeable.               *)
EXTENDS PlanCache, TLC

MCPath == {"caches", "caches/browser"}
MCBelow == ("caches" :> {"caches/browser"}) @@ ("caches/browser" :> {})

Symmetry == Permutations(Thread) \cup Permutations(Token)
=============================================================================
