------------------------------ MODULE MCStreams ------------------------------
(* Streams for TLC.  Three files and three contents: a1 and a2 share their   *)
(* size and their first page, b is a sparse copy of a1.                      *)
EXTENDS Streams, TLC

CONSTANTS a1, a2, b, f1, f2, f3, h1

MCSize  == (a1 :> 1) @@ (a2 :> 1) @@ (b :> 2)
MCHead  == (a1 :> 1) @@ (a2 :> 1) @@ (b :> 1)
MCFull  == (a1 :> 1) @@ (a2 :> 2) @@ (b :> 1)
MCSweep == (f1 :> 1) @@ (f2 :> 2) @@ (f3 :> 3)
=============================================================================
