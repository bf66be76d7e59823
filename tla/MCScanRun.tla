------------------------------ MODULE MCScanRun ------------------------------
(* ScanRun for TLC: two roots, one with two directories.                     *)
EXTENDS ScanRun

CONSTANTS r1, r2, d1, d2, d3, f1, f2, f3, f4

MCRootOf == [d \in Dir |-> IF d = d3 THEN r2 ELSE r1]
MCDirOf  == [f \in File |-> IF f = f3 THEN d3 ELSE IF f = f2 THEN d2 ELSE d1]
=============================================================================
