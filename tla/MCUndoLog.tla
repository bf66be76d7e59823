------------------------------ MODULE MCUndoLog ------------------------------
(* UndoLog on small instances, beside the reading loops of AuditScan.        *)
EXTENDS UndoLog, AuditScan

(* The reverse scan of latest_commit over the lines read_all accepts finds   *)
(* the commit that LatestCommit defines, on every log a run can write, torn  *)
(* and glued lines included.                                                 *)
ScanAgrees == latest_commit(log) = LatestCommit(log)

Symmetry == Permutations(Item) \cup Permutations(Worker)
=============================================================================
