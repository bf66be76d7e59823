------------------------------ MODULE AuditScan ------------------------------
(* read_all and latest_commit as the loops the code runs, to be compared     *)
(* with the declarative LatestCommit of AuditLog on every log a run reaches. *)
EXTENDS AuditLog, SequencesExt

(* One piece of the file: a line feed ends the current line and keeps its    *)
(* record if the line parses, anything else extends the line.                *)
ParsedLine(line) ==
  IF Len(line) = 1 /\ line[1].op \in RecordOp THEN line ELSE << >>

ReadPiece(acc, piece) ==
  IF piece = Newline
    THEN [out |-> acc.out \o ParsedLine(acc.line), line |-> << >>]
    ELSE [acc EXCEPT !.line = Append(@, piece)]

read_all(log) ==
  LET end == FoldLeft(ReadPiece, [out |-> << >>, line |-> << >>], log)
  IN  end.out \o ParsedLine(end.line)

(* Mutant: the scan forgets which batches it saw consumed.                   *)
BadScanRecord(rec, acc) ==
  IF acc.found = NoBatch /\ rec.op = "commit" THEN [acc EXCEPT !.found = rec.batch] ELSE acc

(* One record of the reverse scan.  Once a batch is found the loop returns.  *)
ScanRecord(rec, acc) ==
  IF acc.found # NoBatch THEN acc
  ELSE IF rec.op \in ConsumeOp THEN [acc EXCEPT !.consumed = @ \cup {rec.batch}]
  ELSE IF rec.batch \notin acc.consumed THEN [acc EXCEPT !.found = rec.batch]
  ELSE acc

latest_commit(log) ==
  FoldRight(ScanRecord, read_all(log), [found |-> NoBatch, consumed |-> {}]).found
=============================================================================
