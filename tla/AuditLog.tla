------------------------------ MODULE AuditLog ------------------------------
(* The audit log of the cleaner (cleaner/audit.rs): an append-only file of   *)
(* lines, one JSON record per line.  `writeln!` on an unbuffered File is two *)
(* write(2) calls, the text of the record and then the line feed, so the     *)
(* file is modelled as the sequence of the pieces that were written:         *)
(*   - a whole record, [op |-> "commit" | "restore" | "purge", batch |-> b]; *)
(*   - a line feed, Newline;                                                 *)
(*   - a strict prefix of a record left by a short write, Torn.              *)
(* A line parses exactly when it holds one whole record and nothing else.    *)
EXTENDS Naturals, Sequences

CONSTANTS Batch,    \* batch ids handed out by new_batch_id (never reused)
          NoBatch   \* stands for None

ASSUME NoBatchAssumption == NoBatch \notin Batch

Newline == [op |-> "newline", batch |-> NoBatch]
Torn    == [op |-> "torn",    batch |-> NoBatch]

ConsumeOp == {"restore", "purge"}
RecordOp  == {"commit"} \cup ConsumeOp

Record == [op : RecordOp, batch : Batch]
Piece  == Record \cup {Newline, Torn}

(* Piece i is a record that read_all returns: a whole record, alone on its   *)
(* line.  The last line needs no line feed (str::lines).                     *)
Readable(log, i) == /\ log[i].op \in RecordOp
                    /\ i = 1 \/ log[i-1] = Newline
                    /\ i = Len(log) \/ log[i+1] = Newline

Logged(log, op, b) ==
  \E i \in DOMAIN log : Readable(log, i) /\ log[i].op = op /\ log[i].batch = b

(* The commit records no later restore or purge record consumes.             *)
Candidates(log) ==
  {i \in DOMAIN log :
     /\ Readable(log, i)
     /\ log[i].op = "commit"
     /\ \A j \in (i+1)..Len(log) :
          Readable(log, j) /\ log[j].op \in ConsumeOp => log[j].batch # log[i].batch}

IsLatest(log, i) == /\ i \in Candidates(log)
                    /\ \A j \in Candidates(log) : j <= i

(* latest_commit: the batch of the last such record.                         *)
LatestCommit(log) ==
  IF \E i \in DOMAIN log : IsLatest(log, i)
    THEN log[CHOOSE i \in DOMAIN log : IsLatest(log, i)].batch
    ELSE NoBatch
=============================================================================
