------------------------------- MODULE UndoLog -------------------------------
(* The cleaner's batches and its undo log: Cleaner::commit, restore_last,    *)
(* purge_all and sweep_stale (cleaner/mod.rs) down to the file system steps  *)
(* of graveyard.rs and audit.rs they interleave at.                          *)
(*                                                                           *)
(* A worker is a thread or process running one operation at a time: nothing  *)
(* in the code holds a lock across file system calls, and nothing stops two  *)
(* instances of the application from sharing a data directory.  Items are    *)
(* moved whole here; GraveyardMove takes a single move apart.                *)
EXTENDS AuditLog, FiniteSets

CONSTANTS Worker,
          Item,     \* the items of a plan
          Fault,    \* which faults may happen: a subset of FaultKind
          MaxLog    \* bound: no restore starts once the log is this long

FaultKind == {"crash",      \* the process dies between two steps
              "append",     \* a write to audit.log fails, perhaps half way
              "manifest",   \* manifest.json cannot be written whole
              "remove"}     \* remove_dir_all fails half way

ASSUME FaultAssumption == Fault \subseteq FaultKind
ASSUME MaxLogAssumption == MaxLog \in Nat

VARIABLES
  log,       \* audit.log
  dir,       \* the directory of each batch
  place,     \* where each item of each batch is
  manifest,  \* the entries of each batch's manifest.json
  pc,        \* what each worker does next
  op,        \* the operation a worker runs
  cur,       \* the batch it works on
  todo,      \* items or entries its loop has still to visit
  bad,       \* its result has failures
  scan,      \* directory entries read_manifests has still to look at
  pend,      \* manifests read, batches still to be removed
  asked,     \* history: batches some purge picked
  acked      \* history: batches whose commit returned Ok

vars == <<log, dir, place, manifest, pc, op, cur, todo, bad, scan, pend, asked, acked>>

workerVars == <<pc, op, cur, todo, bad, scan, pend>>
loopVars   == <<todo, bad>>
sweepVars  == <<scan, pend>>
history    == <<asked, acked>>

Place == {"home", "trash", "burnt"}

(* "open": being filled, no manifest yet (for ever, if the worker dies);     *)
(* "listed": has a manifest that parses; "broken": lost it, or never got a   *)
(* whole one, and nobody fills it any more.                                  *)
Dir == {"none", "open", "listed", "broken", "gone"}

Pc == {"idle", "moving", "reading", "restoring", "purging", "line", "newline"}
Op == {"none", "commit", "restore", "purge_all", "sweep"}

TypeOK ==
  /\ log \in Seq(Piece)
  /\ dir \in [Batch -> Dir]
  /\ place \in [Batch -> [Item -> Place]]
  /\ manifest \in [Batch -> SUBSET Item]
  /\ pc \in [Worker -> Pc]
  /\ op \in [Worker -> Op]
  /\ cur \in [Worker -> Batch \cup {NoBatch}]
  /\ todo \in [Worker -> SUBSET Item]
  /\ bad \in [Worker -> BOOLEAN]
  /\ scan \in [Worker -> SUBSET Batch]
  /\ pend \in [Worker -> SUBSET Batch]
  /\ asked \subseteq Batch
  /\ acked \subseteq Batch

InTrash(b) == {i \in Item : place[b][i] = "trash"}

Init ==
  /\ log = << >>
  /\ dir = [b \in Batch |-> "none"]
  /\ place = [b \in Batch |-> [i \in Item |-> "home"]]
  /\ manifest = [b \in Batch |-> {}]
  /\ pc = [w \in Worker |-> "idle"]
  /\ op = [w \in Worker |-> "none"]
  /\ cur = [w \in Worker |-> NoBatch]
  /\ todo = [w \in Worker |-> {}]
  /\ bad = [w \in Worker |-> FALSE]
  /\ scan = [w \in Worker |-> {}]
  /\ pend = [w \in Worker |-> {}]
  /\ asked = {}
  /\ acked = {}

(* The operation returns, or its process dies: its local variables are gone. *)
Return(w) ==
  /\ pc' = [pc EXCEPT ![w] = "idle"]
  /\ op' = [op EXCEPT ![w] = "none"]
  /\ cur' = [cur EXCEPT ![w] = NoBatch]
  /\ todo' = [todo EXCEPT ![w] = {}]
  /\ bad' = [bad EXCEPT ![w] = FALSE]
  /\ scan' = [scan EXCEPT ![w] = {}]
  /\ pend' = [pend EXCEPT ![w] = {}]

Goto(w, label) == pc' = [pc EXCEPT ![w] = label]

(* What remove_dir_all leaves when it stops half way: some items are gone,   *)
(* the manifest may be.                                                      *)
RemovePartly(b) ==
  \E K \in SUBSET InTrash(b), after \in {"listed", "broken"} :
    /\ dir[b] = "broken" => after = "broken"
    /\ dir' = [dir EXCEPT ![b] = after]
    /\ place' = [place EXCEPT ![b] = [i \in Item |-> IF i \in K THEN "burnt" ELSE @[i]]]

RemoveWholly(b) ==
  /\ dir' = [dir EXCEPT ![b] = "gone"]
  /\ place' = [place EXCEPT ![b] = [i \in Item |-> IF i \in InTrash(b) THEN "burnt" ELSE @[i]]]

Exists(b) == dir[b] \notin {"none", "gone"}

-----------------------------------------------------------------------------
(* graveyard::commit                                                         *)

(* A fresh batch id, and its directory.  (When create_dir_all fails the      *)
(* operation returns having changed nothing here.)                           *)
CommitBegin(w, b) ==
  /\ pc[w] = "idle"
  /\ dir[b] = "none"
  /\ dir' = [dir EXCEPT ![b] = "open"]
  /\ Goto(w, "moving")
  /\ op' = [op EXCEPT ![w] = "commit"]
  /\ cur' = [cur EXCEPT ![w] = b]
  /\ todo' = [todo EXCEPT ![w] = Item]
  /\ UNCHANGED <<log, place, manifest, bad, sweepVars, history>>

CommitItem(w, i) ==
  /\ pc[w] = "moving"
  /\ i \in todo[w]
  /\ place' = [place EXCEPT ![cur[w]][i] = "trash"]
  /\ todo' = [todo EXCEPT ![w] = @ \ {i}]
  /\ UNCHANGED <<log, dir, manifest, pc, op, cur, bad, sweepVars, history>>

(* The item is protected, or its slot or its move failed: it stays put.      *)
CommitSkip(w, i) ==
  /\ pc[w] = "moving"
  /\ i \in todo[w]
  /\ todo' = [todo EXCEPT ![w] = @ \ {i}]
  /\ UNCHANGED <<log, dir, place, manifest, pc, op, cur, bad, sweepVars, history>>

(* Written after all the moves, with an entry for every item that moved.     *)
WriteManifest(w) ==
  /\ pc[w] = "moving"
  /\ todo[w] = {}
  /\ manifest' = [manifest EXCEPT ![cur[w]] = InTrash(cur[w])]
  /\ dir' = [dir EXCEPT ![cur[w]] = "listed"]
  /\ Goto(w, "line")
  /\ UNCHANGED <<log, place, op, cur, loopVars, sweepVars, history>>

(* commit returns Err: the moved items stay in their slots, unlisted.        *)
WriteManifestFails(w) ==
  /\ "manifest" \in Fault
  /\ pc[w] = "moving"
  /\ todo[w] = {}
  /\ dir' = [dir EXCEPT ![cur[w]] = "broken"]
  /\ Return(w)
  /\ UNCHANGED <<log, place, manifest, history>>

-----------------------------------------------------------------------------
(* Cleaner::restore_last and graveyard::restore_batch.  With no candidate it *)
(* returns NothingToRestore, which changes nothing.                          *)

RestoreBegin(w) ==
  /\ pc[w] = "idle"
  /\ Len(log) < MaxLog
  /\ \E i \in DOMAIN log :
       IsLatest(log, i) /\ cur' = [cur EXCEPT ![w] = log[i].batch]
  /\ Goto(w, "reading")
  /\ op' = [op EXCEPT ![w] = "restore"]
  /\ UNCHANGED <<log, dir, place, manifest, loopVars, sweepVars, history>>

RestoreRead(w) ==
  /\ pc[w] = "reading"
  /\ dir[cur[w]] = "listed"
  /\ todo' = [todo EXCEPT ![w] = manifest[cur[w]]]
  /\ Goto(w, "restoring")
  /\ UNCHANGED <<log, dir, place, manifest, op, cur, bad, sweepVars, history>>

(* "read manifest" or "parse manifest": restore_last returns the error.      *)
RestoreReadFails(w) ==
  /\ pc[w] = "reading"
  /\ dir[cur[w]] # "listed"
  /\ Return(w)
  /\ UNCHANGED <<log, dir, place, manifest, history>>

(* Mutant: the check that the entry is still in its slot is dropped.         *)
BadRestoreItem(w, i) ==
  /\ pc[w] = "restoring"
  /\ i \in todo[w]
  /\ place' = [place EXCEPT ![cur[w]][i] = "home"]
  /\ todo' = [todo EXCEPT ![w] = @ \ {i}]
  /\ UNCHANGED <<log, dir, manifest, pc, op, cur, bad, sweepVars, history>>

RestoreItem(w, i) ==
  /\ pc[w] = "restoring"
  /\ i \in todo[w]
  /\ place[cur[w]][i] = "trash"
  /\ place' = [place EXCEPT ![cur[w]][i] = "home"]
  /\ todo' = [todo EXCEPT ![w] = @ \ {i}]
  /\ UNCHANGED <<log, dir, manifest, pc, op, cur, bad, sweepVars, history>>

(* The entry is missing from the graveyard, the user recreated the path, or  *)
(* the move failed.                                                          *)
RestoreSkip(w, i) ==
  /\ pc[w] = "restoring"
  /\ i \in todo[w]
  /\ todo' = [todo EXCEPT ![w] = @ \ {i}]
  /\ bad' = [bad EXCEPT ![w] = TRUE]
  /\ UNCHANGED <<log, dir, place, manifest, pc, op, cur, sweepVars, history>>

(* Mutant: the batch is removed after a partial restore as well.             *)
BadRestoreClose(w) ==
  /\ pc[w] = "restoring"
  /\ todo[w] = {}
  /\ RemoveWholly(cur[w])
  /\ Goto(w, "line")
  /\ UNCHANGED <<log, manifest, op, cur, loopVars, sweepVars, history>>

(* Only a restore without failures removes the batch; whether the removal    *)
(* works is ignored.                                                         *)
RestoreClose(w) ==
  /\ pc[w] = "restoring"
  /\ todo[w] = {}
  /\ IF bad[w] \/ ~Exists(cur[w])
       THEN UNCHANGED <<dir, place>>
       ELSE RemoveWholly(cur[w]) \/ ("remove" \in Fault /\ RemovePartly(cur[w]))
  /\ Goto(w, "line")
  /\ UNCHANGED <<log, manifest, op, cur, loopVars, sweepVars, history>>

-----------------------------------------------------------------------------
(* graveyard::sweep: purge_all (every batch) and sweep_older_than (the ones  *)
(* past the ttl, here any set).                                              *)

SweepBegin(w, kind, S) ==
  /\ pc[w] = "idle"
  /\ Goto(w, "purging")
  /\ op' = [op EXCEPT ![w] = kind]
  /\ scan' = [scan EXCEPT ![w] = {b \in S : Exists(b)}]
  /\ UNCHANGED <<log, dir, place, manifest, cur, loopVars, pend, history>>

PurgeAll(w) == SweepBegin(w, "purge_all", Batch)

SweepStale(w) == \E S \in SUBSET Batch : SweepBegin(w, "sweep", S)

(* Mutant: batches the log calls restored are taken for empty and skipped.   *)
LazyReadManifest(w, b) ==
  /\ pc[w] = "purging"
  /\ b \in scan[w]
  /\ scan' = [scan EXCEPT ![w] = @ \ {b}]
  /\ IF dir[b] = "listed" /\ ~Logged(log, "restore", b)
       THEN pend' = [pend EXCEPT ![w] = @ \cup {b}] /\ asked' = asked \cup {b}
       ELSE UNCHANGED <<pend, asked>>
  /\ UNCHANGED <<log, dir, place, manifest, pc, op, cur, loopVars, acked>>

(* One directory entry of read_manifests: kept when its manifest parses.     *)
(* The loop over what was kept starts after the last entry.                  *)
ReadManifest(w, b) ==
  /\ pc[w] = "purging"
  /\ b \in scan[w]
  /\ scan' = [scan EXCEPT ![w] = @ \ {b}]
  /\ IF dir[b] = "listed"
       THEN pend' = [pend EXCEPT ![w] = @ \cup {b}] /\ asked' = asked \cup {b}
       ELSE UNCHANGED <<pend, asked>>
  /\ UNCHANGED <<log, dir, place, manifest, pc, op, cur, loopVars, acked>>

(* Mutant: no purge record is written.                                       *)
SilentPurgeBatch(w, b) ==
  /\ pc[w] = "purging"
  /\ scan[w] = {} /\ b \in pend[w]
  /\ Exists(b)
  /\ RemoveWholly(b)
  /\ pend' = [pend EXCEPT ![w] = @ \ {b}]
  /\ UNCHANGED <<log, manifest, pc, op, cur, loopVars, scan, history>>

PurgeBatch(w, b) ==
  /\ pc[w] = "purging"
  /\ scan[w] = {} /\ b \in pend[w]
  /\ Exists(b)
  /\ RemoveWholly(b)
  /\ pend' = [pend EXCEPT ![w] = @ \ {b}]
  /\ cur' = [cur EXCEPT ![w] = b]
  /\ Goto(w, "line")
  /\ UNCHANGED <<log, manifest, op, loopVars, scan, history>>

(* Mutant: a purge record is written for a failed removal as well.           *)
BadPurgeBatchFails(w, b) ==
  /\ pc[w] = "purging"
  /\ scan[w] = {} /\ b \in pend[w]
  /\ "remove" \in Fault /\ Exists(b) /\ RemovePartly(b)
  /\ pend' = [pend EXCEPT ![w] = @ \ {b}]
  /\ cur' = [cur EXCEPT ![w] = b]
  /\ Goto(w, "line")
  /\ UNCHANGED <<log, manifest, op, loopVars, scan, history>>

(* remove_dir_all fails: somebody else removed the batch, or a fault.  It is *)
(* reported as failed and gets no record.                                    *)
PurgeBatchFails(w, b) ==
  /\ pc[w] = "purging"
  /\ scan[w] = {} /\ b \in pend[w]
  /\ IF Exists(b)
       THEN "remove" \in Fault /\ RemovePartly(b)
       ELSE UNCHANGED <<dir, place>>
  /\ pend' = [pend EXCEPT ![w] = @ \ {b}]
  /\ bad' = [bad EXCEPT ![w] = TRUE]
  /\ UNCHANGED <<log, manifest, pc, op, cur, todo, scan, history>>

PurgeReturns(w) ==
  /\ pc[w] = "purging"
  /\ scan[w] = {} /\ pend[w] = {}
  /\ Return(w)
  /\ UNCHANGED <<log, dir, place, manifest, history>>

-----------------------------------------------------------------------------
(* audit::append, for any of the three operations                            *)

RecordOf(w) ==
  [op |-> IF op[w] \in {"commit", "restore"} THEN op[w] ELSE "purge", batch |-> cur[w]]

(* After the record a purge goes on with its loop; the others return.        *)
AfterAppend(w) ==
  IF op[w] \in {"commit", "restore"}
    THEN Return(w)
    ELSE Goto(w, "purging") /\ UNCHANGED <<op, cur, loopVars, sweepVars>>

WriteLine(w) ==
  /\ pc[w] = "line"
  /\ log' = Append(log, RecordOf(w))
  /\ Goto(w, "newline")
  /\ UNCHANGED <<dir, place, manifest, op, cur, loopVars, sweepVars, history>>

(* Mutant: write! for writeln!, no line feed.                                *)
BadWriteNewline(w) ==
  /\ pc[w] = "newline"
  /\ acked' = IF op[w] = "commit" THEN acked \cup {cur[w]} ELSE acked
  /\ AfterAppend(w)
  /\ UNCHANGED <<log, dir, place, manifest, asked>>

WriteNewline(w) ==
  /\ pc[w] = "newline"
  /\ log' = Append(log, Newline)
  /\ acked' = IF op[w] = "commit" THEN acked \cup {cur[w]} ELSE acked
  /\ AfterAppend(w)
  /\ UNCHANGED <<dir, place, manifest, asked>>

(* Opening or writing fails.  commit and restore_last return the error       *)
(* without undoing anything, a purge ignores it.                             *)
AppendFails(w) ==
  /\ "append" \in Fault
  /\ \/ pc[w] = "line" /\ log' \in {log, Append(log, Torn)}
     \/ pc[w] = "newline" /\ UNCHANGED log
  /\ AfterAppend(w)
  /\ UNCHANGED <<dir, place, manifest, history>>

-----------------------------------------------------------------------------
Crash(w) ==
  /\ "crash" \in Fault
  /\ pc[w] # "idle"
  /\ Return(w)
  /\ UNCHANGED <<log, dir, place, manifest, history>>

CrashInRemove(w, b) ==
  /\ "crash" \in Fault
  /\ pc[w] = "purging"
  /\ scan[w] = {} /\ b \in pend[w]
  /\ Exists(b)
  /\ RemovePartly(b)
  /\ Return(w)
  /\ UNCHANGED <<log, manifest, history>>

-----------------------------------------------------------------------------
CommitStep(w)  == \/ \E i \in Item : CommitItem(w, i) \/ CommitSkip(w, i)
                  \/ WriteManifest(w) \/ WriteManifestFails(w)
RestoreStep(w) == \/ \E i \in Item : RestoreItem(w, i) \/ RestoreSkip(w, i)
                  \/ RestoreRead(w) \/ RestoreReadFails(w) \/ RestoreClose(w)
PurgeStep(w)   == \/ \E b \in Batch : \/ ReadManifest(w, b)
                                      \/ PurgeBatch(w, b) \/ PurgeBatchFails(w, b)
                  \/ PurgeReturns(w)
AppendStep(w)  == WriteLine(w) \/ WriteNewline(w) \/ AppendFails(w)

Continue(w) == CommitStep(w) \/ RestoreStep(w) \/ PurgeStep(w) \/ AppendStep(w)

Start(w) == \/ \E b \in Batch : CommitBegin(w, b)
            \/ RestoreBegin(w) \/ PurgeAll(w) \/ SweepStale(w)

Die(w) == Crash(w) \/ \E b \in Batch : CrashInRemove(w, b)

Next == \E w \in Worker : Start(w) \/ Continue(w) \/ Die(w)

Spec == Init /\ [][Next]_vars

(* A running operation is never abandoned: its thread is scheduled until it  *)
(* returns.  Nothing makes the user start one.                               *)
FairSpec == Spec /\ \A w \in Worker : WF_vars(Continue(w))

-----------------------------------------------------------------------------
(* Properties                                                                *)

Quiescent == \A w \in Worker : pc[w] = "idle"

(* Items are destroyed only by a purge that had picked their batch: neither  *)
(* a commit nor restore_last removing a batch directory takes an item that   *)
(* was not put back (mod.rs:3 "cleaner never hard-deletes").                 *)
OnlyPurgeBurns == \A b \in Batch : b \in asked \/ \A i \in Item : place[b][i] # "burnt"

(* A commit's batch is out of reach of purges and restores until its         *)
(* manifest is written: nobody else works on it and it is still there.       *)
OpenBatchIsPrivate ==
  \A v, w \in Worker : pc[v] = "moving" =>
    /\ dir[cur[v]] = "open"
    /\ cur[v] \notin asked
    /\ w # v => cur[w] # cur[v]

(* A purge record is never written for a batch that is still in the          *)
(* graveyard (audit.rs:56 "purged batches aren't restorable").               *)
PurgeRecordMeansGone ==
  \A i \in DOMAIN log : log[i].op = "purge" => dir[log[i].batch] = "gone"

(* A record whose line feed was written is read by every later read_all:     *)
(* crashes, failed and concurrent appends cannot corrupt earlier lines.      *)
TerminatedStays ==
  [][\A i \in DOMAIN log : i < Len(log) /\ Readable(log, i) =>
       i \in DOMAIN log' /\ log'[i] = log[i] /\ Readable(log', i)]_vars

(* The abstract trash this implements: every step moves, seals, asks, puts   *)
(* back or burns as SafeTrash allows, or changes nothing it can see.         *)
Promise == INSTANCE SafeTrash WITH sealed <- {b \in Batch : dir[b] \notin {"none", "open"}}

ImplementsSafeTrash == Promise!Spec

(* With nothing running, what restore_last would pick can be restored        *)
(* (audit.rs:92 "most recent commit that's still restorable").               *)
LatestRestorable ==
  Quiescent /\ LatestCommit(log) # NoBatch => dir[LatestCommit(log)] = "listed"

(* A commit that returned Ok can be found in the log, so that restore_last   *)
(* comes to it.                                                              *)
AckedIsLogged == \A b \in acked : Logged(log, "commit", b)

(* What purge_all leaves in the graveyard when it returns without failures   *)
(* is in batches whose manifest is missing or does not parse: it reaches     *)
(* every other one, whatever failed before (graveyard.rs:244 "empty the      *)
(* graveyard").  That it wipes those as well, as graveyard.rs:288-289 says,  *)
(* is not so: it finds its batches by read_manifests too.                    *)
PurgeAllEmptiesListed ==
  [][\A w \in Worker : PurgeReturns(w) /\ op[w] = "purge_all" /\ ~bad[w]
       => \A b \in Batch : InTrash(b) # {} => dir[b] \in {"open", "broken"}]_vars
=============================================================================
