---------------------------- MODULE GraveyardMove ----------------------------
(* One item on its way into the graveyard and back: safe_move,               *)
(* copy_recursive and remove_recursive of cleaner/graveyard.rs, as           *)
(* graveyard::commit and restore_batch call them.  UndoLog takes a move as   *)
(* one step; here a rename may be refused because the two paths are on       *)
(* different devices, and the item is then copied and removed part by part   *)
(* while its owner goes on using the path.                                   *)
EXTENDS FiniteSets

CONSTANTS Part,      \* the files of a directory item
          Shapes,    \* which shapes an item may have: a subset of Shape
          Devices,   \* may the graveyard be on another device: a subset of BOOLEAN
          Fault      \* which faults may happen: a subset of FaultKind

Shape == {"tree",    \* a directory
          "file",
          "link"}    \* a symbolic link that does not resolve where it lies

FaultKind == {"slot",    \* create_dir_all fails
              "rename",  \* rename fails with something else than EXDEV
              "copy",    \* copy_recursive stops with an error
              "remove",  \* a removal stops with an error
              "crash",   \* the process dies
              "edit",    \* the owner edits a file of the item in place
              "take",    \* the owner deletes what is at the original path
              "put"}     \* the owner puts something new at the original path

(* What may cost a content: a source removed in part, and what the owner     *)
(* does between two steps of a move.                                         *)
Harmful == {"remove", "edit", "take", "put"}

ASSUME ShapesAssumption == Shapes \subseteq Shape
ASSUME DevicesAssumption == Devices \subseteq BOOLEAN
ASSUME FaultAssumption == Fault \subseteq FaultKind
ASSUME PartAssumption == Part # {}

VARIABLES
  shape, cross,  \* what the item is and whether the devices differ: both fixed
  node,          \* is there something at the path on that side
  data,          \* the content of each part on that side
  pc,            \* where the item is in its life
  back,          \* the move under way is a restore
  todo,          \* parts copy_recursive has listed and not yet copied
  told,          \* what the last operation reported for the item
  owed,          \* history: contents only their owner may make disappear
  hit            \* history: which of Harmful have happened

vars == <<shape, cross, node, data, pc, back, todo, told, owed, hit>>
fixed == <<shape, cross>>

Side == {"home", "trash"}
Content == {"absent", "torn", "old", "new"}  \* "new": written by the owner since
Pc == {"planned", "rename", "copy", "remove", "clean", "failed", "held", "restored", "stranded"}

From == IF back THEN "trash" ELSE "home"
To   == IF back THEN "home" ELSE "trash"

(* A file or a link is one part.                                             *)
Parts == IF shape = "tree" THEN Part ELSE {CHOOSE p \in Part : TRUE}
Present(s) == {p \in Parts : data[s][p] # "absent"}

(* Path::exists follows links: a link that does not resolve does not exist.  *)
Exists(s) == node[s] /\ shape # "link"

TypeOK ==
  /\ shape \in Shape /\ cross \in BOOLEAN
  /\ node \in [Side -> BOOLEAN]
  /\ data \in [Side -> [Part -> Content]]
  /\ pc \in Pc /\ back \in BOOLEAN
  /\ todo \subseteq Part
  /\ told \in {"nothing", "ok", "failure"}
  /\ owed \subseteq Part \X {"old", "new"}
  /\ hit \subseteq Harmful

Init ==
  /\ shape \in Shapes /\ cross \in Devices
  /\ node = [s \in Side |-> s = "home"]
  /\ data = [s \in Side |-> [p \in Part |->
               IF s = "home" /\ p \in Parts THEN "old" ELSE "absent"]]
  /\ pc = "planned" /\ back = FALSE
  /\ todo = {}
  /\ told = "nothing"
  /\ owed = Parts \X {"old"}
  /\ hit = {}

Harm(k) == k \in Fault /\ hit' = hit \cup {k}

Nothing == [p \in Part |-> "absent"]

-----------------------------------------------------------------------------
(* How a move ends                                                           *)

(* commit: an entry of the manifest.  restore_batch: with no failures the    *)
(* batch directory goes, and with it whatever is left on this side.          *)
Succeeds ==
  /\ pc' = IF back THEN "restored" ELSE "held"
  /\ told' = "ok"

(* commit goes on to remove the slot; restore_batch keeps the batch.         *)
(* Mutant: both callers remove the slot of a failed move.                    *)
FailsClean == pc' = "clean" /\ told' = "failure"

(* Mutant: a failed move is reported, the half made copy is left to be       *)
(* tidied later, and the original goes as if all had been well.              *)
FailsOn ==
  /\ pc' = IF back THEN "held" ELSE IF pc = "copy" THEN "remove" ELSE "clean"
  /\ told' = "failure"

Fails ==
  /\ pc' = IF back THEN "held" ELSE "clean"
  /\ told' = "failure"

-----------------------------------------------------------------------------
(* safe_move                                                                 *)

CommitBegin ==
  /\ pc = "planned"
  /\ pc' = "rename"
  /\ UNCHANGED <<fixed, node, data, back, todo, told, owed, hit>>

CommitNoSlot ==
  /\ pc = "planned" /\ "slot" \in Fault
  /\ pc' = "failed" /\ told' = "failure"
  /\ UNCHANGED <<fixed, node, data, back, todo, owed, hit>>

(* restore_batch looks at both paths, then moves.                            *)
RestoreBegin ==
  /\ pc = "held"
  /\ Exists("trash")
  /\ ~Exists("home")
  /\ pc' = "rename" /\ back' = TRUE
  /\ UNCHANGED <<fixed, node, data, todo, told, owed, hit>>

RestoreRefused ==
  /\ pc = "held"
  /\ ~Exists("trash") \/ Exists("home")
  /\ told' = "failure"
  /\ UNCHANGED <<fixed, node, data, pc, back, todo, owed, hit>>

(* rename(2) replaces a file or a link, and a directory if it is empty.      *)
Replaceable == node[To] => (shape # "tree" \/ Present(To) = {})

(* Mutant: the restore makes room for itself first.                          *)
RenameOver ==
  /\ pc = "rename" /\ ~cross /\ node[From]
  /\ node' = [node EXCEPT ![From] = FALSE, ![To] = TRUE]
  /\ data' = [data EXCEPT ![From] = Nothing, ![To] = data[From]]
  /\ Succeeds
  /\ UNCHANGED <<fixed, back, todo, owed, hit>>

Rename ==
  /\ pc = "rename" /\ ~cross
  /\ node[From] /\ Replaceable
  /\ node' = [node EXCEPT ![From] = FALSE, ![To] = TRUE]
  /\ data' = [data EXCEPT ![From] = Nothing, ![To] = data[From]]
  /\ Succeeds
  /\ UNCHANGED <<fixed, back, todo, owed, hit>>

RenameFails ==
  /\ pc = "rename"
  /\ "rename" \in Fault \/ ~node[From] \/ (~cross /\ ~Replaceable)
  /\ Fails
  /\ UNCHANGED <<fixed, node, data, back, todo, owed, hit>>

(* EXDEV: copy_recursive lists the directory and goes down it.               *)
CopyBegin ==
  /\ pc = "rename" /\ cross /\ node[From]
  /\ pc' = "copy"
  /\ todo' = Present(From)
  /\ node' = [node EXCEPT ![To] = @ \/ shape = "tree"]
  /\ UNCHANGED <<fixed, data, back, told, owed, hit>>

(* fs::copy truncates what is there; symlink refuses to replace.             *)
CopyPart(p) ==
  /\ pc = "copy" /\ p \in todo
  /\ p \in Present(From)
  /\ shape = "link" => ~node[To]
  /\ node' = [node EXCEPT ![To] = TRUE]
  /\ data' = [data EXCEPT ![To][p] = data[From][p]]
  /\ todo' = todo \ {p}
  /\ UNCHANGED <<fixed, pc, back, told, owed, hit>>

(* The copy of one part fails, before it made the file or half way into it.  *)
CopyFails(p) ==
  /\ pc = "copy" /\ p \in todo
  /\ \/ "copy" \in Fault
     \/ p \notin Present(From)
     \/ shape = "link" /\ node[To]
  /\ \/ UNCHANGED <<node, data>>
     \/ /\ "copy" \in Fault /\ shape # "link" /\ p \in Present(From)
        /\ node' = [node EXCEPT ![To] = TRUE]
        /\ data' = [data EXCEPT ![To][p] = "torn"]
  /\ todo' = {}
  /\ Fails
  /\ UNCHANGED <<fixed, back, owed, hit>>

CopyDone ==
  /\ pc = "copy" /\ todo = {}
  /\ pc' = "remove"
  /\ UNCHANGED <<fixed, node, data, back, todo, told, owed, hit>>

(* remove_recursive(src): the parts in any order, then the directory.        *)
RemovePart(p) ==
  /\ pc = "remove" /\ p \in Present(From)
  /\ data' = [data EXCEPT ![From][p] = "absent"]
  /\ UNCHANGED <<fixed, node, pc, back, todo, told, owed, hit>>

RemoveDone ==
  /\ pc = "remove" /\ Present(From) = {} /\ node[From]
  /\ node' = [node EXCEPT ![From] = FALSE]
  /\ Succeeds
  /\ UNCHANGED <<fixed, data, back, todo, owed, hit>>

RemoveFails ==
  /\ pc = "remove"
  /\ \/ Harm("remove")
     \/ ~node[From] /\ UNCHANGED hit
  /\ Fails
  /\ UNCHANGED <<fixed, node, data, back, todo, owed>>

-----------------------------------------------------------------------------
(* The slot of a failed move is removed; its own failure is ignored.         *)

(* Mutant: on failure the files of the item are tidied on both sides.        *)
CleanBoth(p) ==
  /\ pc = "clean" /\ p \in Present("trash") \cup Present("home")
  /\ data' = [s \in Side |-> [data[s] EXCEPT ![p] = "absent"]]
  /\ UNCHANGED <<fixed, node, pc, back, todo, told, owed, hit>>

CleanPart(p) ==
  /\ pc = "clean" /\ p \in Present("trash")
  /\ data' = [data EXCEPT !["trash"][p] = "absent"]
  /\ UNCHANGED <<fixed, node, pc, back, todo, told, owed, hit>>

CleanDone ==
  /\ pc = "clean"
  /\ \/ Present("trash") = {} /\ node' = [node EXCEPT !["trash"] = FALSE]
     \/ "remove" \in Fault /\ UNCHANGED node
  /\ pc' = "failed"
  /\ UNCHANGED <<fixed, data, back, todo, told, owed, hit>>

(* Without its manifest a batch in the making is stranded for good; a        *)
(* restore can be asked for again.                                           *)
Crash ==
  /\ "crash" \in Fault
  /\ pc \in {"rename", "copy", "remove", "clean"}
  /\ pc' = IF back THEN "held" ELSE "stranded"
  /\ todo' = {}
  /\ UNCHANGED <<fixed, node, data, back, told, owed, hit>>

-----------------------------------------------------------------------------
(* The owner of the original path                                            *)

Edit(p) ==
  /\ Harm("edit")
  /\ data["home"][p] = "old"
  /\ data' = [data EXCEPT !["home"][p] = "new"]
  /\ owed' = (owed \ {<<p, "old">>}) \cup {<<p, "new">>}
  /\ UNCHANGED <<fixed, node, pc, back, todo, told>>

Take ==
  /\ Harm("take")
  /\ node["home"]
  /\ node' = [node EXCEPT !["home"] = FALSE]
  /\ data' = [data EXCEPT !["home"] = Nothing]
  /\ owed' = {o \in owed : data["home"][o[1]] # o[2]}
  /\ UNCHANGED <<fixed, pc, back, todo, told>>

(* A file, a directory, or a file in the directory that is there.            *)
Put(p) ==
  /\ Harm("put")
  /\ p \in Parts /\ data["home"][p] = "absent"
  /\ node' = [node EXCEPT !["home"] = TRUE]
  /\ data' = [data EXCEPT !["home"][p] = "new"]
  /\ owed' = owed \cup {<<p, "new">>}
  /\ UNCHANGED <<fixed, pc, back, todo, told>>

Owner == Take \/ \E p \in Part : Edit(p) \/ Put(p)

Cleaner ==
  \/ CommitBegin \/ CommitNoSlot \/ RestoreBegin \/ RestoreRefused
  \/ Rename \/ RenameFails \/ CopyBegin \/ CopyDone \/ RemoveDone \/ RemoveFails
  \/ CleanDone \/ Crash
  \/ \E p \in Part : CopyPart(p) \/ CopyFails(p) \/ RemovePart(p) \/ CleanPart(p)

Next == Cleaner \/ Owner

Spec == Init /\ [][Next]_vars

-----------------------------------------------------------------------------
(* Properties                                                                *)

(* No content has disappeared that its owner did not edit or delete himself  *)
(* (graveyard.rs:58-59, "never hard-deletes").                               *)
KeepsAll == \A o \in owed : \E s \in Side : data[s][o[1]] = o[2]

(* Failing slots, renames and copies, crashes and second devices lose no     *)
(* content, as long as removals succeed and the owner leaves the path alone: *)
(* safe_move with commit's tidying and restore_batch's removal of the batch. *)
MovesKeepAll == hit = {} => KeepsAll

(* On one device a directory is safe whatever removals and its owner do.     *)
RenamesKeepAll == ~cross /\ shape = "tree" => KeepsAll

(* An item commit reports as failed is where it was, whole ("failed move =   *)
(* original stays put", graveyard.rs:59); one that restore_batch counts as   *)
(* restored, after which its batch is gone, is back whole.                   *)
ReportsAreTrue ==
  hit = {} /\ pc \in {"failed", "restored"} => \A o \in owed : data["home"][o[1]] = o[2]

(* While the owner leaves the path alone no step of a restore makes a        *)
(* content disappear, not even when the removal of the copied source fails   *)
(* half way: restore_batch, unlike commit, tidies nothing up.                *)
RestoreLosesNothing ==
  [][back /\ KeepsAll /\ hit' \subseteq {"remove"} => KeepsAll']_vars

=============================================================================
