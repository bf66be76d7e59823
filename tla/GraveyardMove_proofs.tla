------------------------- MODULE GraveyardMove_proofs -------------------------
(* Nothing is lost by a move until a removal fails or the owner of the path  *)
(* interferes: for every set of parts, every shape, both kinds of device and *)
(* every set of faults.                                                      *)
EXTENDS GraveyardMove, TLAPS

Whole(s) == \A p \in Parts : data[s][p] = "old"

(* Where the whole item is at each point of its life.                        *)
Somewhere ==
  /\ pc \in {"planned", "clean", "failed"} => Whole("home")
  /\ pc \in {"planned", "clean"} => ~back
  /\ pc \in {"rename", "copy"} => Whole(From)
  /\ pc = "copy" => \A p \in Parts \ todo : data[To][p] = "old"
  /\ pc = "remove" => Whole(To)
  /\ pc \in {"copy", "remove"} => node[From]
  /\ pc \in {"held", "stranded"} => Whole("home") \/ Whole("trash")
  /\ pc = "restored" => Whole("home")

(* A path under which there is a part is there.                              *)
Rooted == \A s \in Side : \A p \in Parts : data[s][p] # "absent" => node[s]

(* Only until the first harm: after it a part may be nowhere.                *)
Unharmed == owed = Parts \X {"old"} /\ Rooted /\ Somewhere

IInv == TypeOK /\ (hit = {} => Unharmed)

LEMMA PartsArePart == Parts \subseteq Part /\ Parts # {}
  BY PartAssumption DEF Parts

LEMMA InitHolds == Init => IInv
<1> SUFFICES ASSUME Init PROVE IInv
  OBVIOUS
<1> USE DEF Init
<1>1. TypeOK
  BY ShapesAssumption, DevicesAssumption, PartsArePart DEF TypeOK, Side, Content, Pc
<1>2. Rooted
  BY PartsArePart DEF Rooted, Side
<1>3. Somewhere
  BY PartsArePart DEF Somewhere, Whole, Side
<1> QED
  BY <1>1, <1>2, <1>3 DEF IInv, Unharmed

LEMMA TypeStep == ASSUME TypeOK, Next PROVE TypeOK'
<1> USE PartsArePart DEF TypeOK
<1>s. From \in Side /\ To \in Side /\ Nothing \in [Part -> Content]
  BY DEF From, To, Side, Nothing, Content
<1>1. CASE CommitBegin \/ CommitNoSlot \/ RestoreBegin \/ RestoreRefused \/ CopyDone
  BY <1>1 DEF CommitBegin, CommitNoSlot, RestoreBegin, RestoreRefused, CopyDone, Pc, fixed
<1>2. CASE Rename
  BY <1>2, <1>s DEF Rename, Succeeds, Pc, fixed
<1>3. CASE RenameFails
  BY <1>3 DEF RenameFails, Fails, Pc, fixed
<1>4. CASE CopyBegin
  BY <1>4, <1>s DEF CopyBegin, Present, Pc, fixed
<1>5. ASSUME NEW p \in Part, CopyPart(p) PROVE TypeOK'
  BY <1>5, <1>s DEF CopyPart, Content, fixed
<1>6. ASSUME NEW p \in Part, CopyFails(p) PROVE TypeOK'
  <2>1. node' \in [Side -> BOOLEAN] /\ data' \in [Side -> [Part -> Content]]
    <3>1. CASE UNCHANGED <<node, data>>
      BY <3>1
    <3>2. CASE /\ node' = [node EXCEPT ![To] = TRUE]
               /\ data' = [data EXCEPT ![To][p] = "torn"]
      BY <3>2, <1>s DEF Content
    <3> QED
      BY <1>6, <3>1, <3>2 DEF CopyFails
  <2> QED
    BY <1>6, <2>1 DEF CopyFails, Fails, Pc, fixed
<1>7. ASSUME NEW p \in Part, RemovePart(p) \/ CleanPart(p) PROVE TypeOK'
  <2>1. CASE RemovePart(p)
    BY <2>1, <1>s DEF RemovePart, Content, fixed
  <2>2. CASE CleanPart(p)
    BY <2>2, <1>s DEF CleanPart, Content, Side, fixed
  <2> QED
    BY <1>7, <2>1, <2>2
<1>8. CASE RemoveDone
  BY <1>8 DEF RemoveDone, Succeeds, Pc, fixed
<1>9. CASE RemoveFails
  BY <1>9 DEF RemoveFails, Fails, Harm, Harmful, Pc, fixed
<1>10. CASE CleanDone \/ Crash
  BY <1>10 DEF CleanDone, Crash, Pc, fixed
<1>11. ASSUME NEW p \in Part, Edit(p) PROVE TypeOK'
  BY <1>11 DEF Edit, Harm, Harmful, Content, Side, fixed
<1>12. CASE Take
  <2>1. data' \in [Side -> [Part -> Content]]
    BY <1>12, <1>s DEF Take, Side
  <2> QED
    BY <1>12, <2>1 DEF Take, Harm, Harmful, fixed
<1>13. ASSUME NEW p \in Part, Put(p) PROVE TypeOK'
  BY <1>13 DEF Put, Harm, Harmful, Content, Side, fixed
<1> QED
  BY <1>1, <1>2, <1>3, <1>4, <1>5, <1>6, <1>7, <1>8, <1>9, <1>10, <1>11, <1>12, <1>13
     DEF Next, Cleaner, Owner

(* Whatever happens, no part is left under a path that is gone.              *)
LEMMA RootedStep == ASSUME TypeOK, Rooted, Next PROVE Rooted'
<1> USE PartsArePart DEF Rooted
<1>s. /\ From \in Side /\ To \in Side /\ From # To
      /\ \A s \in Side : s = From \/ s = To
  BY DEF From, To, Side
<1>f. Parts' = Parts
  BY DEF Next, Cleaner, Owner, CommitBegin, CommitNoSlot, RestoreBegin, RestoreRefused,
         Rename, RenameFails, CopyBegin, CopyDone, RemoveDone, RemoveFails, CleanDone, Crash,
         CopyPart, CopyFails, RemovePart, CleanPart, Take, Edit, Put, Parts, fixed
<1>1. CASE UNCHANGED <<node, data>>
  BY <1>1, <1>f
<1>2. CASE Rename
  <2>1. data'[From] = Nothing /\ node'[To]
    BY <1>2, <1>s DEF Rename, TypeOK
  <2> QED
    BY <2>1, <1>s, <1>f DEF Nothing
<1>3. CASE CopyBegin
  BY <1>3, <1>s, <1>f DEF CopyBegin, TypeOK
<1>4. ASSUME NEW p \in Part, CopyPart(p) \/ CopyFails(p) PROVE Rooted'
  <2> SUFFICES ASSUME NEW c, node' = [node EXCEPT ![To] = TRUE],
                      data' = [data EXCEPT ![To][p] = c]
               PROVE  Rooted'
    BY <1>1, <1>4 DEF CopyPart, CopyFails
  <2> QED
    BY <1>s, <1>f DEF TypeOK
<1>5. ASSUME NEW p \in Part, RemovePart(p) PROVE Rooted'
  BY <1>5, <1>s, <1>f DEF RemovePart, TypeOK
<1>6. CASE RemoveDone
  BY <1>6, <1>s, <1>f DEF RemoveDone, Present, TypeOK
<1>7. ASSUME NEW p \in Part, CleanPart(p) PROVE Rooted'
  BY <1>7, <1>f DEF CleanPart, TypeOK, Side
<1>8. CASE CleanDone
  BY <1>1, <1>8, <1>f DEF CleanDone, Present, TypeOK, Side
<1>9. ASSUME NEW p \in Part, Edit(p) \/ Put(p) PROVE Rooted'
  BY <1>9, <1>f DEF Edit, Put, TypeOK, Side
<1>10. CASE Take
  BY <1>10, <1>f DEF Take, Nothing, TypeOK, Side
<1> QED
  BY <1>1, <1>2, <1>3, <1>4, <1>5, <1>6, <1>7, <1>8, <1>9, <1>10
     DEF Next, Cleaner, Owner, CommitBegin, CommitNoSlot, RestoreBegin, RestoreRefused,
         RenameFails, CopyDone, RemoveFails, Crash

LEMMA StepHolds == ASSUME TypeOK, Unharmed, Next, hit' = {} PROVE Unharmed'
<1> USE PartsArePart DEF Unharmed
<1>q. /\ ~Harm("remove") /\ ~Harm("edit") /\ ~Harm("take") /\ ~Harm("put")
  BY DEF Harm
<1>s. From \in Side /\ To \in Side /\ From # To
  BY DEF From, To, Side
<1>f. Parts' = Parts
  BY DEF Next, Cleaner, Owner, CommitBegin, CommitNoSlot, RestoreBegin, RestoreRefused,
         Rename, RenameFails, CopyBegin, CopyDone, RemoveDone, RemoveFails, CleanDone, Crash,
         CopyPart, CopyFails, RemovePart, CleanPart, Take, Edit, Put, Parts, fixed
<1>r. Rooted'
  BY RootedStep
<1>1. CASE CommitBegin \/ CommitNoSlot
  BY <1>1, <1>f, <1>r DEF CommitBegin, CommitNoSlot, TypeOK, Somewhere, Whole, From, To,
                    Pc, Side, fixed
<1>2. CASE RestoreBegin
  <2>1. Whole("trash")
    BY <1>2 DEF RestoreBegin, Somewhere, Whole, Rooted, Exists, Side, TypeOK
  <2> QED
    BY <1>2, <2>1, <1>f, <1>r DEF RestoreBegin, TypeOK, Somewhere, Whole, From, To, Pc, Side, fixed
<1>3. CASE RestoreRefused
  BY <1>3, <1>f, <1>r DEF RestoreRefused, TypeOK, Somewhere, Whole, From, To, Pc, Side, fixed
<1>4. CASE Rename
  <2>1. data'[To] = data[From]
    BY <1>4, <1>s DEF Rename, TypeOK
  <2>2. \A p \in Parts : data'[To][p] = "old"
    BY <1>4, <2>1 DEF Rename, Somewhere, Whole
  <2>3. Somewhere'
    BY <1>4, <2>2, <1>f DEF Rename, Succeeds, Somewhere, Whole, From, To
  <2> QED
    BY <1>4, <1>f, <1>r, <2>3 DEF Rename
<1>5. CASE RenameFails
  BY <1>5, <1>f, <1>r DEF RenameFails, Fails, TypeOK, Somewhere, Whole, From, To, Pc, Side, fixed
<1>6. CASE CopyBegin
  <2>1. Parts \subseteq todo'
    BY <1>6 DEF CopyBegin, Present, Somewhere, Whole
  <2>2. Somewhere'
    BY <1>6, <1>f, <2>1 DEF CopyBegin, Somewhere, Whole, From, To
  <2> QED
    BY <1>6, <1>f, <1>r, <2>2 DEF CopyBegin
<1>7. CASE CopyDone
  BY <1>7, <1>f, <1>r DEF CopyDone, TypeOK, Somewhere, Whole, From, To, Pc, Side, fixed
<1>8. ASSUME NEW p \in Part, CopyPart(p) PROVE Unharmed'
  <2>1. p \in Parts /\ data[From][p] = "old"
    BY <1>8 DEF CopyPart, Present, Somewhere, Whole
  <2>2. /\ data' = [data EXCEPT ![To][p] = "old"]
        /\ node' = [node EXCEPT ![To] = TRUE]
    BY <1>8, <2>1 DEF CopyPart
  <2>3. /\ data'[To][p] = "old" /\ data'[From] = data[From]
        /\ \A q \in Part \ {p} : data'[To][q] = data[To][q]
    BY <2>2, <1>s DEF TypeOK
  <2>4. Somewhere'
    BY <1>8, <2>1, <2>3, <1>f DEF CopyPart, Somewhere, Whole, From, To
  <2> QED
    BY <1>8, <1>f, <1>r, <2>4 DEF CopyPart
<1>9. ASSUME NEW p \in Part, CopyFails(p) PROVE Unharmed'
  <2>1. /\ node' \in [Side -> BOOLEAN] /\ data' \in [Side -> [Part -> Content]]
        /\ data'[From] = data[From]
    <3>1. CASE UNCHANGED <<node, data>>
      BY <3>1 DEF TypeOK
    <3>2. CASE /\ node' = [node EXCEPT ![To] = TRUE]
               /\ data' = [data EXCEPT ![To][p] = "torn"]
      BY <3>2, <1>s DEF TypeOK, Content
    <3> QED
      BY <1>9, <3>1, <3>2 DEF CopyFails
  <2>2. Somewhere'
    BY <1>9, <2>1, <1>f DEF CopyFails, Fails, Somewhere, Whole, From, To
  <2> QED
    BY <1>9, <1>f, <1>r, <2>2 DEF CopyFails
<1>10. ASSUME NEW p \in Part, RemovePart(p) PROVE Unharmed'
  <2>1. /\ data' \in [Side -> [Part -> Content]]
        /\ data'[To] = data[To]
    BY <1>10, <1>s DEF RemovePart, TypeOK, Content
  <2>2. Somewhere'
    BY <1>10, <2>1, <1>f DEF RemovePart, Somewhere, Whole, From, To, TypeOK, fixed
  <2> QED
    BY <1>10, <1>f, <1>r, <2>2 DEF RemovePart
<1>11. CASE RemoveDone
  <2>1. node' \in [Side -> BOOLEAN]
    BY <1>11 DEF RemoveDone, TypeOK
  <2>2. Somewhere'
    BY <1>11, <1>f, <2>1 DEF RemoveDone, Succeeds, Somewhere, Whole, From, To, TypeOK, Pc, fixed
  <2> QED
    BY <1>11, <1>f, <1>r, <2>2 DEF RemoveDone
<1>12. CASE RemoveFails
  BY <1>12, <1>q DEF RemoveFails, Somewhere
<1>13. ASSUME NEW p \in Part, CleanPart(p) PROVE Unharmed'
  <2>1. /\ data' \in [Side -> [Part -> Content]]
        /\ data'["home"] = data["home"]
    BY <1>13 DEF CleanPart, TypeOK, Content, Side
  <2>2. Somewhere'
    BY <1>13, <2>1, <1>f DEF CleanPart, Somewhere, Whole, From, To, TypeOK, fixed
  <2> QED
    BY <1>13, <1>f, <1>r, <2>2 DEF CleanPart
<1>14. CASE CleanDone
  <2>1. node' \in [Side -> BOOLEAN]
    BY <1>14 DEF CleanDone, TypeOK
  <2>2. Somewhere'
    BY <1>14, <1>f, <2>1 DEF CleanDone, Somewhere, Whole, TypeOK, Pc, fixed
  <2> QED
    BY <1>14, <1>f, <1>r, <2>2 DEF CleanDone
<1>15. CASE Crash
  <2>1. Whole("home") \/ Whole("trash")
    BY <1>15 DEF Crash, Somewhere, From, To
  <2> QED
    BY <1>15, <2>1, <1>f, <1>r DEF Crash, TypeOK, Somewhere, Whole, Pc, fixed
<1>16. CASE Owner
  BY <1>16, <1>q DEF Owner, Take, Edit, Put
<1> QED
  BY <1>1, <1>2, <1>3, <1>4, <1>5, <1>6, <1>7, <1>8, <1>9, <1>10, <1>11, <1>12, <1>13,
     <1>14, <1>15, <1>16 DEF Next, Cleaner

LEMMA StutterHolds == ASSUME IInv, UNCHANGED vars PROVE IInv'
<1> Parts' = Parts /\ From' = From /\ To' = To
  BY DEF vars, Parts, From, To
<1> QED
  BY DEF vars, IInv, Unharmed, TypeOK, Rooted, Somewhere, Whole

LEMMA HarmStays == ASSUME Next PROVE hit \subseteq hit'
  BY DEF Next, Cleaner, Owner, CommitBegin, CommitNoSlot, RestoreBegin, RestoreRefused,
         Rename, RenameFails, CopyBegin, CopyDone, RemoveDone, RemoveFails, CleanDone, Crash,
         CopyPart, CopyFails, RemovePart, CleanPart, Take, Edit, Put, Harm

LEMMA Invariance == IInv /\ [Next]_vars => IInv'
<1> SUFFICES ASSUME IInv, Next PROVE IInv'
  BY StutterHolds
<1>1. hit' = {} => hit = {}
  BY HarmStays
<1> QED
  BY <1>1, TypeStep, StepHolds DEF IInv

LEMMA KeptWhileUnharmed == ASSUME IInv PROVE MovesKeepAll /\ ReportsAreTrue
<1> SUFFICES ASSUME hit = {}
             PROVE KeepsAll /\ (pc \in {"failed", "restored"} => Whole("home"))
  BY DEF IInv, Unharmed, MovesKeepAll, ReportsAreTrue, Whole
<1> USE DEF IInv, Unharmed
<1>1. \E s \in Side : Whole(s)
  BY DEF TypeOK, Pc, Somewhere, From, To, Side
<1> QED
  BY <1>1 DEF KeepsAll, Whole, Somewhere

(* Every variable of GraveyardMove keeps its type.                           *)
THEOREM MoveTyping == Spec => []TypeOK
<1>1. TypeOK /\ [Next]_vars => TypeOK'
  BY TypeStep DEF vars, TypeOK
<1> QED
  BY <1>1, InitHolds, PTL DEF Spec, IInv

(* Until a removal fails or the owner interferes, failing slots, renames and *)
(* copies, crashes and second devices lose nothing of an item: safe_move     *)
(* under commit and restore_batch.                                           *)
THEOREM NothingLostUnharmed == Spec => []MovesKeepAll
  BY Invariance, InitHolds, KeptWhileUnharmed, PTL DEF Spec

(* Until then an item reported as failed or as restored is at its original   *)
(* path, whole.                                                              *)
THEOREM ReportsHold == Spec => []ReportsAreTrue
  BY Invariance, InitHolds, KeptWhileUnharmed, PTL DEF Spec

-----------------------------------------------------------------------------
(* A directory on one device: nothing is ever copied, so that a part of the  *)
(* owner's is where he left it or under the batch.                           *)
Renamed == ~cross /\ shape = "tree"

Safe ==
  /\ KeepsAll
  /\ Rooted
  /\ pc \notin {"copy", "remove"}
  /\ pc \in {"planned", "clean"} => ~back
  /\ (pc \in {"planned", "rename", "clean"} /\ ~back) => Present("trash") = {}

LEMMA SafeStep == ASSUME TypeOK, Renamed, Safe, Next PROVE Safe'
<1> USE PartsArePart DEF Safe, Renamed
<1>f. Parts = Part /\ Parts' = Part /\ Renamed'
  BY DEF Next, Cleaner, Owner, CommitBegin, CommitNoSlot, RestoreBegin, RestoreRefused,
         Rename, RenameFails, CopyBegin, CopyDone, RemoveDone, RemoveFails, CleanDone, Crash,
         CopyPart, CopyFails, RemovePart, CleanPart, Take, Edit, Put, Parts, fixed
<1>r. Rooted'
  BY RootedStep
<1>o. \A o \in owed : o[1] \in Part /\ o[2] # "absent"
  BY DEF TypeOK
<1>1. CASE CommitBegin \/ CommitNoSlot \/ RestoreBegin \/ RestoreRefused
  BY <1>1, <1>f DEF CommitBegin, CommitNoSlot, RestoreBegin, RestoreRefused, KeepsAll, Rooted,
                    Present, fixed
<1>2. CASE Rename
  <2>s. From \in Side /\ To \in Side /\ From # To /\ \A s \in Side : s = From \/ s = To
    BY DEF From, To, Side
  <2>1. data'[To] = data[From] /\ data'[From] = Nothing /\ node'[To]
    BY <1>2, <2>s DEF Rename, TypeOK
  <2>2. \A p \in Part : data[To][p] = "absent"
    BY <1>2, <1>f, <2>s DEF Rename, Replaceable, Rooted, Present
  <2>3. KeepsAll'
    <3> SUFFICES ASSUME NEW o \in owed PROVE data'[To][o[1]] = o[2]
      BY <1>2, <2>s DEF Rename, KeepsAll
    <3> QED
      BY <1>o, <2>1, <2>2, <2>s DEF KeepsAll
  <2> QED
    BY <1>2, <2>3, <1>r, <1>f DEF Rename, Succeeds
<1>3. CASE RenameFails
  BY <1>3, <1>f DEF RenameFails, Fails, KeepsAll, Rooted, Present, fixed
<1>4. CASE CopyBegin \/ CopyDone \/ RemoveDone \/ RemoveFails
  BY <1>4 DEF CopyBegin, CopyDone, RemoveDone, RemoveFails
<1>5. ASSUME NEW p \in Part, CopyPart(p) \/ CopyFails(p) \/ RemovePart(p) \/ CleanPart(p)
      PROVE Safe'
  BY <1>5 DEF CopyPart, CopyFails, RemovePart, CleanPart
<1>6. CASE CleanDone
  BY <1>6, <1>r, <1>f DEF CleanDone, KeepsAll, Present
<1>7. CASE Crash
  BY <1>7, <1>f DEF Crash, KeepsAll, Rooted, Present, fixed
<1>8. ASSUME NEW p \in Part, Edit(p) PROVE Safe'
  <2>1. /\ data'["home"][p] = "new" /\ data["home"][p] = "old"
        /\ data'["trash"] = data["trash"]
        /\ \A q \in Part \ {p} : data'["home"][q] = data["home"][q]
    BY <1>8 DEF Edit, TypeOK, Side
  <2>2. KeepsAll'
    BY <1>8, <2>1, <1>o DEF Edit, KeepsAll, Side, TypeOK
  <2>3. Present("trash")' = Present("trash")
    BY <2>1, <1>f DEF Present
  <2> QED
    BY <1>8, <2>2, <1>r, <2>3 DEF Edit
<1>9. CASE Take
  <2>1. data'["home"] = Nothing /\ data'["trash"] = data["trash"]
        /\ node'["trash"] = node["trash"]
    BY <1>9 DEF Take, TypeOK, Side
  <2>2. KeepsAll'
    BY <1>9, <2>1 DEF Take, KeepsAll, Side
  <2>3. Present("trash")' = Present("trash")
    BY <2>1, <1>f DEF Present
  <2> QED
    BY <1>9, <2>2, <1>r, <2>3 DEF Take
<1>10. ASSUME NEW p \in Part, Put(p) PROVE Safe'
  <2>1. /\ data'["home"][p] = "new" /\ data["home"][p] = "absent"
        /\ data'["trash"] = data["trash"]
        /\ node'["home"] /\ node'["trash"] = node["trash"]
        /\ \A q \in Part \ {p} : data'["home"][q] = data["home"][q]
    BY <1>10 DEF Put, TypeOK, Side
  <2>2. KeepsAll'
    BY <1>10, <2>1, <1>o DEF Put, KeepsAll, Side, TypeOK
  <2>3. Present("trash")' = Present("trash")
    BY <2>1, <1>f DEF Present
  <2> QED
    BY <1>10, <2>2, <1>r, <2>3 DEF Put
<1> QED
  BY <1>1, <1>2, <1>3, <1>4, <1>5, <1>6, <1>7, <1>8, <1>9, <1>10 DEF Next, Cleaner, Owner

LEMMA SafeInit == ASSUME Init PROVE Safe
  BY InitHolds, PartsArePart DEF Init, Safe, IInv, Unharmed, KeepsAll, Present, Side

(* A directory moved within one device is safe from failing removals and     *)
(* from its owner too: rename(2) takes all of it or nothing, and does not    *)
(* replace a directory that has anything in it.                              *)
THEOREM DirectoriesKeepAll == Spec => []RenamesKeepAll
<1> DEFINE J == TypeOK /\ (Renamed => Safe)
<1>1. Init => J
  BY InitHolds, SafeInit DEF IInv
<1>2. J /\ [Next]_vars => J'
  <2> SUFFICES ASSUME J, [Next]_vars PROVE J'
    OBVIOUS
  <2>1. CASE Next
    <3>1. Renamed' => Renamed
      BY <2>1 DEF Renamed, Next, Cleaner, Owner, CommitBegin, CommitNoSlot, RestoreBegin,
         RestoreRefused, Rename, RenameFails, CopyBegin, CopyDone, RemoveDone, RemoveFails,
         CleanDone, Crash, CopyPart, CopyFails, RemovePart, CleanPart, Take, Edit, Put, fixed
    <3> QED
      BY <2>1, <3>1, TypeStep, SafeStep
  <2>2. CASE UNCHANGED vars
    BY <2>2 DEF vars, TypeOK, Renamed, Safe, KeepsAll, Rooted, Parts, Present
  <2> QED
    BY <2>1, <2>2
<1>3. J => RenamesKeepAll
  BY DEF RenamesKeepAll, Renamed, Safe
<1> QED
  BY <1>1, <1>2, <1>3, PTL DEF Spec

-----------------------------------------------------------------------------
(* A restore, while the owner leaves the path alone.  Removals may fail: then *)
(* commit gives the item up and never gets to a restore; restore_batch has   *)
(* by then the whole item at home.                                           *)
Returning ==
  /\ pc \in {"rename", "copy", "remove", "held", "restored"} /\ shape # "link"
  /\ pc \in {"rename", "copy"} => Whole("trash")
  /\ pc = "copy" => \A p \in Parts \ todo : data["home"][p] = "old"
  /\ pc \in {"remove", "restored"} => Whole("home")
  /\ pc = "held" => Whole("home") \/ Whole("trash")

Alone ==
  /\ owed = Parts \X {"old"}
  /\ back => Returning
  /\ ~back /\ hit # {} => pc \in {"clean", "failed", "stranded"}

LEMMA AloneStep ==
  ASSUME IInv, Rooted, Alone, Next, hit' \subseteq {"remove"}
  PROVE  Alone'
<1> USE PartsArePart
<1>q. ~Harm("edit") /\ ~Harm("take") /\ ~Harm("put")
  BY DEF Harm
<1>f. Parts' = Parts
  BY DEF Next, Cleaner, Owner, CommitBegin, CommitNoSlot, RestoreBegin, RestoreRefused,
         Rename, RenameFails, CopyBegin, CopyDone, RemoveDone, RemoveFails, CleanDone, Crash,
         CopyPart, CopyFails, RemovePart, CleanPart, Take, Edit, Put, Parts, fixed
<1>t. TypeOK /\ From \in Side /\ To \in Side
  BY DEF IInv, From, To, Side
<1>1. CASE CommitBegin \/ CommitNoSlot
  BY <1>1, <1>f DEF CommitBegin, CommitNoSlot, Alone, Returning, fixed
<1>2. CASE RestoreBegin
  <2>1. ~node["home"] /\ shape # "link" /\ pc = "held"
    BY <1>2 DEF RestoreBegin, Exists
  <2>2. ~Whole("home")
    BY <2>1 DEF Rooted, Whole, Side
  <2>3. Whole("trash")
    <3>1. CASE back
      BY <2>1, <2>2, <3>1 DEF Alone, Returning
    <3>2. CASE ~back
      BY <2>1, <2>2, <3>2 DEF Alone, IInv, Unharmed, Somewhere
    <3> QED
      BY <3>1, <3>2 DEF TypeOK, IInv
  <2> QED
    BY <1>2, <1>f, <2>1, <2>3 DEF RestoreBegin, Alone, Returning, Whole, fixed
<1>3. CASE RestoreRefused
  BY <1>3, <1>f DEF RestoreRefused, Alone, Returning, Whole, fixed
<1>4. CASE Rename
  <2>1. data'[To] = data[From]
    BY <1>4, <1>t DEF Rename, TypeOK, From, To, Side
  <2>2. back => Whole("home")'
    BY <1>4, <1>f, <2>1 DEF Rename, Alone, Returning, Whole, From, To
  <2> QED
    BY <1>4, <1>f, <2>2 DEF Rename, Succeeds, Alone, Returning, fixed
<1>5. CASE RenameFails
  BY <1>5, <1>f DEF RenameFails, Fails, Alone, Returning, Whole, fixed
<1>6. CASE CopyBegin
  <2>1. back => Parts \subseteq todo'
    BY <1>6 DEF CopyBegin, Alone, Returning, Present, Whole, From
  <2> QED
    BY <1>6, <1>f, <2>1 DEF CopyBegin, Alone, Returning, Whole, fixed
<1>7. CASE CopyDone
  BY <1>7, <1>f DEF CopyDone, Alone, Returning, Whole, fixed
<1>8. ASSUME NEW p \in Part, CopyPart(p) PROVE Alone'
  <2>1. back => /\ data'["trash"] = data["trash"] /\ data'["home"][p] = "old"
                /\ \A q \in Part \ {p} : data'["home"][q] = data["home"][q]
    BY <1>8, <1>t DEF CopyPart, Alone, Returning, Present, Whole, From, To, TypeOK, Side
  <2> QED
    BY <1>8, <1>f, <2>1 DEF CopyPart, Alone, Returning, Whole, fixed
<1>9. ASSUME NEW p \in Part, CopyFails(p) PROVE Alone'
  <2>1. back => data'["trash"] = data["trash"]
    BY <1>9, <1>t DEF CopyFails, To, TypeOK, Side
  <2> QED
    BY <1>9, <1>f, <2>1 DEF CopyFails, Fails, Alone, Returning, Whole, fixed
<1>10. ASSUME NEW p \in Part, RemovePart(p) PROVE Alone'
  <2>1. back => data'["home"] = data["home"]
    BY <1>10, <1>t DEF RemovePart, From, TypeOK, Side
  <2> QED
    BY <1>10, <1>f, <2>1 DEF RemovePart, Alone, Returning, Whole, fixed
<1>11. CASE RemoveDone
  BY <1>11, <1>f DEF RemoveDone, Succeeds, Alone, Returning, Whole, fixed
<1>12. CASE RemoveFails
  BY <1>12, <1>f DEF RemoveFails, Fails, Alone, Returning, Whole, fixed
<1>13. ASSUME NEW p \in Part, CleanPart(p) PROVE Alone'
  BY <1>13, <1>f DEF CleanPart, Alone, Returning, fixed
<1>14. CASE CleanDone
  BY <1>14, <1>f DEF CleanDone, Alone, Returning, fixed
<1>15. CASE Crash
  BY <1>15, <1>f DEF Crash, Alone, Returning, Whole, fixed
<1>16. CASE Owner
  BY <1>16, <1>q DEF Owner, Take, Edit, Put
<1> QED
  BY <1>1, <1>2, <1>3, <1>4, <1>5, <1>6, <1>7, <1>8, <1>9, <1>10, <1>11, <1>12, <1>13,
     <1>14, <1>15, <1>16 DEF Next, Cleaner

(* No step of a restore makes a content disappear while the owner leaves the *)
(* path alone, whether renames, copies or removals fail or the process dies: *)
(* safe_move under restore_batch.                                            *)
THEOREM RestoresLoseNothing == Spec => RestoreLosesNothing
<1> DEFINE J == IInv /\ Rooted /\ (hit \subseteq {"remove"} => Alone)
<1>1. Init => J
  BY InitHolds DEF Init, IInv, Unharmed, Alone
<1>2. J /\ [Next]_vars => J'
  <2> SUFFICES ASSUME J, [Next]_vars PROVE J'
    OBVIOUS
  <2>1. CASE Next
    <3>1. hit' \subseteq {"remove"} => hit \subseteq {"remove"}
      BY <2>1, HarmStays
    <3> QED
      BY <2>1, <3>1, Invariance, RootedStep, AloneStep DEF IInv
  <2>2. CASE UNCHANGED vars
    <3>1. IInv'
      BY <2>2, StutterHolds
    <3>2. Parts' = Parts
      BY <2>2 DEF vars, Parts
    <3> QED
      BY <2>2, <3>1, <3>2 DEF vars, Rooted, Alone, Returning, Whole
  <2> QED
    BY <2>1, <2>2
<1>3. J' /\ [Next]_vars => [back /\ KeepsAll /\ hit' \subseteq {"remove"} => KeepsAll']_vars
  <2> SUFFICES ASSUME J', back, KeepsAll, Next, hit' \subseteq {"remove"} PROVE KeepsAll'
    OBVIOUS
  <2>1. back'
    BY DEF Next, Cleaner, Owner, CommitBegin, CommitNoSlot, RestoreBegin, RestoreRefused,
           Rename, RenameFails, CopyBegin, CopyDone, RemoveDone, RemoveFails, CleanDone, Crash,
           CopyPart, CopyFails, RemovePart, CleanPart, Take, Edit, Put
  <2>2. \E s \in Side : Whole(s)'
    BY <2>1 DEF Alone, Returning, Side
  <2> QED
    BY <2>2 DEF KeepsAll, Alone, Whole
<1> QED
  BY <1>1, <1>2, <1>3, PTL DEF Spec, RestoreLosesNothing
=============================================================================
