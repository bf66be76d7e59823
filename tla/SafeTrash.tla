------------------------------ MODULE SafeTrash ------------------------------
(* What the cleaner promises, without files, logs, workers or crashes: an    *)
(* item is at home, in the trash or burnt.  It is only ever added to a batch *)
(* that is still being filled; it leaves the trash by being put back, or     *)
(* because somebody asked to purge its batch; and neither happens before the *)
(* batch is sealed.                                                          *)
CONSTANTS Batch, Item

VARIABLES place,    \* where each item of each batch is
          sealed,   \* batches that are filled: their manifest was written
          asked     \* batches a purge was asked for

vars == <<place, sealed, asked>>

Place == {"home", "trash", "burnt"}

TypeOK == /\ place \in [Batch -> [Item -> Place]]
          /\ sealed \subseteq Batch
          /\ asked \subseteq Batch

Init == /\ place = [b \in Batch |-> [i \in Item |-> "home"]]
        /\ sealed = {}
        /\ asked = {}

Trash(b, i) == /\ b \notin sealed
               /\ place[b][i] = "home"
               /\ place' = [place EXCEPT ![b][i] = "trash"]
               /\ UNCHANGED <<sealed, asked>>

Seal(b) == /\ sealed' = sealed \cup {b}
           /\ UNCHANGED <<place, asked>>

PutBack(b, i) == /\ b \in sealed
                 /\ place[b][i] = "trash"
                 /\ place' = [place EXCEPT ![b][i] = "home"]
                 /\ UNCHANGED <<sealed, asked>>

Ask(b) == /\ b \in sealed
          /\ asked' = asked \cup {b}
          /\ UNCHANGED <<place, sealed>>

(* A purge may burn any part of what is left: it can fail half way.  What it *)
(* takes with it is in the trash, never at home.                             *)
Burn(b) == /\ b \in asked
           /\ \E K \in SUBSET {i \in Item : place[b][i] = "trash"} :
                place' = [place EXCEPT ![b] =
                            [i \in Item |-> IF i \in K THEN "burnt" ELSE @[i]]]
           /\ UNCHANGED <<sealed, asked>>

Next == \E b \in Batch : \/ Seal(b) \/ Ask(b) \/ Burn(b)
                         \/ \E i \in Item : Trash(b, i) \/ PutBack(b, i)

Spec == Init /\ [][Next]_vars
=============================================================================
