----------------------------- MODULE BuildPlan -----------------------------
(* From a list of paths to what is moved: build_plan (cleaner/plan.rs), with *)
(* the path policy of Safety, and the loop of graveyard::commit over         *)
(* the items of the plan.  The owner of the files may delete or create one   *)
(* between any two of its steps.                                             *)
(*                                                                           *)
(* No path leads through a link.                                             *)
EXTENDS Safety

CONSTANTS Node,      \* the places of the file system, as normalised paths
          Kind,      \* what is at each place, if anything is
          Size,      \* metadata().len() there
          Start,     \* what may be there to begin with
          Raw,       \* paths the user interface may ask for
          MaxRaw     \* bound: length of a request

ASSUME PathAssumption ==
  /\ Node \subseteq Seq(STRING) /\ Raw \subseteq Seq(STRING)
  /\ Kind \in [Node -> {"File", "Directory", "Symlink"}] /\ Size \in [Node -> Nat]
  /\ MaxRaw \in Nat /\ Start \subseteq SUBSET Node
  /\ \A places \in Start : IsFiniteSet(places)

(* What something is in is a folder that is there as well.  Two spellings of *)
(* one path both start at the root, or neither does.                         *)
ASSUME TreeAssumption ==
  /\ \A n \in Node : \A k \in 1..(Len(n) - 1) :
       /\ SubSeq(n, 1, k) \in Node /\ Kind[SubSeq(n, 1, k)] = "Directory"
       /\ \A places \in Start : n \in places => SubSeq(n, 1, k) \in places
  /\ \A p, q \in Raw : normalize(p) = normalize(q) =>
       ((p # <<>> /\ p[1] = "/") <=> (q # <<>> /\ q[1] = "/"))

VARIABLES
  there,      \* places with something in them
  requests,   \* raw_paths
  rest,       \* those step 1 has not seen yet
  pc,
  normed,     \* the first request of each normalised path
  staged,     \* stat_and_classify of each, not looked at by step 3 yet
  items,      \* the items of the plan
  total_bytes,
  todo,       \* items commit has still to visit
  failed,     \* items it could not move
  before,     \* history: what was there at the beginning
  disturbed   \* history: the owner has been at work

vars == <<there, requests, rest, pc, normed, staged, items, total_bytes, todo, failed, before, disturbed>>

-----------------------------------------------------------------------------
(* The file system                                                           *)

Below(norm) == {n \in Node : n = norm \/ is_strict_ancestor(norm, n)}

(* What lstat finds: every folder on the way has to be there.                *)
Found(path) ==
  /\ \A n \in 1..(Len(path) - 1) : LET p == normalize(SubSeq(path, 1, n)) IN
       p \in there /\ Kind[p] = "Directory"
  /\ normalize(path) \in there

(* Only files have bytes (plan.rs:184-188).                                  *)
Weight(n) == IF Kind[n] = "File" THEN Size[n] ELSE 0

Bytes(places) == MapThenSumSet(Weight, places)

sum_subtree(places) == Bytes(places \cap there)

-----------------------------------------------------------------------------

Entry == [path : Raw, norm : {normalize(r) : r \in Raw}]
Item == [path : Raw, norm : {normalize(r) : r \in Raw}, bytes : Nat, protected : BOOLEAN]

TypeOK ==
  /\ there \subseteq Node /\ before \subseteq Node
  /\ requests \in Seq(Raw) /\ rest \in Seq(Raw)
  /\ pc \in {"normalize", "stat", "shadow", "commit"}
  /\ normed \subseteq Entry /\ staged \subseteq Item
  /\ items \subseteq Item /\ todo \subseteq items /\ failed \subseteq items
  /\ total_bytes \in Nat
  /\ disturbed \in BOOLEAN

Init ==
  /\ there \in Start
  /\ requests \in UNION {[1..n -> Raw] : n \in 0..MaxRaw}
  /\ rest = requests
  /\ pc = "normalize"
  /\ normed = {} /\ staged = {} /\ items = {} /\ total_bytes = 0
  /\ todo = {} /\ failed = {}
  /\ before = there /\ disturbed = FALSE

Movable(i) == ~i.protected

Asked == {requests[n] : n \in DOMAIN requests}

(* Step 1: equal paths are asked for once.                                   *)
Normalize ==
  /\ pc = "normalize" /\ rest # <<>>
  /\ LET raw == Head(rest) IN
       normed' = IF \E e \in normed : e.norm = normalize(raw) THEN normed
                 ELSE normed \cup {[path |-> raw, norm |-> normalize(raw)]}
  /\ rest' = Tail(rest)
  /\ UNCHANGED <<there, requests, pc, staged, items, total_bytes, todo, failed, before, disturbed>>

Goto(label) ==
  /\ pc' = label
  /\ UNCHANGED <<there, requests, rest, normed, staged, items, total_bytes, failed, before, disturbed>>

Normalized == pc = "normalize" /\ rest = <<>> /\ Goto("stat") /\ UNCHANGED todo

(* Step 2.  A missing path is listed as protected; a link has no bytes.      *)
stat_and_classify(e) ==
  LET refused == classify(e.path, e.norm) \/ ~Found(e.path) IN
    [path |-> e.path, norm |-> e.norm, protected |-> refused,
     bytes |-> IF refused THEN 0 ELSE sum_subtree(Below(e.norm))]

(* The sort by depth, of which this matters: ancestors come first.           *)
Foremost(S) == {e \in S : \A d \in S : ~is_strict_ancestor(d.norm, e.norm)}

Stat ==
  /\ pc = "stat"
  /\ \E e \in Foremost(normed) :
       /\ normed' = normed \ {e}
       /\ staged' = staged \cup {stat_and_classify(e)}
  /\ UNCHANGED <<there, requests, rest, pc, items, total_bytes, todo, failed, before, disturbed>>

Stated == pc = "stat" /\ normed = {} /\ Goto("shadow") /\ UNCHANGED todo

(* Step 3: what is below an item that will move goes with it.                *)
Shadowed(i) == \E k \in items : Movable(k) /\ is_strict_ancestor(k.norm, i.norm)

(* Mutant: in the order of the requests, whatever their depths.              *)
ShadowUnsorted ==
  /\ pc = "shadow"
  /\ \E i \in staged :
       /\ staged' = staged \ {i}
       /\ \/ Shadowed(i) /\ UNCHANGED <<items, total_bytes>>
          \/ /\ ~Shadowed(i)
             /\ items' = items \cup {i} /\ total_bytes' = total_bytes + i.bytes
  /\ UNCHANGED <<there, requests, rest, pc, normed, todo, failed, before, disturbed>>

Shadow ==
  /\ pc = "shadow"
  /\ \E i \in Foremost(staged) :
       /\ staged' = staged \ {i}
       /\ \/ Shadowed(i) /\ UNCHANGED <<items, total_bytes>>
          \/ /\ ~Shadowed(i)
             /\ items' = items \cup {i} /\ total_bytes' = total_bytes + i.bytes
  /\ UNCHANGED <<there, requests, rest, pc, normed, todo, failed, before, disturbed>>

Shadowing == pc = "shadow" /\ staged = {} /\ Goto("commit") /\ todo' = {i \in items : Movable(i)}

(* graveyard::commit, one item: it moves with all that is below it.          *)
CommitItem ==
  /\ pc = "commit"
  /\ \E i \in todo :
       /\ todo' = todo \ {i}
       /\ \/ Found(i.path) /\ there' = there \ Below(i.norm) /\ UNCHANGED failed
          \/ ~Found(i.path) /\ failed' = failed \cup {i} /\ UNCHANGED there
  /\ UNCHANGED <<requests, rest, pc, normed, staged, items, total_bytes, before, disturbed>>

(* The owner deletes something, or creates it where its folder is.  Bound:   *)
(* once.                                                                     *)
Disturb ==
  /\ ~disturbed /\ disturbed' = TRUE
  /\ \/ \E n \in there : there' = there \ Below(n)
     \/ \E n \in Node \ there : /\ \A m \in Node : is_strict_ancestor(m, n) => m \in there
                                /\ there' = there \cup {n}
  /\ UNCHANGED <<requests, rest, pc, normed, staged, items, total_bytes, todo, failed, before>>

Next == \/ Normalize \/ Normalized \/ Stat \/ Stated \/ Shadow \/ Shadowing
        \/ CommitItem \/ Disturb

Spec == Init /\ [][Next]_vars

-----------------------------------------------------------------------------
(* Properties                                                                *)

(* What must stay, whoever asks for it.                                      *)
Critical == PrimaryFolder \cup {home} \cup SYSTEM_BLOCKLIST

(* No item that will move is, or takes with it, the home folder, a primary   *)
(* user folder or a system folder (safety.rs:4-6 "even if scanner or UI      *)
(* somehow submits a path").                                                 *)
MovableIsSafe ==
  \A i \in items : Movable(i) => \A q \in Critical : q # i.norm /\ ~is_strict_ancestor(i.norm, q)

(* Every requested path is listed, or below one item that moves: what is     *)
(* protected or missing shadows nothing (plan.rs:38-41), and nothing is      *)
(* listed below what moves.                                                  *)
EveryRequestAnswered ==
  /\ \A i, k \in items : Movable(k) => ~is_strict_ancestor(k.norm, i.norm)
  /\ \A i, k \in items : i.norm = k.norm => i = k
  /\ pc = "commit" =>
       \A r \in Asked : \E i \in items :
          \/ i.norm = normalize(r)
          \/ Movable(i) /\ is_strict_ancestor(i.norm, normalize(r))

(* A path that leads through folders it is in only.  One that goes down a    *)
(* folder and up again is not found without that folder: an item of the same *)
(* plan may take it away first, and when step 1 has kept this spelling of    *)
(* the path no other one is looked at.                                       *)
Direct(r) ==
  \A n \in 1..(Len(r) - 1) : \E k \in 1..(Len(normalize(r)) - 1) :
    normalize(SubSeq(r, 1, n)) = SubSeq(normalize(r), 1, k)

Refused(r) == classify(r, normalize(r))

ToGo == UNION {Below(normalize(r)) : r \in {q \in Asked : ~Refused(q)}}

(* Nothing but the cleaner was at work, and it is done.                      *)
Undisturbed ==
  /\ ~disturbed /\ pc = "commit" /\ todo = {}
  /\ \A r \in Asked : Refused(r) \/ Direct(r)

(* Unless the owner interferes, a commit moves exactly what was asked for    *)
(* and may go, all of it (graveyard.rs:58 "move everything non-protected").  *)
TakesWhatWasAsked == Undisturbed => there = before \ ToGo /\ failed = {}

(* And the bytes of the preview are the bytes moved (plan.rs:6).             *)
MovesWhatWasAsked ==
  /\ TakesWhatWasAsked
  /\ Undisturbed => total_bytes = Bytes(before \cap ToGo)
=============================================================================
