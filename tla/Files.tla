-------------------------------- MODULE Files --------------------------------
(* A disk as the scanners of the library read it: a set of paths, what is    *)
(* at each of them being fixed.  A folder is there while something is below  *)
(* it; an entry of type "Directory" stands for an empty one.  A link leads   *)
(* to a place that has no link in its path.                                  *)
EXTENDS Safety, Sorting

CONSTANTS
  Meta,       \* per path what metadata() says of the entry, and its content
  Block       \* bytes of an allocation unit (512 on the hosts of the program)

ASSUME FilesAssumption ==
  /\ DOMAIN Meta \subseteq Seq(STRING) \ {<<>>}
  /\ \A p \in DOMAIN Meta : /\ Meta[p].type \in {"File", "Directory", "Symlink"}
                            /\ Meta[p].type = "Symlink" => Meta[p].to \in Seq(STRING)
                            /\ {Meta[p].blocks, Meta[p].len, Meta[p].mtime} \subseteq Nat
  /\ Block \in Nat \ {0}

AtOrBelow(p, q) == Len(p) <= Len(q) /\ SubSeq(q, 1, Len(p)) = p

Typed(disk, t) == {p \in disk : Meta[p].type = t}

(* Where a path leads, when one of its components is a link.                 *)
Real(disk, p) ==
  LET links == {l \in disk : AtOrBelow(l, p) /\ Meta[l].type = "Symlink"} IN
    IF links = {} THEN p
    ELSE LET l == CHOOSE l \in links : TRUE IN Meta[l].to \o SubSeq(p, Len(l) + 1, Len(p))

(* The place lstat looks at: a link at the end is not followed.              *)
Place(disk, p) ==
  IF p \in disk THEN p ELSE Real(disk, p)

(* The names read_dir lists.                                                 *)
Names(disk, dir) ==
  {p[Len(dir) + 1] : p \in {q \in disk : AtOrBelow(dir, q) /\ q # dir}}

IsFile(disk, q) == q \in Typed(disk, "File")
IsDir(disk, q)  == q \in Typed(disk, "Directory") \/ Names(disk, q) # {}
Exists(disk, p) == LET q == Real(disk, p) IN IsFile(disk, q) \/ IsDir(disk, q)

(* allocated_bytes: of a sparse file the blocks, of a short one its length.  *)
allocated_bytes(p) ==
  LET real == Meta[p].blocks * Block IN
    IF real = 0 \/ real > Meta[p].len THEN Meta[p].len ELSE real

BytesOf(paths) == MapThenSumSet(allocated_bytes, paths)

(* sum_subtree: jwalk does not follow links.                                 *)
FilesBelow(disk, dir) == {p \in disk : AtOrBelow(dir, p) /\ Meta[p].type = "File"}
=============================================================================
