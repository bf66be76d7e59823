-------------------------------- MODULE Reports --------------------------------
(* What the long lists keep when there is more than they show: the duplicate *)
(* candidates (dupes/pipeline.rs), the large and old files (largeold/        *)
(* pipeline.rs), the biggest folders (treemap/tree.rs), the busiest          *)
(* processes (activity/sample.rs).                                           *)
EXTENDS Files

CONSTANTS
  Alpha,         \* the order of paths, as a number per path
  Cap,           \* TopN's cap, MAX_CANDIDATES_PER_BUCKET, biggest_folders' n, top_n
  MinBytes,      \* min_bytes of the duplicate and the large-old scan
  MinIdle,       \* min_days_idle, in the unit of mtime
  NaN            \* a cpu_percent that is no number

ASSUME ReportsAssumption ==
  /\ Cap \in Nat /\ MinBytes \in Nat /\ MinIdle \in Nat
  /\ \A p \in DOMAIN Meta : \A n \in 1..Len(p) : SubSeq(p, 1, n) \in DOMAIN Alpha
  /\ \A p, q \in DOMAIN Alpha : Alpha[p] \in Nat /\ (Alpha[p] = Alpha[q] => p = q)
  /\ \A p, q \in DOMAIN Meta : Meta[p].body = Meta[q].body => Meta[p].head = Meta[q].head
-----------------------------------------------------------------------------
(* Candidates                                                                *)
IGNORED_DIR_NAMES ==
  {"node_modules", ".git", ".hg", ".svn", ".bzr", "Pods", "DerivedData", "__pycache__", ".venv",
   "venv", "vendor", ".gradle", ".tox", "target", "Cellar", ".pnpm-store", ".yarn"}

(* Nothing below a pruned name is visited, nor a file of such a name.        *)
Visited(disk, root) ==
  {p \in FilesBelow(disk, root) : \A n \in (Len(root) + 1)..Len(p) : p[n] \notin IGNORED_DIR_NAMES}

(* Disks of virtual machines and the like are left to their programs.        *)
is_sparse_container_path(p) == Meta[p].container

Sized(disk, root) ==
  {p \in Visited(disk, root) : ~is_sparse_container_path(p) /\ allocated_bytes(p) >= MinBytes}

(* Mutant: every name of a file is a candidate.                              *)
CollectAllNames(disk, os, root) == Sized(disk, root)

(* One name of each inode; windows reports no inodes.                        *)
collect_candidates(disk, os, root) ==
  {p \in Sized(disk, root) :
     os # "windows" => p = CHOOSE q \in Sized(disk, root) : Meta[q].inode = Meta[p].inode}

cap_bucket(bucket) ==
  {p \in bucket : Cardinality({q \in bucket : Alpha[q] < Alpha[p]}) < Cap}

SameSize(p, q) == allocated_bytes(p) = allocated_bytes(q)

(* Files that share their size with another, each bucket cut at the cap.     *)
size_candidates(all) ==
  LET bucket(p) == {q \in all : SameSize(p, q)}
  IN UNION {cap_bucket(bucket(p)) : p \in {q \in all : Cardinality(bucket(q)) >= 2}}

(* Those that share the first page too.                                      *)
candidates_for_full(sized) ==
  {p \in sized : \E q \in sized \ {p} : SameSize(p, q) /\ Meta[p].head = Meta[q].head}

(* The last pass is by content alone: copies of different allocation, a      *)
(* sparse one and an ordinary one, meet in one group.                        *)
full_groups(full) ==
  {g \in {{q \in full : Meta[q].body = Meta[p].body} : p \in full} : Cardinality(g) >= 2}

duplicate_groups(disk, os, root) ==
  full_groups(candidates_for_full(size_candidates(collect_candidates(disk, os, root))))

(* The size of a group is that of its first path.                            *)
bytes_each(g) == allocated_bytes(CHOOSE p \in g : \A q \in g : Alpha[p] <= Alpha[q])

(* wasted_bytes: all but one copy.                                           *)
Wasted(g) == (Cardinality(g) - 1) * bytes_each(g)
-----------------------------------------------------------------------------
(* Bounded heaps: what is offered replaces the last of what is kept.  An     *)
(* order is the set of the pairs whose first comes before the second.        *)
LastOf(kept, before) == CHOOSE p \in kept : \A q \in kept \ {p} : <<q, p>> \in before

Offered(kept, item, before) ==
  IF <<item, LastOf(kept, before)>> \in before
  THEN (kept \ {LastOf(kept, before)}) \cup {item} ELSE kept

(* TopN::offer                                                               *)
offer(kept, item, before) ==
  IF Cardinality(kept) < Cap THEN kept \cup {item}
  ELSE IF Cap = 0 THEN kept ELSE Offered(kept, item, before)

TopN(order, before) == FoldLeft(LAMBDA kept, item : offer(kept, item, before), {}, order)

Larger(p, q) ==
  \/ allocated_bytes(p) > allocated_bytes(q)
  \/ allocated_bytes(p) = allocated_bytes(q) /\ Alpha[p] < Alpha[q]

LargerOf(paths) == {p \in paths \X paths : Larger(p[1], p[2])}

(* An mtime in the future is no idle time at all.                            *)
Idle(p, now) == IF Meta[p].mtime > now THEN 0 ELSE now - Meta[p].mtime

Matched(disk, root, now) == {p \in Sized(disk, root) : Idle(p, now) >= MinIdle}

(* The walk offers the files in an order of its own.                         *)
large_old_rows(order) == TopN(order, LargerOf(ToSet(order)))

Folders(disk, root) ==
  {f \in UNION {{SubSeq(p, 1, n) : n \in (Len(root) + 1)..(Len(p) - 1)} : p \in FilesBelow(disk, root)} :
     BytesOf(FilesBelow(disk, f)) > 0}

(* biggest_folders: by bytes, then by files, then the later name.            *)
Bigger(disk, f, g) ==
  LET b(x) == BytesOf(FilesBelow(disk, x))
      c(x) == Cardinality(FilesBelow(disk, x))
  IN \/ b(f) > b(g)
     \/ b(f) = b(g) /\ c(f) > c(g)
     \/ b(f) = b(g) /\ c(f) = c(g) /\ Alpha[f] > Alpha[g]

BiggerOf(disk, folders) == {p \in folders \X folders : Bigger(disk, p[1], p[2])}

biggest_folders(disk, order) == TopN(order, BiggerOf(disk, ToSet(order)))
-----------------------------------------------------------------------------
(* A process is a record [pid, memory, cpu].                                 *)
MoreMemory(a, b) == a.memory > b.memory \/ (a.memory = b.memory /\ a.pid < b.pid)

sort_by_memory(rows) == SortedBy(rows, {p \in rows \X rows : MoreMemory(p[1], p[2])})

(* Numbers before what is none; equal ones by pid.                           *)
Busier(a, b) ==
  CASE a.cpu # NaN /\ b.cpu # NaN -> a.cpu > b.cpu \/ (a.cpu = b.cpu /\ a.pid < b.pid)
    [] a.cpu = NaN /\ b.cpu = NaN -> a.pid < b.pid
    [] OTHER -> b.cpu = NaN

sort_by_cpu(rows) == SortedBy(rows, {p \in rows \X rows : Busier(p[1], p[2])})

take_top(rows) == ToSet(SubSeq(rows, 1, IF Len(rows) < Cap THEN Len(rows) ELSE Cap))
-----------------------------------------------------------------------------
(* kept holds the best of all, as many as fit.                               *)
KeepsBest(kept, all, WorseThan(_, _)) ==
  /\ kept \subseteq all
  /\ Cardinality(kept) = IF Cardinality(all) < Cap THEN Cardinality(all) ELSE Cap
  /\ \A k \in kept, l \in all \ kept : ~WorseThan(k, l)
=============================================================================
