-------------------------------- MODULE Volumes --------------------------------
(* volumes/process.rs: from what sysinfo lists to the volumes of the sidebar.*)
(* A mount point is its string, as the code compares it.  A raw volume is a  *)
(* record [mount, total, free, pseudo_fs, removable]; names and kinds are    *)
(* left out.                                                                 *)
EXTENDS Sorting

starts_with(s, prefix) == Len(prefix) <= Len(s) /\ SubSeq(s, 1, Len(prefix)) = prefix

LinuxNoise ==
  {"/proc", "/sys", "/run", "/dev", "/snap/", "/var/snap/", "/var/lib/docker/",
   "/var/lib/containers/", "/boot/efi"}

is_pseudo(v, platform) ==
  \/ v.pseudo_fs
  \/ platform = "linux" /\ (v.mount = "/snap" \/ \E p \in LinuxNoise : starts_with(v.mount, p))
  \/ platform = "mac" /\ starts_with(v.mount, "/System/Volumes/") /\ v.mount # "/System/Volumes/Data"

(* Of a mount point listed twice the larger is kept.                         *)
dedupe_by_mount(vs) ==
  {v \in vs : v = CHOOSE w \in {u \in vs : u.mount = v.mount} :
                    \A u \in vs : u.mount = v.mount => u.total <= w.total}

Largest(vs) == CHOOSE v \in vs : \A w \in vs : w.total <= v.total

(* The root or system drive; else the largest fixed one; else the largest.   *)
pick_primary(vs, platform) ==
  LET at(m) == {v \in vs : v.mount = m}
      rooted == IF platform # "windows" THEN at("/")
                ELSE IF at("C:\\") # {} THEN at("C:\\") ELSE at("C:/")
      fixed == {v \in vs : ~v.removable}
  IN IF vs = {} THEN {}
     ELSE IF rooted # {} THEN {CHOOSE v \in rooted : TRUE}
     ELSE {Largest(IF fixed # {} THEN fixed ELSE vs)}

to_volume(v, primary) ==
  [mount_point |-> v.mount, total_bytes |-> v.total,
   used_bytes |-> IF v.free > v.total THEN 0 ELSE v.total - v.free,
   free_bytes |-> IF v.free > v.total THEN v.total ELSE v.free,
   is_primary |-> v \in primary]

(* The primary first, then by size.                                          *)
Sidebar(vs, primary) ==
  LET all == {to_volume(v, primary) : v \in vs}
      before(v, w) == \/ v.is_primary /\ ~w.is_primary
                      \/ v.is_primary = w.is_primary /\ v.total_bytes > w.total_bytes
  IN SortedBy(all, {p \in all \X all : before(p[1], p[2])})

Kept(raw, platform) == dedupe_by_mount({v \in raw : v.total > 0 /\ ~is_pseudo(v, platform)})

(* Mutant: the primary is picked before the noise is dropped.                *)
ProcessEarlyPick(raw, platform) == Sidebar(Kept(raw, platform), pick_primary(dedupe_by_mount(raw), platform))

process(raw, platform) == Sidebar(Kept(raw, platform), pick_primary(Kept(raw, platform), platform))

(* The longest mount point the path's string begins with; else the primary.  *)
volume_for_path(vs, path) ==
  LET on == {v \in vs : v.mount_point # "" /\ starts_with(path, v.mount_point)}
  IN IF on = {} THEN {v \in vs : v.is_primary}
     ELSE {CHOOSE v \in on : \A w \in on : Len(w.mount_point) <= Len(v.mount_point)}
-----------------------------------------------------------------------------
(* What the sidebar promises of its list (volumes/types.rs:47): one primary  *)
(* when there is any volume, first in the list; each mount point once; no    *)
(* more used and free than there is.                                         *)
WellFormed(list) ==
  /\ list # <<>> => list[1].is_primary
  /\ \A i \in DOMAIN list : /\ list[i].is_primary => i = 1
                            /\ list[i].used_bytes + list[i].free_bytes = list[i].total_bytes
                            /\ list[i].total_bytes > 0
  /\ \A i, j \in DOMAIN list : list[i].mount_point = list[j].mount_point => i = j
=============================================================================
