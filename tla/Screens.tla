-------------------------------- MODULE Screens --------------------------------
(* One machine, and what every screen of the program would show of it now.   *)
(* The owner's files, volumes and processes come and go; the user cleans a   *)
(* row that a screen offers, or ends a process.  The scans themselves are in *)
(* the modules this one extends; how they run and are cancelled is in        *)
(* Streams.                                                                  *)
EXTENDS Cleanable, Malware, Layout, Volumes, Reports

CONSTANTS
  Entries,       \* per operating system: the paths that may hold something
  Mounts,        \* per operating system: the raw volumes sysinfo may list
  Procs,         \* the processes there may be, as records [pid, memory, cpu]
  MaxPresent,    \* bound: entries, mounts or processes at one time
  self,          \* the pid of the program
  Precious       \* paths of data that nothing can make again

ASSUME MachineAssumption ==
  /\ \A o \in Os : Entries[o] \subseteq DOMAIN Meta
  /\ \A o \in Os : \A v \in Mounts[o] : v.total \in Nat /\ v.free \in Nat
  /\ \A p \in Procs : p.pid \in Nat /\ p.memory \in Nat /\ (p.cpu = NaN \/ p.cpu \in Nat)

VARIABLES os, disk, mounts, procs

machine == <<os, disk, mounts, procs>>

MachineTypeOK ==
  /\ os \in Os /\ disk \subseteq Entries[os] /\ mounts \subseteq Mounts[os] /\ procs \subseteq Procs

MachineInit == os \in Os /\ disk = {} /\ mounts = {} /\ procs = {}

(* Nothing that is shown is made of two of them: they vary one at a time, up *)
(* to the bound.                                                             *)
Room(varying, others) == others = {} /\ Cardinality(varying) < MaxPresent

(* Nothing is below a file or a link.                                        *)
Appear(p) ==
  /\ Room(disk, mounts \cup procs)
  /\ \A q \in disk : ~AtOrBelow(q, p) /\ ~AtOrBelow(p, q)
  /\ disk' = disk \cup {p} /\ UNCHANGED <<os, mounts, procs>>

Vanish(p) == p \in disk /\ disk' = disk \ {p} /\ UNCHANGED <<os, mounts, procs>>

Mount(v) ==
  /\ Room(mounts, disk \cup procs) /\ v \notin mounts
  /\ mounts' = mounts \cup {v} /\ UNCHANGED <<os, disk, procs>>

Unmount(v) == v \in mounts /\ mounts' = mounts \ {v} /\ UNCHANGED <<os, disk, procs>>

Start(p) ==
  /\ Room(procs, disk \cup mounts) /\ \A q \in procs : q.pid # p.pid
  /\ procs' = procs \cup {p} /\ UNCHANGED <<os, disk, mounts>>

(* A process that ignores the signal stays.                                  *)
is_protected_pid(pid) == pid \in {0, 1, self}

kill_process(p) ==
  /\ p \in procs /\ ~is_protected_pid(p.pid)
  /\ procs' = procs \ {p} /\ UNCHANGED <<os, disk, mounts>>
-----------------------------------------------------------------------------
RowsOf(found) == UNION {found[c].rows : c \in DOMAIN found}

ToClean ==
  RowsOf(scan_junk(disk, os))
  \cup UNION {RowsOf(scan_privacy(disk, os)[b].categories) : b \in DOMAIN BrowserCatalog(os)}

ToReview ==
  {Row(f.path, {Real(disk, f.path)}) : f \in ToSet(scan_malware(disk, os).findings)}
  \cup {Row(p, {p}) : p \in (UNION duplicate_groups(disk, os, home)) \cup Matched(disk, home, Now)}

(* What a commit of the row takes along.                                     *)
Taken(r) == {p \in disk : AtOrBelow(Place(disk, r.path), p)}

Clean(r) ==
  /\ ~classify(r.path, normalize(r.path))
  /\ disk' = disk \ Taken(r) /\ UNCHANGED <<os, mounts, procs>>

MachineNext ==
  \/ \E p \in Entries[os] : Appear(p) \/ Vanish(p)
  \/ \E v \in Mounts[os] : Mount(v) \/ Unmount(v)
  \/ \E p \in Procs : Start(p) \/ kill_process(p)
  \/ \E r \in ToClean \cup ToReview : Clean(r)

MachineSpec == MachineInit /\ [][MachineNext]_machine
-----------------------------------------------------------------------------
(* Whatever a screen offers for cleaning the cleaner accepts, and what it    *)
(* takes along is what the row has counted: no file more, none less.         *)
OffersAreHonest ==
  \A r \in ToClean \cup ToReview :
    ~classify(r.path, normalize(r.path)) /\ Typed(Taken(r), "File") = r.files

(* Firefox keeps the bookmarks in the file of the history, which the privacy *)
(* screen offers as such (privacy/catalog.rs:492).                           *)
IsFirefoxHistory(r) ==
  LET found == scan_privacy(disk, os)["firefox"].categories
  IN r \in found["history"].rows

(* The junk and privacy screens offer caches, traces and temporary files:    *)
(* selecting all of them takes no bookmark, password or document, but for    *)
(* the bookmarks of Firefox, which go with the row of that very file and     *)
(* with no other.                                                            *)
UserDataIsNotOffered ==
  \A r \in ToClean : \A p \in Taken(r) \cap Precious :
    /\ IsFirefoxHistory(r) /\ p = Place(disk, r.path)
    /\ p[Len(p)] = "places.sqlite"

FoundIn(found) == UNION {r.files : r \in UNION {found[c].found : c \in DOMAIN found}}

JunkAddsUp(junk) ==
  MapThenSumSet(LAMBDA c : junk[c].bytes, DOMAIN junk) = BytesOf(FoundIn(junk))

BrowserAddsUp(found) ==
  MapThenSumSet(LAMBDA c : found[c].items, DOMAIN found) = Cardinality(FoundIn(found))

(* Every folder of the name of a profile, under each of its browser's roots. *)
ProfileFolders(b) ==
  {root \o <<n>> : root \in BrowserCatalog(os)[b],
                   n \in {m \in ChromeProfile \cup FirefoxProfile :
                            \E root \in BrowserCatalog(os)[b] : IsDir(disk, root \o <<m>>)}}

(* A profile that is a folder under one root of its browser and a link under *)
(* another is left out.                                                      *)
IsComplete(b, found) ==
  ProfileFolders(b) \cap Typed(disk, "Symlink") = {} =>
    \A c \in DOMAIN found :
      UNION {r.files : r \in found[c].found} =
        UNION {FilesBelow(disk, f \o rel) : f \in ProfileFolders(b), rel \in categories(b)[c]}

(* The totals of a screen count every byte once: no two rows of the junk     *)
(* screen share a file, nor two of a browser, nor does one lie in another.   *)
(* They count all of it, also when the list is cut and when a profile is     *)
(* spread over several roots, and nothing outside a browser's own folders.   *)
TotalsAreExact ==
  /\ JunkAddsUp(scan_junk(disk, os))
  /\ \A b \in DOMAIN BrowserCatalog(os) :
       LET report == scan_privacy(disk, os)[b] IN
         BrowserAddsUp(report.categories) /\ (b # "safari" => IsComplete(b, report.categories))

Ordered(f) ==
  \A i, j \in DOMAIN f : i < j =>
    /\ severity_rank(f[i].severity) >= severity_rank(f[j].severity)
    /\ <<f[i].path, f[i].source>> # <<f[j].path, f[j].source>>

Mild(f) ==
  /\ is_noise_path(f.path) => f.source \in {"Signature", "SuspiciousAutostart"}
  /\ f.source = "RecentCacheBinary" => Meta[Real(disk, f.path)].mtime \in (Now - Window)..Now

Justified(report, found) ==
  /\ Ordered(report.findings)
  /\ report.critical_count + report.medium_count + report.info_count = Len(report.findings)
  /\ report.has_signature_hit <=> report.critical_count > 0
  /\ \A root \in hash_roots(os) : \A p \in FilesBelow(disk, root) :
       Is(p, "eicar") /\ Meta[p].len <= MaxHash => \E f \in found : f.path = p /\ f.severity = "Critical"
  /\ \A f \in found : Mild(f)

ReportJustified(report) == Justified(report, ToSet(report.findings))

(* The malware report puts the worst first and counts what it lists.  A test *)
(* signature in a download or unit file is never missed, whatever folder it  *)
(* is in; a tool's own tree raises nothing else but its unit files, and only *)
(* what is fresh counts as a fresh binary in a cache.                        *)
FindingsAreJustified == ReportJustified(scan_malware(disk, os))

(* The tiles of a folder share out its bytes and its square: nothing is left *)
(* out of the small or the many that are folded together.                    *)
TilesAccount ==
  BytesOf(FilesBelow(disk, home)) > 0 =>
    Tiles(lay_out_children(disk, home), BytesOf(FilesBelow(disk, home)))

(* The sidebar's list is well formed, and a scan's bytes are compared with a *)
(* volume of that list whenever there is any.                                *)
OnePrimary ==
  LET list == process(mounts, os) IN
    /\ WellFormed(list)
    /\ list # <<>> => \A path \in {"/", "/home/u", "C:\\Users"} :
                        volume_for_path(ToSet(list), path) # {}

(* What comes to a full list, in any order.                                  *)
Orders(all) == UNION {SetToSeqs(S) : S \in kSubset(Cap + 1, all)}

(* Folders with more in them than one folder.                                *)
Forks ==
  {f \in Folders(disk, home) :
     \E p \in FilesBelow(disk, f) : Len(p) = Len(f) + 1 \/ Cardinality(Names(disk, f)) > 1}

(* A group has no more of a size than the cap and no two names of an inode;  *)
(* if its files are of one size, it wastes what it says: all but any of them *)
(* are other bytes on the disk.  Copies of different allocation may be in    *)
(* one group (dupes/pipeline.rs:209), and then it may not.                   *)
DuplicatesAddUp(g) ==
  /\ \A p \in g : Cardinality({q \in g : SameSize(p, q)}) <= Cap
  /\ os # "windows" => Cardinality({Meta[p].inode : p \in g}) = Cardinality(g)
  /\ (\A p, q \in g : SameSize(p, q)) => \A p \in g : BytesOf(g \ {p}) = Wasted(g)

(* However long the lists and in whatever order their items come, what is    *)
(* kept is the largest; and a group of duplicates adds up.                   *)
ListsKeepTheLargest ==
  LET Folder(k, l) == Bigger(disk, l, k)
  IN /\ \A order \in Orders(Matched(disk, home, Now)) :
          KeepsBest(large_old_rows(order), ToSet(order), LAMBDA k, l : Larger(l, k))
     /\ \A order \in Orders(Forks) :
          KeepsBest(biggest_folders(disk, order), ToSet(order), Folder)
     /\ KeepsBest(take_top(sort_by_memory(procs)), procs, LAMBDA k, l : l.memory > k.memory)
     /\ KeepsBest(take_top(sort_by_cpu(procs)), procs,
                  LAMBDA k, l : l.cpu # NaN /\ (k.cpu = NaN \/ l.cpu > k.cpu))
     /\ \A g \in duplicate_groups(disk, os, home) : DuplicatesAddUp(g)
=============================================================================
