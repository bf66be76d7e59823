------------------------------- MODULE Cleanable -------------------------------
(* The junk and the privacy scans (scanner/junk/scan.rs, privacy/scan.rs):   *)
(* from a disk and the catalogs to the rows a user can select.  A row is a   *)
(* path with the files it counts; times and formatting are left out.         *)
EXTENDS Catalogs, Files

CONSTANTS
  MaxRows,        \* MAX_DETAILS_PER_CATEGORY and MAX_TARGETS_PER_CATEGORY
  ChromeProfile,  \* names that are Default, or "Profile " and digits
  FirefoxProfile  \* names with a dot after letters and digits, but the folders of Firefox itself

Row(path, files) == [path |-> path, files |-> files]
RowBytes(r) == BytesOf(r.files)

(* The largest rows first; equal ones in the order of the folder listing.    *)
Ranked(rows) == SortedBy(rows, {p \in rows \X rows : RowBytes(p[1]) > RowBytes(p[2])})

Truncated(rows) == ToSet(SubSeq(Ranked(rows), 1, IF Cardinality(rows) < MaxRows THEN Cardinality(rows) ELSE MaxRows))

(* What a category reports: totals of all its rows, the largest of the rows. *)
Category(rows) == [
  bytes |-> MapThenSumSet(RowBytes, rows),
  items |-> MapThenSumSet(LAMBDA r : Cardinality(r.files), rows),
  rows  |-> Truncated(rows),
  found |-> rows]
-----------------------------------------------------------------------------
(* junk.  Of a folder: a row per file in it, and per folder with files in    *)
(* it.  Links in it are skipped; the base itself may be one.                 *)
scan_direct_children(disk, base) ==
  LET At(n) == Real(disk, base) \o <<n>>
      files(n) == FilesBelow(disk, At(n))
  IN {Row(base \o <<n>>, files(n)) :
        n \in {m \in Names(disk, Real(disk, base)) : files(m) # {}}}

scan_category(disk, bases) ==
  UNION {IF IsFile(disk, Real(disk, base)) THEN {Row(base, {Real(disk, base)})}
         ELSE scan_direct_children(disk, base) : base \in {b \in bases : Exists(disk, b)}}

scan_junk(disk, os) ==
  [c \in DOMAIN JunkCatalog(os) |-> Category(scan_category(disk, JunkCatalog(os)[c]))]
-----------------------------------------------------------------------------
(* privacy                                                                   *)
is_profile_dir(mode, name) ==
  \/ mode = "ChromeLike" /\ name \in ChromeProfile
  \/ mode = "FirefoxLike" /\ name \in FirefoxProfile

(* Mutant: only the first root that has profiles is looked into.             *)
ProfilesOfOneRoot(disk, os, browser) ==
  LET In(root) == {n \in Names(disk, Real(disk, root)) :
                     IsDir(disk, Real(disk, root) \o <<n>>) /\ is_profile_dir(profile_mode(browser), n)}
      some == {r \in BrowserCatalog(os)[browser] : In(r) # {}}
  IN IF some = {} THEN {} ELSE In(CHOOSE r \in some : TRUE)

(* Real folders only, under any of the roots: one profile has parts in many. *)
discover_profiles(disk, os, browser) ==
  UNION {{n \in Names(disk, Real(disk, root)) :
            /\ IsDir(disk, Real(disk, root) \o <<n>>)
            /\ is_profile_dir(profile_mode(browser), n)} : root \in BrowserCatalog(os)[browser]}

(* Every root, with every profile, is probed.                                *)
resolve_targets(os, browser, category, profiles) ==
  IF profile_mode(browser) = "None" THEN {H(rel) : rel \in categories(browser)[category]}
  ELSE {root \o <<p>> \o rel :
          root \in BrowserCatalog(os)[browser], p \in profiles, rel \in categories(browser)[category]}

(* Mutant: a link is sized as what it leads to.                              *)
stat_follows(disk, abs) == FilesBelow(disk, Real(disk, abs))

(* Links and folders without files are no targets.                           *)
stat_target(disk, abs) == FilesBelow(disk, Place(disk, abs))

TargetRows(disk, os, browser, category) ==
  {r \in {Row(t, stat_target(disk, t)) :
            t \in resolve_targets(os, browser, category, discover_profiles(disk, os, browser))} :
     r.files # {}}

(* Safari's folder is on every mac: only its files make it available.        *)
Available(disk, os, browser) ==
  IF profile_mode(browser) = "None"
  THEN \E c \in DOMAIN categories(browser) : TargetRows(disk, os, browser, c) # {}
  ELSE \E root \in BrowserCatalog(os)[browser] : Exists(disk, root)

scan_browser(disk, os, browser) == [
  available  |-> Available(disk, os, browser),
  profiles   |-> discover_profiles(disk, os, browser),
  categories |-> [c \in DOMAIN categories(browser) |-> Category(TargetRows(disk, os, browser, c))]]

scan_privacy(disk, os) ==
  [b \in DOMAIN BrowserCatalog(os) |-> scan_browser(disk, os, b)]
=============================================================================
