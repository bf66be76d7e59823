# A TLA+ model of safai

safai is a desktop cleaner: a Tauri application with a Rust back end (`src-tauri/src`) and a
Solid front end (`src`). It scans a disk for things that can go, moves what the user picks into
a graveyard of its own instead of deleting it, can put the last batch back, and repeats scans on
a schedule. Its promise (README.md of the repository): "nothing gets hard-deleted, everything
goes to a safai-owned graveyard so you can restore the last clean if you change your mind".

## 1. Inventory

| Component | State it keeps | Operations | Interacts with | What must hold |
|---|---|---|---|---|
| `cleaner/mod.rs` | plan cache (mutex), paths of the data dir | preview, commit, restore_last, purge_all, sweep_stale | plan, graveyard, audit | a token commits once; a plan that was committed is undoable |
| `cleaner/graveyard.rs` | `graveyard/<batch>/{items,manifest.json}` | commit, restore_batch, sweep, stats, safe_move | file system, audit | nothing destroyed but by a purge; nothing overwritten |
| `cleaner/audit.rs` | `audit.log` | append_*, latest_commit, read_all | graveyard, mod | latest_commit is the newest restorable batch; bad lines do no harm |
| `cleaner/plan.rs`, `safety.rs` | none | build_plan, prune_stale, classify, normalize | mod | no protected path in a plan's movable items; no double counting |
| `scheduler/*` | cadence, stop and wake flags of the controller thread | tick, sleep, notify, cancel, compute_next_due | `state.json`, UI events | fires when due, once per period, never while disabled |
| `onboarding/*` | `state.json` | load, save, reset, set_step, record_permission, complete | scheduler, UI | no preference is lost; a broken file does not brick the start |
| `scanner/run.rs` | controller (state, counters, error, elapsed), registry | run_scan, pause, resume, cancel, forget | UI events, LastScanStore | terminal states stick; one `done` per scan |
| `scanner/dupes`, `largeold`, `malware` | controller (cancelled, counters), registry | run_*_stream, cancel, forget | UI events | one `done`, last; cancel is obeyed; no partial set passes for a whole one |
| `scanner/treemap` | controller, registry, cache of finished trees | run_treemap_stream, serve, invalidate | UI events | a cancelled walk is never cached; served trees are deep enough |
| `scanner/activity` | controller (interval, cancelled, wake), registry | run_activity_stream, refresh, set_interval, kill_pid | sysinfo, UI events | cancel and refresh take effect within one interval |
| `scanner/junk`, `privacy` | none (read-only sweeps of catalogs) | scan_junk, scan_privacy | file system | sizes are not counted twice; rows are what the cleaner takes; no user data is offered |
| `scanner/startup` | OS start-up entries | scan_startup, toggle_startup | plist, .desktop, registry files | a toggle takes effect and loses no entry |
| `volumes/*` | none | list_volumes, volume_for_path | sysinfo | one primary volume; the user's volumes are kept |
| `commands.rs`, `lib.rs` | managed state of the above | 60 commands, build_cleaner, spawn_scheduler | everything | - |
| front end (`src/`) | scan cache, screens | invokes commands, listens to events | commands.rs | stale events of an earlier scan are ignored |

**What is hard in it.** Commands of one process run beside walker threads, the scheduler thread
and sampler threads; nothing stops a second instance of the application from using the same data
directory (no single-instance plugin in `lib.rs`), and the start-up sweep then runs against a
live graveyard. Moves are several file system steps, records are written after the fact without
a write-ahead log, and a crash can fall between any two of them. Controllers mix atomics,
mutexes and condition variables. `state.json` is read, changed and written back whole by six
commands and a background thread.

## 2. Plan

In the order of importance; all of it is held by the present project.

1. `AuditLog`, `AuditScan`, `SafeTrash`, `UndoLog` - batches, the log, restores and purges under
   crashes, failures and two instances; refinement of `SafeTrash`; proved.
2. `GraveyardMove` - one item moved out and back, part by part; proved.
3. `PlanCache` - tokens, expiry, racing commits; proved.
4. `Safety`, `BuildPlan` - from a request to what is moved: `safety.rs`, `plan.rs`, the commit
   loop; proved.
5. `Scheduler` - the controller thread, `state.json`, the commands that share it; proved.
6. `ScanRun` - controller, walker, read-ahead workers, commands; proved.
7. `DiskScreen` - the disk screen, its walkers, the cache of finished trees; proved.
8. `Streams` - the background streams of duplicates, large files, malware and activity under
   cancels and a file system that changes; proved.
9. `Sorting`, `Files`, `Catalogs`, `Cleanable`, `Malware`, `Layout`, `Volumes`, `Reports`,
   composed in `Screens` - what each screen shows of a disk, and what the cleaner takes when the
   user follows its offer; the volumes, the malware report and the bounded lists proved.
10. `Startup` - toggles of start-up entries in several steps, and the screen above them; proved.

What could follow: the screens of duplicates, large files and malware, with their cached reports
and late events, in the way of `DiskScreen`; the front end's shared acquire and release of the
sampler (`lib/activityStream.ts`).

## 3. Modules

`EXTENDS` and `INSTANCE` between them:

    AuditLog <- UndoLog <- UndoLog_proofs        SafeTrash <- (INSTANCE) UndoLog
    AuditLog <- AuditScan;  UndoLog, AuditScan <- MCUndoLog
    GraveyardMove <- GraveyardMove_proofs        PlanCache <- MCPlanCache, PlanCache_proofs
    Safety <- BuildPlan <- MCBuildPlan, BuildPlan_proofs
    ScanRun <- MCScanRun;  Scheduler, ScanRun <- Threads_proofs
    DiskScreen <- MCDiskScreen, DiskScreen_proofs
    Startup <- MCStartup, Startup_proofs
    Sorting <- Volumes;  Safety, Sorting <- Files;  Safety <- Catalogs
    Files, Catalogs <- Cleanable, Malware;       Files <- Layout, Reports
    Cleanable, Malware, Layout, Reports, Volumes <- Screens <- MCScreens
    Streams <- MCStreams;  Streams, Screens <- Scans_proofs

`ScanRun` gives its specification and variables names of their own (`ScanSpec`, `scanVars`), so
that one module can prove about it and about `Scheduler`; so does `Screens` (`MachineSpec`,
`machine`), proved about in one module with `Streams`.

| Module | Its state, in the code | Its actions, in the code |
|---|---|---|
| `AuditLog` | `audit.log` as a sequence of records, line feeds and torn pieces | what `read_all` accepts and what `latest_commit` means, declaratively |
| `AuditScan` | - | `read_all` and `latest_commit` as the loops they are |
| `SafeTrash` | where each item is, which batches are sealed, which purges were asked for | abstract: the promise of the cleaner |
| `UndoLog` | `log`; `dir`, `manifest`, `place` are the graveyard; `pc, op, cur, todo, bad, scan, pend` are the local variables of the running operations | one action per file system step of `graveyard::commit`, `restore_batch`, `sweep`, of `audit::append` (text, then line feed) and of `Cleaner::commit`, `restore_last`, `purge_all`, `sweep_stale`; every failing branch; crashes between two steps and inside `remove_dir_all` |
| `GraveyardMove` | `node`, `data`: what is at the two paths, part by part; `pc, back, todo, told` | `safe_move` with its rename, copy and removal; commit's slot tidying; `restore_batch`'s checks; the owner editing, deleting and recreating |
| `PlanCache` | `cache` is `Cleaner::plans`; `plan, todo, bytes_trashed` are a call's locals | `preview` in two steps (build, then prune and insert under the lock), `commit` in three (take under the lock, make the batch, move item by item), restarts, the clock, the owner |
| `Safety` | - | `classify` and `normalize`: the path policy that plans, scans and offers share |
| `BuildPlan` | `normed, staged, items` are the locals of `build_plan`; `there` is the file system; `todo, failed` are the commit's | one action per path and loop of `build_plan`, one per item of the commit loop |
| `Scheduler` | `file` is `state.json`; `cadence` is the controller's; `pc, tcad, tnow, tstate, sleep` the thread's; `upc, ustate` the main thread's | `tick` in its four steps (read cadence and time, load, emit, save), `sleep_cancellable`, `notify`; load, change, save and `set_cadence` of each settings and onboarding command; launch |
| `ScanRun` | `state, run_start` are the controller's atomics; `unread, queue, hand` the walk; `wpc, cpc` the walker and the command inside `set_state` | `run_scan`, `walk_one`, jwalk's read-ahead workers, `handle_entry`, `set_state` in its three steps for walker and commands, the registry |
| `DiskScreen` | `stack, response, scanning, error, currentHandle, unsubscribe` are the signals and variables of `Disk.tsx`; `pc, root, held, reply` its calls in flight; `wpc, cancelled, seen, registry, cache` the back end; `events` what is emitted and not delivered | every handler of the screen up to its next await, every resumption, the commands, the walker up to its next look at the flag, the cache |
| `Streams` | `flag` and `listed` are the controllers and registries of `*/stream.rs`; `pc, pass, todo, seen` the thread of each handle; `report` what its done event carries; `interval, nap, ring` the sampler's | start, cancel, forget; the three passes over the files (dupes), the one pass (large files), the three sweeps (malware), each up to its next look at the flag; `set_interval_ms` and `cancel` in their store and their notify; the sampler's look, sample and wait; files changed under a scan |
| `Sorting` | - | `slice::sort_by`, which is stable, by an order given as a set of pairs |
| `Files` | - | what a scanner reads of a disk: types, links, `allocated_bytes`, the files below a folder |
| `Catalogs` | - | the known folders of the three catalogs, per operating system |
| `Cleanable` | - | `scan_junk`, `scan_privacy`: profiles, rows, caps, totals |
| `Malware` | - | `scan_malware`: heuristics, noise filter, signature, sweeps, `finalize` |
| `Layout` | - | `lay_out_children` and `squarify` in exact fractions |
| `Volumes` | - | `process`: filter, deduplicate, pick the primary, sort; `volume_for_path` |
| `Reports` | - | the bounded lists: `TopN`, the size buckets, `biggest_folders`, the two process sorts |
| `Screens` | `disk`, `mounts`, `procs`: the machine the scans read | the owner's files, volumes and processes come and go; `Clean` takes a row that a screen offers, as `graveyard::commit` would; `kill_process` |
| `Startup` | `file, shadow, wants, tmp` are the entries on disk; `work` the command on the main thread; `calls, answers` the screen's requests and replies in flight; `report, overrides, pendingIds, lastStamp` its signals | the readers of the four kinds; each toggle in its file system steps (write a temporary file, rename, move aside, remove a stale twin; look for the unit, look into the wants folder, link or unlink); failures and crashes between them; the screen's click, rescan, answers and remount; other programs writing the same files |

The interleavings are those of the code. Tauri runs the commands of one process one after the
other on the main thread, so a command interleaves with walker, sampler and scheduler threads,
with a second instance of the application, and with what the owner does to his files; `Cleaner`
takes `&self` and holds its lock only around the map of plans, so `UndoLog` and `PlanCache` let
its operations overlap for any number of workers.

### Abstractions

- *UndoLog.* An item is moved in one step (`GraveyardMove` takes that apart). A
  batch's directory holds a manifest that parses, one that does not, or none. Sizes, names and
  times are left out; which batches are older than the ttl is any set.
- *AuditLog.* A line is a record if it is one whole record; two records glued together by a lost
  line feed are no record. The bytes of a line are not modelled.
- *GraveyardMove.* An item has two parts (the files of a directory), each absent, torn, old or
  new.
- *PlanCache.* The plan of a path is the size, at preview, of what is at it or below it (`Below`);
  what is protected has none. One commit item stands for one path.
- *BuildPlan.* A path is a sequence of components. The Windows spellings and the ASCII case
  folding of `classify`, the reasons it returns, the file counts and the display order are left
  out. No request goes through a symbolic link, since `normalize` is lexical, and there
  `classify` and the file system would speak of different places. What a commit takes is stated
  for requests that make no detour (`Direct`; section 7 says what a detour does).
- *Scheduler.* Time is counted in `MAX_SLEEP_SECS`; a tick or a command takes no such unit.
  Everything in `state.json` beside the schedule is one value, chosen or default.
- *ScanRun.* The counters are the set of files counted. Errors of single entries count nothing
  and are left out.
- *DiskScreen.* A tree is its root and the set of files added up; sizes are sets of files; the
  cap on the number of tiles is in `Layout`, that of 16 on the biggest folders in `Reports`; the
  files do not change. One instance of the screen is followed.
- *Streams.* A content says all that a pass can read of a file: its allocated size, its first page,
  the whole; two contents may be the same bytes in different allocations. Each handle has a thread
  of its own and shares nothing with another but the file system. Progress events are left out.
- *Files, Catalogs.* A folder exists while something is below it. Of a file, only what a
  predicate asks is kept (`Malware` lists the traits). Labels, icons and times of display are
  left out; so is the syntax of browser profile names, given as sets.
- *Layout.* Coordinates are exact fractions; the rounding of `f64` to `f32` is left out.
- *Volumes.* Mount points are the strings the code compares, prefix by prefix.
- *Startup.* Of a text, the keys that the readers and writers look at, in their order, and one
  value for the rest. Of the wants folder, whether nothing, a link or something else has a unit's
  name; the folder itself is not told from one that is empty. What launches is what the code's own
  readers say (section 7). The read-only system folders and the boot estimates are left out, and so
  are the registry entries, which are stubs in the code.

## 4. Runs

| Run | Instance | What it shows |
|---|---|---|
| `undo_serial` | 1 worker, 2 batches of 2 items, manifest writes may fail, log up to 8 pieces when a restore starts | between operations the log and the graveyard agree: the latest commit can be restored (`LatestRestorable`), an acknowledged commit is found (`AckedIsLogged`), `purge_all` without failures leaves items only in batches whose manifest is missing or does not parse (`PurgeAllEmptiesListed`) |
| `undo_faults` | 2 workers, 1 batch of 2 items, all faults | a purge is the only thing that destroys (`OnlyPurgeBurns`); purge records are true (`PurgeRecordMeansGone`); `read_all` and `latest_commit` compute their definition on every log reached (`ScanAgrees`); `UndoLog` implements `SafeTrash` |
| `undo_dead_batch` | 1 worker, 1 batch, crashes | violation: a crash inside a purge leaves `restore_last` stuck (section 7) |
| `move` | 2 parts, all shapes, one or two devices, all faults | what a move keeps under each combination of faults and owner |
| `plan_races` | 2 threads, 2 tokens, a folder and a path in it, ttl 1, clock to 2 | a token commits once (`CommitsOnce`), no live plan is lost (`NoPlanIsLost`), a commit reports every byte it moved and beyond those only what another commit moved from below its items (`BytesAreMoved`) |
| `plan_build` | 10 places, 12 spellings of requests, up to 3 of them, two initial file systems | nothing critical moves, the commit moves what was asked and the totals are right |
| `sched` | daily 1, weekly 3, clock to 3, all faults | fires keep their distance and are at most one unit late; settings survive the ticks |
| `scan` | 2 roots, 3 directories, 4 files | a Done scan counted everything; a cancel is reported; the scan ends |
| `disk` | 2 files, one of them four levels down, depth 2, 3 calls of which one may start at any time | what is served from the cache has a walk's totals and tiles, and its biggest folders as far down as the cached tree goes (`ServedIsWhole`); the screen comes to rest on the right folder (`RestsOnWhole`); the spinner stops (`SpinnerStops`) |
| `streams` | 1 handle, of any kind, 3 files, 3 contents of which two differ past their first page and one is a sparse copy, 1 change of the file system | groups are files of the same bytes, however late the cancel (`GroupsAreEqual`); a scan nobody cancelled misses no two equal files of one allocated size (`ReportIsComplete`); a cancel leaves all of a list or none of it (`CancelLeavesNoHalf`); the sampler sleeps at most once against an order (`OneStaleNap`); streams end (`StreamsEnd`) |
| `screens` | every machine of up to 4 entries out of about 16 per operating system, 3 volumes or 3 processes | the cleaner takes exactly what a row counted (`OffersAreHonest`); no offer reaches bookmarks, passwords or documents, but for the database of Firefox's history row (`UserDataIsNotOffered`); totals count every byte once (`TotalsAreExact`); malware findings are justified, ordered and not missed (`FindingsAreJustified`); tiles share out the bytes and the square (`TilesAccount`); one primary volume, the sidebar well formed (`OnePrimary`); bounded lists keep the largest whatever the order, and a group of duplicates of one size wastes what it says (`ListsKeepTheLargest`) |
| `startup` | linux: an autostart file and a unit; mac: two agents with one label, or one agent; windows: a shortcut; 3 clicks, 2 writes by others, 1 crash, clock to 1, 1 return to the screen | an acknowledged toggle is what the next scan reads, but for a unit that vanished and an entry of the wants folder that is no link (`ToggleTakesEffect`); no entry is lost (`NoEntryIsLost`); at rest the switches show what is on the disk (`SwitchesAreTrue`) |

**Why the bounds are enough.** Two workers and one batch give every pair of operations on the same
batch; what a third could add is a repetition of a step of the second. Two batches in `undo_serial`
make `latest_commit` skip one; the log holds commit, restore and purge records of both (a record is
two pieces) before the bound stops further restores. Two parts let a copy or a removal stop in the
middle. A plan is in its ttl, at it and past it with a ttl of 1 and a clock to 2, and two plans
share a path, or one has the folder that the path of the other is in. Three requests give an
ancestor, what lies below it and a second spelling of either, in any order; the places hold a file,
a link and an inner folder below an unprotected folder, a protected folder with a file in it, the
home folder, its ancestors and a blocklisted folder with an unlisted ancestor. The weekly interval
of 3 units spans a tick, a missed notification and a change of cadence. Two roots and a root of two
directories make the walker read ahead and drop. Depth 2 puts a folder at the cap below one that is
not, and a file below that one makes the lists of biggest folders differ. One late start
(`MaxLate`) lets any call begin while another runs, two calls of the user among them, both inside
`stopWalk`, since the handle of the mount's walk stays after that walk is done; three calls that
overlap each other are beyond the bound, and so is a fourth. `SpinnerStops` is checked within these
bounds and not proved. Three files let two be equal and a third differ in the last pass only; the
handles of `Streams` share nothing but the file system, so one at a time shows what each can do,
and one change of the file system is enough to make any pass read something else than an earlier
one. Four entries of a disk give two equal files, a sparse copy of them and a file that shares the
copy's size and first page, so that the copy reaches the last pass; two that overlap, nest, link to
each other or fall into one bucket, and a third that is cut off by a cap of two; each catalog has
entries for its awkward places (a cache inside a cache, a profile in two roots, a link in a
profile, a tool's own tree). Three clicks toggle an entry to and fro while a reply is under way,
and the second write of another program can fall before and after a scan. Bounds are named:
`MaxLog`, `MaxClock`, `MaxRaw`, `MaxCall`, `MaxLate`, `MaxEdits`, `MaxPresent`, `MaxClicks`,
`MaxWrites`, `MaxTime`, `MaxCrashes`, `MaxVisits`, and in `BuildPlan` the owner interferes once.
The caps of the code (200 rows, 500 candidates, 16 folders, 4 to 512 tiles, 1/400 of the bytes) are
the constants `MaxRows`, `Cap`, `MaxLaidOut` and `Fraction`, small in the instance.

*Symmetry* is used for workers and items (`undo_faults`) and for threads and tokens
(`plan_races`), which no definition tells apart; no liveness property is checked there. `sched`
uses the view `HistoryView`: after a fault no property looks at the history or at the rest of
the settings, and no guard does, so those states are merged.

Runs say `CHECK_DEADLOCK FALSE` where the modelled system really comes to an end: an item moved
for good, a plan committed, a clock at its bound, a scan or stream that reported, a screen that
is left, the last click made. The two larger `undo` runs keep the check.

**Fairness.** `UndoLog`: an operation that runs goes on until it returns, since its thread is
scheduled; nothing makes a user start one. `ScanRun`: the walker, each worker and a command inside
`set_state` go on; nobody has to resume or cancel. `DiskScreen`: emitted events are delivered,
replies arrive and walkers go on; no click is ever assumed. `Streams`: a spawned thread and a
command between its store and its notify go on, and a sleep ends; nobody has to cancel. All are
weak fairness of one thread's steps. `ScanEnds` assumes that the scan is not left paused for ever.

## 5. Proofs

For every value of the constants, checked by TLAPS.

- `UndoLog_proofs`: `Typing`, `NothingLostButByPurge`, `PurgeRecordsAreTrue`,
  `OpenBatchesArePrivate`, `LogIsAppendOnly`, `ScanFindsTheLatest`, `Refinement`, for any number
  of workers and every fault. The invariant `IInv` joins the types
  to `FillInv` (a worker that fills a batch is alone in it), `ManifestInv` (a manifest lists
  everything left in its batch), `RestoreInv` (a restore without failures has still to visit all
  that is left), `PurgeInv` (purges pick sealed batches and record gone ones) and `LogInv` (the
  log names sealed batches). `OnlyPurgeBurns` alone is not inductive: a restore may remove the
  batch directory only because nothing is left in it, which takes `ManifestInv` and
  `RestoreInv`. The refinement maps each step to a step of `SafeTrash` or a stutter under
  `IInv`. `LogIsAppendOnly` rests on lemmas about sequences only. `ScanFindsTheLatest` rests on
  `ScanIsLatest`, which is about no state but about every log: the two loops of `AuditScan`,
  with lines torn or glued wherever they may be, end with the batch that `LatestCommit` defines
  in one sentence.

  Three more hold of one operation at a time (`Serial`) and name the faults they bear.
  `AcksAreLogged` (no crash, no failed append; manifests and removals may fail): `LineInv` keeps
  every line whole and says that a record without its line feed is the last piece. With two
  workers, or after a torn write, two records share a line and neither is read.
  `LatestCanBeRestored` (only manifests fail): `DeadConsumed` says that an unconsumed commit record
  names a listed batch, or one whose consuming record is written next; a crash or failed append
  between the two is the run `undo_dead_batch`. `PurgeAllReachesTheListed` (any fault): what is in
  the trash is in a batch that is there (`TrashInv`), and unless a removal failed a purge has still
  to visit every batch that is listed (`VisitInv`); the batches that are not listed are in section
  7.
- `GraveyardMove_proofs`: `MoveTyping`, `NothingLostUnharmed`, `ReportsHold`, `DirectoriesKeepAll`,
  `RestoresLoseNothing`. `Somewhere` says at which side the whole item is at each program point;
  `Rooted` that a part has its path. `DirectoriesKeepAll` has an invariant of its own, `Safe`,
  which survives harm because a directory on one device is never copied.
- `PlanCache_proofs`: `PlanTyping`, `TokensCommitOnce`, `PlansStay`, `BytesAddUp`. `OneOwner`: a
  token's plan is with one thread, in the cache, or committed, never at two of these places.
  `InThePast`: creation times are not ahead of the latest time seen, which makes the unsigned
  difference of `prune_stale` safe when the clock goes back. `OneMover`: no two threads move for one
  token; `TookAll`: a commit that took an item left nothing at it or below it; `Seen`: what a preview
  saw with an item is all that is there of it and what a commit has moved since; `Counted` follows
  what a commit counted and did not move to the other commit that did (`Nested`).
- `BuildPlan_proofs`: `NothingCriticalMoves`, `RequestsAreAnswered`, `TakesTheRequests`,
  `MovesTheRequests`. `PolicyProtects` shows that `classify` covers every critical folder and all
  its ancestors; the primary folders need the lemma that what is above a child of the home folder
  is the home folder or above it. `Stages` and `Answered` follow each request through the three
  loops; `Single` needs the sort: an item is placed after everything above it. `TakesTheRequests`
  adds `Looked` (an item moves exactly when the policy lets it and it was there) and `Progress`
  (what is gone is what lies below the items visited), and needs `Single` again: what was moved
  before an item is neither the item nor a folder it is in, so a path without detours is still
  found. `MovesTheRequests` adds the bytes: no two items that move share a place, since neither is
  above the other, so the sum of their subtrees is the sum over the union of them, and that union
  is what `Answered` says goes.
- `Threads_proofs`, of `ScanRun`: `ScanTyping`, `DoneMeansAll`, `CancelsAreReported`,
  `TimerFollows`, `TerminalIsSticky`. `Account`: every file is counted, in hand, queued, unread,
  in a root still to come, or missed; `CancelAlone`: only a cancel makes the walker miss one;
  `OneWriter`: between transitions that do not overlap, what `set_state` loaded still holds.
- `Threads_proofs`, of `Scheduler`: `TypeCorrect`, `NoFireIsVeryLate`, `SettingsAreKept`,
  `ScansAreSpaced`. `LateInv` follows a fire that is late: the thread is on its way to look, or
  nothing is due any more, neither in the file nor in what a command is about to write. `TickHolds`
  and `CommandHolds`: what a tick or a command has loaded is what the file says, unless the
  history records an overlap. `AgeInv`: the anchor is no older than the last fire or change of
  cadence, except between a fire and its save.
- `DiskScreen_proofs`: `TypeCorrect`, `CachesWhole`, `ServesOnlyWhole`, `ScreenRestsOnWhole`.
  What is served is a lemma about trees: a folder of an ancestor's tree has the tiles of a walk
  (`EnterCounts`, `WholeShows`), and of its biggest folders those that the ancestor's walk entered.
  `SeenWhole`: a walker past its loop was cancelled or has seen everything, and one that is about
  to store was not cancelled when it looked. For the screen, `Begun`: only
  walks that began can be cancelled; and while no two requests overlap, `Alone`: one call is under
  way, `Journey`: it and its walk are about the folder on top of the stack, `Awaited`: the last
  event has the whole tree of that folder and the screen waits for it, `Rests`: otherwise the
  screen shows that tree already.
- `Scans_proofs`, of `Screens`: `OneVolumeIsPrimary`, `ReportIsJustified`, `TheLargestAreKept`,
  `TilesShareOut`, for any files, traits, volumes, processes, caps and thresholds, any home folder
  and any links. `MachineInv` is inductive: everything is finite, nothing lies below a file or a
  link, no two processes share a pid. The rest is about what a scan computes from such a machine.
  The lemma `Sorting` says that a stable sort by a transitive, asymmetric order is a rearrangement
  in which nothing comes after what it precedes: each member has as its rank the number of those
  ahead of it, and ranks below a bound, no two of them equal, fill it. `OneVolumeIsPrimary` follows
  the primary volume from `pick_primary` through the sort (`SidebarIsWellFormed`).
  `ReportIsJustified` follows a signature from the walk through `finalize`: whatever else is found
  at its path, the finding of its path and source stays and is critical. `TheLargestAreKept`:
  `TopNKeepsBest` has the invariant of the heap over every prefix of the offers (what was dropped
  is no larger than what is kept), for orders that are strict and total on what is offered; that
  `Larger` and `Bigger` are so is where paths must differ in `Alpha`. `GroupsAreDuplicates` follows
  a body through the three passes, each size of a group through its own buckets (`SizedAreCut`,
  `SizedAreCandidates`). `TilesShareOut`: a folder's bytes are those of its children, added up
  (`ChildrenAre`: every file is below exactly one of them); the children with a tile of their own
  are the first ones, and what they and the shared tile weigh is the folder's total (`LaidFirst`,
  `SlotsAre`). The layout's invariant is `Packing`: of what was offered, all is placed or in the
  row; what is placed lies in the square, apart from what is free and from each other; and the area
  that is free is exactly the weight not yet placed. `PlaceRowHolds` and `OfferHolds` keep it: a
  row's thickness never exceeds the free rectangle's longer side, because its area does not exceed
  the free area (`RowIs`), and a rectangle with area left has a side to divide by (`RoomIsLeft`).
  The arithmetic below it is exact: `Frac` is in lowest terms (`gcd` divides both and combines from
  both, `GcdExists`), so equal fractions are the same pair (`ReducedAlone`) and add, divide and
  compare as numbers do. What `f64` and `f32` round away is not in the model, and the theorem says
  nothing of it.
- `Scans_proofs`, of `Streams`: `TypeCorrect`, `GroupsAreAlwaysEqual`, `ReportsAreComplete`,
  `CancelsLeaveNoHalf`, `OneNapIsStale`, for any number of handles, files and changes. The
  invariant says what each pass has read so far: a file visited and not touched was read as it
  is, and a file not yet visited is still to do or the stream is cancelled. The properties alone
  are not inductive, since a report is built from what three passes kept. For the sampler, an
  order that is not yet heard is with a command about to notify, or the sampler will look again
  before its next sleep. A group of untouched files in two allocations takes four files, more than
  the run has; the theorem has any number.
- `Startup_proofs`: `DesktopIsSwitched`, `PlistIsSwitched` (writer against reader, for every
  text), `TypeCorrect`, `NoEntryIsEverLost`, `TogglesTakeEffect`,
  `SwitchesShowTheDisk`, for any entries, clicks, writes and crashes. The invariant carries the
  owner's last text through the steps of the running toggle, and what was acknowledged through
  everybody else's steps; a toggle of a unit carries whether its file was there, and that is all it
  can promise (`Vanished`). For the switches it follows each entry's last toggle through the queue
  of calls: while it is on its way the override shows it, afterwards either it was acknowledged,
  and the file says so, or the answer that rolls the override back is under way; and the last
  scan asked for reads the disk as it is. The attempt at the proof showed that an entry which is
  not listed may hold the override of one that shares its id, so `SwitchesAreTrue` leaves out
  shared ids on either side.

*Sums, folds and sorts* are defined by recursion, and the provers do not instantiate an
induction theorem. The proofs go by a least counterexample instead: the set of lengths (or of
cardinalities) at which a claim fails is a set of naturals, and its smallest member contradicts
the claim for the one before. The fold of a finite set is a function that is chosen to satisfy
its recursion; `FoldExists` builds one, after which each step of it can be unfolded.

The assumptions are the named `ASSUME`s of the modules: bounds are naturals, faults are known
kinds, trees have the shape of functions, paths are sequences of strings and not empty, what
something is in is a folder, the home folder included, what is there at the start is finite, `None`
is none of the values it stands beside, sizes, times and pids are naturals, and different paths
compare as different (`Alpha`). None of them excludes an installation.

`EveryRequestAnswered`, `CacheIsWhole`, `OpenBatchIsPrivate`, `TerminatedStays`, `TerminalStays`
and `ElapsedFreezes` are stated in their modules and proved, and no run repeats them.

**Only model-checked.** Liveness (`ScanEnds`, `SpinnerStops`, `StreamsEnd`), which is out of the
prover's reach. `OffersAreHonest`, `UserDataIsNotOffered` and `TotalsAreExact`: they are about the
catalogs and the blocklist as they are, on homes of the usual layout, and do not hold for every
value of the constants. A file called `Documents` in the home folder is listed among the large
files and refused by the cleaner, a link of a browser's root to another one makes a total count
twice, and a cache that is a link to the documents offers documents; section 7 has the cases that
are the code's own.

## 6. Not modelled

- Labels and numbers for display: `classify.rs`, `summary.rs`, `SchedulerStatus::derive`, the
  boot estimates of start-up entries, histogram buckets.
- Probes of the system: `permissions.rs`, the sysinfo sampler.
- The read-only start-up folders, which only list; the registry entries, which the code does not
  implement.
- Screens other than the disk and the start-up screen: the back end they call is modelled, their
  handles and cached reports are not (the remark on `Duplicates.tsx` below shows what such a model
  would be about). Rendering, formatting, animation, wrappers around `invoke`.

## 7. Where the code and its comments disagree

Shown by a run:

- `undo_dead_batch`: `sweep` removes a batch and then records the purge (graveyard.rs:271). A
  crash in between leaves a commit record whose batch is gone; `latest_commit`, "most recent
  commit that's still restorable" (audit.rs:92), returns it from then on, and older batches are
  out of reach.

Met while modelling, excluded from the properties above in so many words, and not shown by a
run.

The cleaner:

- *A partial restore strands what is left.* `restore_last` records a restore even if entries
  failed (mod.rs:119), so the batch is never offered again although "partial leaves it so
  leftovers stay recoverable" (graveyard.rs:142).
- *The only copy removed.* Across devices, when the removal of the source stops half way, commit
  counts the move as failed and removes "the empty slot" (graveyard.rs:113-114), which by then
  holds the only copy of the removed files.
- *Plans do not expire at commit.* plan.rs:17-18 has a plan "expire before they confirm stale
  data"; commit (mod.rs:84) does not look at its age, only the next preview prunes.
- *A live file overwritten.* `restore_batch` looks whether the path is free and then renames
  (graveyard.rs:166); a file put there in between is replaced, and a dangling link at the path
  counts as free (graveyard.rs:159). `RestoreLosesNothing` is about what the cleaner holds.
- *A detour depends on the folder it goes through.* `build_plan` drops equal normalised paths
  (plan.rs:30-31) but looks up and moves each as it was spelled: `c/b/../a` fails when `c/b` is in
  the same plan and moves first, and stands for `c/a`, which is then "missing", when `c/b` is not
  there. The scanners do not produce such paths.
- *A link shadows what is asked for through it* (plan.rs:50-52): the item moves as a link, and
  what lies behind it stays.
- *Batches nobody purges.* "bad or missing manifests sit there until purge_all wipes them"
  (graveyard.rs:288-289), but `purge_all` goes through the same `read_manifests`: such a batch stays
  for good. `PurgeAllEmptiesListed` is about the others.
- *Bytes another commit moved.* `bytes_trashed`, "bytes actually moved" (types.rs:66-67), adds the
  previewed bytes of an item (graveyard.rs:96-98). When a file below a folder of this plan was moved
  by another plan in the meantime, both commits report it. The screens offer such nested paths (the
  caches folder holds the browsers' own); plan.rs:46-61 shadows within one plan only.
- *Glued lines.* A record whose line feed was not written swallows the next record.

Scheduler and settings:

- *A disabled schedule fires.* `onboarding_reset` and `onboarding_save_prefs` change the saved
  cadence without telling the running scheduler, which goes on firing (types.rs:87 "None =
  disabled").
- *Lost updates of `state.json`.* A tick and a command, each loading and saving the whole file,
  drop each other's change. A load that fails once is answered by the defaults, as documented
  (storage.rs:8-13), and the next save makes them permanent. A crash or a failing save between a
  fire and its stamp fires again. The properties of `Scheduler` exclude these histories.

Scans and streams:

- *A terminal state is left.* `set_state` loads and stores without a compare-and-swap
  (run.rs:180-204): a pause that overlaps the walker's `Done` stores over it, though terminal
  states are "sticky" (run.rs:172-173). `TerminalStays` and `ElapsedFreezes` exclude overlapping
  transitions.
- *A forgotten paused scan* leaves the registry (commands.rs:242) and can be neither resumed nor
  cancelled.
- *Rescan during a walk.* Events carry no handle ("UI runs one treemap at a time",
  commands.rs:484): the cancelled walk's `done` reaches the new listeners and its partial tree
  is shown (Disk.tsx:57-63). The cleared cache may receive the old walk's tree afterwards
  (cache.rs:59, stream.rs:184).
- *A shorter list of biggest folders.* A folder served from the tree of an ancestor has the tiles of
  a walk, but its list of biggest folders (cache.rs:105, shown and clicked at Disk.tsx:222-232) ends
  where the ancestor's walk stopped: with a/b/c/y and a depth of 2, `a` served from the tree of the
  root lists a/b, and a walk of `a` lists a/b/c too. `ShowsWhole` says how far the list goes.
- *Progress cached as a report.* Duplicates.tsx:98 stores a progress response where
  scanCache.ts:82-86 speaks of a finished one, and a done event of a cancelled scan reaches the
  listeners of the next (54-118).
- *A lost wake-up of the sampler.* `cancel` and `set_interval_ms` notify under the mutex
  (activity/stream.rs:61-70), but the sampler has looked at its flag before it takes it
  (100-105): one interval passes, not the milliseconds that lines 7-9 speak of. `OneStaleNap`
  bounds it at one.
- `ActivityRegistry::cancel_all` has no caller, though it is "called from the process-exit hook".
- *Duplicates of two allocations.* The first pass drops a file whose allocated size is its alone,
  so that one sparse copy is not found; `ReportIsComplete` is about equal files of one allocated
  size. Where each size has two files, the last pass groups by hash alone (pipeline.rs:209) and
  joins them: `bytes_each` is the size of the first path (218) and `wasted_bytes` a multiple of it
  (227), which is then neither "recoverable if user keeps one copy per group" (dupes/mod.rs:80-81)
  nor independent of the names, and the group may be longer than the cap. `DuplicatesAddUp` claims
  the cap for each size, and the bytes for groups of one size.
- Comments speak of a pool that commands run on (commands.rs:248, treemap/stream.rs:81). The
  commands are plain functions and not asynchronous, which Tauri runs on the main thread: one at a
  time, as the models have it, and a long one holds up the window.

What the screens show:

- *Bookmarks are offered as history.* The history row of Firefox takes places.sqlite
  (privacy/catalog.rs:492), which holds the bookmarks as well, though the catalog is written so as
  not to "nuke bookmarks + passwords" (17-18, and 122-123 name that file among the bookmarks).
  `UserDataIsNotOffered` names this one exception.
- A profile that is real in one root and a link in another is looked into through the link.
- The comment that a file in a noisy tree is still caught "via signature or autostart"
  (heuristics.rs:242-243) does not hold for cache roots, which have no signature sweep; the
  quarantine attribute is never read; `max_findings` is never applied, though scan.rs:14 says
  "truncated".
- `total_bytes` "matches sum(tiles.bytes)" except for a root that is a file, which has no tiles.
- Mount points are compared as string prefixes: `/home` is taken for the volume of `/homework`,
  and `/running` counts as pseudo because of `/run`.
- Between screens the same bytes may be offered twice: the caches folder of the junk screen holds
  the browsers' own. `TotalsAreExact` is per screen. A home folder below `/tmp` is junk twice.

Start-up entries:

- *Enabled units that do not launch.* `toggle_systemd_user` looks whether the unit is there
  (linux.rs:384) and links it later (397): a unit deleted in between is acknowledged as enabled, and
  its link leads nowhere (`Vanished`). When enabling, any entry of the unit's name in the wants
  folder will do (391), while the reader takes a link only (312): over a copy or a folder of that
  name the switch is acknowledged and stays off.
- "same as `systemctl is-enabled`" (linux.rs:287): the reader looks into `default.target.wants`
  only. A timer enabled in `timers.target.wants`, an alias or a masked unit reads otherwise to
  systemd, and a link to anything at all reads as enabled here. `ToggleTakesEffect` is about the
  code's own reading, on every system.
- A toggle of a desktop file without its header, or of another type, is acknowledged and changes
  nothing; the plist writer flips the first key of that name wherever it is, the reader looks at
  the top level only. `Tractable` names the texts that both understand.
- Ids collide: two agents with one label, a shortcut and its `.disabled` twin. The answer to a
  toggle names its item by file name where the scan takes stem or label.
- The writers read, change and replace whole files: a change by another program in between is
  lost. On windows, enabling looks whether the name is free and then renames.
- Overrides are dropped when a newer scan arrives, told by its second (Startup.tsx:41, 53): they
  survive a scan of the same second.
- A crash leaves temporary files beside the entries.
