------------------------------- MODULE Streams -------------------------------
(* The four background streams: duplicates, large and old files, malware and *)
(* the activity sampler.  Each command start_* registers a controller and    *)
(* spawns a thread; cancel_* raises the controller's flag, which the thread  *)
(* reads between two steps; forget_* only drops the registry's reference.    *)
(*                                                                           *)
(* A file is what a scan visits at a time.  A content says all that a pass   *)
(* can read of it: its allocated size, its first page, the whole.  The same  *)
(* bytes may be allocated in two ways, as in a sparse copy.  The file system *)
(* changes at most MaxEdits times under the scans, which is a bound of the   *)
(* model; so is Naps, the lengths an interval can have.  The cap of a size   *)
(* bucket and the top-N of a report are in module Reports.                   *)
EXTENDS Naturals, FiniteSets

CONSTANTS Handle, File, Content, Naps, MaxEdits,
          Size, HeadHash, FullHash, \* what the three passes read of a content
          Wanted,         \* contents that large-old lists, and malware finds
          Sweep,          \* the malware sweep, 1 to 3, that reaches a file
          Gone            \* the content of a file that cannot be read

ASSUME StreamsAssumption ==
  /\ Gone \notin Content /\ Wanted \subseteq Content
  /\ Size \in [Content -> Nat] /\ HeadHash \in [Content -> Nat] /\ FullHash \in [Content -> Nat]
  /\ \A c, d \in Content : FullHash[c] = FullHash[d] => HeadHash[c] = HeadHash[d]
  /\ Sweep \in [File -> 1..3] /\ MaxEdits \in Nat /\ IsFiniteSet(File)

VARIABLES
  root,      \* does the scanned folder exist
  content,   \* what each file holds
  edits,     \* changes of the file system so far
  kind,      \* what each handle streams, or "none"
  pc, pass, todo,
  seen,      \* per handle and pass: what the pass read of each file
  listed,    \* handles whose controller is in its registry
  flag,      \* handles whose controller is cancelled
  report,    \* the rows of emit_done: sets of files that belong together
  interval, nap,  \* the sampler: ActivityController::interval_ms, its last read
  ring,      \* controllers whose command is between its store and its notify
  touched,   \* history: files changed since the scan began
  stale      \* history: sleeps begun after a command, against its order

fs      == <<root, content, edits>>
scan    == <<pass, todo, seen, report>>
sampler == <<interval, nap, ring, stale>>
vars    == <<fs, kind, pc, scan, listed, flag, sampler, touched>>

Scans == {"dupes", "largeold", "malware"}
Unread == [f \in File |-> Gone]

Init ==
  /\ root = TRUE /\ content \in [File -> Content] /\ edits = 0
  /\ kind = [h \in Handle |-> "none"] /\ pc = [h \in Handle |-> "idle"]
  /\ pass = [h \in Handle |-> 0] /\ todo = [h \in Handle |-> {}]
  /\ seen = [h \in Handle |-> [p \in 1..3 |-> Unread]]
  /\ listed = {} /\ flag = {} /\ report = [h \in Handle |-> {}]
  /\ interval \in [Handle -> Naps] /\ nap = interval
  /\ ring = {} /\ stale = [h \in Handle |-> 0]
  /\ touched = [h \in Handle |-> {}]

Goto(h, l) == pc' = [pc EXCEPT ![h] = l]
-----------------------------------------------------------------------------
(* Commands.  The controller is registered before the thread is spawned, and *)
(* stays registered when the spawn fails.                                    *)
Register(h, k) ==
  /\ kind[h] = "none"
  /\ kind' = [kind EXCEPT ![h] = k]
  /\ listed' = listed \cup {h}
  /\ Goto(h, "begin") \/ Goto(h, "unspawned")
  /\ touched' = [touched EXCEPT ![h] = {}]
  /\ UNCHANGED <<fs, scan, flag, sampler>>

(* The synchronous commands run the same pipeline without a controller.      *)
Unregistered(h, k) ==
  /\ kind[h] = "none"
  /\ kind' = [kind EXCEPT ![h] = k]
  /\ Goto(h, "begin")
  /\ touched' = [touched EXCEPT ![h] = {}]
  /\ UNCHANGED <<fs, scan, listed, flag, sampler>>

start_duplicates(h) == root /\ Register(h, "dupes")
start_large_old(h)  == root /\ Register(h, "largeold")
start_malware(h)    == Register(h, "malware")
start_activity(h)   == Register(h, "activity")
find_duplicates(h)  == root /\ Unregistered(h, "dupes")
find_large_old(h)   == root /\ Unregistered(h, "largeold")
malware_scan(h)     == Unregistered(h, "malware")

DupesRegistry    == {h \in listed : kind[h] = "dupes"}
LargeOldRegistry == {h \in listed : kind[h] = "largeold"}
MalwareRegistry  == {h \in listed : kind[h] = "malware"}
ActivityRegistry == {h \in listed : kind[h] = "activity"}

Raise(h) == flag' = flag \cup {h} /\ UNCHANGED <<fs, kind, pc, scan, listed, touched>>

cancel_duplicates(h) == h \in DupesRegistry /\ Raise(h) /\ UNCHANGED sampler
cancel_large_old(h)  == h \in LargeOldRegistry /\ Raise(h) /\ UNCHANGED sampler
cancel_malware(h)    == h \in MalwareRegistry /\ Raise(h) /\ UNCHANGED sampler

(* cancel and set_interval_ms store first and notify the sleeper after.      *)
Order(h) == ring' = ring \cup {h} /\ stale' = [stale EXCEPT ![h] = 0]

cancel_activity(h) ==
  /\ h \in ActivityRegistry /\ h \notin ring
  /\ Raise(h) /\ Order(h) /\ UNCHANGED <<interval, nap>>

set_activity_interval(h) ==
  /\ h \in ActivityRegistry /\ h \notin ring
  /\ \E n \in Naps : interval' = [interval EXCEPT ![h] = n]
  /\ Order(h)
  /\ UNCHANGED <<fs, kind, pc, scan, listed, flag, nap, touched>>

(* The notify reaches the sampler only if it waits on the condvar by now.    *)
Notify(h) ==
  /\ h \in ring
  /\ ring' = ring \ {h}
  /\ IF pc[h] = "asleep" THEN Goto(h, "check") ELSE UNCHANGED pc
  /\ UNCHANGED <<fs, kind, scan, listed, flag, interval, nap, stale, touched>>

Drop(h) ==
  /\ listed' = listed \ {h}
  /\ UNCHANGED <<fs, kind, pc, scan, flag, sampler, touched>>

forget_duplicates(h) == h \in DupesRegistry /\ Drop(h)
forget_large_old(h)  == h \in LargeOldRegistry /\ Drop(h)
forget_malware(h)    == h \in MalwareRegistry /\ Drop(h)
forget_activity(h)   == h \in ActivityRegistry /\ Drop(h)
-----------------------------------------------------------------------------
(* The scanning threads.  Cancelled is what a thread reads of its flag.      *)
Cancelled(h) == h \in flag
Worker(h) == UNCHANGED <<fs, kind, listed, flag, sampler, touched>>

Finish(h, rows) ==
  /\ report' = [report EXCEPT ![h] = rows] /\ Goto(h, "done")
  /\ UNCHANGED <<pass, todo, seen>>

EnterPass(h, p, files) ==
  /\ pass' = [pass EXCEPT ![h] = p] /\ todo' = [todo EXCEPT ![h] = files]
  /\ Goto(h, "pass") /\ UNCHANGED <<seen, report>>

(* A folder that vanished after the command looked is an empty report.       *)
Preflight(h, files) ==
  /\ pc[h] = "begin"
  /\ IF root THEN EnterPass(h, 1, files) ELSE Finish(h, {})

(* One file of a pass.  Every loop looks at the flag before the next file: a *)
(* walk breaks off, and a hash pass skips what is left, file by file.        *)
Visit(h) ==
  /\ pc[h] = "pass" /\ todo[h] # {}
  /\ IF Cancelled(h)
     THEN todo' = [todo EXCEPT ![h] = {}] /\ UNCHANGED seen
     ELSE \E f \in todo[h] :
            /\ todo' = [todo EXCEPT ![h] = @ \ {f}]
            /\ seen' = [seen EXCEPT ![h][pass[h]][f] = content[f]]
  /\ UNCHANGED <<pc, pass, report>>

Read(h, p) == {f \in File : seen[h][p][f] # Gone}
SizeOf(h, f) == Size[seen[h][1][f]]
HeadOf(h, f) == <<SizeOf(h, f), HeadHash[seen[h][2][f]]>>

(* Mutant: SizeCandidates drops the pairs along with the single files.       *)
SizeTriples(h) ==
  {f \in Read(h, 1) : Cardinality({g \in Read(h, 1) : SizeOf(h, f) = SizeOf(h, g)}) > 2}

(* Buckets with one file only are dropped between the passes.                *)
SizeCandidates(h) ==
  {f \in Read(h, 1) : \E g \in Read(h, 1) \ {f} : SizeOf(h, f) = SizeOf(h, g)}

CandidatesForFull(h) ==
  {f \in Read(h, 2) : \E g \in Read(h, 2) \ {f} : HeadOf(h, f) = HeadOf(h, g)}

(* Mutant: FullBucket groups by the first page.                              *)
HeadBucket(h, f) == {g \in Read(h, 3) : HeadOf(h, g) = HeadOf(h, f)}

(* The last pass goes by the whole alone, across sizes.                      *)
FullBucket(h, f) == {g \in Read(h, 3) : FullHash[seen[h][3][g]] = FullHash[seen[h][3][f]]}

Groups(h) == {b \in {FullBucket(h, f) : f \in Read(h, 3)} : Cardinality(b) >= 2}

(* A cancel drops everything until the last pass, which nothing follows.     *)
find_duplicates_with_progress(h) ==
  \/ Visit(h)
  \/ /\ pc[h] = "pass" /\ todo[h] = {}
     /\ CASE pass[h] = 3  -> Finish(h, Groups(h))
          [] pass[h] < 3 /\ Cancelled(h)  -> Finish(h, {})
          [] pass[h] = 1 /\ ~Cancelled(h) -> EnterPass(h, 2, SizeCandidates(h))
          [] pass[h] = 2 /\ ~Cancelled(h) -> EnterPass(h, 3, CandidatesForFull(h))

run_dupes_stream(h) ==
  /\ kind[h] = "dupes" /\ Worker(h)
  /\ Preflight(h, File) \/ find_duplicates_with_progress(h)

Hits(h, passes) == {{f} : f \in {g \in File : \E p \in passes : seen[h][p][g] \in Wanted}}

(* Mutant: large_old_walk without its final look at the flag.                *)
large_old_keeps_partials(h) ==
  \/ Visit(h)
  \/ pc[h] = "pass" /\ todo[h] = {} /\ Finish(h, Hits(h, {1}))

(* The flag is read once more after the loop: a cancelled walk lists nothing.*)
large_old_walk(h) ==
  \/ Visit(h)
  \/ /\ pc[h] = "pass" /\ todo[h] = {}
     /\ Finish(h, IF Cancelled(h) THEN {} ELSE Hits(h, {1}))

run_large_old_stream(h) ==
  /\ kind[h] = "largeold" /\ Worker(h)
  /\ Preflight(h, File) \/ large_old_walk(h)

SweptBy(p) == {f \in File : Sweep[f] = p}

(* The roots, the PATH folders, the autostart folders.  Nothing follows the  *)
(* last loop: what it found before a cancel is reported with the rest.       *)
run_scan(h) ==
  \/ Visit(h)
  \/ /\ pc[h] = "pass" /\ todo[h] = {}
     /\ CASE pass[h] = 3 -> Finish(h, Hits(h, 1..3))
          [] pass[h] < 3 /\ Cancelled(h)  -> Finish(h, {})
          [] pass[h] < 3 /\ ~Cancelled(h) -> EnterPass(h, pass[h] + 1, SweptBy(pass[h] + 1))

run_malware_stream(h) ==
  /\ kind[h] = "malware" /\ Worker(h)
  /\ \/ pc[h] = "begin" /\ Cancelled(h) /\ Finish(h, {})
     \/ ~Cancelled(h) /\ Preflight(h, SweptBy(1))
     \/ run_scan(h)
-----------------------------------------------------------------------------
(* The sampler.  Between its last look at the flag and the wait it reads the *)
(* interval and takes the mutex, and a command may store and notify there.   *)
Step(h, from, to) == pc[h] = from /\ Goto(h, to) /\ UNCHANGED <<interval, ring>>

Obsolete(h) == h \notin ring /\ (Cancelled(h) \/ nap[h] # interval[h])

(* Mutant: the sampler reads the interval once, when it starts.              *)
ReadIntervalOnce(h) ==
  Step(h, "look", IF Cancelled(h) THEN "done" ELSE "doze") /\ UNCHANGED <<nap, stale>>

ReadInterval(h) ==
  /\ Step(h, "look", IF Cancelled(h) THEN "done" ELSE "doze")
  /\ nap' = IF Cancelled(h) THEN nap ELSE [nap EXCEPT ![h] = interval[h]]
  /\ UNCHANGED stale

(* Mutant: sleep_cancellable waits without a timeout.                        *)
sleep_until_notified(h) ==
  /\ Step(h, "doze", "asleep") /\ UNCHANGED nap
  /\ stale' = IF Obsolete(h) THEN [stale EXCEPT ![h] = @ + 1] ELSE stale

sleep_cancellable(h) ==
  \/ /\ Step(h, "doze", "asleep") /\ UNCHANGED nap
     /\ stale' = IF Obsolete(h) THEN [stale EXCEPT ![h] = @ + 1] ELSE stale
  \/ Step(h, "asleep", "check") /\ UNCHANGED <<nap, stale>>

run_activity_stream(h) ==
  /\ kind[h] = "activity"
  /\ \/ Step(h, "begin", "check") /\ UNCHANGED <<nap, stale>>
     \/ Step(h, "check", IF Cancelled(h) THEN "done" ELSE "sample") /\ UNCHANGED <<nap, stale>>
     \/ Step(h, "sample", "look") /\ UNCHANGED <<nap, stale>>
     \/ ReadInterval(h)
     \/ sleep_cancellable(h)
  /\ UNCHANGED <<fs, kind, scan, listed, flag, touched>>
-----------------------------------------------------------------------------
Change(c) ==
  /\ edits < MaxEdits /\ edits' = edits + 1 /\ content' = c
  /\ touched' = [h \in Handle |-> touched[h] \cup {f \in File : c[f] # content[f]}]
  /\ UNCHANGED <<kind, pc, scan, listed, flag, sampler>>

Edit == \E f \in File, c \in Content \cup {Gone} :
          root /\ Change([content EXCEPT ![f] = c]) /\ UNCHANGED root

RemoveRoot == root /\ root' = FALSE /\ Change(Unread)

Command(h) ==
  \/ start_duplicates(h) \/ start_large_old(h) \/ start_malware(h) \/ start_activity(h)
  \/ find_duplicates(h) \/ find_large_old(h) \/ malware_scan(h)
  \/ cancel_duplicates(h) \/ cancel_large_old(h) \/ cancel_malware(h) \/ cancel_activity(h)
  \/ forget_duplicates(h) \/ forget_large_old(h) \/ forget_malware(h) \/ forget_activity(h)
  \/ set_activity_interval(h)

Thread(h) ==
  \/ run_dupes_stream(h) \/ run_large_old_stream(h) \/ run_malware_stream(h)
  \/ run_activity_stream(h)

Next == Edit \/ RemoveRoot \/ \E h \in Handle : Command(h) \/ Notify(h) \/ Thread(h)

(* A spawned thread runs on, its sleeps end, and a command that stored its   *)
(* value goes on to notify.                                                  *)
Spec == Init /\ [][Next]_vars /\ \A h \in Handle : WF_vars(Thread(h)) /\ WF_vars(Notify(h))
-----------------------------------------------------------------------------
Rows == SUBSET File

TypeOK ==
  /\ root \in BOOLEAN /\ content \in [File -> Content \cup {Gone}] /\ edits \in 0..MaxEdits
  /\ kind \in [Handle -> Scans \cup {"none", "activity"}]
  /\ pc \in [Handle -> {"idle", "unspawned", "begin", "pass", "done",
                        "check", "sample", "look", "doze", "asleep"}]
  /\ pass \in [Handle -> 0..3] /\ todo \in [Handle -> SUBSET File]
  /\ seen \in [Handle -> [1..3 -> [File -> Content \cup {Gone}]]]
  /\ listed \subseteq Handle /\ flag \subseteq Handle /\ ring \subseteq Handle
  /\ report \in [Handle -> SUBSET Rows]
  /\ interval \in [Handle -> Naps] /\ nap \in [Handle -> Naps]
  /\ touched \in [Handle -> SUBSET File] /\ stale \in [Handle -> Nat]

Reported(h, k) == kind[h] = k /\ pc[h] = "done"

Equal(c, d) == c # Gone /\ d # Gone /\ FullHash[c] = FullHash[d]

(* What a group of duplicates promises (DuplicateGroup: every file is        *)
(* byte-identical), for the files nobody changed since the scan began, and   *)
(* however late it was cancelled: two files at least, all with the same      *)
(* bytes.                                                                    *)
GroupsAreEqual ==
  \A h \in Handle : Reported(h, "dupes") =>
    \A g \in report[h] :
      /\ Cardinality(g) >= 2
      /\ \A f, e \in g \ touched[h] : Equal(content[f], content[e])

(* A scan nobody cancelled lists all it can read: every two equal files of   *)
(* one allocated size together, every large file, every finding.             *)
ReportIsComplete ==
  \A h \in Handle \ flag :
    /\ Reported(h, "dupes") =>
         \A f, e \in File \ touched[h] :
           f # e /\ Equal(content[f], content[e]) /\ Size[content[f]] = Size[content[e]] => \E g \in report[h] : {f, e} \subseteq g
    /\ Reported(h, "largeold") \/ Reported(h, "malware") =>
         \A f \in File \ touched[h] : {f} \in report[h] <=> content[f] \in Wanted

(* A cancel leaves no half list.  The large-old screen gets all or nothing,  *)
(* the malware screen all of the first two sweeps or nothing.                *)
CancelLeavesNoHalf ==
  \A h \in Handle : report[h] # {} =>
    \A f \in File \ touched[h] :
      /\ content[f] \in Wanted
      /\ Reported(h, "largeold") \/ (Reported(h, "malware") /\ Sweep[f] < 3)
      => {f} \in report[h]

(* A cancel or a new interval can be missed by the sampler that is about to  *)
(* fall asleep, but it never sleeps twice against the same order.            *)
OneStaleNap == \A h \in Handle : stale[h] <= 1

(* A scan ends by itself, and every stream ends once it is cancelled, also   *)
(* when its handle was forgotten in between.                                 *)
StreamsEnd ==
  \A h \in Handle :
    /\ kind[h] \in Scans /\ pc[h] = "begin" ~> pc[h] = "done"
    /\ h \in flag /\ pc[h] # "unspawned" ~> pc[h] = "done"
=============================================================================
