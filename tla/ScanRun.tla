------------------------------- MODULE ScanRun -------------------------------
(* One smart scan: the walker thread of scanner/run.rs, the worker threads   *)
(* that read directories ahead of it, and the commands that pause, resume,   *)
(* cancel and forget it.  They share the atomics of a ScanController, and    *)
(* set_state reads the state, moves the timer and stores the state in three  *)
(* steps.  Commands run one after the other on the main thread.              *)
(*                                                                           *)
(* Counters and events are abstracted into the set of files counted.         *)

CONSTANTS Root, Dir, File,
          rootOf, dirOf   \* where a directory, and a file, is found

ASSUME TreeAssumption ==
  /\ rootOf \in [Dir -> Root]
  /\ dirOf \in [File -> Dir]

VARIABLES
  state,       \* ScanController::state
  run_start,   \* is the timer of a running segment set
  registered,  \* is the controller in the registry
  cpc, cprev, cnext,  \* the main thread in set_state: step, prev, next
  wpc, wprev,  \* the walker thread: step, and its prev in set_state
  todo,        \* roots not yet walked
  unread,      \* directories of the current root not yet read
  queue,       \* files read and not yet taken by the walker
  hand,        \* the file in the walker's hand
  counted,     \* files counted: files_scanned, bytes_scanned
  report,      \* the state that emit_done reported, or "none"
  missed,      \* history: files that will not be counted
  heard,       \* history: a cancel took effect before the walk's end
  raced        \* history: the walker and a command were in set_state together

controller  == <<state, run_start, registered>>
command     == <<cpc, cprev, cnext>>
walk        == <<todo, unread, queue, hand, counted, missed>>
scanHistory == <<heard, raced>>
scanVars    == <<controller, command, wpc, wprev, walk, report, scanHistory>>

ScanState == {"Running", "Paused", "Cancelled", "Done"}
Terminal == {"Cancelled", "Done"}

ScanTypeOK ==
  /\ state \in ScanState /\ run_start \in BOOLEAN /\ registered \in BOOLEAN
  /\ cpc \in {"idle", "timer", "store"} /\ cprev \in ScanState /\ cnext \in ScanState
  /\ wpc \in {"root", "next", "held", "count", "end", "timer", "store", "emit", "gone"}
  /\ wprev \in ScanState
  /\ todo \subseteq Root /\ unread \subseteq Dir
  /\ queue \subseteq File /\ counted \subseteq File /\ missed \subseteq File
  /\ hand \in {{}} \cup {{f} : f \in File}
  /\ report \in ScanState \cup {"none"}
  /\ heard \in BOOLEAN /\ raced \in BOOLEAN

(* start_scan                                                                *)
ScanInit ==
  /\ state = "Running" /\ run_start = TRUE /\ registered = TRUE
  /\ cpc = "idle" /\ cprev = "Running" /\ cnext = "Running"
  /\ wpc = "root" /\ wprev = "Running"
  /\ todo = Root /\ unread = {} /\ queue = {} /\ hand = {} /\ counted = {}
  /\ report = "none"
  /\ missed = {} /\ heard = FALSE /\ raced = FALSE

FilesOf(dirs) == {f \in File : dirOf[f] \in dirs}
DirsOf(roots) == {d \in Dir : rootOf[d] \in roots}

(* The timer starts when the scan enters Running and stops when it leaves.   *)
Timer(prev, next) ==
  IF (prev = "Running") # (next = "Running") THEN prev # "Running" ELSE run_start

-----------------------------------------------------------------------------
(* The walker: run_scan and walk_one                                         *)

(* Whatever the iterator still holds goes with it.                           *)
DropWalk ==
  /\ missed' = missed \cup queue \cup hand \cup FilesOf(unread)
  /\ unread' = {} /\ queue' = {} /\ hand' = {}

NextRoot ==
  /\ wpc = "root" /\ state # "Cancelled"
  /\ \E r \in todo :
       /\ todo' = todo \ {r} /\ unread' = DirsOf({r})
       /\ wpc' = "next"
  /\ UNCHANGED <<controller, command, wprev, queue, hand, counted, missed, report, scanHistory>>

LastRoot ==
  /\ wpc = "root"
  /\ state = "Cancelled" \/ todo = {}
  /\ missed' = missed \cup FilesOf(DirsOf(todo)) /\ todo' = {}
  /\ wpc' = "end"
  /\ UNCHANGED <<controller, command, wprev, unread, queue, hand, counted, report, scanHistory>>

(* A worker reads a directory ahead: process_read_dir waits while the scan   *)
(* is paused, and clears the batch once it is over.                          *)
ReadDir(d) ==
  /\ d \in unread /\ unread' = unread \ {d}
  /\ \/ /\ state = "Running"
        /\ queue' = queue \cup FilesOf({d}) /\ UNCHANGED missed
     \/ /\ state \in Terminal
        /\ missed' = missed \cup FilesOf({d}) /\ UNCHANGED queue
  /\ UNCHANGED <<controller, command, wpc, wprev, todo, hand, counted, report, scanHistory>>

(* The iterator yields an entry, and the walker looks at the state.          *)
TakeEntry ==
  /\ wpc = "next"
  /\ \E f \in queue :
       \/ /\ state \in Terminal
          /\ DropWalk
          /\ wpc' = "root"
       \/ /\ state \notin Terminal
          /\ hand' = {f} /\ queue' = queue \ {f}
          /\ wpc' = IF state = "Paused" THEN "held" ELSE "count"
          /\ UNCHANGED <<unread, missed>>
  /\ UNCHANGED <<controller, command, wprev, todo, counted, report, scanHistory>>

(* A root is done when everything is read and taken.                         *)
RootDone ==
  /\ wpc = "next" /\ queue = {} /\ unread = {}
  /\ wpc' = "root"
  /\ UNCHANGED <<controller, command, wprev, walk, report, scanHistory>>

(* Mutant: the entry in hand is skipped after a pause.                       *)
SkipHeld ==
  /\ wpc = "held" /\ state # "Paused"
  /\ IF state \in Terminal THEN DropWalk /\ wpc' = "root"
                           ELSE wpc' = "next" /\ hand' = {} /\ UNCHANGED <<unread, queue, missed>>
  /\ UNCHANGED <<controller, command, wprev, todo, counted, report, scanHistory>>

(* Mutant: a paused walker waits for a resume only.                          *)
WaitForResume ==
  /\ wpc = "held" /\ state = "Running"
  /\ wpc' = "count"
  /\ UNCHANGED <<controller, command, wprev, walk, report, scanHistory>>

(* A pause between two batches lands here.                                   *)
Held ==
  /\ wpc = "held" /\ state # "Paused"
  /\ IF state \in Terminal THEN DropWalk /\ wpc' = "root"
                           ELSE wpc' = "count" /\ UNCHANGED <<unread, queue, hand, missed>>
  /\ UNCHANGED <<controller, command, wprev, todo, counted, report, scanHistory>>

handle_entry ==
  /\ wpc = "count"
  /\ counted' = counted \cup hand /\ hand' = {}
  /\ wpc' = "next"
  /\ UNCHANGED <<controller, command, wprev, todo, unread, queue, missed, report, scanHistory>>

(* Mutant: the end of the walk overwrites a cancel.                          *)
EndAnyway ==
  /\ wpc = "end"
  /\ wprev' = state /\ wpc' = "timer"
  /\ raced' = (raced \/ cpc # "idle")
  /\ UNCHANGED <<controller, command, walk, report, heard>>

(* set_state(Done): terminal states are sticky.                              *)
EndLoad ==
  /\ wpc = "end"
  /\ wprev' = state
  /\ wpc' = IF state \in Terminal THEN "emit" ELSE "timer"
  /\ raced' = (raced \/ cpc # "idle")
  /\ UNCHANGED <<controller, command, walk, report, heard>>

EndTimer ==
  /\ wpc = "timer"
  /\ run_start' = Timer(wprev, "Done")
  /\ wpc' = "store"
  /\ UNCHANGED <<state, registered, command, wprev, walk, report, scanHistory>>

EndStore ==
  /\ wpc = "store"
  /\ state' = "Done" /\ wpc' = "emit"
  /\ UNCHANGED <<run_start, registered, command, wprev, walk, report, scanHistory>>

emit_done ==
  /\ wpc = "emit"
  /\ report' = state
  /\ wpc' = "gone"
  /\ UNCHANGED <<controller, command, wprev, walk, scanHistory>>

-----------------------------------------------------------------------------
(* The commands: cancel_scan, pause_scan, resume_scan and forget_scan        *)

SetLoad(next) ==
  /\ cpc = "idle" /\ registered
  /\ state \notin Terminal
  /\ cprev' = state /\ cnext' = next
  /\ cpc' = "timer"
  /\ raced' = (raced \/ wpc \in {"timer", "store"})
  /\ UNCHANGED <<controller, wpc, wprev, walk, report, heard>>

SetTimer ==
  /\ cpc = "timer"
  /\ run_start' = Timer(cprev, cnext)
  /\ cpc' = "store"
  /\ UNCHANGED <<state, registered, cprev, cnext, wpc, wprev, walk, report, scanHistory>>

SetStore ==
  /\ cpc = "store"
  /\ state' = cnext
  /\ cpc' = "idle"
  /\ heard' = (heard \/ (cnext = "Cancelled" /\ wpc \notin {"timer", "store", "emit", "gone"}))
  /\ UNCHANGED <<run_start, registered, cprev, cnext, wpc, wprev, walk, report, raced>>

CancelScan == SetLoad("Cancelled")
PauseScan  == SetLoad("Paused")
ResumeScan == SetLoad("Running")

(* The controller leaves the registry; its walker goes on.                   *)
ForgetScan ==
  /\ cpc = "idle" /\ registered
  /\ registered' = FALSE
  /\ UNCHANGED <<state, run_start, command, wpc, wprev, walk, report, scanHistory>>

-----------------------------------------------------------------------------

Walker == NextRoot \/ LastRoot \/ TakeEntry \/ RootDone \/ Held \/ handle_entry
          \/ EndLoad \/ EndTimer \/ EndStore \/ emit_done
Workers == \E d \in Dir : ReadDir(d)
Commands == CancelScan \/ PauseScan \/ ResumeScan \/ SetTimer \/ SetStore \/ ForgetScan

ScanNext == Walker \/ Workers \/ Commands

(* The operating system runs every thread that can run; nobody has to call a *)
(* command.                                                                  *)
Fairness ==
  /\ WF_scanVars(Walker)
  /\ \A d \in Dir : WF_scanVars(ReadDir(d))
  /\ WF_scanVars(SetTimer \/ SetStore)

ScanSpec == ScanInit /\ [][ScanNext]_scanVars /\ Fairness

-----------------------------------------------------------------------------
(* Properties                                                                *)

(* A scan that reports Done has counted every file of every root, however    *)
(* pauses, resumes and cancels fell between its threads.                     *)
DoneIsComplete == report = "Done" => counted = File

(* A cancel that took effect before the walk's end is what the scan reports  *)
(* (run.rs:315-316).                                                         *)
CancelIsReported == heard => report \in {"none", "Cancelled"}

(* Terminal states are sticky (run.rs:172-174), unless a command and the     *)
(* walker's own transition were in set_state at the same time.               *)
TerminalStays == [][~raced /\ state \in Terminal => state' = state]_scanVars

(* The timer runs exactly while the scan does, between transitions that did  *)
(* not overlap (run.rs:117-120).                                             *)
ElapsedFreezes ==
  ~raced /\ cpc = "idle" /\ wpc \notin {"timer", "store"} =>
    (run_start <=> state = "Running")

(* A scan that is not left paused reaches its report.                        *)
ScanEnds == (<>[](state # "Paused")) => <>(wpc = "gone")
=============================================================================
