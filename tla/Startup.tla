-------------------------------- MODULE Startup --------------------------------
(* What launches at login (scanner/startup) and the screen that switches it. *)
(* The screen's calls are answered one at a time, on the main thread; the    *)
(* owner and other programs write the same files whenever they like, and the *)
(* program may be killed between any two steps.                              *)
EXTENDS Naturals, Sequences

CONSTANTS
  Entries,       \* per operating system: names of unit, agent or shortcut files
  Source,        \* per entry: "desktop", "unit", "plist" or "shortcut"
  Id,            \* per entry: make_item_id of it
  Versions,      \* per source: what the owner may write, without the body
  None,
  MaxClicks, MaxWrites, MaxTime, MaxCrashes, MaxVisits    \* bounds

(* What matters of a text, by source.                                        *)
DesktopText == [header : BOOLEAN, application : BOOLEAN, body : Nat,
                hidden : {"absent", "true", "false"}, gnome : {"absent", "true", "false"}]
PlistText == [keys : Seq([top : BOOLEAN, canonical : BOOLEAN, value : BOOLEAN]), body : Nat]
PlainText == [body : Nat]

(* A toggle between two of its steps.                                        *)
Carried == [entry : UNION {Entries[o] : o \in DOMAIN Entries}, enabled : BOOLEAN, visit : Nat,
            step : {"tmp", "rename", "clear", "move", "look", "link", "unlink"}, text : DesktopText \cup PlistText \cup PlainText \cup {None}]

ASSUME StartupAssumption ==
  /\ None \notin DesktopText \cup PlistText \cup PlainText \cup BOOLEAN /\ None \notin Carried
  /\ Versions.desktop \subseteq DesktopText /\ Versions.plist \subseteq PlistText
  /\ Versions.unit \subseteq PlainText /\ Versions.shortcut \subseteq PlainText
  /\ \A o \in DOMAIN Entries : \A e \in Entries[o] : Source[e] \in {"desktop", "unit", "plist", "shortcut"}
  /\ MaxWrites \in Nat

VARIABLES
  os,
  file,          \* per entry: the text of its file, or None
  shadow,        \* per entry: the text of its .disabled file, or None
  wants,         \* per entry: "none", "link" or "other", what of its name is in
                 \* default.target.wants; a copy or a folder is "other"
  tmp,           \* entries with a .safai-tmp file beside them
  work,          \* the toggle being carried out, or None
  calls,         \* calls of the screen the main thread has not begun
  answers,       \* answers the screen has not handled
  report, lastStamp, overrides, pendingIds,               \* the screen
  clock, visit,
  written,       \* per entry: the body its owner last wrote, 0 without file
  raced,         \* entries the owner wrote while they were being toggled
  acked,         \* per entry: the last state acknowledged since it was written
  unseen,        \* the owner wrote since the last scan
  clicks, writes, crashes

disk   == <<file, shadow, wants, tmp>>
screen == <<report, lastStamp, overrides, pendingIds, visit>>
ghosts == <<written, raced, acked, unseen>>
counts == <<clicks, writes, crashes>>
vars   == <<os, disk, work, calls, answers, screen, clock, ghosts, counts>>
-----------------------------------------------------------------------------
(* linux.rs.  A text is what matters of it: the first section's header, its  *)
(* keys, and the rest.  GNOME's key counts as much as the standard's.        *)
is_autostart_enabled(t) == t.header /\ t.application /\ t.hidden # "true" /\ t.gnome # "false"

Bool(b) == IF b THEN "true" ELSE "false"

(* Mutant: GNOME's key is left as it is.                                     *)
rewrite_hidden_only(t, hidden) == IF t.header THEN [t EXCEPT !.hidden = Bool(hidden)] ELSE t

(* Without the header the new line is outside of every section.              *)
rewrite_desktop_hidden(t, hidden) ==
  IF t.header
  THEN [t EXCEPT !.hidden = Bool(hidden), !.gnome = IF @ = "absent" THEN @ ELSE Bool(~hidden)]
  ELSE t

(* mac.rs.  keys are the Disabled keys in the text, nested ones and ones in  *)
(* lower case too, each [top, canonical, value].  The reader looks at the    *)
(* last of the dictionary itself; the writer at the first of any.            *)
ReadKey(t) == LET own == {n \in DOMAIN t.keys : t.keys[n].top /\ t.keys[n].canonical}
              IN IF own = {} THEN 0 ELSE CHOOSE n \in own : \A m \in own : m <= n

parse_plist(t) == ReadKey(t) # 0 /\ t.keys[ReadKey(t)].value

find_disabled_key(t) ==
  LET canonical == {n \in DOMAIN t.keys : t.keys[n].canonical}
      found == IF canonical = {} THEN DOMAIN t.keys ELSE canonical
  IN IF found = {} THEN 0 ELSE CHOOSE n \in found : \A m \in found : n <= m

rewrite_plist_disabled(t, disabled) ==
  IF find_disabled_key(t) # 0 THEN [t EXCEPT !.keys[find_disabled_key(t)].value = disabled]
  ELSE [t EXCEPT !.keys = Append(@, [top |-> TRUE, canonical |-> TRUE, value |-> disabled])]
-----------------------------------------------------------------------------
(* One item per file; on windows also per .disabled file, with the same id.  *)
Item(e, at, enabled) == [entry |-> e, at |-> at, id |-> Id[e], enabled |-> enabled]

list_autostart ==
  {Item(e, "file", is_autostart_enabled(file[e])) : e \in {d \in Entries[os] : Source[d] = "desktop" /\ file[d] # None}}

list_systemd_user ==
  {Item(e, "file", wants[e] = "link") : e \in {d \in Entries[os] : Source[d] = "unit" /\ file[d] # None}}

list_user_agents ==
  {Item(e, "file", ~parse_plist(file[e])) : e \in {d \in Entries[os] : Source[d] = "plist" /\ file[d] # None}}

list_startup_folder ==
  LET folder == {d \in Entries[os] : Source[d] = "shortcut"} IN
    {Item(e, "file", TRUE) : e \in {d \in folder : file[d] # None}}
    \cup {Item(e, "shadow", FALSE) : e \in {d \in folder : shadow[d] # None}}

scan_startup == list_autostart \cup list_systemd_user \cup list_user_agents \cup list_startup_folder
-----------------------------------------------------------------------------
Init ==
  /\ os \in DOMAIN Entries
  /\ file = [e \in Entries[os] |-> None] /\ shadow = file /\ tmp = {}
  /\ wants = [e \in Entries[os] |-> "none"]
  /\ work = None /\ calls = <<[op |-> "scan"]>> /\ answers = <<>>
  /\ report = None /\ lastStamp = None /\ overrides = <<>> /\ pendingIds = {}
  /\ clock = 0 /\ visit = 0
  /\ written = [e \in Entries[os] |-> 0] /\ raced = {} /\ acked = [e \in Entries[os] |-> None] /\ unseen = FALSE
  /\ clicks = 0 /\ writes = 0 /\ crashes = 0

(* The owner, or an installer.                                               *)
Touched(e) ==
  /\ writes < MaxWrites /\ writes' = writes + 1
  /\ raced' = IF work # None /\ work.entry = e THEN raced \cup {e} ELSE raced \ {e}
  /\ acked' = [acked EXCEPT ![e] = None] /\ unseen' = TRUE
  /\ UNCHANGED <<os, tmp, work, calls, answers, screen, clock, clicks, crashes>>

Write(e) ==
  /\ \E v \in Versions[Source[e]] : file' = [file EXCEPT ![e] = [v EXCEPT !.body = writes']]
  /\ written' = [written EXCEPT ![e] = writes'] /\ UNCHANGED <<shadow, wants>>

Delete(e) ==
  /\ file[e] # None \/ shadow[e] # None
  /\ file' = [file EXCEPT ![e] = None] /\ shadow' = [shadow EXCEPT ![e] = None]
  /\ \E w \in {wants[e], "none"} : wants' = [wants EXCEPT ![e] = w]
  /\ written' = [written EXCEPT ![e] = 0]

(* systemctl, or the owner by hand.                                          *)
Wire(e) ==
  /\ Source[e] = "unit" /\ \E w \in {"none", "link", "other"} \ {wants[e]} : wants' = [wants EXCEPT ![e] = w]
  /\ UNCHANGED <<file, shadow, written>>

Owner == \E e \in Entries[os] : Touched(e) /\ (Write(e) \/ Delete(e) \/ Wire(e))

Tick == clock < MaxTime /\ clock' = clock + 1 /\ UNCHANGED <<os, disk, work, calls, answers, screen, ghosts, counts>>
-----------------------------------------------------------------------------
(* The screen                                                                *)
Override(o, id, on) == [x \in DOMAIN o \cup {id} |-> IF x = id THEN on ELSE o[x]]
Without(o, id) == [x \in DOMAIN o \ {id} |-> o[x]]

Shown(item) == IF item.id \in DOMAIN overrides THEN overrides[item.id] ELSE item.enabled

Scans(list) == {n \in DOMAIN list : list[n].op = "scan"}

(* createResource takes the answer of its last fetch only: a scan that is    *)
(* overtaken changes nothing, and is left out.  There is never more than one.*)
Toggles(list) ==
  IF Scans(list) = {} THEN list
  ELSE LET n == CHOOSE n \in Scans(list) : TRUE IN SubSeq(list, 1, n - 1) \o SubSeq(list, n + 1, Len(list))
refetch(list) == Append(Toggles(list), [op |-> "scan"])
Loading == Scans(calls) # {} \/ Scans(answers) # {}

Rescan ==
  /\ ~Loading /\ report # None /\ report.stamp # clock
  /\ calls' = refetch(calls) /\ UNCHANGED <<os, disk, work, answers, screen, clock, ghosts, counts>>

onToggle(item) ==
  /\ clicks < MaxClicks /\ clicks' = clicks + 1
  /\ item.id \notin pendingIds
  /\ overrides' = Override(overrides, item.id, ~Shown(item)) /\ pendingIds' = pendingIds \cup {item.id}
  /\ calls' = Append(calls, [op |-> "toggle", entry |-> item.entry, at |-> item.at,
                             enabled |-> ~Shown(item), visit |-> visit])
  /\ UNCHANGED <<os, disk, work, answers, report, lastStamp, visit, clock, ghosts, writes, crashes>>

Click == report # None /\ \E item \in report.items : onToggle(item)

(* Mutant: a switch that could not be turned stays as if it were.            *)
NoRollBack(a) == overrides

(* A failure takes the optimistic state back.                                *)
RolledBack(a) == IF a.ok THEN overrides ELSE Without(overrides, Id[a.entry])

(* A screen that was left has lost its state, and still asks for a scan.     *)
ToggleAnswered ==
  /\ answers # <<>> /\ Head(answers).op = "toggle"
  /\ LET a == Head(answers) IN
       IF a.visit = visit
       THEN overrides' = RolledBack(a) /\ pendingIds' = pendingIds \ {Id[a.entry]}
       ELSE UNCHANGED <<overrides, pendingIds>>
  /\ answers' = Toggles(Tail(answers)) /\ calls' = refetch(calls)
  /\ UNCHANGED <<os, disk, work, report, lastStamp, visit, clock, ghosts, counts>>

(* Overrides go when a scan of another second arrives.                       *)
ScanAnswered ==
  /\ answers # <<>> /\ Head(answers).op = "scan"
  /\ report' = [items |-> Head(answers).items, stamp |-> Head(answers).stamp]
  /\ lastStamp' = report'.stamp
  /\ overrides' = IF report'.stamp = lastStamp THEN overrides ELSE <<>>
  /\ answers' = Tail(answers)
  /\ UNCHANGED <<os, disk, work, calls, pendingIds, visit, clock, ghosts, counts>>

(* Away and back: the report is cached, the rest starts anew.                *)
Remount ==
  /\ visit < MaxVisits /\ visit' = visit + 1
  /\ overrides' = <<>> /\ pendingIds' = {}
  /\ lastStamp' = IF report = None THEN None ELSE report.stamp
  /\ UNCHANGED <<os, disk, work, calls, answers, report, clock, ghosts, counts>>
-----------------------------------------------------------------------------
(* The main thread                                                           *)
Idle == work = None /\ calls # <<>>

Scan ==
  /\ Idle /\ Head(calls).op = "scan"
  /\ answers' = Append(answers, [op |-> "scan", items |-> scan_startup, stamp |-> clock])
  /\ calls' = Tail(calls) /\ unseen' = FALSE
  /\ UNCHANGED <<os, disk, work, screen, clock, written, raced, acked, counts>>

(* A .disabled file next to an enabled one answers for itself.               *)
Beside(e) == file'[e] # None /\ shadow'[e] # None

Answer(c, ok) ==
  /\ answers' = Append(answers, [op |-> "toggle", entry |-> c.entry, visit |-> c.visit, ok |-> ok])
  /\ acked' = IF ok THEN [acked EXCEPT ![c.entry] = IF Beside(c.entry) THEN None ELSE c.enabled] ELSE acked
  /\ UNCHANGED <<os, screen, clock, written, raced, unseen, counts>>

Begins(c, source) == Idle /\ c = Head(calls) /\ c.op = "toggle" /\ Source[c.entry] = source /\ calls' = Tail(calls)

Continue(c, step, text) ==
  /\ work' = [entry |-> c.entry, enabled |-> c.enabled, visit |-> c.visit, step |-> step, text |-> text]
  /\ UNCHANGED <<os, disk, answers, screen, clock, ghosts, counts>>

Done(c, ok) == work' = None /\ Answer(c, ok)

Refuse(c) == Idle /\ c = Head(calls) /\ c.op = "toggle" /\ calls' = Tail(calls) /\ UNCHANGED disk /\ Done(c, FALSE)

toggle_autostart(c) ==
  /\ Begins(c, "desktop") /\ file[c.entry] # None
  /\ Continue(c, "tmp", rewrite_desktop_hidden(file[c.entry], ~c.enabled))

toggle_user_agent(c) ==
  /\ Begins(c, "plist") /\ file[c.entry] # None
  /\ Continue(c, "tmp", rewrite_plist_disabled(file[c.entry], ~c.enabled))

toggle_systemd_user(c) ==
  /\ Begins(c, "unit") /\ file[c.entry] # None
  /\ Continue(c, "look", None)

(* Mutant: what is in the way of an enabled file is not looked for.          *)
InTheWayUnseen(c) == c.enabled /\ FALSE

(* A file of the name has come back while the entry was disabled.            *)
InTheWay(c) == c.enabled /\ file[c.entry] # None

toggle_startup_folder(c) ==
  /\ Begins(c, "shortcut")
  /\ IF c.at = "file" THEN file[c.entry] # None ELSE shadow[c.entry] # None
  /\ \/ (c.enabled <=> c.at = "file") /\ UNCHANGED disk /\ Done(c, TRUE)
     \/ ~(c.enabled <=> c.at = "file") /\ InTheWay(c) /\ UNCHANGED disk /\ Done(c, FALSE)
     \/ ~(c.enabled <=> c.at = "file") /\ ~InTheWay(c)
        /\ Continue(c, IF ~c.enabled /\ shadow[c.entry] # None THEN "clear" ELSE "move", None)

(* atomic_write                                                              *)
WriteTmp ==
  /\ work # None /\ work.step = "tmp"
  /\ tmp' = tmp \cup {work.entry} /\ work' = [work EXCEPT !.step = "rename"]
  /\ UNCHANGED <<os, file, shadow, wants, calls, answers, screen, clock, ghosts, counts>>

Rename ==
  /\ work # None /\ work.step = "rename"
  /\ tmp' = tmp \ {work.entry} /\ file' = [file EXCEPT ![work.entry] = work.text]
  /\ UNCHANGED <<shadow, wants, calls>> /\ Done(work, TRUE)

RemoveStale ==
  /\ work # None /\ work.step = "clear"
  /\ shadow' = [shadow EXCEPT ![work.entry] = None] /\ work' = [work EXCEPT !.step = "move"]
  /\ UNCHANGED <<os, file, wants, tmp, calls, answers, screen, clock, ghosts, counts>>

(* rename replaces what is at the target.                                    *)
Move ==
  /\ work # None /\ work.step = "move"
  /\ LET from == IF work.enabled THEN shadow ELSE file IN
       /\ from[work.entry] # None
       /\ file'   = [file EXCEPT ![work.entry] = IF work.enabled THEN from[work.entry] ELSE None]
       /\ shadow' = [shadow EXCEPT ![work.entry] = IF work.enabled THEN None ELSE from[work.entry]]
  /\ Done(work, TRUE) /\ UNCHANGED <<wants, tmp, calls>>

(* The folder, which nothing reads before it holds an entry, is made if it   *)
(* is missing.  Any entry of the unit's name will do to enable it, and none  *)
(* is left to disable it.  Whether the unit is still there is not looked at. *)
LookInWants ==
  /\ work # None /\ work.step = "look" /\ UNCHANGED <<disk, calls>>
  /\ IF work.enabled <=> wants[work.entry] # "none"
     THEN Done(work, TRUE)
     ELSE /\ work' = [work EXCEPT !.step = IF work.enabled THEN "link" ELSE "unlink"]
          /\ UNCHANGED <<os, answers, screen, clock, ghosts, counts>>

(* symlink, which fails on an entry of the name                              *)
Link ==
  /\ work # None /\ work.step = "link" /\ wants[work.entry] = "none"
  /\ wants' = [wants EXCEPT ![work.entry] = "link"]
  /\ UNCHANGED <<file, shadow, tmp, calls>> /\ Done(work, TRUE)

(* remove_file, which fails on a folder                                      *)
Unlink ==
  /\ work # None /\ work.step = "unlink" /\ wants[work.entry] # "none"
  /\ wants' = [wants EXCEPT ![work.entry] = "none"]
  /\ UNCHANGED <<file, shadow, tmp, calls>> /\ Done(work, TRUE)

(* A step that fails ends the toggle; what is done stays.                    *)
Fail == work # None /\ UNCHANGED <<disk, calls>> /\ Done(work, FALSE)

Toggle ==
  \/ \E c \in {calls[n] : n \in DOMAIN calls} :
       \/ toggle_autostart(c) \/ toggle_user_agent(c) \/ toggle_systemd_user(c) \/ toggle_startup_folder(c)
       \/ Refuse(c)
  \/ WriteTmp \/ Rename \/ RemoveStale \/ Move \/ LookInWants \/ Link \/ Unlink \/ Fail

(* The program is killed, and started again on this screen.                  *)
Crash ==
  /\ crashes < MaxCrashes /\ crashes' = crashes + 1
  /\ work' = None /\ calls' = <<[op |-> "scan"]>> /\ answers' = <<>>
  /\ report' = None /\ lastStamp' = None /\ overrides' = <<>> /\ pendingIds' = {}
  /\ UNCHANGED <<os, disk, visit, clock, ghosts, clicks, writes>>

Step == Scan \/ Toggle \/ ToggleAnswered \/ ScanAnswered
Next == Owner \/ Tick \/ Rescan \/ Click \/ Remount \/ Crash \/ Step
Spec == Init /\ [][Next]_vars
-----------------------------------------------------------------------------
TextOf(e) == CASE Source[e] = "desktop" -> DesktopText
               [] Source[e] = "plist" -> PlistText
               [] OTHER -> PlainText

(* The types of the files.                                                   *)
TypeOK ==
  /\ os \in DOMAIN Entries
  /\ file \in [Entries[os] -> DesktopText \cup PlistText \cup PlainText \cup {None}]
  /\ shadow \in [Entries[os] -> PlainText \cup {None}]
  /\ \A e \in Entries[os] : file[e] # None => file[e] \in TextOf(e)
  /\ \A e \in Entries[os] : shadow[e] # None => Source[e] = "shortcut"
  /\ wants \in [Entries[os] -> {"none", "link", "other"}]
  /\ written \in [Entries[os] -> Nat] /\ writes \in 0..MaxWrites

(* The file is one the toggle can work on: its session runs it, and reader   *)
(* and writer mean the same key, or the same entry of the wants folder, where*)
(* the reader takes a link only and the writer whatever has the unit's name. *)
Tractable(e) ==
  file[e] # None =>
    CASE Source[e] = "desktop" -> file[e].header /\ file[e].application
      [] Source[e] = "plist" -> file[e].keys # <<>> => ReadKey(file[e]) = find_disabled_key(file[e])
      [] Source[e] = "unit" -> wants[e] # "other"
      [] OTHER -> TRUE

Enabled(e) == \E i \in scan_startup : i.entry = e /\ i.enabled

(* The owner removed the unit after the toggle looked for it.                *)
Vanished(e) == Source[e] = "unit" /\ file[e] = None /\ e \in raced

(* What a toggle acknowledged is what the next scan reads as the state of    *)
(* the entry, until the owner touches it: whichever keys disabled it,        *)
(* whatever was left by a toggle that failed or was cut off.  A unit that    *)
(* vanished under its toggle is acknowledged and does not launch; disabling  *)
(* an entry that another session type ignores holds as well.                 *)
ToggleTakesEffect ==
  \A e \in Entries[os] :
    /\ acked[e] = TRUE /\ Tractable(e) => Enabled(e) \/ Vanished(e)
    /\ acked[e] = FALSE /\ (Tractable(e) \/ Source[e] = "desktop") => ~Enabled(e)

(* Toggles, failures and crashes lose nothing the owner wrote: the last text *)
(* of an entry is in its file or in the .disabled one, and what the owner    *)
(* removed does not come back.  Only writing it while it is being toggled is *)
(* not safe.                                                                 *)
NoEntryIsLost ==
  \A e \in Entries[os] \ raced :
    IF written[e] = 0 THEN file[e] = None
    ELSE \E t \in {file[e], shadow[e]} \ {None} : t.body = written[e]

Twins(item) ==
  \/ \E j \in report.items \ {item} : j.id = item.id
  \/ \E e \in Entries[os] \ {item.entry} : Id[e] = item.id

(* Once every answer is in, each switch shows what is on the disk: scans and *)
(* toggles may overlap, fail, and be answered after the screen was left.     *)
(* Not for entries that share an id, listed or not, not for a file that is   *)
(* not Tractable, and not where an override outlives a scan of its own       *)
(* second and the owner has written since.                                   *)
SwitchesAreTrue ==
  (work = None /\ calls = <<>> /\ answers = <<>> /\ ~unseen) =>
    \A item \in report.items :
      /\ item \in scan_startup
      /\ ~Twins(item) /\ Tractable(item.entry)
         /\ (item.id \in DOMAIN overrides => acked[item.entry] # None) => Shown(item) = item.enabled
=============================================================================
