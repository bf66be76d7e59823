------------------------------ MODULE Scheduler ------------------------------
(* The background scan scheduler and the state file it shares with the       *)
(* settings and onboarding commands: scheduler/runner.rs and cadence.rs,     *)
(* onboarding/storage.rs, the commands of commands.rs that load, change and  *)
(* save state.json whole.  Commands run one after the other on the main      *)
(* thread; the scheduler thread interleaves with their steps.                *)
(*                                                                           *)
(* The unit of time is MAX_SLEEP_SECS; the steps of a tick or a command take *)
(* no time of that order.                                                    *)
EXTENDS Integers

CONSTANTS Daily, Weekly,  \* the intervals of two cadences, in units
          Fault,          \* which faults may happen: a subset of FaultKind
          MaxClock        \* bound: the wall clock's last unit

FaultKind == {"crash",  \* the process dies
              "save",   \* state.json cannot be written
              "load",   \* state.json cannot be read or parsed this time
              "back"}   \* the wall clock is set back

ASSUME BoundsAssumption ==
  /\ Daily \in Nat \ {0} /\ Weekly \in Nat \ {0} /\ Daily <= Weekly
  /\ MaxClock \in Nat
  /\ Fault \subseteq FaultKind

VARIABLES
  clock,
  file,       \* state.json
  cadence,    \* SchedulerController::cadence
  pc,         \* the scheduler thread
  tcad, tnow, \* what its tick has read
  tstate,     \* the state it loaded, then will save
  tstale,     \* history: the file has changed since
  sleep,      \* units it asked to sleep, then units left
  upc,        \* the main thread: "idle" or what the running command does next
  ustate, uset,  \* the command's state, and does it set_cadence
  ustale,     \* history: the file has changed since it loaded that
  age,        \* history: units since the last fire or change of cadence, up to Weekly
  late,       \* history: units a fire has been due while the process was up
  want,       \* history: the settings the user saved last
  disturbed   \* history: a save overwrote what it had not seen, or a fault happened

clockVars  == <<clock, age, late>>
tickVars   == <<tcad, tnow, tstate>>
uiVars     == <<upc, ustate, uset>>
history    == <<want, disturbed, tstale, ustale>>
vars == <<clockVars, file, cadence, pc, tickVars, sleep, uiVars, history>>

Never == -1
Cadence == {"off", "daily", "weekly"}
Rest == {"default", "chosen"}   \* everything in the state that is not the schedule

OnboardingState == [cad : Cadence, anchor : {Never} \cup 0 .. MaxClock, rest : Rest]
Default == [cad |-> "off", anchor |-> Never, rest |-> "default"]
Missing == [missing |-> TRUE]

MAX_SLEEP == 1
cadence_interval_secs(c) == IF c = "daily" THEN Daily ELSE Weekly

TypeOK ==
  /\ clock \in 0 .. MaxClock /\ tnow \in 0 .. MaxClock
  /\ file \in OnboardingState \cup {Missing}
  /\ cadence \in Cadence /\ tcad \in Cadence
  /\ pc \in {"check", "load", "fire", "save", "park", "parked", "down"}
  /\ tstate \in OnboardingState /\ ustate \in OnboardingState
  /\ sleep \in Nat
  /\ upc \in {"idle", "save", "set"} /\ uset \in BOOLEAN
  /\ age \in Nat /\ late \in Nat
  /\ want \in [cad : Cadence, rest : Rest]
  /\ disturbed \in BOOLEAN /\ tstale \in BOOLEAN /\ ustale \in BOOLEAN

Init ==
  /\ clock = 0 /\ age = 0 /\ late = 0
  /\ file = Missing /\ cadence = "off"
  /\ pc = "check" /\ sleep = 0
  /\ tcad = "off" /\ tnow = 0 /\ tstate = Default
  /\ upc = "idle" /\ ustate = Default /\ uset = FALSE
  /\ want = [cad |-> "off", rest |-> "default"]
  /\ disturbed = FALSE /\ tstale = FALSE /\ ustale = FALSE

-----------------------------------------------------------------------------
(* onboarding/storage.rs                                                     *)

Loaded == IF file = Missing THEN Default ELSE file

(* Bound: storage faults only hit a history that nothing has disturbed yet.  *)
Allowed(fault) == fault \in Fault /\ ~disturbed

(* load_or_default: a file that is missing, cannot be read or does not parse *)
(* gives the defaults.                                                       *)
Load(s) == s = Loaded \/ (Allowed("load") /\ s = Default)

SaveFails == Allowed("save") /\ disturbed' = TRUE

-----------------------------------------------------------------------------
(* cadence.rs                                                                *)

Elapsed(last, now) == IF now > last THEN now - last ELSE 0

compute_next_due(c, last, now) ==
  IF c = "off" THEN [kind |-> "Idle", in |-> MAX_SLEEP]
  ELSE LET interval == cadence_interval_secs(c) IN
    CASE last = Never -> [kind |-> "AnchorAndWait", in |-> interval]
      [] last # Never /\ Elapsed(last, now) >= interval -> [kind |-> "Overdue", in |-> interval]
      [] OTHER -> [kind |-> "In", in |-> interval - Elapsed(last, now)]

Due == cadence # "off" /\ compute_next_due(cadence, Loaded.anchor, clock).kind = "Overdue"

-----------------------------------------------------------------------------
(* The scheduler thread: run_scheduler_loop and tick                         *)

(* What a tick has read is of no use once it is past it.                     *)
ForgetTick == tcad' = "off" /\ tnow' = 0 /\ tstate' = Default /\ tstale' = FALSE

TickRead ==
  /\ pc = "check"
  /\ tcad' = cadence /\ tnow' = clock
  /\ pc' = "load"
  /\ UNCHANGED <<clockVars, file, cadence, tstate, sleep, uiVars, history>>

(* Mutant: the stamp goes into a fresh state.                                *)
StampedDefault(s) == [Default EXCEPT !.anchor = tnow]

Stamped(s) == [s EXCEPT !.anchor = tnow]

TickLoad ==
  /\ pc = "load"
  /\ \E s \in OnboardingState :
       /\ Load(s)
       /\ disturbed' = (disturbed \/ s # Loaded)
       /\ late' = IF s = Loaded THEN late ELSE 0
       /\ LET next == compute_next_due(tcad, s.anchor, tnow) IN
            /\ sleep' = next.in
            /\ pc' = CASE next.kind = "Overdue" -> "fire"
                       [] next.kind = "AnchorAndWait" -> "save"
                       [] OTHER -> "park"
            /\ IF next.kind \in {"Overdue", "AnchorAndWait"}
                 THEN /\ tstate' = Stamped(s)
                      /\ tnow' = 0 /\ tcad' = tcad /\ tstale' = FALSE
                 ELSE ForgetTick
  /\ UNCHANGED <<clock, age, file, cadence, uiVars, want, ustale>>

TickFire ==
  /\ pc = "fire"
  /\ pc' = "save"
  /\ age' = 0 /\ late' = 0
  /\ UNCHANGED <<clock, file, cadence, tickVars, sleep, uiVars, history>>

(* A failed save is logged and swallowed.                                    *)
TickSave ==
  /\ pc = "save"
  /\ \/ /\ file' = tstate /\ disturbed' = (disturbed \/ tstale)
        /\ ustale' = (upc = "save" /\ (ustale \/ file' # file))
     \/ SaveFails /\ UNCHANGED <<file, ustale>>
  /\ ForgetTick
  /\ pc' = "park"
  /\ UNCHANGED <<clockVars, cadence, sleep, uiVars, want>>

(* Mutant: no upper bound.                                                   *)
AtLeastOne(n) == IF n < 1 THEN 1 ELSE n

Clamped(n) == IF n > MAX_SLEEP THEN MAX_SLEEP ELSE IF n < 1 THEN 1 ELSE n

(* The wait begins; nothing is looked at again under the lock.               *)
Park ==
  /\ pc = "park"
  /\ pc' = "parked"
  /\ sleep' = Clamped(sleep)
  /\ UNCHANGED <<clockVars, file, cadence, tickVars, uiVars, history>>

(* The time is over, or the condition variable wakes up for no reason.       *)
Wake ==
  /\ pc = "parked"
  /\ pc' = "check" /\ sleep' = 0
  /\ UNCHANGED <<clockVars, file, cadence, tickVars, uiVars, history>>

(* A notification reaches a thread that waits, and nobody else.              *)
Notify ==
  IF pc = "parked" THEN pc' = "check" /\ sleep' = 0 ELSE UNCHANGED <<pc, sleep>>

-----------------------------------------------------------------------------
(* The commands                                                              *)

EndCommand == upc' = "idle" /\ ustate' = Default /\ uset' = FALSE

(* What set_cadence is to be called with.                                    *)
Only(c) == [Default EXCEPT !.cad = c]

(* A command loads the state and changes it.                                 *)
Begin(s, new, next, set) ==
  /\ upc = "idle" /\ pc # "down"
  /\ Load(s)
  /\ disturbed' = (disturbed \/ s # Loaded)
  /\ ustale' = FALSE /\ ustate' = new /\ upc' = next /\ uset' = set
  /\ UNCHANGED <<clockVars, file, cadence, pc, tickVars, sleep, want, tstale>>

SettingsGet == \E s \in OnboardingState : Begin(s, Only(s.cad), "set", TRUE)

(* Mutant: the anchor of the old cadence stays.                              *)
KeepAnchor(c, r) ==
  \E s \in OnboardingState : Begin(s, [s EXCEPT !.cad = c, !.rest = r], "save", TRUE)

(* A new cadence starts from now: the anchor is cleared.                     *)
SettingsUpdate(c, r) ==
  \E s \in OnboardingState :
    Begin(s, [cad |-> c, anchor |-> IF c = s.cad THEN s.anchor ELSE Never, rest |-> r],
          "save", TRUE)

(* Completion and permissions stay: the rest may still differ from a default. *)
SettingsResetPrefs ==
  \E s \in OnboardingState : \E r \in {s.rest, "default"} :
    Begin(s, [Default EXCEPT !.rest = r], "save", TRUE)

(* onboarding_save_prefs: the preferences are replaced, and nothing else.    *)
SavePrefs(c, r) ==
  \E s \in OnboardingState : Begin(s, [s EXCEPT !.cad = c, !.rest = r], "save", FALSE)

(* onboarding_set_step, _record_permission, _set_telemetry, _complete.       *)
ChangeRest(r) == \E s \in OnboardingState : Begin(s, [s EXCEPT !.rest = r], "save", FALSE)

(* save is atomic: write a temporary file, rename it over state.json.  It    *)
(* replaces the whole state, whatever became of the file since it was read.  *)
CommandSave ==
  /\ upc = "save"
  /\ file' = ustate /\ disturbed' = (disturbed \/ ustale)
  /\ tstale' = (pc \in {"fire", "save"} /\ (tstale \/ file' # file))
  /\ IF uset THEN upc' = "set" /\ ustate' = Only(ustate.cad) /\ uset' = TRUE
             ELSE EndCommand
  /\ want' = [cad |-> ustate.cad, rest |-> ustate.rest]
  /\ age' = IF uset /\ ustate.cad # Loaded.cad THEN 0 ELSE age
  /\ ustale' = FALSE
  /\ UNCHANGED <<clock, late, cadence, pc, tcad, tnow, tstate, sleep>>

(* The command returns the error, and sets no cadence.                       *)
CommandFails ==
  /\ upc = "save"
  /\ SaveFails
  /\ EndCommand /\ ustale' = FALSE
  /\ UNCHANGED <<clockVars, file, cadence, pc, tickVars, sleep, want, tstale>>

SetCadence ==
  /\ upc = "set"
  /\ EndCommand
  /\ cadence' = ustate.cad
  /\ IF cadence = ustate.cad THEN UNCHANGED <<late, pc, sleep>>
                            ELSE late' = 0 /\ Notify
  /\ UNCHANGED <<clock, age, file, tickVars, history>>

Nudge ==
  /\ upc = "idle" /\ pc = "parked"
  /\ Notify
  /\ UNCHANGED <<clockVars, file, cadence, tickVars, uiVars, history>>

OnboardingReset ==
  /\ upc = "idle" /\ pc # "down"
  /\ file' = Missing
  /\ want' = [cad |-> "off", rest |-> "default"]
  /\ tstale' = (pc \in {"fire", "save"} /\ (tstale \/ file # Missing))
  /\ UNCHANGED <<clockVars, cadence, pc, tickVars, sleep, uiVars, disturbed, ustale>>

-----------------------------------------------------------------------------
(* Time, and the process                                                     *)

(* The thread sleeps no longer than it asked for, and no command takes as    *)
(* long as a unit.                                                           *)
Tick ==
  /\ clock < MaxClock
  /\ upc = "idle"
  /\ pc = "down" \/ (pc = "parked" /\ sleep > 0)
  /\ clock' = clock + 1
  /\ age' = IF age < Weekly THEN age + 1 ELSE age
  /\ late' = IF pc = "parked" /\ Due THEN late + 1 ELSE 0
  /\ sleep' = IF pc = "parked" THEN sleep - 1 ELSE sleep
  /\ UNCHANGED <<file, cadence, pc, tickVars, uiVars, history>>

SetBack ==
  /\ "back" \in Fault
  /\ clock' \in 0 .. clock - 1
  /\ UNCHANGED <<age, late, file, cadence, pc, tickVars, sleep, uiVars, history>>

(* Between a fire and its save a crash loses the stamp.                      *)
Crash ==
  /\ "crash" \in Fault /\ pc # "down"
  /\ disturbed' = (disturbed \/ pc = "save" \/ upc # "idle")
  /\ pc' = "down" /\ sleep' = 0 /\ late' = 0 /\ cadence' = "off"
  /\ ForgetTick /\ EndCommand /\ ustale' = FALSE
  /\ UNCHANGED <<clock, age, file, want>>

(* spawn_scheduler                                                           *)
Launch ==
  /\ pc = "down"
  /\ \E s \in OnboardingState : Load(s) /\ cadence' = s.cad
       /\ disturbed' = (disturbed \/ s # Loaded)
  /\ pc' = "check"
  /\ UNCHANGED <<clockVars, file, tickVars, sleep, uiVars, want, tstale, ustale>>

Command ==
  \/ SettingsGet \/ SettingsResetPrefs \/ OnboardingReset \/ Nudge
  \/ \E c \in Cadence, r \in Rest : SettingsUpdate(c, r) \/ SavePrefs(c, r)
  \/ \E r \in Rest : ChangeRest(r)
  \/ CommandSave \/ CommandFails \/ SetCadence

Thread == TickRead \/ TickLoad \/ TickFire \/ TickSave \/ Park \/ Wake

Next == Thread \/ Command \/ Tick \/ SetBack \/ Crash \/ Launch

Spec == Init /\ [][Next]_vars

(* Once a save has overwritten what it had not seen, or a fault has happened, *)
(* no property looks at the history or the rest of the settings any more,    *)
(* and no guard does: TLC merges those states.                               *)
HistoryView ==
  IF disturbed
    THEN <<clock, late, Loaded.cad, Loaded.anchor, cadence, pc, tcad, tnow, sleep,
           tstate.cad, tstate.anchor, upc, uset, ustate.cad, ustate.anchor>>
    ELSE vars

-----------------------------------------------------------------------------
(* Properties                                                                *)

(* A scan is not fired before the whole interval has passed since the last   *)
(* fire, the last change of cadence in the settings, or the first launch     *)
(* (scheduler/mod.rs:3-5, commands.rs:1104-1106), whatever commands,         *)
(* restarts and steps back of the clock come between - unless a save         *)
(* overwrote what it had not seen, or a load, a save or a crash lost a stamp. *)
FiresAreSpaced ==
  [][TickFire /\ ~disturbed /\ ~tstale => age >= cadence_interval_secs(tcad)]_vars

(* A fire that is due is late by at most MAX_SLEEP_SECS while the process is *)
(* up: although notifications can miss the thread between its look at the    *)
(* cadence and its wait, no sleep is longer (runner.rs:21-31).               *)
NeverVeryLate == late <= MAX_SLEEP

(* What the user saved last is in the file, while saves see each other's     *)
(* work: the ticks that stamp the state leave his settings alone.            *)
SettingsSurvive ==
  ~disturbed => Loaded.cad = want.cad /\ Loaded.rest = want.rest

=============================================================================
