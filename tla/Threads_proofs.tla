---------------------------- MODULE Threads_proofs ----------------------------
(* The two components in which a background thread and the main thread share *)
(* state: the scheduler, and the scan run.  They have nothing in common, and  *)
(* each part below is about one of them.                                     *)
EXTENDS Scheduler, ScanRun, TLAPS

(* Would an anchor be due at the current cadence?                            *)
DueAt(a) ==
  /\ cadence # "off" /\ a # Never
  /\ Elapsed(a, clock) >= cadence_interval_secs(cadence)

(* Nothing in the file, or on its way there from a command, is due.          *)
Settled == ~DueAt(Loaded.anchor) /\ (upc = "save" => ~DueAt(ustate.anchor))

(* A fire that is already late: the thread is on its way to look, and what   *)
(* it will look at is what a command may still write; or it has looked, and  *)
(* nothing is due any more.                                                  *)
Kept ==
  upc = "save" => ustate.anchor \in {Never, Loaded.anchor} \/ ~DueAt(ustate.anchor)

LateInv ==
  late > 0 =>
    /\ late = 1 /\ pc # "down"
    /\ Kept
    /\ pc = "parked" => sleep = 0 \/ Settled
    /\ pc = "load" => tcad = cadence
    /\ pc = "save" => Settled /\ ~DueAt(tstate.anchor)
    /\ pc = "park" => Settled

SleepInv == pc = "parked" => sleep <= MAX_SLEEP

(* Time stands still while the thread works: what it has read or stamped is  *)
(* not in the past.                                                          *)
NowInv ==
  /\ pc = "load" => tnow >= clock
  /\ pc \in {"fire", "save"} => tstate.anchor >= clock

(* What a tick or a command holds is what it has read, unless the history    *)
(* says otherwise.                                                           *)
TickHolds ==
  ~disturbed /\ pc \in {"fire", "save"} /\ ~tstale =>
    tstate.cad = Loaded.cad /\ tstate.rest = Loaded.rest

CommandHolds ==
  ~disturbed /\ upc = "save" /\ ~ustale =>
    \/ ustate.anchor = Never
    \/ ustate.anchor = Loaded.anchor /\ (uset => ustate.cad = Loaded.cad)

(* The anchor is no older than the last fire or change of cadence, except    *)
(* between a fire and its save.                                              *)
AgeInv ==
  ~disturbed =>
    /\ pc # "save" /\ Loaded.anchor # Never =>
         age >= Weekly \/ age >= Elapsed(Loaded.anchor, IF pc = "load" THEN tnow ELSE clock)
    /\ pc = "fire" /\ ~tstale => age >= cadence_interval_secs(tcad)

-----------------------------------------------------------------------------
(* What a tick decides                                                       *)

LEMMA LoadedIsState ==
  ASSUME TypeOK PROVE Loaded \in OnboardingState
BY BoundsAssumption DEF TypeOK, Loaded, Default, OnboardingState, Cadence, Rest, Never

LEMMA NextDue ==
  ASSUME NEW c \in Cadence, NEW a \in {Never} \cup 0 .. MaxClock, NEW now \in 0 .. MaxClock
  PROVE  /\ compute_next_due(c, a, now).in \in Nat
         /\ compute_next_due(c, a, now).kind = "Overdue"
              <=> c # "off" /\ a # Never /\ Elapsed(a, now) >= cadence_interval_secs(c)
         /\ compute_next_due(c, a, now).kind = "AnchorAndWait" <=> c # "off" /\ a = Never
BY BoundsAssumption
   DEF compute_next_due, cadence_interval_secs, Elapsed, Cadence, Never, MAX_SLEEP

LEMMA DueIsDueAt ==
  ASSUME TypeOK PROVE Due <=> DueAt(Loaded.anchor)
<1>1. Loaded.anchor \in {Never} \cup 0 .. MaxClock
  BY LoadedIsState DEF OnboardingState
<1>2. cadence \in Cadence /\ clock \in 0 .. MaxClock
  BY DEF TypeOK
<1> QED BY <1>1, <1>2, NextDue DEF Due, DueAt

(* A later look sees whatever an earlier one would have.                     *)
LEMMA ElapsedGrows ==
  ASSUME NEW a \in Int, NEW now \in Nat, NEW then \in Nat, now <= then
  PROVE  /\ Elapsed(a, now) \in Nat /\ Elapsed(a, then) \in Nat
         /\ Elapsed(a, now) <= Elapsed(a, then)
BY DEF Elapsed

LEMMA IntervalIsPositive ==
  ASSUME NEW c PROVE cadence_interval_secs(c) \in Nat /\ cadence_interval_secs(c) > 0
BY BoundsAssumption DEF cadence_interval_secs

-----------------------------------------------------------------------------
(* Steps                                                                     *)

(* A command begins: it keeps the anchor of the state it has loaded only     *)
(* with its cadence, unless it sets none.                                    *)
Begins ==
  \E s \in OnboardingState, new \in OnboardingState, next \in {"save", "set"}, set \in BOOLEAN :
    /\ Begin(s, new, next, set)
    /\ \/ next = "set"
       \/ new.anchor = Never
       \/ new.anchor = s.anchor /\ (set => new.cad = s.cad)

Others ==
  \/ TickRead \/ TickLoad \/ TickFire \/ TickSave \/ Park \/ Wake
  \/ OnboardingReset \/ Nudge \/ CommandSave \/ CommandFails \/ SetCadence
  \/ Tick \/ SetBack \/ Crash \/ Launch

LEMMA NextCases == Next => Begins \/ Others
<1>1. CASE SettingsGet
  <2> PICK s \in OnboardingState : Begin(s, Only(s.cad), "set", TRUE)
    BY <1>1 DEF SettingsGet
  <2>1. Only(s.cad) \in OnboardingState
    BY DEF OnboardingState, Only, Default, Rest
  <2> QED BY <2>1 DEF Begins
<1>2. ASSUME NEW c \in Cadence, NEW r \in Rest, SettingsUpdate(c, r) PROVE Begins
  <2> DEFINE New(s) ==
        [cad |-> c, anchor |-> IF c = s.cad THEN s.anchor ELSE Never, rest |-> r]
  <2> PICK s \in OnboardingState : Begin(s, New(s), "save", TRUE)
    BY <1>2 DEF SettingsUpdate
  <2>1. New(s) \in OnboardingState
    BY DEF OnboardingState
  <2>2. New(s).cad = c /\ New(s).anchor = IF c = s.cad THEN s.anchor ELSE Never
    OBVIOUS
  <2> HIDE DEF New
  <2> QED BY <2>1, <2>2 DEF Begins
<1>3. CASE SettingsResetPrefs
  <2> DEFINE New(r) == [Default EXCEPT !.rest = r]
  <2>1. PICK s \in OnboardingState :
          \E r \in {s.rest, "default"} : Begin(s, New(r), "save", TRUE)
    BY <1>3 DEF SettingsResetPrefs
  <2>2. PICK r \in {s.rest, "default"} : Begin(s, New(r), "save", TRUE)
    BY <2>1
  <2>3. r \in Rest
    BY DEF OnboardingState, Rest
  <2>4. New(r) \in OnboardingState /\ New(r).anchor = Never
    BY <2>3 DEF OnboardingState, Default, Cadence
  <2> HIDE DEF New
  <2> QED BY <2>2, <2>4 DEF Begins
<1>4. ASSUME NEW c \in Cadence, NEW r \in Rest, SavePrefs(c, r) PROVE Begins
  <2> DEFINE New(s) == [s EXCEPT !.cad = c, !.rest = r]
  <2> PICK s \in OnboardingState : Begin(s, New(s), "save", FALSE)
    BY <1>4 DEF SavePrefs
  <2>1. New(s) \in OnboardingState /\ New(s).anchor = s.anchor
    BY DEF OnboardingState
  <2> HIDE DEF New
  <2> QED BY <2>1 DEF Begins
<1>5. ASSUME NEW r \in Rest, ChangeRest(r) PROVE Begins
  <2> DEFINE New(s) == [s EXCEPT !.rest = r]
  <2> PICK s \in OnboardingState : Begin(s, New(s), "save", FALSE)
    BY <1>5 DEF ChangeRest
  <2>1. New(s) \in OnboardingState /\ New(s).anchor = s.anchor
    BY DEF OnboardingState
  <2> HIDE DEF New
  <2> QED BY <2>1 DEF Begins
<1> QED BY <1>1, <1>2, <1>3, <1>4, <1>5 DEF Next, Thread, Command, Others

LEMMA Blank ==
  /\ "off" \in Cadence /\ 0 \in 0 .. MaxClock /\ Default \in OnboardingState
  /\ \A c \in Cadence : Only(c) \in OnboardingState /\ Only(c).cad = c
BY BoundsAssumption DEF OnboardingState, Default, Only, Cadence, Rest, Never

-----------------------------------------------------------------------------
(* Types                                                                     *)

(* Every variable of Scheduler keeps its type: no tick, command, restart or  *)
(* move of the clock stores anything the code cannot read back.              *)
THEOREM TypeCorrect == Spec => []TypeOK
<1>1. Init => TypeOK
  <2> SUFFICES ASSUME Init PROVE TypeOK
    OBVIOUS
  <2>1. file \in OnboardingState \cup {Missing} /\ want \in [cad : Cadence, rest : Rest]
    BY DEF Init, Cadence, Rest
  <2> QED BY <2>1, Blank DEF Init, TypeOK
<1>2. TypeOK /\ [Next]_vars => TypeOK'
  <2> SUFFICES ASSUME TypeOK, [Next]_vars PROVE TypeOK'
    OBVIOUS
  <2> USE DEF TypeOK
  <2>1. CASE TickRead
    BY <2>1 DEF TickRead, clockVars, uiVars, history
  <2>2. CASE TickLoad
    <3> PICK s \in OnboardingState :
          /\ disturbed' = (disturbed \/ s # Loaded)
          /\ late' = IF s = Loaded THEN late ELSE 0
          /\ LET next == compute_next_due(tcad, s.anchor, tnow) IN
               /\ sleep' = next.in
               /\ pc' = CASE next.kind = "Overdue" -> "fire"
                          [] next.kind = "AnchorAndWait" -> "save"
                          [] OTHER -> "park"
               /\ IF next.kind \in {"Overdue", "AnchorAndWait"}
                    THEN /\ tstate' = Stamped(s)
                         /\ tnow' = 0 /\ tcad' = tcad /\ tstale' = FALSE
                    ELSE ForgetTick
      BY <2>2 DEF TickLoad
    <3>1. s.anchor \in {Never} \cup 0 .. MaxClock /\ Stamped(s) \in OnboardingState
      BY DEF OnboardingState, Stamped
    <3>2. sleep' \in Nat
      BY <3>1, NextDue
    <3>3. pc' \in {"fire", "save", "park"}
      OBVIOUS
    <3>4. tstate' \in OnboardingState /\ tnow' \in 0 .. MaxClock /\ tcad' \in Cadence
          /\ tstale' \in BOOLEAN
      BY <3>1, Blank DEF ForgetTick
    <3>5. late' \in Nat /\ disturbed' \in BOOLEAN
      OBVIOUS
    <3> QED BY <2>2, <3>2, <3>3, <3>4, <3>5 DEF TickLoad, uiVars
  <2>3. CASE TickFire
    BY <2>3 DEF TickFire, tickVars, uiVars, history
  <2>4. CASE TickSave
    <3>1. file' \in OnboardingState \cup {Missing} /\ disturbed' \in BOOLEAN
          /\ ustale' \in BOOLEAN
      BY <2>4 DEF TickSave, SaveFails
    <3>2. tstate' \in OnboardingState /\ tnow' \in 0 .. MaxClock /\ tcad' \in Cadence
          /\ tstale' \in BOOLEAN
      BY <2>4, Blank DEF TickSave, ForgetTick
    <3> QED BY <2>4, <3>1, <3>2 DEF TickSave, clockVars, uiVars
  <2>5. CASE Park
    BY <2>5 DEF Park, Clamped, MAX_SLEEP, clockVars, tickVars, uiVars, history
  <2>6. CASE Wake
    BY <2>6 DEF Wake, clockVars, tickVars, uiVars, history
  <2>7. CASE Begins
    <3> PICK s \in OnboardingState, new \in OnboardingState, next \in {"save", "set"},
             set \in BOOLEAN : Begin(s, new, next, set)
      BY <2>7 DEF Begins
    <3> QED BY DEF Begin, clockVars, tickVars
  <2>8. CASE CommandSave
    <3>1. ustate.cad \in Cadence /\ ustate.rest \in Rest
      BY DEF OnboardingState
    <3>2. file' \in OnboardingState /\ want' \in [cad : Cadence, rest : Rest]
      BY <2>8, <3>1 DEF CommandSave
    <3>3. upc' \in {"idle", "set"} /\ ustate' \in OnboardingState /\ uset' \in BOOLEAN
      BY <2>8, Blank, <3>1 DEF CommandSave, EndCommand
    <3>4. age' \in Nat /\ disturbed' \in BOOLEAN /\ tstale' \in BOOLEAN /\ ustale' \in BOOLEAN
      BY <2>8 DEF CommandSave
    <3> QED BY <2>8, <3>2, <3>3, <3>4 DEF CommandSave
  <2>9. CASE CommandFails
    BY <2>9, Blank DEF CommandFails, SaveFails, EndCommand, clockVars, tickVars
  <2>10. CASE SetCadence
    <3>1. cadence' \in Cadence /\ ustate' \in OnboardingState
      BY <2>10, Blank DEF SetCadence, EndCommand, OnboardingState
    <3>2. pc' \in {pc, "check"} /\ sleep' \in {sleep, 0} /\ late' \in {late, 0}
      BY <2>10 DEF SetCadence, Notify
    <3>3. upc' = "idle" /\ uset' = FALSE /\ UNCHANGED <<clock, age, file, tickVars, history>>
      BY <2>10 DEF SetCadence, EndCommand
    <3>4. /\ pc' \in {"check", "load", "fire", "save", "park", "parked", "down"}
          /\ sleep' \in Nat /\ late' \in Nat
      BY <3>2
    <3>5. UNCHANGED <<clock, age, file, tcad, tnow, tstate, want, disturbed, tstale, ustale>>
      BY <3>3 DEF tickVars, history
    <3> QED BY <3>1, <3>3, <3>4, <3>5
  <2>11. CASE Nudge
    BY <2>11 DEF Nudge, Notify, clockVars, tickVars, uiVars, history
  <2>12. CASE OnboardingReset
    BY <2>12 DEF OnboardingReset, clockVars, tickVars, uiVars, Cadence, Rest
  <2>13. CASE Tick
    BY <2>13, BoundsAssumption DEF Tick, tickVars, uiVars, history
  <2>14. CASE SetBack
    BY <2>14, BoundsAssumption DEF SetBack, tickVars, uiVars, history
  <2>15. CASE Crash
    <3>1. disturbed' \in BOOLEAN
      BY <2>15 DEF Crash
    <3> QED BY <2>15, <3>1, Blank DEF Crash, ForgetTick, EndCommand
  <2>16. CASE Launch
    BY <2>16 DEF Launch, clockVars, tickVars, uiVars, OnboardingState
  <2>17. CASE UNCHANGED vars
    BY <2>17 DEF vars, clockVars, tickVars, uiVars, history
  <2> QED
    BY NextCases, <2>1, <2>2, <2>3, <2>4, <2>5, <2>6, <2>7, <2>8, <2>9, <2>10, <2>11, <2>12,
       <2>13, <2>14, <2>15, <2>16, <2>17 DEF Others
<1> QED BY <1>1, <1>2, PTL DEF Spec

-----------------------------------------------------------------------------
(* A tick's decision                                                         *)

LEMMA TickLoadCases ==
  ASSUME TypeOK, TickLoad
  PROVE  \E s \in OnboardingState :
           LET due == Elapsed(s.anchor, tnow) >= cadence_interval_secs(tcad) IN
           /\ Load(s)
           /\ disturbed' = (disturbed \/ s # Loaded)
           /\ late' = IF s = Loaded THEN late ELSE 0
           /\ \/ /\ pc' = "fire" /\ s.anchor # Never /\ due
                 /\ tstate' = Stamped(s) /\ tcad' = tcad /\ tstale' = FALSE
              \/ /\ pc' = "save" /\ s.anchor = Never
                 /\ tstate' = Stamped(s) /\ tcad' = tcad /\ tstale' = FALSE
              \/ /\ pc' = "park"
                 /\ tcad = "off" \/ (s.anchor # Never /\ ~due)
<1> PICK s \in OnboardingState :
      /\ Load(s)
      /\ disturbed' = (disturbed \/ s # Loaded)
      /\ late' = IF s = Loaded THEN late ELSE 0
      /\ LET next == compute_next_due(tcad, s.anchor, tnow) IN
           /\ pc' = CASE next.kind = "Overdue" -> "fire"
                      [] next.kind = "AnchorAndWait" -> "save"
                      [] OTHER -> "park"
           /\ IF next.kind \in {"Overdue", "AnchorAndWait"}
                THEN /\ tstate' = Stamped(s)
                     /\ tcad' = tcad /\ tstale' = FALSE
                ELSE ForgetTick
  BY DEF TickLoad
<1> DEFINE next == compute_next_due(tcad, s.anchor, tnow)
           due == Elapsed(s.anchor, tnow) >= cadence_interval_secs(tcad)
<1>1. s.anchor \in {Never} \cup 0 .. MaxClock /\ tcad \in Cadence /\ tnow \in 0 .. MaxClock
  BY DEF OnboardingState, TypeOK
<1>2. /\ next.kind = "Overdue" <=> tcad # "off" /\ s.anchor # Never /\ due
      /\ next.kind = "AnchorAndWait" <=> tcad # "off" /\ s.anchor = Never
  BY <1>1, NextDue
<1> HIDE DEF next, due
<1>3. CASE next.kind = "Overdue"
  BY <1>2, <1>3 DEF next, due
<1>4. CASE next.kind = "AnchorAndWait"
  BY <1>2, <1>4 DEF next, due
<1>5. CASE next.kind \notin {"Overdue", "AnchorAndWait"}
  BY <1>2, <1>5 DEF next, due
<1> QED BY <1>3, <1>4, <1>5

-----------------------------------------------------------------------------
(* Time and sleep                                                            *)

LEMMA NowIsNotPast == Spec => [](SleepInv /\ NowInv)
<1>1. Init => SleepInv /\ NowInv
  BY DEF Init, SleepInv, NowInv
<1>2. TypeOK /\ SleepInv /\ NowInv /\ [Next]_vars => SleepInv' /\ NowInv'
  <2> SUFFICES ASSUME TypeOK, SleepInv, NowInv, [Next]_vars PROVE SleepInv' /\ NowInv'
    OBVIOUS
  <2> USE DEF SleepInv, NowInv, MAX_SLEEP
  <2>t. clock \in Nat /\ tnow \in Nat /\ sleep \in Nat
    BY DEF TypeOK
  <2>1. CASE TickRead
    BY <2>1, <2>t DEF TickRead, clockVars
  <2>2. CASE TickLoad
    <3> PICK s \in OnboardingState :
          \/ pc' = "park" \/ (pc' \in {"fire", "save"} /\ tstate' = Stamped(s))
      BY <2>2, TickLoadCases
    <3>1. Stamped(s).anchor = tnow
      BY DEF Stamped, OnboardingState
    <3>2. pc = "load" /\ clock' = clock
      BY <2>2 DEF TickLoad
    <3> QED BY <3>1, <3>2
  <2>3. CASE TickFire
    BY <2>3 DEF TickFire, clockVars, tickVars
  <2>4. CASE TickSave
    BY <2>4 DEF TickSave
  <2>5. CASE Park
    BY <2>5, <2>t DEF Park, Clamped
  <2>6. CASE Wake
    BY <2>6 DEF Wake
  <2>7. CASE Begins
    BY <2>7 DEF Begins, Begin, clockVars, tickVars
  <2>8. CASE CommandSave
    BY <2>8 DEF CommandSave
  <2>9. CASE CommandFails
    BY <2>9 DEF CommandFails, clockVars, tickVars
  <2>10. CASE SetCadence
    BY <2>10 DEF SetCadence, Notify, tickVars
  <2>11. CASE Nudge
    BY <2>11 DEF Nudge, Notify
  <2>12. CASE OnboardingReset
    BY <2>12 DEF OnboardingReset, clockVars, tickVars
  <2>13. CASE Tick
    BY <2>13, <2>t DEF Tick
  <2>14. CASE SetBack
    BY <2>14, <2>t DEF SetBack, tickVars, OnboardingState, TypeOK, Never
  <2>15. CASE Crash
    BY <2>15 DEF Crash
  <2>16. CASE Launch
    BY <2>16 DEF Launch
  <2>17. CASE UNCHANGED vars
    BY <2>17 DEF vars, clockVars, tickVars
  <2> QED
    BY NextCases, <2>1, <2>2, <2>3, <2>4, <2>5, <2>6, <2>7, <2>8, <2>9, <2>10, <2>11, <2>12,
       <2>13, <2>14, <2>15, <2>16, <2>17 DEF Others
<1> QED BY <1>1, <1>2, TypeCorrect, PTL DEF Spec

-----------------------------------------------------------------------------
(* No fire is very late                                                      *)

LEMMA DueFades ==
  ASSUME TypeOK, TypeOK', cadence' = cadence, clock' <= clock,
         NEW a \in Int, ~DueAt(a)
  PROVE  ~(DueAt(a)')
<1>1. clock \in Nat /\ clock' \in Nat
  BY DEF TypeOK
<1>2. /\ Elapsed(a, clock') \in Nat /\ Elapsed(a, clock) \in Nat
      /\ Elapsed(a, clock') <= Elapsed(a, clock)
  BY <1>1, ElapsedGrows
<1> QED BY <1>2, IntervalIsPositive DEF DueAt

(* Steps that touch nothing a fire depends on.                               *)
LEMMA SameView ==
  ASSUME UNCHANGED <<clock, file, cadence, upc, ustate>>
  PROVE  (Settled' <=> Settled) /\ (Kept' <=> Kept)
BY DEF Settled, Kept, DueAt, Loaded

LEMMA LateStep ==
  ASSUME TypeOK, TypeOK', SleepInv, NowInv, LateInv, [Next]_vars
  PROVE  LateInv'
<1> SUFFICES ASSUME late' > 0
             PROVE  /\ late' = 1 /\ pc' # "down"
                    /\ Kept'
                    /\ pc' = "parked" => sleep' = 0 \/ Settled'
                    /\ pc' = "load" => tcad' = cadence'
                    /\ pc' = "save" => Settled' /\ ~(DueAt(tstate.anchor)')
                    /\ pc' = "park" => Settled'
  BY DEF LateInv
<1>t. /\ clock \in Nat /\ tnow \in Nat /\ sleep \in Nat /\ late \in Nat
      /\ Loaded.anchor \in Int /\ ustate.anchor \in Int /\ tstate.anchor \in Int
  BY LoadedIsState, BoundsAssumption DEF TypeOK, OnboardingState, Never
<1>1. CASE TickRead
  BY <1>1, SameView DEF TickRead, LateInv, clockVars, uiVars
<1>2. CASE TickLoad
  <2>1. PICK s \in OnboardingState :
          LET due == Elapsed(s.anchor, tnow) >= cadence_interval_secs(tcad) IN
          /\ late' = IF s = Loaded THEN late ELSE 0
          /\ \/ pc' = "fire"
             \/ /\ pc' = "save" /\ s.anchor = Never
                /\ tstate' = Stamped(s)
             \/ /\ pc' = "park"
                /\ tcad = "off" \/ (s.anchor # Never /\ ~due)
    BY <1>2, TickLoadCases
  <2>2. UNCHANGED <<clock, file, cadence, upc, ustate>> /\ pc = "load"
    BY <1>2 DEF TickLoad, uiVars
  <2>3. s = Loaded /\ late' = late
    BY <2>1
  <2>4. late' = 1 /\ Kept /\ Kept' /\ tcad = cadence /\ clock <= tnow
    BY <2>2, <2>3, SameView DEF LateInv, NowInv
  <2>5. ASSUME NEW a \in Int, a >= clock PROVE ~DueAt(a) /\ ~(DueAt(a)')
    <3>1. Elapsed(a, clock) = 0
      BY <1>t, <2>5 DEF Elapsed
    <3> QED BY <3>1, <2>2, IntervalIsPositive DEF DueAt
  <2>6. CASE pc' = "fire"
    BY <2>4, <2>6
  <2>7. CASE pc' = "save" /\ s.anchor = Never /\ tstate' = Stamped(s)
    <3>1. Settled
      BY <2>3, <2>4, <2>7 DEF Settled, Kept, DueAt
    <3>2. tstate'.anchor = tnow
      BY <2>7 DEF Stamped, OnboardingState
    <3>3. ~(DueAt(tstate.anchor)')
      BY <3>2, <2>2, <2>4, <2>5, <1>t DEF DueAt
    <3> QED BY <2>2, <2>4, <2>7, <3>1, <3>3, SameView
  <2>8. CASE pc' = "park" /\ (tcad = "off" \/ (s.anchor # Never
                /\ ~(Elapsed(s.anchor, tnow) >= cadence_interval_secs(tcad))))
    <3>1. Elapsed(s.anchor, clock) <= Elapsed(s.anchor, tnow)
          /\ Elapsed(s.anchor, clock) \in Nat /\ Elapsed(s.anchor, tnow) \in Nat
      BY <1>t, <2>3, <2>4, ElapsedGrows
    <3>2. ~DueAt(Loaded.anchor)
      BY <2>3, <2>4, <2>8, <3>1, IntervalIsPositive DEF DueAt
    <3>3. Settled
      BY <2>4, <3>2 DEF Settled, Kept, DueAt
    <3> QED BY <2>2, <2>4, <2>8, <3>3, SameView
  <2> QED BY <2>1, <2>6, <2>7, <2>8
<1>3. CASE TickFire
  BY <1>3 DEF TickFire
<1>4. CASE TickSave
  <2>1. late' = late /\ pc = "save" /\ pc' = "park" /\ UNCHANGED <<clock, cadence, upc, ustate>>
    BY <1>4 DEF TickSave, clockVars, uiVars
  <2>2. late = 1 /\ Settled /\ ~DueAt(tstate.anchor)
    BY <2>1 DEF LateInv
  <2>3. file' \in {file, tstate}
    BY <1>4 DEF TickSave
  <2>4. tstate # Missing
    BY DEF TypeOK, OnboardingState, Missing
  <2>5. Loaded' \in {Loaded, tstate}
    BY <2>3, <2>4 DEF Loaded
  <2>6. Settled'
    BY <2>1, <2>2, <2>5 DEF Settled, DueAt
  <2>7. Kept'
    BY <2>6 DEF Settled, Kept
  <2> QED BY <2>1, <2>2, <2>6, <2>7
<1>5. CASE Park
  BY <1>5, SameView DEF Park, LateInv, clockVars, uiVars
<1>6. CASE Wake
  BY <1>6, SameView DEF Wake, LateInv, clockVars, uiVars
<1>7. CASE Begins
  <2>1. PICK s \in OnboardingState, new \in OnboardingState, next \in {"save", "set"} :
          /\ Load(s) /\ upc' = next /\ ustate' = new
          /\ next = "set" \/ new.anchor = Never \/ new.anchor = s.anchor
    BY <1>7 DEF Begins, Begin
  <2>2. UNCHANGED <<clock, late, file, cadence, pc, tstate, tcad, sleep>> /\ upc = "idle"
    BY <1>7 DEF Begins, Begin, clockVars, tickVars
  <2>3. s \in {Loaded, Default}
    BY <2>1 DEF Load
  <2>4. upc' = "save" => ustate'.anchor \in {Never, Loaded.anchor}
    BY <2>1, <2>3 DEF Default
  <2>5. Kept'
    BY <2>2, <2>4 DEF Kept, Loaded
  <2>6. Settled => Settled'
    BY <2>2, <2>4 DEF Settled, DueAt, Loaded
  <2> QED BY <2>2, <2>5, <2>6 DEF LateInv, DueAt
<1>8. CASE CommandSave
  <2>1. upc = "save" /\ upc' # "save" /\ file' = ustate
        /\ UNCHANGED <<clock, late, cadence, pc, tcad, tstate, sleep>>
    BY <1>8 DEF CommandSave, EndCommand
  <2>2. ustate # Missing
    BY DEF TypeOK, OnboardingState, Missing
  <2>3. Loaded' = ustate /\ Kept'
    BY <2>1, <2>2 DEF Loaded, Kept
  <2>4. Settled => Settled'
    BY <2>1, <2>3 DEF Settled, DueAt
  <2> QED BY <2>1, <2>3, <2>4 DEF LateInv, DueAt
<1>9. CASE CommandFails
  BY <1>9 DEF CommandFails, EndCommand, LateInv, Settled, Kept, DueAt, Loaded, clockVars, tickVars
<1>10. CASE SetCadence
  <2>1. cadence' = cadence /\ UNCHANGED <<late, pc, sleep, clock, file, tcad, tstate>>
        /\ upc' = "idle"
    BY <1>10 DEF SetCadence, EndCommand, tickVars
  <2>2. Kept' /\ (Settled => Settled')
    BY <2>1 DEF Kept, Settled, DueAt, Loaded
  <2> QED BY <2>1, <2>2 DEF LateInv, DueAt
<1>11. CASE Nudge
  BY <1>11, SameView DEF Nudge, Notify, LateInv, clockVars, uiVars
<1>12. CASE OnboardingReset
  <2>1. upc = "idle" /\ file' = Missing
        /\ UNCHANGED <<clock, late, cadence, pc, tcad, tstate, sleep, upc>>
    BY <1>12 DEF OnboardingReset, clockVars, tickVars, uiVars
  <2>2. Kept' /\ Settled'
    BY <2>1 DEF Kept, Settled, DueAt, Loaded, Default
  <2> QED BY <2>1, <2>2 DEF LateInv, DueAt
<1>13. CASE Tick
  <2>1. pc = "parked" /\ Due /\ late' = late + 1 /\ sleep > 0 /\ upc = "idle"
        /\ pc' = pc /\ upc' = upc /\ sleep' = sleep - 1
    BY <1>13 DEF Tick, uiVars
  <2>2. sleep' = 0
    BY <1>t, <2>1 DEF SleepInv, MAX_SLEEP
  <2>3. late = 0
    BY <1>t, <2>1, DueIsDueAt DEF LateInv, Settled
  <2>4. Kept'
    BY <2>1 DEF Kept
  <2>5. late' = 1 /\ pc' = "parked"
    BY <2>1, <2>3
  <2> QED BY <2>2, <2>4, <2>5
<1>14. CASE SetBack
  <2>1. clock' <= clock /\ UNCHANGED <<late, file, cadence, pc, tcad, tstate, sleep, upc, ustate>>
    BY <1>14, <1>t DEF SetBack, tickVars, uiVars
  <2>2. \A a \in Int : ~DueAt(a) => ~(DueAt(a)')
    BY <2>1, DueFades
  <2>3. Loaded' = Loaded
    BY <2>1 DEF Loaded
  <2>4. Settled => Settled'
    <3> SUFFICES ASSUME Settled PROVE Settled'
      OBVIOUS
    <3>1. ~(DueAt(Loaded.anchor)')
      BY <1>t, <2>1, <2>2, <2>3 DEF Settled, DueAt
    <3>2. upc' = "save" => ~(DueAt(ustate.anchor)')
      BY <1>t, <2>1, <2>2 DEF Settled, DueAt
    <3> QED BY <3>1, <3>2 DEF Settled
  <2>5. Kept => Kept'
    BY <1>t, <2>1, <2>2, <2>3 DEF Kept, DueAt
  <2>6. ~DueAt(tstate.anchor) => ~(DueAt(tstate.anchor)')
    BY <1>t, <2>1, <2>2 DEF DueAt
  <2> QED BY <2>1, <2>4, <2>5, <2>6 DEF LateInv
<1>15. CASE Crash
  BY <1>15 DEF Crash
<1>16. CASE Launch
  BY <1>16 DEF Launch, LateInv, clockVars
<1>17. CASE UNCHANGED vars
  BY <1>17, SameView DEF vars, LateInv, DueAt, clockVars, tickVars, uiVars
<1> QED
  BY NextCases, <1>1, <1>2, <1>3, <1>4, <1>5, <1>6, <1>7, <1>8, <1>9, <1>10, <1>11, <1>12,
     <1>13, <1>14, <1>15, <1>16, <1>17 DEF Others

(* A fire that is due is late by at most one sleep of the thread, whatever   *)
(* commands, missed notifications, restarts and steps back of the clock come *)
(* between (runner.rs:21-31).                                                *)
THEOREM NoFireIsVeryLate == Spec => []NeverVeryLate
<1>1. Init => LateInv
  BY DEF Init, LateInv
<1>2. TypeOK /\ TypeOK' /\ SleepInv /\ NowInv /\ LateInv /\ [Next]_vars => LateInv'
  BY LateStep
<1>3. TypeOK /\ LateInv => NeverVeryLate
  BY DEF TypeOK, LateInv, NeverVeryLate, MAX_SLEEP
<1> QED BY <1>1, <1>2, <1>3, TypeCorrect, NowIsNotPast, PTL DEF Spec

-----------------------------------------------------------------------------
(* What the user saved stays                                                 *)

LEMMA SurvivalStep ==
  ASSUME TypeOK, SettingsSurvive, TickHolds, [Next]_vars
  PROVE  SettingsSurvive' /\ TickHolds'
<1> USE DEF SettingsSurvive, TickHolds
<1>m. tstate # Missing /\ ustate # Missing
  BY DEF TypeOK, OnboardingState, Missing
<1>1. CASE TickRead
  BY <1>1 DEF TickRead, history, Loaded
<1>2. CASE TickLoad
  <2>1. PICK s \in OnboardingState :
          /\ disturbed' = (disturbed \/ s # Loaded)
          /\ pc' = "park" \/ tstate' = Stamped(s)
    BY <1>2, TickLoadCases
  <2>2. Loaded' = Loaded /\ want' = want
    BY <1>2 DEF TickLoad, Loaded
  <2>3. Stamped(s).cad = s.cad /\ Stamped(s).rest = s.rest
    BY DEF Stamped, OnboardingState
  <2> QED BY <2>1, <2>2, <2>3
<1>3. CASE TickFire
  BY <1>3 DEF TickFire, tickVars, history, Loaded
<1>4. CASE TickSave
  BY <1>4, <1>m DEF TickSave, SaveFails, Loaded
<1>5. CASE Park
  BY <1>5 DEF Park, tickVars, history, Loaded
<1>6. CASE Wake
  BY <1>6 DEF Wake, tickVars, history, Loaded
<1>7. CASE Begins
  <2> PICK s \in OnboardingState : disturbed' = (disturbed \/ s # Loaded)
    BY <1>7 DEF Begins, Begin
  <2>1. UNCHANGED <<file, pc, tstate, tstale, want>>
    BY <1>7 DEF Begins, Begin, tickVars
  <2>2. Loaded' = Loaded
    BY <2>1 DEF Loaded
  <2> QED BY <2>1, <2>2
<1>8. CASE CommandSave
  <2>1. Loaded' = ustate /\ want' = [cad |-> ustate.cad, rest |-> ustate.rest]
    BY <1>8, <1>m DEF CommandSave, Loaded
  <2>2. /\ disturbed' = (disturbed \/ ustale) /\ pc' = pc /\ tstate' = tstate
        /\ tstale' = (pc \in {"fire", "save"} /\ (tstale \/ file' # file))
    BY <1>8 DEF CommandSave
  <2>3. file' = file => Loaded' = Loaded
    BY DEF Loaded
  <2> QED BY <2>1, <2>2, <2>3
<1>9. CASE CommandFails
  BY <1>9 DEF CommandFails, SaveFails, tickVars, Loaded
<1>10. CASE SetCadence
  BY <1>10 DEF SetCadence, Notify, tickVars, history, Loaded
<1>11. CASE Nudge
  BY <1>11 DEF Nudge, Notify, tickVars, history, Loaded
<1>12. CASE OnboardingReset
  <2>1. Loaded' = Default /\ want' = [cad |-> "off", rest |-> "default"]
    BY <1>12 DEF OnboardingReset, Loaded
  <2>2. /\ disturbed' = disturbed /\ pc' = pc /\ tstate' = tstate
        /\ tstale' = (pc \in {"fire", "save"} /\ (tstale \/ file # Missing))
    BY <1>12 DEF OnboardingReset, tickVars
  <2>3. file = Missing => Loaded' = Loaded
    BY <2>1 DEF Loaded
  <2> QED BY <2>1, <2>2, <2>3 DEF Default
<1>13. CASE Tick
  BY <1>13 DEF Tick, tickVars, history, Loaded
<1>14. CASE SetBack
  BY <1>14 DEF SetBack, tickVars, history, Loaded
<1>15. CASE Crash
  BY <1>15 DEF Crash, Loaded
<1>16. CASE Launch
  BY <1>16 DEF Launch, Loaded
<1>17. CASE UNCHANGED vars
  BY <1>17 DEF vars, tickVars, history, Loaded
<1> QED
  BY NextCases, <1>1, <1>2, <1>3, <1>4, <1>5, <1>6, <1>7, <1>8, <1>9, <1>10, <1>11, <1>12,
     <1>13, <1>14, <1>15, <1>16, <1>17 DEF Others

(* The ticks that stamp the state, the restarts and the failures leave the   *)
(* user's last settings in the file, while saves see each other's work.      *)
THEOREM SettingsAreKept == Spec => []SettingsSurvive
<1>1. Init => SettingsSurvive /\ TickHolds
  BY DEF Init, SettingsSurvive, TickHolds, Loaded, Default
<1>2. TypeOK /\ SettingsSurvive /\ TickHolds /\ [Next]_vars => SettingsSurvive' /\ TickHolds'
  BY SurvivalStep
<1> QED BY <1>1, <1>2, TypeCorrect, PTL DEF Spec

-----------------------------------------------------------------------------
(* Fires are spaced                                                          *)

LEMMA CommandHoldsStep ==
  ASSUME TypeOK, CommandHolds, [Next]_vars PROVE CommandHolds'
<1> USE DEF CommandHolds
<1>1. CASE upc' = "save" /\ UNCHANGED <<file, upc, ustate, uset, ustale>> /\ (disturbed => disturbed')
  BY <1>1 DEF Loaded
<1>2. CASE TickRead \/ TickFire \/ Park \/ Wake \/ Tick \/ SetBack \/ UNCHANGED vars
  BY <1>2 DEF TickRead, TickFire, Park, Wake, Tick, SetBack, vars, uiVars, history, Loaded
<1>3. CASE TickLoad
  <2> PICK s \in OnboardingState : disturbed' = (disturbed \/ s # Loaded)
    BY <1>3, TickLoadCases
  <2> QED BY <1>3 DEF TickLoad, uiVars, Loaded
<1>4. CASE TickSave
  <2>1. /\ UNCHANGED <<upc, ustate, uset>> /\ (disturbed => disturbed')
        /\ \/ ustale' = (upc = "save" /\ (ustale \/ file' # file))
           \/ disturbed'
    BY <1>4 DEF TickSave, SaveFails, uiVars
  <2>2. file' = file => Loaded' = Loaded
    BY DEF Loaded
  <2> QED BY <2>1, <2>2
<1>5. CASE Begins
  <2>1. PICK s \in OnboardingState, new \in OnboardingState, next \in {"save", "set"},
             set \in BOOLEAN :
          /\ Begin(s, new, next, set)
          /\ next = "set" \/ new.anchor = Never \/ (new.anchor = s.anchor /\ (set => new.cad = s.cad))
    BY <1>5 DEF Begins
  <2>2. /\ disturbed' = (disturbed \/ s # Loaded)
        /\ ustate' = new /\ upc' = next /\ uset' = set
    BY <2>1 DEF Begin
  <2>3. Loaded' = Loaded
    BY <2>1 DEF Begin, Loaded
  <2> QED BY <2>1, <2>2, <2>3
<1>6. CASE CommandSave \/ CommandFails \/ SetCadence \/ Crash
  BY <1>6 DEF CommandSave, CommandFails, SetCadence, Crash, EndCommand
<1>7. CASE OnboardingReset \/ Nudge
  BY <1>7 DEF OnboardingReset, Nudge, uiVars
<1>8. CASE Launch
  BY <1>8 DEF Launch, uiVars, Loaded
<1> QED BY NextCases, <1>2, <1>3, <1>4, <1>5, <1>6, <1>7, <1>8 DEF Others

LEMMA AgeStep ==
  ASSUME TypeOK, TypeOK', NowInv, CommandHolds, AgeInv, [Next]_vars
  PROVE  AgeInv'
<1> DEFINE Look == IF pc = "load" THEN tnow ELSE clock
           Old == age >= Weekly \/ age >= Elapsed(Loaded.anchor, Look)
<1> SUFFICES ASSUME ~disturbed'
             PROVE  /\ pc' # "save" /\ Loaded'.anchor # Never => Old'
                    /\ pc' = "fire" /\ ~tstale' => age' >= cadence_interval_secs(tcad')
  BY DEF AgeInv
<1>t. /\ clock \in Nat /\ tnow \in Nat /\ age \in Nat /\ Loaded.anchor \in Int
      /\ clock' \in Nat /\ tnow' \in Nat /\ age' \in Nat /\ tstate.anchor \in Int
      /\ Weekly \in Nat /\ ustate.anchor \in Int
  BY LoadedIsState, BoundsAssumption DEF TypeOK, OnboardingState, Never
<1>m. tstate # Missing /\ ustate # Missing
  BY DEF TypeOK, OnboardingState, Missing
<1>1. CASE TickRead
  BY <1>1 DEF TickRead, AgeInv, clockVars, history, Loaded
<1>2. CASE TickLoad
  <2>1. PICK s \in OnboardingState :
          LET due == Elapsed(s.anchor, tnow) >= cadence_interval_secs(tcad) IN
          /\ disturbed' = (disturbed \/ s # Loaded)
          /\ \/ pc' = "fire" /\ s.anchor # Never /\ due /\ tcad' = tcad
             \/ pc' \in {"save", "park"}
    BY <1>2, TickLoadCases
  <2>2. pc = "load" /\ UNCHANGED <<clock, age, file>>
    BY <1>2 DEF TickLoad
  <2>3. s = Loaded /\ ~disturbed /\ Loaded' = Loaded
    BY <2>1, <2>2 DEF Loaded
  <2>4. Elapsed(Loaded.anchor, clock) <= Elapsed(Loaded.anchor, tnow)
        /\ Elapsed(Loaded.anchor, clock) \in Nat /\ Elapsed(Loaded.anchor, tnow) \in Nat
    BY <1>t, <2>2, ElapsedGrows DEF NowInv
  <2>5. cadence_interval_secs(tcad) <= Weekly
    BY BoundsAssumption DEF cadence_interval_secs
  <2>6. Loaded.anchor # Never => age >= Weekly \/ age >= Elapsed(Loaded.anchor, tnow)
    BY <2>2, <2>3 DEF AgeInv
  <2>7. CASE pc' = "fire"
    BY <1>t, <2>1, <2>2, <2>3, <2>4, <2>5, <2>6, <2>7, IntervalIsPositive
  <2>8. CASE pc' \in {"save", "park"}
    BY <1>t, <2>2, <2>3, <2>4, <2>6, <2>8
  <2> QED BY <2>1, <2>7, <2>8
<1>3. CASE TickFire
  BY <1>3 DEF TickFire
<1>4. CASE TickSave
  <2>1. file' = tstate /\ pc = "save" /\ pc' = "park" /\ UNCHANGED <<clock, age>>
    BY <1>4 DEF TickSave, SaveFails, clockVars
  <2>2. Loaded' = tstate
    BY <1>m, <2>1 DEF Loaded
  <2>3. Elapsed(tstate.anchor, clock) = 0
    BY <1>t, <2>1 DEF NowInv, Elapsed
  <2> QED BY <1>t, <2>1, <2>2, <2>3
<1>5. CASE Park
  BY <1>5 DEF Park, AgeInv, clockVars, tickVars, history, Loaded
<1>6. CASE Wake
  BY <1>6 DEF Wake, AgeInv, clockVars, tickVars, history, Loaded
<1>7. CASE Begins
  <2>1. PICK s \in OnboardingState : disturbed' = (disturbed \/ s # Loaded)
    BY <1>7 DEF Begins, Begin
  <2>2. UNCHANGED <<clock, age, file, pc, tcad, tnow, tstale>>
    BY <1>7 DEF Begins, Begin, clockVars, tickVars
  <2> QED BY <2>1, <2>2 DEF AgeInv, Loaded
<1>8. CASE CommandSave
  <2>1. /\ upc = "save" /\ Loaded' = ustate /\ ~disturbed /\ ~ustale
        /\ UNCHANGED <<clock, pc, tcad, tnow>>
    BY <1>8, <1>m DEF CommandSave, Loaded
  <2>2. /\ age' = IF uset /\ ustate.cad # Loaded.cad THEN 0 ELSE age
        /\ tstale' = (pc \in {"fire", "save"} /\ (tstale \/ file' # file))
        /\ file' = ustate
    BY <1>8 DEF CommandSave
  <2>3. CASE ustate.anchor = Never
    <3>1. file' = file => Loaded' = Loaded
      BY DEF Loaded
    <3> QED BY <2>1, <2>2, <2>3, <3>1 DEF AgeInv
  <2>4. CASE ustate.anchor = Loaded.anchor /\ (uset => ustate.cad = Loaded.cad)
    BY <2>1, <2>2, <2>4 DEF AgeInv
  <2> QED BY <2>1, <2>3, <2>4 DEF CommandHolds
<1>9. CASE CommandFails
  BY <1>9 DEF CommandFails, SaveFails
<1>10. CASE SetCadence
  BY <1>10 DEF SetCadence, Notify, AgeInv, tickVars, history, Loaded
<1>11. CASE Nudge
  BY <1>11 DEF Nudge, Notify, AgeInv, clockVars, tickVars, history, Loaded
<1>12. CASE OnboardingReset
  <2>1. Loaded'.anchor = Never
    BY <1>12 DEF OnboardingReset, Loaded, Default
  <2> QED BY <1>12, <2>1 DEF OnboardingReset, AgeInv, clockVars, tickVars
<1>13. CASE Tick
  <2>1. /\ pc \notin {"load", "fire", "save"} /\ pc' = pc /\ clock' = clock + 1
        /\ age' = IF age < Weekly THEN age + 1 ELSE age
        /\ ~disturbed /\ Loaded' = Loaded
    BY <1>13 DEF Tick, history, Loaded
  <2>2. Elapsed(Loaded.anchor, clock + 1) <= Elapsed(Loaded.anchor, clock) + 1
    BY <1>t DEF Elapsed
  <2>3. Elapsed(Loaded.anchor, clock) \in Nat /\ Elapsed(Loaded.anchor, clock + 1) \in Nat
    BY <1>t DEF Elapsed
  <2>4. Loaded.anchor # Never => age >= Weekly \/ age >= Elapsed(Loaded.anchor, clock)
    BY <2>1 DEF AgeInv
  <2>5. Loaded.anchor # Never => age' >= Weekly \/ age' >= Elapsed(Loaded.anchor, clock + 1)
    BY <1>t, <2>1, <2>2, <2>3, <2>4
  <2> QED BY <2>1, <2>5
<1>14. CASE SetBack
  <2>1. clock' <= clock /\ Loaded' = Loaded /\ UNCHANGED <<age, pc, tcad, tnow, tstale, disturbed>>
    BY <1>t, <1>14 DEF SetBack, tickVars, history, Loaded
  <2>2. Elapsed(Loaded.anchor, clock') <= Elapsed(Loaded.anchor, clock)
        /\ Elapsed(Loaded.anchor, clock') \in Nat /\ Elapsed(Loaded.anchor, clock) \in Nat
    BY <1>t, <2>1, ElapsedGrows
  <2> QED BY <1>t, <2>1, <2>2 DEF AgeInv
<1>15. CASE Crash
  <2>1. ~disturbed /\ pc # "save" /\ pc' = "down" /\ Loaded' = Loaded
        /\ UNCHANGED <<clock, age>>
    BY <1>15 DEF Crash, Loaded
  <2>2. pc = "load" => /\ Elapsed(Loaded.anchor, clock) <= Elapsed(Loaded.anchor, tnow)
                       /\ Elapsed(Loaded.anchor, clock) \in Nat
                       /\ Elapsed(Loaded.anchor, tnow) \in Nat
    BY <1>t, ElapsedGrows DEF NowInv
  <2>3. Loaded.anchor # Never => age >= Weekly \/ age >= Elapsed(Loaded.anchor, clock)
    BY <1>t, <2>1, <2>2 DEF AgeInv
  <2> QED BY <2>1, <2>3
<1>16. CASE Launch
  BY <1>16 DEF Launch, AgeInv, clockVars, Loaded
<1>17. CASE UNCHANGED vars
  BY <1>17 DEF vars, AgeInv, clockVars, tickVars, history, Loaded
<1> QED
  BY NextCases, <1>1, <1>2, <1>3, <1>4, <1>5, <1>6, <1>7, <1>8, <1>9, <1>10, <1>11, <1>12,
     <1>13, <1>14, <1>15, <1>16, <1>17 DEF Others

(* No scan is fired before the whole interval has passed since the last      *)
(* fire, change of cadence or launch, whatever commands, restarts and steps  *)
(* back of the clock come between (scheduler/mod.rs:3-5), while no save has  *)
(* overwritten what it had not seen and no stamp was lost.                   *)
THEOREM ScansAreSpaced == Spec => FiresAreSpaced
<1>1. Init => CommandHolds /\ AgeInv
  BY DEF Init, CommandHolds, AgeInv, Loaded, Default
<1>2. TypeOK /\ TypeOK' /\ NowInv /\ CommandHolds /\ AgeInv /\ [Next]_vars
        => CommandHolds' /\ AgeInv'
  BY CommandHoldsStep, AgeStep
<1>3. AgeInv => [TickFire /\ ~disturbed /\ ~tstale => age >= cadence_interval_secs(tcad)]_vars
  BY DEF AgeInv, TickFire
<1> QED BY <1>1, <1>2, <1>3, TypeCorrect, NowIsNotPast, PTL DEF Spec, FiresAreSpaced

-----------------------------------------------------------------------------
USE TreeAssumption

(* What a walker that is between two roots, or past them, holds.             *)
HandsEmpty ==
  /\ wpc \in {"root", "end", "timer", "store", "emit", "gone"} =>
       unread = {} /\ queue = {} /\ hand = {}
  /\ wpc \in {"end", "timer", "store", "emit", "gone"} => todo = {}
  /\ wpc = "next" => hand = {}
  /\ report # "none" => wpc = "gone"

(* Every file is counted, on its way, or missed.                             *)
Account ==
  \A f \in File : \/ f \in counted \cup queue \cup hand \cup missed
                  \/ dirOf[f] \in unread
                  \/ rootOf[dirOf[f]] \in todo

(* Only a cancel makes the walker miss files, and once the state is          *)
(* Cancelled only a walker that loaded the state before can change it.       *)
CancelAlone ==
  /\ state = "Cancelled" => cpc = "idle"
  /\ cnext # "Done"
  /\ state = "Done" => wpc \in {"emit", "gone"}
  /\ missed # {} \/ heard => state = "Cancelled" /\ wpc \notin {"timer", "store"}
  /\ report = "Done" => missed = {}
  /\ heard => report \in {"none", "Cancelled"}

(* One set_state at a time: what it has loaded still holds.                  *)
OneWriter ==
  ~raced =>
    /\ cpc = "idle" \/ wpc \notin {"timer", "store"}
    /\ cpc # "idle" => cprev = state /\ state \notin Terminal
    /\ wpc \in {"timer", "store"} => wprev = state /\ state \notin Terminal
    /\ cpc = "idle" /\ wpc \notin {"timer", "store"} => (run_start <=> state = "Running")
    /\ cpc = "timer" \/ wpc = "timer" => (run_start <=> state = "Running")
    /\ cpc = "store" => (run_start <=> cnext = "Running")
    /\ wpc = "store" => ~run_start

ScanInv == ScanTypeOK /\ HandsEmpty /\ Account /\ CancelAlone /\ OneWriter

LEMMA ScanInitHolds ==
  ScanInit => ScanInv
  BY DEF ScanInit, ScanInv, ScanTypeOK, HandsEmpty, Account, CancelAlone, OneWriter, ScanState, Terminal

LEMMA ScanTypeStep == ScanTypeOK /\ [ScanNext]_scanVars => ScanTypeOK'
<1> SUFFICES ASSUME ScanTypeOK, [ScanNext]_scanVars PROVE ScanTypeOK'
  OBVIOUS
<1> USE DEF ScanTypeOK, ScanState, Terminal, controller, command, walk, scanHistory
<1>1. CASE NextRoot
  BY <1>1 DEF NextRoot, DirsOf
<1>2. CASE LastRoot
  BY <1>2 DEF LastRoot, FilesOf, DirsOf
<1>3. CASE TakeEntry
  BY <1>3 DEF TakeEntry, DropWalk, FilesOf
<1>4. CASE RootDone
  BY <1>4 DEF RootDone
<1>5. CASE Held
  BY <1>5 DEF Held, DropWalk, FilesOf
<1>6. CASE handle_entry
  BY <1>6 DEF handle_entry
<1>7. CASE EndLoad
  BY <1>7 DEF EndLoad
<1>8. CASE EndTimer
  <2>1. run_start' \in BOOLEAN
    BY <1>8, Zenon DEF EndTimer, Timer
  <2> QED
    BY <1>8, <2>1 DEF EndTimer, Timer
<1>9. CASE EndStore
  BY <1>9 DEF EndStore
<1>10. CASE emit_done
  BY <1>10 DEF emit_done
<1>11. ASSUME NEW d \in Dir, ReadDir(d) PROVE ScanTypeOK'
  BY <1>11 DEF ReadDir, FilesOf
<1>12. CASE CancelScan \/ PauseScan \/ ResumeScan
  BY <1>12 DEF CancelScan, PauseScan, ResumeScan, SetLoad
<1>13. CASE SetTimer
  <2>1. run_start' \in BOOLEAN
    BY <1>13, Zenon DEF SetTimer, Timer
  <2> QED
    BY <1>13, <2>1 DEF SetTimer, Timer
<1>14. CASE SetStore
  BY <1>14 DEF SetStore
<1>15. CASE ForgetScan
  <2>1. registered' \in BOOLEAN
    BY <1>15, Zenon DEF ForgetScan
  <2> QED
    BY <1>15, <2>1 DEF ForgetScan
<1>16. CASE UNCHANGED scanVars
  BY <1>16 DEF scanVars
<1> QED
  BY <1>1, <1>2, <1>3, <1>4, <1>5, <1>6, <1>7, <1>8, <1>9, <1>10, <1>11, <1>12,
     <1>13, <1>14, <1>15, <1>16 DEF ScanNext, Walker, Workers, Commands

LEMMA ScanPartsStep ==
  ScanInv /\ [ScanNext]_scanVars => HandsEmpty' /\ Account' /\ CancelAlone' /\ OneWriter'
<1> SUFFICES ASSUME ScanInv, [ScanNext]_scanVars
             PROVE  HandsEmpty' /\ Account' /\ CancelAlone' /\ OneWriter'
  OBVIOUS
<1> USE DEF ScanInv, ScanTypeOK, ScanState, Terminal, controller, command, walk, scanHistory
<1>1. CASE NextRoot
  <2>1. HandsEmpty'
    BY <1>1 DEF HandsEmpty, NextRoot, DirsOf
  <2>2. Account'
    BY <1>1 DEF Account, HandsEmpty, NextRoot, DirsOf
  <2>3. CancelAlone'
    BY <1>1 DEF CancelAlone, HandsEmpty, NextRoot, DirsOf
  <2>4. OneWriter'
    BY <1>1 DEF OneWriter, CancelAlone, NextRoot, DirsOf
  <2> QED
    BY <2>1, <2>2, <2>3, <2>4
<1>2. CASE LastRoot
  <2>1. HandsEmpty'
    BY <1>2 DEF HandsEmpty, LastRoot, DirsOf, FilesOf
  <2>2. Account'
    BY <1>2 DEF Account, HandsEmpty, LastRoot, DirsOf, FilesOf
  <2>3. CancelAlone'
    BY <1>2 DEF CancelAlone, HandsEmpty, LastRoot, DirsOf, FilesOf
  <2>4. OneWriter'
    BY <1>2 DEF OneWriter, CancelAlone, LastRoot, DirsOf, FilesOf
  <2> QED
    BY <2>1, <2>2, <2>3, <2>4
<1>3. CASE TakeEntry
  <2>1. HandsEmpty'
    BY <1>3 DEF HandsEmpty, TakeEntry, DropWalk, FilesOf
  <2>2. Account'
    BY <1>3 DEF Account, HandsEmpty, TakeEntry, DropWalk, FilesOf
  <2>3. CancelAlone'
    BY <1>3 DEF CancelAlone, HandsEmpty, TakeEntry, DropWalk, FilesOf
  <2>4. OneWriter'
    BY <1>3 DEF OneWriter, CancelAlone, TakeEntry, DropWalk, FilesOf
  <2> QED
    BY <2>1, <2>2, <2>3, <2>4
<1>4. CASE RootDone
  <2>1. HandsEmpty'
    BY <1>4 DEF HandsEmpty, RootDone
  <2>2. Account'
    BY <1>4 DEF Account, HandsEmpty, RootDone
  <2>3. CancelAlone'
    BY <1>4 DEF CancelAlone, HandsEmpty, RootDone
  <2>4. OneWriter'
    BY <1>4 DEF OneWriter, CancelAlone, RootDone
  <2> QED
    BY <2>1, <2>2, <2>3, <2>4
<1>5. CASE Held
  <2>1. HandsEmpty'
    BY <1>5 DEF HandsEmpty, Held, DropWalk, FilesOf
  <2>2. Account'
    BY <1>5 DEF Account, HandsEmpty, Held, DropWalk, FilesOf
  <2>3. CancelAlone'
    BY <1>5 DEF CancelAlone, HandsEmpty, Held, DropWalk, FilesOf
  <2>4. OneWriter'
    BY <1>5 DEF OneWriter, CancelAlone, Held, DropWalk, FilesOf
  <2> QED
    BY <2>1, <2>2, <2>3, <2>4
<1>6. CASE handle_entry
  <2>1. HandsEmpty'
    BY <1>6 DEF HandsEmpty, handle_entry
  <2>2. Account'
    BY <1>6 DEF Account, HandsEmpty, handle_entry
  <2>3. CancelAlone'
    BY <1>6 DEF CancelAlone, HandsEmpty, handle_entry
  <2>4. OneWriter'
    BY <1>6 DEF OneWriter, CancelAlone, handle_entry
  <2> QED
    BY <2>1, <2>2, <2>3, <2>4
<1>7. CASE EndLoad
  <2>1. HandsEmpty'
    BY <1>7 DEF HandsEmpty, EndLoad
  <2>2. Account'
    BY <1>7 DEF Account, HandsEmpty, EndLoad
  <2>3. CancelAlone'
    BY <1>7 DEF CancelAlone, HandsEmpty, EndLoad
  <2>4. OneWriter'
    BY <1>7 DEF OneWriter, CancelAlone, EndLoad
  <2> QED
    BY <2>1, <2>2, <2>3, <2>4
<1>8. CASE EndTimer
  <2>1. HandsEmpty'
    BY <1>8 DEF HandsEmpty, EndTimer, Timer
  <2>2. Account'
    BY <1>8 DEF Account, HandsEmpty, EndTimer, Timer
  <2>3. CancelAlone'
    BY <1>8 DEF CancelAlone, HandsEmpty, EndTimer, Timer
  <2>4. OneWriter'
    BY <1>8 DEF OneWriter, CancelAlone, EndTimer, Timer
  <2> QED
    BY <2>1, <2>2, <2>3, <2>4
<1>9. CASE EndStore
  <2>1. HandsEmpty'
    BY <1>9 DEF HandsEmpty, EndStore
  <2>2. Account'
    BY <1>9 DEF Account, HandsEmpty, EndStore
  <2>3. CancelAlone'
    BY <1>9 DEF CancelAlone, HandsEmpty, EndStore
  <2>4. OneWriter'
    BY <1>9 DEF OneWriter, CancelAlone, EndStore
  <2> QED
    BY <2>1, <2>2, <2>3, <2>4
<1>10. CASE emit_done
  <2>1. HandsEmpty'
    BY <1>10 DEF HandsEmpty, emit_done
  <2>2. Account'
    BY <1>10 DEF Account, HandsEmpty, emit_done
  <2>3. CancelAlone'
    BY <1>10 DEF CancelAlone, HandsEmpty, emit_done
  <2>4. OneWriter'
    BY <1>10 DEF OneWriter, CancelAlone, emit_done
  <2> QED
    BY <2>1, <2>2, <2>3, <2>4
<1>11. ASSUME NEW d \in Dir, ReadDir(d) PROVE HandsEmpty' /\ Account' /\ CancelAlone' /\ OneWriter'
  <2>1. HandsEmpty'
    BY <1>11 DEF HandsEmpty, ReadDir, FilesOf
  <2>2. Account'
    BY <1>11 DEF Account, HandsEmpty, ReadDir, FilesOf
  <2>3. CancelAlone'
    BY <1>11 DEF CancelAlone, HandsEmpty, ReadDir, FilesOf
  <2>4. OneWriter'
    BY <1>11 DEF OneWriter, CancelAlone, ReadDir, FilesOf
  <2> QED
    BY <2>1, <2>2, <2>3, <2>4
<1>12. CASE CancelScan \/ PauseScan \/ ResumeScan
  <2>1. HandsEmpty'
    BY <1>12 DEF HandsEmpty, CancelScan, PauseScan, ResumeScan, SetLoad
  <2>2. Account'
    BY <1>12 DEF Account, HandsEmpty, CancelScan, PauseScan, ResumeScan, SetLoad
  <2>3. CancelAlone'
    BY <1>12 DEF CancelAlone, HandsEmpty, CancelScan, PauseScan, ResumeScan, SetLoad
  <2>4. OneWriter'
    BY <1>12 DEF OneWriter, CancelAlone, CancelScan, PauseScan, ResumeScan, SetLoad
  <2> QED
    BY <2>1, <2>2, <2>3, <2>4
<1>13. CASE SetTimer
  <2>1. HandsEmpty'
    BY <1>13 DEF HandsEmpty, SetTimer, Timer
  <2>2. Account'
    BY <1>13 DEF Account, HandsEmpty, SetTimer, Timer
  <2>3. CancelAlone'
    BY <1>13 DEF CancelAlone, HandsEmpty, SetTimer, Timer
  <2>4. OneWriter'
    BY <1>13 DEF OneWriter, CancelAlone, SetTimer, Timer
  <2> QED
    BY <2>1, <2>2, <2>3, <2>4
<1>14. CASE SetStore
  <2>1. HandsEmpty'
    BY <1>14 DEF HandsEmpty, SetStore
  <2>2. Account'
    BY <1>14 DEF Account, HandsEmpty, SetStore
  <2>3. CancelAlone'
    BY <1>14 DEF CancelAlone, HandsEmpty, SetStore
  <2>4. OneWriter'
    BY <1>14 DEF OneWriter, CancelAlone, SetStore
  <2> QED
    BY <2>1, <2>2, <2>3, <2>4
<1>15. CASE ForgetScan
  <2>1. HandsEmpty'
    BY <1>15 DEF HandsEmpty, ForgetScan
  <2>2. Account'
    BY <1>15 DEF Account, HandsEmpty, ForgetScan
  <2>3. CancelAlone'
    BY <1>15 DEF CancelAlone, HandsEmpty, ForgetScan
  <2>4. OneWriter'
    BY <1>15 DEF OneWriter, CancelAlone, ForgetScan
  <2> QED
    BY <2>1, <2>2, <2>3, <2>4
<1>16. CASE UNCHANGED scanVars
  <2>1. HandsEmpty'
    BY <1>16 DEF HandsEmpty, scanVars
  <2>2. Account'
    BY <1>16 DEF Account, HandsEmpty, scanVars
  <2>3. CancelAlone'
    BY <1>16 DEF CancelAlone, HandsEmpty, scanVars
  <2>4. OneWriter'
    BY <1>16 DEF OneWriter, CancelAlone, scanVars
  <2> QED
    BY <2>1, <2>2, <2>3, <2>4
<1> QED
  BY <1>1, <1>2, <1>3, <1>4, <1>5, <1>6, <1>7, <1>8,
     <1>9, <1>10, <1>11, <1>12, <1>13, <1>14, <1>15, <1>16 DEF ScanNext, Walker, Workers, Commands

LEMMA ScanInvariant ==
  ScanSpec => []ScanInv
<1>1. ScanInv /\ [ScanNext]_scanVars => ScanInv'
  BY ScanTypeStep, ScanPartsStep DEF ScanInv
<1> QED
  BY ScanInitHolds, <1>1, PTL DEF ScanSpec

(* Every variable of ScanRun keeps its type.                                 *)
THEOREM ScanTyping ==
  ScanSpec => []ScanTypeOK
<1>1. ScanInv => ScanTypeOK
  BY DEF ScanInv
<1> QED
  BY ScanInvariant, <1>1, PTL

(* A scan that reports Done has counted every file of every root (run_scan,  *)
(* walk_one).                                                                *)
THEOREM DoneMeansAll ==
  ScanSpec => []DoneIsComplete
<1>1. ScanInv => DoneIsComplete
  <2> SUFFICES ASSUME ScanInv, report = "Done" PROVE counted = File
    BY DEF DoneIsComplete
  <2>1. wpc = "gone" /\ missed = {}
    BY DEF ScanInv, HandsEmpty, CancelAlone
  <2>2. queue = {} /\ hand = {} /\ unread = {} /\ todo = {}
    BY <2>1 DEF ScanInv, HandsEmpty
  <2> QED
    BY <2>1, <2>2 DEF ScanInv, Account, ScanTypeOK
<1> QED
  BY ScanInvariant, <1>1, PTL

(* A cancel that took effect before the walk's end is what the scan reports. *)
THEOREM CancelsAreReported ==
  ScanSpec => []CancelIsReported
<1>1. ScanInv => CancelIsReported
  BY DEF ScanInv, CancelAlone, CancelIsReported
<1> QED
  BY ScanInvariant, <1>1, PTL

(* The timer follows the state between transitions that did not overlap.     *)
THEOREM TimerFollows ==
  ScanSpec => []ElapsedFreezes
<1>1. ScanInv => ElapsedFreezes
  BY DEF ScanInv, OneWriter, ElapsedFreezes
<1> QED
  BY ScanInvariant, <1>1, PTL

(* Terminal states stay, unless two set_state calls overlapped.              *)
THEOREM TerminalIsSticky ==
  ScanSpec => TerminalStays
<1>1. ScanInv /\ [ScanNext]_scanVars => [~raced /\ state \in Terminal => state' = state]_scanVars
  <2> SUFFICES ASSUME ScanInv, ScanNext, ~raced, state \in Terminal PROVE state' = state
    OBVIOUS
  <2>1. ~SetStore /\ ~EndStore
    BY DEF ScanInv, OneWriter, SetStore, EndStore
  <2> QED
    BY <2>1 DEF ScanNext, Walker, Workers, Commands, NextRoot, LastRoot, TakeEntry, RootDone, Held,
       handle_entry, EndLoad, EndTimer, emit_done, ReadDir, CancelScan, PauseScan, ResumeScan,
       SetLoad, SetTimer, ForgetScan, controller
<1> QED
  BY ScanInvariant, <1>1, PTL DEF ScanSpec, TerminalStays
=============================================================================
