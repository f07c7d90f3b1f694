-------------------------- MODULE DeviceLoopProofs --------------------------
(***************************************************************************)
(* What a hold of the POWER button may do in loop(), proved for every      *)
(* order of iterations, button changes, lockouts, timeouts and resets.     *)
(* loop() remembers a hold in six flags of four blocks of code that are    *)
(* run in different iterations; the invariant says what each of them knows *)
(* of the hold under way.                                                  *)
(***************************************************************************)
EXTENDS DeviceLoop, TLAPS

Holding == "POWER" \in held

\* A hold that a "released since" flag has seen begin is a fresh one.
FreshInv ==
    /\ Holding /\ powerReleasedSinceWake => hold = "fresh"
    /\ Holding /\ powerReleasedSinceLowBatteryWake => hold = "fresh" /\ ~shot
    /\ powerReleasedSinceLowBatteryWake => lowBatteryWarningActive

\* The hold that woke the device has its release still to be consumed, unless
\* setup() returned before it noted the wake.
WakeInv == Holding /\ hold = "wake" /\ setUp => wakePowerReleasePending

\* A hold that took a screenshot keeps the combination until it ends, and
\* with it the right to the next screenshot.
ComboInv ==
    Holding /\ shot => screenshotComboActive /\ ~screenshotButtonsReleased

HoldInv == FreshInv /\ WakeInv /\ ComboInv

-----------------------------------------------------------------------------
(* Types.  Each part of an iteration keeps those of the variables it sets. *)

InputsOK == /\ down \in SUBSET Buttons /\ held \in SUBSET Buttons
            /\ longHold \in BOOLEAN /\ hold \in {"wake", "reset", "fresh"}
ClocksOK == /\ asleep \in BOOLEAN /\ sleepAllowed \in BOOLEAN
            /\ idle \in BOOLEAN /\ usb \in BOOLEAN /\ batteryLocked \in BOOLEAN
ActivityOK == /\ screen \in {"home", "activity", "warning", "message"}
              /\ pending \in {"none", "home", "warning"}
              /\ keepAwake \in BOOLEAN /\ exclusive \in BOOLEAN
FlagsOK == /\ setUp \in BOOLEAN
           /\ wakePowerReleasePending \in BOOLEAN
           /\ lowBatteryWarningActive \in BOOLEAN
           /\ warningActivityProcessed \in BOOLEAN
           /\ powerReleasedSinceLowBatteryWake \in BOOLEAN
           /\ powerReleasedSinceWake \in BOOLEAN
ComboOK == /\ screenshotButtonsReleased \in BOOLEAN
           /\ screenshotComboActive \in BOOLEAN /\ shot \in BOOLEAN
           /\ event \in {"none", "input", "screenshot", "refresh", "sleep",
                         "auto-sleep"}

LEMMA TypeParts ==
  TypeOK <=> InputsOK /\ ClocksOK /\ ActivityOK /\ FlagsOK /\ ComboOK
BY DEF TypeOK, InputsOK, ClocksOK, ActivityOK, FlagsOK, ComboOK

LEMMA TypePartsNext ==
  TypeOK' <=> InputsOK' /\ ClocksOK' /\ ActivityOK' /\ FlagsOK' /\ ComboOK'
BY DEF TypeOK, InputsOK, ClocksOK, ActivityOK, FlagsOK, ComboOK

LEMMA SampleTyped ==
  ASSUME InputsOK, Sample
  PROVE  InputsOK'
BY DEF InputsOK, Sample

\* Whatever is requested, the manager shows one of the screens.
LEMMA ManagerTyped ==
  ASSUME ActivityOK, NEW request \in {"none", "home", "warning"},
         ManagerLoop(request)
  PROVE  ActivityOK'
<1>1. CASE Swallowed(request)
  BY <1>1 DEF Swallowed, ActivityOK
<1>2. ASSUME NEW to \in {"home", "activity", "warning", "message"}, Navigates(to)
      PROVE  ActivityOK'
  BY <1>2 DEF Navigates, ActivityOK
<1>3. CASE Navigates(IF request = "none" THEN screen ELSE request)
  BY <1>2, <1>3 DEF ActivityOK
<1>4. CASE \E to \in {"activity", "home"} : Navigates(to)
  BY <1>2, <1>4
<1> QED
  BY <1>1, <1>3, <1>4 DEF ManagerLoop

LEMMA ExitsTyped ==
  ASSUME TypeOK, UNCHANGED setUp,
         \/ ExclusiveIteration \/ ConsumeWakeRelease
         \/ LockoutEnds \/ LockoutIteration \/ LockoutBegins
         \/ ScreenshotCombo \/ ComboRemains
         \/ AutoSleep \/ HoldSleep \/ RunActivity
  PROVE  ClocksOK' /\ ActivityOK' /\ FlagsOK' /\ ComboOK'
<1> USE DEF NoShot, Did, Activity, clockVars, powerVars, activityVars,
            lockoutVars, wakeVars
<1>a. InputsOK /\ ClocksOK /\ ActivityOK /\ FlagsOK /\ ComboOK
  BY TypeParts
<1>1. CASE ExclusiveIteration
  <2>1. ClocksOK'
    BY <1>1, <1>a DEF ExclusiveIteration, ClocksOK
  <2>2. ActivityOK'
    BY <1>1, <1>a DEF ExclusiveIteration, ActivityOK
  <2>3. FlagsOK'
    BY <1>1, <1>a DEF ExclusiveIteration, FlagsOK
  <2>4. ComboOK'
    BY <1>1, <1>a DEF ExclusiveIteration, ComboOK
  <2> QED
    BY <2>1, <2>2, <2>3, <2>4
<1>2. CASE ConsumeWakeRelease
  <2>1. ClocksOK'
    BY <1>2, <1>a DEF ConsumeWakeRelease, ClocksOK
  <2>2. ActivityOK'
    BY <1>2, <1>a DEF ConsumeWakeRelease, ActivityOK
  <2>3. FlagsOK'
    BY <1>2, <1>a DEF ConsumeWakeRelease, FlagsOK
  <2>4. ComboOK'
    BY <1>2, <1>a DEF ConsumeWakeRelease, ComboOK
  <2> QED
    BY <2>1, <2>2, <2>3, <2>4
<1>3. CASE LockoutEnds
  <2>1. ClocksOK'
    BY <1>3, <1>a DEF LockoutEnds, Ordinary, ClocksOK
  <2>2. ActivityOK'
    <3>1. ManagerLoop("home")
      BY <1>3 DEF LockoutEnds
    <3> QED
      BY <3>1, <1>a, ManagerTyped DEF ActivityOK
  <2>3. FlagsOK'
    BY <1>3, <1>a DEF LockoutEnds, Ordinary, FlagsOK
  <2>4. ComboOK'
    BY <1>3, <1>a DEF LockoutEnds, Ordinary, ComboOK
  <2> QED
    BY <2>1, <2>2, <2>3, <2>4
<1>4. CASE LockoutIteration
  <2>1. ClocksOK'
    BY <1>4, <1>a DEF LockoutIteration, Ordinary, Sleep, ClocksOK
  <2>2. ActivityOK'
    <3>1. CASE warningActivityProcessed
      BY <1>4, <1>a, <3>1 DEF LockoutIteration, ManagerRunsOnce, ActivityOK
    <3>2. CASE ~warningActivityProcessed
      BY <1>4, <1>a, <3>2, ManagerTyped
      DEF LockoutIteration, ManagerRunsOnce, ActivityOK
    <3> QED
      BY <3>1, <3>2
  <2>3. FlagsOK'
    BY <1>4, <1>a DEF LockoutIteration, Ordinary, Sleep, FlagsOK
  <2>4. ComboOK'
    BY <1>4, <1>a DEF LockoutIteration, Ordinary, Sleep, ComboOK
  <2> QED
    BY <2>1, <2>2, <2>3, <2>4
<1>5. CASE LockoutBegins
  <2>1. ClocksOK'
    BY <1>5, <1>a DEF LockoutBegins, Ordinary, ClocksOK
  <2>2. ActivityOK'
    <3>1. ManagerLoop("warning")
      BY <1>5 DEF LockoutBegins
    <3> QED
      BY <3>1, <1>a, ManagerTyped DEF ActivityOK
  <2>3. FlagsOK'
    BY <1>5, <1>a DEF LockoutBegins, Ordinary, FlagsOK
  <2>4. ComboOK'
    BY <1>5, <1>a DEF LockoutBegins, Ordinary, ComboOK
  <2> QED
    BY <2>1, <2>2, <2>3, <2>4
<1>6. CASE ScreenshotCombo
  <2>1. ClocksOK'
    BY <1>6, <1>a DEF ScreenshotCombo, Powered, Ordinary, ClocksOK
  <2>2. ActivityOK'
    BY <1>6, <1>a DEF ScreenshotCombo, Powered, Ordinary, ActivityOK
  <2>3. FlagsOK'
    BY <1>6, <1>a DEF ScreenshotCombo, Powered, Ordinary, FlagsOK
  <2>4. ComboOK'
    BY <1>6, <1>a DEF ScreenshotCombo, Powered, Ordinary, ComboOK
  <2> QED
    BY <2>1, <2>2, <2>3, <2>4
<1>7. CASE ComboRemains
  <2>1. ClocksOK'
    BY <1>7, <1>a DEF ComboRemains, Powered, Ordinary, Rearmed, ClocksOK
  <2>2. ActivityOK'
    BY <1>7, <1>a DEF ComboRemains, Powered, Ordinary, Rearmed, ActivityOK
  <2>3. FlagsOK'
    BY <1>7, <1>a DEF ComboRemains, Powered, Ordinary, Rearmed, FlagsOK
  <2>4. ComboOK'
    <3>1. screenshotComboActive' \in BOOLEAN
      BY <1>7 DEF ComboRemains, Power
    <3>2. screenshotButtonsReleased' \in BOOLEAN
      BY <1>7, <1>a DEF ComboRemains, Rearmed, ComboOK
    <3>3. shot' \in BOOLEAN /\ event' = "none"
      BY <1>7, <1>a DEF ComboRemains, ComboOK
    <3> QED
      BY <3>1, <3>2, <3>3 DEF ComboOK
  <2> QED
    BY <2>1, <2>2, <2>3, <2>4
<1>8. CASE AutoSleep
  <2>1. ClocksOK'
    BY <1>8, <1>a DEF AutoSleep, Uncombined, Powered, Ordinary, Sleep, ClocksOK
  <2>2. ActivityOK'
    BY <1>8, <1>a DEF AutoSleep, Uncombined, Powered, Ordinary, Sleep, ActivityOK
  <2>3. FlagsOK'
    BY <1>8, <1>a DEF AutoSleep, Uncombined, Powered, Ordinary, Sleep, FlagsOK
  <2>4. ComboOK'
    BY <1>8, <1>a DEF AutoSleep, Uncombined, Powered, Ordinary, Sleep, ComboOK
  <2> QED
    BY <2>1, <2>2, <2>3, <2>4
<1>9. CASE HoldSleep
  <2>1. ClocksOK'
    BY <1>9, <1>a DEF HoldSleep, Awake, Uncombined, Powered, Ordinary, Sleep, ClocksOK
  <2>2. ActivityOK'
    BY <1>9, <1>a DEF HoldSleep, Awake, Uncombined, Powered, Ordinary, Sleep, ActivityOK
  <2>3. FlagsOK'
    BY <1>9, <1>a DEF HoldSleep, Awake, Uncombined, Powered, Ordinary, Sleep, FlagsOK
  <2>4. ComboOK'
    BY <1>9, <1>a DEF HoldSleep, Awake, Uncombined, Powered, Ordinary, Sleep, ComboOK
  <2> QED
    BY <2>1, <2>2, <2>3, <2>4
<1>10. CASE RunActivity
  <2>1. ClocksOK'
    BY <1>10, <1>a DEF RunActivity, Awake, Uncombined, Powered, Ordinary, ClocksOK
  <2>2. ActivityOK'
    <3>1. ManagerLoop(pending)
      BY <1>10 DEF RunActivity
    <3> QED
      BY <3>1, <1>a, ManagerTyped DEF ActivityOK
  <2>3. FlagsOK'
    BY <1>10, <1>a DEF RunActivity, Awake, Uncombined, Powered, Ordinary, FlagsOK
  <2>4. ComboOK'
    BY <1>10, <1>a DEF RunActivity, Awake, Uncombined, Powered, Ordinary, ComboOK
  <2> QED
    BY <2>1, <2>2, <2>3, <2>4
<1> QED
  BY <1>1, <1>2, <1>3, <1>4, <1>5, <1>6, <1>7, <1>8, <1>9, <1>10

LEMMA NextTyped ==
  ASSUME TypeOK, [Next]_vars
  PROVE  TypeOK'
<1> USE DEF inputVars, clockVars, powerVars, activityVars, lockoutVars,
            comboVars, wakeVars
<1>1. CASE Iteration
  BY <1>1, ExitsTyped, SampleTyped, TypeParts, TypePartsNext DEF Iteration
<1>2. CASE ButtonsChange
  BY <1>2 DEF ButtonsChange, TypeOK
<1>3. CASE HoldGrowsLong
  BY <1>3 DEF HoldGrowsLong, TypeOK
<1>4. CASE SleepAllowed
  BY <1>4 DEF SleepAllowed, TypeOK
<1>5. CASE TimesOut
  BY <1>5 DEF TimesOut, TypeOK
<1>6. CASE PowerChanges
  <2>1. usb' \in BOOLEAN /\ batteryLocked' \in BOOLEAN
    BY <1>6 DEF PowerChanges, TypeOK
  <2> QED
    BY <1>6, <2>1 DEF PowerChanges, TypeOK
<1>7. CASE Reset
  BY <1>7 DEF Reset, TypeOK
<1>8. CASE UNCHANGED vars
  BY <1>8 DEF vars, TypeOK
<1> QED
  BY <1>1, <1>2, <1>3, <1>4, <1>5, <1>6, <1>7, <1>8 DEF Next

(***************************************************************************)
(* Every iteration and everything around it leaves a state that loop() is  *)
(* written for.                                                            *)
(***************************************************************************)
THEOREM LoopIsTyped == Spec => []TypeOK
<1>1. Init => TypeOK
  BY DEF Init, TypeOK
<1> QED
  BY <1>1, NextTyped, PTL DEF Spec

-----------------------------------------------------------------------------
(* The hold under way. *)

OnTime == OnlyFreshHoldsSleep /\ OtherReleasesAreQuiet

LEMMA QuietEvent ==
  ASSUME event' \notin {"sleep", "refresh"}
  PROVE  OnTime'
BY DEF OnTime, OnlyFreshHoldsSleep, OtherReleasesAreQuiet

LEMMA ExitsKeepTheHold ==
  ASSUME HoldInv, Sample, UNCHANGED setUp,
         \/ ExclusiveIteration \/ ConsumeWakeRelease
         \/ LockoutEnds \/ LockoutIteration \/ LockoutBegins
         \/ ScreenshotCombo \/ ComboRemains
         \/ AutoSleep \/ HoldSleep \/ RunActivity
  PROVE  HoldInv' /\ OnTime'
<1> USE DEF HoldInv, NoShot, Did, lockoutVars, wakeVars
<1>a. /\ Holding' <=> Power
      /\ Power /\ ~NewHold => Holding /\ hold' = hold
      /\ NewHold => hold' = "fresh" /\ Power
      /\ PowerReleased => Holding /\ ~NewHold /\ hold' = hold /\ ~Power
  BY DEF Sample, Holding, Power, NewHold, PowerReleased
<1>1. CASE ExclusiveIteration
  <2>1. FreshInv'
    BY <1>1, <1>a DEF ExclusiveIteration, FreshInv
  <2>2. WakeInv'
    BY <1>1, <1>a DEF ExclusiveIteration, WakeInv
  <2>3. ComboInv'
    BY <1>1, <1>a DEF ExclusiveIteration, ComboInv
  <2>4. OnTime'
    BY <1>1, QuietEvent DEF ExclusiveIteration
  <2> QED
    BY <2>1, <2>2, <2>3, <2>4
<1>2. CASE ConsumeWakeRelease
  <2>1. FreshInv'
    BY <1>2, <1>a DEF ConsumeWakeRelease, FreshInv
  <2>2. WakeInv'
    BY <1>2, <1>a DEF ConsumeWakeRelease, WakeInv
  <2>3. ComboInv'
    BY <1>2, <1>a DEF ConsumeWakeRelease, ComboInv
  <2>4. OnTime'
    BY <1>2, QuietEvent DEF ConsumeWakeRelease
  <2> QED
    BY <2>1, <2>2, <2>3, <2>4
<1>3. CASE LockoutEnds
  <2>1. FreshInv'
    BY <1>3, <1>a DEF LockoutEnds, Ordinary, FreshInv
  <2>2. WakeInv'
    BY <1>3, <1>a DEF LockoutEnds, Ordinary, WakeInv
  <2>3. ComboInv'
    BY <1>3, <1>a DEF LockoutEnds, Ordinary, ComboInv
  <2>4. OnTime'
    BY <1>3, QuietEvent DEF LockoutEnds, Ordinary
  <2> QED
    BY <2>1, <2>2, <2>3, <2>4
<1>4. CASE LockoutIteration
  <2>1. FreshInv'
    BY <1>4, <1>a DEF LockoutIteration, Ordinary, Sleep, HoldInLockout, FreshInv
  <2>2. WakeInv'
    BY <1>4, <1>a DEF LockoutIteration, Ordinary, Sleep, HoldInLockout, WakeInv
  <2>3. ComboInv'
    BY <1>4, <1>a DEF LockoutIteration, Ordinary, Sleep, HoldInLockout, ComboInv
  <2>4. OnTime'
    BY <1>4, <1>a DEF LockoutIteration, Ordinary, Sleep, HoldInLockout,
       FreshInv, WakeInv, ComboInv, OnTime, OnlyFreshHoldsSleep, OtherReleasesAreQuiet
  <2> QED
    BY <2>1, <2>2, <2>3, <2>4
<1>5. CASE LockoutBegins
  <2>1. FreshInv'
    BY <1>5, <1>a DEF LockoutBegins, Ordinary, FreshInv
  <2>2. WakeInv'
    BY <1>5, <1>a DEF LockoutBegins, Ordinary, WakeInv
  <2>3. ComboInv'
    BY <1>5, <1>a DEF LockoutBegins, Ordinary, ComboInv
  <2>4. OnTime'
    BY <1>5, QuietEvent DEF LockoutBegins, Ordinary
  <2> QED
    BY <2>1, <2>2, <2>3, <2>4
<1>6. CASE ScreenshotCombo
  <2>1. FreshInv'
    BY <1>6, <1>a DEF ScreenshotCombo, Powered, Ordinary, Buttons, FreshInv
  <2>2. WakeInv'
    BY <1>6, <1>a DEF ScreenshotCombo, Powered, Ordinary, Buttons, WakeInv
  <2>3. ComboInv'
    BY <1>6, <1>a DEF ScreenshotCombo, Powered, Ordinary, Buttons, ComboInv
  <2>4. OnTime'
    BY <1>6, QuietEvent DEF ScreenshotCombo, Powered, Ordinary, Buttons
  <2> QED
    BY <2>1, <2>2, <2>3, <2>4
<1>7. CASE ComboRemains
  <2>1. FreshInv'
    BY <1>7, <1>a DEF ComboRemains, Powered, Ordinary, Rearmed, FreshInv
  <2>2. WakeInv'
    BY <1>7, <1>a DEF ComboRemains, Powered, Ordinary, Rearmed, WakeInv
  <2>3. ComboInv'
    BY <1>7, <1>a DEF ComboRemains, Powered, Ordinary, Rearmed, ComboInv
  <2>4. OnTime'
    BY <1>7, QuietEvent DEF ComboRemains, Powered, Ordinary, Rearmed
  <2> QED
    BY <2>1, <2>2, <2>3, <2>4
<1>8. CASE AutoSleep
  <2>1. FreshInv'
    BY <1>8, <1>a DEF AutoSleep, Uncombined, NoCombo, Powered, Ordinary, Sleep, FreshInv
  <2>2. WakeInv'
    BY <1>8, <1>a DEF AutoSleep, Uncombined, NoCombo, Powered, Ordinary, Sleep, WakeInv
  <2>3. ComboInv'
    BY <1>8, <1>a DEF AutoSleep, Uncombined, NoCombo, Powered, Ordinary, Sleep, ComboInv
  <2>4. OnTime'
    BY <1>8, QuietEvent DEF AutoSleep, Uncombined, NoCombo, Powered, Ordinary, Sleep
  <2> QED
    BY <2>1, <2>2, <2>3, <2>4
<1>9. CASE HoldSleep
  <2>1. FreshInv'
    BY <1>9, <1>a DEF HoldSleep, Awake, SleepHold, Uncombined, NoCombo, Powered, Ordinary, Sleep, FreshInv
  <2>2. WakeInv'
    BY <1>9, <1>a DEF HoldSleep, Awake, SleepHold, Uncombined, NoCombo, Powered, Ordinary, Sleep, WakeInv
  <2>3. ComboInv'
    BY <1>9, <1>a DEF HoldSleep, Awake, SleepHold, Uncombined, NoCombo, Powered, Ordinary, Sleep, ComboInv
  <2>4. OnTime'
    BY <1>9, <1>a DEF HoldSleep, Awake, SleepHold, Uncombined, NoCombo, Powered, Ordinary, Sleep,
       FreshInv, WakeInv, ComboInv, OnTime, OnlyFreshHoldsSleep, OtherReleasesAreQuiet
  <2> QED
    BY <2>1, <2>2, <2>3, <2>4
<1>10. CASE RunActivity
  <2>1. FreshInv'
    BY <1>10, <1>a DEF RunActivity, Awake, Uncombined, NoCombo, Powered, Ordinary, FreshInv
  <2>2. WakeInv'
    BY <1>10, <1>a DEF RunActivity, Awake, Uncombined, NoCombo, Powered, Ordinary, WakeInv
  <2>3. ComboInv'
    BY <1>10, <1>a DEF RunActivity, Awake, Uncombined, NoCombo, Powered, Ordinary, ComboInv
  <2>4. OnTime'
    BY <1>10, <1>a DEF RunActivity, Awake, Uncombined, NoCombo, Powered, Ordinary,
       FreshInv, WakeInv, ComboInv, OnTime, OnlyFreshHoldsSleep, OtherReleasesAreQuiet
  <2> QED
    BY <2>1, <2>2, <2>3, <2>4
<1> QED
  BY <1>1, <1>2, <1>3, <1>4, <1>5, <1>6, <1>7, <1>8, <1>9, <1>10

LEMMA NextKeepsTheHold ==
  ASSUME HoldInv, OnTime, [Next]_vars
  PROVE  HoldInv' /\ OnTime'
<1> USE DEF HoldInv, FreshInv, WakeInv, ComboInv, Holding, OnTime,
            OnlyFreshHoldsSleep, OtherReleasesAreQuiet
<1>1. CASE Iteration
  BY <1>1, ExitsKeepTheHold DEF Iteration
<1>2. CASE UNCHANGED <<held, hold, shot, event, setUp, lockoutVars, comboVars, wakeVars>>
  BY <1>2 DEF lockoutVars, comboVars, wakeVars
<1>3. CASE ButtonsChange
  BY <1>3, <1>2 DEF ButtonsChange, inputVars, comboVars
<1>4. CASE HoldGrowsLong
  BY <1>4, <1>2 DEF HoldGrowsLong, comboVars
<1>5. CASE SleepAllowed
  BY <1>5, <1>2 DEF SleepAllowed, inputVars, comboVars
<1>6. CASE TimesOut
  BY <1>6, <1>2 DEF TimesOut, inputVars, comboVars
<1>7. CASE PowerChanges
  BY <1>7, <1>2 DEF PowerChanges, inputVars, comboVars
<1>8. CASE Reset
  BY <1>8 DEF Reset
<1>9. CASE UNCHANGED vars
  BY <1>9, <1>2 DEF vars, inputVars, comboVars
<1> QED
  BY <1>1, <1>3, <1>4, <1>5, <1>6, <1>7, <1>8, <1>9 DEF Next

LEMMA HoldsAreKnown == Spec => [](HoldInv /\ OnTime)
<1>1. Init => HoldInv /\ OnTime
  BY DEF Init, HoldInv, FreshInv, WakeInv, ComboInv, OnTime,
         OnlyFreshHoldsSleep, OtherReleasesAreQuiet
<1> QED
  BY <1>1, NextKeepsTheHold, PTL DEF Spec

(***************************************************************************)
(* Only a hold that began after the boot and took no screenshot puts the   *)
(* device to sleep, in the lockout (the block of lowBatteryWarningActive)  *)
(* and out of it (the sleep hold at the end of loop()).                    *)
(***************************************************************************)
THEOREM SleepTakesAFreshHold == Spec => []OnlyFreshHoldsSleep
BY HoldsAreKnown, PTL DEF OnTime

(***************************************************************************)
(* The release of a hold that took a screenshot never forces a refresh,    *)
(* and that of the hold that woke the device does so only after a boot     *)
(* that setup() left early.                                                *)
(***************************************************************************)
THEOREM OnlyShortPressesRefresh == Spec => []OtherReleasesAreQuiet
BY HoldsAreKnown, PTL DEF OnTime

(***************************************************************************)
(* One hold takes at most one screenshot (screenshotButtonsReleased).      *)
(***************************************************************************)
LEMMA ShotsAreRearmed ==
  ASSUME HoldInv, Iteration, event' = "screenshot"
  PROVE  ~shot \/ NewHold
<1>1. ScreenshotCombo
  BY DEF Iteration, Did, Sleep, ExclusiveIteration, ConsumeWakeRelease,
         LockoutEnds, LockoutIteration, LockoutBegins, ComboRemains,
         AutoSleep, HoldSleep, RunActivity
<1>2. screenshotButtonsReleased /\ "POWER" \in held'
  BY <1>1 DEF ScreenshotCombo, Did, Buttons
<1> QED
  BY <1>2 DEF HoldInv, ComboInv, Holding, NewHold

THEOREM OneShotInAHold == Spec => OneShotPerHold
<1>1. HoldInv /\ OnTime /\ [Next]_vars
         => [Iteration /\ event' = "screenshot" => ~shot \/ NewHold]_vars
  BY ShotsAreRearmed
<1> QED
  BY <1>1, HoldsAreKnown, PTL DEF Spec, OneShotPerHold
=============================================================================
