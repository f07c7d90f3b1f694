----------------------------- MODULE DeviceLoop -----------------------------
(***************************************************************************)
(* loop() of src/main.cpp: what one iteration of the main task makes of    *)
(* the buttons, the clock and the battery before (or instead of) running   *)
(* the current activity.  An iteration is one step: loop() is sequential   *)
(* and samples the buttons once, at its start.                             *)
(*                                                                         *)
(* Of the activities only three facts matter here: which of them is shown, *)
(* whether it keeps the device awake, and whether it has handed the SD     *)
(* card to a USB host.  Clocks are reduced to the comparisons loop() makes.*)
(***************************************************************************)
EXTENDS Naturals

VARIABLES
    asleep,
    down, held,               \* the buttons down: now, at the last update
    longHold,                 \* getPowerButtonHeldTime() >= the sleep hold
    sleepAllowed,             \* millis() >= allowSleepAt
    idle,                     \* the sleep timeout has passed
    usb, batteryLocked,       \* gpio.isUsbConnected(), the confirmed lockout
    screen, pending,          \* activityManager: shown, requested
    keepAwake, exclusive,     \* preventAutoSleep(), requiresExclusive...
    setUp,                    \* setup() ran to its end
    wakePowerReleasePending,
    lowBatteryWarningActive, warningActivityProcessed,
    powerReleasedSinceLowBatteryWake,
    screenshotButtonsReleased, screenshotComboActive,
    powerReleasedSinceWake,
    hold,                     \* history: what the last POWER hold has been
    shot,                     \* history: a screenshot was taken in it
    event                     \* history: what the last iteration did

inputVars == <<held, longHold, hold>>
clockVars == <<sleepAllowed, idle>>
powerVars == <<usb, batteryLocked>>
activityVars == <<screen, pending, keepAwake, exclusive>>
lockoutVars == <<lowBatteryWarningActive, warningActivityProcessed,
                 powerReleasedSinceLowBatteryWake>>
comboVars == <<screenshotButtonsReleased, screenshotComboActive, shot>>
wakeVars == <<wakePowerReleasePending, powerReleasedSinceWake>>
vars == <<asleep, down, inputVars, clockVars, powerVars, activityVars, lockoutVars,
          comboVars, wakeVars, setUp, event>>

Buttons == {"POWER", "DOWN"}

\* The state loop() starts in after setup(): hold says whether the POWER
\* button woke the device or another reset did.  A card that cannot be mounted
\* or a fresh firmware that cannot be confirmed makes setup() return early, and
\* loop() runs all the same: the wake is not noted, the sleep hold is not put
\* off, and the screen is a message without a loop() (or none at all).
Init ==
    /\ usb \in BOOLEAN
    /\ hold \in {"wake", "reset"} /\ held \in SUBSET Buttons
    /\ down = held
    /\ asleep = FALSE /\ longHold = FALSE
    /\ setUp \in BOOLEAN
    /\ sleepAllowed = ~setUp /\ idle = FALSE /\ batteryLocked = FALSE
    /\ screen = (IF setUp THEN "home" ELSE "message") /\ pending = "none"
    /\ keepAwake = FALSE /\ exclusive = FALSE
    /\ wakePowerReleasePending = (setUp /\ hold = "wake")
    /\ powerReleasedSinceWake = FALSE
    /\ lowBatteryWarningActive = FALSE /\ warningActivityProcessed = FALSE
    /\ powerReleasedSinceLowBatteryWake = FALSE
    /\ screenshotButtonsReleased = TRUE /\ screenshotComboActive = FALSE
    /\ shot = FALSE /\ event = "none"

-----------------------------------------------------------------------------
(* mappedInputManager.update() and what the iteration reads from it. *)

Power == "POWER" \in held'
PowerReleased == "POWER" \in held \ held'
Edges == held # held'

NewHold == "POWER" \in held' \ held

\* A POWER hold is fresh when it began in the loop.
Sample ==
    /\ held' = down /\ UNCHANGED down
    /\ longHold' = (longHold /\ "POWER" \in held \cap held')
    /\ hold' = IF NewHold THEN "fresh" ELSE hold

NoShot == shot' = (shot /\ ~NewHold)

\* The inactivity timer restarts on every edge and while an activity works.
Activity == idle' = (idle /\ ~Edges /\ ~keepAwake)

Did(what) == event' = what

-----------------------------------------------------------------------------
(* activityManager.loop() with a request made just before it.  A release   *)
(* to be swallowed makes it return at once; else the current activity runs *)
(* and may overwrite the request with one of its own.  The loop() of the   *)
(* warning and of the message is empty.                                    *)

Swallowed(request) ==
    /\ held \ held' # {} /\ pending' = request
    /\ UNCHANGED <<screen, keepAwake, exclusive>>

Navigates(to) ==
    /\ pending' = "none"
    /\ screen' = to
    /\ exclusive' \in IF to = "activity" THEN BOOLEAN ELSE {FALSE}
    /\ keepAwake' \in IF to = "activity" THEN BOOLEAN ELSE {FALSE}

ManagerLoop(request) ==
    \/ Swallowed(request)
    \/ Navigates(IF request = "none" THEN screen ELSE request)
    \/ screen \notin {"warning", "message"} /\ \E to \in {"activity", "home"} : Navigates(to)

-----------------------------------------------------------------------------
(* The exits of one iteration, in the order loop() tests for them. *)

\* "Do not run screenshots, sleep, shortcuts, or normal navigation while its
\* filesystem is detached."
ExclusiveIteration ==
    /\ exclusive
    /\ keepAwake' \in BOOLEAN
    /\ NoShot
    /\ Did("input")
    /\ UNCHANGED <<clockVars, powerVars, screen, pending, exclusive,
                   lockoutVars, screenshotButtonsReleased,
                   screenshotComboActive, wakeVars, asleep>>

\* The release of the hold that woke the device is consumed.
ConsumeWakeRelease ==
    /\ ~exclusive /\ Activity
    /\ wakePowerReleasePending /\ ~Power
    /\ wakePowerReleasePending' = FALSE
    /\ NoShot
    /\ Did("none")
    /\ UNCHANGED <<sleepAllowed, powerVars, activityVars, lockoutVars,
                   screenshotButtonsReleased, screenshotComboActive,
                   powerReleasedSinceWake, asleep>>

Ordinary ==
    /\ ~exclusive /\ Activity /\ ~(wakePowerReleasePending /\ ~Power)
    /\ UNCHANGED <<sleepAllowed, wakePowerReleasePending, usb>>

\* enterDeepSleep(): the next thing to happen is a reset.
Sleep(how) == asleep' = TRUE /\ Did(how)

\* Only USB ends the lockout.  The activity manager runs once in it, for the
\* warning.
ManagerRunsOnce ==
    IF warningActivityProcessed THEN UNCHANGED activityVars
                                ELSE ManagerLoop(pending)

LockoutEnds ==
    /\ Ordinary /\ lowBatteryWarningActive /\ usb
    /\ batteryLocked' = FALSE
    /\ lowBatteryWarningActive' = FALSE /\ warningActivityProcessed' = FALSE
    /\ powerReleasedSinceLowBatteryWake' = FALSE
    /\ ManagerLoop("home")
    /\ NoShot
    /\ Did("none")
    /\ UNCHANGED <<screenshotButtonsReleased, screenshotComboActive,
                   powerReleasedSinceWake, asleep>>

AnyHoldInLockout == longHold' \* mutant: the hold may be older than the lockout
HoldInLockout == powerReleasedSinceLowBatteryWake' /\ longHold'

LockoutIteration ==
    /\ Ordinary /\ lowBatteryWarningActive /\ ~usb
    /\ ManagerRunsOnce
    /\ warningActivityProcessed' = TRUE
    /\ powerReleasedSinceLowBatteryWake' =
           (powerReleasedSinceLowBatteryWake \/ ~Power)
    /\ IF sleepAllowed /\ Power /\ HoldInLockout
       THEN Sleep("sleep")
       ELSE Did("none") /\ UNCHANGED asleep
    /\ NoShot
    /\ UNCHANGED <<batteryLocked, lowBatteryWarningActive,
                   screenshotButtonsReleased, screenshotComboActive,
                   powerReleasedSinceWake>>

\* "A zero battery reading interrupts the current activity."
LockoutBegins ==
    /\ Ordinary /\ ~lowBatteryWarningActive /\ batteryLocked /\ ~usb
    /\ lowBatteryWarningActive' = TRUE
    /\ ManagerLoop("warning")
    /\ NoShot
    /\ Did("input")
    /\ UNCHANGED <<batteryLocked, warningActivityProcessed,
                   powerReleasedSinceLowBatteryWake,
                   screenshotButtonsReleased, screenshotComboActive,
                   powerReleasedSinceWake, asleep>>

\* USB also clears a lockout that loop() has not seen yet.
Powered ==
    /\ Ordinary /\ ~lowBatteryWarningActive /\ (batteryLocked => usb)
    /\ batteryLocked' = FALSE
    /\ UNCHANGED lockoutVars

ScreenshotCombo ==
    /\ Powered /\ held' = Buttons
    /\ screenshotComboActive' = TRUE /\ screenshotButtonsReleased' = FALSE
    /\ Did(IF screenshotButtonsReleased THEN "screenshot" ELSE "none")
    /\ shot' = (screenshotButtonsReleased \/ (shot /\ ~NewHold))
    /\ UNCHANGED <<activityVars, powerReleasedSinceWake, asleep>>

\* What is left of the combination while POWER is down, and its release.
RearmedByDown == TRUE \* mutant: letting go of DOWN allows a new screenshot
Rearmed == ~Power

ComboRemains ==
    /\ Powered /\ held' # Buttons /\ screenshotComboActive
    /\ Power \/ PowerReleased
    /\ screenshotComboActive' = Power
    /\ screenshotButtonsReleased' = (screenshotButtonsReleased \/ Rearmed)
    /\ NoShot
    /\ Did("none")
    /\ UNCHANGED <<activityVars, powerReleasedSinceWake, asleep>>

\* Past the screenshot: no combination, or its release was seen elsewhere.
KeptCombo == ~screenshotComboActive \* mutant: only the release itself ends it
SeenCombo == ~(screenshotComboActive /\ Power) \* mutant: release not consumed
NoCombo == ~(screenshotComboActive /\ (Power \/ PowerReleased))

Uncombined ==
    /\ Powered /\ held' # Buttons /\ NoCombo
    /\ screenshotComboActive' = FALSE
    /\ screenshotButtonsReleased' =
           (screenshotButtonsReleased \/ screenshotComboActive)
    /\ NoShot

AutoSleep ==
    /\ Uncombined /\ idle'
    /\ Sleep("auto-sleep")
    /\ UNCHANGED <<activityVars, powerReleasedSinceWake>>

\* "A hold that woke the device must be released before it can count."
Awake ==
    /\ Uncombined /\ ~idle'
    /\ powerReleasedSinceWake' = (powerReleasedSinceWake \/ ~Power)

SleepHold == powerReleasedSinceWake' /\ longHold'

HoldSleep ==
    /\ Awake /\ sleepAllowed /\ Power /\ SleepHold
    /\ Sleep("sleep")
    /\ UNCHANGED activityVars

\* The rest of the iteration: a forced refresh on a POWER release, then the
\* activity.
RunActivity ==
    /\ Awake /\ ~(sleepAllowed /\ Power /\ SleepHold)
    /\ ManagerLoop(pending)
    /\ Did(IF PowerReleased THEN "refresh" ELSE "input")
    /\ UNCHANGED asleep

Iteration ==
    /\ ~asleep
    /\ Sample /\ UNCHANGED setUp
    /\ \/ ExclusiveIteration \/ ConsumeWakeRelease
       \/ LockoutEnds \/ LockoutIteration \/ LockoutBegins
       \/ ScreenshotCombo \/ ComboRemains
       \/ AutoSleep \/ HoldSleep \/ RunActivity

-----------------------------------------------------------------------------
(* Around loop(): time, power and resets. *)

ButtonsChange ==
    /\ down' \in SUBSET Buttons \ {down}
    /\ UNCHANGED <<asleep, inputVars, clockVars, powerVars, activityVars,
                   lockoutVars, comboVars, wakeVars, setUp, event>>

HoldGrowsLong ==
    /\ ~asleep /\ "POWER" \in held /\ ~longHold /\ longHold' = TRUE
    /\ UNCHANGED <<asleep, down, held, hold, clockVars, powerVars,
                   activityVars, lockoutVars, comboVars, wakeVars, setUp, event>>

SleepAllowed ==
    /\ ~asleep /\ ~sleepAllowed /\ sleepAllowed' = TRUE
    /\ UNCHANGED <<asleep, down, inputVars, idle, powerVars, activityVars,
                   lockoutVars, comboVars, wakeVars, setUp, event>>

TimesOut ==
    /\ ~asleep /\ ~idle /\ idle' = TRUE
    /\ UNCHANGED <<asleep, down, inputVars, sleepAllowed, powerVars,
                   activityVars, lockoutVars, comboVars, wakeVars, setUp, event>>

PowerChanges ==
    /\ \/ usb' = ~usb /\ UNCHANGED batteryLocked
       \/ ~asleep /\ ~usb /\ batteryLocked' = TRUE /\ UNCHANGED usb
    /\ UNCHANGED <<asleep, down, inputVars, clockVars, activityVars, lockoutVars,
                   comboVars, wakeVars, setUp, event>>

\* A wake by the button, a crash, or the restart that ends the USB handoff.
Reset ==
    /\ UNCHANGED usb
    /\ hold' \in {"wake", "reset"} /\ (hold' = "wake" => asleep)
    /\ UNCHANGED down /\ held' = down
    /\ asleep' = FALSE /\ longHold' = FALSE
    /\ setUp' \in BOOLEAN
    /\ sleepAllowed' = ~setUp' /\ idle' = FALSE /\ batteryLocked' = FALSE
    /\ screen' = (IF setUp' THEN "home" ELSE "message") /\ pending' = "none"
    /\ keepAwake' = FALSE /\ exclusive' = FALSE
    /\ wakePowerReleasePending' = (setUp' /\ hold' = "wake")
    /\ powerReleasedSinceWake' = FALSE
    /\ lowBatteryWarningActive' = FALSE /\ warningActivityProcessed' = FALSE
    /\ powerReleasedSinceLowBatteryWake' = FALSE
    /\ screenshotButtonsReleased' = TRUE /\ screenshotComboActive' = FALSE
    /\ shot' = FALSE /\ event' = "none"

Next == Iteration \/ ButtonsChange \/ HoldGrowsLong \/ SleepAllowed \/ TimesOut
        \/ PowerChanges \/ Reset

Spec == Init /\ [][Next]_vars

\* loop() is called for ever and time passes.
FairSpec == /\ Spec
            /\ WF_vars(Iteration) /\ WF_vars(HoldGrowsLong)
            /\ WF_vars(SleepAllowed) /\ WF_vars(TimesOut)

-----------------------------------------------------------------------------
(* Properties. *)

TypeOK ==
    /\ asleep \in BOOLEAN /\ longHold \in BOOLEAN
    /\ down \in SUBSET Buttons /\ held \in SUBSET Buttons
    /\ sleepAllowed \in BOOLEAN /\ idle \in BOOLEAN
    /\ usb \in BOOLEAN /\ batteryLocked \in BOOLEAN
    /\ screen \in {"home", "activity", "warning", "message"}
    /\ pending \in {"none", "home", "warning"}
    /\ keepAwake \in BOOLEAN /\ exclusive \in BOOLEAN
    /\ setUp \in BOOLEAN /\ wakePowerReleasePending \in BOOLEAN
    /\ lowBatteryWarningActive \in BOOLEAN
    /\ warningActivityProcessed \in BOOLEAN
    /\ powerReleasedSinceLowBatteryWake \in BOOLEAN
    /\ screenshotButtonsReleased \in BOOLEAN
    /\ screenshotComboActive \in BOOLEAN
    /\ powerReleasedSinceWake \in BOOLEAN
    /\ hold \in {"wake", "reset", "fresh"} /\ shot \in BOOLEAN
    /\ event \in {"none", "input", "screenshot", "refresh", "sleep",
                  "auto-sleep"}

\* Holding POWER puts the device to sleep only when the hold began after the
\* boot and took no screenshot, in or out of the lockout, however the lockout
\* begins and ends around the hold.
OnlyFreshHoldsSleep == event = "sleep" => hold = "fresh" /\ ~shot

\* The release that ends a hold that took a screenshot, or the hold that woke
\* the device, is never taken for the short press that forces a refresh; a boot
\* that setup() left early is the exception for the wake hold, whatever the
\* boots before it did.
OtherReleasesAreQuiet ==
    event = "refresh" => ~shot /\ (hold = "wake" => ~setUp)

\* One POWER hold takes at most one screenshot, however often DOWN is pressed
\* within it and whether or not the lockout begins and ends meanwhile.
OneShotPerHold ==
    [][Iteration /\ event' = "screenshot" => ~shot \/ NewHold]_vars

\* A device nobody touches or plugs goes to sleep, outside the lockout, which
\* has no timeout, and the USB handoff: nothing that a screenshot or a lockout
\* left behind keeps it awake.
LeftAloneItSleeps ==
    (/\ <>[](/\ down = {} /\ ~keepAwake /\ ~exclusive
             /\ ~batteryLocked /\ ~lowBatteryWarningActive)
     /\ <>[][~Reset /\ usb' = usb]_vars) => <>asleep
=============================================================================
