----------------------------- MODULE LowBattery -----------------------------
(***************************************************************************)
(* Battery sampling and the low-battery lockout of HalPowerManager         *)
(* (lib/hal/HalPowerManager.cpp).  getBatteryPercentage() is called by the *)
(* render task, for the battery icon, and by the main task, from           *)
(* isLowBatteryLockoutActive(); they share its fields without a mutex.     *)
(*                                                                         *)
(* The sample sequence number is only ever compared with the last one      *)
(* processed: newSample says that they differ.  Of the clock the code only *)
(* asks whether BATTERY_POLL_MS passed since the last poll (pollDue) and   *)
(* since the last confirmation (confirmDue).                               *)
(***************************************************************************)
EXTENDS Naturals

CONSTANTS
    Percents,        \* the percentages the sensor may read
    HasGauge,        \* a fuel gauge, else the ADC, whose readings are smoothed
    ConfirmReadings  \* LOW_BATTERY_CONFIRM_READINGS

ASSUME PercentsAssumption == Percents \subseteq 0..100 /\ 0 \in Percents
ASSUME HasGaugeAssumption == HasGauge \in BOOLEAN
ASSUME ConfirmReadingsAssumption == ConfirmReadings \in Nat \ {0}

VARIABLES
    battery, usb, sensorWorks, \* the world: charge, USB power, the sensor
    pollDue, confirmDue,
    newSample, hasSample, readingValid,
    cached,                    \* the percentage, in tenths without a gauge
    zeroReadings, lockout, awaitingFresh,
    pc, reading,               \* of each task
    zeros                      \* history: zero samples since USB, up to one

Tasks == {"main", "render"}

worldVars == <<battery, usb, sensorWorks>>
sampleVars == <<pollDue, newSample, hasSample, readingValid, cached, reading>>
lockoutVars == <<confirmDue, zeroReadings, lockout, awaitingFresh>>
vars == <<worldVars, sampleVars, lockoutVars, zeros, pc>>

Init ==
    /\ battery \in Percents /\ usb \in BOOLEAN /\ sensorWorks \in BOOLEAN
    /\ pollDue = FALSE /\ confirmDue = FALSE
    /\ newSample = FALSE /\ hasSample = FALSE /\ readingValid = FALSE
    /\ cached = 0
    /\ zeroReadings = 0 /\ lockout = FALSE /\ awaitingFresh = FALSE
    /\ pc = [t \in Tasks |-> "idle"] /\ reading = [t \in Tasks |-> 0]
    /\ zeros = 0

Goes(t, from, to) == pc[t] = from /\ pc' = [pc EXCEPT ![t] = to]

\* What getBatteryPercentage() and the lockout take the percentage to be.
Shown(value) == IF HasGauge THEN value ELSE value \div 10

-----------------------------------------------------------------------------
(* getBatteryPercentage(), in either task. *)

\* "Reuse the latest sample during the polling interval."
PollDue == ~hasSample \/ pollDue

RenderPolls ==
    /\ PollDue /\ Goes("render", "idle", "mark")
    /\ UNCHANGED <<worldVars, sampleVars, lockoutVars, zeros>>

\* The call the main task makes from within the lockout.
MainPolls ==
    /\ Goes("main", "check", IF PollDue THEN "mark" ELSE "idle")
    /\ UNCHANGED <<worldVars, sampleVars, lockoutVars, zeros>>

\* The sequence number moves on before the sensor is read.
Mark(t) ==
    /\ Goes(t, "mark", "read")
    /\ pollDue' = FALSE /\ hasSample' = TRUE /\ newSample' = TRUE
    /\ UNCHANGED <<worldVars, readingValid, cached, reading, lockoutVars,
                   zeros>>

Read(t) ==
    /\ sensorWorks /\ Goes(t, "read", "first")
    /\ reading' = [reading EXCEPT ![t] = battery]
    /\ UNCHANGED <<worldVars, pollDue, newSample, hasSample, readingValid,
                   cached, lockoutVars, zeros>>

\* A failed reading leaves the cached percentage and is not counted.
FailureCounts == UNCHANGED readingValid \* mutant: taken for a valid reading
FailureIsInvalid == readingValid' = FALSE

ReadFails(t) ==
    /\ ~sensorWorks /\ Goes(t, "read", "idle")
    /\ FailureIsInvalid
    /\ UNCHANGED <<worldVars, pollDue, newSample, hasSample, cached, reading,
                   lockoutVars, zeros>>

Smoothed(old, percent) ==
    IF old = 0 THEN 10 * percent ELSE (old * 9 + percent * 10) \div 10

SetCached(t) ==
    /\ cached' = IF HasGauge THEN reading[t] ELSE Smoothed(cached, reading[t])
    /\ zeros' = IF Shown(cached') = 0 THEN 1 ELSE zeros
    /\ UNCHANGED readingValid

SetValid == readingValid' = TRUE /\ UNCHANGED <<cached, zeros>>

\* With a gauge the value is stored first, with the ADC the validity.
Store(t, from, to, value) ==
    /\ Goes(t, from, to)
    /\ IF value THEN SetCached(t) ELSE SetValid
    /\ UNCHANGED <<worldVars, pollDue, newSample, hasSample, reading,
                   lockoutVars>>
First(t) == Store(t, "first", "second", HasGauge)
Second(t) == Store(t, "second", "idle", ~HasGauge)

-----------------------------------------------------------------------------
(* isLowBatteryLockoutActive(), in the main task. *)

\* "USB is the only way to clear a confirmed lockout."
LockoutOnUsb ==
    /\ pc["main"] = "idle" /\ usb
    /\ zeroReadings' = 0 /\ confirmDue' = TRUE
    /\ lockout' = FALSE /\ awaitingFresh' = TRUE
    /\ newSample' = FALSE
    /\ zeros' = 0
    /\ UNCHANGED <<worldVars, pollDue, hasSample, readingValid, cached, reading,
                   pc>>

OnBattery == pc["main"] = "idle" /\ ~usb /\ ~lockout

\* "After USB is unplugged, require a new physical reading."
LockoutAwaits ==
    /\ OnBattery /\ awaitingFresh /\ ~newSample
    /\ PollDue
    /\ Goes("main", "idle", "check")
    /\ UNCHANGED <<worldVars, sampleVars, lockoutVars, zeros>>

\* A sample not yet processed: fresh after USB, or one more.
LockoutTakesSample ==
    /\ OnBattery /\ newSample /\ newSample' = FALSE
    /\ Goes("main", "idle", IF awaitingFresh THEN "fresh" ELSE "count")
    /\ UNCHANGED <<worldVars, pollDue, hasSample, readingValid, cached, reading,
                   lockoutVars, zeros>>

LockoutFresh ==
    /\ Goes("main", "fresh", "idle")
    /\ IF ~readingValid
       THEN UNCHANGED lockoutVars
       ELSE /\ awaitingFresh' = FALSE
            /\ zeroReadings' = IF Shown(cached) = 0 THEN 1 ELSE 0
            /\ confirmDue' = (Shown(cached) # 0)
            /\ UNCHANGED lockout
    /\ UNCHANGED <<worldVars, sampleVars, zeros>>

\* "Invalid readings neither count nor reset the sequence."
LockoutCounts ==
    /\ Goes("main", "count", "decide")
    /\ IF ~readingValid
       THEN UNCHANGED <<confirmDue, zeroReadings>>
       ELSE /\ zeroReadings' = IF Shown(cached) > 0 THEN 0
                               ELSE IF zeroReadings < ConfirmReadings
                               THEN zeroReadings + 1 ELSE zeroReadings
            /\ confirmDue' = (Shown(cached) # 0)
    /\ UNCHANGED <<worldVars, sampleVars, lockout, awaitingFresh, zeros>>

LockoutNoSample ==
    /\ OnBattery /\ ~awaitingFresh /\ ~newSample
    /\ Goes("main", "idle", "decide")
    /\ UNCHANGED <<worldVars, sampleVars, lockoutVars, zeros>>

Confirming == zeroReadings > 0 /\ zeroReadings < ConfirmReadings

\* "Only request additional samples while confirming a zero-percent reading."
NeverAsks == "idle" \* mutant: the main task asks for no samples
AfterDecision == IF Confirming /\ confirmDue THEN "check" ELSE "idle"

LockoutDecides ==
    /\ Goes("main", "decide", AfterDecision)
    /\ lockout' = (zeroReadings >= ConfirmReadings)
    /\ UNCHANGED <<worldVars, sampleVars, confirmDue, zeroReadings,
                   awaitingFresh, zeros>>

-----------------------------------------------------------------------------
(* The world. *)

TickPoll ==
    /\ ~pollDue /\ pollDue' = TRUE
    /\ UNCHANGED <<worldVars, newSample, hasSample, readingValid, cached,
                   reading, lockoutVars, zeros, pc>>
TickConfirm ==
    /\ ~confirmDue /\ confirmDue' = TRUE
    /\ UNCHANGED <<worldVars, sampleVars, zeroReadings, lockout, awaitingFresh,
                   zeros, pc>>
World ==
    /\ \/ usb' = ~usb /\ UNCHANGED <<battery, sensorWorks>>
       \/ battery' \in Percents \ {battery} /\ UNCHANGED <<usb, sensorWorks>>
       \/ sensorWorks' = ~sensorWorks /\ UNCHANGED <<battery, usb>>
    /\ UNCHANGED <<sampleVars, lockoutVars, zeros, pc>>

Sampling(t) == \/ Mark(t) \/ Read(t) \/ ReadFails(t)
               \/ First(t) \/ Second(t)

Lockout == \/ MainPolls \/ LockoutOnUsb \/ LockoutAwaits \/ LockoutTakesSample
           \/ LockoutFresh \/ LockoutCounts \/ LockoutNoSample
           \/ LockoutDecides

Next == \/ RenderPolls \/ Lockout \/ TickPoll \/ TickConfirm \/ World
        \/ \E t \in Tasks : Sampling(t)

Spec == Init /\ [][Next]_vars

(***************************************************************************)
(* Fairness: loop() calls isLowBatteryLockoutActive() over and over, a call  *)
(* that has begun returns, and time passes.  That any screen shows the      *)
(* battery icon is not assumed.                                             *)
(***************************************************************************)
Fairness ==
    /\ WF_vars(Lockout)
    /\ WF_vars(TickPoll) /\ WF_vars(TickConfirm)
    /\ \A t \in Tasks : WF_vars(Sampling(t))

FairSpec == Spec /\ Fairness

-----------------------------------------------------------------------------
(* Properties. *)

TypeOK ==
    /\ battery \in Percents /\ usb \in BOOLEAN /\ sensorWorks \in BOOLEAN
    /\ pollDue \in BOOLEAN /\ confirmDue \in BOOLEAN
    /\ newSample \in BOOLEAN /\ hasSample \in BOOLEAN
    /\ readingValid \in BOOLEAN
    /\ cached \in 0..1000
    /\ zeroReadings \in 0..ConfirmReadings
    /\ lockout \in BOOLEAN /\ awaitingFresh \in BOOLEAN
    /\ pc["main"] \in {"idle", "check", "mark", "read", "first", "second",
                       "fresh", "count", "decide"}
    /\ pc["render"] \in {"idle", "mark", "read", "first", "second"}
    /\ reading \in [Tasks -> Percents]
    /\ zeros \in 0..1

\* The lockout, which stops the user from reading on, never comes from
\* failed or half-stored readings alone: since USB was unplugged the stored
\* percentage was zero at least once.  The sequence number, the validity and
\* the percentage are written apart by either task, so each of them can be
\* read with the others of another sample.
LockoutNeedsZeroSample == lockout => zeros > 0

\* Once a zero has been counted, a battery that stays empty ends in the
\* lockout for good whatever is on the screen: the main task takes the
\* confirming samples itself.
EmptyBatteryLocks ==
    <>[](battery = 0 /\ ~usb /\ sensorWorks /\ zeroReadings > 0)
        => <>[]lockout
=============================================================================
