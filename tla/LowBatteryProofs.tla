-------------------------- MODULE LowBatteryProofs --------------------------
(***************************************************************************)
(* The low-battery lockout for any percentages, with a fuel gauge and with *)
(* the ADC, and any LOW_BATTERY_CONFIRM_READINGS of four and more.         *)
(*                                                                         *)
(* The sequence number, the validity and the percentage are written apart, *)
(* so zeros can be counted that no sensor reported: the percentage left by *)
(* an earlier discharge, next to another sample's number and validity.     *)
(* The argument bounds how many: until a percentage has been stored since  *)
(* USB, at most three of them.                                             *)
(***************************************************************************)
EXTENDS LowBattery, TLAPS

Polling == {"mark", "read", "first", "second"}
MainSteps == {"idle", "check", "fresh", "count", "decide"} \cup Polling
RenderSteps == {"idle"} \cup Polling

Main == pc["main"]
Render == pc["render"]

\* Nothing was stored since USB, and what was stored before reads as zero.
Stale == zeros = 0 /\ Shown(cached) = 0

One(b) == IF b THEN 1 ELSE 0
AtLeastOne(n) == IF n = 0 THEN 1 ELSE n

\* Samples the main task has still to process.
Waiting(m, new) == One(new) + One(m \in {"fresh", "count"})

\* How many more stale zeros can be counted.  With the ADC the render task can
\* make the reading valid once, just before it stores the percentage; a poll of
\* the main task itself ends with a percentage or an invalid reading.
AdcChances(m, r, valid, new) ==
    IF m \in Polling
    THEN IF r = "second" THEN 0 ELSE IF r = "first" THEN 1 ELSE 2
    ELSE IF valid
    THEN Waiting(m, new) + (IF r = "second" THEN 0 ELSE IF r = "first" THEN 1
                            ELSE IF r = "read" THEN 2 ELSE 3)
    ELSE IF r = "second" THEN 0
         ELSE IF r = "first" THEN AtLeastOne(Waiting(m, new)) ELSE 2

\* With a gauge the percentage is stored first: only a sample begun before USB
\* was unplugged can make an old one valid.
GaugeChances(m, r, valid, new) ==
    IF m \in Polling
    THEN IF r = "second" THEN 2 ELSE 0
    ELSE IF valid
    THEN Waiting(m, new) + (IF r = "second" THEN 2
                            ELSE IF r \in {"read", "first"} THEN 0 ELSE 1)
    ELSE IF r = "second" THEN AtLeastOne(Waiting(m, new)) + 1 ELSE 0

Chances(m, r, valid, new) == IF HasGauge THEN GaugeChances(m, r, valid, new)
                                         ELSE AdcChances(m, r, valid, new)

TypeInv ==
    /\ TypeOK
    /\ HasGauge => cached \in 0..100
    /\ pc \in [Tasks -> MainSteps] /\ Render \in RenderSteps

CountInv ==
    /\ zeros = 0 => zeroReadings <= 3
    /\ Stale => zeroReadings + Chances(Main, Render, readingValid, newSample) <= 3
    /\ Stale /\ HasGauge => Main # "second"

LockoutInv == ConfirmReadings >= 4 => LockoutNeedsZeroSample

IInv == TypeInv /\ CountInv /\ LockoutInv

-----------------------------------------------------------------------------
(* How the chances change: m is the main task's step, v the validity and n   *)
(* whether there is a new sample.                                            *)

LEMMA ChancesAreNatural ==
  ASSUME NEW m \in MainSteps, NEW r \in RenderSteps, NEW v \in BOOLEAN,
         NEW n \in BOOLEAN
  PROVE  Chances(m, r, v, n) \in Nat
BY DEF Chances, AdcChances, GaugeChances, Waiting, One, AtLeastOne

\* After USB was plugged in no sample waits.
LEMMA ChancesAfterUsb ==
  ASSUME NEW r \in RenderSteps, NEW v \in BOOLEAN
  PROVE  Chances("idle", r, v, FALSE) <= 3
BY DEF Chances, AdcChances, GaugeChances, Waiting, One, AtLeastOne, Polling

LEMMA RenderMoves ==
  ASSUME NEW m \in MainSteps, NEW v \in BOOLEAN, NEW n \in BOOLEAN
  PROVE  /\ Chances(m, "mark", v, n) <= Chances(m, "idle", v, n)
         /\ Chances(m, "read", v, TRUE) <= Chances(m, "mark", v, n)
         /\ Chances(m, "first", v, n) <= Chances(m, "read", v, n)
         /\ Chances(m, "idle", FALSE, n) <= Chances(m, "read", v, n)
         /\ ~HasGauge =>
                Chances(m, "second", TRUE, n) <= Chances(m, "first", v, n)
         /\ HasGauge =>
                Chances(m, "idle", TRUE, n) <= Chances(m, "second", v, n)
<1> USE DEF Chances, AdcChances, GaugeChances, Waiting, One, AtLeastOne, Polling
<1>1. Chances(m, "mark", v, n) <= Chances(m, "idle", v, n)
  OBVIOUS
<1>2. Chances(m, "read", v, TRUE) <= Chances(m, "mark", v, n)
  OBVIOUS
<1>3. Chances(m, "first", v, n) <= Chances(m, "read", v, n)
  OBVIOUS
<1>4. Chances(m, "idle", FALSE, n) <= Chances(m, "read", v, n)
  OBVIOUS
<1>5. ~HasGauge => Chances(m, "second", TRUE, n) <= Chances(m, "first", v, n)
  OBVIOUS
<1>6. HasGauge => Chances(m, "idle", TRUE, n) <= Chances(m, "second", v, n)
  OBVIOUS
<1> QED
  BY <1>1, <1>2, <1>3, <1>4, <1>5, <1>6

LEMMA MainGoesOn ==
  ASSUME NEW m \in {"idle", "check", "decide"}, NEW k \in {"idle", "check", "decide"},
         NEW r \in RenderSteps, NEW v \in BOOLEAN, NEW n \in BOOLEAN
  PROVE  Chances(k, r, v, n) <= Chances(m, r, v, n)
BY DEF Chances, AdcChances, GaugeChances, Waiting, One, AtLeastOne, Polling

\* A valid sample that is counted is a chance used up.
LEMMA MainCounts ==
  ASSUME NEW m \in {"fresh", "count"}, NEW k \in {"idle", "decide"},
         NEW r \in RenderSteps, NEW n \in BOOLEAN
  PROVE  Chances(k, r, TRUE, n) + 1 <= Chances(m, r, TRUE, n)
BY DEF Chances, AdcChances, GaugeChances, Waiting, One, AtLeastOne, Polling

LEMMA MainMoves ==
  ASSUME NEW r \in RenderSteps, NEW v \in BOOLEAN, NEW n \in BOOLEAN
  PROVE  /\ \A m \in {"idle", "check", "decide"} :
                Chances("mark", r, v, n) <= Chances(m, r, v, n)
         /\ \A m \in Polling, k \in Polling, w \in BOOLEAN, o \in BOOLEAN :
                Chances(k, r, w, o) <= Chances(m, r, v, n)
         /\ Chances("idle", r, FALSE, n) <= Chances("read", r, v, n)
         /\ \A m \in {"fresh", "count"} :
                Chances(m, r, v, FALSE) <= Chances("idle", r, v, TRUE)
         /\ \A m \in {"fresh", "count"}, k \in {"idle", "decide"} :
                Chances(k, r, v, n) <= Chances(m, r, v, n)
<1> USE DEF Chances, AdcChances, GaugeChances, Waiting, One, AtLeastOne, Polling
<1>1. \A m \in {"idle", "check", "decide"} :
          Chances("mark", r, v, n) <= Chances(m, r, v, n)
  OBVIOUS
<1>2. \A m \in Polling, k \in Polling, w \in BOOLEAN, o \in BOOLEAN :
          Chances(k, r, w, o) <= Chances(m, r, v, n)
  OBVIOUS
<1>3. Chances("idle", r, FALSE, n) <= Chances("read", r, v, n)
  OBVIOUS
<1>4. \A m \in {"fresh", "count"} :
          Chances(m, r, v, FALSE) <= Chances("idle", r, v, TRUE)
  OBVIOUS
<1>5. \A m \in {"fresh", "count"}, k \in {"idle", "decide"} :
          Chances(k, r, v, n) <= Chances(m, r, v, n)
  OBVIOUS
<1> QED
  BY <1>1, <1>2, <1>3, <1>4, <1>5

-----------------------------------------------------------------------------
(* Types. *)

LEMMA Types ==
  ASSUME IInv
  PROVE  /\ battery \in Percents /\ usb \in BOOLEAN /\ sensorWorks \in BOOLEAN
         /\ pollDue \in BOOLEAN /\ confirmDue \in BOOLEAN /\ newSample \in BOOLEAN
         /\ hasSample \in BOOLEAN /\ readingValid \in BOOLEAN
         /\ cached \in 0..1000 /\ (HasGauge => cached \in 0..100)
         /\ zeroReadings \in 0..ConfirmReadings
         /\ lockout \in BOOLEAN /\ awaitingFresh \in BOOLEAN
         /\ pc \in [Tasks -> MainSteps] /\ Main \in MainSteps
         /\ Render \in RenderSteps /\ reading \in [Tasks -> Percents]
         /\ zeros \in 0..1
BY DEF IInv, TypeInv, TypeOK, Main, Tasks

LEMMA TypesSuffice ==
  ASSUME battery' \in Percents, usb' \in BOOLEAN, sensorWorks' \in BOOLEAN,
         pollDue' \in BOOLEAN, confirmDue' \in BOOLEAN, newSample' \in BOOLEAN,
         hasSample' \in BOOLEAN, readingValid' \in BOOLEAN,
         cached' \in 0..1000, HasGauge => cached' \in 0..100,
         zeroReadings' \in 0..ConfirmReadings,
         lockout' \in BOOLEAN, awaitingFresh' \in BOOLEAN,
         pc' \in [Tasks -> MainSteps], Render' \in RenderSteps,
         reading' \in [Tasks -> Percents], zeros' \in 0..1
  PROVE  TypeInv'
<1>1. Main' \in MainSteps
  BY DEF Main, Tasks
<1> QED
  BY <1>1 DEF TypeInv, TypeOK, Main, Render, MainSteps, RenderSteps, Polling

LEMMA MainGoes ==
  ASSUME IInv, NEW from, NEW to \in MainSteps, Goes("main", from, to)
  PROVE  /\ Main = from /\ Main' = to /\ Render' = Render
         /\ pc' \in [Tasks -> MainSteps] /\ Render' \in RenderSteps
<1>1. /\ Main = from /\ Main' = to /\ Render' = Render
      /\ pc' \in [Tasks -> MainSteps]
  BY Types DEF Goes, Main, Render, Tasks
<1> QED
  BY <1>1, Types

LEMMA RenderGoes ==
  ASSUME IInv, NEW from, NEW to \in RenderSteps, Goes("render", from, to)
  PROVE  /\ Render = from /\ Render' = to /\ Main' = Main
         /\ pc' \in [Tasks -> MainSteps] /\ Render' \in RenderSteps
<1>1. to \in MainSteps
  BY DEF RenderSteps, MainSteps
<1>2. /\ Render = from /\ Render' = to /\ Main' = Main
      /\ pc' \in [Tasks -> MainSteps]
  BY <1>1, Types DEF Goes, Main, Render, Tasks
<1> QED
  BY <1>2

Risk == Chances(Main, Render, readingValid, newSample)

\* A step that counts nothing and stores no percentage.
LEMMA NothingCounted ==
  ASSUME IInv, TypeInv', UNCHANGED <<cached, zeros, zeroReadings, lockout>>,
         Stale => Risk' <= Risk /\ (HasGauge /\ Main # "second" => Main' # "second")
  PROVE  IInv'
<1>1. Stale' <=> Stale
  BY DEF Stale
<1>2. Stale => zeroReadings + Risk' <= 3
  <2>1. ASSUME Stale PROVE zeroReadings + Risk <= 3
    BY <2>1 DEF IInv, CountInv, Risk
  <2>2. Risk \in Nat /\ Risk' \in Nat /\ zeroReadings \in Nat
    <3>1. Risk \in Nat
      BY Types, ChancesAreNatural DEF Risk
    <3>2. Main' \in MainSteps /\ Render' \in RenderSteps
          /\ readingValid' \in BOOLEAN /\ newSample' \in BOOLEAN
      BY DEF TypeInv, TypeOK, Main, Tasks
    <3>3. Risk' \in Nat
      BY <3>2, ChancesAreNatural DEF Risk
    <3> QED
      BY <3>1, <3>3, Types, ConfirmReadingsAssumption
  <2>3. ASSUME Stale PROVE Risk' <= Risk
    BY <2>3
  <2>4. ASSUME Stale PROVE zeroReadings + Risk' <= 3
    <3>1. zeroReadings + Risk <= 3 /\ Risk' <= Risk
      BY <2>1, <2>3, <2>4
    <3>2. \A a, b, c \in Nat : a + b <= 3 /\ c <= b => a + c <= 3
      OBVIOUS
    <3> QED
      BY <2>2, <3>1, <3>2, Zenon
  <2> QED
    BY <2>4
<1>3. Stale /\ HasGauge => Main' # "second"
  BY DEF IInv, CountInv
<1>4. zeros' = 0 => zeroReadings' <= 3
  BY DEF IInv, CountInv
<1>5. LockoutInv'
  BY DEF IInv, LockoutInv, LockoutNeedsZeroSample
<1>6. zeroReadings' \in Nat /\ Risk' \in Nat
  <2>1. Main' \in MainSteps /\ Render' \in RenderSteps
        /\ readingValid' \in BOOLEAN /\ newSample' \in BOOLEAN
        /\ zeroReadings' \in 0..ConfirmReadings
    BY DEF TypeInv, TypeOK, Main, Tasks
  <2> QED
    BY <2>1, ChancesAreNatural, ConfirmReadingsAssumption DEF Risk
<1>7. Stale' => zeroReadings' + Risk' <= 3
  BY <1>1, <1>2
<1> QED
  BY <1>1, <1>3, <1>4, <1>5, <1>7 DEF IInv, CountInv, Risk

-----------------------------------------------------------------------------
(* getBatteryPercentage() in the render task. *)

LEMMA RenderPollsKeeps ==
  ASSUME IInv, RenderPolls
  PROVE  IInv'
<1>1. /\ Goes("render", "idle", "mark")
      /\ UNCHANGED <<worldVars, sampleVars, lockoutVars, zeros>>
  BY DEF RenderPolls
<1>2. /\ Render = "idle" /\ Render' = "mark" /\ Main' = Main
      /\ pc' \in [Tasks -> MainSteps] /\ Render' \in RenderSteps
  BY <1>1, RenderGoes DEF RenderSteps, Polling
<1>3. TypeInv'
  BY <1>1, <1>2, Types, TypesSuffice DEF worldVars, sampleVars, lockoutVars
<1>4. Risk' <= Risk
  BY <1>1, <1>2, Types, RenderMoves, Zenon DEF Risk, sampleVars
<1> QED
  BY <1>1, <1>2, <1>3, <1>4, NothingCounted DEF sampleVars, lockoutVars

LEMMA MarkKeeps ==
  ASSUME IInv, NEW t \in Tasks, Mark(t)
  PROVE  IInv'
<1>1. /\ Goes(t, "mark", "read")
      /\ pollDue' = FALSE /\ hasSample' = TRUE /\ newSample' = TRUE
      /\ UNCHANGED <<battery, usb, sensorWorks, readingValid, cached, reading,
                     confirmDue, zeroReadings, lockout, awaitingFresh, zeros>>
  BY DEF Mark, worldVars, lockoutVars
<1>2. CASE t = "render"
  <2>1. /\ Render = "mark" /\ Render' = "read" /\ Main' = Main
        /\ pc' \in [Tasks -> MainSteps] /\ Render' \in RenderSteps
    BY <1>1, <1>2, RenderGoes DEF RenderSteps, Polling
  <2>2. TypeInv'
    <3>1. /\ battery' \in Percents /\ usb' \in BOOLEAN /\ sensorWorks' \in BOOLEAN
          /\ pollDue' \in BOOLEAN /\ confirmDue' \in BOOLEAN
          /\ newSample' \in BOOLEAN /\ hasSample' \in BOOLEAN
      BY <1>1, Types
    <3>2. /\ readingValid' \in BOOLEAN /\ lockout' \in BOOLEAN
          /\ awaitingFresh' \in BOOLEAN /\ zeros' \in 0..1
          /\ zeroReadings' \in 0..ConfirmReadings
      BY <1>1, Types
    <3>3. /\ cached' \in 0..1000 /\ (HasGauge => cached' \in 0..100)
          /\ reading' \in [Tasks -> Percents]
      BY <1>1, Types
    <3> QED
      BY <2>1, <3>1, <3>2, <3>3, TypesSuffice
  <2>3. Risk' <= Risk
    BY <1>1, <2>1, Types, RenderMoves, Zenon DEF Risk
  <2> QED
    BY <1>1, <2>1, <2>2, <2>3, NothingCounted
<1>3. CASE t = "main"
  <2>1. /\ Main = "mark" /\ Main' = "read" /\ Render' = Render
        /\ pc' \in [Tasks -> MainSteps] /\ Render' \in RenderSteps
    BY <1>1, <1>3, MainGoes DEF MainSteps, Polling
  <2>2. TypeInv'
    <3>1. /\ battery' \in Percents /\ usb' \in BOOLEAN /\ sensorWorks' \in BOOLEAN
          /\ pollDue' \in BOOLEAN /\ confirmDue' \in BOOLEAN
          /\ newSample' \in BOOLEAN /\ hasSample' \in BOOLEAN
      BY <1>1, Types
    <3>2. /\ readingValid' \in BOOLEAN /\ lockout' \in BOOLEAN
          /\ awaitingFresh' \in BOOLEAN /\ zeros' \in 0..1
          /\ zeroReadings' \in 0..ConfirmReadings
      BY <1>1, Types
    <3>3. /\ cached' \in 0..1000 /\ (HasGauge => cached' \in 0..100)
          /\ reading' \in [Tasks -> Percents]
      BY <1>1, Types
    <3> QED
      BY <2>1, <3>1, <3>2, <3>3, TypesSuffice
  <2>3. Risk' <= Risk
    BY <1>1, <2>1, Types, MainMoves, Zenon DEF Risk, Polling
  <2> QED
    BY <1>1, <2>1, <2>2, <2>3, NothingCounted
<1> QED
  BY <1>2, <1>3 DEF Tasks

LEMMA ReadKeeps ==
  ASSUME IInv, NEW t \in Tasks, Read(t)
  PROVE  IInv'
<1>1. /\ Goes(t, "read", "first")
      /\ UNCHANGED <<battery, usb, sensorWorks, pollDue, newSample, hasSample,
                     readingValid, cached, confirmDue, zeroReadings, lockout,
                     awaitingFresh, zeros>>
  BY DEF Read, worldVars, lockoutVars
<1>2. reading' \in [Tasks -> Percents]
  BY Types DEF Read
<1>3. CASE t = "render"
  <2>1. /\ Render = "read" /\ Render' = "first" /\ Main' = Main
        /\ pc' \in [Tasks -> MainSteps] /\ Render' \in RenderSteps
    BY <1>1, <1>3, RenderGoes DEF RenderSteps, Polling
  <2>2. TypeInv'
    BY <1>1, <1>2, <2>1, Types, TypesSuffice
  <2>3. Risk' <= Risk
    BY <1>1, <2>1, Types, RenderMoves, Zenon DEF Risk
  <2> QED
    BY <1>1, <2>1, <2>2, <2>3, NothingCounted
<1>4. CASE t = "main"
  <2>1. /\ Main = "read" /\ Main' = "first" /\ Render' = Render
        /\ pc' \in [Tasks -> MainSteps] /\ Render' \in RenderSteps
    BY <1>1, <1>4, MainGoes DEF MainSteps, Polling
  <2>2. TypeInv'
    BY <1>1, <1>2, <2>1, Types, TypesSuffice
  <2>3. Risk' <= Risk
    BY <1>1, <2>1, Types, MainMoves, Zenon DEF Risk, Polling
  <2> QED
    BY <1>1, <2>1, <2>2, <2>3, NothingCounted
<1> QED
  BY <1>3, <1>4 DEF Tasks

LEMMA ReadFailsKeeps ==
  ASSUME IInv, NEW t \in Tasks, ReadFails(t)
  PROVE  IInv'
<1>1. /\ Goes(t, "read", "idle") /\ readingValid' = FALSE
      /\ UNCHANGED <<battery, usb, sensorWorks, pollDue, newSample, hasSample,
                     cached, reading, confirmDue, zeroReadings, lockout,
                     awaitingFresh, zeros>>
  BY DEF ReadFails, FailureIsInvalid, worldVars, lockoutVars
<1>2. CASE t = "render"
  <2>1. /\ Render = "read" /\ Render' = "idle" /\ Main' = Main
        /\ pc' \in [Tasks -> MainSteps] /\ Render' \in RenderSteps
    BY <1>1, <1>2, RenderGoes DEF RenderSteps
  <2>2. TypeInv'
    <3>1. readingValid' \in BOOLEAN /\ cached' \in 0..1000
          /\ (HasGauge => cached' \in 0..100)
          /\ zeroReadings' \in 0..ConfirmReadings /\ zeros' \in 0..1
          /\ reading' \in [Tasks -> Percents]
      BY <1>1, Types, Zenon
    <3>2. /\ battery' \in Percents /\ usb' \in BOOLEAN /\ sensorWorks' \in BOOLEAN
          /\ pollDue' \in BOOLEAN /\ confirmDue' \in BOOLEAN
          /\ newSample' \in BOOLEAN /\ hasSample' \in BOOLEAN
          /\ lockout' \in BOOLEAN /\ awaitingFresh' \in BOOLEAN
      BY <1>1, Types
    <3> QED
      BY <2>1, <3>1, <3>2, TypesSuffice
  <2>3. Risk' <= Risk
    BY <1>1, <2>1, Types, RenderMoves, Zenon DEF Risk
  <2> QED
    BY <1>1, <2>1, <2>2, <2>3, NothingCounted
<1>3. CASE t = "main"
  <2>1. /\ Main = "read" /\ Main' = "idle" /\ Render' = Render
        /\ pc' \in [Tasks -> MainSteps] /\ Render' \in RenderSteps
    BY <1>1, <1>3, MainGoes DEF MainSteps
  <2>2. TypeInv'
    <3>1. readingValid' \in BOOLEAN /\ cached' \in 0..1000
          /\ (HasGauge => cached' \in 0..100)
          /\ zeroReadings' \in 0..ConfirmReadings /\ zeros' \in 0..1
          /\ reading' \in [Tasks -> Percents]
      BY <1>1, Types
    <3>2. /\ battery' \in Percents /\ usb' \in BOOLEAN /\ sensorWorks' \in BOOLEAN
          /\ pollDue' \in BOOLEAN /\ confirmDue' \in BOOLEAN
          /\ newSample' \in BOOLEAN /\ hasSample' \in BOOLEAN
          /\ lockout' \in BOOLEAN /\ awaitingFresh' \in BOOLEAN
      BY <1>1, Types
    <3> QED
      BY <2>1, <3>1, <3>2, TypesSuffice
  <2>3. Risk' <= Risk
    BY <1>1, <2>1, Types, MainMoves, Zenon DEF Risk
  <2> QED
    BY <1>1, <2>1, <2>2, <2>3, NothingCounted
<1> QED
  BY <1>2, <1>3 DEF Tasks

-----------------------------------------------------------------------------
(* The two stores of a reading. *)

\* A stored percentage is remembered, or is not zero.
LEMMA StoredIsNotStale ==
  ASSUME IInv, TypeInv', NEW t \in Tasks, SetCached(t),
         UNCHANGED <<zeroReadings, lockout>>
  PROVE  IInv'
<1>1. ~Stale'
  BY DEF SetCached, Stale
<1>2. zeros' = 0 => zeros = 0
  BY DEF SetCached
<1>3. zeros > 0 => zeros' > 0
  BY Types DEF SetCached
<1>4. CountInv'
  BY <1>1, <1>2 DEF IInv, CountInv
<1>5. LockoutInv'
  BY <1>3 DEF IInv, LockoutInv, LockoutNeedsZeroSample
<1> QED
  BY <1>4, <1>5 DEF IInv

LEMMA SmoothedInRange ==
  ASSUME NEW old \in 0..1000, NEW percent \in 0..100
  PROVE  Smoothed(old, percent) \in 0..1000
<1>1. 10 * percent \in 0..1000
  OBVIOUS
<1>2. (old * 9 + percent * 10) \div 10 \in 0..1000
  OBVIOUS
<1> QED
  BY <1>1, <1>2 DEF Smoothed

LEMMA StoredTypes ==
  ASSUME IInv, NEW t \in Tasks, SetCached(t)
  PROVE  /\ cached' \in 0..1000 /\ (HasGauge => cached' \in 0..100)
         /\ zeros' \in 0..1 /\ readingValid' \in BOOLEAN
<1>1. reading[t] \in 0..100 /\ cached \in 0..1000
  BY Types, PercentsAssumption
<1>2. Smoothed(cached, reading[t]) \in 0..1000
  <2> DEFINE Percent == 0..100
             Tenths == 0..1000
  <2>1. \A old \in Tenths, percent \in Percent : Smoothed(old, percent) \in Tenths
    BY SmoothedInRange
  <2>2. reading[t] \in Percent /\ cached \in Tenths
    BY <1>1
  <2>3. Smoothed(cached, reading[t]) \in Tenths
    <3> HIDE DEF Percent, Tenths
    <3> QED
      BY <2>1, <2>2
  <2> QED
    BY <2>3
<1>3. cached' = IF HasGauge THEN reading[t] ELSE Smoothed(cached, reading[t])
  BY DEF SetCached
<1>4. cached' \in 0..1000 /\ (HasGauge => cached' \in 0..100)
  BY <1>1, <1>2, <1>3
<1>5. zeros' \in 0..1 /\ readingValid' \in BOOLEAN
  BY Types DEF SetCached
<1> QED
  BY <1>4, <1>5

\* What a store leaves alone.
Rest == UNCHANGED <<battery, usb, sensorWorks, pollDue, newSample, hasSample,
                    reading, confirmDue, zeroReadings, lockout, awaitingFresh>>

LEMMA StoreTypes ==
  ASSUME IInv, Rest, pc' \in [Tasks -> MainSteps], Render' \in RenderSteps,
         NEW t \in Tasks, SetCached(t) \/ SetValid
  PROVE  TypeInv'
<1>1. /\ cached' \in 0..1000 /\ (HasGauge => cached' \in 0..100)
      /\ zeros' \in 0..1 /\ readingValid' \in BOOLEAN
  <2>1. CASE SetCached(t)
    BY <2>1, StoredTypes
  <2>2. CASE SetValid
    BY <2>2, Types DEF SetValid
  <2> QED
    BY <2>1, <2>2
<1>2. /\ battery' \in Percents /\ usb' \in BOOLEAN /\ sensorWorks' \in BOOLEAN
      /\ pollDue' \in BOOLEAN /\ confirmDue' \in BOOLEAN
      /\ newSample' \in BOOLEAN /\ hasSample' \in BOOLEAN
      /\ lockout' \in BOOLEAN /\ awaitingFresh' \in BOOLEAN
  BY Types DEF Rest
<1>3. zeroReadings' \in 0..ConfirmReadings /\ reading' \in [Tasks -> Percents]
  BY Types DEF Rest
<1> QED
  BY <1>1, <1>2, <1>3, TypesSuffice

LEMMA FirstKeeps ==
  ASSUME IInv, NEW t \in Tasks, First(t)
  PROVE  IInv'
<1>1. /\ Goes(t, "first", "second") /\ Rest
      /\ IF HasGauge THEN SetCached(t) ELSE SetValid
  BY DEF First, Store, Rest, worldVars, lockoutVars
<1>2. /\ t = "render" => /\ Render = "first" /\ Render' = "second" /\ Main' = Main
      /\ t = "main" => /\ Main = "first" /\ Main' = "second" /\ Render' = Render
      /\ pc' \in [Tasks -> MainSteps] /\ Render' \in RenderSteps
  BY <1>1, MainGoes, RenderGoes DEF MainSteps, RenderSteps, Polling, Tasks
<1>3. TypeInv'
  BY <1>1, <1>2, StoreTypes
<1>4. CASE HasGauge
  BY <1>1, <1>3, <1>4, StoredIsNotStale DEF Rest
<1>5. CASE ~HasGauge
  <2>1. readingValid' = TRUE /\ UNCHANGED <<cached, zeros, zeroReadings, lockout>>
        /\ newSample' = newSample
    BY <1>1, <1>5 DEF SetValid, Rest
  <2>2. CASE t = "render"
    <3>1. Risk' <= Risk
      BY <1>2, <1>5, <2>1, <2>2, Types, RenderMoves, Zenon DEF Risk
    <3> QED
      BY <1>3, <1>5, <2>1, <3>1, NothingCounted
  <2>3. CASE t = "main"
    <3>1. Risk' <= Risk
      BY <1>2, <2>1, <2>3, Types, MainMoves, Zenon DEF Risk, Polling
    <3> QED
      BY <1>3, <1>5, <2>1, <3>1, NothingCounted
  <2> QED
    BY <2>2, <2>3 DEF Tasks
<1> QED
  BY <1>4, <1>5

LEMMA SecondKeeps ==
  ASSUME IInv, NEW t \in Tasks, Second(t)
  PROVE  IInv'
<1>1. /\ Goes(t, "second", "idle") /\ Rest
      /\ IF ~HasGauge THEN SetCached(t) ELSE SetValid
  BY DEF Second, Store, Rest, worldVars, lockoutVars
<1>2. /\ t = "render" => /\ Render = "second" /\ Render' = "idle" /\ Main' = Main
      /\ t = "main" => /\ Main = "second" /\ Main' = "idle" /\ Render' = Render
      /\ pc' \in [Tasks -> MainSteps] /\ Render' \in RenderSteps
  BY <1>1, MainGoes, RenderGoes DEF MainSteps, RenderSteps, Polling, Tasks
<1>3. TypeInv'
  BY <1>1, <1>2, StoreTypes
<1>4. CASE ~HasGauge
  BY <1>1, <1>3, <1>4, StoredIsNotStale DEF Rest
<1>5. CASE HasGauge
  <2>1. readingValid' = TRUE /\ UNCHANGED <<cached, zeros, zeroReadings, lockout>>
        /\ newSample' = newSample
    BY <1>1, <1>5 DEF SetValid, Rest
  <2>2. CASE t = "render"
    <3>1. Risk' <= Risk
      BY <1>2, <1>5, <2>1, <2>2, Types, RenderMoves, Zenon DEF Risk
    <3> QED
      BY <1>2, <1>3, <2>1, <2>2, <3>1, NothingCounted
  <2>3. CASE t = "main"
    <3>1. ~Stale
      BY <1>2, <1>5, <2>3 DEF IInv, CountInv
    <3> QED
      BY <1>3, <2>1, <3>1, NothingCounted
  <2> QED
    BY <2>2, <2>3 DEF Tasks
<1> QED
  BY <1>4, <1>5

-----------------------------------------------------------------------------
(* isLowBatteryLockoutActive(). *)

\* Steps of the main task that look at fields and change none but newSample.
LEMMA MainLooks ==
  ASSUME IInv, NEW from \in {"idle", "check", "decide"},
         NEW to \in {"idle", "check", "mark", "decide"}, Goes("main", from, to),
         UNCHANGED <<worldVars, sampleVars, lockoutVars, zeros>>
  PROVE  IInv'
<1>1. /\ Main = from /\ Main' = to /\ Render' = Render
      /\ pc' \in [Tasks -> MainSteps] /\ Render' \in RenderSteps
  <2>1. to \in MainSteps
    BY DEF MainSteps, Polling
  <2> QED
    BY <2>1, MainGoes
<1>2. TypeInv'
  BY <1>1, Types, TypesSuffice DEF worldVars, sampleVars, lockoutVars
<1>3. Risk' <= Risk
  <2>1. readingValid' = readingValid /\ newSample' = newSample
    BY DEF sampleVars
  <2>2. CASE to = "mark"
    <3>1. Chances("mark", Render, readingValid, newSample)
             <= Chances(from, Render, readingValid, newSample)
      <4>1. Render \in RenderSteps /\ readingValid \in BOOLEAN
            /\ newSample \in BOOLEAN
        BY Types
      <4> QED
        BY <4>1, MainMoves, Zenon
    <3> QED
      BY <1>1, <2>1, <2>2, <3>1 DEF Risk
  <2>3. CASE to # "mark"
    <3>1. to \in {"idle", "check", "decide"}
      BY <2>3
    <3>2. Chances(to, Render, readingValid, newSample)
             <= Chances(from, Render, readingValid, newSample)
      BY <3>1, Types, MainGoesOn
    <3> QED
      BY <1>1, <2>1, <3>2 DEF Risk
  <2> QED
    BY <2>2, <2>3
<1> QED
  BY <1>1, <1>2, <1>3, NothingCounted DEF sampleVars, lockoutVars

LEMMA OnUsbKeeps ==
  ASSUME IInv, LockoutOnUsb
  PROVE  IInv'
<1>1. /\ Main = "idle" /\ pc' = pc /\ zeroReadings' = 0 /\ zeros' = 0
      /\ lockout' = FALSE /\ newSample' = FALSE
      /\ confirmDue' \in BOOLEAN /\ awaitingFresh' \in BOOLEAN
      /\ UNCHANGED <<battery, usb, sensorWorks, pollDue, hasSample, readingValid,
                     cached, reading>>
  BY DEF LockoutOnUsb, Main, worldVars
<1>2. Main' = "idle" /\ Render' = Render
  BY <1>1 DEF Main, Render
<1>3. TypeInv'
  <2>1. zeroReadings' \in 0..ConfirmReadings /\ zeros' \in 0..1
    BY <1>1, ConfirmReadingsAssumption
  <2> QED
    <3>1. /\ battery' \in Percents /\ usb' \in BOOLEAN /\ sensorWorks' \in BOOLEAN
          /\ pollDue' \in BOOLEAN /\ confirmDue' \in BOOLEAN
          /\ newSample' \in BOOLEAN /\ hasSample' \in BOOLEAN
      BY <1>1, <2>1, Types, Zenon
    <3>2. /\ readingValid' \in BOOLEAN /\ lockout' \in BOOLEAN
          /\ awaitingFresh' \in BOOLEAN /\ zeros' \in 0..1
          /\ zeroReadings' \in 0..ConfirmReadings
      BY <1>1, <2>1, Types, Zenon
    <3>3. /\ cached' \in 0..1000 /\ (HasGauge => cached' \in 0..100)
          /\ reading' \in [Tasks -> Percents]
      BY <1>1, <2>1, Types
    <3>4. pc' \in [Tasks -> MainSteps] /\ Render' \in RenderSteps
      BY <1>1, <1>2, Types, Zenon
    <3> QED
      BY <3>1, <3>2, <3>3, <3>4, TypesSuffice
<1>4. Chances(Main', Render', readingValid', newSample') <= 3
  BY <1>1, <1>2, Types, ChancesAfterUsb, Zenon
<1>5. Chances(Main', Render', readingValid', newSample') \in Nat
  <2>1. /\ Main' \in MainSteps /\ Render' \in RenderSteps
        /\ readingValid' \in BOOLEAN /\ newSample' \in BOOLEAN
    BY <1>1, <1>2, Types, Zenon DEF MainSteps
  <2> QED
    BY <2>1, ChancesAreNatural
<1>6. CountInv'
  BY <1>1, <1>2, <1>4, <1>5 DEF CountInv
<1>7. LockoutInv'
  BY <1>1 DEF LockoutInv, LockoutNeedsZeroSample
<1> QED
  BY <1>3, <1>6, <1>7 DEF IInv

LEMMA TakesSampleKeeps ==
  ASSUME IInv, LockoutTakesSample
  PROVE  IInv'
<1>1. PICK to \in {"fresh", "count"} : Goes("main", "idle", to)
  BY DEF LockoutTakesSample
<1>2. /\ newSample = TRUE /\ newSample' = FALSE
      /\ UNCHANGED <<battery, usb, sensorWorks, pollDue, hasSample, readingValid,
                     cached, reading, confirmDue, zeroReadings, lockout,
                     awaitingFresh, zeros>>
  BY Types DEF LockoutTakesSample, worldVars, lockoutVars
<1>3. /\ Main = "idle" /\ Main' = to /\ Render' = Render
      /\ pc' \in [Tasks -> MainSteps] /\ Render' \in RenderSteps
  <2>1. to \in MainSteps
    BY DEF MainSteps
  <2> QED
    BY <1>1, <2>1, MainGoes
<1>4. TypeInv'
  <2>1. /\ battery' \in Percents /\ usb' \in BOOLEAN /\ sensorWorks' \in BOOLEAN
        /\ pollDue' \in BOOLEAN /\ confirmDue' \in BOOLEAN
        /\ newSample' \in BOOLEAN /\ hasSample' \in BOOLEAN
    BY <1>2, Types
  <2>3. /\ readingValid' \in BOOLEAN /\ lockout' \in BOOLEAN
        /\ awaitingFresh' \in BOOLEAN
    BY <1>2, Types
  <2>2. /\ cached' \in 0..1000 /\ (HasGauge => cached' \in 0..100)
        /\ zeroReadings' \in 0..ConfirmReadings /\ zeros' \in 0..1
        /\ reading' \in [Tasks -> Percents]
    BY <1>2, Types
  <2> QED
    BY <1>3, <2>1, <2>2, <2>3, TypesSuffice
<1>5. Risk' <= Risk
  <2>1. Render \in RenderSteps /\ readingValid \in BOOLEAN
    BY Types
  <2>2. Chances(to, Render, readingValid, FALSE)
           <= Chances("idle", Render, readingValid, TRUE)
    BY <2>1, MainMoves, Zenon
  <2>3. readingValid' = readingValid
    BY <1>2
  <2> QED
    BY <1>2, <1>3, <2>2, <2>3, Zenon DEF Risk
<1> QED
  BY <1>2, <1>3, <1>4, <1>5, NothingCounted

\* A waiting sample is processed with a valid reading.
LEMMA CountingKeeps ==
  ASSUME IInv, TypeInv', NEW from \in {"fresh", "count"},
         NEW to \in {"idle", "decide"}, Goes("main", from, to), readingValid,
         UNCHANGED <<cached, zeros, readingValid, newSample, lockout>>,
         IF Shown(cached) = 0 THEN zeroReadings' <= zeroReadings + 1
                              ELSE zeroReadings' = 0
  PROVE  IInv'
<1>1. Main = from /\ Main' = to /\ Render' = Render
  <2>1. to \in MainSteps
    BY DEF MainSteps
  <2> QED
    BY <2>1, MainGoes
<1>2. Risk' + 1 <= Risk
  <2>1. Chances(to, Render, TRUE, newSample) + 1
           <= Chances(from, Render, TRUE, newSample)
    <3>1. Render \in RenderSteps /\ newSample \in BOOLEAN
      BY Types
    <3> QED
      BY <3>1, MainCounts, Zenon
  <2>2. readingValid = TRUE /\ readingValid' = TRUE /\ newSample' = newSample
    BY Types
  <2> QED
    BY <1>1, <2>1, <2>2, Zenon DEF Risk
<1>3. zeroReadings \in Nat /\ zeroReadings' \in Nat /\ Risk \in Nat /\ Risk' \in Nat
  <2>1. /\ Main' \in MainSteps /\ Render' \in RenderSteps
        /\ readingValid' \in BOOLEAN /\ newSample' \in BOOLEAN
        /\ zeroReadings' \in 0..ConfirmReadings
    BY DEF TypeInv, TypeOK, Main, Tasks
  <2>2. Risk' \in Nat
    BY <2>1, ChancesAreNatural DEF Risk
  <2>3. Risk \in Nat
    BY Types, ChancesAreNatural, Zenon DEF Risk
  <2>4. zeroReadings \in Nat /\ zeroReadings' \in Nat
    BY <2>1, Types, ConfirmReadingsAssumption
  <2> QED
    BY <2>2, <2>3, <2>4
<1>4. CountInv'
  <2>1. CASE Stale
    <3>1. zeroReadings + Risk <= 3 /\ zeroReadings' <= zeroReadings + 1
      BY <2>1 DEF IInv, CountInv, Risk, Stale
    <3>2. \A z, w, a, b \in Nat :
              z + a <= 3 /\ w <= z + 1 /\ b + 1 <= a => w + b <= 3 /\ w <= 3
      OBVIOUS
    <3>3. zeroReadings' + Risk' <= 3 /\ zeroReadings' <= 3
      BY <1>2, <1>3, <3>1, <3>2, Zenon
    <3>4. Main' # "second"
      BY <1>1
    <3>5. zeros' = 0 => zeroReadings' <= 3
      BY <3>3
    <3>6. Stale' => zeroReadings' + Risk' <= 3
      BY <3>3
    <3>7. Stale' /\ HasGauge => Main' # "second"
      BY <3>4
    <3> QED
      BY <3>5, <3>6, <3>7 DEF CountInv, Risk
  <2>2. CASE ~Stale
    <3>1. ~Stale'
      BY <2>2 DEF Stale
    <3>2. zeros' = 0 => zeroReadings' = 0
      BY <2>2 DEF Stale
    <3>3. zeros' = 0 => zeroReadings' <= 3
      BY <3>2
    <3> QED
      BY <3>1, <3>3, Zenon DEF CountInv
  <2> QED
    BY <2>1, <2>2
<1>5. LockoutInv'
  BY DEF IInv, LockoutInv, LockoutNeedsZeroSample
<1> QED
  BY <1>4, <1>5 DEF IInv

LEMMA FreshKeeps ==
  ASSUME IInv, LockoutFresh
  PROVE  IInv'
<1>1. /\ Goes("main", "fresh", "idle")
      /\ UNCHANGED <<battery, usb, sensorWorks, pollDue, newSample, hasSample,
                     readingValid, cached, reading, lockout, zeros>>
  BY DEF LockoutFresh, worldVars, sampleVars, lockoutVars
<1>2. /\ Main = "fresh" /\ Main' = "idle" /\ Render' = Render
      /\ pc' \in [Tasks -> MainSteps] /\ Render' \in RenderSteps
  BY <1>1, MainGoes DEF MainSteps
<1>3. CASE ~readingValid
  <2>1. UNCHANGED <<confirmDue, zeroReadings, awaitingFresh>>
    BY <1>3 DEF LockoutFresh, lockoutVars
  <2>2. TypeInv'
    BY <1>1, <1>2, <2>1, Types, TypesSuffice
  <2>3. Risk' <= Risk
    BY <1>1, <1>2, Types, MainMoves, Zenon DEF Risk
  <2> QED
    BY <1>1, <1>2, <2>1, <2>2, <2>3, NothingCounted
<1>4. CASE readingValid
  <2>1. zeroReadings' = IF Shown(cached) = 0 THEN 1 ELSE 0
    BY <1>4 DEF LockoutFresh
  <2>2. confirmDue' \in BOOLEAN /\ awaitingFresh' \in BOOLEAN
    BY <1>4 DEF LockoutFresh
  <2>3. zeroReadings' \in 0..ConfirmReadings
    BY <2>1, ConfirmReadingsAssumption
  <2>4. TypeInv'
    BY <1>1, <1>2, <2>2, <2>3, Types, TypesSuffice
  <2>5. IF Shown(cached) = 0 THEN zeroReadings' <= zeroReadings + 1
                             ELSE zeroReadings' = 0
    BY <2>1, Types
  <2> QED
    BY <1>1, <1>4, <2>4, <2>5, CountingKeeps
<1> QED
  BY <1>3, <1>4

LEMMA CountsKeeps ==
  ASSUME IInv, LockoutCounts
  PROVE  IInv'
<1>1. /\ Goes("main", "count", "decide")
      /\ UNCHANGED <<battery, usb, sensorWorks, pollDue, newSample, hasSample,
                     readingValid, cached, reading, lockout, awaitingFresh, zeros>>
  BY DEF LockoutCounts, worldVars, sampleVars
<1>2. /\ Main = "count" /\ Main' = "decide" /\ Render' = Render
      /\ pc' \in [Tasks -> MainSteps] /\ Render' \in RenderSteps
  BY <1>1, MainGoes DEF MainSteps
<1>3. CASE ~readingValid
  <2>1. UNCHANGED <<confirmDue, zeroReadings>>
    BY <1>3 DEF LockoutCounts
  <2>2. TypeInv'
    BY <1>1, <1>2, <2>1, Types, TypesSuffice
  <2>3. Risk' <= Risk
    BY <1>1, <1>2, Types, MainMoves, Zenon DEF Risk
  <2> QED
    BY <1>1, <1>2, <2>1, <2>2, <2>3, NothingCounted
<1>4. CASE readingValid
  <2>1. zeroReadings' = IF Shown(cached) > 0 THEN 0
                        ELSE IF zeroReadings < ConfirmReadings
                        THEN zeroReadings + 1 ELSE zeroReadings
    BY <1>4 DEF LockoutCounts
  <2>2. confirmDue' \in BOOLEAN
    BY <1>4 DEF LockoutCounts
  <2>3. Shown(cached) > 0 \/ Shown(cached) = 0
    BY Types DEF Shown
  <2>4. CASE Shown(cached) = 0
    <3>1. zeroReadings' = IF zeroReadings < ConfirmReadings THEN zeroReadings + 1
                                                            ELSE zeroReadings
      BY <2>1, <2>4
    <3> QED
      <4>1. zeroReadings' \in 0..ConfirmReadings /\ zeroReadings' <= zeroReadings + 1
        BY <3>1, Types, ConfirmReadingsAssumption
      <4>2. TypeInv'
        BY <1>1, <1>2, <2>2, <4>1, Types, TypesSuffice
      <4> QED
        BY <1>1, <1>4, <2>4, <4>1, <4>2, CountingKeeps
  <2>5. CASE Shown(cached) > 0
    <3>1. zeroReadings' = 0 /\ Shown(cached) # 0
      <4>1. zeroReadings' = 0
        BY <2>1, <2>5
      <4>2. Shown(cached) # 0
        BY <2>5
      <4> QED
        BY <4>1, <4>2
    <3>2. zeroReadings' \in 0..ConfirmReadings
      BY <3>1, ConfirmReadingsAssumption
    <3>3. TypeInv'
      BY <1>1, <1>2, <2>2, <3>2, Types, TypesSuffice
    <3> QED
      BY <1>1, <1>4, <3>1, <3>3, CountingKeeps
  <2> QED
    BY <2>3, <2>4, <2>5
<1> QED
  BY <1>3, <1>4

LEMMA DecidesKeeps ==
  ASSUME IInv, LockoutDecides
  PROVE  IInv'
<1>1. PICK to \in {"idle", "check"} : Goes("main", "decide", to)
  BY DEF LockoutDecides, AfterDecision
<1>2. /\ lockout' = (zeroReadings >= ConfirmReadings)
      /\ UNCHANGED <<battery, usb, sensorWorks, pollDue, newSample, hasSample,
                     readingValid, cached, reading, confirmDue, zeroReadings,
                     awaitingFresh, zeros>>
  BY DEF LockoutDecides, worldVars, sampleVars
<1>3. /\ Main = "decide" /\ Main' = to /\ Render' = Render
      /\ pc' \in [Tasks -> MainSteps] /\ Render' \in RenderSteps
  <2>1. to \in MainSteps
    BY DEF MainSteps
  <2> QED
    BY <1>1, <2>1, MainGoes
<1>4. TypeInv'
  <2>1. lockout' \in BOOLEAN
    <3>1. lockout' = (zeroReadings >= ConfirmReadings)
      BY <1>2
    <3>2. (zeroReadings >= ConfirmReadings) \in BOOLEAN
      OBVIOUS
    <3> QED
      BY <3>1, <3>2, Zenon
  <2>2. /\ battery' \in Percents /\ usb' \in BOOLEAN /\ sensorWorks' \in BOOLEAN
        /\ pollDue' \in BOOLEAN /\ confirmDue' \in BOOLEAN
        /\ newSample' \in BOOLEAN /\ hasSample' \in BOOLEAN
        /\ readingValid' \in BOOLEAN /\ awaitingFresh' \in BOOLEAN
    BY <1>2, Types
  <2>3. /\ cached' \in 0..1000 /\ (HasGauge => cached' \in 0..100)
        /\ zeroReadings' \in 0..ConfirmReadings /\ zeros' \in 0..1
        /\ reading' \in [Tasks -> Percents]
    BY <1>2, Types
  <2> QED
    BY <1>3, <2>1, <2>2, <2>3, TypesSuffice
<1>5. CountInv'
  <2>1. Risk' <= Risk
    BY <1>2, <1>3, Types, MainGoesOn DEF Risk
  <2>2. Stale' <=> Stale
    BY <1>2 DEF Stale
  <2>3. zeroReadings' = zeroReadings /\ zeros' = zeros /\ Main' # "second"
    BY <1>2, <1>3
  <2>4. Risk \in Nat /\ Risk' \in Nat /\ zeroReadings \in Nat
    <3>1. /\ Main' \in MainSteps /\ Render' \in RenderSteps
          /\ readingValid' \in BOOLEAN /\ newSample' \in BOOLEAN
      BY <1>2, <1>3, Types DEF MainSteps
    <3> QED
      BY <3>1, Types, ChancesAreNatural, ConfirmReadingsAssumption DEF Risk
  <2>5. ASSUME Stale PROVE zeroReadings' + Risk' <= 3
    <3>1. zeroReadings + Risk <= 3
      BY <2>5 DEF IInv, CountInv, Risk
    <3>2. \A a, b, c \in Nat : a + b <= 3 /\ c <= b => a + c <= 3
      OBVIOUS
    <3> QED
      BY <2>1, <2>3, <2>4, <3>1, <3>2, Zenon
  <2>6. zeros' = 0 => zeroReadings' <= 3
    BY <2>3 DEF IInv, CountInv
  <2> QED
    BY <2>2, <2>3, <2>5, <2>6 DEF CountInv, Risk
<1>6. LockoutInv'
  <2> SUFFICES ASSUME ConfirmReadings >= 4, lockout' PROVE zeros' > 0
    BY DEF LockoutInv, LockoutNeedsZeroSample
  <2>1. zeroReadings >= ConfirmReadings
    BY <1>2
  <2>2. ~(zeroReadings <= 3)
    BY <2>1, Types, ConfirmReadingsAssumption
  <2>3. zeros # 0
    BY <2>2 DEF IInv, CountInv
  <2> QED
    BY <1>2, <2>3, Types
<1> QED
  BY <1>4, <1>5, <1>6 DEF IInv

LEMMA LockoutKeeps ==
  ASSUME IInv, Lockout
  PROVE  IInv'
<1>1. CASE MainPolls
  BY <1>1, MainLooks DEF MainPolls
<1>2. CASE LockoutAwaits
  BY <1>2, MainLooks DEF LockoutAwaits
<1>3. CASE LockoutNoSample
  BY <1>3, MainLooks DEF LockoutNoSample
<1> QED
  BY <1>1, <1>2, <1>3, OnUsbKeeps, TakesSampleKeeps, FreshKeeps, CountsKeeps,
     DecidesKeeps DEF Lockout

-----------------------------------------------------------------------------
(* Time and the world change neither pc nor what is counted. *)

LEMMA WorldKeeps ==
  ASSUME IInv, TickPoll \/ TickConfirm \/ World \/ UNCHANGED vars
  PROVE  IInv'
<1>1. /\ battery' \in Percents /\ usb' \in BOOLEAN /\ sensorWorks' \in BOOLEAN
      /\ pollDue' \in BOOLEAN /\ confirmDue' \in BOOLEAN
  <2>1. CASE TickPoll
    BY <2>1, Types DEF TickPoll, worldVars, lockoutVars
  <2>2. CASE TickConfirm
    BY <2>2, Types DEF TickConfirm, worldVars, sampleVars
  <2>3. CASE World
    <3>1. UNCHANGED <<pollDue, confirmDue>>
      BY <2>3 DEF World, sampleVars, lockoutVars
    <3>2. battery' \in Percents /\ usb' \in BOOLEAN /\ sensorWorks' \in BOOLEAN
      <4>1. battery \in Percents /\ usb \in BOOLEAN /\ sensorWorks \in BOOLEAN
        BY Types
      <4>2. battery' = battery \/ battery' \in Percents
        BY <2>3 DEF World
      <4>3. usb' = usb \/ usb' = ~usb
        BY <2>3, Zenon DEF World
      <4>4. sensorWorks' = sensorWorks \/ sensorWorks' = ~sensorWorks
        BY <2>3, Zenon DEF World
      <4>5. usb' \in BOOLEAN
        BY <4>1, <4>3
      <4>6. sensorWorks' \in BOOLEAN
        BY <4>1, <4>4
      <4> QED
        BY <4>1, <4>2, <4>5, <4>6
    <3> QED
      BY <3>1, <3>2, Types
  <2>4. CASE UNCHANGED vars
    BY <2>4, Types DEF vars, worldVars, sampleVars, lockoutVars
  <2> QED
    BY <2>1, <2>2, <2>3, <2>4
<1>2. UNCHANGED <<newSample, hasSample, readingValid, cached, reading,
                  zeroReadings, lockout, awaitingFresh, zeros, pc>>
  BY DEF TickPoll, TickConfirm, World, vars, worldVars, sampleVars, lockoutVars
<1>3. Main' = Main /\ Render' = Render
  BY <1>2 DEF Main, Render
<1>4. TypeInv'
  BY <1>1, <1>2, <1>3, Types, TypesSuffice
<1>5. Risk' = Risk /\ Risk \in Nat
  BY <1>2, <1>3, Types, ChancesAreNatural DEF Risk
<1> QED
  BY <1>2, <1>3, <1>4, <1>5, NothingCounted

-----------------------------------------------------------------------------
(* The theorems. *)

LEMMA InitIInv == Init => IInv
<1> SUFFICES ASSUME Init PROVE IInv
  OBVIOUS
<1>1. Main = "idle" /\ Render = "idle" /\ pc \in [Tasks -> MainSteps]
  BY DEF Init, Main, Render, Tasks, MainSteps
<1>2. TypeInv
  <2>1. cached = 0 /\ zeroReadings = 0 /\ zeros = 0 /\ reading = [t \in Tasks |-> 0]
    BY DEF Init
  <2>2. /\ cached \in 0..1000 /\ cached \in 0..100
        /\ zeroReadings \in 0..ConfirmReadings /\ zeros \in 0..1
    BY <2>1, ConfirmReadingsAssumption
  <2>3. reading \in [Tasks -> Percents]
    BY <2>1, PercentsAssumption
  <2>4. pc["main"] = "idle" /\ pc["render"] = "idle" /\ Render \in RenderSteps
    BY <1>1 DEF Main, Render, RenderSteps
  <2> QED
    BY <1>1, <2>2, <2>3, <2>4 DEF Init, TypeInv, TypeOK
<1>3. zeroReadings = 0 /\ readingValid = FALSE /\ newSample = FALSE /\ lockout = FALSE
  BY DEF Init
<1>4. Chances("idle", "idle", FALSE, FALSE) <= 3
  BY ChancesAfterUsb DEF RenderSteps
<1>5. Chances("idle", "idle", FALSE, FALSE) \in Nat
  BY ChancesAreNatural DEF RenderSteps, MainSteps
<1>6. CountInv
  <2>1. zeroReadings = 0
    BY <1>3
  <2>2. zeroReadings + Chances("idle", "idle", FALSE, FALSE) <= 3
    <3>1. \A c \in Nat : c <= 3 => 0 + c <= 3
      OBVIOUS
    <3> QED
      BY <1>4, <1>5, <2>1, <3>1, Zenon
  <2>3. zeroReadings + Chances(Main, Render, readingValid, newSample) <= 3
    BY <1>1, <1>3, <2>2, Zenon
  <2>4. Main # "second" /\ zeroReadings <= 3
    BY <1>1, <2>1
  <2> QED
    BY <2>3, <2>4 DEF CountInv
<1>7. LockoutInv
  BY <1>3 DEF LockoutInv, LockoutNeedsZeroSample
<1> QED
  BY <1>2, <1>6, <1>7 DEF IInv

LEMMA AlwaysIInv == FairSpec => []IInv
<1>1. IInv /\ [Next]_vars => IInv'
  <2> SUFFICES ASSUME IInv, [Next]_vars PROVE IInv'
    OBVIOUS
  <2>1. ASSUME NEW t \in Tasks, Sampling(t) PROVE IInv'
    BY <2>1, MarkKeeps, ReadKeeps, ReadFailsKeeps, FirstKeeps, SecondKeeps
    DEF Sampling
  <2> QED
    BY <2>1, RenderPollsKeeps, LockoutKeeps, WorldKeeps DEF Next
<1> QED
  BY InitIInv, <1>1, PTL DEF FairSpec, Spec

\* The fields of HalPowerManager keep their ranges, above all the smoothed
\* percentage and the counter of zero readings.
THEOREM BatteryIsTyped == FairSpec => []TypeOK
<1>1. IInv => TypeOK
  BY DEF IInv, TypeInv
<1> QED
  BY <1>1, AlwaysIInv, PTL

\* isLowBatteryLockoutActive(): with any sensor, any interleaving of its two
\* callers and four or more confirming readings, failed and half-stored
\* readings alone never lock the device; a zero was stored since USB.
THEOREM LockoutNeedsAZero ==
  ASSUME ConfirmReadings >= 4
  PROVE  FairSpec => []LockoutNeedsZeroSample
<1>1. IInv => LockoutNeedsZeroSample
  BY DEF IInv, LockoutInv
<1> QED
  BY <1>1, AlwaysIInv, PTL
=============================================================================
