---------------------------- MODULE PowerManager ----------------------------
(***************************************************************************)
(* The CPU clock under HalPowerManager (lib/hal/HalPowerManager.cpp): the  *)
(* main loop lowers and raises it with setPowerSaving(), which takes no    *)
(* mutex, while any task may hold a HalPowerManager::Lock meant to keep it *)
(* at normal speed (the render task for each render, the main task while   *)
(* it goes to sleep).                                                      *)
(*                                                                         *)
(* setPowerSaving() is cut at each access to what tasks share: it reads    *)
(* the lock mode, decides on isLowPower, changes the clock, and only then  *)
(* writes isLowPower back.                                                 *)
(***************************************************************************)
CONSTANTS
    Tasks,     \* every task that uses the power manager
    MainTask   \* the one that runs main.cpp's loop()

ASSUME TasksAssumption == MainTask \in Tasks

VARIABLES
    currentLockMode,  \* "None" or "NormalSpeed"
    isLowPower,
    cpu,              \* the clock itself: "low" or "normal"
    wifi,             \* WiFi.getMode() != WIFI_MODE_NULL
    pc, enabled, mode,\* of each task's call of setPowerSaving()
    valid,            \* the task's Lock holds currentLockMode
    inScope           \* the task has a Lock in scope

callVars == <<pc, enabled, mode>>
vars == <<currentLockMode, isLowPower, cpu, wifi, callVars, valid, inScope>>

Init ==
    /\ currentLockMode = "None" /\ isLowPower = FALSE /\ cpu = "normal"
    /\ wifi \in BOOLEAN
    /\ pc = [t \in Tasks |-> "idle"]
    /\ enabled = [t \in Tasks |-> FALSE]
    /\ mode = [t \in Tasks |-> "None"]
    /\ valid = [t \in Tasks |-> FALSE] /\ inScope = [t \in Tasks |-> FALSE]

Goes(t, from, to) == pc[t] = from /\ pc' = [pc EXCEPT ![t] = to]

-----------------------------------------------------------------------------
(* setPowerSaving(). *)

\* While Wi-Fi is on the request is taken for one to restore the speed.
Begin(t, from, saving) ==
    /\ Goes(t, from, "decide")
    /\ enabled' = [enabled EXCEPT ![t] = saving /\ ~wifi]
    /\ mode' = [mode EXCEPT ![t] = currentLockMode]
    /\ UNCHANGED <<currentLockMode, isLowPower, cpu, wifi, valid, inScope>>

\* Only the main loop ever asks for power saving, and not once it sleeps.
SetPowerSaving(saving) ==
    ~inScope[MainTask] /\ Begin(MainTask, "idle", saving)

IgnoreMode(t) == \* mutant: the lock mode is not looked at
    CASE enabled[t] /\ ~isLowPower -> "lowering"
      [] ~enabled[t] /\ isLowPower -> "raising"
      [] OTHER -> "idle"
RaiseOnRequest(t) == \* mutant: a held Lock does not restore the speed
    CASE mode[t] = "None" /\ enabled[t] /\ ~isLowPower -> "lowering"
      [] ~enabled[t] /\ isLowPower -> "raising"
      [] OTHER -> "idle"
Decision(t) ==
    CASE mode[t] = "None" /\ enabled[t] /\ ~isLowPower      -> "lowering"
      [] (~enabled[t] \/ mode[t] # "None") /\ isLowPower    -> "raising"
      [] OTHER                                              -> "idle"

Decide(t) ==
    /\ Goes(t, "decide", Decision(t))
    /\ UNCHANGED <<currentLockMode, isLowPower, cpu, wifi, enabled, mode,
                   valid, inScope>>

SetClock(t) ==
    /\ \/ Goes(t, "lowering", "lowered") /\ cpu' = "low"
       \/ Goes(t, "raising", "raised") /\ cpu' = "normal"
    /\ UNCHANGED <<currentLockMode, isLowPower, wifi, enabled, mode, valid,
                   inScope>>

\* setCpuFrequencyMhz() fails: the call returns and isLowPower stays.
SetClockFails(t) ==
    /\ \E s \in {"lowering", "raising"} : Goes(t, s, "idle")
    /\ UNCHANGED <<currentLockMode, isLowPower, cpu, wifi, enabled, mode,
                   valid, inScope>>

SetFlag(t) ==
    /\ \/ Goes(t, "lowered", "idle") /\ isLowPower' = TRUE
       \/ Goes(t, "raised", "idle") /\ isLowPower' = FALSE
    /\ UNCHANGED <<currentLockMode, cpu, wifi, enabled, mode, valid, inScope>>

-----------------------------------------------------------------------------
(* HalPowerManager::Lock, and what main.cpp does between its calls. *)

AlwaysGranted == TRUE \* mutant: a second Lock takes the mode over
Granted == currentLockMode = "None"

\* The constructor, under modeMutex: the first Lock owns the mode and goes on
\* to restore the speed, any other one is ignored.
Lock(t) ==
    /\ Goes(t, "idle", IF Granted THEN "restore" ELSE "idle")
    /\ ~inScope[t]
    /\ inScope' = [inScope EXCEPT ![t] = TRUE]
    /\ valid' = [valid EXCEPT ![t] = Granted]
    /\ currentLockMode' = "NormalSpeed"
    /\ UNCHANGED <<isLowPower, cpu, wifi, enabled, mode>>

Restore(t) == Begin(t, "restore", FALSE)

\* The destructor.  The main task's Lock is never destroyed: it is taken by
\* enterDeepSleep(), which does not return.
Unlock(t) ==
    /\ t # MainTask /\ inScope[t] /\ pc[t] = "idle"
    /\ inScope' = [inScope EXCEPT ![t] = FALSE]
    /\ valid' = [valid EXCEPT ![t] = FALSE]
    /\ currentLockMode' = IF valid[t] THEN "None" ELSE currentLockMode
    /\ UNCHANGED <<isLowPower, cpu, wifi, callVars>>

\* The main task turns Wi-Fi on and off.
SwitchWifi ==
    /\ pc[MainTask] = "idle" /\ wifi' = ~wifi
    /\ UNCHANGED <<currentLockMode, isLowPower, cpu, callVars, valid, inScope>>

Next ==
    \/ \E saving \in BOOLEAN : SetPowerSaving(saving)
    \/ SwitchWifi
    \/ \E t \in Tasks : \/ Decide(t) \/ SetClock(t) \/ SetClockFails(t)
                        \/ SetFlag(t) \/ Lock(t) \/ Restore(t) \/ Unlock(t)

Spec == Init /\ [][Next]_vars

\* The main loop calls setPowerSaving() again and again, every call returns,
\* and the clock cannot fail to change for ever.
Fairness ==
    /\ WF_vars(SetPowerSaving(TRUE) \/ SetPowerSaving(FALSE))
    /\ \A t \in Tasks :
          /\ WF_vars(Decide(t)) /\ WF_vars(SetFlag(t)) /\ WF_vars(Restore(t))
          /\ SF_vars(SetClock(t))

FairSpec == Spec /\ Fairness

-----------------------------------------------------------------------------
(* Properties. *)

TypeOK ==
    /\ currentLockMode \in {"None", "NormalSpeed"}
    /\ isLowPower \in BOOLEAN /\ wifi \in BOOLEAN
    /\ cpu \in {"low", "normal"}
    /\ pc \in [Tasks -> {"idle", "restore", "decide", "lowering", "lowered",
                         "raising", "raised"}]
    /\ enabled \in [Tasks -> BOOLEAN]
    /\ mode \in [Tasks -> {"None", "NormalSpeed"}]
    /\ valid \in [Tasks -> BOOLEAN] /\ inScope \in [Tasks -> BOOLEAN]

\* isLowPower, which setPowerSaving() reads and writes without a mutex, tells
\* the truth about the clock whenever no call is between the two writes, so a
\* race never leaves the device slow with the flag saying it is fast.
FlagMatchesClock ==
    (\A t \in Tasks : pc[t] \notin {"lowered", "raised"})
        => (isLowPower <=> cpu = "low")

\* currentLockMode is held by exactly one Lock: an ignored Lock that goes out
\* of scope does not release the mode another task's Lock still owns.
OneLockOwnsTheMode ==
    /\ currentLockMode = "NormalSpeed" <=> \E t \in Tasks : valid[t]
    /\ \A t, u \in Tasks : valid[t] /\ valid[u] => t = u

\* A clock lowered in the window of the stale lock mode does not stay low: the
\* main loop's next call restores it, however long the Lock is held.
SlownessIsRepaired ==
    (cpu = "low" /\ ~inScope[MainTask] /\ \E t \in Tasks : valid[t])
        ~> (cpu = "normal" \/ inScope[MainTask] \/ ~\E t \in Tasks : valid[t])
=============================================================================
