------------------------- MODULE PowerManagerProofs -------------------------
(***************************************************************************)
(* The clock flag and the lock mode of PowerManager, for any set of tasks. *)
(***************************************************************************)
EXTENDS PowerManager, TLAPS

\* Only the holder of the mode and the main task are ever inside
\* setPowerSaving(), and only the main task lowers the clock.
OnlyHoldersCall ==
    /\ \A t \in Tasks : valid[t] => inScope[t]
    /\ \A t \in Tasks \ {MainTask} :
          /\ pc[t] # "idle" => valid[t]
          /\ pc[t] \notin {"lowering", "lowered"}
          /\ pc[t] = "decide" => ~enabled[t]

\* While another task restores the clock, the main task is not lowering it,
\* and a call of the main task that could still decide to lower it began
\* before that task took its Lock and finds the flag set.
NoCrossing ==
    \A t \in Tasks \ {MainTask} :
        pc[t] \in {"raising", "raised"} =>
            /\ pc[MainTask] \notin {"lowering", "lowered"}
            /\ pc[MainTask] = "decide" /\ mode[MainTask] = "None"
               /\ enabled[MainTask] => isLowPower

\* What the flag says of the clock, between the two writes too.
ClockTrack ==
    /\ pc[MainTask] \in {"lowering", "lowered"} => ~isLowPower
    /\ pc[MainTask] = "lowered" => cpu = "low"
    /\ \A t \in Tasks : pc[t] = "raised" => cpu = "normal"
    /\ FlagMatchesClock

IInv == TypeOK /\ OneLockOwnsTheMode /\ OnlyHoldersCall /\ NoCrossing /\ ClockTrack

-----------------------------------------------------------------------------
(* Each kind of step preserves the invariant. *)

LEMMA InitIInv == Init => IInv
  BY TasksAssumption
     DEF Init, IInv, TypeOK, OneLockOwnsTheMode, OnlyHoldersCall, NoCrossing,
         ClockTrack, FlagMatchesClock

\* A call of setPowerSaving() begins: only the main task's may enable saving.
Begins(t) ==
    \/ t = MainTask /\ \E saving \in BOOLEAN : SetPowerSaving(saving)
    \/ Restore(t)

LEMMA BeginKeepsIInv ==
  ASSUME IInv, NEW t \in Tasks, Begins(t)
  PROVE  IInv'
  <1>1. PICK from \in {"idle", "restore"}, saving \in BOOLEAN :
           /\ Begin(t, from, saving)
           /\ t # MainTask => from = "restore" /\ saving = FALSE
    BY DEF Begins, SetPowerSaving, Restore
  <1> USE <1>1
  <1>2. TypeOK'
    BY DEF IInv, TypeOK, Begin, Goes
  <1>3. OneLockOwnsTheMode'
    BY DEF IInv, OneLockOwnsTheMode, Begin
  <1>4. OnlyHoldersCall'
    BY DEF IInv, TypeOK, OnlyHoldersCall, Begin, Goes
  <1>5. NoCrossing'
    BY TasksAssumption
       DEF IInv, TypeOK, OneLockOwnsTheMode, OnlyHoldersCall, NoCrossing,
           Begin, Goes
  <1>6. ClockTrack'
    BY TasksAssumption
       DEF IInv, TypeOK, ClockTrack, FlagMatchesClock, Begin, Goes
  <1> QED BY <1>2, <1>3, <1>4, <1>5, <1>6 DEF IInv

LEMMA DecideKeepsIInv ==
  ASSUME IInv, NEW t \in Tasks, Decide(t)
  PROVE  IInv'
  <1>0. /\ Decision(t) \in {"idle", "lowering", "raising"}
        /\ Decision(t) = "lowering" =>
              mode[t] = "None" /\ enabled[t] /\ ~isLowPower
        /\ Decision(t) = "raising" => isLowPower
    BY DEF Decision, IInv, TypeOK
  <1>1. TypeOK'
    BY <1>0 DEF IInv, TypeOK, Decide, Goes
  <1>2. OneLockOwnsTheMode'
    BY DEF IInv, OneLockOwnsTheMode, Decide
  <1>3. OnlyHoldersCall'
    BY <1>0 DEF IInv, TypeOK, OnlyHoldersCall, Decide, Goes
  <1>4. NoCrossing'
    BY <1>0, TasksAssumption
       DEF IInv, TypeOK, OnlyHoldersCall, NoCrossing, ClockTrack, Decide, Goes
  <1>5. ClockTrack'
    BY <1>0, TasksAssumption
       DEF IInv, TypeOK, ClockTrack, FlagMatchesClock, Decide, Goes
  <1> QED BY <1>1, <1>2, <1>3, <1>4, <1>5 DEF IInv

LEMMA SetClockKeepsIInv ==
  ASSUME IInv, NEW t \in Tasks, SetClock(t) \/ SetClockFails(t)
  PROVE  IInv'
  <1>1. TypeOK'
    BY DEF IInv, TypeOK, SetClock, SetClockFails, Goes
  <1>2. OneLockOwnsTheMode'
    BY DEF IInv, OneLockOwnsTheMode, SetClock, SetClockFails
  <1>3. OnlyHoldersCall'
    BY DEF IInv, TypeOK, OnlyHoldersCall, SetClock, SetClockFails, Goes
  <1>4. NoCrossing'
    BY TasksAssumption
       DEF IInv, TypeOK, NoCrossing, SetClock, SetClockFails, Goes
  <1>5. ClockTrack'
    BY TasksAssumption
       DEF IInv, TypeOK, OnlyHoldersCall, NoCrossing, ClockTrack,
           FlagMatchesClock, SetClock, SetClockFails, Goes
  <1> QED BY <1>1, <1>2, <1>3, <1>4, <1>5 DEF IInv

LEMMA SetFlagKeepsIInv ==
  ASSUME IInv, NEW t \in Tasks, SetFlag(t)
  PROVE  IInv'
  <1>1. TypeOK'
    BY DEF IInv, TypeOK, SetFlag, Goes
  <1>2. OneLockOwnsTheMode'
    BY DEF IInv, OneLockOwnsTheMode, SetFlag
  <1>3. OnlyHoldersCall'
    BY DEF IInv, TypeOK, OnlyHoldersCall, SetFlag, Goes
  <1>4. NoCrossing'
    BY TasksAssumption
       DEF IInv, TypeOK, OneLockOwnsTheMode, OnlyHoldersCall, NoCrossing,
           SetFlag, Goes
  <1>5. ClockTrack'
    BY TasksAssumption
       DEF IInv, TypeOK, OnlyHoldersCall, NoCrossing, ClockTrack,
           FlagMatchesClock, SetFlag, Goes
  <1> QED BY <1>1, <1>2, <1>3, <1>4, <1>5 DEF IInv

LEMMA LockKeepsIInv ==
  ASSUME IInv, NEW t \in Tasks, Lock(t) \/ Unlock(t)
  PROVE  IInv'
  <1>1. TypeOK'
    BY DEF IInv, TypeOK, Lock, Unlock, Granted, Goes, callVars
  <1>2. OneLockOwnsTheMode'
    <2>1. CASE Lock(t) /\ Granted
      <3>1. valid' = [valid EXCEPT ![t] = TRUE] /\ \A u \in Tasks : ~valid[u]
        BY <2>1 DEF IInv, OneLockOwnsTheMode, Lock, Granted
      <3>2. \A u \in Tasks : valid'[u] <=> u = t
        BY <3>1 DEF IInv, TypeOK
      <3> QED BY <2>1, <3>2 DEF OneLockOwnsTheMode, Lock
    <2>2. CASE Lock(t) /\ ~Granted
      <3>1. ~valid[t]
        BY <2>2 DEF IInv, OnlyHoldersCall, Lock
      <3> QED BY <2>2, <3>1 DEF IInv, TypeOK, OneLockOwnsTheMode, Lock, Granted
    <2>3. CASE Unlock(t)
      BY <2>3 DEF IInv, TypeOK, OneLockOwnsTheMode, Unlock
    <2> QED BY <2>1, <2>2, <2>3
  <1>3. OnlyHoldersCall'
    <2>1. CASE Lock(t) /\ Granted
      BY <2>1 DEF IInv, TypeOK, OnlyHoldersCall, Lock, Goes
    <2>2. CASE Lock(t) /\ ~Granted
      BY <2>2 DEF IInv, TypeOK, OnlyHoldersCall, Lock, Goes
    <2>3. CASE Unlock(t)
      BY <2>3 DEF IInv, TypeOK, OnlyHoldersCall, Unlock, callVars
    <2> QED BY <2>1, <2>2, <2>3
  <1>4. NoCrossing'
    BY TasksAssumption
       DEF IInv, TypeOK, NoCrossing, Lock, Unlock, Granted, Goes, callVars
  <1>5. ClockTrack'
    BY TasksAssumption
       DEF IInv, TypeOK, ClockTrack, FlagMatchesClock, Lock, Unlock, Granted,
           Goes, callVars
  <1> QED BY <1>1, <1>2, <1>3, <1>4, <1>5 DEF IInv

LEMMA NextIInv == IInv /\ [Next]_vars => IInv'
  <1> SUFFICES ASSUME IInv, [Next]_vars PROVE IInv'
    OBVIOUS
  <1>1. CASE \E saving \in BOOLEAN : SetPowerSaving(saving)
    <2>1. Begins(MainTask)
      BY <1>1 DEF Begins
    <2> QED BY <2>1, BeginKeepsIInv, TasksAssumption
  <1>2. CASE SwitchWifi \/ UNCHANGED vars
    <2>1. /\ wifi' \in BOOLEAN
          /\ UNCHANGED <<currentLockMode, isLowPower, cpu, pc, enabled, mode,
                         valid, inScope>>
      BY <1>2 DEF SwitchWifi, vars, callVars, IInv, TypeOK
    <2>2. TypeOK'
      BY <2>1 DEF IInv, TypeOK
    <2>3. OneLockOwnsTheMode' /\ OnlyHoldersCall' /\ NoCrossing'
      BY <2>1 DEF IInv, OneLockOwnsTheMode, OnlyHoldersCall, NoCrossing
    <2>4. ClockTrack'
      BY <2>1 DEF IInv, ClockTrack, FlagMatchesClock
    <2> QED BY <2>2, <2>3, <2>4 DEF IInv
  <1>3. ASSUME NEW t \in Tasks, Decide(t) PROVE IInv'
    BY <1>3, DecideKeepsIInv
  <1>4. ASSUME NEW t \in Tasks, SetClock(t) \/ SetClockFails(t) PROVE IInv'
    BY <1>4, SetClockKeepsIInv
  <1>5. ASSUME NEW t \in Tasks, SetFlag(t) PROVE IInv'
    BY <1>5, SetFlagKeepsIInv
  <1>6. ASSUME NEW t \in Tasks, Lock(t) \/ Unlock(t) PROVE IInv'
    BY <1>6, LockKeepsIInv
  <1>7. ASSUME NEW t \in Tasks, Restore(t) PROVE IInv'
    BY <1>7, BeginKeepsIInv DEF Begins
  <1> QED BY <1>1, <1>2, <1>3, <1>4, <1>5, <1>6, <1>7 DEF Next

-----------------------------------------------------------------------------
(* The theorems. *)

LEMMA InvariantIInv == Spec => []IInv
  BY InitIInv, NextIInv, PTL DEF Spec

\* The variables of the power manager keep their types.
THEOREM TypeCorrect == Spec => []TypeOK
  BY InvariantIInv, PTL DEF IInv

\* However setPowerSaving() and the Locks of any number of tasks interleave,
\* isLowPower agrees with the clock when no call is between its two writes.
THEOREM FlagIsRight == Spec => []FlagMatchesClock
  BY InvariantIInv, PTL DEF IInv, ClockTrack

\* The lock mode is set exactly while one Lock owns it.
THEOREM ModeIsOwned == Spec => []OneLockOwnsTheMode
  BY InvariantIInv, PTL DEF IInv
=============================================================================
