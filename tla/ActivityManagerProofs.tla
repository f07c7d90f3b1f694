----------------------- MODULE ActivityManagerProofs -----------------------
(***************************************************************************)
(* Safety of ActivityManager for any set of activities and any number of   *)
(* calls per loop(), proved from the inductive invariant IInv.             *)
(***************************************************************************)
EXTENDS ActivityManager, SequenceTheorems, TLAPS

\* Who holds the mutex is where its task is; the render task has something to
\* render as long as it renders.
MutexInv ==
    /\ renderingMutex = "main" <=> mainPc = "locked"
    /\ renderingMutex = "render"
          <=> renderPc \in {"render", "signal", "notify", "release"}
    /\ renderPc = "render" => currentActivity # NoActivity

\* The wake-up of the one waiter is in one place at a time: the wait slot, the
\* render task that took it, or the main task's notification count.
WaitInv ==
    /\ waitingTask => ~mainNotified /\ renderPc # "notify"
    /\ mainNotified => renderPc # "notify"
    /\ mainPc \notin {"posting", "waiting"}
          => ~waitingTask /\ ~mainNotified /\ renderPc # "notify"

\* A request in flight has its object, and an activity to act on.
PendingInv ==
    /\ pendingActivity # NoActivity <=> pendingAction \in {"Push", "Replace"}
    /\ pendingAction # "None" => currentActivity # NoActivity
    /\ mainPc = "home" => currentActivity = NoActivity

\* No activity object is owned twice, and only an activity has parents.
OwnershipInv ==
    /\ \A i, j \in DOMAIN stackActivities :
          stackActivities[i] = stackActivities[j] => i = j
    /\ \A i \in DOMAIN stackActivities :
          stackActivities[i] \notin {currentActivity, pendingActivity}
    /\ currentActivity # NoActivity => currentActivity # pendingActivity
    /\ stackActivities # <<>> => currentActivity # NoActivity

\* The activity opened on top of the i-th of the stack.
Child(i) == IF i = Len(stackActivities) THEN currentActivity
                                        ELSE stackActivities[i + 1]

\* A stored handler is for the activity on top of its owner, or about to be.
HandlerInv ==
    /\ \A i \in DOMAIN stackActivities :
          resultHandler[stackActivities[i]] \in {NoActivity, Child(i)}
    /\ \A a \in Activities :
          resultHandler[a] # NoActivity =>
              a = currentActivity
              \/ \E i \in DOMAIN stackActivities : a = stackActivities[i]
    /\ currentActivity # NoActivity
       /\ resultHandler[currentActivity] # NoActivity =>
          \/ pendingAction \in {"Pop", "Replace"}
          \/ pendingAction = "Push"
             /\ pendingActivity = resultHandler[currentActivity]

\* A result is handed down only while the handler runs.
DeliveryInv ==
    /\ delivered.from = delivered.awaited
    /\ mainPc \in {"check", "home", "loop", "idle", "flush", "halted"}
          => delivered = NoDelivery
    /\ delivered # NoDelivery => context = "handler"

IInv == /\ TypeOK /\ MutexInv /\ WaitInv /\ PendingInv
        /\ OwnershipInv /\ HandlerInv /\ DeliveryInv

-----------------------------------------------------------------------------
(* The three kinds of steps: those that leave the activities alone, the     *)
(* requests activity code makes, and the transitions of the manager.       *)

Requests ==
    \/ \E a \in Activities :
          \/ CallStartActivityForResult(a) \/ CallPushActivity(a)
          \/ CallReplaceActivity(a)
    \/ \E held \in BOOLEAN : CallFinish(held)
    \/ \E a \in Activities, sleep \in BOOLEAN : MainReplaces(a, sleep)

Transitions ==
    \/ LoopPop \/ LoopPopLast \/ LoopLaunch
    \/ \E a \in Activities : LoopGoHome(a)

Others ==
    \/ \E immediate \in BOOLEAN : CallRequestUpdate(immediate)
    \/ CallRequestUpdateAndWait \/ CallLongPress \/ CallLock
    \/ MainAcquire \/ MainUnlock \/ MainPost \/ MainWake \/ CallReturn
    \/ \E usbChanged \in BOOLEAN : MainLoop(usbChanged)
    \/ MainTakesLock
    \/ LoopSuppressed \/ LoopActivity \/ LoopSettled \/ LoopFlush
    \/ RenderTask \/ UNCHANGED vars

LEMMA StepKinds == [Next]_vars => Requests \/ Transitions \/ Others
  BY DEF Next, MainTask, ActivityCode, Halted, Requests, Transitions, Others

LEMMA OthersKeepActivities == Others => UNCHANGED navVars
  BY DEF Others, CallRequestUpdate, CallRequestUpdateAndWait, CallLongPress,
         CallLock, MainAcquire, MainUnlock, MainPost, MainWake, CallReturn,
         MainLoop, MainTakesLock, LoopSuppressed, LoopActivity, LoopSettled,
         LoopFlush, RenderTask, RenderTake, RenderAcquire,
         RenderRequestsUpdate, RenderDone, RenderSignal, RenderNotify,
         RenderRelease, vars

-----------------------------------------------------------------------------
(* The parts of the invariant. *)

LEMMA InitIInv == Init => IInv
  <1> SUFFICES ASSUME Init PROVE IInv
    OBVIOUS
  <1> USE ActivitiesAssumption, MaxCallsAssumption DEF Init
  <1>1. TypeOK
    <2>1. stackActivities \in Seq(Activities)
      OBVIOUS
    <2>2. delivered \in [from : MaybeActivity, awaited : MaybeActivity]
      BY DEF NoDelivery, MaybeActivity
    <2>3. resultHandler \in [Activities -> MaybeActivity] /\ calls \in 0..MaxCalls
      BY DEF MaybeActivity
    <2> QED BY <2>1, <2>2, <2>3 DEF TypeOK, MaybeActivity
  <1>2. MutexInv /\ WaitInv /\ PendingInv
    BY DEF MutexInv, WaitInv, PendingInv
  <1>3. OwnershipInv /\ HandlerInv
    BY DEF OwnershipInv, HandlerInv
  <1>4. DeliveryInv
    BY DEF DeliveryInv, NoDelivery
  <1> QED BY <1>1, <1>2, <1>3, <1>4 DEF IInv

LEMMA MutexKept ==
  ASSUME IInv, [Next]_vars
  PROVE  MutexInv'
  <1> USE DEF MutexInv
  <1>1. CASE Requests
    BY <1>1 DEF IInv, Requests, InActivityCode, CallStartActivityForResult,
         CallPushActivity, CallReplaceActivity, CallFinish, MainReplaces,
         Push, Pop, Pend, Replace, Fresh, ActivitiesAssumption
  <1>2. CASE Transitions
    BY <1>2 DEF IInv, PendingInv, Transitions, LoopPop, LoopPopLast, LoopLaunch, LoopGoHome, LockIsFree, MainGoes, Replace
  <1>3. CASE Others
    <2>1. UNCHANGED currentActivity
      BY <1>3, OthersKeepActivities DEF navVars
    <2>2. CASE RenderTask
      BY <2>1, <2>2 DEF IInv, RenderTask, RenderTake, RenderAcquire, RenderRequestsUpdate, RenderDone, RenderSignal, RenderNotify, RenderRelease, RenderGoes, LockIsFree, AfterAcquire
    <2>3. CASE ~RenderTask
      BY <1>3, <2>1, <2>3 DEF IInv, Others, CallRequestUpdate, CallRequestUpdateAndWait, CallLongPress, CallLock, MainAcquire, MainUnlock, MainPost, MainWake, CallReturn, MainLoop, MainTakesLock, LoopSuppressed, LoopActivity, LoopSettled, LoopFlush, MainGoes, LockIsFree, AfterLoop, vars
    <2> QED BY <2>2, <2>3
  <1> QED BY <1>1, <1>2, <1>3, StepKinds

LEMMA WaitKept ==
  ASSUME IInv, [Next]_vars
  PROVE  WaitInv'
  <1> USE DEF WaitInv, signalVars
  <1>1. CASE Requests
    BY <1>1 DEF IInv, TypeOK, Requests, InActivityCode, MainReplaces,
         CallStartActivityForResult, CallPushActivity, CallReplaceActivity,
         CallFinish
  <1>2. CASE Transitions
    BY <1>2 DEF IInv, Transitions, LoopPop, LoopPopLast, LoopLaunch,
         LoopGoHome, MainGoes
  <1>3. CASE RenderTask
    BY <1>3 DEF IInv, RenderTask, RenderTake, RenderAcquire,
         RenderRequestsUpdate, RenderDone, RenderSignal, RenderNotify,
         RenderRelease, RenderGoes, AfterAcquire, WaiterTaken
  <1>4. CASE Others /\ ~RenderTask
    <2>1. CASE CallReturn
      <3>1. mainPc' \in {"idle", "loop", "flush", "check"}
        BY <2>1 DEF CallReturn
      <3> QED BY <2>1, <3>1 DEF IInv, CallReturn
    <2>2. CASE ~CallReturn
      BY <1>4, <2>2 DEF IInv, Others, InActivityCode, CallRequestUpdate,
           CallRequestUpdateAndWait, CallLongPress, CallLock, MainAcquire,
           MainUnlock, MainPost, MainWake, MainLoop, MainTakesLock,
           LoopSuppressed, LoopActivity, LoopSettled, LoopFlush, MainGoes,
           AfterLoop, vars
    <2> QED BY <2>1, <2>2
  <1> QED BY <1>1, <1>2, <1>3, <1>4, StepKinds

LEMMA PendingKept ==
  ASSUME IInv, [Next]_vars
  PROVE  PendingInv'
  <1> USE ActivitiesAssumption DEF PendingInv, navVars
  <1>1. CASE Requests
    BY <1>1 DEF IInv, Requests, InActivityCode, MainReplaces,
         CallStartActivityForResult, CallPushActivity, CallReplaceActivity,
         CallFinish, Push, Pop, Pend, Replace, Fresh
  <1>2. CASE Transitions
    <2>1. CASE LoopPop
      BY <2>1 DEF IInv, OwnershipInv, LoopPop, LoopPop, TypeOK, Last
    <2>2. CASE ~LoopPop
      BY <1>2, <2>2 DEF IInv, Transitions, LoopPopLast, LoopLaunch, LoopGoHome,
         MainGoes, Replace, Pend, Fresh
    <2> QED BY <2>1, <2>2
  <1>3. CASE Others
    <2>1. UNCHANGED navVars
      BY <1>3, OthersKeepActivities
    <2>2. mainPc' = "home" => mainPc = "home"
      BY <1>3 DEF Others, CallRequestUpdate, CallRequestUpdateAndWait,
           CallLongPress, CallLock, MainAcquire, MainUnlock, MainPost,
           MainWake, CallReturn, MainLoop, MainTakesLock, LoopSuppressed,
           LoopActivity, LoopSettled, LoopFlush, MainGoes, AfterLoop, RenderTask,
           RenderTake, RenderAcquire, RenderRequestsUpdate, RenderDone,
           RenderSignal, RenderNotify, RenderRelease, RenderGoes, vars
    <2> QED BY <2>1, <2>2 DEF IInv
  <1> QED BY <1>1, <1>2, <1>3, StepKinds

LEMMA DeliveryKept ==
  ASSUME IInv, [Next]_vars
  PROVE  DeliveryInv'
  <1> USE DEF DeliveryInv, historyVars
  <1>1. CASE Requests
    BY <1>1 DEF IInv, Requests, InActivityCode, MainReplaces,
         CallStartActivityForResult, CallPushActivity, CallReplaceActivity,
         CallFinish
  <1>2. CASE Transitions
    <2>1. CASE LoopPop
      <3>1. resultHandler[Last(stackActivities)] \in {NoActivity, currentActivity}
        BY <2>1 DEF LoopPop, IInv, TypeOK, HandlerInv, Child, Last
      <3> QED BY <2>1, <3>1 DEF LoopPop, IInv
    <2>2. CASE ~LoopPop
      BY <1>2, <2>2 DEF IInv, Transitions, LoopPopLast, LoopLaunch, LoopGoHome,
           MainGoes
    <2> QED BY <2>1, <2>2
  <1>3. CASE CallReturn
    BY <1>3 DEF CallReturn, NoDelivery
  <1>4. CASE Others /\ ~CallReturn
    BY <1>4 DEF IInv, Others, CallRequestUpdate, CallRequestUpdateAndWait,
         CallLongPress, CallLock, MainAcquire, MainUnlock, MainPost,
         MainWake, MainLoop, MainTakesLock, LoopSuppressed,
         LoopActivity, LoopSettled, LoopFlush, MainGoes, RenderTask,
         RenderTake, RenderAcquire, RenderRequestsUpdate, RenderDone,
         RenderSignal, RenderNotify, RenderRelease, RenderGoes, vars, InActivityCode, NoDelivery
  <1> QED BY <1>1, <1>2, <1>3, <1>4, StepKinds

-----------------------------------------------------------------------------
(* Popping and pushing on the stack. *)

LEMMA FrontOfStack ==
  ASSUME NEW S, NEW s \in Seq(S), s # <<>>
  PROVE  /\ Front(s) \in Seq(S) /\ Last(s) \in S
         /\ Len(s) \in Nat \ {0} /\ DOMAIN s = 1..Len(s)
         /\ Last(s) = s[Len(s)]
         /\ Len(Front(s)) = Len(s) - 1
         /\ DOMAIN Front(s) = 1..(Len(s) - 1)
         /\ \A i \in 1..(Len(s) - 1) : Front(s)[i] = s[i]
  <1>1. /\ Len(s) \in Nat \ {0} /\ DOMAIN s = 1..Len(s)
        /\ \A i \in 1..Len(s) : s[i] \in S
    BY LenProperties, EmptySeq
  <1>2. /\ Front(s) \in Seq(S) /\ Len(Front(s)) = Len(s) - 1
        /\ \A i \in 1..(Len(s) - 1) : Front(s)[i] = s[i]
    BY <1>1, SubSeqProperties DEF Front
  <1> QED BY <1>1, <1>2, LenProperties DEF Last

LEMMA AppendToStack ==
  ASSUME NEW S, NEW s \in Seq(S), NEW e \in S
  PROVE  /\ Append(s, e) \in Seq(S)
         /\ Len(s) \in Nat /\ DOMAIN s = 1..Len(s)
         /\ Len(Append(s, e)) = Len(s) + 1
         /\ DOMAIN Append(s, e) = 1..(Len(s) + 1)
         /\ Append(s, e)[Len(s) + 1] = e
         /\ \A i \in 1..Len(s) : Append(s, e)[i] = s[i]
  OBVIOUS

\* A new object is owned by nobody.
LEMMA FreshIsUnowned ==
  ASSUME NEW a, Fresh(a)
  PROVE  /\ a \in Activities /\ a \notin {currentActivity, pendingActivity}
         /\ \A i \in DOMAIN stackActivities : stackActivities[i] # a
  BY DEF Fresh, InUse, ToSet

LEMMA RequestsKeepOwnership ==
  ASSUME IInv, Requests
  PROVE  OwnershipInv' /\ HandlerInv'
  <1> USE ActivitiesAssumption
  <1>0. UNCHANGED stackActivities
    BY DEF Requests, CallStartActivityForResult, CallPushActivity,
           CallReplaceActivity, CallFinish, MainReplaces
  <1>1. ASSUME NEW a \in Activities, CallStartActivityForResult(a)
        PROVE  OwnershipInv' /\ HandlerInv'
    <2> USE <1>0, <1>1 DEF IInv, CallStartActivityForResult, Push, Pend
    <2>1. OwnershipInv'
      BY FreshIsUnowned DEF OwnershipInv
    <2>2. \A b \in Activities :
             resultHandler'[b] = IF b = currentActivity THEN a
                                                        ELSE resultHandler[b]
      BY DEF TypeOK
    <2>3. \A i \in DOMAIN stackActivities :
             stackActivities[i] \in Activities \ {currentActivity}
      BY DEF TypeOK, OwnershipInv
    <2>4. currentActivity \in Activities
      BY DEF TypeOK, MaybeActivity
    <2>5. HandlerInv'
      BY <2>2, <2>3, <2>4 DEF HandlerInv, Child
    <2> QED BY <2>1, <2>5
  <1>2. ASSUME NEW a \in Activities, CallPushActivity(a)
        PROVE  OwnershipInv' /\ HandlerInv'
    BY <1>0, <1>2, FreshIsUnowned
       DEF IInv, OwnershipInv, HandlerInv, Child, CallPushActivity, Push, Pend
  <1>3. ASSUME NEW held \in BOOLEAN, CallFinish(held)
        PROVE  OwnershipInv' /\ HandlerInv'
    BY <1>0, <1>3, FreshIsUnowned
       DEF IInv, OwnershipInv, HandlerInv, Child, CallFinish, Pop, Pend, TypeOK, MaybeActivity
  <1>4. ASSUME NEW a \in Activities, Fresh(a), Replace(a),
               UNCHANGED resultHandler
        PROVE  OwnershipInv' /\ HandlerInv'
    BY <1>0, <1>4, FreshIsUnowned
       DEF IInv, PendingInv, OwnershipInv, HandlerInv, Child, Replace, Pend, TypeOK, MaybeActivity
  <1> QED BY <1>1, <1>2, <1>3, <1>4
          DEF Requests, CallReplaceActivity, MainReplaces

LEMMA PopKeepsOwnership ==
  ASSUME IInv, LoopPop
  PROVE  OwnershipInv' /\ HandlerInv'
  <1> DEFINE parent == Last(stackActivities)
             n == Len(stackActivities)
  <1>1. /\ stackActivities' = Front(stackActivities)
        /\ currentActivity' = parent /\ UNCHANGED pendingActivity
        /\ parent = stackActivities[n] /\ parent \in Activities
        /\ n \in Nat \ {0} /\ DOMAIN stackActivities = 1..n
        /\ Len(stackActivities') = n - 1
        /\ DOMAIN stackActivities' = 1..(n - 1)
        /\ \A i \in 1..(n - 1) :
              /\ stackActivities'[i] = stackActivities[i]
              /\ stackActivities[i] \in Activities
    BY FrontOfStack DEF LoopPop, IInv, TypeOK
  <1>2. OwnershipInv'
    BY <1>1, ActivitiesAssumption DEF IInv, OwnershipInv
  <1>3. \A a \in Activities :
           resultHandler'[a] = IF a \in {currentActivity, parent}
                               THEN NoActivity ELSE resultHandler[a]
    BY DEF LoopPop, WithoutHandlers
  <1>4. \A i \in 1..(n - 1) :
           /\ stackActivities[i] \notin {currentActivity, parent}
           /\ resultHandler[stackActivities[i]]
                 \in {NoActivity, stackActivities[i + 1]}
    BY <1>1 DEF IInv, OwnershipInv, HandlerInv, Child
  <1>5. HandlerInv'
    <2>1. \A i \in DOMAIN stackActivities' :
             (resultHandler[stackActivities[i]] \in {NoActivity, Child(i)})'
      BY <1>1, <1>3, <1>4 DEF Child
    <2>2. \A a \in Activities : resultHandler'[a] # NoActivity =>
             \E i \in 1..(n - 1) : a = stackActivities[i]
      BY <1>1, <1>3 DEF IInv, HandlerInv
    <2>3. resultHandler'[currentActivity'] = NoActivity
      BY <1>1, <1>3
    <2> QED BY <1>1, <2>1, <2>2, <2>3 DEF HandlerInv
  <1> QED BY <1>2, <1>5

LEMMA LaunchKeepsOwnership ==
  ASSUME IInv, LoopLaunch
  PROVE  OwnershipInv' /\ HandlerInv'
  <1>1. /\ currentActivity' = pendingActivity
        /\ pendingActivity' = NoActivity /\ pendingAction' = "None"
        /\ pendingActivity \in Activities
        /\ currentActivity \in Activities
        /\ pendingActivity # currentActivity
    BY DEF LoopLaunch, Pend, IInv, TypeOK, MaybeActivity, PendingInv,
           OwnershipInv
  <1>2. CASE pendingAction = "Replace"
    <2>1. stackActivities' = <<>> /\ DOMAIN stackActivities' = {}
      BY <1>2 DEF LoopLaunch, LaunchedOn
    <2>2. \A a \in Activities : resultHandler'[a] = NoActivity
      BY <1>2 DEF LoopLaunch, WithoutHandlers
    <2> QED BY <1>1, <2>1, <2>2, ActivitiesAssumption DEF OwnershipInv, HandlerInv
  <1>3. CASE pendingAction = "Push"
    <2> DEFINE n == Len(stackActivities)
    <2>1. /\ stackActivities' = Append(stackActivities, currentActivity)
          /\ n \in Nat /\ DOMAIN stackActivities = 1..n
          /\ Len(stackActivities') = n + 1
          /\ DOMAIN stackActivities' = 1..(n + 1)
          /\ stackActivities'[n + 1] = currentActivity
          /\ \A i \in 1..n : stackActivities'[i] = stackActivities[i]
      BY <1>1, <1>3, AppendToStack DEF LoopLaunch, LaunchedOn, IInv, TypeOK
    <2>2. \A i \in 1..n : stackActivities[i] \in Activities
      BY <2>1 DEF IInv, TypeOK
    <2>3. UNCHANGED resultHandler
      BY <1>3 DEF LoopLaunch
    <2>4. OwnershipInv'
      BY <1>1, <2>1, <2>2, ActivitiesAssumption DEF IInv, OwnershipInv
    <2>5. \A i \in DOMAIN stackActivities' :
             (resultHandler[stackActivities[i]] \in {NoActivity, Child(i)})'
      <3>1. ASSUME NEW i \in 1..n
            PROVE  resultHandler[stackActivities[i]]
                      \in {NoActivity, stackActivities'[i + 1]}
        BY <2>1 DEF IInv, HandlerInv, Child
      <3>2. resultHandler[currentActivity] \in {NoActivity, pendingActivity}
        BY <1>1, <1>3, ActivitiesAssumption DEF IInv, HandlerInv
      <3> QED BY <1>1, <2>1, <2>3, <3>1, <3>2 DEF Child
    <2>6. \A a \in Activities : resultHandler[a] # NoActivity =>
             \E i \in 1..(n + 1) : a = stackActivities'[i]
      BY <2>1 DEF IInv, HandlerInv
    <2>7. resultHandler[pendingActivity] = NoActivity
      BY <1>1, <2>1 DEF IInv, HandlerInv, OwnershipInv
    <2> QED BY <1>1, <2>1, <2>3, <2>4, <2>5, <2>6, <2>7 DEF HandlerInv
  <1> QED BY <1>2, <1>3 DEF LoopLaunch

LEMMA EmptyingKeepsOwnership ==
  ASSUME IInv, LoopPopLast \/ \E a \in Activities : LoopGoHome(a)
  PROVE  OwnershipInv' /\ HandlerInv'
  <1> USE ActivitiesAssumption
  <1>1. CASE LoopPopLast
    <2>1. stackActivities' = <<>> /\ DOMAIN stackActivities' = {}
          /\ DOMAIN stackActivities = {}
      BY <1>1 DEF LoopPopLast
    <2>2. \A a \in Activities :
             resultHandler'[a] = IF a = currentActivity THEN NoActivity
                                                        ELSE resultHandler[a]
      BY <1>1 DEF LoopPopLast, WithoutHandlers
    <2> QED BY <1>1, <2>1, <2>2 DEF LoopPopLast, IInv, OwnershipInv, HandlerInv
  <1>2. ASSUME NEW a \in Activities, LoopGoHome(a)
        PROVE  OwnershipInv' /\ HandlerInv'
    <2>1. /\ currentActivity' = a /\ UNCHANGED <<stackActivities, resultHandler, pendingActivity, pendingAction>>
          /\ currentActivity = NoActivity /\ stackActivities = <<>>
          /\ DOMAIN stackActivities = {}
      BY <1>2 DEF LoopGoHome, IInv, PendingInv, OwnershipInv, Replace, MainGoes
    <2>2. resultHandler[a] = NoActivity
      BY <2>1 DEF IInv, HandlerInv
    <2> QED BY <1>2, <2>1, <2>2, FreshIsUnowned DEF LoopGoHome, IInv, OwnershipInv, HandlerInv
  <1> QED BY <1>1, <1>2

LEMMA OwnershipKept ==
  ASSUME IInv, [Next]_vars
  PROVE  OwnershipInv' /\ HandlerInv'
  <1>1. CASE Others
    <2>1. UNCHANGED navVars
      BY <1>1, OthersKeepActivities
    <2> QED BY <2>1 DEF IInv, OwnershipInv, HandlerInv, Child, navVars
  <1> QED BY <1>1, StepKinds, RequestsKeepOwnership, PopKeepsOwnership,
             LaunchKeepsOwnership, EmptyingKeepsOwnership DEF Transitions

-----------------------------------------------------------------------------
(* Type correctness: of the activities, of the result on its way, and of the *)
(* flags and program counters.                                             *)

NavTypes ==
    /\ currentActivity \in MaybeActivity
    /\ stackActivities \in Seq(Activities)
    /\ pendingActivity \in MaybeActivity
    /\ pendingAction \in {"None", "Push", "Pop", "Replace"}
    /\ resultHandler \in [Activities -> MaybeActivity]

DeliveredTypes == delivered \in [from : MaybeActivity, awaited : MaybeActivity]

FlagTypes ==
    /\ requestedUpdate \in BOOLEAN /\ waitingTask \in BOOLEAN
    /\ renderNotified \in BOOLEAN /\ mainNotified \in BOOLEAN
    /\ suppressed \in BOOLEAN /\ deepSleepInProgress \in BOOLEAN
    /\ owed \in BOOLEAN /\ restored \in BOOLEAN /\ freshRender \in BOOLEAN

PcTypes ==
    /\ renderingMutex \in {"free", "main", "render"}
    /\ mainPc \in {"call", "want", "locked", "posting", "waiting", "idle",
                   "loop", "check", "home", "flush", "halted"}
    /\ context \in {"setup", "main", "loop", "exclusive", "handler", "enter"}
    /\ calls \in 0..MaxCalls
    /\ renderPc \in {"blocked", "acquire", "render", "signal", "notify",
                     "release"}

LEMMA TypeParts == TypeOK <=> NavTypes /\ DeliveredTypes /\ FlagTypes /\ PcTypes
  BY DEF TypeOK, NavTypes, DeliveredTypes, FlagTypes, PcTypes

LEMMA RequestsKeepTypes ==
  ASSUME IInv, Requests
  PROVE  TypeOK'
  <1> USE MaxCallsAssumption
  <1>0. NavTypes /\ DeliveredTypes /\ FlagTypes /\ PcTypes
    BY TypeParts DEF IInv
  <1>1. NavTypes'
    <2>1. UNCHANGED stackActivities
      BY DEF Requests, CallStartActivityForResult, CallPushActivity,
             CallReplaceActivity, CallFinish, MainReplaces
    <2>2. resultHandler' \in [Activities -> MaybeActivity]
      BY <1>0 DEF NavTypes, MaybeActivity, Requests,
             CallStartActivityForResult, CallPushActivity,
             CallReplaceActivity, CallFinish, MainReplaces
    <2>3. /\ currentActivity' \in MaybeActivity
          /\ pendingActivity' \in MaybeActivity
          /\ pendingAction' \in {"None", "Push", "Pop", "Replace"}
      BY <1>0 DEF NavTypes, MaybeActivity, Requests,
             CallStartActivityForResult, CallPushActivity,
             CallReplaceActivity, CallFinish, MainReplaces, Push, Pop, Pend,
             Replace
    <2> QED BY <1>0, <2>1, <2>2, <2>3 DEF NavTypes
  <1>2. DeliveredTypes'
    BY <1>0 DEF DeliveredTypes, Requests, CallStartActivityForResult,
         CallPushActivity, CallReplaceActivity, CallFinish, MainReplaces,
         historyVars
  <1>3. FlagTypes'
    BY <1>0 DEF FlagTypes, Requests, CallStartActivityForResult,
         CallPushActivity, CallReplaceActivity, CallFinish, MainReplaces,
         signalVars, historyVars
  <1>4. PcTypes'
    BY <1>0 DEF PcTypes, Requests, CallStartActivityForResult,
         CallPushActivity, CallReplaceActivity, CallFinish, MainReplaces,
         InActivityCode, Calling
  <1> QED BY <1>1, <1>2, <1>3, <1>4
          DEF TypeOK, NavTypes, DeliveredTypes, FlagTypes, PcTypes

LEMMA TransitionsKeepNavTypes ==
  ASSUME IInv, Transitions
  PROVE  NavTypes'
  <1> USE ActivitiesAssumption
  <1>0. NavTypes /\ PendingInv
    BY TypeParts DEF IInv
  <1>1. \A objects : WithoutHandlers(objects) \in [Activities -> MaybeActivity]
    BY <1>0 DEF WithoutHandlers, NavTypes, MaybeActivity
  <1>2. CASE LoopPop
    BY <1>0, <1>1, <1>2, FrontOfStack DEF LoopPop, NavTypes, MaybeActivity
  <1>3. CASE LoopPopLast
    BY <1>0, <1>1, <1>3 DEF LoopPopLast, NavTypes, MaybeActivity
  <1>4. CASE LoopLaunch
    <2>1. stackActivities' \in Seq(Activities)
      <3>1. CASE pendingAction = "Push"
        BY <1>0, <1>4, <3>1
           DEF LoopLaunch, LaunchedOn, PendingInv, MaybeActivity, NavTypes
      <3>2. CASE pendingAction # "Push"
        BY <1>4, <3>2 DEF LoopLaunch, LaunchedOn
      <3> QED BY <3>1, <3>2
    <2>2. resultHandler' \in [Activities -> MaybeActivity]
      BY <1>0, <1>1, <1>4 DEF LoopLaunch, NavTypes
    <2> QED BY <1>0, <1>4, <2>1, <2>2
            DEF LoopLaunch, Pend, NavTypes, MaybeActivity
  <1>5. ASSUME NEW a \in Activities, LoopGoHome(a)
        PROVE  NavTypes'
    BY <1>0, <1>5 DEF LoopGoHome, Replace, Pend, NavTypes, MaybeActivity
  <1> QED BY <1>2, <1>3, <1>4, <1>5 DEF Transitions

LEMMA TransitionsKeepTypes ==
  ASSUME IInv, Transitions
  PROVE  TypeOK'
  <1>0. NavTypes /\ DeliveredTypes /\ FlagTypes /\ PcTypes
    BY TypeParts DEF IInv
  <1>1. NavTypes'
    BY TransitionsKeepNavTypes
  <1>2. DeliveredTypes'
    <2>1. CASE LoopPop
      <3>1. Last(stackActivities) \in Activities
        BY <1>0, <2>1, FrontOfStack DEF LoopPop, NavTypes
      <3> QED BY <1>0, <2>1, <3>1 DEF LoopPop, DeliveredTypes, NavTypes
    <2>2. CASE ~LoopPop
      BY <1>0, <2>2 DEF Transitions, LoopPopLast, LoopLaunch, LoopGoHome,
           DeliveredTypes, historyVars
    <2> QED BY <2>1, <2>2
  <1>3. FlagTypes'
    BY <1>0 DEF FlagTypes, Transitions, LoopPop, LoopPopLast, LoopLaunch,
         LoopGoHome, Repaint, signalVars, historyVars
  <1>4. PcTypes'
    BY <1>0 DEF PcTypes, Transitions, LoopPop, LoopPopLast, LoopLaunch,
         LoopGoHome, MainGoes
  <1> QED BY <1>1, <1>2, <1>3, <1>4
          DEF TypeOK, NavTypes, DeliveredTypes, FlagTypes, PcTypes

LEMMA OthersKeepTypes ==
  ASSUME IInv, Others
  PROVE  TypeOK'
  <1> USE MaxCallsAssumption
  <1>0. NavTypes /\ DeliveredTypes /\ FlagTypes /\ PcTypes
    BY TypeParts DEF IInv
  <1>1. NavTypes'
    BY <1>0, OthersKeepActivities DEF NavTypes, navVars
  <1>2. DeliveredTypes'
    <2>1. CASE CallReturn
      BY <2>1 DEF CallReturn, DeliveredTypes, NoDelivery, MaybeActivity
    <2>2. CASE ~CallReturn
      <3>1. UNCHANGED delivered
        BY <2>2 DEF Others, CallRequestUpdate, CallRequestUpdateAndWait,
             CallLongPress, CallLock, MainAcquire, MainUnlock, MainPost,
             MainWake, MainLoop, MainTakesLock, LoopSuppressed, LoopActivity,
             LoopSettled, LoopFlush, RenderTask, RenderTake, RenderAcquire,
             RenderRequestsUpdate, RenderDone, RenderSignal, RenderNotify,
             RenderRelease, vars, historyVars
      <3> QED BY <1>0, <3>1 DEF DeliveredTypes
    <2> QED BY <2>1, <2>2
  <1>3. FlagTypes'
    <2> USE <1>0 DEF FlagTypes, signalVars, historyVars
    <2>1. CASE RenderTask
      <3>1. CASE RenderAcquire
        BY <3>1 DEF RenderAcquire
      <3>2. CASE ~RenderAcquire
        BY <2>1, <3>2 DEF RenderTask, RenderTake, RenderRequestsUpdate,
             RenderDone, RenderSignal, RenderNotify, RenderRelease,
             WaiterTaken
      <3> QED BY <3>1, <3>2
    <2>2. CASE \/ \E immediate \in BOOLEAN : CallRequestUpdate(immediate)
               \/ CallRequestUpdateAndWait \/ CallLongPress \/ CallLock
               \/ CallReturn \/ MainAcquire \/ MainUnlock \/ MainPost
      <3>1. CASE \/ \E immediate \in BOOLEAN : CallRequestUpdate(immediate)
                 \/ CallRequestUpdateAndWait
        BY <3>1 DEF CallRequestUpdate, CallRequestUpdateAndWait, NotifyRender
      <3>2. CASE CallLongPress \/ CallLock
        BY <3>2 DEF CallLongPress, CallLock
      <3>3. CASE CallReturn
        <4>1. requestedUpdate' \in BOOLEAN /\ owed' \in BOOLEAN
          BY <3>3 DEF CallReturn, Repaint
        <4> QED
          BY <3>3, <4>1 DEF CallReturn
      <3>4. CASE MainAcquire \/ MainUnlock \/ MainPost
        BY <3>4 DEF MainAcquire, MainUnlock, MainPost, NotifyRender
      <3> QED BY <2>2, <3>1, <3>2, <3>3, <3>4
    <2>3. ASSUME NEW usbChanged \in BOOLEAN, MainLoop(usbChanged)
          PROVE  FlagTypes'
      BY <2>3 DEF MainLoop
    <2>4. CASE \/ MainWake \/ MainTakesLock \/ LoopSuppressed \/ LoopActivity
               \/ LoopSettled \/ LoopFlush \/ UNCHANGED vars
      BY <2>4 DEF MainWake, MainTakesLock, LoopSuppressed, LoopActivity,
           LoopSettled, LoopFlush, NotifyRender, vars
    <2> QED BY <2>1, <2>2, <2>3, <2>4 DEF Others
  <1>4. PcTypes'
    <2>1. CASE CallReturn
      <3>1. mainPc' \in {"idle", "loop", "flush", "check"}
        BY <2>1 DEF CallReturn
      <3> QED BY <1>0, <2>1, <3>1 DEF CallReturn, PcTypes
    <2>2. CASE RenderTask
      BY <1>0, <2>2 DEF PcTypes, RenderTask, RenderTake, RenderAcquire,
           RenderRequestsUpdate, RenderDone, RenderSignal, RenderNotify,
           RenderRelease, RenderGoes, AfterAcquire
    <2>3. CASE ~CallReturn /\ ~RenderTask
      BY <1>0, <2>3 DEF PcTypes, Others, CallRequestUpdate,
           CallRequestUpdateAndWait, CallLongPress, CallLock, MainAcquire,
           MainUnlock, MainPost, MainWake, MainLoop, MainTakesLock,
           LoopSuppressed, LoopActivity, LoopSettled, LoopFlush, MainGoes,
           InActivityCode, Calling, AfterLoop, vars
    <2> QED BY <2>1, <2>2, <2>3
  <1> QED BY <1>1, <1>2, <1>3, <1>4
          DEF TypeOK, NavTypes, DeliveredTypes, FlagTypes, PcTypes

-----------------------------------------------------------------------------
(* The theorems. *)

LEMMA StepIInv == IInv /\ [Next]_vars => IInv'
  BY StepKinds, RequestsKeepTypes, TransitionsKeepTypes, OthersKeepTypes,
     MutexKept, WaitKept, PendingKept, OwnershipKept, DeliveryKept DEF IInv

LEMMA Inductive == Spec => []IInv
  BY InitIInv, StepIInv, PTL DEF Spec

\* Every variable keeps its type, for any set of activities.
THEOREM TypeCorrect == Spec => []TypeOK
  BY Inductive, PTL DEF IInv

\* loop()'s `while (pendingAction != None)` never spins on a request it cannot
\* carry out.
THEOREM PendingIsAlwaysExecutable == Spec => []PendingIsExecutable
  <1>1. IInv => PendingIsExecutable
    BY DEF IInv, TypeOK, PendingInv, PendingIsExecutable
  <1> QED BY <1>1, Inductive, PTL

\* requestUpdateAndWait() never meets another waiter nor a stale notification.
THEOREM WaitSlotIsFree == Spec => []WaitSlotFree
  <1>1. IInv => WaitSlotFree
    BY DEF IInv, WaitInv, WaitSlotFree
  <1> QED BY <1>1, Inductive, PTL

\* A result handler runs with the result of the activity it was stored for.
THEOREM ResultsReachTheirHandler == Spec => []HandlerGetsItsResult
  <1>1. IInv => HandlerGetsItsResult
    BY DEF IInv, DeliveryInv, HandlerGetsItsResult
  <1> QED BY <1>1, Inductive, PTL

\* The activity inside render() is never destroyed, stacked or replaced.
THEOREM RenderedActivityIsSafe == Spec => RenderedActivityStays
  <1>1. IInv /\ [Next]_vars
          => [renderPc = "render" => currentActivity' = currentActivity]_vars
    <2> SUFFICES ASSUME IInv, [Next]_vars, renderPc = "render"
                 PROVE  currentActivity' = currentActivity
      OBVIOUS
    <2>1. ~LockIsFree /\ currentActivity # NoActivity /\ mainPc # "home"
      BY DEF IInv, MutexInv, PendingInv, LockIsFree
    <2>2. CASE Requests
      BY <2>1, <2>2 DEF Requests, CallStartActivityForResult,
           CallPushActivity, CallReplaceActivity, CallFinish, MainReplaces,
           Replace
    <2>3. CASE Transitions
      BY <2>1, <2>3 DEF Transitions, LoopPop, LoopPopLast, LoopLaunch,
           LoopGoHome, MainGoes
    <2>4. CASE Others
      BY <2>4, OthersKeepActivities DEF navVars
    <2> QED BY <2>2, <2>3, <2>4, StepKinds
  <1> QED BY <1>1, Inductive, PTL DEF Spec, RenderedActivityStays

-----------------------------------------------------------------------------
(* ActivityManager implements NavigationStack. *)

Screen == [activity : Activities, asks : BOOLEAN]

\* What Screens holds: one screen per activity of the stack, the current one
\* on top.
ScreensShape ==
    /\ currentActivity = NoActivity => Screens = <<>>
    /\ currentActivity # NoActivity =>
         /\ Screens \in Seq(Screen) /\ Screens # <<>>
         /\ Len(stackActivities) \in Nat
         /\ DOMAIN stackActivities = 1..Len(stackActivities)
         /\ Len(Screens) = Len(stackActivities) + 1
         /\ \A i \in 1..Len(stackActivities) :
               Screens[i] = [activity |-> stackActivities[i],
                   asks |-> resultHandler[stackActivities[i]] # NoActivity]
         /\ Screens[Len(Screens)] = [activity |-> currentActivity, asks |-> FALSE]

LEMMA ScreensHaveShape == IInv => ScreensShape
  <1> SUFFICES ASSUME IInv PROVE ScreensShape
    OBVIOUS
  <1>1. CASE currentActivity = NoActivity
    <2>1. Chain = <<>> /\ DOMAIN Chain = {}
      BY <1>1 DEF Chain
    <2> QED BY <1>1, <2>1 DEF Screens, ScreensShape
  <1>2. CASE currentActivity # NoActivity
    <2> DEFINE n == Len(stackActivities)
    <2>1. /\ stackActivities \in Seq(Activities) /\ currentActivity \in Activities
      BY <1>2 DEF IInv, TypeOK, MaybeActivity
    <2>2. /\ Chain = Append(stackActivities, currentActivity)
          /\ n \in Nat /\ DOMAIN stackActivities = 1..n
          /\ Len(Chain) = n + 1 /\ DOMAIN Chain = 1..(n + 1)
          /\ Chain[n + 1] = currentActivity
          /\ \A i \in 1..n : Chain[i] = stackActivities[i]
          /\ \A i \in 1..(n + 1) : Chain[i] \in Activities
      BY <1>2, <2>1, AppendToStack DEF Chain
    <2> DEFINE asks(i) == resultHandler[Chain[i]] # NoActivity
               screen(i) == [activity |-> Chain[i],
                             asks |-> i < Len(Chain) /\ asks(i)]
    <2>3. Screens = [i \in 1..(n + 1) |-> screen(i)]
      BY <2>2, Zenon DEF Screens
    <2>4. /\ \A i \in 1..n :
                Screens[i] = [activity |-> stackActivities[i],
                  asks |-> resultHandler[stackActivities[i]] # NoActivity]
          /\ Screens[n + 1] = [activity |-> currentActivity, asks |-> FALSE]
      <3>1. ASSUME NEW i \in 1..n
            PROVE  Screens[i] = [activity |-> stackActivities[i],
                     asks |-> resultHandler[stackActivities[i]] # NoActivity]
        <4>1. i \in 1..(n + 1) /\ i < Len(Chain)
          BY <2>2
        <4>2. Screens[i] = [activity |-> Chain[i], asks |-> asks(i)]
          BY <2>3, <4>1, Zenon
        <4> QED BY <2>2, <4>2, Zenon
      <3>2. Screens[n + 1] = [activity |-> currentActivity, asks |-> FALSE]
        <4>1. (n + 1) \in 1..(n + 1) /\ ~(n + 1 < Len(Chain))
          BY <2>2
        <4>2. Screens[n + 1] = [activity |-> Chain[n + 1], asks |-> FALSE]
          BY <2>3, <4>1, Zenon
        <4> QED BY <2>2, <4>2
      <3> QED BY <3>1, <3>2
    <2>5. Screens \in Seq(Screen) /\ Len(Screens) = n + 1
      <3>1. \A i \in 1..(n + 1) : screen(i) \in Screen
        BY <2>2, Zenon DEF Screen
      <3> HIDE DEF screen
      <3>2. Screens \in [1..(n + 1) -> Screen]
        BY <2>3, <3>1
      <3> QED BY <2>2, <3>2
    <2>6. Screens # <<>>
      BY <2>2, <2>5
    <2> QED BY <1>2, <2>2, <2>4, <2>5, <2>6 DEF ScreensShape
  <1> QED BY <1>1, <1>2

LEMMA ShapeOfBoth ==
  ASSUME IInv, [Next]_vars
  PROVE  ScreensShape /\ ScreensShape' /\ IInv'
  <1>1. IInv' => ScreensShape'
    BY ScreensHaveShape, PTL
  <1> QED BY <1>1, ScreensHaveShape, StepIInv

\* The screens are the same as long as the stack, the current activity and the
\* handlers of the activities below it are.
LEMMA ScreensKept ==
  ASSUME ScreensShape, ScreensShape',
         UNCHANGED <<currentActivity, stackActivities>>,
         \A i \in DOMAIN stackActivities :
            resultHandler'[stackActivities[i]] = resultHandler[stackActivities[i]]
  PROVE  UNCHANGED Screens
  <1>1. CASE currentActivity = NoActivity
    BY <1>1 DEF ScreensShape
  <1>2. CASE currentActivity # NoActivity
    <2>1. /\ Screens \in Seq(Screen) /\ Screens' \in Seq(Screen)
          /\ Len(Screens') = Len(Screens)
          /\ Len(Screens) = Len(stackActivities) + 1
          /\ Len(stackActivities) \in Nat
          /\ Screens'[Len(Screens)] = Screens[Len(Screens)]
      BY <1>2 DEF ScreensShape
    <2>2. \A i \in 1..Len(stackActivities) : Screens'[i] = Screens[i]
      BY <1>2 DEF ScreensShape
    <2>3. \A i \in 1..Len(Screens) : Screens'[i] = Screens[i]
      BY <2>1, <2>2
    <2> QED BY <2>1, <2>3, SeqEqual
  <1> QED BY <1>1, <1>2

\* The first activity, after begin() or once the last one is gone.
LEMMA FirstIsGoHome ==
  ASSUME ScreensShape, ScreensShape', NEW a \in Activities,
         currentActivity = NoActivity, currentActivity' = a,
         stackActivities' = <<>>, a # NoActivity,
         UNCHANGED delivered
  PROVE  Navigation!GoHome(a)
  <1>1. Screens = <<>>
    BY DEF ScreensShape
  <1>2. /\ Screens' \in Seq(Screen) /\ Len(Screens') = 1
        /\ Screens'[1] = [activity |-> a, asks |-> FALSE]
    <2>1. Len(stackActivities') = 0 /\ currentActivity' # NoActivity
      BY EmptySeq
    <2>2. /\ Screens' \in Seq(Screen)
          /\ Len(Screens') = Len(stackActivities') + 1
          /\ Screens'[Len(Screens')] = [activity |-> currentActivity',
                                        asks |-> FALSE]
      BY <2>1, Zenon DEF ScreensShape
    <2> QED BY <2>1, <2>2
  <1>3. Screens' = <<[activity |-> a, asks |-> FALSE]>>
    BY <1>2
  <1> QED BY <1>1, <1>3 DEF Navigation!GoHome, Navigation!Opened

\* Two fields of a screen.
LEMMA FieldsOfScreen ==
  ASSUME NEW a, NEW b \in BOOLEAN
  PROVE  /\ [activity |-> a, asks |-> b].activity = a
         /\ [activity |-> a, asks |-> b].asks = b
  <1>1. [activity |-> a, asks |-> b].activity = a
    OBVIOUS
  <1>2. CASE b = TRUE
    BY <1>1, <1>2
  <1>3. CASE b = FALSE
    BY <1>1, <1>3
  <1> QED BY <1>2, <1>3

LEMMA PopIsClose ==
  ASSUME IInv, LoopPop, ScreensShape, ScreensShape'
  PROVE  Navigation!Close
  <1> DEFINE n == Len(stackActivities)
             parent == Last(stackActivities)
             closed == [Front(Screens) EXCEPT ![n] = Navigation!Opened(@.activity)]
  <1>1. /\ n \in Nat \ {0} /\ parent = stackActivities[n]
        /\ parent \in Activities /\ parent # NoActivity
        /\ stackActivities' = Front(stackActivities)
        /\ currentActivity' = parent
        /\ Len(stackActivities') = n - 1
        /\ \A i \in 1..(n - 1) : stackActivities'[i] = stackActivities[i]
        /\ \A i \in 1..n : stackActivities[i] \in Activities
    BY FrontOfStack, ActivitiesAssumption DEF LoopPop, IInv, TypeOK
  <1>2. /\ currentActivity # NoActivity
        /\ \A i \in 1..(n - 1) :
              stackActivities[i] \notin {currentActivity, parent}
    <2>1. DOMAIN stackActivities = 1..n
      BY FrontOfStack DEF LoopPop, IInv, TypeOK
    <2>2. currentActivity # NoActivity
      BY DEF LoopPop, IInv, PendingInv
    <2>3. \A i \in 1..(n - 1) : stackActivities[i] # currentActivity
      BY <1>1, <2>1 DEF IInv, OwnershipInv
    <2>4. \A i \in 1..(n - 1) : stackActivities[i] # parent
      BY <1>1, <2>1 DEF IInv, OwnershipInv
    <2> QED BY <2>2, <2>3, <2>4
  <1>3. /\ Screens \in Seq(Screen) /\ Screens # <<>> /\ Len(Screens) = n + 1
        /\ \A i \in 1..n :
              Screens[i] = [activity |-> stackActivities[i],
                  asks |-> resultHandler[stackActivities[i]] # NoActivity]
        /\ Screens[n + 1] = [activity |-> currentActivity, asks |-> FALSE]
    BY <1>2 DEF ScreensShape
  <1>4. \A i \in 1..(n - 1) :
           resultHandler'[stackActivities[i]] = resultHandler[stackActivities[i]]
    BY <1>1, <1>2 DEF LoopPop, WithoutHandlers
  <1>5. /\ Screens' \in Seq(Screen) /\ Len(Screens') = n
        /\ \A i \in 1..(n - 1) : Screens'[i] = Screens[i]
        /\ Screens'[n] = [activity |-> parent, asks |-> FALSE]
    <2>1. /\ Screens' \in Seq(Screen) /\ Len(Screens') = n
          /\ Screens'[n] = [activity |-> parent, asks |-> FALSE]
          /\ \A i \in 1..(n - 1) :
                Screens'[i] = [activity |-> stackActivities'[i],
                  asks |-> resultHandler'[stackActivities'[i]] # NoActivity]
      BY <1>1 DEF ScreensShape
    <2>2. \A i \in 1..(n - 1) : Screens'[i] = Screens[i]
      <3> TAKE i \in 1..(n - 1)
      <3>1. i \in 1..n
        BY <1>1
      <3>2. stackActivities'[i] = stackActivities[i]
        BY <1>1
      <3>3. resultHandler'[stackActivities'[i]]
               = resultHandler[stackActivities[i]]
        BY <1>4, <3>2
      <3> QED BY <1>3, <2>1, <3>1, <3>2, <3>3, Zenon
    <2> QED BY <2>1, <2>2
  <1>6. /\ Front(Screens) \in Seq(Screen) /\ Len(Front(Screens)) = n
        /\ \A i \in 1..n : Front(Screens)[i] = Screens[i]
        /\ Last(Screens) = [activity |-> currentActivity, asks |-> FALSE]
    <2>1. /\ Front(Screens) \in Seq(Screen)
          /\ Len(Front(Screens)) = Len(Screens) - 1
          /\ Last(Screens) = Screens[Len(Screens)]
          /\ \A i \in 1..(Len(Screens) - 1) : Front(Screens)[i] = Screens[i]
      BY <1>3, FrontOfStack, Zenon
    <2>2. Len(Screens) - 1 = n
      BY <1>1, <1>3
    <2> QED BY <1>3, <2>1, <2>2, Zenon
  <1>7. closed = [Front(Screens) EXCEPT
                     ![n] = [activity |-> parent, asks |-> FALSE]]
    <2>1. Front(Screens)[n] = [activity |-> parent,
                                asks |-> resultHandler[parent] # NoActivity]
      BY <1>1, <1>3, <1>6
    <2>2. Front(Screens)[n].activity = parent
      <3>1. (resultHandler[parent] # NoActivity) \in BOOLEAN
        OBVIOUS
      <3> QED BY <2>1, <3>1, FieldsOfScreen, Zenon
    <2> QED BY <2>2, Zenon DEF Navigation!Opened
  <1>8. Screens' = closed
    <2>1. [activity |-> parent, asks |-> FALSE] \in Screen
      BY <1>1 DEF Screen
    <2> DEFINE top == [activity |-> parent, asks |-> FALSE]
               front == Front(Screens)
    <2>2. /\ closed \in Seq(Screen) /\ Len(closed) = n
          /\ \A i \in 1..n : closed[i] = IF i = n THEN top ELSE front[i]
      <3> HIDE DEF closed, top, front
      <3>1. closed = [front EXCEPT ![n] = top]
        BY <1>7 DEF top, front
      <3>2. front \in Seq(Screen) /\ Len(front) = n /\ top \in Screen
        BY <1>6, <2>1 DEF top, front
      <3>3. n \in 1..Len(front)
        BY <1>1, <3>2
      <3> QED BY <3>1, <3>2, <3>3, ExceptSeq
    <2>3. \A i \in 1..n : closed[i] = Screens'[i]
      <3> HIDE DEF closed
      <3>1. Screens'[n] = closed[n]
        <4>1. n \in 1..n
          BY <1>1
        <4> QED BY <1>5, <2>2, <4>1, Zenon
      <3>2. ASSUME NEW i \in 1..(n - 1) PROVE Screens'[i] = closed[i]
        BY <1>1, <1>5, <1>6, <2>2
      <3> QED BY <1>1, <3>1, <3>2
    <2> HIDE DEF closed
    <2> QED BY <1>5, <2>2, <2>3, SeqEqual
  <1>9. delivered.awaited = NoActivity
    BY DEF LoopPop, IInv, DeliveryInv, NoDelivery
  <1>10. delivered'.awaited = IF Screens[n].asks THEN currentActivity
                                                 ELSE NoActivity
    <2>1. Screens[n].asks <=> resultHandler[parent] # NoActivity
      <3>1. n \in 1..n
        BY <1>1
      <3>2. Screens[n].asks = (resultHandler[stackActivities[n]] # NoActivity)
        <4>1. (resultHandler[stackActivities[n]] # NoActivity) \in BOOLEAN
          OBVIOUS
        <4>2. Screens[n] = [activity |-> stackActivities[n],
                  asks |-> resultHandler[stackActivities[n]] # NoActivity]
          BY <1>3, <3>1, Zenon
        <4> QED BY <4>1, <4>2, FieldsOfScreen, Zenon
      <3> QED BY <1>1, <3>2, Zenon
    <2>2. resultHandler[parent] \in {NoActivity, currentActivity}
      BY <1>1 DEF IInv, TypeOK, HandlerInv, Child
    <2> QED BY <1>9, <2>1, <2>2 DEF LoopPop
  <1>11. Len(Screens) - 1 = n /\ n > 0 /\ Last(Screens).activity = currentActivity
    BY <1>1, <1>3, <1>6
  <1> HIDE DEF parent
  <1>12. Navigation!Front(Screens) = Front(Screens)
         /\ Navigation!Last(Screens) = Last(Screens)
    BY DEF Navigation!Front, Front, Navigation!Last, Last
  <1> QED BY <1>8, <1>9, <1>10, <1>11, <1>12, Zenon DEF Navigation!Close

LEMMA PopLastIsCloseLast ==
  ASSUME IInv, LoopPopLast, ScreensShape, ScreensShape'
  PROVE  Navigation!CloseLast
  <1>1. /\ currentActivity # NoActivity /\ currentActivity' = NoActivity
        /\ Len(stackActivities) = 0 /\ UNCHANGED delivered
    BY EmptySeq DEF LoopPopLast, IInv, PendingInv
  <1>2. Len(Screens) = 1 /\ Screens' = <<>>
    <2>1. Len(Screens) = Len(stackActivities) + 1 /\ Screens' = <<>>
      BY <1>1, Zenon DEF ScreensShape
    <2> QED BY <1>1, <2>1
  <1> QED BY <1>1, <1>2 DEF Navigation!CloseLast

\* An activity owned by nobody is shown by no screen.
LEMMA PendingIsNotShown ==
  ASSUME IInv, ScreensShape, pendingActivity # NoActivity
  PROVE  /\ pendingActivity \in Activities \ Navigation!Shown
         /\ Screens # <<>>
  <1> DEFINE n == Len(stackActivities)
  <1>1. /\ currentActivity # NoActivity
        /\ pendingActivity \in Activities /\ pendingActivity # currentActivity
    BY DEF IInv, TypeOK, MaybeActivity, PendingInv, OwnershipInv
  <1>2. /\ n \in Nat /\ DOMAIN stackActivities = 1..n
        /\ Screens \in Seq(Screen) /\ Screens # <<>> /\ Len(Screens) = n + 1
        /\ \A i \in 1..n :
              Screens[i] = [activity |-> stackActivities[i],
                  asks |-> resultHandler[stackActivities[i]] # NoActivity]
        /\ Screens[Len(Screens)] = [activity |-> currentActivity, asks |-> FALSE]
    BY <1>1, Zenon DEF ScreensShape
  <1>3. ASSUME NEW i \in 1..n PROVE Screens[i].activity # pendingActivity
    <2>1. (resultHandler[stackActivities[i]] # NoActivity) \in BOOLEAN
      OBVIOUS
    <2>2. Screens[i].activity = stackActivities[i]
      BY <1>2, <2>1, FieldsOfScreen, Zenon
    <2> QED BY <1>2, <2>2 DEF IInv, OwnershipInv
  <1>4. Screens[n + 1].activity # pendingActivity
    BY <1>1, <1>2
  <1>5. \A i \in 1..(n + 1) : Screens[i].activity # pendingActivity
    BY <1>2, <1>3, <1>4
  <1>6. DOMAIN Screens = 1..(n + 1)
    BY <1>2, LenProperties
  <1> QED BY <1>1, <1>2, <1>5, <1>6 DEF Navigation!Shown

LEMMA ReplaceIsReset ==
  ASSUME IInv, LoopLaunch, pendingAction = "Replace",
         ScreensShape, ScreensShape'
  PROVE  Navigation!Reset(pendingActivity)
  <1>1. /\ currentActivity' = pendingActivity /\ pendingActivity # NoActivity
        /\ Len(stackActivities') = 0 /\ UNCHANGED delivered
    BY EmptySeq DEF LoopLaunch, LaunchedOn
  <1>2. Screens' = <<Navigation!Opened(pendingActivity)>>
    <2>1. /\ Screens' \in Seq(Screen)
          /\ Len(Screens') = Len(stackActivities') + 1
          /\ Screens'[Len(Screens')] = [activity |-> currentActivity',
                                        asks |-> FALSE]
      BY <1>1, Zenon DEF ScreensShape
    <2> QED BY <1>1, <2>1 DEF Navigation!Opened
  <1> QED BY <1>1, <1>2, PendingIsNotShown DEF Navigation!Reset

LEMMA PushIsOpen ==
  ASSUME IInv, LoopLaunch, pendingAction = "Push",
         ScreensShape, ScreensShape'
  PROVE  Navigation!Open(pendingActivity,
                         resultHandler[currentActivity] # NoActivity)
  <1> DEFINE n == Len(stackActivities)
             asks == resultHandler[currentActivity] # NoActivity
             asking == [activity |-> currentActivity, asks |-> asks]
             opened == [activity |-> pendingActivity, asks |-> FALSE]
             below == [Screens EXCEPT ![Len(Screens)] =
                         [activity |-> @.activity, asks |-> asks]]
  <1>0. asks \in BOOLEAN
    OBVIOUS
  <1>1. /\ currentActivity \in Activities /\ pendingActivity \in Activities
        /\ currentActivity # NoActivity /\ pendingActivity # NoActivity
        /\ currentActivity' = pendingActivity
        /\ stackActivities' = Append(stackActivities, currentActivity)
        /\ UNCHANGED <<resultHandler, delivered>>
    BY DEF LoopLaunch, LaunchedOn, IInv, TypeOK, MaybeActivity, PendingInv
  <1>2. /\ n \in Nat /\ DOMAIN stackActivities = 1..n
        /\ Screens \in Seq(Screen) /\ Screens # <<>> /\ Len(Screens) = n + 1
        /\ \A i \in 1..n :
              Screens[i] = [activity |-> stackActivities[i],
                  asks |-> resultHandler[stackActivities[i]] # NoActivity]
        /\ Screens[Len(Screens)] = [activity |-> currentActivity, asks |-> FALSE]
    BY <1>1, Zenon DEF ScreensShape
  <1>3. /\ Len(stackActivities') = n + 1
        /\ stackActivities'[n + 1] = currentActivity
        /\ \A i \in 1..n : stackActivities'[i] = stackActivities[i]
    BY <1>1, AppendToStack DEF IInv, TypeOK
  <1>4. /\ Screens' \in Seq(Screen) /\ Len(Screens') = n + 2
        /\ \A i \in 1..n : Screens'[i] = Screens[i]
        /\ Screens'[n + 1] = asking /\ Screens'[n + 2] = opened
    <2>1. /\ Screens' \in Seq(Screen)
          /\ Len(Screens') = Len(stackActivities') + 1
          /\ \A i \in 1..Len(stackActivities') :
                Screens'[i] = [activity |-> stackActivities'[i],
                    asks |-> resultHandler'[stackActivities'[i]] # NoActivity]
          /\ Screens'[Len(Screens')] = [activity |-> currentActivity',
                                        asks |-> FALSE]
      BY <1>1, Zenon DEF ScreensShape
    <2>2. ASSUME NEW i \in 1..n PROVE Screens'[i] = Screens[i]
      <3>1. i \in 1..Len(stackActivities')
        BY <1>2, <1>3
      <3>2. /\ stackActivities'[i] = stackActivities[i]
            /\ resultHandler' = resultHandler
        BY <1>1, <1>3
      <3>3. Screens'[i] = [activity |-> stackActivities[i],
                  asks |-> resultHandler[stackActivities[i]] # NoActivity]
        BY <2>1, <3>1, <3>2, Zenon
      <3> QED BY <1>2, <3>3, Zenon
    <2>3. Screens'[n + 1] = asking
      <3>1. (n + 1) \in 1..Len(stackActivities')
        BY <1>2, <1>3
      <3> QED BY <1>1, <1>3, <2>1, <3>1, Zenon
    <2>4. Len(Screens') = n + 2 /\ Screens'[n + 2] = opened
      BY <1>1, <1>2, <1>3, <2>1
    <2> QED BY <2>1, <2>2, <2>3, <2>4
  <1>5. asking \in Screen /\ opened \in Screen
    BY <1>0, <1>1, Zenon DEF Screen
  <1>6. below = [Screens EXCEPT ![Len(Screens)] = asking]
    <2>1. Screens[Len(Screens)].activity = currentActivity
      BY <1>2
    <2> QED BY <2>1, Zenon
  <1> HIDE DEF asking, opened, below, asks
  <1>7. /\ below \in Seq(Screen) /\ Len(below) = n + 1
        /\ below[n + 1] = asking
        /\ \A i \in 1..n : below[i] = Screens[i]
    <2>1. Len(Screens) \in 1..Len(Screens)
      BY <1>2
    <2> QED BY <1>2, <1>5, <1>6, <2>1, ExceptSeq
  <1>8. Screens' = Append(below, opened)
    <2> DEFINE result == Append(below, opened)
    <2>1. /\ result \in Seq(Screen) /\ Len(result) = n + 2
          /\ \A i \in 1..(n + 1) : result[i] = below[i]
          /\ result[n + 2] = opened
      BY <1>2, <1>5, <1>7, AppendProperties
    <2> HIDE DEF result
    <2>2. \A i \in 1..(n + 2) : Screens'[i] = result[i]
      BY <1>2, <1>4, <1>7, <2>1
    <2>3. Screens' = result
      BY <1>4, <2>1, <2>2, SeqEqual
    <2> QED BY <2>3 DEF result
  <1>9. pendingActivity \in Activities \ Navigation!Shown
    BY <1>1, PendingIsNotShown
  <1> QED BY <1>1, <1>2, <1>8, <1>9, Zenon
          DEF below, opened, asks, Navigation!Open, Navigation!Opened

LEMMA StepImplements ==
  ASSUME IInv, [Next]_vars
  PROVE  [Navigation!Next]_(Navigation!navigationVars)
  <1> USE DEF Navigation!navigationVars
  <1>0. ScreensShape /\ ScreensShape' /\ IInv'
    BY ShapeOfBoth
  <1>1. CASE Others
    <2>1. UNCHANGED Screens
      BY <1>0, <1>1, OthersKeepActivities, ScreensKept DEF navVars
    <2>2. CASE CallReturn
      BY <2>1, <2>2 DEF CallReturn, NoDelivery, Navigation!Next,
           Navigation!Answered
    <2>3. CASE ~CallReturn
      <3>1. UNCHANGED delivered
        BY <1>1, <2>3 DEF Others, CallRequestUpdate, CallRequestUpdateAndWait,
             CallLongPress, CallLock, MainAcquire, MainUnlock, MainPost,
             MainWake, MainLoop, MainTakesLock, LoopSuppressed, LoopActivity,
             LoopSettled, LoopFlush, RenderTask, RenderTake, RenderAcquire,
             RenderRequestsUpdate, RenderDone, RenderSignal, RenderNotify,
             RenderRelease, vars, historyVars
      <3> QED BY <2>1, <3>1
    <2> QED BY <2>2, <2>3
  <1>2. CASE Requests
    <2>1. UNCHANGED <<stackActivities, delivered>>
      BY <1>2 DEF Requests, CallStartActivityForResult, CallPushActivity,
           CallReplaceActivity, CallFinish, MainReplaces, historyVars
    <2>2. \A i \in DOMAIN stackActivities :
             resultHandler'[stackActivities[i]] = resultHandler[stackActivities[i]]
      <3>1. \/ UNCHANGED resultHandler
            \/ \E a \in Activities :
                  resultHandler' = [resultHandler EXCEPT ![currentActivity] = a]
        BY <1>2 DEF Requests, CallStartActivityForResult, CallPushActivity,
             CallReplaceActivity, CallFinish, MainReplaces
      <3>2. \A i \in DOMAIN stackActivities :
               /\ stackActivities[i] # currentActivity
               /\ stackActivities[i] \in Activities
        BY DEF IInv, TypeOK, OwnershipInv
      <3> QED BY <3>1, <3>2 DEF IInv, TypeOK
    <2>3. CASE UNCHANGED currentActivity
      <3>1. UNCHANGED Screens
        BY <1>0, <2>1, <2>2, <2>3, ScreensKept
      <3> QED BY <2>1, <3>1
    <2>4. CASE ~UNCHANGED currentActivity
      <3>1. PICK a \in Activities :
               currentActivity = NoActivity /\ currentActivity' = a
        BY <1>2, <2>4 DEF Requests, CallStartActivityForResult,
             CallPushActivity, CallReplaceActivity, CallFinish, MainReplaces,
             Replace
      <3>2. stackActivities' = <<>> /\ a # NoActivity
        BY <2>1, <3>1, ActivitiesAssumption DEF IInv, OwnershipInv
      <3> QED BY <1>0, <2>1, <3>1, <3>2, FirstIsGoHome DEF Navigation!Next
    <2> QED BY <2>3, <2>4
  <1>3. CASE LoopPop
    BY <1>0, <1>3, PopIsClose DEF Navigation!Next
  <1>4. CASE LoopPopLast
    BY <1>0, <1>4, PopLastIsCloseLast DEF Navigation!Next
  <1>5. CASE LoopLaunch
    <2>1. pendingActivity \in Activities
      BY <1>5 DEF LoopLaunch, IInv, TypeOK, MaybeActivity
    <2>2. CASE pendingAction = "Push"
      <3>1. (resultHandler[currentActivity] # NoActivity) \in BOOLEAN
        OBVIOUS
      <3> QED BY <1>0, <1>5, <2>1, <2>2, <3>1, PushIsOpen DEF Navigation!Next
    <2>3. CASE pendingAction = "Replace"
      BY <1>0, <1>5, <2>1, <2>3, ReplaceIsReset DEF Navigation!Next
    <2> QED BY <1>5, <2>2, <2>3 DEF LoopLaunch
  <1>6. ASSUME NEW a \in Activities, LoopGoHome(a)
        PROVE  Navigation!Next
    <2>1. /\ currentActivity = NoActivity /\ currentActivity' = a
          /\ stackActivities' = <<>> /\ UNCHANGED delivered /\ a # NoActivity
      BY <1>6, ActivitiesAssumption
         DEF LoopGoHome, MainGoes, Replace, IInv, PendingInv, OwnershipInv,
             historyVars
    <2> QED BY <1>0, <2>1, FirstIsGoHome DEF Navigation!Next
  <1> QED BY <1>1, <1>2, <1>3, <1>4, <1>5, <1>6, StepKinds DEF Transitions

\* The manager with its two tasks, its lock and its deferred requests behaves
\* as the plain stack of screens of NavigationStack.
THEOREM ImplementsTheNavigationStack == Spec => ImplementsNavigation
  <1>1. Init => Navigation!Init
    BY DEF Init, NoDelivery, Chain, Screens, Navigation!Init
  <1>2. IInv /\ [Next]_vars => [Navigation!Next]_(Navigation!navigationVars)
    BY StepImplements
  <1> QED BY <1>1, <1>2, Inductive, PTL
          DEF Spec, ImplementsNavigation, Navigation!Spec

-----------------------------------------------------------------------------
(* The main loop of an exclusive-storage activity.  Once it is between two  *)
(* iterations the main task stays on the short way through loop() that      *)
(* tests no pending action.                                                 *)

ShortWay ==
    \/ mainPc \in {"idle", "loop", "flush", "halted"}
    \/ /\ context = "exclusive"
       /\ mainPc \in {"call", "want", "locked", "posting", "waiting"}

ExclusiveHeld == currentActivity \in ExclusiveActivities /\ ShortWay

\* No transition is made on the short way, and with an activity there no
\* request of its own code replaces it.
LEMMA ExclusiveStays ==
  ASSUME ExclusiveHeld, [Next]_vars
  PROVE  UNCHANGED currentActivity
  <1>1. currentActivity # NoActivity /\ ~GlobalControls
    BY ActivitiesAssumption DEF ExclusiveHeld, GlobalControls
  <1>2. CASE Others
    BY <1>2, OthersKeepActivities DEF navVars
  <1>3. CASE Requests
    BY <1>1, <1>3 DEF Requests, CallStartActivityForResult, CallPushActivity,
       CallReplaceActivity, CallFinish, MainReplaces, Replace
  <1>4. CASE Transitions
    BY <1>4 DEF Transitions, LoopPop, LoopPopLast, LoopLaunch, LoopGoHome,
       MainGoes, ExclusiveHeld, ShortWay
  <1> QED BY <1>2, <1>3, <1>4, StepKinds

LEMMA ShortWayStays ==
  ASSUME ExclusiveHeld, [Next]_vars
  PROVE  ShortWay'
  <1> USE DEF ExclusiveHeld, ShortWay
  <1>1. ~GlobalControls /\ currentActivity # NoActivity
    BY ActivitiesAssumption DEF GlobalControls
  <1>2. CASE UNCHANGED <<mainPc, context>>
    BY <1>2
  <1>3. CASE Requests
    BY <1>1, <1>2, <1>3 DEF Requests, CallStartActivityForResult,
       CallPushActivity, CallReplaceActivity, CallFinish, MainReplaces
  <1>4. CASE Transitions
    BY <1>4 DEF Transitions, LoopPop, LoopPopLast, LoopLaunch, LoopGoHome,
       MainGoes
  <1>5. CASE Others
    <2>1. CASE \/ \E immediate \in BOOLEAN : CallRequestUpdate(immediate)
               \/ CallLongPress \/ RenderTask \/ UNCHANGED vars
      BY <1>2, <2>1 DEF CallRequestUpdate, CallLongPress, RenderTask,
         RenderTake, RenderAcquire, RenderRequestsUpdate, RenderDone,
         RenderSignal, RenderNotify, RenderRelease, vars
    <2>2. CASE CallRequestUpdateAndWait \/ CallLock \/ MainAcquire \/ MainPost
               \/ MainWake
      BY <2>2 DEF CallRequestUpdateAndWait, CallLock, MainAcquire, MainPost,
         MainWake, MainGoes
    <2>3. CASE MainUnlock
      BY <2>3 DEF MainUnlock
    <2>4. CASE CallReturn
      BY <2>4 DEF CallReturn
    <2>5. CASE (\E usbChanged \in BOOLEAN : MainLoop(usbChanged))
               \/ MainTakesLock \/ LoopSettled
      BY <1>1, <2>5 DEF MainLoop, MainTakesLock, LoopSettled, MainGoes
    <2>6. CASE LoopSuppressed \/ LoopFlush
      BY <2>6 DEF LoopSuppressed, LoopFlush, MainGoes, AfterLoop
    <2>7. CASE LoopActivity
      BY <1>1, <2>7 DEF LoopActivity
    <2> QED BY <1>5, <2>1, <2>2, <2>3, <2>4, <2>5, <2>6, <2>7 DEF Others
  <1> QED BY <1>3, <1>4, <1>5, StepKinds

\* An exclusive-storage activity that has the main loop keeps it until the
\* device restarts: the early return of loop() and the tests of main.cpp leave
\* no way for a request to be carried out.
THEOREM ExclusiveActivityStays == Spec => ExclusiveKeepsControl
  <1>1. mainPc = "idle" /\ currentActivity \in ExclusiveActivities
           => ExclusiveHeld
    BY DEF ExclusiveHeld, ShortWay
  <1>2. ExclusiveHeld /\ [Next]_vars => ExclusiveHeld'
    BY ExclusiveStays, ShortWayStays DEF ExclusiveHeld
  <1>3. ExclusiveHeld => currentActivity \in ExclusiveActivities
    BY DEF ExclusiveHeld
  <1> QED BY <1>1, <1>2, <1>3, PTL DEF Spec, ExclusiveKeepsControl
=============================================================================
