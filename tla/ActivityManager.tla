--------------------------- MODULE ActivityManager ---------------------------
(***************************************************************************)
(* The activity manager (src/activities/ActivityManager.cpp, Activity.cpp) *)
(* as its two FreeRTOS tasks run it.                                       *)
(*                                                                         *)
(* The MAIN task is the Arduino loop: it runs activity code (loop, onEnter *)
(* and result handlers), and between those calls processes the pending     *)
(* Push, Pop or Replace.  The RENDER task sleeps on its notification, then *)
(* renders currentActivity under renderingMutex.  Every step of a task     *)
(* below is a stretch of code with at most one access to state the other   *)
(* task uses, so the interleavings are those of the preemptive scheduler.  *)
(*                                                                         *)
(* Activity code is any sequence of at most MaxCalls calls of the          *)
(* manager's interface in one loop(): which calls, the user decides.       *)
(***************************************************************************)
EXTENDS Naturals, SequencesExt

CONSTANTS
    Activities,          \* activity objects that may be allocated
    NoActivity,          \* the null unique_ptr
    SleepActivity,       \* the object goToSleep() allocates
    ExclusiveActivities, \* those whose requiresExclusiveStorageLoop() is true
    MaxCalls             \* bound: manager calls activity code makes per loop()

ASSUME ActivitiesAssumption ==
    /\ NoActivity \notin Activities
    /\ SleepActivity \in Activities
    /\ ExclusiveActivities \subseteq Activities \ {SleepActivity}
ASSUME MaxCallsAssumption == MaxCalls \in Nat

VARIABLES
    currentActivity, stackActivities,
    pendingActivity, pendingAction,
    resultHandler,    \* resultHandler[p]: the child p's stored handler is for
    requestedUpdate,  \* the deferred update flag
    renderingMutex,   \* its holder: "main", "render" or "free"
    renderNotified,   \* the render task's notification count is not zero
    mainNotified,     \* the main task's notification count is not zero
    waitingTask,      \* waitingTaskHandle is the main task's (else null)
    suppressed,       \* a button release is to be swallowed by loop()
    deepSleepInProgress,
    mainPc, context, calls, renderPc,
    \* History variables, read by no action.
    owed,             \* an update was requested and no render began since
    restored,         \* a Pop uncovered currentActivity, not rendered since
    freshRender,      \* a render began after the main task began to wait
    delivered         \* the result handed to the running handler

navVars == <<currentActivity, stackActivities, pendingActivity, pendingAction,
             resultHandler>>
signalVars == <<requestedUpdate, renderNotified, mainNotified, waitingTask>>
historyVars == <<owed, restored, freshRender, delivered>>
vars == <<navVars, signalVars, renderingMutex, suppressed,
          deepSleepInProgress, mainPc, context, calls, renderPc, historyVars>>

MaybeActivity == Activities \cup {NoActivity}

NoDelivery == [from |-> NoActivity, awaited |-> NoActivity]

-----------------------------------------------------------------------------
(* Helpers. *)

\* The objects a unique_ptr of the manager owns.
InUse == {currentActivity, pendingActivity} \cup ToSet(stackActivities)

\* make_unique: an object nobody owns.  SleepActivity is goToSleep's alone.
Fresh(a) == a \in Activities \ InUse

\* Destroying an activity destroys the handler stored in it.
WithoutHandlers(objects) ==
    [a \in Activities |-> IF a \in objects THEN NoActivity
                                           ELSE resultHandler[a]]

MainGoes(from, to) == mainPc = from /\ mainPc' = to
RenderGoes(from, to) == mainPc # "halted" /\ renderPc = from /\ renderPc' = to

\* After loop() main.cpp's loop() goes on, or enterDeepSleep() cuts the power.
AfterLoop == IF deepSleepInProgress THEN "halted" ELSE "idle"

Running == mainPc = "call" /\ currentActivity # NoActivity

\* One more manager call by activity code.
Calling == calls > 0 /\ calls' = calls - 1

\* RenderLock: taken and given back within one step.
NoLock == TRUE \* mutant: the step takes no lock
LockIsFree == renderingMutex = "free"

\* xTaskNotify(renderTaskHandle, 1, eIncrement).
NotifyIfBlocked == renderNotified' = (renderPc = "blocked") \* mutant
NotifyRender == renderNotified' = TRUE

\* Handing a new object to pendingActivity frees the one it held.
Pend(a, action) == pendingActivity' = a /\ pendingAction' = action

\* pushActivity(): the newest request wins.
KeepPending(a) == \* mutant: the first request wins
    IF pendingActivity # NoActivity
    THEN UNCHANGED <<pendingActivity, pendingAction>>
    ELSE Pend(a, "Push")
Push(a) == Pend(a, "Push")

\* popActivity(): a pending launch is dropped.
PopOnly == UNCHANGED pendingActivity /\ pendingAction' = "Pop" \* mutant
Pop == Pend(NoActivity, "Pop")

\* replaceActivity(): deferred, unless there is no activity to replace.
Replace(a) ==
    IF currentActivity # NoActivity
    THEN Pend(a, "Replace") /\ UNCHANGED currentActivity
    ELSE currentActivity' = a /\ UNCHANGED <<pendingActivity, pendingAction>>

-----------------------------------------------------------------------------
(* Initially setup() has called begin(): no activity yet, two tasks. *)

Init ==
    /\ currentActivity = NoActivity /\ stackActivities = <<>>
    /\ pendingActivity = NoActivity /\ pendingAction = "None"
    /\ resultHandler = [a \in Activities |-> NoActivity]
    /\ requestedUpdate = FALSE /\ waitingTask = FALSE
    /\ renderNotified = FALSE /\ mainNotified = FALSE
    /\ renderingMutex = "free" /\ suppressed = FALSE
    /\ deepSleepInProgress = FALSE
    /\ mainPc = "call" /\ context = "setup" /\ calls = MaxCalls
    /\ renderPc = "blocked"
    /\ owed = FALSE /\ restored = FALSE /\ freshRender = FALSE
    /\ delivered = NoDelivery

-----------------------------------------------------------------------------
(* Calls activity code makes on the main task, inside or outside a         *)
(* RenderLock scope ("locked").                                            *)

InActivityCode == mainPc \in {"call", "locked"} /\ Calling

CallRequestUpdate(immediate) ==
    /\ InActivityCode
    /\ IF immediate THEN NotifyRender /\ UNCHANGED requestedUpdate
                    ELSE requestedUpdate' = TRUE /\ UNCHANGED renderNotified
    /\ owed' = TRUE
    /\ UNCHANGED <<navVars, waitingTask, mainNotified, renderingMutex,
                   suppressed, deepSleepInProgress, mainPc, context, renderPc,
                   restored, freshRender, delivered>>

\* requestUpdateAndWait(), its critical section.  Its asserts want the caller
\* to hold no RenderLock, and no other caller to wait (WaitSlotFree).
CallRequestUpdateAndWait ==
    /\ MainGoes("call", "posting") /\ Calling
    /\ waitingTask' = TRUE
    /\ owed' = TRUE /\ freshRender' = FALSE
    /\ UNCHANGED <<navVars, requestedUpdate, renderNotified, mainNotified,
                   renderingMutex, suppressed, deepSleepInProgress, context,
                   renderPc, restored, delivered>>

CallStartActivityForResult(a) ==
    /\ InActivityCode /\ currentActivity # NoActivity /\ Fresh(a)
    /\ resultHandler' = [resultHandler EXCEPT ![currentActivity] = a]
    /\ Push(a)
    /\ UNCHANGED <<currentActivity, stackActivities, signalVars, suppressed,
                   renderingMutex, deepSleepInProgress, mainPc, context,
                   renderPc, historyVars>>

\* pushActivity() with no handler: goToFileTransfer() and goToReader() on an
\* unsupported format.  No activity calls them with a handler outstanding.
CallPushActivity(a) ==
    /\ InActivityCode /\ currentActivity # NoActivity /\ Fresh(a)
    /\ resultHandler[currentActivity] = NoActivity
    /\ Push(a)
    /\ UNCHANGED <<currentActivity, stackActivities, resultHandler, signalVars,
                   renderingMutex, suppressed, deepSleepInProgress, mainPc,
                   context, renderPc, historyVars>>

\* finish(): a Back or Confirm held right now is swallowed on its release.
CallFinish(held) ==
    /\ InActivityCode /\ currentActivity # NoActivity
    /\ suppressed' = (suppressed \/ held)
    /\ Pop
    /\ UNCHANGED <<currentActivity, stackActivities, resultHandler, signalVars,
                   renderingMutex, deepSleepInProgress, mainPc, context,
                   renderPc, historyVars>>

CallReplaceActivity(a) ==
    /\ InActivityCode /\ Fresh(a)
    /\ Replace(a)
    /\ UNCHANGED <<stackActivities, resultHandler, signalVars, renderingMutex,
                   suppressed, deepSleepInProgress, mainPc, context, renderPc,
                   historyVars>>

\* wasLongPressed() fires: the release that ends the press is swallowed.
CallLongPress ==
    /\ InActivityCode
    /\ suppressed' = TRUE
    /\ UNCHANGED <<navVars, signalVars, renderingMutex, deepSleepInProgress,
                   mainPc, context, renderPc, historyVars>>

\* Entering and leaving a RenderLock scope.
CallLock ==
    /\ MainGoes("call", "want") /\ Calling
    /\ UNCHANGED <<navVars, signalVars, renderingMutex, suppressed, context,
                   deepSleepInProgress, renderPc, historyVars>>

MainAcquire ==
    /\ MainGoes("want", "locked")
    /\ LockIsFree /\ renderingMutex' = "main"
    /\ UNCHANGED <<navVars, signalVars, suppressed, deepSleepInProgress,
                   context, calls, renderPc, historyVars>>

\* main.cpp holds the lock for a screenshot, which ends this iteration, or
\* for a forced refresh, after which the iteration goes on to loop().
MainUnlock ==
    /\ mainPc = "locked"
    /\ mainPc' \in IF context = "main" THEN {"idle", "loop"} ELSE {"call"}
    /\ renderingMutex' = "free"
    /\ UNCHANGED <<navVars, signalVars, suppressed, deepSleepInProgress,
                   context, calls, renderPc, historyVars>>

\* The rest of requestUpdateAndWait(): notify, then block until notified.
MainPost ==
    /\ MainGoes("posting", "waiting")
    /\ NotifyRender
    /\ UNCHANGED <<navVars, requestedUpdate, waitingTask, mainNotified,
                   renderingMutex, suppressed, deepSleepInProgress, context,
                   calls, renderPc, historyVars>>

MainWake ==
    /\ MainGoes("waiting", "call")
    /\ mainNotified /\ mainNotified' = FALSE
    /\ UNCHANGED <<navVars, requestedUpdate, waitingTask, renderNotified,
                   renderingMutex, suppressed, deepSleepInProgress, context,
                   calls, renderPc, historyVars>>

\* "Request an update to ensure the popped activity gets re-rendered".
NoRepaint == UNCHANGED <<requestedUpdate, owed>> \* mutant
Repaint == requestedUpdate' = TRUE /\ owed' = TRUE

\* Activity code returns to the manager.  Once a result handler is done the
\* parent is repainted, unless the handler asked for another transition.
CallReturn ==
    /\ mainPc = "call"
    /\ mainPc' = CASE context = "setup" -> "idle"
                   [] context = "main" -> "loop"
                   [] context = "exclusive" -> "flush"
                   [] OTHER -> "check"
    /\ IF context = "handler" /\ pendingAction = "None"
       THEN Repaint
       ELSE UNCHANGED <<requestedUpdate, owed>>
    /\ delivered' = NoDelivery
    /\ UNCHANGED <<navVars, renderNotified, mainNotified, waitingTask,
                   renderingMutex, suppressed, deepSleepInProgress, context,
                   calls, renderPc, restored, freshRender>>

-----------------------------------------------------------------------------
(* The main loop of main.cpp, between two calls of activityManager.loop(). *)

\* While an exclusive-storage activity runs, main.cpp only calls loop().
AlwaysControls == TRUE \* mutant
GlobalControls == currentActivity \notin ExclusiveActivities

\* The USB cable may have been plugged or unplugged.
MainLoop(usbChanged) ==
    /\ MainGoes("idle", "loop")
    /\ usbChanged => GlobalControls
    /\ requestedUpdate' = (requestedUpdate \/ usbChanged)
    /\ owed' = (owed \/ usbChanged)
    /\ UNCHANGED <<navVars, renderNotified, mainNotified, waitingTask,
                   renderingMutex, suppressed, deepSleepInProgress, context,
                   calls, renderPc, restored, freshRender, delivered>>

MainTakesLock ==
    /\ MainGoes("idle", "want") /\ GlobalControls
    /\ context' = "main"
    /\ UNCHANGED <<navVars, signalVars, renderingMutex, suppressed,
                   deepSleepInProgress, calls, renderPc, historyVars>>

\* main.cpp replaces the activity and calls loop() at once, to put the low
\* battery warning up (sleep = FALSE) or to go to sleep (goToSleep()).
MainReplaces(a, sleep) ==
    /\ mainPc = "idle" /\ GlobalControls
    /\ Fresh(a) /\ (sleep <=> a = SleepActivity)
    /\ Replace(a)
    /\ IF currentActivity # NoActivity
       THEN mainPc' = "loop" /\ UNCHANGED <<context, calls>>
       ELSE mainPc' = "call" /\ context' = "main" /\ calls' = MaxCalls
    /\ deepSleepInProgress' = sleep
    /\ UNCHANGED <<stackActivities, resultHandler, signalVars, renderingMutex,
                   suppressed, renderPc, historyVars>>

\* Deep sleep: nothing runs any more.
Halted == mainPc = "halted" /\ UNCHANGED vars

-----------------------------------------------------------------------------
(* ActivityManager::loop(). *)

\* consumeSuppressedRelease(): the whole loop() is skipped.
LoopSuppressed ==
    /\ MainGoes("loop", AfterLoop)
    /\ suppressed /\ suppressed' = FALSE
    /\ UNCHANGED <<navVars, signalVars, renderingMutex, deepSleepInProgress,
                   context, calls, renderPc, historyVars>>

LoopActivity ==
    /\ mainPc = "loop"
    /\ calls' = MaxCalls
    /\ IF currentActivity = NoActivity
       THEN mainPc' = "check" /\ UNCHANGED context
       ELSE mainPc' = "call" /\ context' = IF GlobalControls THEN "loop"
                                                             ELSE "exclusive"
    /\ UNCHANGED <<navVars, signalVars, renderingMutex, suppressed,
                   deepSleepInProgress, renderPc, historyVars>>

\* A pending Pop destroys currentActivity under the lock.  The popped
\* activity's result goes to the handler its parent had stored, which then
\* runs without the lock.
LoopPop ==
    LET parent == Last(stackActivities) IN
    /\ mainPc = "check" /\ pendingAction = "Pop" /\ pendingAction' = "None"
    /\ LockIsFree
    /\ stackActivities # <<>>
    /\ currentActivity' = parent /\ stackActivities' = Front(stackActivities)
    /\ resultHandler' = WithoutHandlers({currentActivity, parent})
    /\ IF resultHandler[parent] # NoActivity
       THEN /\ mainPc' = "call" /\ context' = "handler"
            /\ delivered' = [from |-> currentActivity,
                             awaited |-> resultHandler[parent]]
            /\ UNCHANGED <<requestedUpdate, owed>>
       ELSE /\ Repaint
            /\ UNCHANGED <<mainPc, context, delivered>>
    /\ restored' = TRUE
    /\ UNCHANGED <<pendingActivity, renderNotified, mainNotified, waitingTask,
                   renderingMutex, suppressed, deepSleepInProgress, calls,
                   renderPc, freshRender>>

\* With no parent the manager destroys the last activity, releases the lock
\* and then goes home.
LoopPopLast ==
    /\ MainGoes("check", "home")
    /\ pendingAction = "Pop" /\ pendingAction' = "None"
    /\ LockIsFree
    /\ stackActivities = <<>>
    /\ currentActivity' = NoActivity
    /\ resultHandler' = WithoutHandlers({currentActivity})
    /\ restored' = FALSE
    /\ UNCHANGED <<stackActivities, pendingActivity, signalVars,
                   renderingMutex, suppressed, deepSleepInProgress, context,
                   calls, renderPc, owed, freshRender, delivered>>

\* goHome() finds no current activity: HomeActivity starts without the lock.
LoopGoHome(a) ==
    /\ MainGoes("home", "call") /\ context' = "enter"
    /\ Fresh(a) /\ Replace(a)
    /\ UNCHANGED <<stackActivities, resultHandler, signalVars, renderingMutex,
                   suppressed, deepSleepInProgress, calls, renderPc,
                   historyVars>>

\* A Push keeps the current activity below the new one; a Replace destroys the
\* whole stack.
StackOfNull == \* mutant: exitActivity() comes before the push_back
    IF pendingAction = "Push" THEN Append(stackActivities, NoActivity)
                              ELSE <<>>
StackOnReplace == \* mutant: a Replace leaves the stack
    IF pendingAction = "Push" THEN Append(stackActivities, currentActivity)
                              ELSE stackActivities
LaunchedOn ==
    IF pendingAction = "Push" THEN Append(stackActivities, currentActivity)
                              ELSE <<>>

\* A pending Push or Replace installs pendingActivity under the lock, then
\* calls its onEnter() without the lock.
LoopLaunch ==
    /\ MainGoes("check", "call") /\ context' = "enter"
    /\ pendingAction \in {"Push", "Replace"} /\ pendingActivity # NoActivity
    /\ LockIsFree
    /\ stackActivities' = LaunchedOn
    /\ resultHandler' = IF pendingAction = "Push" THEN resultHandler
                        ELSE WithoutHandlers(Activities)
    /\ currentActivity' = pendingActivity
    /\ Pend(NoActivity, "None")
    /\ restored' = FALSE
    /\ UNCHANGED <<signalVars, renderingMutex, suppressed,
                   deepSleepInProgress, calls, renderPc, owed, freshRender,
                   delivered>>

LoopSettled ==
    /\ MainGoes("check", "flush")
    /\ pendingAction = "None"
    /\ UNCHANGED <<navVars, signalVars, renderingMutex, suppressed,
                   deepSleepInProgress, context, calls, renderPc, historyVars>>

\* requestedUpdate.exchange(false), and the notification it asks for.
LoopFlush ==
    /\ MainGoes("flush", AfterLoop)
    /\ requestedUpdate' = FALSE
    /\ IF requestedUpdate THEN NotifyRender ELSE UNCHANGED renderNotified
    /\ calls' = 0
    /\ UNCHANGED <<navVars, mainNotified, waitingTask, renderingMutex,
                   suppressed, deepSleepInProgress, context, renderPc,
                   historyVars>>

-----------------------------------------------------------------------------
(* renderTaskLoop(). *)

RenderTake ==
    /\ RenderGoes("blocked", "acquire")
    /\ renderNotified /\ renderNotified' = FALSE
    /\ UNCHANGED <<navVars, requestedUpdate, waitingTask, mainNotified,
                   renderingMutex, suppressed, deepSleepInProgress, mainPc,
                   context, calls, historyVars>>

\* With nothing to render only the waiter is looked after.
NoSignal == \* mutant: a waiter is notified only if something was rendered
    IF currentActivity # NoActivity THEN "render" ELSE "release"
AfterAcquire == IF currentActivity # NoActivity THEN "render" ELSE "signal"

\* currentActivity is read only once the lock is held.
RenderAcquire ==
    /\ RenderGoes("acquire", AfterAcquire)
    /\ LockIsFree /\ renderingMutex' = "render"
    /\ owed' = FALSE
    /\ restored' = FALSE
    /\ freshRender' = (freshRender \/ waitingTask)
    /\ UNCHANGED <<navVars, signalVars, suppressed, deepSleepInProgress,
                   mainPc, context, calls, delivered>>

\* HomeActivity::render() asks for another update while it loads covers.
RenderRequestsUpdate ==
    /\ RenderGoes("render", "render")
    /\ requestedUpdate' = TRUE /\ owed' = TRUE
    /\ UNCHANGED <<navVars, renderNotified, mainNotified, waitingTask,
                   renderingMutex, suppressed, deepSleepInProgress, mainPc,
                   context, calls, restored, freshRender, delivered>>

RenderDone ==
    /\ RenderGoes("render", "signal")
    /\ UNCHANGED <<navVars, signalVars, renderingMutex, suppressed,
                   deepSleepInProgress, mainPc, context, calls, historyVars>>

\* waiter = waitingTaskHandle; waitingTaskHandle = nullptr.
WaiterKept == UNCHANGED waitingTask \* mutant
WaiterTaken == waitingTask' = FALSE

\* The critical section that takes the waiter, if there is one.
RenderSignal ==
    /\ RenderGoes("signal", IF waitingTask THEN "notify" ELSE "release")
    /\ WaiterTaken
    /\ UNCHANGED <<navVars, requestedUpdate, renderNotified, mainNotified,
                   renderingMutex, suppressed, deepSleepInProgress, mainPc,
                   context, calls, historyVars>>

RenderNotify ==
    /\ RenderGoes("notify", "release")
    /\ mainNotified' = TRUE
    /\ UNCHANGED <<navVars, requestedUpdate, waitingTask, renderNotified,
                   renderingMutex, suppressed, deepSleepInProgress, mainPc,
                   context, calls, historyVars>>

\* The RenderLock goes out of scope at the end of the iteration.
RenderRelease ==
    /\ RenderGoes("release", "blocked")
    /\ renderingMutex' = "free"
    /\ UNCHANGED <<navVars, signalVars, suppressed, deepSleepInProgress,
                   mainPc, context, calls, historyVars>>

-----------------------------------------------------------------------------

ActivityCode ==
    \/ \E immediate \in BOOLEAN : CallRequestUpdate(immediate)
    \/ CallRequestUpdateAndWait
    \/ \E a \in Activities \ {SleepActivity} :
          CallStartActivityForResult(a) \/ CallPushActivity(a)
          \/ CallReplaceActivity(a)
    \/ \E held \in BOOLEAN : CallFinish(held)
    \/ CallLongPress
    \/ CallLock

MainTask ==
    \/ ActivityCode
    \/ MainAcquire \/ MainUnlock \/ MainPost \/ MainWake \/ CallReturn
    \/ \E usbChanged \in BOOLEAN : MainLoop(usbChanged)
    \/ MainTakesLock
    \/ \E a \in Activities, sleep \in BOOLEAN : MainReplaces(a, sleep)
    \/ LoopSuppressed \/ LoopActivity \/ LoopPop \/ LoopPopLast
    \/ \E a \in Activities \ {SleepActivity} : LoopGoHome(a)
    \/ LoopLaunch \/ LoopSettled \/ LoopFlush

RenderTask ==
    \/ RenderTake \/ RenderAcquire \/ RenderRequestsUpdate \/ RenderDone
    \/ RenderSignal \/ RenderNotify \/ RenderRelease

Next == MainTask \/ RenderTask \/ Halted

Spec == Init /\ [][Next]_vars

(***************************************************************************)
(* Fairness.  The scheduler runs both tasks.  The render task gets the     *)
(* mutex although the main task takes it again and again: main.cpp ends    *)
(* every iteration in delay(), outside every lock.  A user who holds the   *)
(* screenshot combination lets go of it in the end.                        *)
(***************************************************************************)
Fairness ==
    /\ WF_vars(MainTask)
    /\ SF_vars(\E usbChanged \in BOOLEAN : MainLoop(usbChanged))
    /\ WF_vars(RenderTask)
    /\ SF_vars(RenderAcquire)
    /\ WF_vars(RenderDone)

FairSpec == Spec /\ Fairness

-----------------------------------------------------------------------------
(* Properties. *)

TypeOK ==
    /\ currentActivity \in MaybeActivity
    /\ stackActivities \in Seq(Activities)
    /\ pendingActivity \in MaybeActivity
    /\ pendingAction \in {"None", "Push", "Pop", "Replace"}
    /\ resultHandler \in [Activities -> MaybeActivity]
    /\ requestedUpdate \in BOOLEAN /\ waitingTask \in BOOLEAN
    /\ renderNotified \in BOOLEAN /\ mainNotified \in BOOLEAN
    /\ renderingMutex \in {"free", "main", "render"}
    /\ suppressed \in BOOLEAN /\ deepSleepInProgress \in BOOLEAN
    /\ mainPc \in {"call", "want", "locked", "posting", "waiting", "idle",
                   "loop", "check", "home", "flush", "halted"}
    /\ context \in {"setup", "main", "loop", "exclusive", "handler", "enter"}
    /\ calls \in 0..MaxCalls
    /\ renderPc \in {"blocked", "acquire", "render", "signal", "notify",
                     "release"}
    /\ owed \in BOOLEAN /\ restored \in BOOLEAN /\ freshRender \in BOOLEAN
    /\ delivered \in [from : MaybeActivity, awaited : MaybeActivity]

\* While the render task is inside an activity's render(), nobody destroys,
\* pushes away or replaces that activity: the lock is taken around every such
\* change, except goHome()'s, which fills a null currentActivity.
RenderedActivityStays ==
    [][renderPc = "render" => currentActivity' = currentActivity]_vars

\* The `while (pendingAction != None)` of loop() cannot spin: whenever it is
\* tested there is an object to launch for a Push or a Replace, and one to
\* destroy for a Pop, however many requests overrode each other before.
PendingIsExecutable ==
    mainPc = "check" =>
        CASE pendingAction = "None" -> pendingActivity = NoActivity
          [] pendingAction = "Pop"  -> /\ pendingActivity = NoActivity
                                       /\ currentActivity # NoActivity
          [] pendingAction = "Push" -> /\ pendingActivity # NoActivity
                                       /\ currentActivity # NoActivity
          [] OTHER                  -> pendingActivity # NoActivity

\* A handler runs with the result of the activity it was stored for, though
\* a request may be overridden or dropped before it is carried out.
HandlerGetsItsResult == delivered.from = delivered.awaited

\* requestUpdateAndWait() finds the wait slot free (its assert never fires)
\* and no notification left over from an earlier wait, which would end this
\* one at once.
WaitSlotFree ==
    mainPc \notin {"posting", "waiting"} => ~waitingTask /\ ~mainNotified

\* Once an exclusive-storage activity has the main loop, nothing but a restart
\* takes it away: no request its own code makes, and nothing in main.cpp.
ExclusiveKeepsControl ==
    [](mainPc = "idle" /\ currentActivity \in ExclusiveActivities
         => [](currentActivity \in ExclusiveActivities))

\* Every requested update is answered by a render pass that begins later,
\* however requests and renders interleave, unless the device is asleep.
UpdateServed == owed ~> (~owed \/ mainPc = "halted")

\* "Request an update to ensure the popped activity gets re-rendered": an
\* activity uncovered by a Pop is rendered, or gives way to another one.
RestoredIsRendered == restored ~> (~restored \/ mainPc = "halted")

\* A task blocked in requestUpdateAndWait() is woken.
WaiterWakes == mainPc = "waiting" ~> mainPc = "call"

\* The activities from the bottom of the stack to the current one, and which
\* of them await the result of the one above.
Chain == IF currentActivity = NoActivity
         THEN <<>> ELSE Append(stackActivities, currentActivity)
Screens == [i \in DOMAIN Chain |->
              [activity |-> Chain[i],
               asks |-> i < Len(Chain)
                        /\ resultHandler[Chain[i]] # NoActivity]]

\* The stack, the results and their handlers behave as NavigationStack says.
Navigation == INSTANCE NavigationStack WITH
    screens <- Screens,
    answer <- delivered.awaited

ImplementsNavigation == Navigation!Spec

\* What the header says of requestUpdateAndWait(), "Trigger a render and block
\* until it completes": the render that ends the wait began after the call.
WaitEndsAfterOwnRender == mainPc = "waiting" /\ mainNotified => freshRender
=============================================================================
