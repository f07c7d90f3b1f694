-------------------------- MODULE NavigationStack --------------------------
(***************************************************************************)
(* What the activity manager promises the activities: screens are opened   *)
(* on top of each other and closed from the top; a screen that asked the   *)
(* one above it for a result gets the answer of exactly that screen; a     *)
(* replacement closes everything; closing the last screen leads home.      *)
(* There are no tasks, locks or pending requests here.                     *)
(***************************************************************************)
EXTENDS Naturals, SequencesExt

CONSTANTS Activities, NoActivity

VARIABLES
    screens,  \* bottom to top: [activity, asks], asks: it awaits an answer
    answer    \* the screen whose answer is being handed down

navigationVars == <<screens, answer>>

Screen == [activity : Activities, asks : BOOLEAN]
Opened(a) == [activity |-> a, asks |-> FALSE]
Shown == {screens[i].activity : i \in DOMAIN screens}

TypeOK ==
    /\ screens \in Seq(Screen)
    /\ answer \in Activities \cup {NoActivity}

Init == screens = <<>> /\ answer = NoActivity

\* The top screen opens another one, and may ask it for a result.
Open(a, asks) ==
    /\ screens # <<>> /\ a \in Activities \ Shown
    /\ screens' = Append([screens EXCEPT ![Len(screens)] =
                             [activity |-> @.activity, asks |-> asks]],
                         Opened(a))
    /\ UNCHANGED answer

\* The top screen closes and the one below it returns.
Close ==
    LET below == Len(screens) - 1 IN
    /\ below > 0 /\ answer = NoActivity
    /\ screens' = [Front(screens) EXCEPT ![below] = Opened(@.activity)]
    /\ answer' = IF screens[below].asks THEN Last(screens).activity
                                        ELSE NoActivity

CloseLast ==
    /\ Len(screens) = 1
    /\ screens' = <<>>
    /\ UNCHANGED answer

GoHome(a) ==
    /\ screens = <<>>
    /\ screens' = <<Opened(a)>>
    /\ UNCHANGED answer

\* The whole stack gives way to one new screen.
Reset(a) ==
    /\ screens # <<>> /\ a \in Activities \ Shown
    /\ screens' = <<Opened(a)>>
    /\ UNCHANGED answer

Answered ==
    /\ answer # NoActivity /\ answer' = NoActivity
    /\ UNCHANGED screens

Next ==
    \/ \E a \in Activities :
          \/ \E asks \in BOOLEAN : Open(a, asks)
          \/ GoHome(a)
          \/ Reset(a)
    \/ Close \/ CloseLast \/ Answered

Spec == Init /\ [][Next]_navigationVars
=============================================================================
