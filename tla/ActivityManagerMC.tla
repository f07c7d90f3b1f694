------------------------- MODULE ActivityManagerMC -------------------------
(* Model values for ActivityManager: one object is SleepActivity's, some   *)
(* are exclusive-storage activities, the others are interchangeable.       *)
EXTENDS ActivityManager, TLC

CONSTANTS Sleep, Usb, Plain

MCActivities == Plain \cup Usb \cup {Sleep}
ScreenSymmetry == Permutations(Plain)
=============================================================================
