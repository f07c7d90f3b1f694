--------------------------- MODULE CardSessionMC ---------------------------
(* Values of CardSession's constants that a configuration cannot write:    *)
(* books and clients are interchangeable.                                  *)
EXTENDS CardSession, TLC

CONSTANT Finished1

Read == <<Finished1>>
BookSymmetry == Permutations(Books) \cup Permutations(Clients)

\* Bound: once the last fault has happened no WebSocket client is followed.
NoClientAfterFaults == faults = MaxFaults => connected = {}
=============================================================================
