----------------------------- MODULE CardSession -----------------------------
(***************************************************************************)
(* The device with its card: the screens of Library and the server of      *)
(* Transfers over the files, caches and recent list of BookCard.  Only one *)
(* screen runs, so a reader and the server never do; what one leaves on    *)
(* the card, and what a power loss cuts short, the other finds.            *)
(***************************************************************************)
EXTENDS Library, Transfers

vars == <<cardVars, libraryVars, serverVars>>

\* A step that concerns the screens, or the server, only.
AtTheScreen == UNCHANGED serverVars
AtTheServer == UNCHANGED libraryVars

Init == CardInit /\ LibraryInit /\ ServerInit

OpenWeb ==
    /\ Ready("home") /\ StartServer /\ screen' = "web" /\ Rests
    /\ UNCHANGED <<readerVars, powerVars>>

\* onExit() and the destructor, to go home or to sleep.
CloseWeb ==
    /\ screen = "web" /\ StopServer
    /\ screen' = IF sleeping THEN "off" ELSE "home"
    /\ UNCHANGED <<readerVars, powerVars>>

Serving == Ready("web") /\ AtTheServer
Serve == Serving /\ Requests
Listen == Serving /\ Events

Fetching ==
    /\ Home /\ UNCHANGED leftBehind /\ AtTheScreen
    /\ \/ \E p \in Paths : BrowserDeletes(p)
       \/ \E p \in Paths, b \in Books : Download(p, b)

\* Power is lost, or a panic resets the device, wherever it is.
PowerLoss ==
    /\ screen \notin {"restarting", "off"} /\ LosePower /\ ServerGone
    /\ screen' = "off" /\ sleeping' = FALSE /\ NoReader
    /\ UNCHANGED rebootTarget

Run == Calls /\ UNCHANGED <<libraryVars, serverVars>>

Next ==
    \/ (Reading \/ Powering) /\ AtTheScreen
    \/ OpenWeb \/ CloseWeb \/ Serve \/ Listen
    \/ Fetching \/ PowerLoss \/ Run

Spec == Init /\ [][Next]_vars

-----------------------------------------------------------------------------
(* Properties. *)

CallNames == {"remove", "write", "rename", "put", "clear", "clearAll", "build",
              "dropPlace", "putPlace", "moveCache"} \cup ListCalls

\* The type of the card, the screens and the server.
CardTypeOK ==
    /\ file \in [Paths -> Books \cup {Torn, Nothing}]
    /\ data \in [Paths -> Books \cup {Torn, Nothing}]
    /\ place \in [Paths -> Books \cup {Torn, Nothing}]
    /\ \A list \in {recents, recentsCard} \ {Torn} :
           Len(list) <= MaxRecent /\ \A i \in DOMAIN list : list[i] \in Paths
    /\ \A i \in DOMAIN todo : todo[i].call \in CallNames
    /\ leftBehind \subseteq Paths /\ faults \in 0..MaxFaults
    /\ screen \in Screens /\ reading \in Paths \cup {Nothing}
    /\ (screen \in {"opening", "reader", "launching"} => reading \in Paths)
    /\ connected \subseteq Clients /\ owner \in Clients \cup {NoClient}
    /\ target \in Paths \cup {Nothing} /\ (owner # NoClient => target \in Paths)

Whole(p) == file[p] \in Books

\* Between two handlers a book's cache directory was made from this very book:
\* whatever put the book under its name took away the cache the name had, or
\* is known to have been kept from it.  (Caches are found by path alone, and
\* Epub::load() does not compare them with the book.)
CacheIsOfItsBook ==
    todo = <<>> =>
        \A p \in Paths \ leftBehind : Whole(p) =>
            /\ data[p] \in {Nothing, Torn, file[p]}
            /\ place[p] \in {Nothing, file[p]}

\* No path is twice in the recent list, although updatePath() gives an entry a
\* new path without looking for one that has it.
RecentsAreDistinct ==
    \A i, j \in DOMAIN recents : recents[i] = recents[j] => i = j

\* The target of a silent restart stands only while the device restarts for it:
\* no sleep, and no later boot, finds one that was not for it.
RestartIsWanted ==
    rebootTarget # "none" => screen = "restarting" /\ ~sleeping

\* A saved position goes away only because the book is started over, replaced,
\* deleted, taken from the recent list or saved again, or because it moves
\* along with its book: never when a finished book changes its place.
MovesAlong(p) ==
    \E q \in Paths : place'[q] = place[p] /\ file'[q] = place[p]
PlaceGoesOnlyKnowingly ==
    \A p \in Paths \ leftBehind :
        place[p] # Nothing /\ place'[p] = Nothing =>
            \/ (Doing("clear") \/ Doing("dropPlace")) /\ This.path = p
            \/ MovesAlong(p)
PlaceStaysWithItsBook == [][PlaceGoesOnlyKnowingly]_vars

\* An upload over the WebSocket has a client that is still connected, passes to
\* no other, and ends with the server, its own client's disconnect or a binary
\* message: no connection, request, START or late disconnect of another client
\* ends it.
UploadHasItsOwner ==
    owner # NoClient => owner \in connected /\ running
UploadBelongsToItsOwner ==
    /\ []UploadHasItsOwner
    /\ [][owner # NoClient /\ owner' # owner =>
             \/ ~running'
             \/ connected' = connected \ {owner}
             \/ connected' = connected /\ owner' = NoClient]_vars

\* WebDAVHandler.cpp:79: a temporary file is used "to avoid destroying the
\* original on failed upload": when the last step of a PUT fails, the book that
\* had the name still has it.
FailedPutKeepsTheBook ==
    [][PutFails /\ AtTheServer /\ AtTheScreen /\ This.to # Nothing
         => file'[This.path] = This.to]_vars
=============================================================================
