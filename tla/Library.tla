------------------------------- MODULE Library -------------------------------
(***************************************************************************)
(* What a reading session does to the card, from the start of the device   *)
(* to its sleep: opening a book, saving the position, finishing the book   *)
(* and moving it to /Read, the recent list, and the restarts a screen asks *)
(* for itself.  Settings may change at any time, so what they decide is a  *)
(* choice where they are read.                                             *)
(***************************************************************************)
EXTENDS BookCard

CONSTANT ReadFolder  \* the names a book can get in /Read, in order of choice

ASSUME ReadFolderAssumption == ReadFolder \in Seq(Paths) \ {<<>>}

VARIABLES
    screen,       \* one of Screens
    reading,      \* bookPath, or Nothing without a reader
    atEnd,        \* isAtEndOfBook()
    entryRemoved, \* recentsEntryRemoved
    pendingMove,  \* pendingReadFolderMove
    sleeping,     \* deepSleepInProgress
    rebootTarget  \* silentRebootTarget with its magic number, or "none"

Screens == {"home", "opening", "reader", "launching", "sync", "usb", "web",
            "restarting", "off"}

readerVars == <<reading, atEnd, entryRemoved, pendingMove>>
powerVars == <<sleeping, rebootTarget>>
libraryVars == <<screen, readerVars, powerVars>>

InRead(p) == \E i \in DOMAIN ReadFolder : ReadFolder[i] = p
Ready(s) == screen = s /\ todo = <<>> /\ ~sleeping
Makes(calls) ==
    /\ todo' = calls
    /\ UNCHANGED <<file, cacheVars, listVars, faults, leftBehind>>
Rests == UNCHANGED cardVars

SavePlace(p) == <<On("dropPlace", p), Call("putPlace", p, Nothing, file[p])>>
NoReader == reading' = Nothing /\ atEnd' = FALSE /\ entryRemoved' = FALSE
            /\ pendingMove' = FALSE

-----------------------------------------------------------------------------
(* Opening a book: ReaderActivity::onEnter() and loadBook(). *)

\* A cache is used if it is there and is not compared with the book.
Known(p) == data[p] # Nothing
CanOpen(p) == Exists(p) /\ (file[p] # Torn \/ Known(p))
Builds(p) == IF Known(p) THEN <<>> ELSE <<On("build", p)>>
Open(p) ==
    /\ Ready("home") /\ CanOpen(p)
    /\ screen' = "opening" /\ reading' = p /\ Makes(Builds(p))
    /\ UNCHANGED <<atEnd, entryRemoved, pendingMove, powerVars>>

Loaded ==
    /\ Ready("opening")
    /\ \/ /\ Known(reading) /\ screen' = "reader"
          /\ Makes(<<On("addRecent", reading)>>)
          /\ UNCHANGED readerVars
       \/ ~Known(reading) /\ screen' = "home" /\ NoReader /\ Makes(<<>>)
    /\ UNCHANGED powerVars

-----------------------------------------------------------------------------
(* The reader. *)

In == Ready("reader") /\ UNCHANGED <<screen, reading, powerVars>>

ShowPage ==
    /\ In /\ ~atEnd /\ Makes(SavePlace(reading))
    /\ UNCHANGED <<atEnd, entryRemoved, pendingMove>>

\* The next loop() at the end of the book looks at both settings.
Finish(remove, move) ==
    /\ In /\ ~atEnd /\ atEnd' = TRUE
    /\ pendingMove' = (move /\ ~InRead(reading))
    /\ entryRemoved' = (remove /\ Listed(reading))
    /\ Makes(IF remove THEN <<On("dropRecent", reading)>> ELSE <<>>)

\* Back from the end; the entry returns while the setting is still on.
Return(remove) ==
    /\ In /\ atEnd /\ atEnd' = FALSE /\ pendingMove' = FALSE
    /\ entryRemoved' = (entryRemoved /\ ~remove)
    /\ Makes(IF entryRemoved /\ remove THEN <<On("addRecent", reading)>>
             ELSE <<>>)

\* moveFinishedBookToReadFolder(), from the destructor.
Free == {i \in DOMAIN ReadFolder : ~Exists(ReadFolder[i])}
Destination ==
    ReadFolder[IF Free = {} THEN Len(ReadFolder)
               ELSE CHOOSE i \in Free : \A j \in Free : i <= j]
CacheFirst(p, q) == \* mutant: the cache goes ahead of the book
    <<Call("moveCache", p, q, Nothing), Call("rename", p, q, Nothing),
      Call("updateRecent", p, q, Nothing)>>
MoveBook(p, q) ==
    <<Call("rename", p, q, Nothing), Call("moveCache", p, q, Nothing),
      Call("updateRecent", p, q, Nothing)>>

\* onExit() and the destructor: the origin of a footnote, then the move.
Closing(footnote) ==
    (IF footnote THEN SavePlace(reading) ELSE <<>>)
    \o (IF pendingMove THEN MoveBook(reading, Destination) ELSE <<>>)

Close(footnote) ==
    /\ Ready("reader")
    /\ screen' = "home" /\ Makes(Closing(footnote)) /\ NoReader
    /\ UNCHANGED powerVars

\* Confirm at the end starts the book anew; Delete Cache of the reader menu
\* keeps the page, at any place of the book.  Either then leaves the reader.
ClearKeepingPlace == <<On("clear", reading)>> \o SavePlace(reading)
StartOver(footnote) ==
    /\ Ready("reader")
    /\ screen' = "home" /\ NoReader
    /\ Makes(ClearKeepingPlace \o Closing(footnote))
    /\ UNCHANGED powerVars

-----------------------------------------------------------------------------
(* Lists and caches from the other screens. *)

Home == Ready("home") /\ UNCHANGED libraryVars
ShowRecents == Home /\ Makes(<<On("pruneRecents", Nothing)>>)
RemoveFromRecents(p) ==
    /\ Home /\ Listed(p)
    /\ Makes(<<On("dropRecent", p), On("clear", p)>>)
ClearCaches == Home /\ Makes(<<On("clearAll", Nothing)>>)

-----------------------------------------------------------------------------
(* Restarts and sleep. *)

\* silentRestart(), silentRestartToReader(), restartToHomeAfterStorageHandoff():
\* a screen that is left for sleep does not restart the device.
Regardless == TRUE \* mutant: no look at deepSleepInProgress
MayRestart == ~sleeping
RestartsTo(destination) ==
    /\ NoReader
    /\ IF MayRestart THEN rebootTarget' = destination /\ screen' = "restarting"
       ELSE UNCHANGED rebootTarget /\ screen' = "off"

\* launchKOReaderSync(): not without a position the sync can come back to.
ReleasedFirst == \* mutant: the book is let go before its position is saved
    /\ Ready("reader") /\ ~atEnd /\ screen' = "launching"
    /\ Makes(SavePlace(reading)) /\ NoReader
    /\ UNCHANGED powerVars
LaunchSync ==
    /\ Ready("reader") /\ ~atEnd /\ screen' = "launching"
    /\ Makes(SavePlace(reading))
    /\ UNCHANGED <<readerVars, powerVars>>
SyncLaunched ==
    /\ Ready("launching")
    /\ \/ place[reading] # Nothing /\ screen' = "sync"
       \/ faults > 0 /\ screen' = "reader"
    /\ Rests /\ UNCHANGED <<readerVars, powerVars>>
LeaveSync ==
    Ready("sync") /\ RestartsTo("reader") /\ Rests /\ UNCHANGED sleeping

OpenUsb == Ready("home") /\ screen' = "usb" /\ Rests
           /\ UNCHANGED <<readerVars, powerVars>>
LeaveUsb ==
    Ready("usb") /\ RestartsTo("home") /\ Rests /\ UNCHANGED sleeping

\* enterDeepSleep(): the state is saved before the screen is left; the USB
\* screen keeps the loop and is never put to sleep.
FallAsleep(footnote) ==
    /\ todo = <<>> /\ ~sleeping /\ screen \in {"home", "reader", "sync", "web"}
    /\ sleeping' = TRUE
    /\ Makes(IF screen = "reader" THEN Closing(footnote) ELSE <<>>)
    /\ UNCHANGED <<screen, readerVars, rebootTarget>>
Asleep ==
    /\ todo = <<>> /\ sleeping /\ screen \in {"home", "reader", "sync"}
    /\ IF screen = "sync" THEN RestartsTo("reader")
       ELSE screen' = "off" /\ NoReader /\ UNCHANGED rebootTarget
    /\ Rests /\ UNCHANGED sleeping

\* setup(): the target is read and cleared before anything else can fail, and
\* is obeyed unless the reset was a panic's or the recovery button is held.  Which
\* book openEpubPath names is left open.
ClearTarget == rebootTarget' = "none"
Boot ==
    /\ screen \in {"restarting", "off"}
    /\ ClearTarget /\ sleeping' = FALSE /\ LoadList
    /\ \/ screen' = "home" /\ UNCHANGED <<reading, todo>>
       \/ \E p \in Paths :
              /\ rebootTarget = "reader" /\ CanOpen(p)
              /\ screen' = "opening" /\ reading' = p /\ todo' = Builds(p)
    /\ UNCHANGED <<atEnd, entryRemoved, pendingMove>>

LibraryInit ==
    /\ screen = "off" /\ reading = Nothing /\ atEnd = FALSE
    /\ entryRemoved = FALSE /\ pendingMove = FALSE
    /\ sleeping = FALSE /\ rebootTarget = "none"

Reading ==
    \/ \E p \in Paths : Open(p) \/ RemoveFromRecents(p)
    \/ Loaded \/ ShowPage \/ ShowRecents \/ ClearCaches
    \/ \E remove, move \in BOOLEAN : Finish(remove, move)
    \/ \E remove \in BOOLEAN : Return(remove)
    \/ \E footnote \in BOOLEAN : Close(footnote) \/ StartOver(footnote)
Powering ==
    \/ LaunchSync \/ SyncLaunched \/ LeaveSync \/ OpenUsb \/ LeaveUsb \/ Asleep \/ Boot
    \/ \E footnote \in BOOLEAN : FallAsleep(footnote)

=============================================================================
