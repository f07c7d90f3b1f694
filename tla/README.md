# Formal models of Minuta

Minuta is the firmware of a small e-paper reader (Xteink X4, ESP32-C3, one core,
FreeRTOS, a CrossPoint fork). This directory holds TLA+ modules for the parts of it whose
correctness depends on interleavings, power losses, failing calls and long sequences of
button presses, the TLC configurations that check them, and proofs for TLAPS.

Paths are relative to the repository's root (`src/main.cpp`, `lib/hal/...`).

    tlc -config ActivityManager_safety.cfg ActivityManagerMC.tla     # one run
    tlapm ActivityManagerProofs.tla                                  # one proof module

`PROJECT.json` lists the components, the runs with their properties, for every property a
mutant of the code that breaks it, the source lines of every definition, the hazards, the
findings and the theorems.

## 1. The system

### Tasks and shared state

Two tasks do nearly all the work: the Arduino **main loop** (`src/main.cpp`) and the **render
task** that `ActivityManager` creates with the main loop's priority. The web server, the
WebSocket and WebDAV handlers and the OTA download run inside the loop of an activity. What
the tasks share is guarded by

| guard | protects | taken by |
|---|---|---|
| `renderingMutex` (`RenderLock`) | `currentActivity`, the framebuffer, the reader's `section` but for the reads of the last row | both tasks |
| `modeMutex` | `HalPowerManager::currentLockMode` | both tasks |
| `HalStorage`'s recursive mutex | the SD card | both tasks |
| `PersistableStore`'s and the credential store's mutexes | one JSON document each | both tasks |
| atomics (`requestedUpdate`, `registryDirty_`, `BuildScratch`'s claim, `uiReady`) | one flag each | both tasks |
| nothing | `isLowPower`, the battery sample fields, `section->currentPage` in `pageTurn()`, the page (and with it the build's file handle) that the word selection reads | both tasks |

### Components

For each component: the state it keeps (S), its operations (O), what is hard about it (H)
and what makes it correct (C).

* **Activity manager** (`src/activities/ActivityManager.cpp`, `Activity.cpp`).
  S: current, stacked and pending activity, result handlers, update flag, wait slot. O:
  push/pop/replace/finish, `startActivityForResult()`, `requestUpdate()`,
  `requestUpdateAndWait()`, `loop()`, the render task's loop. H: requests override each other
  before they are carried out, deletion against rendering, lost wake-ups, handlers of
  requests that were dropped. C: no activity changes while it is rendered, every result
  reaches the handler stored for it, every requested update is rendered, an
  exclusive-storage screen keeps the loop.
* **Main loop** (`loop()` of `src/main.cpp`). S: a dozen statics and flags that tell apart
  wake hold, long hold, screenshot and lockout. O: one iteration with many early returns.
  H: each early return leaves the flags differently. C: one gesture has one meaning, the
  device goes to sleep when it should.
* **CPU power manager** (`lib/hal/HalPowerManager.cpp`). S: clock, `isLowPower`, lock mode. O:
  `setPowerSaving()`, `Lock`. H: unguarded reads and writes by design. C: the flag tells the
  truth, a slow clock under a lock is repaired.
* **Low-battery lockout** (same file). S: sample, sequence number, validity, counter of zero
  readings. O: `getBatteryPercentage()`, `isLowBatteryLockoutActive()`. H: three fields
  written apart by two tasks, failing sensor. C: no lockout without a zero reading, an empty
  battery is locked out.
* **Firmware update** (`src/network/FirmwareFlasher.cpp`, `OtaBootSwitch.cpp`,
  `OtaUpdater.cpp`, `setup()`). S: two app partitions, two select entries, build marker in
  NVS, settings and caches on the card. O: write image, switch, rollback, confirm, clear. H:
  power loss between any two flash or card writes. C: the device always boots a whole image;
  a build never uses the data of another one.
* **EPUB section cache** (`lib/Epub/Epub/Section.cpp`). S: the section file, its `.part`, the
  unzipped chapter and its temporary file, the build in progress. O: load, start, build some
  more, suspend, abandon, finalize, commit, load a page. H: pages come from three places
  while a partial is extended; every write can fail; the word selection reads through the handle
  of a running build without the lock. C: a trusted file is whole; every page offered can be
  read.
* **EPUB reader** (`src/activities/reader/EpubReaderActivity.cpp`). S: section, page, spine
  index, footnote stack, bookmarks, pending options. O: `renderBook()`, `loop()`,
  `pageTurn()`, menus. H: background work between renders, a build that fails half-way. C:
  the reader shows the page asked for and skips none.
* **Boot and silent restart** (`setup()`, `src/SilentRestart.h`, `lib/hal/HalSystem.cpp`).
  S: RTC variables that survive a software restart, the last screen. H: which flags survive
  which reset. C: every boot ends on a screen, no restart loop, a sleep is not undone.
* **Input mapping** (`src/MappedInputManager.cpp`, `src/util/ButtonNavigator.cpp`). S:
  long-press latches, releases to be swallowed. C: one press has one effect.
* **Recent books and persistent stores** (`RecentBooksStore.cpp`,
  `lib/Serialization/PersistableStore.*`, settings, state, servers, credentials). O: load with
  migration, truncating save. H: power loss during a save; a book that gets the path of
  another entry. C: what was saved is read back; no path is listed twice.
* **Reading position and finished books** (`ProgressFile.h`, `EpubReaderUtils.h`,
  `moveFinishedBookToReadFolder()`, bookmarks and highlights). H: the position, the book, its
  cache and the recent list are moved one by one. C: a book keeps its position.
* **Book metadata cache** (`lib/Epub/Epub.cpp`, `BookMetadataCache.cpp`). S: `book.bin` and
  two temporary files, in a directory named after the book's path. H: another book comes to
  the path. C: a cache is used for the book it was built from.
* **Text reader** (`TxtReaderActivity.cpp`, `lib/Txt`). S: page index file. C: the index
  covers the text, in order, once.
* **Position sync** (`KOReaderSyncActivity.cpp`, `lib/KOReaderSync`). S: local and remote
  position, two book identifiers. H: other devices write the same record; the heap is cleared
  by a restart in the middle. C: the furthest position is not overwritten by an older one
  without the user's choice, and the reader comes back to its position.
* **Wi-Fi connection** (`WifiSelectionActivity.cpp`, `WifiCredentialStore.cpp`). S: a state
  machine of 10 states with timeouts, the saved networks. H: the driver answers in its own
  task, possibly for the attempt before. C: it ends connected to the network it reports, or
  gives up; the marks in its list are true.
* **Web server, WebSocket upload, WebDAV, downloads** (`CrossPointWebServer.cpp`,
  `WebDAVHandler.cpp`, `HttpDownloader.cpp`, OPDS). S: one upload in progress per protocol.
  H: several clients, disconnects. C: a book that appears on the card is whole.
* **USB drive** (`UsbDriveActivity.cpp`, `HalStorage.cpp`). C: host and firmware never both
  own the card.
* **Fonts and framebuffer loan** (`SdCardFontSystem.cpp`, `lib/EpdFont`,
  `lib/Memory/BuildScratch.cpp`). H: rediscovery against rendering, a loan taken back
  early.
* **EPUB parsing and layout, text algorithms, image decoders, dictionary**: sequential
  functions of their input.
* **Screens and menus, sleep screen, themes**: output.
* **Vendored libraries** (`lib/expat`, `lib/miniz`, `lib/uzlib`): third-party.

Calls between them: `loop()` samples input and battery, then calls
`activityManager.loop()`, which calls the current activity, which calls the manager back;
the render task calls `render()` of the current activity, which takes a
`HalPowerManager::Lock`, reads the battery (the status bar's icon) and, in the reader, drives
the section build. `enterDeepSleep()` and `goToSleep()` call the manager from outside
`activityManager.loop()`.

## 2. Modules and how they correspond to the code

| module | models | proofs |
|---|---|---|
| `ActivityManager` | both tasks around the activity manager | `ActivityManagerProofs` |
| `NavigationStack` | what the manager promises activities, without tasks | refined by `ActivityManager` |
| `ActivityManagerMC` | model values and symmetry for TLC | |
| `DeviceLoop` | `loop()` of `main.cpp`, one iteration a step | `DeviceLoopProofs` |
| `PowerManager` | `setPowerSaving()` and `Lock` in any set of tasks | `PowerManagerProofs` |
| `LowBattery` | battery sampling in two tasks and the lockout | `LowBatteryProofs` |
| `FirmwareUpdate` | flashing, boot switch, rollback, clearing, confirming | `FirmwareUpdateProofs` |
| `EpubReading` | `Section` and the reader around it, one chapter | `EpubReadingProofs` |
| `BookCard` | books, cache directories and recent list on the card, call by call | |
| `Library` | opening, reading, finishing and moving a book, restarts and sleep | |
| `Transfers` | HTTP, WebDAV and WebSocket handlers, deletions, downloads | |
| `CardSession` | composes the three | `CardSessionProofs` |
| `CardSessionMC` | values, symmetry and the bound of the runs | |
| `WifiSelection` | the Wi-Fi screen, the credential store, the driver | |
| `PositionSync` | one sync of a reading position | |
| `SyncSession` | composes the two | `SyncSessionProofs` |

**ActivityManager.** A step is a stretch of one task's code with at most one access to
state of the other task, so every preemption of the scheduler is an interleaving of steps.
`mainPc` and `renderPc` are the places where a task can be preempted; `context` says who
called activity code (`loop()`, `onEnter()`, a result handler, `setup()`). Activity code is
an environment: at most `MaxCalls` calls of the manager per loop, any calls in any order
(`Call...` actions). A FreeRTOS notification count is reduced to "not zero", which is what
`ulTaskNotifyTake(pdTRUE)` distinguishes. `MainReplaces`, `GlobalControls` and
`MainTakesLock` are the calls `main.cpp` makes outside `activityManager.loop()`.
Assumed of activity code, from a reading of its callers: nobody calls
`requestUpdateAndWait()` under a `RenderLock` (the code asserts it), `pushActivity()` is not
called while a result handler of the same activity is stored, and `onExit()` takes no
`RenderLock`. `render(RenderLock&&)` takes the lock by reference: the render task keeps it until
the end of its iteration. An activity object is a model value; `Fresh(a)` allocates one
that is not in use.

**DeviceLoop.** `loop()` is sequential and samples the buttons once, so an iteration is one
step; each action is one way through it, up to the early return it takes. Times are reduced
to the comparisons made: `longHold`, `sleepAllowed`, `idle`. `setUp` says whether `setup()` ran
to its end: after a card that cannot be mounted, or a fresh firmware that cannot be confirmed,
it returns before it notes the wake and puts off the sleep hold, and `loop()` runs all the same
behind a message. History variables say what
the current hold has already been used for. Serial commands and logging (551-571) are left
out.

**PowerManager.** `setPowerSaving()` is cut at each access to shared fields: read the lock
mode, decide, set the clock (which may fail), write `isLowPower`. Nothing is atomic but
the sections under `modeMutex`.

**LowBattery.** The same for `getBatteryPercentage()`, in the order of the gauge or of the ADC
branch (`HasGauge`), against `isLowBatteryLockoutActive()`. The sequence number is only
compared for equality, so it is one bit.

**FirmwareUpdate.** The two otadata sectors, the image in each partition (the build it holds,
or `Torn`), whose settings and caches lie on the card and the build marker. `Reset` is enabled in every
state; every call that can fail has its failing action. `kept` and `wired` record that data of
another build is on the card for a reason the code cannot repair (a failed removal or
marker call, a USB flash, another card, a firmware that `missed` that it is unconfirmed because
`esp_ota_get_state_partition()` failed). External: the bootloader's choice of an entry and
its rollback, `esptool`, the user who changes the card. `alreadyValidated` and the
checksum are abstracted: an image that is written completely is a build.

**EpubReading.** The card (`bin`, `part`, `html`, `temp`), the `Section` object and the reader.
What builds, commits and shows holds the `RenderLock`, so those operations do not overlap;
`PowerLoss` can cut them between any two changes of the card, and every call has an action in
which it fails; both draw on the bounded supply `faults`. `openHighlightWordSelect()` and
`openDictionaryWordSelect()` read a page in the main task without the lock (`Peek`, at any step
of the render task's build, commit or read). Page reads from a build are therefore cut where
`HalFile` locks: note the position, seek, read, seek back; and a page is placed (`PlacePage`, the
position for the table) and written (`WritePage`) in two steps. `cursor` is the shared handle,
`lut` the slot each page is said to be in, `intact` the pages that are there, `reads` the read
each task is in; `raced` notes that the handle moved during the other task's read. A page is its
number; a build chunk is one page; the chapter has some number of pages under each spec,
chosen at the start. The spec (font, margins, orientation) only changes with a
`section.reset()`, as in `applyOrientation()` and the menu's handler.

**BookCard.** A path is a model value, a book is one too, and `file` says what is under each
path. A cache directory belongs to a path; `data` (`book.bin` and the sections) and `place`
(`progress.bin`) are the book they were made for, so a cache that another book left behind is
a visible state. A handler of a screen or of the server begins by putting the calls it will
make into `todo`; each call is a step, has an action in which it fails (the handler returns or
goes on, as the code does), and `LosePower` can cut it anywhere, leaving what the call had
done by then. The recent list is in memory (`recents`) and in a file that is truncated
before it is written (`recentsCard`). `leftBehind` is a history variable: the paths whose
cache a handler knowingly or by a fault left to whatever book comes there next.

**Library.** The actions are the handlers between two of which the loop returns: opening a
book, `ShowPage` (which saves the position), `StartOver` (a confirmed restart at the end, or Delete
Cache of the reader menu: a clear followed by the position as it was), the end of the book with its
two settings, and `Close`, which is `onExit()` and the destructor and so carries out the move to `/Read`.
`deepSleepInProgress` and the restart target of `SilentRestart.h` are there because they
decide where the next session begins: `RestartsTo`, `FallAsleep`, `Asleep`, `Boot`. Settings are
read when a handler runs and are a choice there.

**Transfers.** An HTTP or WebDAV request is read and answered inside one `handleClient()`, so
it is one handler. A WebSocket upload spans many; other clients' requests, also ones that
delete or replace the file, come between. `owner` and `target` are
`wsUploadClientNum` and the upload's name; the code leaves the name in its variables when
the upload ends and never looks at it before the next START, so the model forgets it.

**CardSession.** One screen runs at a time, so the reader and the server never do; what one
leaves on the card the other finds. `PowerLoss` is everywhere.

**WifiSelection.** `screen` is the activity's `state`, with "closed" for no activity. Actions
are the handlers of `loop()` (`Loops`), the user's (`User`) and the driver's (`Driver`,
external): of the driver the screen knows only what `WiFi.status()` answers in a later
`loop()`, so an answer may be late by any number of steps. Whether a password is accepted is
decided by the network; signal strength only orders the saved networks, so the next one is any.

**PositionSync.** Each request of `performSync()` is a step, other devices write between any two
of them, and a request may be stored without its answer arriving. Positions are numbers;
`local`, `saved` and `remote` are the reader's, the one in `progress.bin` and the one received.
`answer` and `disturbed` record what was received and whether another device wrote since.

**SyncSession.** A sync uses the connection that is there or opens the Wi-Fi screen; Settings
opens that screen as well and leaves the radio on; the credentials page of the web server
changes the store while no screen is open; the end of every sync is the restart that
reopens the book.

## 3. Runs

| run | question | result |
|---|---|---|
| `activity_safety` | are transitions, results, the wait slot and the render lock right under every interleaving? does the manager implement `NavigationStack`? does the USB screen keep the loop? | holds |
| `activity_live` | is every requested update rendered, every uncovered screen repainted, every waiter woken? | holds |
| `activity_stale` | does `requestUpdateAndWait()` end with a render that began after the call? | violated |
| `power` | flag and clock, one owner of the lock mode, a slow clock is repaired | holds |
| `battery` | does a lockout need a zero sample; does an empty battery end in it? | holds |
| `loop` | do the gestures on POWER stay apart, does an untouched device sleep? | holds |
| `update` | does the device always boot a whole image, and meet only its own data? | holds |
| `reading` | are trusted files whole, pages readable, does the reader get its page? | holds |
| `reading_turn` | does a page turn leave a chapter only at its end? | violated |
| `library` | is a cache the book's own, does a position go only with its book, is the recent list free of doubles, does an upload stay its client's, is a restart obeyed only by the boot it was for? | holds |
| `library_put` | does a book survive a WebDAV PUT that fails? | violated |
| `sync` | does the Wi-Fi screen report the network it is on and end its attempts; does a sync keep the reader's position and the record it received? | holds |

### Findings

1. **activity_stale.** `ActivityManager.h` promises "Trigger a render and block until it
   completes". The render task takes `waitingTaskHandle` at the end of whatever pass is
   running, so a pass that began before the call, and may have drawn older state, ends the
   wait. The notification posted by the call then causes another, unawaited render.
2. **reading_turn.** After one failed background `startBuild()` a forward turn at the
   watermark of a partial section opens the next chapter and skips the pages in between.
3. **library_put.** A WebDAV PUT writes a temporary file "to avoid destroying the original on
   failed upload", then removes the original before it renames the temporary file; when the
   rename fails the temporary file is removed as well, and both books are gone.

### Seen while modelling

Behaviour of the code that no run is about, or that a property leaves out on purpose.

*Sleep, battery, boot.* `goToSleep()` (`ActivityManager.cpp:305`) runs the manager's loop
once to bring the sleep screen up; the old activity runs first and its own `finish()` or
`replaceActivity()` overrides the pending sleep screen, so the device can sleep behind
another one. The queued low-battery warning (`main.cpp:633`) can be overwritten in the same way.
The battery's sequence number is incremented before the sensor is read, so a sample can be
counted with the value before it; `LockoutNeedsZeroSample` is violated for
`ConfirmReadings` of 3 or less and holds for 4 and for the 6 of the code. The lockout
has no auto-sleep. A clock can be lowered under a held lock through the stale read of the lock
mode; the comment at `HalPowerManager.cpp:40` accepts it and `SlownessIsRepaired` bounds it.
The comment at `main.cpp:180` says that the Wi-Fi screens restart in `onExit()`; only the
sync and the USB screens still do.

*Section cache.* "any pre-existing file at filePath is left intact" (`Section.cpp:538`) does not
hold when the rename fails after the removal (the reader recovers, `EventuallyShown`). A
failed `beginParse()` in a background extension leaves an open section without pages. The
writes of the lookup tables are not checked against a full card.

*Pages read without the lock.* `Section.h:76` says that a page of the build is read "without
disturbing the build's write cursor", and before the QR code the reader takes the lock because
"an unlocked read could come back empty" (`EpubReaderActivity.cpp:827`), but the calls at 302 and 326
take none. The
module has them, and TLC finds what they can do: the main task notes the position and seeks, the
render task lays out a page there and takes the position for its table, or commits; the page lies
over an earlier one, or the main task sets the handle back behind it and the next page goes over
it; a file is stamped with pages that are not where its tables say, and later openings trust it
(with `bin.text = "whole"` in place of `bin.text # "torn"`, `CommittedIsWhole` fails in a
behaviour of 13 states); and either task can read the wrong bytes. This is the condition of `CommittedIsWhole` and
`PagesCanBeRead`: they hold for every page and file whose build no such read met, which is what
`raced` and the text "raced" of a file record. No run of its own is kept for it; it takes a
press that opens the word selection during the seconds in which the first pages are laid out.

*Card.* A `book.bin` cut short by a power loss starts with the right version and is taken for
whole (`CacheIsOfItsBook` lets it stand for its book, as the code does). WebDAV MOVE and
COPY remove a file at the destination but not its cache, so the new book opens with the old
one's cache and position; a failed download (`HttpDownloader.cpp:266`) deletes the book it was
to replace and leaves its cache. These are the cases `leftBehind` records. After the USB screen the
host may have done the same; what it writes is not modelled. When a finished book has moved
and `moveCache()` fails or power goes before it, its position stays under the old path, where
nothing opens it and nothing is reported; `PlaceStaysWithItsBook` allows it, because no position went
away. An HTTP upload that fails half-way leaves its part, one over the
WebSocket is removed; the abort removes whatever is under the name, also a file that another
client put there meanwhile. `docs/webserver.md:99` and `docs/webserver-endpoints.md:124`
say that an upload overwrites a file of its name; the code refuses it.

*Wi-Fi and sync.* Automatic connection cannot be interrupted, although
`showNetworkListFromAutoConnect()` (`WifiSelectionActivity.cpp:405`) and the comment in
`onEnter()` provide for it: nothing calls it. A full credential store refuses without a
word. With the request for the primary record failed and the alternate one answering
(`KOReaderSyncActivity.cpp:186`) smart sync uploads over a primary record it has not seen, which
may be further. `USER_GUIDE.md:489` promises that this does not happen; `SmartNeverRegresses` checks
less, the case of a primary record that was received and that no other device wrote since.

*What some properties do not say.* `ExclusiveKeepsControl` sees navigation and sleep; a screenshot
that `main.cpp` saves while the USB host owns the card would not violate it.
`UploadBelongsToItsOwner` does not see who sent the binary message that ends an upload; the code
compares (`CrossPointWebServer.cpp:1731`), and so does the model. After a fault the run
follows no WebSocket client; the theorem does. `OtherReleasesAreQuiet` leaves out the wake
hold of a boot that `setup()` left early: its release reaches `main.cpp:688` and refreshes. `AlwaysBoots`
leaves out a firmware that could not read that it is unconfirmed (`main.cpp:70`): an update it makes
tears the image it would fall back on.

### Bounds

* `activity_*`: two interchangeable screens, one sleep screen, one exclusive screen, two
  manager calls per loop. A stack of two with a pending third object, an overridden
  request and an override of a handler's request all fit. The liveness run uses one call
  per loop and no exclusive screen; symmetry is used in the safety run only.
* `power`: the main task and two others, so that a lock is ignored while another is held.
* `battery`: percentages 0 and 1 with the smoothing ADC; 4 confirmations instead of 6 keep
  the liveness check small. The proof covers all percentages, the gauge and 4 confirmations
  or more.
* `loop`: no constants, so TLC decides `DeviceLoop` completely (about 200 thousand states); its
  proof says why it holds.
* `update`: two builds, sequence numbers up to 4, so both parities and both entries are
  rewritten and an aborted entry lies above an active one. Further updates repeat the
  pattern with larger numbers.
* `reading`: at most 3 pages, two specs, windows of one page for the code's 15 and 5 (the
  comparisons, not the sizes, decide), two faults or power losses and one read without the lock in
  a behaviour (about 510 thousand states). A read that meets a build spans any number of the
  build's steps; the faults before and after it leave torn, partial and raced files to be opened
  again. `reading_turn` needs one fault and no such read.
* `library`: two paths, one of them in `/Read` (so a book can be moved onto, and uploaded over,
  the other), two interchangeable books, a recent list of two, two interchangeable clients,
  one fault or power loss inside a handler (and any number between handlers). After the fault no
  WebSocket client is followed (`NoClientAfterFaults`): the server's clients and a torn card
  are independent. One fault is enough for what a handler leaves when it is cut anywhere, and
  every later handler, each complete, then meets it. `library_put` has one client.
* `sync`: three networks, one of them open, a store of two (so that it can be full while a
  network is not saved), positions 0 to 2 (behind, level, ahead). About two million states.

Deadlock is checked in every run: the models have no state without a step (`Halted` stutters
where the device has gone to sleep and waits for a reset).

### Fairness

* `ActivityManager`: weak fairness of each task's steps, because FreeRTOS runs ready tasks of
  equal priority in turn; strong fairness of the render task's lock acquisition, because
  `main.cpp` ends every iteration in `delay()` outside every lock; strong fairness of an
  ordinary iteration of the main loop, because a user who holds the screenshot
  combination lets go of it; weak fairness of the end of a render. Nothing is assumed of
  activity code beyond the bound on its calls.
* `PowerManager`: the main loop calls `setPowerSaving()` again and again (the end of
  `loop()`), every call returns, and the clock cannot fail to change for ever. Locks may be
  held for ever.
* `LowBattery`: the main task keeps calling the lockout test, a sampling call that has begun
  returns, and time passes. The render task's polls are not fair: a screen without the
  battery icon never asks.
* `DeviceLoop`: iterations go on and clocks advance while the device is awake. The premise of
  `LeftAloneItSleeps` leaves out the lockout (which has no timeout), keep-awake and USB handoff.
* `EpubReading`: the render task finishes what it has begun, and a render is requested when no
  section is open (any key without a section requests one). Background work in `loop()` and page
  turns are not fair. Faults are bounded, so the recovery after the last one is what is
  checked.
* `SyncSession`: `loop()` of the Wi-Fi screen keeps running and the clocks of its scan and of
  its time limit advance, so one of its steps that stays possible is taken. The user, the
  driver, the server and other devices may do nothing.
* `CardSession` and `FirmwareUpdate` have safety properties only: nothing obliges power to
  stay on.

## 4. Proofs

All theorems hold for every value of the constants under the named assumptions of the
modules: `ActivitiesAssumption`, `MaxCallsAssumption`, `TasksAssumption`, `PercentsAssumption`,
`HasGaugeAssumption`, `ConfirmReadingsAssumption`, `BuildsAssumption`, `MaxSeqAssumption`,
`SizesAssumption`, `NoneAssumption`, `BookCardAssumption`, `ReadFolderAssumption`,
`ClientsAssumption`, `WifiAssumption`, `PositionAssumption`. They say that the constants are
sets and numbers of the right kind and that values which stand for "none" are none of the others.

**ActivityManagerProofs.** `Spec => []P` for `TypeOK`, `PendingIsExecutable`, `WaitSlotFree`,
`HandlerGetsItsResult`, the action property `RenderedActivityStays`, the refinement of
`NavigationStack` and `ExclusiveKeepsControl`. None of the invariants is inductive. `IInv` adds: `MutexInv` (who holds the
mutex is a function of both program counters; what is being rendered exists), `WaitInv` (a
waiter's wake-up token is in one place: the slot, the render task's hand, or the
notification), `PendingInv` (a request in flight has its object), `OwnershipInv` (no
activity is owned twice: needed because a popped result is attributed to an object),
`HandlerInv` (a stored handler waits for the activity directly above its owner, or about to be
there) and `DeliveryInv`. Steps are grouped into requests of activity code, transitions of
the manager and the rest, which leaves all activities alone; each part of `IInv` has one lemma
over these groups. The refinement maps each transition to one step of the stack.
`ExclusiveKeepsControl` says nothing of what is pending, so its invariant is where the main task
can be at all while an exclusive screen is current (`ShortWay`: the early return of `loop()` and
what activity code called from there may wait for); no transition is on that way.

**DeviceLoopProofs.** `TypeOK`, `OnlyFreshHoldsSleep`, `OtherReleasesAreQuiet` and
`OneShotPerHold`, from any boot, also one that `setup()` left early. Whether a hold may sleep or
refresh is decided by flags set in other iterations, so `HoldInv` says what each flag knows of the
hold under way: one that a "released since" flag has seen begin is fresh (`FreshInv`), the one
that woke the device still has its release to be consumed if `setup()` noted it (`WakeInv`), and
one that took a screenshot keeps the combination, and has given up the right to the next one,
until it ends (`ComboInv`).

**PowerManagerProofs.** `FlagMatchesClock` and `OneLockOwnsTheMode` for any number of tasks. The
key parts are `OnlyHoldersCall` (a task other than the main one calls `setPowerSaving()`
only inside its own lock, so at most two calls overlap) and `NoCrossing` with `ClockTrack`
(what flag and clock are while one or two calls are between their writes).

**FirmwareUpdateProofs.** `AlwaysBoots` and `OwnDataOnly` for any set of builds and any number of
updates. `AlwaysBoots` is not inductive: whether an unconfirmed firmware can be given back
depends on the entry below it. `IInv` therefore says of both choices, the entries as they
are and with the unconfirmed one given up (`GivenUp`), that what they select is complete
(`ImageInv`), as long as no boot `missed` that its firmware is unconfirmed. `EntriesInv` (sequence numbers never tie, only the newest entry is
unconfirmed) makes the bootloader's `CHOOSE` unique; `ConfirmInv` and `RunningInv` say where
an unconfirmed entry can be met and that until the switch the running firmware is the selected
one, so an update never tears it. `SettingsInv` and `CachesInv` follow whose data lies on
the card through update, rollback and first boot. Each step that rewrites the entries has
one lemma that says what it selects (`BootSelects`, `EraseSelects`, `WriteSelects`, ...).

**LowBatteryProofs.** `TypeOK` and `LockoutNeedsZeroSample`, with the gauge (which the run does
not have) and with the ADC, for any percentages and four or more confirmations; the code has
six. The property says nothing of the intermediate states, so the proof counts: `Chances` is the
number of zeros the lockout can still count although no percentage was stored since USB, as
a function of both program counters, the validity and a waiting sample. `CountInv` says that
what was counted and what can still be counted make at most three; each step of a task uses up a
chance or leaves the bound (`RenderMoves`, `MainMoves`, `MainCounts`). With three confirmations
TLC finds the behaviour that uses all three.

**EpubReadingProofs.** `TypeOK`, `CommittedIsWhole`, `HtmlIsWhole`, `PagesCanBeRead` and the action
property `NeverFewerPages` for a chapter of any length, any specs, windows, number of
faults and number of reads without the lock. A readable page is in one of three places, so `PagesInv` bounds `pageCount` by the build,
the finished file or the partial one that is still there. It needs `BuildInv` (what a build has
laid out is of the reader's spec and short of the end; what is stamped as finished is all of
it), that needs `TempInv` (the unzipped file behind a build is whole until it takes its name),
and background work needs `AtHandInv` (the page shown is one of the section's, so a failed
extension is noticed only at the watermark). That pages are where the tables say is
`FileInv`: `ReadsInv` says where each task can be in a read while the other builds, commits or
closes, and `SoundInv` that as long as the handle never moved under a read every page laid out
lies intact before the end of what is written (`End`, which a read under way keeps in its
noted position), where the next one will go. `ReadKeepsFile` is the step of any read, by either
task; once `raced` is set nothing is claimed until the handle is closed. `KeptInv` adds what a section without pages or about
to be finished looks like.

**CardSessionProofs.** `CacheIsOfItsBook` and `PlaceStaysWithItsBook` for any number of books, names
and faults and any `/Read` folder. Neither says anything while a handler is under way, so the
invariant speaks of the calls still to be made. `Shape` lists, call by call, what stands next to
it: a removal or a write has a clear beside it or comes first, a cache moves right after its
book, a position is put back only after calls on places. `Exposed` is the path the next call
puts in order; every other path is in order (`Fits`) or known to have been left behind.
`HeadOK` says what the next call may rely on: that there is no cache where a file comes
without a clear (`Bare`), that the cache to be moved is of the book that went ahead (`Carried`).
`NextHead` and `RestHasShape` carry both from one call to the next; each call has a lemma,
failing or not, a power loss one (`CutShortKeeps`), and each handler one that its list begins
in shape. An upload over the WebSocket is a file in parts between handlers: `ScreenOK`
keeps its name bare.

`RecentsAreDistinct` is not inductive: `updatePath()` gives an entry a new path without looking
for one that has it. `RecentInv` adds what makes that safe. While a reader is shown its book is
there, and so is every listed book once it has put itself into the list, because `addBook()`
prunes the list and no handler that removes a file runs beside a reader (`ReaderOK`); the only
list of calls with an `updatePath()` in it begins when such a reader is left, and its rename,
which comes first, fails unless the new name is free (`AfterRename`, `RenameMakesRoom`). From
then on the name is not in the list (`EntryMoves`), through failing calls and calls on places
in between. The lemmas about the list's operators are `PresentIsOK` (what `pruneMissing()` keeps
is there, in the list and still without doubles), `RemoveFirstIsOK`, `TrimIsOK`, `AddedIsOK`
and `UpdatedIsOK`. `Present` is a recursive function; that it is defined, and what it keeps, is
proved through the least index at which it would not be so (`NoLeastOne`), which takes the place
of an induction. `CardTypeOK` follows from both invariants and the bounds of the rest.

`RestartIsWanted` is inductive as it stands; the proof shows that each
handler that asks for a restart looks at `deepSleepInProgress` first. `UploadBelongsToItsOwner`
rests on `UploadHasItsOwner` (the owner is connected to a running server) and on the lemma
that no request of HTTP or WebDAV touches the WebSocket's variables, for any number of
clients.

**SyncSessionProofs.** The Wi-Fi screen by itself (`WifiInv`), then the sync (`SyncInv`), then
both. `ReportsItsNetwork` needs `AttemptIsSelected` (an attempt under way is for the selected
network with the password at hand) and `KeyboardAbove` (the keyboard is open only
above the two screens that ask for a name or a password); `ListMatchesStore` needs `ListIsCurrent` with `ClosedIsEmpty`, because the web page
changes the store while the screen is closed. `NoPositionIsLost` rests on `SavedIsKept` (what is
in `progress.bin` is the reader's position or the one accepted). `SmartNeverRegresses` needs
`AnswerStands` (the received record is the server's while nobody else wrote), `KeptIsFurther`,
`UploadIsAhead` and `AskedIsNotSmart` (a screen that asks is not the smart path).
`NoWifiScreen` joins the two: past the connection no Wi-Fi screen is open.

Every safety and action property of the passing runs is a theorem. Only model-checked:

* all liveness (`UpdateServed`, `RestoredIsRendered`, `WaiterWakes`, `SlownessIsRepaired`,
  `EmptyBatteryLocks`, `LeftAloneItSleeps`, `EventuallyShown`, `AutoConnectEnds`): reasoning
  about fairness needs ENABLED, which this version of TLAPS does not support.

## 5. What is not modelled

*Functions of their input.* Parsing, line breaking, hyphenation, bidi, image decoding, the
dictionary and drawing are sequential functions of book data and output; a property of them is a
property of data, and they have tests under `test/`. The vendored libraries are third-party
code, and the built-in fonts are generated tables; these two are most of the lines of the
repository that no definition names.

*Left out of modelled parts.*

* `EpubReading`: menus, bookmarks, footnotes, anchors; a full card (the writes of the lookup
  tables and of the header are unchecked); the two looks at `RenderLock::peek()` in the reader's
  `loop()`; of the reads without the lock, what C++ leaves undefined: a section or a build that
  the render task frees under the read, a `lut` that grows under it. The model ends such a read
  when the handle is closed.
* `BookCard`, `Library`, `Transfers`: books other than EPUB, which keep the same `progress.bin`
  and recent list; what `progress.bin` and `book.bin` contain, and the temporary files `book.bin` is
  put together from; what a USB host writes; folders, settings and fonts over the web; the
  OPDS catalogue.
* `WifiSelection`, `PositionSync`: signal strength, the file of the credential store, the
  mapping between a page and an XPath, the server's authentication.
* `FirmwareUpdate`: byte by byte validation of an image; of a boot, the panic capture and the
  splash screen.
* `DeviceLoop`: the serial commands.

*Parts without a module.* Input mapping, bookmarks and highlights, the text reader, SD card fonts
and the framebuffer loan: see the plan. `PROJECT.json` names every component with its status, and
the hazards no property covers, each with the reason.

## 6. Plan

Modelled so far: the two tasks and the activity manager, the main loop, power and battery,
firmware update, the section cache with its reader, the books on the card with the reader's
life (`Library`) and the server's (`Transfers`), the Wi-Fi screen and position sync. Next, in this
order:

1. `Fonts`: registry dirty flag, font loading against rendering, `BuildScratch` loan
   (a reclaim while a decoder still holds the block).
2. `ButtonInput`: long presses, suppressed releases, `uiReady`; refines the choice
   `ActivityManager` leaves to its environment. A swallowed release that falls into an
   iteration that skips `activityManager.loop()` stays noted; key positions published by the
   last render are used after the layout has changed.
3. `BookCache`: `book.bin` and its temporary files; composes with `EpubReading`'s open.
4. `Boot`: RTC flags over every kind of reset, panic, routing to the first screen; composes with
   `DeviceLoop` and with the USB host as a second writer of `BookCard`.
5. `Bookmarks`: per-book JSON documents and their way through a book's move.
6. `TextIndex`, `Layout`: page index of text books and the line breaker as functions against a
   reference definition on bounded inputs.
