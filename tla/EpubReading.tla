---------------------------- MODULE EpubReading ----------------------------
(***************************************************************************)
(* One chapter of an EPUB as EpubReaderActivity reads it through Section:  *)
(* the layout cache <spine>.bin on the SD card, the build that writes it   *)
(* beside the old one in <spine>.bin.part, the unzipped <spine>.html, and  *)
(* the reader that opens the section, lays out what it must show, extends  *)
(* the rest in the background and turns pages.                             *)
(*                                                                         *)
(* What builds, commits and shows holds the RenderLock, so those           *)
(* operations do not overlap; a power loss may cut any of them between two *)
(* changes of the card, and any call may fail.  The main task also reads a *)
(* page for the word selection screens, without the lock and through the   *)
(* handle the build writes with, at any step of the render task's work.    *)
(*                                                                         *)
(* A page is its number and takes one slot of the file.  Build chunks are  *)
(* one page long.  HalFile locks each call, so the two tasks are cut at    *)
(* the calls that move the handle.                                         *)
(***************************************************************************)
EXTENDS Naturals, Sequences

CONSTANTS
    Specs,       \* ReaderRenderSpecs: font, margins, viewport
    None,        \* no file
    MaxPages,    \* bound: pages of the chapter
    Margin,      \* PARTIAL_REBUILD_START_MARGIN
    Ahead,       \* BUILD_WINDOW_AHEAD
    MaxFaults,   \* bound: failed calls and power losses
    MaxPeeks     \* bound: pages read without the lock

ASSUME SizesAssumption ==
    /\ MaxPages \in Nat /\ Margin \in Nat /\ Ahead \in Nat
    /\ MaxFaults \in Nat /\ MaxPeeks \in Nat

VARIABLES
    bin, part,   \* the committed section file and the one being built
    html, temp,  \* the unzipped chapter and the one being unzipped
    open,        \* the reader has a Section
    build,       \* build_ is set
    lut,         \* per page laid out: its slot, 0 if it was not written
    built,       \* builtPageCount_
    pageCount,
    partial, partialPages,
    cached,      \* BuildContext::reusedHtml: html is the live cache
    failedStart, \* partialRebuildStartFailed
    page,        \* the page to show: currentPage, before that nextPageNumber
    placed,      \* currentPage is set
    spec,        \* what SETTINGS ask for
    pc,          \* the step of the operation under way
    who,         \* which task it runs for: "render" or "loop"
    goal,        \* the version to commit: "final" or "partial"
    length,      \* pages of the chapter under each spec
    left,        \* how a page turn last left the chapter
    faults,      \* faults left
    cursor,      \* position of the build's handle, file
    offset,      \* where the page being serialized began
    intact,      \* history: pages whose bytes are still in their slot
    reads,       \* per task: its read of a page in the build
    raced,       \* history: the handle moved during the other task's read
    peeks        \* reads without the lock left

card == <<bin, part, html, temp>>
section == <<open, build, lut, built, pageCount, partial, partialPages, cached>>
reader == <<failedStart, page, placed, spec, left>>
control == <<pc, who, goal>>
file == <<cursor, offset, intact, reads, raced, peeks>>
vars == <<card, section, reader, control, length, faults, file>>

Targets == 0..MaxPages
\* text: every page is where the tables say, or what went wrong
FileType == [version : {"incomplete", "partial", "final"}, spec : Specs,
             pages : 0..MaxPages, text : {"whole", "torn", "raced"}]
Unfinished(s) ==
    [version |-> "incomplete", spec |-> s, pages |-> 0, text |-> "torn"]

ASSUME NoneAssumption == None \notin FileType \cup {"torn", "whole"}

Goes(from, to) == pc = from /\ pc' = to
NoFault == UNCHANGED <<length, faults>>
Fault == faults > 0 /\ faults' = faults - 1 /\ UNCHANGED length

Larger(a, b) == IF a > b THEN a ELSE b

Tasks == {"render", "loop"}
Other(t) == IF t = "render" THEN "loop" ELSE "render"
Idle == [at |-> "idle", page |-> 0, back |-> 0]

\* Task t moves the handle, perhaps under a read of the other.
Uses(t) == raced' = (raced \/ reads[Other(t)].at # "idle")

\* The handle is closed.  A read of the other task that is under way ends: it
\* finds the file closed.
Closes ==
    /\ cursor' = 0 /\ offset' = 0 /\ intact' = {}
    /\ reads' = [t \in Tasks |-> Idle] /\ raced' = FALSE /\ UNCHANGED peeks

\* section.reset() with no build left to keep
NoSection ==
    /\ open' = FALSE /\ build' = FALSE /\ lut' = <<>> /\ built' = 0
    /\ pageCount' = 0 /\ partial' = FALSE /\ partialPages' = 0
    /\ cached' = FALSE /\ failedStart' = FALSE /\ placed' = FALSE
    /\ Closes

-----------------------------------------------------------------------------
(* Opening the section: loadSectionFile(). *)

Usable ==
    /\ bin # None /\ bin.spec = spec
    /\ \/ bin.version = "final"
       \/ bin.version = "partial" /\ bin.pages > 0

Opened(count, isPartial) ==
    /\ open' = TRUE /\ build' = FALSE /\ lut' = <<>> /\ built' = 0
    /\ pageCount' = count
    /\ partial' = isPartial /\ partialPages' = IF isPartial THEN count ELSE 0
    /\ cached' = FALSE /\ failedStart' = FALSE /\ placed' = FALSE
    /\ who' = "render" /\ goal' = "final" /\ left' = "no"
    /\ UNCHANGED <<page, spec, file>>

\* A finished file is read as it is, and so is a partial one whose end is far.
OpenCached ==
    /\ pc = "closed" /\ Usable
    /\ Opened(bin.pages, bin.version = "partial")
    /\ pc' = IF bin.version = "partial" /\ page + Margin >= bin.pages
             THEN "start" ELSE "filling"
    /\ NoFault /\ UNCHANGED card

\* clearCache() of a file of another spec or version; the removal may fail.
OpenRejected ==
    /\ Goes("closed", "start") /\ bin # None /\ ~Usable
    /\ Opened(0, FALSE)
    /\ part' = None
    /\ \/ bin' = None /\ NoFault
       \/ bin' = bin /\ Fault
    /\ UNCHANGED <<html, temp>>

\* There is no file, or it cannot be opened.
OpenMissing ==
    /\ Goes("closed", "start")
    /\ Opened(0, FALSE)
    /\ \/ bin = None /\ NoFault
       \/ bin # None /\ Fault
    /\ UNCHANGED card

-----------------------------------------------------------------------------
(* startBuild(). *)

\* The pages of a loaded partial stay readable while the build runs.
NoPages == 0 \* mutant: the pages at hand are forgotten
StartCount == IF partial THEN partialPages ELSE 0

StreamInPlace == html' = "torn" /\ UNCHANGED temp \* mutant: no temporary file
StreamToTemp == temp' = "torn" /\ UNCHANGED html

StartBuild ==
    /\ pc = "start"
    /\ lut' = <<>> /\ built' = 0 /\ pageCount' = StartCount
    /\ part' = None
    /\ IF html # None
       THEN pc' = "create" /\ cached' = TRUE /\ UNCHANGED <<html, temp>>
       ELSE pc' = "stream" /\ cached' = FALSE /\ StreamToTemp
    /\ NoFault
    /\ UNCHANGED <<bin, open, build, partial, partialPages, reader, who, goal, file>>

\* render() drops the section and shows an error; loop() keeps it and does not
\* try again.
StartFails ==
    IF who = "render"
    THEN pc' = "closed" /\ NoSection /\ UNCHANGED <<page, spec, left, who, goal>>
    ELSE /\ pc' = "shown" /\ failedStart' = TRUE
         /\ UNCHANGED <<section, page, placed, spec, left, who, goal, file>>

Streamed ==
    /\ Goes("stream", "promote")
    /\ IF temp = "torn" THEN temp' = "whole" /\ UNCHANGED html
                        ELSE html' = "whole" /\ UNCHANGED temp
    /\ NoFault /\ UNCHANGED <<bin, part, section, reader, who, goal, file>>
\* The third attempt fails too.
StreamFails ==
    /\ pc = "stream" /\ Fault
    /\ temp' = None /\ UNCHANGED <<bin, part, html>>
    /\ StartFails

Promote ==
    /\ Goes("promote", "create")
    /\ \/ html' = temp /\ temp' = None /\ cached' = TRUE /\ NoFault
       \/ Fault /\ UNCHANGED <<html, temp, cached>>
    /\ UNCHANGED <<bin, part, open, build, lut, built, pageCount, partial,
                   partialPages, reader, who, goal, file>>

\* Back in the task that builds.
Resumed == IF who = "render" THEN "filling" ELSE "shown"

Create ==
    /\ pc = "create"
    /\ pc' = Resumed
    /\ part' = Unfinished(spec) /\ build' = TRUE /\ cursor' = 1
    /\ NoFault
    /\ UNCHANGED <<bin, html, temp, open, lut, built, pageCount, partial,
                   partialPages, cached, reader, who, goal,
                   offset, intact, reads, raced, peeks>>

\* The file cannot be created, or there is no memory for parser or styles.
CreateFails ==
    /\ pc = "create" /\ Fault
    /\ part' = None /\ temp' = None /\ UNCHANGED <<bin, html>>
    /\ StartFails

\* abandonBuild(): the partial goes too, it would only run into the same error.
Abandon == bin' = None /\ part' = None /\ temp' = None /\ UNCHANGED html

BeginParseFails ==
    /\ pc = "create" /\ Fault /\ Abandon
    /\ IF who = "render"
       THEN pc' = "closed" /\ NoSection
       ELSE /\ pc' = "shown" /\ failedStart' = TRUE
            /\ lut' = <<>> /\ built' = 0 /\ pageCount' = 0
            /\ partial' = FALSE /\ partialPages' = 0 /\ cached' = FALSE
            /\ UNCHANGED <<open, build, placed, file>>
    /\ UNCHANGED <<page, spec, left, who, goal>>

-----------------------------------------------------------------------------
(* loadPageDuringBuild(): a task notes the position of the handle, moves it *)
(* to the page, reads, and moves it back.                                   *)

BeginRead(t, p) ==
    /\ reads[t].at = "idle" /\ p \in DOMAIN lut /\ lut[p] # 0
    /\ reads' = [reads EXCEPT ![t] = [at |-> "seek", page |-> p, back |-> cursor]]
    /\ Uses(t) /\ UNCHANGED <<cursor, offset, intact>>

SeekPage(t) ==
    /\ reads[t].at = "seek"
    /\ cursor' = lut[reads[t].page]
    /\ reads' = [reads EXCEPT ![t].at = "read"]
    /\ Uses(t) /\ NoFault
    /\ UNCHANGED <<card, section, reader, control, offset, intact, peeks>>

ReadPage(t) ==
    /\ reads[t].at = "read"
    /\ reads' = [reads EXCEPT ![t].at =
                    IF cursor = lut[reads[t].page] /\ reads[t].page \in intact
                    THEN "good" ELSE "bad"]
    /\ cursor' = cursor + 1
    /\ Uses(t) /\ NoFault
    /\ UNCHANGED <<card, section, reader, control, offset, intact, peeks>>

NoSeek(t) == cursor \* mutant: the handle stays behind the page
Before(t) == reads[t].back
SeekBack(t) ==
    /\ reads[t].at \in {"good", "bad"}
    /\ cursor' = Before(t) /\ reads' = [reads EXCEPT ![t] = Idle]
    /\ Uses(t) /\ UNCHANGED <<offset, intact, peeks>>

Peeking == reads["loop"].at # "idle"

-----------------------------------------------------------------------------
(* buildSomeMore(): render() waits for the page it is to show, loop() keeps *)
(* a window ahead and finishes a partial.                                   *)

Waited == pc = "filling" /\ page >= pageCount
InBackground == pc = "shown" /\ (partial \/ pageCount < page + Ahead) /\ ~Peeking
Building == build /\ (Waited \/ InBackground)
Builder == IF pc = "filling" THEN "render" ELSE "loop"

OneMore == Len(lut) <= length[spec] \* mutant: a page after the last
HasMore == Len(lut) < length[spec]

\* onPageComplete() takes the position for the table first ...
PlacePage ==
    /\ Building /\ HasMore
    /\ pc' = "write" /\ who' = Builder /\ offset' = cursor
    /\ raced' = (raced \/ Peeking)
    /\ NoFault
    /\ UNCHANGED <<card, section, reader, goal, cursor, intact, reads, peeks>>

\* ... and then writes where the handle is.  A page that fails has no offset,
\* but some of it may be there.
WritePage ==
    /\ pc = "write"
    /\ \E written \in BOOLEAN :
          /\ lut' = Append(lut, IF written THEN offset ELSE 0)
          /\ built' = IF written THEN built + 1 ELSE built
          /\ intact' = {p \in intact : lut[p] # cursor} \cup
                       IF written /\ offset = cursor THEN {Len(lut) + 1} ELSE {}
          /\ IF written THEN NoFault ELSE Fault
    /\ pageCount' = Larger(pageCount, built')
    /\ cursor' = cursor + 1 /\ offset' = 0 /\ Uses(who)
    /\ pc' = IF Len(lut') < length[spec] THEN Resumed ELSE "finish"
    /\ UNCHANGED <<card, open, build, partial, partialPages, cached, reader,
                   who, goal, reads, peeks>>

\* The page that was not full came from finishParse(), or there was none.  If
\* the new chapter cannot take its name it is removed.
FinishParse ==
    /\ pc = "finish" \/ (Building /\ ~HasMore)
    /\ IF cached
       THEN UNCHANGED <<html, temp>> /\ NoFault
       ELSE /\ temp' = None
            /\ \/ html' = temp /\ NoFault
               \/ html' = html /\ Fault
    /\ who' = IF pc = "finish" THEN who ELSE Builder
    /\ goal' = "final" /\ pc' = "commit"
    /\ UNCHANGED <<bin, part, section, reader, file>>

ParseFails ==
    /\ Building /\ Fault /\ Abandon
    /\ pc' = "closed" /\ NoSection
    /\ UNCHANGED <<page, spec, left, who, goal>>

-----------------------------------------------------------------------------
(* commitBuildFile(). *)

CommitFails ==
    /\ pc' = "closed" /\ NoSection
    /\ part' = None
    /\ temp' = IF cached THEN temp ELSE None
    /\ UNCHANGED <<html, page, spec, left, who, goal>>

SomeWritten == \E i \in DOMAIN lut : lut[i] # 0 \* mutant: no empty chapter
AllWritten == \A i \in DOMAIN lut : lut[i] # 0

CommitRefused ==
    /\ pc = "commit" /\ ~AllWritten /\ CommitFails
    /\ NoFault /\ UNCHANGED bin

\* Tables and header are written, then the version; until then the file is
\* incomplete.  The tables go where the handle is, and a read under way may
\* move it between them.
Whole == \A p \in DOMAIN lut : p \in intact /\ lut[p] < cursor
Stamp ==
    /\ Goes("commit", "swap") /\ AllWritten
    /\ \E sound \in {Whole, Whole /\ ~Peeking} :
          part' = [part EXCEPT !.version = goal, !.pages = built,
                               !.text = IF sound THEN "whole"
                                        ELSE IF raced \/ Peeking THEN "raced"
                                        ELSE "torn"]
    /\ Closes
    /\ NoFault
    /\ UNCHANGED <<bin, html, temp, section, reader, who, goal>>

RemoveOld == \/ bin' = None /\ NoFault
             \/ bin' = bin /\ bin # None /\ Fault

Swap ==
    /\ Goes("swap", "rename") /\ RemoveOld
    /\ UNCHANGED <<part, html, temp, section, reader, who, goal, file>>

Finalized ==
    /\ pc' = Resumed
    /\ build' = FALSE /\ lut' = <<>> /\ built' = 0
    /\ pageCount' = built /\ partial' = FALSE /\ partialPages' = 0
    /\ cached' = FALSE
    /\ UNCHANGED <<open, temp, reader, file>>
Suspended ==
    /\ pc' = "closed" /\ NoSection
    /\ temp' = IF cached THEN temp ELSE None
    /\ UNCHANGED <<page, spec, left>>

Rename ==
    /\ pc = "rename" /\ bin = None
    /\ bin' = part /\ part' = None
    /\ IF goal = "final" THEN Finalized ELSE Suspended
    /\ NoFault /\ UNCHANGED <<html, who, goal>>

\* SdFat's rename replaces nothing.
RenameFails ==
    /\ pc = "rename" /\ CommitFails /\ UNCHANGED bin
    /\ IF bin = None THEN Fault ELSE NoFault

-----------------------------------------------------------------------------
(* Showing the page: EpubReaderActivity::render(). *)

\* The partial ends before the page.
Extend ==
    /\ Goes("filling", "start") /\ who' = "render"
    /\ partial /\ ~build /\ page >= pageCount
    /\ NoFault /\ UNCHANGED <<card, section, reader, goal, file>>

Filled == ~((build \/ partial) /\ page >= pageCount)
Shown == IF ~build /\ pageCount > 0 /\ page >= pageCount THEN pageCount - 1
                                                         ELSE page

\* loadPage(): from the build, else from the file on the card.
AllOnDisk == IF build THEN 0 ELSE pageCount \* mutant: the partial is forgotten
OnDisk == IF partial THEN partialPages ELSE IF build THEN 0 ELSE pageCount
InBuild(p) == build /\ p < Len(lut)
Stored(p) == p < OnDisk /\ bin # None /\ p < bin.pages

\* What became of the read of the page to show.
Returned ==
    IF InBuild(Shown) THEN IF lut[Shown + 1] = 0 THEN "none" ELSE reads["render"].at
    ELSE IF ~Stored(Shown) THEN "none"
    ELSE IF bin.text = "whole" THEN "good" ELSE "bad"

RenderReads ==
    /\ pc = "filling" /\ Filled /\ InBuild(Shown)
    /\ BeginRead("render", Shown + 1)
    /\ placed' = TRUE
    /\ NoFault
    /\ UNCHANGED <<card, section, failedStart, page, spec, left, control, peeks>>

\* A page read from the wrong bytes is drawn all the same, or fails.
Show ==
    /\ Goes("filling", "shown") /\ Filled
    /\ pageCount > 0 => Returned \in {"good", "bad"}
    /\ page' = Shown /\ placed' = TRUE
    /\ IF reads["render"].at = "idle" THEN UNCHANGED file ELSE SeekBack("render")
    /\ NoFault
    /\ UNCHANGED <<card, section, failedStart, spec, left, who, goal>>

\* A page that does not load costs the whole cache of the section.
Unreadable ==
    /\ pc = "filling" /\ Filled /\ pageCount > 0
    /\ Returned \in {"none", "good", "bad"}
    /\ bin' \in {bin, None} /\ part' = None
    /\ temp' = IF build /\ ~cached THEN None ELSE temp
    /\ IF Returned = "good" \/ bin' # None THEN Fault ELSE NoFault
    /\ pc' = "closed" /\ NoSection /\ page' = Shown
    /\ UNCHANGED <<html, spec, left, who, goal>>

-----------------------------------------------------------------------------
(* The main loop and the user.  Without the lock the loop only reads a page *)
(* for the word selection; all else waits for the end of a render, and of   *)
(* that read.                                                               *)

\* section->currentPage is 0 until the first render has set it.
CurrentPage == IF placed THEN page ELSE 0

\* openHighlightWordSelect(), openDictionaryWordSelect(): a page of the build,
\* while the render task builds, commits or reads.
Peek ==
    /\ \/ pc = "filling"
       \/ pc \in {"write", "finish", "commit"} /\ who = "render"
    /\ build /\ peeks > 0 /\ peeks' = peeks - 1
    /\ BeginRead("loop", CurrentPage + 1)
    /\ NoFault /\ UNCHANGED <<card, section, reader, control>>

PeekDone ==
    /\ SeekBack("loop")
    /\ NoFault /\ UNCHANGED <<card, section, reader, control>>

NearTheEnd == ~build /\ partial /\ ~failedStart /\ page + Margin >= pageCount

ExtendAhead ==
    /\ Goes("shown", "start") /\ who' = "loop" /\ NearTheEnd /\ ~Peeking
    /\ NoFault /\ UNCHANGED <<card, section, reader, goal, file>>

WorthKeeping == built > 0 /\ (~partial \/ built > partialPages)

\* section.reset(): ~Section() suspends a running build.
Reset ==
    IF build /\ WorthKeeping
    THEN pc' = "commit" /\ goal' = "partial"
         /\ UNCHANGED <<card, section, failedStart, placed, file>>
    ELSE /\ pc' = "closed" /\ NoSection
         /\ part' = IF build THEN None ELSE part
         /\ temp' = IF build /\ ~cached THEN None ELSE temp
         /\ UNCHANGED <<bin, html, goal>>

\* Sleep, exit, settings, orientation, a jump to another chapter and back.
Leave ==
    /\ pc = "shown" /\ ~Peeking /\ Reset /\ who' = "loop"
    /\ page' \in Targets /\ spec' \in Specs
    /\ left' = "no" /\ NoFault

\* A jump within the chapter: chapter list, bookmark, sync.
Jump ==
    /\ Goes("shown", "filling") /\ ~Peeking
    /\ page' \in Targets
    /\ left' = "no" /\ NoFault
    /\ UNCHANGED <<card, section, failedStart, placed, spec, who, goal, file>>

\* loop() extends the partial before it looks at the buttons.
TurnForward ==
    /\ Goes("shown", "filling") /\ ~NearTheEnd /\ ~Peeking
    /\ page + 1 < pageCount \/ build
    /\ page' = page + 1
    /\ left' = "no" /\ NoFault
    /\ UNCHANGED <<card, section, failedStart, placed, spec, who, goal, file>>

\* The next chapter; this one is opened again at some page.
TurnLeaves ==
    /\ pc = "shown" /\ ~NearTheEnd /\ ~Peeking
    /\ ~(page + 1 < pageCount \/ build) /\ Reset /\ who' = "loop"
    /\ left' = IF page + 1 >= length[spec] THEN "end" ELSE "early"
    /\ page' \in Targets
    /\ NoFault /\ UNCHANGED spec

TurnBack ==
    /\ Goes("shown", "filling") /\ ~NearTheEnd /\ ~Peeking
    /\ page > 0 /\ page' = page - 1
    /\ left' = "no" /\ NoFault
    /\ UNCHANGED <<card, section, failedStart, placed, spec, who, goal, file>>

\* epub->clearCache() and clearAllBookCaches(): any of the removals may fail.
ClearBookCache ==
    /\ pc = "closed" /\ Fault
    /\ bin' \in {bin, None} /\ part' \in {part, None}
    /\ html' \in {html, None} /\ temp' \in {temp, None}
    /\ UNCHANGED <<section, reader, control, file>>

PowerLoss ==
    /\ Fault
    /\ pc' = "closed" /\ NoSection /\ page' \in Targets /\ left' = "no"
    /\ UNCHANGED <<card, spec, who, goal>>

-----------------------------------------------------------------------------

Init ==
    /\ bin = None /\ part = None /\ html = None /\ temp = None
    /\ open = FALSE /\ build = FALSE /\ lut = <<>> /\ built = 0
    /\ pageCount = 0 /\ partial = FALSE /\ partialPages = 0 /\ cached = FALSE
    /\ cursor = 0 /\ offset = 0 /\ intact = {} /\ reads = [t \in Tasks |-> Idle]
    /\ raced = FALSE /\ peeks = MaxPeeks
    /\ failedStart = FALSE /\ placed = FALSE
    /\ page \in Targets /\ spec \in Specs /\ left = "no"
    /\ pc = "closed" /\ who = "render" /\ goal = "final"
    /\ length \in [Specs -> 0..MaxPages]
    /\ faults = MaxFaults

Opens == OpenCached \/ OpenRejected \/ OpenMissing
Starts == StartBuild \/ Streamed \/ Promote \/ Create
          \/ StreamFails \/ CreateFails \/ BeginParseFails
Builds == PlacePage \/ WritePage \/ FinishParse \/ ParseFails
Commits == CommitRefused \/ Stamp \/ Swap \/ Rename \/ RenameFails
Reads(t) == SeekPage(t) \/ ReadPage(t)
Renders == Extend \/ RenderReads \/ Reads("render") \/ Show \/ Unreadable
Peeks == Peek \/ Reads("loop") \/ PeekDone
Loops == ExtendAhead \/ Leave \/ Jump \/ TurnForward \/ TurnLeaves \/ TurnBack

Next == Opens \/ Starts \/ Builds \/ Commits \/ Renders \/ Peeks
        \/ Loops \/ ClearBookCache \/ PowerLoss

\* The render task runs until the page is shown, and the user does not leave an
\* error on the screen: without a section every key asks for another render.
\* From then on nothing has to happen.
Rendering == pc # "shown" /\ (Opens \/ Starts \/ Builds \/ Commits \/ Renders)

FairSpec == Init /\ [][Next]_vars /\ WF_vars(Rendering)

-----------------------------------------------------------------------------
(* Properties. *)

TypeOK ==
    /\ bin \in FileType \cup {None} /\ part \in FileType \cup {None}
    /\ html \in {None, "torn", "whole"} /\ temp \in {None, "torn", "whole"}
    /\ open \in BOOLEAN /\ build \in BOOLEAN /\ partial \in BOOLEAN
    /\ cached \in BOOLEAN /\ failedStart \in BOOLEAN
    /\ lut \in Seq(Nat) /\ built <= Len(lut) /\ placed \in BOOLEAN
    /\ build => part # None /\ Len(lut) <= length[part.spec]
    /\ pageCount \in 0..MaxPages /\ partialPages \in 0..MaxPages
    /\ page \in 0..MaxPages /\ spec \in Specs
    /\ left \in {"no", "end", "early"}
    /\ pc \in {"closed", "start", "stream", "promote", "create", "filling",
               "write", "finish", "shown", "commit", "swap", "rename"}
    /\ who \in {"render", "loop"} /\ goal \in {"final", "partial"}
    /\ length \in [Specs -> 0..MaxPages] /\ faults \in 0..MaxFaults
    /\ cursor \in Nat /\ offset \in Nat /\ intact \subseteq DOMAIN lut
    /\ reads \in [Tasks -> [at : {"idle", "seek", "read", "good", "bad"},
                             page : 0..Len(lut), back : Nat]]
    /\ raced \in BOOLEAN /\ peeks \in 0..MaxPeeks

\* Section.cpp:51, "an incomplete file is never mistaken for a valid one": the
\* file a later opening trusts holds the whole layout of its spec if it is
\* finished, and some complete pages of it if it is partial; every page is where
\* its table says, unless a read without the lock met the build.
CommittedIsWhole ==
    bin # None =>
        /\ \/ bin.version = "final" /\ bin.pages = length[bin.spec]
           \/ bin.version = "partial" /\ bin.pages \in 1..length[bin.spec]
        /\ bin.text # "torn"

\* Section.cpp:289, "If htmlPath exists it is known-complete."
HtmlIsWhole == html # "torn"

\* Section.h:58: every page below pageCount can be read, from the build, the
\* finished file or the partial that is being extended, and whoever reads one
\* gets it; unless a page of the running build could not be written, or a read
\* without the lock met the build.
Readable(p) ==
    IF InBuild(p) THEN p + 1 \in intact
    ELSE Stored(p) /\ bin.spec = spec /\ bin.text = "whole"
Spared == ~raced /\ (bin # None => bin.text # "raced")
PagesCanBeRead ==
    open /\ pc \in {"filling", "shown"} /\ AllWritten /\ Spared =>
        /\ \A p \in 0..(pageCount - 1) : Readable(p)
        /\ \A t \in Tasks : reads[t].at # "bad"

\* While a section is open the pages it offers never become fewer, whatever is
\* built, extended or committed; only abandonBuild() takes them, with the file.
NeverFewerPages ==
    [][open /\ open' => \/ pageCount' >= pageCount
                        \/ pageCount' = 0 /\ bin' = None]_vars

\* Whatever is left on the card, the reader that is to show a page shows one.
EventuallyShown == pc # "shown" ~> pc = "shown"

\* Section.h:114: of a partial section "pageCount is a watermark, not the
\* chapter total".  A page turn that leaves the chapter leaves its last page.
TurnLeavesAtTheEnd == left # "early"

=============================================================================
