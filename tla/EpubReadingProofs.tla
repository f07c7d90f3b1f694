------------------------- MODULE EpubReadingProofs -------------------------
(***************************************************************************)
(* What a chapter's cache and its reader guarantee for any length of the   *)
(* chapter, any specs, any windows, any number of faults and of reads      *)
(* without the lock: the files a later opening trusts are whole and every  *)
(* page offered can be read, except where such a read met a build.         *)
(***************************************************************************)
EXTENDS EpubReading, TLAPS

Files == FileType \cup {None}
Sheets == {None, "torn", "whole"}

StartSteps == {"start", "stream", "promote", "create"}
CommitSteps == {"commit", "swap", "rename"}
BuildSteps == {"write", "finish"}
OpenSteps == {"filling", "shown"} \cup BuildSteps
Steps == {"closed"} \cup OpenSteps \cup StartSteps \cup CommitSteps

(***************************************************************************)
(* Files.                                                                  *)
(***************************************************************************)
LEMMA FileHasFields ==
  ASSUME NEW f \in FileType
  PROVE  /\ f.version \in {"incomplete", "partial", "final"}
         /\ f.spec \in Specs /\ f.pages \in 0..MaxPages
         /\ f.text \in {"whole", "torn", "raced"}
BY DEF FileType

LEMMA NewFile ==
  ASSUME NEW s \in Specs
  PROVE  LET f == Unfinished(s) IN
         f \in FileType /\ f # None /\ f.spec = s
BY NoneAssumption, SizesAssumption DEF Unfinished, FileType

WithHeader(f, v, n, x) == [f EXCEPT !.version = v, !.pages = n, !.text = x]

LEMMA Appended ==
  ASSUME NEW s \in Seq(Nat), NEW slot \in Nat
  PROVE  LET t == Append(s, slot) IN
         /\ t \in Seq(Nat) /\ Len(t) = Len(s) + 1
         /\ \A i \in DOMAIN s : i \in DOMAIN t /\ t[i] = s[i]
         /\ t[Len(s) + 1] = slot /\ DOMAIN t = DOMAIN s \cup {Len(s) + 1}
         /\ Len(s) + 1 \in DOMAIN t /\ Len(s) + 1 \notin DOMAIN s
OBVIOUS

-----------------------------------------------------------------------------
(* The invariant. *)

CardOK ==
    /\ bin \in Files /\ part \in Files
    /\ html \in Sheets /\ temp \in Sheets
    /\ CommittedIsWhole /\ HtmlIsWhole

SectionOK ==
    /\ open \in BOOLEAN /\ build \in BOOLEAN /\ partial \in BOOLEAN
    /\ cached \in BOOLEAN /\ lut \in Seq(Nat)
    /\ built \in Nat /\ built <= Len(lut) /\ (AllWritten => built = Len(lut))
    /\ pageCount \in 0..MaxPages /\ partialPages \in 0..MaxPages

ReaderOK ==
    /\ failedStart \in BOOLEAN /\ page \in 0..MaxPages /\ spec \in Specs
    /\ left \in {"no", "end", "early"}
    /\ pc \in Steps /\ who \in {"render", "loop"} /\ goal \in {"final", "partial"}
    /\ length \in [Specs -> 0..MaxPages] /\ faults \in 0..MaxFaults

\* The temporary chapter is torn while it is unzipped and whole from then on
\* until it takes its name.
TempInv ==
    /\ pc = "stream" => temp = "torn"
    /\ pc = "promote" => temp = "whole"
    /\ (pc = "create" \/ (build /\ pc \in OpenSteps)) /\ ~cached
           => temp = "whole"

\* A build is of the reader's spec and short of the chapter's end until it is
\* finished; what is committed as finished is all of it.
BuildInv ==
    /\ build => /\ pc \in OpenSteps \cup CommitSteps
                /\ part # None /\ Len(lut) <= length[part.spec]
    /\ pc \in {"stream", "promote", "create"} =>
           lut = <<>> /\ built = 0 /\ pageCount = StartCount
    /\ pc \in BuildSteps \cup CommitSteps => build
    /\ build /\ pc \in OpenSteps => part.spec = spec
    /\ build /\ pc \in {"filling", "shown"} =>
           Len(lut) = 0 \/ Len(lut) < length[spec]
    /\ pc = "write" => Len(lut) < length[spec]
    /\ pc = "finish" => Len(lut) = length[spec]
    /\ pc \in CommitSteps /\ goal = "final" =>
           part.spec = spec /\ Len(lut) = length[part.spec]
    /\ pc \in CommitSteps /\ goal = "partial" => built > 0
    /\ pc \in {"swap", "rename"} =>
           AllWritten /\ part.version = goal /\ part.pages = built
           /\ part.text # "torn"

\* Every page offered is in the build, in the finished file, or in the
\* partial one, which is still there and of this spec.
PagesInv ==
    pc \in StartSteps \cup OpenSteps =>
        /\ partial => bin # None /\ bin.spec = spec /\ partialPages <= bin.pages
        /\ ~build /\ ~partial /\ pageCount > 0 =>
               bin # None /\ bin.spec = spec /\ pageCount <= bin.pages
        /\ ~build /\ partial => pageCount <= partialPages
        /\ build => \/ pageCount <= built
                    \/ partial /\ pageCount <= partialPages

\* The page on the screen is one of the section's, also while the loop extends
\* the partial it is in.
AtHandInv ==
    /\ pc \in StartSteps /\ who = "loop" => partial /\ page < pageCount
    /\ pc = "shown" /\ (build \/ partial) => page < pageCount
    /\ pc = "write" /\ who = "loop" => page < pageCount

Busy(t) == reads[t].at # "idle"
Quiet == \A t \in Tasks : reads[t] = Idle
Places == {"idle", "seek", "read", "good", "bad"}

FileOK ==
    /\ cursor \in Nat /\ offset \in Nat /\ intact \subseteq DOMAIN lut
    /\ reads \in [Tasks -> [at : Places, page : 0..Len(lut), back : Nat]]
    /\ raced \in BOOLEAN /\ peeks \in 0..MaxPeeks /\ placed \in BOOLEAN

\* Only pages that were laid out are read, the render task reads while it
\* shows a page, and the main task does not build while it reads.
ReadsInv ==
    /\ \A t \in Tasks : Busy(t) =>
           reads[t].page \in DOMAIN lut /\ lut[reads[t].page] # 0
    /\ ~build => Quiet /\ lut = <<>>
    /\ pc \in {"swap", "rename"} => Quiet /\ intact = {}
    /\ Busy("render") => pc = "filling" /\ page < pageCount
    /\ pc \in BuildSteps \cup {"commit"} /\ who = "loop" => ~Busy("loop")

\* The end of what is written: where the handle is, or will be put back.
End == IF Busy("render") THEN reads["render"].back
       ELSE IF Busy("loop") THEN reads["loop"].back ELSE cursor

\* As long as no read met the build every page is intact before the end, and
\* the next one is placed there.
Sound ==
    /\ End > 0
    /\ \A k \in DOMAIN lut : lut[k] # 0 => lut[k] < End /\ k \in intact
    /\ ~(Busy("render") /\ Busy("loop"))
    /\ \A t \in Tasks :
          /\ reads[t].at = "read" => cursor = lut[reads[t].page]
          /\ reads[t].at # "bad"
    /\ pc = "write" => offset = End
SoundInv == build /\ pc \notin {"swap", "rename"} /\ ~raced => Sound

FileInv == FileOK /\ ReadsInv /\ SoundInv

IInv == /\ CardOK /\ SectionOK /\ ReaderOK
        /\ TempInv /\ BuildInv /\ PagesInv /\ AtHandInv
        /\ FileInv

-----------------------------------------------------------------------------
(* The handle and the two tasks that may move it. *)

LEMMA TwoTasks ==
  /\ "render" \in Tasks /\ "loop" \in Tasks
  /\ \A t \in Tasks : t = "render" \/ t = "loop"
  /\ Other("render") = "loop" /\ Other("loop") = "render"
  /\ \A t \in Tasks : Other(t) \in Tasks /\ Other(t) # t
BY DEF Tasks, Other

LEMMA IdleRead ==
  ASSUME NEW n \in Nat
  PROVE  Idle \in [at : Places, page : 0..n, back : Nat] /\ Idle.at = "idle"
BY DEF Idle, Places

\* Without a build there is nothing in the handle.
LEMMA NoBuildKeepsFile ==
  ASSUME FileInv, ~build, ~build', lut' = <<>>, UNCHANGED file, placed' \in BOOLEAN,
         pc' \notin BuildSteps \cup CommitSteps
  PROVE  FileInv'
<1>1. lut = <<>> /\ Quiet
  BY DEF FileInv, ReadsInv
<1>2. /\ cursor' = cursor /\ offset' = offset /\ intact' = intact
      /\ reads' = reads /\ raced' = raced /\ peeks' = peeks /\ lut' = lut
  BY <1>1 DEF file
<1>3. FileOK'
  BY <1>2 DEF FileInv, FileOK
<1>4. Quiet'
  BY <1>1, <1>2 DEF Quiet, Busy
<1>5. ReadsInv'
  BY <1>4, TwoTasks DEF ReadsInv, Quiet, Busy, Idle, BuildSteps, CommitSteps
<1> QED
  BY <1>3, <1>5 DEF FileInv, SoundInv

\* The handle is closed, with or without the section.
LEMMA ClosesKeepsFile ==
  ASSUME FileInv, SectionOK, Closes, placed' \in BOOLEAN,
         \/ ~build' /\ lut' = <<>> /\ pc' \notin BuildSteps \cup CommitSteps
         \/ build' /\ lut' = lut /\ pc' \in {"swap", "rename"}
  PROVE  FileInv'
<1>1. /\ cursor' = 0 /\ offset' = 0 /\ intact' = {} /\ raced' = FALSE
      /\ reads' = [t \in Tasks |-> Idle] /\ peeks' = peeks
  BY DEF Closes
<1>2. Len(lut') \in Nat
  BY DEF SectionOK
<1>3. reads' \in [Tasks -> [at : Places, page : 0..Len(lut'), back : Nat]]
  BY <1>1, <1>2, IdleRead
<1>4. FileOK'
  BY <1>1, <1>3 DEF FileInv, FileOK
<1>5. Quiet'
  BY <1>1, IdleRead DEF Quiet, Busy
<1>6. ReadsInv'
  BY <1>1, <1>5, TwoTasks DEF ReadsInv, Quiet, Busy, Idle, BuildSteps, CommitSteps
<1> QED
  BY <1>4, <1>6 DEF FileInv, SoundInv

\* The handle stays where it is and the render task reads nothing.
LEMMA FileStands ==
  ASSUME FileInv, UNCHANGED file, UNCHANGED <<build, lut>>, placed' \in BOOLEAN,
         ~Busy("render"), pc \notin {"swap", "rename"},
         pc' \notin {"swap", "rename", "write"},
         pc' \in {"finish", "commit"} /\ who' = "loop" => ~Busy("loop")
  PROVE  FileInv'
<1>1. /\ cursor' = cursor /\ offset' = offset /\ intact' = intact
      /\ reads' = reads /\ raced' = raced /\ peeks' = peeks /\ lut' = lut
      /\ build' = build
  BY DEF file
<1>2. FileOK'
  BY <1>1 DEF FileInv, FileOK
<1>3. (Busy("render")' <=> Busy("render")) /\ (Busy("loop")' <=> Busy("loop"))
      /\ (Quiet' <=> Quiet)
  BY <1>1 DEF Quiet, Busy
<1>4. ReadsInv'
  BY <1>1, <1>3 DEF FileInv, ReadsInv, Busy, BuildSteps
<1>5. End' = End
  BY <1>1 DEF End, Busy
<1>6. SoundInv'
  BY <1>1, <1>3, <1>5 DEF FileInv, SoundInv, Sound
<1> QED
  BY <1>2, <1>4, <1>6 DEF FileInv

LEMMA InitIInv == Init => IInv
<1> SUFFICES ASSUME Init PROVE IInv
  OBVIOUS
<1> USE SizesAssumption, NoneAssumption
<1>1. CardOK
  BY DEF Init, CardOK, Files, Sheets, CommittedIsWhole, HtmlIsWhole
<1>2. SectionOK
  <2>1. lut \in Seq(Nat) /\ Len(lut) = 0
    BY DEF Init
  <2>2. built = 0 /\ pageCount = 0 /\ partialPages = 0
    BY DEF Init
  <2>3. built \in Nat /\ built <= Len(lut) /\ built = Len(lut)
    BY <2>1, <2>2
  <2>4. pageCount \in 0..MaxPages /\ partialPages \in 0..MaxPages
    BY <2>2
  <2> QED
    BY <2>1, <2>3, <2>4, Zenon DEF Init, SectionOK
<1>3. ReaderOK
  <2>1. faults \in 0..MaxFaults /\ page \in 0..MaxPages
    BY DEF Init, Targets
  <2> QED
    BY <2>1, Zenon DEF Init, ReaderOK, Steps
<1>4. FileInv
  <2>1. /\ cursor = 0 /\ offset = 0 /\ intact = {} /\ raced = FALSE
        /\ reads = [t \in Tasks |-> Idle] /\ peeks = MaxPeeks /\ placed = FALSE
        /\ ~build /\ lut = <<>> /\ pc = "closed"
    BY DEF Init
  <2>2. reads \in [Tasks -> [at : Places, page : 0..Len(lut), back : Nat]]
    BY <2>1, IdleRead
  <2>3. Quiet
    BY <2>1, IdleRead DEF Quiet, Busy
  <2>4. cursor \in Nat /\ offset \in Nat /\ intact \subseteq DOMAIN lut
    BY <2>1
  <2>5. peeks \in 0..MaxPeeks /\ raced = FALSE /\ placed = FALSE
    <3>1. MaxPeeks \in Nat /\ peeks = MaxPeeks
      BY <2>1 DEF SizesAssumption
    <3>2. peeks \in 0..MaxPeeks
      BY <3>1
    <3> QED
      BY <2>1, <3>2
  <2>6. FileOK
    BY <2>2, <2>4, <2>5, Zenon DEF FileOK
  <2>7. ReadsInv
    BY <2>1, <2>3, TwoTasks DEF ReadsInv, Quiet, Busy, Idle, BuildSteps
  <2> QED
    BY <2>1, <2>6, <2>7 DEF FileInv, SoundInv
<1> QED
  BY <1>1, <1>2, <1>3, <1>4 DEF Init, IInv, TempInv, BuildInv, PagesInv, AtHandInv,
     StartSteps, BuildSteps, CommitSteps

-----------------------------------------------------------------------------
(* What steps have in common. *)

\* Whatever ends with the section closed leaves only the card to look at.
LEMMA ClosedKeeps ==
  ASSUME IInv, NoSection, pc' = "closed", CardOK', ReaderOK'
  PROVE  IInv'
<1>1. SectionOK'
  <2>1. lut' \in Seq(Nat) /\ Len(lut') = 0
    BY DEF NoSection
  <2>2. built' = 0 /\ pageCount' = 0 /\ partialPages' = 0
    BY DEF NoSection
  <2>3. built' \in Nat /\ built' <= Len(lut') /\ built' = Len(lut')
    BY <2>1, <2>2
  <2>4. pageCount' \in 0..MaxPages /\ partialPages' \in 0..MaxPages
    BY <2>2, SizesAssumption
  <2> QED
    BY <2>1, <2>3, <2>4, Zenon DEF NoSection, SectionOK
<1>2. FileInv'
  BY ClosesKeepsFile DEF IInv, NoSection, BuildSteps, CommitSteps
<1> QED
  BY <1>1, <1>2 DEF IInv, TempInv, BuildInv, PagesInv, AtHandInv, NoSection,
     StartSteps, BuildSteps, OpenSteps, CommitSteps

LEMMA FaultCounted ==
  ASSUME ReaderOK, Fault \/ NoFault
  PROVE  /\ length' \in [Specs -> 0..MaxPages] /\ length' = length
         /\ faults' \in 0..MaxFaults
BY SizesAssumption DEF Fault, NoFault, ReaderOK

\* The card after a failure: files may be gone, none is new.
LEMMA CardShrinks ==
  ASSUME CardOK, bin' \in {bin, None}, part' \in {part, None},
         html' \in {html, None}, temp' \in {temp, None}, UNCHANGED length
  PROVE  CardOK'
BY NoneAssumption DEF CardOK, Files, Sheets, CommittedIsWhole, HtmlIsWhole

LEMMA ReaderMoves ==
  ASSUME ReaderOK, Fault \/ NoFault, failedStart' \in BOOLEAN,
         page' \in 0..MaxPages, spec' \in Specs, left' \in {"no", "end", "early"},
         pc' \in Steps, who' \in {"render", "loop"}, goal' \in {"final", "partial"}
  PROVE  ReaderOK'
BY FaultCounted DEF ReaderOK

\* A step that only changes where the operation stands and who waits for it.
LEMMA SectionStays ==
  ASSUME SectionOK, UNCHANGED section
  PROVE  SectionOK'
BY DEF SectionOK, section, AllWritten

\* The pages are where they were.
LEMMA SamePages ==
  ASSUME PagesInv, pc \in StartSteps \cup OpenSteps,
         UNCHANGED <<bin, spec, build, built, pageCount, partial, partialPages>>
  PROVE  PagesInv'
<1>1. /\ bin' = bin /\ spec' = spec /\ build' = build /\ built' = built
      /\ pageCount' = pageCount /\ partial' = partial
      /\ partialPages' = partialPages
  OBVIOUS
<1> DEFINE Held(b, s, d, n, c, t, m) ==
      /\ t => b # None /\ b.spec = s /\ m <= b.pages
      /\ ~d /\ ~t /\ c > 0 => b # None /\ b.spec = s /\ c <= b.pages
      /\ ~d /\ t => c <= m
      /\ d => c <= n \/ (t /\ c <= m)
<1>2. Held(bin, spec, build, built, pageCount, partial, partialPages)
  BY DEF PagesInv
<1> HIDE DEF Held
<1>3. Held(bin', spec', build', built', pageCount', partial', partialPages')
  BY <1>1, <1>2
<1> QED
  BY <1>3 DEF Held, PagesInv

LEMMA ReaderHasTypes ==
  ASSUME IInv
  PROVE  /\ failedStart \in BOOLEAN /\ page \in 0..MaxPages /\ spec \in Specs
         /\ left \in {"no", "end", "early"} /\ pc \in Steps
         /\ who \in {"render", "loop"} /\ goal \in {"final", "partial"}
         /\ length \in [Specs -> 0..MaxPages] /\ faults \in 0..MaxFaults
         /\ ReaderOK /\ SectionOK /\ CardOK /\ FileInv
BY DEF IInv, ReaderOK

-----------------------------------------------------------------------------
(* Opening the section. *)

\* A section opened with some pages, none of them in a build.
LEMMA OpenedSection ==
  ASSUME NEW count \in 0..MaxPages, NEW isPartial \in BOOLEAN,
         Opened(count, isPartial)
  PROVE  /\ SectionOK' /\ build' = FALSE /\ lut' = <<>> /\ pageCount' = count
         /\ partial' = isPartial /\ partialPages' = IF isPartial THEN count ELSE 0
         /\ who' = "render" /\ goal' = "final" /\ left' = "no" /\ UNCHANGED <<page, spec>>
         /\ failedStart' = FALSE /\ placed' = FALSE /\ UNCHANGED file
<1>1. lut' \in Seq(Nat) /\ Len(lut') = 0
  BY DEF Opened
<1>2. built' \in Nat /\ built' <= Len(lut') /\ built' = Len(lut')
  BY <1>1 DEF Opened
<1>3. pageCount' \in 0..MaxPages /\ partialPages' \in 0..MaxPages
  BY SizesAssumption DEF Opened
<1>4. /\ build' = FALSE /\ lut' = <<>> /\ pageCount' = count
      /\ partial' = isPartial /\ partialPages' = (IF isPartial THEN count ELSE 0)
      /\ who' = "render" /\ goal' = "final" /\ left' = "no" /\ UNCHANGED <<page, spec>>
      /\ failedStart' = FALSE /\ open' = TRUE /\ cached' = FALSE
      /\ placed' = FALSE /\ UNCHANGED file
  BY DEF Opened
<1>5. SectionOK'
  BY <1>1, <1>2, <1>3, <1>4, Zenon DEF SectionOK
<1> QED
  BY <1>4, <1>5

LEMMA ClosedHasNoBuild ==
  ASSUME IInv, pc \in {"closed"} \cup StartSteps
  PROVE  ~build
BY DEF IInv, BuildInv, StartSteps, OpenSteps, BuildSteps, CommitSteps

LEMMA OpenCachedKeeps ==
  ASSUME IInv, OpenCached
  PROVE  IInv'
<1>1. /\ bin \in FileType /\ bin # None /\ bin.spec = spec
      /\ bin.version \in {"final", "partial"}
  BY DEF OpenCached, Usable, IInv, CardOK, Files
<1>2. bin.pages \in 0..MaxPages
  BY <1>1, FileHasFields
<1>3. Opened(bin.pages, bin.version = "partial") /\ NoFault /\ UNCHANGED card
      /\ pc = "closed" /\ pc' \in {"start", "filling"}
  BY DEF OpenCached
<1>4. /\ SectionOK' /\ build' = FALSE /\ pageCount' = bin.pages
      /\ partial' = (bin.version = "partial")
      /\ partialPages' = (IF bin.version = "partial" THEN bin.pages ELSE 0)
      /\ who' = "render" /\ goal' = "final" /\ left' = "no" /\ UNCHANGED <<page, spec>>
      /\ failedStart' = FALSE
  BY <1>2, <1>3, OpenedSection
<1>5. ReaderOK'
  BY <1>3, <1>4, ReaderMoves, ReaderHasTypes DEF Steps, StartSteps, OpenSteps
<1>6. CardOK'
  BY <1>3, CardShrinks, ReaderHasTypes DEF card, NoFault
<1>7. PagesInv'
  <2>1. bin' = bin /\ spec' = spec
    BY <1>3, <1>4 DEF card
  <2>2. CASE bin.version = "partial"
    <3>1. partial' = TRUE /\ partialPages' = bin.pages
      BY <1>4, <2>2, Zenon
    <3> QED
      BY <1>1, <1>2, <1>4, <2>1, <3>1 DEF PagesInv
  <2>3. CASE bin.version # "partial"
    <3>1. partial' = FALSE
      BY <1>4, <2>3, Zenon
    <3> QED
      BY <1>1, <1>2, <1>4, <2>1, <3>1 DEF PagesInv
  <2> QED
    BY <2>2, <2>3
<1>8. FileInv'
  BY <1>2, <1>3, OpenedSection, ClosedHasNoBuild, NoBuildKeepsFile
  DEF BuildSteps, CommitSteps, IInv
<1> QED
  BY <1>3, <1>4, <1>5, <1>6, <1>7, <1>8
  DEF IInv, TempInv, BuildInv, AtHandInv, StartSteps, BuildSteps, CommitSteps

LEMMA OpenEmptyKeeps ==
  ASSUME IInv, OpenRejected \/ OpenMissing
  PROVE  IInv'
<1>1. /\ Opened(0, FALSE) /\ (NoFault \/ Fault) /\ pc = "closed" /\ pc' = "start"
      /\ bin' \in {bin, None} /\ part' \in {part, None} /\ UNCHANGED <<html, temp>>
  BY DEF OpenRejected, OpenMissing, Goes, card
<1>2. 0 \in 0..MaxPages
  BY SizesAssumption
<1>3. /\ SectionOK' /\ build' = FALSE /\ pageCount' = 0 /\ partial' = FALSE
      /\ who' = "render" /\ goal' = "final" /\ left' = "no" /\ UNCHANGED <<page, spec>>
      /\ failedStart' = FALSE
  BY <1>1, <1>2, OpenedSection
<1>4. ReaderOK'
  BY <1>1, <1>3, ReaderMoves, ReaderHasTypes DEF Steps, StartSteps
<1>5. CardOK'
  BY <1>1, CardShrinks, ReaderHasTypes DEF NoFault, Fault
<1>6. FileInv'
  BY <1>1, <1>2, OpenedSection, ClosedHasNoBuild, NoBuildKeepsFile
  DEF BuildSteps, CommitSteps, IInv
<1> QED
  BY <1>1, <1>3, <1>4, <1>5, <1>6
  DEF IInv, TempInv, BuildInv, PagesInv, AtHandInv, StartSteps, BuildSteps, CommitSteps

-----------------------------------------------------------------------------
(* startBuild(). *)

LEMMA StartBuildKeeps ==
  ASSUME IInv, StartBuild
  PROVE  IInv'
<1>1. /\ pc = "start" /\ lut' = <<>> /\ built' = 0 /\ pageCount' = StartCount
      /\ part' = None /\ bin' = bin /\ html' = html /\ NoFault
      /\ UNCHANGED <<open, build, partial, partialPages, who, goal>>
      /\ UNCHANGED reader /\ UNCHANGED file
      /\ pc' \in {"create", "stream"} /\ temp' \in {temp, "torn"}
      /\ pc' = "stream" => temp' = "torn"
      /\ pc' = "create" => cached' = TRUE
      /\ cached' \in BOOLEAN
  BY DEF StartBuild, StreamToTemp
<1>2. ~build
  BY <1>1, ClosedHasNoBuild DEF StartSteps
<1>3. pageCount' \in 0..MaxPages
  BY <1>1, SizesAssumption, ReaderHasTypes DEF StartCount, SectionOK
<1>4. SectionOK'
  <2>1. lut' \in Seq(Nat) /\ Len(lut') = 0
    BY <1>1
  <2>2. built' \in Nat /\ built' <= Len(lut') /\ built' = Len(lut')
    BY <1>1, <2>1
  <2>3. partialPages' \in 0..MaxPages /\ open' \in BOOLEAN /\ build' \in BOOLEAN
        /\ partial' \in BOOLEAN
    BY <1>1, ReaderHasTypes DEF SectionOK
  <2> QED
    BY <1>1, <1>3, <2>1, <2>2, <2>3, Zenon DEF SectionOK
<1>5. ReaderOK'
  BY <1>1, ReaderMoves, ReaderHasTypes DEF reader, Steps, StartSteps
<1>6. CardOK'
  BY <1>1, ReaderHasTypes
  DEF CardOK, Files, Sheets, CommittedIsWhole, HtmlIsWhole, NoFault
<1>7. PagesInv'
  <2>1. bin' = bin /\ spec' = spec /\ partialPages' = partialPages
        /\ partial' = partial /\ ~build'
    BY <1>1, <1>2 DEF reader
  <2>2. CASE partial
    <3>1. bin # None /\ bin.spec = spec /\ partialPages <= bin.pages
      BY <1>1, <2>2 DEF IInv, PagesInv, StartSteps
    <3>2. pageCount' = partialPages /\ partialPages \in 0..MaxPages
      BY <1>1, <2>2, ReaderHasTypes DEF StartCount, SectionOK
    <3> QED
      BY <2>1, <2>2, <3>1, <3>2 DEF PagesInv
  <2>3. CASE ~partial
    <3>1. pageCount' = 0
      BY <1>1, <2>3 DEF StartCount
    <3> QED
      BY <2>1, <2>3, <3>1 DEF PagesInv
  <2> QED
    BY <2>2, <2>3
<1>8. AtHandInv'
  <2>1. who = "loop" => partial /\ page < pageCount /\ pageCount <= partialPages
    BY <1>1, <1>2 DEF IInv, AtHandInv, PagesInv, StartSteps
  <2> QED
    BY <1>1, <2>1, ReaderHasTypes
    DEF AtHandInv, StartCount, reader, StartSteps, SectionOK
<1>9. FileInv'
  BY <1>1, <1>2, NoBuildKeepsFile
  DEF BuildSteps, CommitSteps, IInv, reader, FileInv, FileOK
<1> QED
  BY <1>1, <1>2, <1>4, <1>5, <1>6, <1>7, <1>8, <1>9
  DEF IInv, TempInv, BuildInv, StartSteps, BuildSteps, CommitSteps, StartCount

\* The section is not touched between startBuild()'s first step and its last.
LEMMA StartStepKeeps ==
  ASSUME IInv, pc \in {"stream", "promote"}, pc' \in StartSteps,
         CardOK', TempInv',
         UNCHANGED <<bin, open, build, lut, built, pageCount, partial,
                     partialPages, reader, who, goal, file>>,
         cached' \in BOOLEAN, NoFault \/ Fault
  PROVE  IInv'
<1>1. ~build
  BY ClosedHasNoBuild DEF StartSteps
<1>2. SectionOK'
  BY ReaderHasTypes DEF SectionOK, AllWritten
<1>3. ReaderOK'
  BY ReaderMoves, ReaderHasTypes DEF reader, Steps
<1>4. PagesInv'
  BY SamePages DEF IInv, reader, StartSteps
<1>5. AtHandInv'
  BY DEF IInv, AtHandInv, reader, StartSteps
<1>6. BuildInv'
  BY <1>1 DEF IInv, BuildInv, StartSteps, BuildSteps, CommitSteps, StartCount
<1>7. FileInv'
  <2>1. lut = <<>> /\ placed \in BOOLEAN
    BY <1>1 DEF IInv, FileInv, ReadsInv, FileOK
  <2> QED
    BY <1>1, <2>1, NoBuildKeepsFile
    DEF IInv, reader, StartSteps, BuildSteps, CommitSteps
<1> QED
  BY <1>2, <1>3, <1>4, <1>5, <1>6, <1>7 DEF IInv

LEMMA StreamedKeeps ==
  ASSUME IInv, Streamed
  PROVE  IInv'
<1>1. pc = "stream" /\ temp = "torn" /\ pc' = "promote"
  BY DEF Streamed, Goes, IInv, TempInv
<1>2. /\ temp' = "whole" /\ html' = html /\ NoFault
      /\ UNCHANGED <<bin, part, section, reader, who, goal, file>>
  BY <1>1 DEF Streamed
<1>3. CardOK'
  BY <1>2, ReaderHasTypes
  DEF CardOK, Files, Sheets, CommittedIsWhole, HtmlIsWhole, NoFault
<1>4. TempInv'
  BY <1>1, <1>2, ClosedHasNoBuild DEF TempInv, StartSteps, section
<1>5. /\ UNCHANGED <<bin, open, build, lut, built, pageCount, partial,
                     partialPages, reader, who, goal, file>>
      /\ cached' \in BOOLEAN
  BY <1>2, ReaderHasTypes DEF section, SectionOK
<1> QED
  BY <1>1, <1>2, <1>3, <1>4, <1>5, StartStepKeeps DEF StartSteps

LEMMA PromoteKeeps ==
  ASSUME IInv, Promote
  PROVE  IInv'
<1>1. pc = "promote" /\ pc' = "create" /\ temp = "whole" /\ ~build
  BY ClosedHasNoBuild DEF Promote, Goes, IInv, TempInv, StartSteps
<1>2. /\ UNCHANGED <<bin, open, build, lut, built, pageCount, partial,
                     partialPages, reader, who, goal, file>>
      /\ part' = part /\ cached' \in BOOLEAN /\ (NoFault \/ Fault)
      /\ html' \in {html, "whole"} /\ temp' \in {temp, None}
      /\ ~cached' => temp' = "whole"
  BY <1>1, ReaderHasTypes DEF Promote, SectionOK
<1>3. CardOK'
  BY <1>2, NoneAssumption, ReaderHasTypes, FaultCounted
  DEF CardOK, Files, Sheets, CommittedIsWhole, HtmlIsWhole
<1>4. TempInv'
  BY <1>1, <1>2 DEF TempInv
<1> QED
  BY <1>1, <1>2, <1>3, <1>4, StartStepKeeps DEF StartSteps

LEMMA StartFailsKeeps ==
  ASSUME IInv, pc \in StartSteps, StartFails, Fault, bin' = bin,
         part' \in {part, None}, html' = html, temp' \in {temp, None}
  PROVE  IInv'
<1>1. CardOK'
  BY CardShrinks, ReaderHasTypes DEF Fault
<1>2. CASE who = "render"
  <2>1. /\ pc' = "closed" /\ NoSection
        /\ UNCHANGED <<page, spec, left, who, goal>>
    BY <1>2 DEF StartFails
  <2>2. ReaderOK'
    BY <2>1, ReaderMoves, ReaderHasTypes DEF NoSection, Steps
  <2> QED
    BY <1>1, <2>1, <2>2, ClosedKeeps
<1>3. CASE who # "render"
  <2>1. /\ pc' = "shown" /\ failedStart' = TRUE
        /\ UNCHANGED section /\ UNCHANGED <<page, placed, spec, left, who, goal>>
        /\ UNCHANGED file
    BY <1>3 DEF StartFails
  <2>2. ~build /\ partial /\ page < pageCount
    BY <1>3, ClosedHasNoBuild, ReaderHasTypes DEF IInv, AtHandInv
  <2>3. SectionOK'
    BY <2>1, SectionStays, ReaderHasTypes
  <2>4. ReaderOK'
    BY <2>1, ReaderMoves, ReaderHasTypes DEF Steps, OpenSteps
  <2>5. PagesInv'
    BY <2>1, SamePages DEF IInv, section
  <2>6. FileInv'
    <3>1. lut = <<>> /\ placed \in BOOLEAN /\ lut' = lut /\ build' = build
      BY <2>1, <2>2 DEF IInv, FileInv, ReadsInv, FileOK, section
    <3> QED
      BY <2>1, <2>2, <3>1, NoBuildKeepsFile DEF IInv, BuildSteps, CommitSteps
  <2> QED
    BY <1>1, <2>1, <2>2, <2>3, <2>4, <2>5, <2>6
    DEF IInv, TempInv, BuildInv, AtHandInv, StartSteps, BuildSteps, CommitSteps,
        section
<1> QED
  BY <1>2, <1>3

LEMMA FailuresKeep ==
  ASSUME IInv, StreamFails \/ CreateFails
  PROVE  IInv'
BY StartFailsKeeps DEF StreamFails, CreateFails, StartSteps

LEMMA BeginParseFailsKeeps ==
  ASSUME IInv, BeginParseFails
  PROVE  IInv'
<1>1. /\ pc = "create" /\ Fault /\ bin' = None /\ part' = None /\ temp' = None
      /\ html' = html /\ UNCHANGED <<page, spec, left, who, goal>>
  BY DEF BeginParseFails, Abandon
<1>2. CardOK'
  BY <1>1, CardShrinks, ReaderHasTypes DEF Fault
<1>3. CASE pc' = "closed" /\ NoSection
  <2>1. ReaderOK'
    BY <1>1, <1>3, ReaderMoves, ReaderHasTypes DEF NoSection, Steps
  <2> QED
    BY <1>2, <1>3, <2>1, ClosedKeeps
<1>4. CASE /\ pc' = "shown" /\ failedStart' = TRUE
           /\ lut' = <<>> /\ built' = 0 /\ pageCount' = 0
           /\ partial' = FALSE /\ partialPages' = 0 /\ cached' = FALSE
           /\ UNCHANGED <<open, build, placed, file>>
  <2>1. ~build
    BY <1>1, ClosedHasNoBuild DEF StartSteps
  <2>2. lut' \in Seq(Nat) /\ Len(lut') = 0
    BY <1>4
  <2>3. built' \in Nat /\ built' <= Len(lut') /\ built' = Len(lut')
    BY <1>4, <2>2
  <2>4. pageCount' \in 0..MaxPages /\ partialPages' \in 0..MaxPages
    BY <1>4, SizesAssumption
  <2>5. open' \in BOOLEAN /\ build' = FALSE
    BY <1>4, <2>1, ReaderHasTypes DEF SectionOK
  <2>6. SectionOK'
    BY <1>4, <2>2, <2>3, <2>4, <2>5, Zenon DEF SectionOK
  <2>7. ReaderOK'
    BY <1>1, <1>4, ReaderMoves, ReaderHasTypes DEF Steps, OpenSteps
  <2>8. FileInv'
    BY <1>4, <2>1, <2>5, NoBuildKeepsFile
    DEF IInv, FileInv, FileOK, BuildSteps, CommitSteps
  <2> QED
    BY <1>2, <1>4, <2>5, <2>6, <2>7, <2>8
    DEF IInv, TempInv, BuildInv, PagesInv, AtHandInv, StartSteps, BuildSteps,
        CommitSteps
<1> QED
  BY <1>3, <1>4 DEF BeginParseFails

LEMMA CreateKeeps ==
  ASSUME IInv, Create
  PROVE  IInv'
<1>1. /\ pc = "create" /\ part' = Unfinished(spec) /\ build' = TRUE
      /\ pc' = (IF who = "render" THEN "filling" ELSE "shown") /\ NoFault
      /\ cursor' = 1 /\ UNCHANGED <<offset, intact, reads, raced, peeks>>
      /\ UNCHANGED <<bin, html, temp, open, lut, built, pageCount, partial,
                     partialPages, cached, reader, who, goal>>
  BY DEF Create, Resumed
<1>2. part' \in FileType /\ part' # None /\ part'.spec = spec
  BY <1>1, NewFile, ReaderHasTypes
<1>3. ~build /\ lut = <<>> /\ built = 0 /\ (~cached => temp = "whole")
  BY <1>1, ClosedHasNoBuild DEF IInv, BuildInv, TempInv, StartSteps
<1>4. /\ Len(lut) = 0 /\ lut' = lut /\ spec' = spec /\ length' = length
      /\ 0 <= length[spec]
  BY <1>1, <1>3, ReaderHasTypes DEF reader, NoFault
<1>5. SectionOK'
  BY <1>1, ReaderHasTypes DEF SectionOK, AllWritten
<1>6. ReaderOK'
  BY <1>1, ReaderMoves, ReaderHasTypes DEF reader, Steps, OpenSteps
<1>7. CardOK'
  BY <1>1, <1>2, ReaderHasTypes
  DEF CardOK, Files, CommittedIsWhole, HtmlIsWhole, NoFault
<1>8. BuildInv'
  BY <1>1, <1>2, <1>4 DEF BuildInv, OpenSteps, BuildSteps, CommitSteps
<1>9. PagesInv'
  <2>1. /\ partial => bin # None /\ bin.spec = spec /\ partialPages <= bin.pages
        /\ pageCount = StartCount
    BY <1>1 DEF IInv, PagesInv, BuildInv, StartSteps
  <2>2. bin' = bin /\ spec' = spec /\ partial' = partial /\ build' = TRUE
        /\ partialPages' = partialPages /\ pageCount' = pageCount /\ built' = 0
    BY <1>1, <1>3 DEF reader
  <2>3. partial => pageCount' <= partialPages'
    BY <2>1, <2>2, ReaderHasTypes DEF StartCount, SectionOK
  <2>4. ~partial => pageCount' <= built'
    BY <2>1, <2>2 DEF StartCount
  <2> QED
    BY <2>1, <2>2, <2>3, <2>4 DEF PagesInv
<1>10. AtHandInv'
  BY <1>1, ReaderHasTypes DEF IInv, AtHandInv, StartSteps, reader
<1>11. TempInv'
  BY <1>1, <1>3 DEF TempInv
<1>12. FileInv'
  <2>1. /\ Quiet /\ lut' = lut /\ lut = <<>> /\ reads' = reads
        /\ placed' = placed
    BY <1>1, <1>3 DEF IInv, FileInv, ReadsInv, reader
  <2>2. FileOK'
    BY <1>1, <2>1 DEF IInv, FileInv, FileOK
  <2>3. Quiet'
    BY <2>1 DEF Quiet, Busy
  <2>4. ReadsInv'
    BY <1>1, <2>3, TwoTasks DEF ReadsInv, Quiet, Busy, Idle, BuildSteps
  <2>5. ~Busy("render")' /\ ~Busy("loop")'
    BY <2>3, TwoTasks DEF Quiet, Busy, Idle
  <2>6. End' = 1
    BY <1>1, <2>5 DEF End
  <2>7. Sound'
    <3>1. \A t \in Tasks : reads'[t].at = "idle"
      BY <2>3 DEF Quiet, Idle
    <3> QED
      BY <1>1, <2>1, <2>5, <2>6, <3>1 DEF Sound
  <2> QED
    BY <2>2, <2>4, <2>7 DEF FileInv, SoundInv
<1> QED
  BY <1>5, <1>6, <1>7, <1>8, <1>9, <1>10, <1>11, <1>12 DEF IInv

-----------------------------------------------------------------------------
(* buildSomeMore(). *)

\* Where a build stands when more of it is laid out.
LEMMA BuildingFacts ==
  ASSUME IInv, Building
  PROVE  /\ build = TRUE /\ pc \in {"filling", "shown"}
         /\ part # None /\ part.spec = spec
         /\ length[spec] \in 0..MaxPages /\ Len(lut) \in Nat
         /\ (Len(lut) = 0 \/ Len(lut) < length[spec])
         /\ ~cached => temp = "whole"
         /\ pc = "filling" => page >= pageCount
         /\ pc = "shown" => page < pageCount /\ ~Busy("loop")
         /\ ~Busy("render")
<1>1. build /\ pc \in {"filling", "shown"}
      /\ (pc = "filling" => page >= pageCount)
      /\ (pc = "shown" => ~Busy("loop"))
  BY DEF Building, Waited, InBackground, Peeking, Busy
<1>2. part # None /\ part.spec = spec
      /\ (Len(lut) = 0 \/ Len(lut) < length[spec])
      /\ (~cached => temp = "whole") /\ (pc = "shown" => page < pageCount)
  BY <1>1 DEF IInv, BuildInv, TempInv, AtHandInv, OpenSteps
<1>3. length[spec] \in 0..MaxPages /\ Len(lut) \in Nat /\ build \in BOOLEAN
      /\ page \in 0..MaxPages /\ pageCount \in 0..MaxPages
  BY ReaderHasTypes DEF SectionOK
<1>4. Busy("render") => pc = "filling" /\ page < pageCount
  BY DEF IInv, FileInv, ReadsInv
<1>5. ~Busy("render")
  BY <1>1, <1>3, <1>4
<1> QED
  BY <1>1, <1>2, <1>3, <1>5

LEMMA PlacePageKeeps ==
  ASSUME IInv, PlacePage
  PROVE  IInv'
<1>1. /\ Building /\ Len(lut) < length[spec]
      /\ pc' = "write" /\ who' = (IF pc = "filling" THEN "render" ELSE "loop")
      /\ offset' = cursor /\ raced' = (raced \/ Busy("loop")) /\ NoFault
      /\ UNCHANGED card /\ UNCHANGED section /\ UNCHANGED reader
      /\ UNCHANGED <<goal, cursor, intact, reads, peeks>>
  BY DEF PlacePage, HasMore, Builder, Peeking, Busy
<1>2. /\ build = TRUE /\ pc \in {"filling", "shown"}
      /\ part # None /\ part.spec = spec
      /\ length[spec] \in 0..MaxPages /\ Len(lut) \in Nat
      /\ ~cached => temp = "whole"
      /\ pc = "shown" => page < pageCount /\ ~Busy("loop")
      /\ ~Busy("render")
  BY <1>1, BuildingFacts
<1>3. /\ bin' = bin /\ part' = part /\ html' = html /\ temp' = temp
      /\ open' = open /\ build' = build /\ lut' = lut /\ built' = built
      /\ pageCount' = pageCount /\ partial' = partial /\ cached' = cached
      /\ partialPages' = partialPages /\ spec' = spec /\ page' = page
      /\ failedStart' = failedStart /\ placed' = placed /\ left' = left
      /\ length' = length
  BY <1>1 DEF card, section, reader, NoFault
<1>4. SectionOK' /\ CardOK'
  BY <1>1, <1>3, SectionStays, CardShrinks, ReaderHasTypes
<1>5. ReaderOK'
  BY <1>1, <1>3, ReaderMoves, ReaderHasTypes DEF Steps, OpenSteps, BuildSteps
<1>6. TempInv'
  BY <1>1, <1>2, <1>3 DEF TempInv
<1>7. BuildInv'
  BY <1>1, <1>2, <1>3 DEF BuildInv, OpenSteps, BuildSteps, CommitSteps
<1>8. PagesInv'
  BY <1>2, <1>3, SamePages DEF IInv, OpenSteps
<1>9. AtHandInv'
  BY <1>1, <1>2, <1>3 DEF AtHandInv, StartSteps
<1>10. FileOK'
  BY <1>1, <1>3, ReaderHasTypes DEF FileInv, FileOK
<1>11. (Busy("render")' <=> Busy("render")) /\ (Busy("loop")' <=> Busy("loop"))
       /\ (Quiet' <=> Quiet)
  BY <1>1 DEF Quiet, Busy
<1>12. ReadsInv'
  <2>1. pc = "filling" \/ ~Busy("loop")
    BY <1>2
  <2>2. who' = "loop" => ~Busy("loop")'
    BY <1>1, <1>2, <1>11
  <2>3. \A t \in Tasks : Busy(t)' =>
           reads'[t].page \in DOMAIN lut' /\ lut'[reads'[t].page] # 0
    BY <1>1, <1>3, ReaderHasTypes DEF FileInv, ReadsInv, Busy
  <2> QED
    BY <1>1, <1>2, <1>3, <1>11, <2>2, <2>3 DEF ReadsInv
<1>13. SoundInv'
  <2> SUFFICES ASSUME ~raced' PROVE Sound'
    BY DEF SoundInv
  <2>1. ~raced /\ ~Busy("loop")
    BY <1>1
  <2>2. Sound
    BY <1>2, <2>1, ReaderHasTypes DEF FileInv, SoundInv
  <2>3. End = cursor /\ End' = cursor /\ offset' = cursor
    BY <1>1, <1>2, <1>11, <2>1 DEF End
  <2> QED
    BY <1>1, <1>3, <1>11, <2>2, <2>3 DEF Sound
<1> QED
  BY <1>4, <1>5, <1>6, <1>7, <1>8, <1>9, <1>10, <1>12, <1>13 DEF IInv, FileInv

\* A page more, with its place or without.
LEMMA LaidOut ==
  ASSUME SectionOK, ReaderOK, NEW written \in BOOLEAN, offset \in Nat,
         lut' = Append(lut, IF written THEN offset ELSE 0),
         built' = (IF written THEN built + 1 ELSE built),
         pageCount' = Larger(pageCount, built'), Len(lut) + 1 <= MaxPages
  PROVE  /\ lut' \in Seq(Nat) /\ Len(lut') = Len(lut) + 1
         /\ built' \in Nat /\ built' <= Len(lut') /\ built' >= built
         /\ AllWritten' => built' = Len(lut')
         /\ pageCount' \in 0..MaxPages /\ pageCount' >= pageCount
         /\ pageCount' = pageCount \/ pageCount' = built'
<1>1. /\ lut \in Seq(Nat) /\ built \in Nat /\ built <= Len(lut)
      /\ AllWritten => built = Len(lut)
      /\ pageCount \in 0..MaxPages
  BY DEF SectionOK
<1> DEFINE slot == IF written THEN offset ELSE 0
<1>2. slot \in Nat /\ (slot # 0 => written) /\ lut' = Append(lut, slot)
  OBVIOUS
<1> HIDE DEF slot
<1>3. /\ lut' \in Seq(Nat) /\ Len(lut') = Len(lut) + 1
      /\ \A i \in DOMAIN lut : i \in DOMAIN lut' /\ lut'[i] = lut[i]
      /\ lut'[Len(lut) + 1] = slot /\ Len(lut) + 1 \in DOMAIN lut'
  BY <1>1, <1>2, Appended
<1>4. Len(lut) \in Nat
  BY <1>1
<1>5. built' \in Nat /\ built' <= Len(lut') /\ built' >= built
  BY <1>1, <1>3, <1>4
<1>6. AllWritten' => built' = Len(lut')
  <2>1. AllWritten' => AllWritten /\ written
    BY <1>2, <1>3 DEF AllWritten
  <2> QED
    BY <1>1, <1>3, <1>4, <2>1
<1>7. /\ pageCount' \in 0..MaxPages /\ pageCount' >= pageCount
      /\ pageCount' = pageCount \/ pageCount' = built'
  BY <1>1, <1>3, <1>4, <1>5, SizesAssumption DEF Larger
<1> QED
  BY <1>3, <1>5, <1>6, <1>7

LEMMA WriteFacts ==
  ASSUME IInv, pc = "write"
  PROVE  /\ build = TRUE /\ part # None /\ part.spec = spec
         /\ length[spec] \in 0..MaxPages /\ Len(lut) \in Nat
         /\ Len(lut) + 1 <= length[spec] /\ Len(lut) + 1 <= MaxPages
         /\ ~cached => temp = "whole"
         /\ who = "loop" => page < pageCount /\ ~Busy("loop")
         /\ ~Busy("render")
<1>1. /\ build /\ part # None /\ part.spec = spec /\ Len(lut) < length[spec]
      /\ ~cached => temp = "whole"
      /\ who = "loop" => page < pageCount
  BY DEF IInv, BuildInv, TempInv, AtHandInv, OpenSteps, BuildSteps
<1>2. /\ length[spec] \in 0..MaxPages /\ Len(lut) \in Nat /\ build \in BOOLEAN
  BY ReaderHasTypes DEF SectionOK
<1>3. ~Busy("render") /\ (who = "loop" => ~Busy("loop"))
  BY DEF IInv, FileInv, ReadsInv, BuildSteps
<1>4. Len(lut) + 1 <= length[spec] /\ Len(lut) + 1 <= MaxPages
  BY <1>1, <1>2, SizesAssumption
<1> QED
  BY <1>1, <1>2, <1>3, <1>4

\* What a page written leaves of those before it.
LEMMA WriteKeepsFile ==
  ASSUME IInv, WritePage
  PROVE  FileInv'
<1>1. /\ pc = "write" /\ cursor' = cursor + 1 /\ offset' = 0 /\ Uses(who)
      /\ pc' \in {"filling", "shown", "finish"}
      /\ UNCHANGED <<build, who, reads, peeks>> /\ UNCHANGED reader
  BY DEF WritePage, Resumed
<1>2. PICK written \in BOOLEAN :
         /\ lut' = Append(lut, IF written THEN offset ELSE 0)
         /\ intact' = {p \in intact : lut[p] # cursor} \cup
                      (IF written /\ offset = cursor THEN {Len(lut) + 1} ELSE {})
  BY DEF WritePage
<1>3. /\ build = TRUE /\ Len(lut) \in Nat /\ ~Busy("render")
      /\ who = "loop" => ~Busy("loop")
  BY <1>1, WriteFacts
<1>4. FileOK /\ ReadsInv /\ SoundInv /\ lut \in Seq(Nat)
      /\ who \in {"render", "loop"}
  BY ReaderHasTypes DEF FileInv, SectionOK
<1> DEFINE slot == IF written THEN offset ELSE 0
<1>5. slot \in Nat /\ (slot # 0 => written /\ slot = offset)
      /\ lut' = Append(lut, slot)
  BY <1>2, <1>4 DEF FileOK
<1> HIDE DEF slot
<1>6. /\ Len(lut') = Len(lut) + 1
      /\ \A i \in DOMAIN lut : i \in DOMAIN lut' /\ lut'[i] = lut[i]
      /\ lut'[Len(lut) + 1] = slot
      /\ DOMAIN lut' = DOMAIN lut \cup {Len(lut) + 1}
  BY <1>4, <1>5, Appended
<1>7. placed' = placed /\ reads' = reads /\ peeks' = peeks /\ who' = who
      /\ build' = build
  BY <1>1 DEF reader
<1>8. FileOK'
  <2>1. intact' \subseteq DOMAIN lut'
    BY <1>2, <1>4, <1>6 DEF FileOK
  <2>2. reads' \in [Tasks -> [at : Places, page : 0..Len(lut'), back : Nat]]
    <3>1. 0..Len(lut) \subseteq 0..Len(lut')
      BY <1>3, <1>6
    <3>2. [at : Places, page : 0..Len(lut), back : Nat]
             \subseteq [at : Places, page : 0..Len(lut'), back : Nat]
      BY <3>1
    <3> QED
      BY <1>4, <1>7, <3>2 DEF FileOK
  <2>3. cursor' \in Nat /\ offset' \in Nat /\ raced' \in BOOLEAN
    BY <1>1, <1>4 DEF FileOK, Uses
  <2> QED
    BY <1>4, <1>7, <2>1, <2>2, <2>3 DEF FileOK
<1>9. (Busy("render")' <=> Busy("render")) /\ (Busy("loop")' <=> Busy("loop"))
  BY <1>7 DEF Busy
<1>10. ReadsInv'
  <2>1. \A t \in Tasks : Busy(t)' =>
            reads'[t].page \in DOMAIN lut' /\ lut'[reads'[t].page] # 0
    BY <1>4, <1>6, <1>7 DEF ReadsInv, Busy
  <2> QED
    BY <1>1, <1>3, <1>7, <1>9, <2>1 DEF ReadsInv
<1>11. SoundInv'
  <2> SUFFICES ASSUME ~raced' PROVE Sound'
    BY DEF SoundInv
  <2>1. ~raced /\ ~Busy("loop")
    BY <1>1, <1>3, <1>4, TwoTasks DEF Uses, Busy
  <2>2. Sound
    BY <1>1, <1>3, <1>4, <2>1 DEF SoundInv
  <2>3. End = cursor /\ End' = cursor + 1 /\ offset = cursor /\ cursor \in Nat
    BY <1>1, <1>3, <1>4, <1>9, <2>1, <2>2 DEF End, Sound, FileOK
  <2>4. \A k \in DOMAIN lut' : lut'[k] # 0 => lut'[k] < End' /\ k \in intact'
    <3> SUFFICES ASSUME NEW k \in DOMAIN lut', lut'[k] # 0
                 PROVE  lut'[k] < End' /\ k \in intact'
      OBVIOUS
    <3>1. CASE k \in DOMAIN lut
      <4>1. lut'[k] = lut[k] /\ lut[k] \in Nat
        BY <1>4, <1>6, <3>1
      <4>2. lut[k] < cursor /\ k \in intact
        BY <2>2, <2>3, <3>1, <4>1 DEF Sound
      <4>3. lut[k] # cursor /\ lut[k] < cursor + 1
        BY <2>3, <4>1, <4>2
      <4> QED
        BY <1>2, <2>3, <4>1, <4>2, <4>3
    <3>2. CASE k = Len(lut) + 1
      <4>1. written /\ lut'[k] = cursor
        BY <1>5, <1>6, <2>3, <3>2
      <4>2. k \in intact'
        BY <1>2, <2>3, <3>2, <4>1
      <4> QED
        BY <2>3, <4>1, <4>2
    <3> QED
      BY <1>6, <3>1, <3>2
  <2>5. \A t \in Tasks : reads'[t].at = "idle"
    BY <1>3, <1>9, <2>1, TwoTasks DEF Busy
  <2>6. End' > 0
    BY <2>3
  <2> QED
    BY <1>1, <1>3, <1>9, <2>4, <2>5, <2>6 DEF Sound
<1> QED
  BY <1>8, <1>10, <1>11 DEF FileInv

LEMMA WritePageKeeps ==
  ASSUME IInv, WritePage
  PROVE  IInv'
<1>1. /\ pc = "write"
      /\ pc' = (IF Len(lut') < length[spec]
                THEN IF who = "render" THEN "filling" ELSE "shown" ELSE "finish")
      /\ pageCount' = Larger(pageCount, built')
      /\ UNCHANGED card /\ UNCHANGED reader
      /\ UNCHANGED <<open, build, partial, partialPages, cached, who, goal>>
  BY DEF WritePage, Resumed
<1>2. PICK written \in BOOLEAN :
         /\ lut' = Append(lut, IF written THEN offset ELSE 0)
         /\ built' = (IF written THEN built + 1 ELSE built)
         /\ NoFault \/ Fault
  BY DEF WritePage
<1>3. /\ build = TRUE /\ part # None /\ part.spec = spec
      /\ length[spec] \in 0..MaxPages /\ Len(lut) \in Nat
      /\ Len(lut) + 1 <= length[spec] /\ Len(lut) + 1 <= MaxPages
      /\ ~cached => temp = "whole"
      /\ who = "loop" => page < pageCount
  BY <1>1, WriteFacts
<1>4. offset \in Nat /\ who \in {"render", "loop"}
  BY ReaderHasTypes DEF FileInv, FileOK
<1>5. /\ lut' \in Seq(Nat) /\ Len(lut') = Len(lut) + 1
      /\ built' \in Nat /\ built' <= Len(lut') /\ built' >= built
      /\ AllWritten' => built' = Len(lut')
      /\ pageCount' \in 0..MaxPages /\ pageCount' >= pageCount
      /\ pageCount' = pageCount \/ pageCount' = built'
  BY <1>1, <1>2, <1>3, <1>4, LaidOut, ReaderHasTypes
<1>6. /\ bin' = bin /\ part' = part /\ html' = html /\ temp' = temp
      /\ spec' = spec /\ page' = page /\ length' = length
      /\ failedStart' = failedStart /\ left' = left
  BY <1>1, <1>2, FaultCounted, ReaderHasTypes DEF card, reader
<1>7. SectionOK'
  BY <1>1, <1>5, ReaderHasTypes DEF SectionOK
<1>8. ReaderOK'
  BY <1>1, <1>2, <1>6, ReaderMoves, ReaderHasTypes DEF Steps, OpenSteps, BuildSteps
<1>9. CardOK'
  BY <1>6, CardShrinks, ReaderHasTypes
<1>10. TempInv'
  BY <1>1, <1>3, <1>6 DEF TempInv
<1>11. BuildInv'
  <2>1. Len(lut') <= length[spec] /\ Len(lut') \in Nat
    BY <1>3, <1>5
  <2>2. pc' \in {"filling", "shown", "finish"}
    BY <1>1
  <2>3. pc' \in {"filling", "shown"} => Len(lut') < length[spec]
    BY <1>1
  <2>4. pc' = "finish" => Len(lut') = length[spec]
    BY <1>1, <1>3, <2>1
  <2> QED
    BY <1>1, <1>3, <1>6, <2>1, <2>2, <2>3, <2>4
    DEF BuildInv, OpenSteps, BuildSteps, CommitSteps
<1>12. PagesInv'
  <2>1. /\ partial => bin # None /\ bin.spec = spec /\ partialPages <= bin.pages
        /\ pageCount <= built \/ (partial /\ pageCount <= partialPages)
        /\ built \in Nat /\ pageCount \in 0..MaxPages
    BY <1>1, <1>3, ReaderHasTypes DEF IInv, PagesInv, SectionOK, OpenSteps, BuildSteps
  <2>2. pageCount' <= built' \/ (partial /\ pageCount' <= partialPages)
    BY <1>5, <2>1
  <2>3. partial' = partial /\ build' = TRUE /\ partialPages' = partialPages
    BY <1>1, <1>3
  <2> QED
    BY <1>6, <2>1, <2>2, <2>3 DEF PagesInv
<1>13. AtHandInv'
  <2>1. pc' = "shown" => page < pageCount
    BY <1>1, <1>3, <1>4
  <2>2. page \in 0..MaxPages /\ pageCount \in 0..MaxPages
    BY ReaderHasTypes DEF SectionOK
  <2> QED
    BY <1>1, <1>5, <1>6, <2>1, <2>2 DEF AtHandInv, StartSteps
<1> QED
  BY <1>7, <1>8, <1>9, <1>10, <1>11, <1>12, <1>13, WriteKeepsFile DEF IInv

\* When the parse ends every page is laid out.
LEMMA ParsedFacts ==
  ASSUME IInv, FinishParse
  PROVE  /\ build = TRUE /\ part # None /\ part.spec = spec
         /\ length[spec] \in 0..MaxPages /\ Len(lut) = length[spec]
         /\ ~cached => temp = "whole"
         /\ pc \in {"filling", "shown", "finish"} /\ ~Busy("render")
         /\ who' \in {"render", "loop"} /\ (who' = "loop" => ~Busy("loop"))
<1>1. CASE pc = "finish"
  <2>1. /\ build /\ build \in BOOLEAN /\ part # None /\ part.spec = spec
        /\ Len(lut) = length[spec] /\ (~cached => temp = "whole")
    BY <1>1, ReaderHasTypes
    DEF IInv, BuildInv, TempInv, OpenSteps, BuildSteps, SectionOK
  <2>2. who' = who /\ who \in {"render", "loop"} /\ length[spec] \in 0..MaxPages
    BY <1>1, ReaderHasTypes DEF FinishParse
  <2>3. ~Busy("render") /\ (who = "loop" => ~Busy("loop"))
    BY <1>1 DEF IInv, FileInv, ReadsInv, BuildSteps
  <2> QED
    BY <1>1, <2>1, <2>2, <2>3
<1>2. CASE pc # "finish" /\ Building /\ ~HasMore
  <2>1. /\ build = TRUE /\ pc \in {"filling", "shown"}
        /\ part # None /\ part.spec = spec
        /\ length[spec] \in 0..MaxPages /\ Len(lut) \in Nat
        /\ (Len(lut) = 0 \/ Len(lut) < length[spec])
        /\ ~cached => temp = "whole"
        /\ pc = "shown" => ~Busy("loop")
        /\ ~Busy("render")
    BY <1>2, BuildingFacts
  <2>2. Len(lut) = length[spec]
    BY <1>2, <2>1, SizesAssumption DEF HasMore
  <2>3. who' = (IF pc = "filling" THEN "render" ELSE "loop")
    BY <1>2 DEF FinishParse, Builder
  <2> QED
    BY <2>1, <2>2, <2>3
<1> QED
  BY <1>1, <1>2 DEF FinishParse

LEMMA FinishParseKeeps ==
  ASSUME IInv, FinishParse
  PROVE  IInv'
<1>1. /\ goal' = "final" /\ pc' = "commit" /\ (NoFault \/ Fault)
      /\ html' \in {html, IF cached THEN html ELSE temp} /\ temp' \in {temp, None}
      /\ UNCHANGED <<bin, part>> /\ UNCHANGED section /\ UNCHANGED reader
      /\ UNCHANGED file
  BY DEF FinishParse
<1>2. /\ build = TRUE /\ part # None /\ part.spec = spec
      /\ length[spec] \in 0..MaxPages /\ Len(lut) = length[spec]
      /\ ~cached => temp = "whole"
      /\ pc \in {"filling", "shown", "finish"} /\ ~Busy("render")
      /\ who' \in {"render", "loop"} /\ (who' = "loop" => ~Busy("loop"))
  BY ParsedFacts
<1>3. /\ lut' = lut /\ built' = built /\ build' = build /\ part' = part
      /\ spec' = spec /\ length' = length /\ placed' = placed
  BY <1>1, FaultCounted, ReaderHasTypes DEF section, reader
<1>4. SectionOK'
  BY <1>1, SectionStays, ReaderHasTypes
<1>5. ReaderOK'
  BY <1>1, <1>2, ReaderMoves, ReaderHasTypes DEF reader, Steps, CommitSteps
<1>6. CardOK'
  <2>1. html' \in {html, "whole"}
    BY <1>1, <1>2
  <2> QED
    BY <1>1, <1>3, <2>1, NoneAssumption, ReaderHasTypes
    DEF CardOK, Files, Sheets, CommittedIsWhole, HtmlIsWhole
<1>7. BuildInv'
  BY <1>1, <1>2, <1>3 DEF BuildInv, OpenSteps, BuildSteps, CommitSteps
<1>8. FileInv'
  BY <1>1, <1>2, <1>3, FileStands, ReaderHasTypes DEF FileInv, FileOK
<1> QED
  BY <1>1, <1>4, <1>5, <1>6, <1>7, <1>8
  DEF IInv, TempInv, PagesInv, AtHandInv, StartSteps, OpenSteps, BuildSteps

LEMMA ParseFailsKeeps ==
  ASSUME IInv, ParseFails
  PROVE  IInv'
<1>1. /\ Fault /\ bin' = None /\ part' = None /\ temp' = None /\ html' = html
      /\ pc' = "closed" /\ NoSection /\ UNCHANGED <<page, spec, left, who, goal>>
  BY DEF ParseFails, Abandon
<1>2. CardOK'
  BY <1>1, CardShrinks, ReaderHasTypes DEF Fault
<1>3. ReaderOK'
  BY <1>1, ReaderMoves, ReaderHasTypes DEF NoSection, Steps
<1> QED
  BY <1>1, <1>2, <1>3, ClosedKeeps

-----------------------------------------------------------------------------
(* commitBuildFile(). *)

LEMMA CommitFailsKeeps ==
  ASSUME IInv, CommitFails, bin' = bin, Fault \/ NoFault
  PROVE  IInv'
<1>1. /\ pc' = "closed" /\ NoSection /\ part' = None /\ temp' \in {temp, None}
      /\ UNCHANGED <<html, page, spec, left, who, goal>>
  BY DEF CommitFails
<1>2. CardOK'
  BY <1>1, CardShrinks, FaultCounted, ReaderHasTypes
<1>3. ReaderOK'
  BY <1>1, ReaderMoves, ReaderHasTypes DEF NoSection, Steps
<1> QED
  BY <1>1, <1>2, <1>3, ClosedKeeps

\* What is about to be committed.
LEMMA CommitFacts ==
  ASSUME IInv, pc \in CommitSteps
  PROVE  /\ build = TRUE /\ part \in FileType /\ part # None
         /\ Len(lut) \in Nat /\ Len(lut) <= length[part.spec]
         /\ part.spec \in Specs /\ length[part.spec] \in 0..MaxPages
         /\ built \in 0..MaxPages /\ built <= Len(lut)
         /\ goal \in {"final", "partial"}
         /\ goal = "final" => part.spec = spec /\ Len(lut) = length[part.spec]
         /\ goal = "partial" => built > 0
<1>1. /\ build /\ build \in BOOLEAN /\ part # None /\ part \in Files
      /\ Len(lut) <= length[part.spec]
      /\ goal = "final" => part.spec = spec /\ Len(lut) = length[part.spec]
      /\ goal = "partial" => built > 0
  BY DEF IInv, BuildInv, SectionOK, CardOK
<1>2. part \in FileType /\ part.spec \in Specs
  BY <1>1, FileHasFields DEF Files
<1>3. /\ length[part.spec] \in 0..MaxPages /\ Len(lut) \in Nat
      /\ built \in Nat /\ built <= Len(lut) /\ goal \in {"final", "partial"}
  BY <1>2, ReaderHasTypes DEF SectionOK
<1>4. built \in 0..MaxPages
  BY <1>1, <1>3, SizesAssumption
<1> QED
  BY <1>1, <1>2, <1>3, <1>4

\* Unless a read met the build, every page is where the tables say.
LEMMA StampedText ==
  ASSUME IInv, pc = "commit", AllWritten, ~raced, ~Peeking
  PROVE  Whole
<1>1. build /\ ~Busy("loop")
  BY DEF Peeking, Busy, IInv, BuildInv, CommitSteps
<1>2. Sound /\ ~Busy("render")
  BY <1>1 DEF IInv, FileInv, SoundInv, ReadsInv
<1>3. End = cursor
  BY <1>1, <1>2 DEF End
<1> QED
  BY <1>2, <1>3 DEF Sound, Whole, AllWritten

LEMMA StampKeeps ==
  ASSUME IInv, Stamp
  PROVE  IInv'
<1>1. /\ pc = "commit" /\ pc' = "swap" /\ AllWritten /\ NoFault /\ Closes
      /\ UNCHANGED <<bin, html, temp, who, goal>> /\ UNCHANGED section
      /\ UNCHANGED reader
  BY DEF Stamp, Goes
<1>2. PICK sound \in {Whole, Whole /\ ~Peeking} :
         part' = WithHeader(part, goal, built,
                            IF sound THEN "whole"
                            ELSE IF raced \/ Peeking THEN "raced" ELSE "torn")
  BY DEF Stamp, WithHeader
<1>3. Whole \/ raced \/ Peeking
  BY <1>1, StampedText
<1>4. PICK x \in {"whole", "raced"} : part' = WithHeader(part, goal, built, x)
  BY <1>2, <1>3
<1>5. /\ build = TRUE /\ part \in FileType
      /\ Len(lut) <= length[part.spec] /\ built \in 0..MaxPages
      /\ goal \in {"final", "partial"}
      /\ goal = "final" => part.spec = spec /\ Len(lut) = length[part.spec]
      /\ goal = "partial" => built > 0
  BY <1>1, CommitFacts DEF CommitSteps
<1>6. /\ part' \in FileType /\ part' # None /\ part'.version = goal
      /\ part'.spec = part.spec /\ part'.pages = built /\ part'.text # "torn"
  <2>1. /\ goal \in {"partial", "final"} /\ built \in 0..MaxPages
        /\ x \in {"whole", "torn", "raced"} /\ part \in FileType
    BY <1>4, <1>5
  <2>2. part' = WithHeader(part, goal, built, x)
    BY <1>4
  <2>3. /\ part' \in FileType /\ part' # None /\ part'.version = goal
        /\ part'.spec = part.spec /\ part'.pages = built /\ part'.text = x
    BY <2>1, <2>2, NoneAssumption DEF WithHeader, FileType
  <2>4. x # "torn"
    BY <1>4
  <2> QED
    BY <2>3, <2>4
<1>7. SectionOK'
  BY <1>1, SectionStays, ReaderHasTypes
<1>8. ReaderOK'
  BY <1>1, ReaderMoves, ReaderHasTypes DEF reader, Steps, CommitSteps
<1>9. CardOK'
  BY <1>1, <1>6, ReaderHasTypes
  DEF CardOK, Files, Sheets, CommittedIsWhole, HtmlIsWhole, NoFault
<1>10. /\ lut' = lut /\ built' = built /\ build' = TRUE /\ length' = length
       /\ goal' = goal /\ spec' = spec /\ placed' = placed
  BY <1>1, <1>5 DEF section, reader, NoFault
<1>11. AllWritten'
  BY <1>1, <1>10 DEF AllWritten
<1>12. BuildInv'
  BY <1>1, <1>5, <1>6, <1>10, <1>11 DEF BuildInv, OpenSteps, BuildSteps, CommitSteps
<1>13. FileInv'
  BY <1>1, <1>10, ClosesKeepsFile, ReaderHasTypes DEF FileInv, FileOK
<1> QED
  BY <1>1, <1>7, <1>8, <1>9, <1>12, <1>13
  DEF IInv, TempInv, PagesInv, AtHandInv, StartSteps, OpenSteps, BuildSteps

LEMMA SwapKeeps ==
  ASSUME IInv, Swap
  PROVE  IInv'
<1>1. /\ pc = "swap" /\ pc' = "rename" /\ (NoFault \/ Fault)
      /\ bin' \in {bin, None} /\ UNCHANGED <<part, html, temp, who, goal>>
      /\ UNCHANGED section /\ UNCHANGED reader /\ UNCHANGED file
  BY DEF Swap, Goes, RemoveOld
<1>2. SectionOK'
  BY <1>1, SectionStays, ReaderHasTypes
<1>3. ReaderOK'
  BY <1>1, ReaderMoves, ReaderHasTypes DEF reader, Steps, CommitSteps
<1>4. CardOK' /\ length' = length
  BY <1>1, CardShrinks, FaultCounted, ReaderHasTypes
<1>5. /\ lut' = lut /\ built' = built /\ build' = build /\ part' = part
      /\ goal' = goal /\ spec' = spec
  BY <1>1 DEF section, reader
<1>6. AllWritten' <=> AllWritten
  BY <1>5 DEF AllWritten
<1>7. BuildInv'
  BY <1>1, <1>4, <1>5, <1>6 DEF IInv, BuildInv, OpenSteps, BuildSteps, CommitSteps
<1>8. FileInv'
  <2>1. /\ reads' = reads /\ intact' = intact /\ cursor' = cursor
        /\ offset' = offset /\ raced' = raced /\ peeks' = peeks
        /\ placed' = placed /\ page' = page /\ pageCount' = pageCount
    BY <1>1 DEF file, reader, section
  <2>2. Quiet /\ intact = {} /\ FileOK /\ build
    BY <1>1, ReaderHasTypes DEF FileInv, ReadsInv, IInv, BuildInv, CommitSteps
  <2>3. FileOK'
    BY <1>5, <2>1, <2>2 DEF FileOK
  <2>4. Quiet'
    BY <2>1, <2>2 DEF Quiet, Busy
  <2>5. ReadsInv'
    BY <1>1, <1>5, <2>1, <2>2, <2>4, TwoTasks DEF ReadsInv, Quiet, Busy, Idle
  <2> QED
    BY <1>1, <2>3, <2>5 DEF FileInv, SoundInv
<1> QED
  BY <1>1, <1>2, <1>3, <1>4, <1>7, <1>8
  DEF IInv, TempInv, PagesInv, AtHandInv, StartSteps, OpenSteps, BuildSteps

LEMMA RenameKeeps ==
  ASSUME IInv, Rename
  PROVE  IInv'
<1>1. /\ pc = "rename" /\ bin' = part /\ part' = None /\ NoFault
      /\ UNCHANGED <<html, who, goal>>
  BY DEF Rename
<1>2. /\ build = TRUE /\ part \in FileType /\ part # None
      /\ Len(lut) <= length[part.spec]
      /\ part.spec \in Specs /\ length[part.spec] \in 0..MaxPages
      /\ built \in 0..MaxPages /\ built <= Len(lut)
      /\ goal \in {"final", "partial"}
      /\ goal = "final" => part.spec = spec /\ Len(lut) = length[part.spec]
      /\ goal = "partial" => built > 0
  BY <1>1, CommitFacts DEF CommitSteps
<1>3. part.version = goal /\ part.pages = built /\ built = Len(lut)
      /\ part.text # "torn"
  BY <1>1 DEF IInv, BuildInv, SectionOK
<1>4. CommittedIsWhole'
  BY <1>1, <1>2, <1>3, SizesAssumption DEF CommittedIsWhole, NoFault
<1>5. temp' \in {temp, None}
  BY DEF Rename, Finalized, Suspended
<1>6. CardOK'
  BY <1>1, <1>2, <1>4, <1>5, ReaderHasTypes DEF CardOK, Files, Sheets, HtmlIsWhole
<1>7. CASE Suspended
  <2>1. pc' = "closed" /\ NoSection /\ UNCHANGED <<page, spec, left>>
    BY <1>7 DEF Suspended
  <2>2. ReaderOK'
    BY <1>1, <2>1, ReaderMoves, ReaderHasTypes DEF NoSection, Steps
  <2> QED
    BY <1>6, <2>1, <2>2, ClosedKeeps
<1>8. CASE goal = "final" /\ Finalized
  <2>1. /\ pc' \in {"filling", "shown"} /\ build' = FALSE /\ lut' = <<>> /\ built' = 0
        /\ pageCount' = built /\ partial' = FALSE /\ partialPages' = 0
        /\ cached' = FALSE /\ open' = open /\ UNCHANGED reader /\ UNCHANGED file
    BY <1>8 DEF Finalized, Resumed
  <2>2. lut' \in Seq(Nat) /\ Len(lut') = 0
    BY <2>1
  <2>3. built' \in Nat /\ built' <= Len(lut') /\ built' = Len(lut')
    BY <2>1, <2>2
  <2>4. pageCount' \in 0..MaxPages /\ partialPages' \in 0..MaxPages /\ open' \in BOOLEAN
    BY <1>2, <2>1, SizesAssumption, ReaderHasTypes DEF SectionOK
  <2>5. SectionOK'
    BY <2>1, <2>2, <2>3, <2>4, Zenon DEF SectionOK
  <2>6. ReaderOK'
    BY <1>1, <2>1, ReaderMoves, ReaderHasTypes DEF reader, Steps, OpenSteps
  <2>7. PagesInv'
    BY <1>1, <1>2, <1>3, <1>8, <2>1 DEF PagesInv, reader
  <2>8. FileInv'
    <3>1. /\ reads' = reads /\ intact' = intact /\ cursor' = cursor
          /\ offset' = offset /\ raced' = raced /\ peeks' = peeks
          /\ placed' = placed
      BY <2>1 DEF file, reader
    <3>2. Quiet /\ intact = {} /\ FileOK
      BY <1>1, ReaderHasTypes DEF FileInv, ReadsInv
    <3>3. reads' \in [Tasks -> [at : Places, page : 0..Len(lut'), back : Nat]]
      <4>1. \A t \in Tasks : reads[t].page = 0
        BY <3>2 DEF Quiet, Idle
      <4> QED
        BY <2>2, <3>1, <3>2, <4>1 DEF FileOK
    <3>4. FileOK'
      BY <3>1, <3>2, <3>3 DEF FileOK
    <3>5. Quiet'
      BY <3>1, <3>2 DEF Quiet, Busy
    <3>6. ReadsInv'
      BY <2>1, <3>5, TwoTasks DEF ReadsInv, Quiet, Busy, Idle, BuildSteps
    <3> QED
      BY <2>1, <3>4, <3>6 DEF FileInv, SoundInv
  <2> QED
    BY <1>6, <2>1, <2>5, <2>6, <2>7, <2>8
    DEF IInv, TempInv, BuildInv, AtHandInv, StartSteps, BuildSteps, CommitSteps
<1> QED
  BY <1>7, <1>8 DEF Rename

LEMMA CommitsKeep ==
  ASSUME IInv, Commits
  PROVE  IInv'
<1>1. CASE CommitRefused
  BY <1>1, CommitFailsKeeps DEF CommitRefused
<1>2. CASE RenameFails
  BY <1>2, CommitFailsKeeps DEF RenameFails
<1> QED
  BY <1>1, <1>2, StampKeeps, SwapKeeps, RenameKeeps DEF Commits

-----------------------------------------------------------------------------
(* Reading a page of the build, from either task. *)

\* One call of a read: only the handle and that read change.  EndOf is where
\* the handle is, or will be put back by the task.
EndOf(t) == IF Busy(t) THEN reads[t].back ELSE cursor

LEMMA ReadKeepsFile ==
  ASSUME IInv, NEW t \in Tasks,
         NEW r \in [at : Places, page : 0..Len(lut), back : Nat],
         reads' = [reads EXCEPT ![t] = r], Uses(t), build,
         UNCHANGED <<offset, intact, build, lut, who>>,
         cursor' \in Nat, peeks' \in 0..MaxPeeks, placed' \in BOOLEAN,
         r.at # "idle" => r.page \in DOMAIN lut /\ lut[r.page] # 0,
         (IF r.at # "idle" THEN r.back ELSE cursor') = EndOf(t),
         r.at = "read" => cursor' = lut[r.page],
         Sound => r.at # "bad",
         pc \notin {"swap", "rename"},
         pc' = pc \/ (t = "render" /\ pc = "filling" /\ pc' = "shown"),
         t = "render" /\ r.at # "idle" => pc' = "filling",
         Busy("render") \/ t = "render" => page < pageCount,
         pc' = "filling" => UNCHANGED <<page, pageCount>>,
         t = "loop" /\ r.at # "idle" => pc \in {"filling", "shown"} \/ who = "render"
  PROVE  FileInv'
<1>1. FileOK /\ ReadsInv /\ SoundInv
  BY DEF IInv, FileInv
<1>2. Other(t) \in Tasks /\ Other(t) # t /\ \A u \in Tasks : u = t \/ u = Other(t)
  BY DEF Tasks, Other
<1>3. /\ reads'[t] = r /\ reads'[Other(t)] = reads[Other(t)]
      /\ reads' \in [Tasks -> [at : Places, page : 0..Len(lut), back : Nat]]
  BY <1>1, <1>2 DEF FileOK
<1>4. (Busy(t)' <=> r.at # "idle") /\ (Busy(Other(t))' <=> Busy(Other(t)))
  BY <1>3 DEF Busy
<1>5. FileOK'
  BY <1>1, <1>3 DEF FileOK, Uses
<1>6. ReadsInv'
  <2>1. \A u \in Tasks : Busy(u)' =>
            reads'[u].page \in DOMAIN lut' /\ lut'[reads'[u].page] # 0
    BY <1>1, <1>2, <1>3 DEF ReadsInv, Busy
  <2>2. Busy("render")' => pc' = "filling" /\ page' < pageCount'
    <3>1. CASE t = "render"
      BY <1>4, <3>1
    <3>2. CASE t = "loop"
      <4>1. Busy("render")' <=> Busy("render")
        BY <1>4, <3>2, TwoTasks
      <4>2. Busy("render") => pc = "filling"
        BY <1>1 DEF ReadsInv
      <4> QED
        BY <3>2, <4>1, <4>2
    <3> QED
      BY <3>1, <3>2, TwoTasks
  <2>3. pc' \in BuildSteps \cup {"commit"} /\ who' = "loop" => ~Busy("loop")'
    <3>1. CASE t = "loop"
      BY <1>4, <3>1 DEF BuildSteps
    <3>2. CASE t = "render"
      BY <1>1, <1>4, <3>2, TwoTasks DEF ReadsInv, BuildSteps
    <3> QED
      BY <3>1, <3>2, TwoTasks
  <2> QED
    BY <2>1, <2>2, <2>3 DEF ReadsInv
<1>7. SoundInv'
  <2> SUFFICES ASSUME ~raced' PROVE Sound'
    BY DEF SoundInv
  <2>1. ~raced /\ ~Busy(Other(t)) /\ ~Busy(Other(t))'
    BY <1>1, <1>4 DEF Uses, Busy, FileOK
  <2>2. Sound
    BY <1>1, <2>1 DEF SoundInv
  <2>3. End = EndOf(t)
    BY <2>1, TwoTasks DEF End, EndOf
  <2>4. End' = (IF r.at # "idle" THEN r.back ELSE cursor')
    <3>1. CASE t = "render"
      BY <1>3, <1>4, <2>1, <3>1, TwoTasks DEF End
    <3>2. CASE t = "loop"
      BY <1>3, <1>4, <2>1, <3>2, TwoTasks DEF End
    <3> QED
      BY <3>1, <3>2, TwoTasks
  <2>5. End' = End
    BY <2>3, <2>4
  <2>6. ~(Busy("render")' /\ Busy("loop")')
    BY <2>1, TwoTasks
  <2>7. \A u \in Tasks : /\ reads'[u].at = "read" => cursor' = lut'[reads'[u].page]
                         /\ reads'[u].at # "bad"
    <3> SUFFICES ASSUME NEW u \in Tasks
                 PROVE  /\ reads'[u].at = "read" => cursor' = lut'[reads'[u].page]
                        /\ reads'[u].at # "bad"
      OBVIOUS
    <3>1. CASE u = t
      BY <1>3, <2>2, <3>1
    <3>2. CASE u = Other(t)
      BY <2>1, <3>2 DEF Busy
    <3> QED
      BY <1>2, <3>1, <3>2
  <2> QED
    BY <2>2, <2>5, <2>6, <2>7 DEF Sound
<1> QED
  BY <1>5, <1>6, <1>7 DEF FileInv

\* A step that moves nothing but the handle.
LEMMA HandleMoves ==
  ASSUME IInv, FileInv', NoFault, UNCHANGED card, UNCHANGED section,
         UNCHANGED <<failedStart, page, spec, left>>, UNCHANGED control
  PROVE  IInv'
BY DEF card, section, control, NoFault, IInv, CardOK, CommittedIsWhole, HtmlIsWhole,
   SectionOK, AllWritten, ReaderOK, TempInv, BuildInv, StartCount, PagesInv, AtHandInv

\* A read under way is of a page of the build.
LEMMA BusyFacts ==
  ASSUME IInv, NEW t \in Tasks, Busy(t)
  PROVE  /\ build /\ pc \notin {"swap", "rename"}
         /\ reads[t].page \in DOMAIN lut /\ lut[reads[t].page] # 0
         /\ reads[t] \in [at : Places, page : 0..Len(lut), back : Nat]
         /\ reads \in [Tasks -> [at : Places, page : 0..Len(lut), back : Nat]]
         /\ lut \in Seq(Nat) /\ cursor \in Nat
         /\ peeks \in 0..MaxPeeks /\ placed \in BOOLEAN
         /\ t = "render" => pc = "filling"
         /\ Busy("render") => page < pageCount
         /\ t = "loop" /\ pc \notin {"filling", "shown"} => who = "render"
<1>1. FileOK /\ ReadsInv /\ build \in BOOLEAN /\ lut \in Seq(Nat) /\ pc \in Steps
      /\ who \in {"render", "loop"}
  BY ReaderHasTypes DEF FileInv, SectionOK
<1>2. ~Quiet
  BY DEF Quiet, Busy, Idle
<1>3. build /\ pc \notin {"swap", "rename"}
  BY <1>1, <1>2 DEF ReadsInv
<1>4. pc \in {"filling", "shown"} \cup BuildSteps \cup {"commit"}
  BY <1>1, <1>3
  DEF IInv, BuildInv, Steps, StartSteps, OpenSteps, BuildSteps, CommitSteps
<1>5. t = "loop" /\ pc \notin {"filling", "shown"} => who = "render"
  BY <1>1, <1>4 DEF ReadsInv
<1> QED
  BY <1>1, <1>3, <1>5 DEF FileOK, ReadsInv

LEMMA SeekPageKeeps ==
  ASSUME IInv, NEW t \in Tasks, SeekPage(t)
  PROVE  IInv'
<1> DEFINE r == [reads[t] EXCEPT !.at = "read"]
<1>1. /\ reads[t].at = "seek" /\ cursor' = lut[reads[t].page] /\ Uses(t) /\ NoFault
      /\ reads' = [reads EXCEPT ![t] = r] /\ UNCHANGED card /\ UNCHANGED section
      /\ UNCHANGED reader /\ UNCHANGED control /\ UNCHANGED <<offset, intact, peeks>>
  BY DEF SeekPage
<1>2. Busy(t)
  BY <1>1 DEF Busy
<1>3. /\ r \in [at : Places, page : 0..Len(lut), back : Nat]
      /\ r.at = "read" /\ r.page = reads[t].page /\ r.back = reads[t].back
  BY <1>2, BusyFacts DEF Places
<1>4. cursor' \in Nat
  BY <1>1, <1>2, BusyFacts
<1> HIDE DEF r
<1>5. FileInv'
  BY <1>1, <1>2, <1>3, <1>4, BusyFacts, ReadKeepsFile, TwoTasks
  DEF EndOf, section, reader, control, BuildSteps
<1> QED
  BY <1>1, <1>5, HandleMoves DEF reader

LEMMA ReadPageKeeps ==
  ASSUME IInv, NEW t \in Tasks, ReadPage(t)
  PROVE  IInv'
<1> DEFINE found == IF cursor = lut[reads[t].page] /\ reads[t].page \in intact
                    THEN "good" ELSE "bad"
           r == [reads[t] EXCEPT !.at = found]
<1>1. /\ reads[t].at = "read" /\ cursor' = cursor + 1 /\ Uses(t) /\ NoFault
      /\ reads' = [reads EXCEPT ![t] = r] /\ UNCHANGED card /\ UNCHANGED section
      /\ UNCHANGED reader /\ UNCHANGED control /\ UNCHANGED <<offset, intact, peeks>>
  BY DEF ReadPage
<1>2. Busy(t)
  BY <1>1 DEF Busy
<1>3. found \in {"good", "bad"}
  OBVIOUS
<1>4. Sound => found = "good"
  BY <1>1, <1>2, BusyFacts DEF Sound
<1> HIDE DEF found
<1>5. /\ r \in [at : Places, page : 0..Len(lut), back : Nat]
      /\ r.at = found /\ r.page = reads[t].page /\ r.back = reads[t].back
  BY <1>2, <1>3, BusyFacts DEF Places
<1> HIDE DEF r
<1>6. r.at \in {"good", "bad"} /\ (Sound => r.at # "bad")
  BY <1>3, <1>4, <1>5
<1>7. cursor' \in Nat /\ (cursor' = cursor + 1)
  BY <1>1, <1>2, BusyFacts
<1>8. r.back = EndOf(t)
  BY <1>2, <1>5 DEF EndOf
<1>9. FileInv'
  BY <1>1, <1>2, <1>5, <1>6, <1>7, <1>8, BusyFacts, ReadKeepsFile, TwoTasks
  DEF section, reader, control, BuildSteps
<1> QED
  BY <1>1, <1>9, HandleMoves DEF reader

\* The handle is put back; the render task has its page then.
LEMMA SeekBackKeepsFile ==
  ASSUME IInv, NEW t \in Tasks, SeekBack(t), UNCHANGED section, who' = who,
         placed' \in BOOLEAN,
         \/ t = "loop" /\ pc' = pc /\ page' = page
         \/ t = "render" /\ pc' = "shown"
  PROVE  FileInv'
<1>1. /\ reads[t].at \in {"good", "bad"} /\ cursor' = reads[t].back
      /\ reads' = [reads EXCEPT ![t] = Idle] /\ Uses(t)
      /\ UNCHANGED <<offset, intact, peeks>>
  BY DEF SeekBack, Before
<1>2. Busy(t)
  BY <1>1 DEF Busy
<1>3. Len(lut) \in Nat /\ cursor' \in Nat
  BY <1>1, <1>2, BusyFacts
<1>4. Idle \in [at : Places, page : 0..Len(lut), back : Nat] /\ Idle.at = "idle"
  BY <1>3, IdleRead
<1> QED
  BY <1>1, <1>2, <1>3, <1>4, BusyFacts, ReadKeepsFile, TwoTasks DEF EndOf, section

LEMMA PeekKeeps ==
  ASSUME IInv, Peek
  PROVE  IInv'
<1> DEFINE r == [at |-> "seek", page |-> CurrentPage + 1, back |-> cursor]
<1>1. /\ pc = "filling" \/ (pc \in {"write", "finish", "commit"} /\ who = "render")
      /\ build /\ reads["loop"].at = "idle" /\ CurrentPage + 1 \in DOMAIN lut
      /\ lut[CurrentPage + 1] # 0 /\ reads' = [reads EXCEPT !["loop"] = r]
      /\ Uses("loop") /\ UNCHANGED <<cursor, offset, intact>>
      /\ peeks > 0 /\ peeks' = peeks - 1 /\ NoFault
      /\ UNCHANGED card /\ UNCHANGED section /\ UNCHANGED reader
      /\ UNCHANGED control
  BY DEF Peek, BeginRead
<1>2. FileOK /\ ReadsInv /\ lut \in Seq(Nat)
  BY ReaderHasTypes DEF FileInv, SectionOK
<1>3. /\ r \in [at : Places, page : 0..Len(lut), back : Nat]
      /\ r.at = "seek" /\ r.page = CurrentPage + 1 /\ r.back = cursor
  BY <1>1, <1>2 DEF Places, FileOK
<1> HIDE DEF r
<1>4. ~Busy("loop") /\ peeks' \in 0..MaxPeeks /\ placed' \in BOOLEAN
  BY <1>1, <1>2, SizesAssumption DEF Busy, FileOK, reader
<1>5. Busy("render") => page < pageCount
  BY <1>2 DEF ReadsInv
<1>6. r.back = EndOf("loop") /\ cursor' \in Nat
  BY <1>1, <1>2, <1>3, <1>4 DEF EndOf, FileOK
<1>7. pc \notin {"swap", "rename"} /\ pc' = pc /\ who' = who /\ page' = page
      /\ build' = build /\ lut' = lut /\ pageCount' = pageCount
      /\ offset' = offset /\ intact' = intact
  BY <1>1 DEF section, reader, control
<1>8. r.page \in DOMAIN lut /\ lut[r.page] # 0 /\ r.at # "read" /\ r.at # "bad"
      /\ (IF r.at # "idle" THEN r.back ELSE cursor') = EndOf("loop")
  BY <1>1, <1>3, <1>6
<1>9. pc \in {"filling", "shown"} \/ who = "render"
  BY <1>1
<1>10. FileInv'
  BY <1>1, <1>3, <1>4, <1>5, <1>6, <1>7, <1>8, <1>9, ReadKeepsFile, TwoTasks
<1> QED
  BY <1>1, <1>10, HandleMoves DEF reader

LEMMA PeekDoneKeeps ==
  ASSUME IInv, PeekDone
  PROVE  IInv'
<1>1. /\ SeekBack("loop") /\ NoFault /\ UNCHANGED card /\ UNCHANGED section
      /\ UNCHANGED reader /\ UNCHANGED control
  BY DEF PeekDone
<1>2. FileInv'
  BY <1>1, SeekBackKeepsFile, ReaderHasTypes, TwoTasks
  DEF reader, control, FileInv, FileOK
<1> QED
  BY <1>1, <1>2, HandleMoves DEF reader

-----------------------------------------------------------------------------
(* Showing, turning pages and leaving. *)

\* The step goes on with the section as it is.
LEMMA MoveKeeps ==
  ASSUME IInv, pc \in {"filling", "shown"}, UNCHANGED card, UNCHANGED section,
         spec' = spec, NoFault, ReaderOK', AtHandInv', FileInv',
         pc' \in {"filling", "shown"} \/ (pc' = "start" /\ ~build)
  PROVE  IInv'
<1>1. /\ bin' = bin /\ part' = part /\ html' = html /\ temp' = temp
      /\ build' = build /\ lut' = lut /\ built' = built /\ cached' = cached
      /\ pageCount' = pageCount /\ partial' = partial
      /\ partialPages' = partialPages /\ length' = length
  BY DEF card, section, NoFault
<1>2. SectionOK'
  BY SectionStays, ReaderHasTypes
<1>3. CardOK'
  BY <1>1, CardShrinks, ReaderHasTypes
<1>4. PagesInv'
  BY <1>1, SamePages DEF IInv, OpenSteps
<1>5. TempInv'
  BY <1>1 DEF IInv, TempInv, OpenSteps
<1>6. BuildInv'
  BY <1>1 DEF IInv, BuildInv, OpenSteps, BuildSteps, CommitSteps
<1> QED
  BY <1>2, <1>3, <1>4, <1>5, <1>6 DEF IInv

LEMMA ExtendKeeps ==
  ASSUME IInv, Extend
  PROVE  IInv'
<1>1. /\ pc = "filling" /\ pc' = "start" /\ who' = "render" /\ ~build /\ NoFault
      /\ UNCHANGED card /\ UNCHANGED section /\ UNCHANGED reader /\ goal' = goal
      /\ UNCHANGED file
  BY DEF Extend, Goes
<1>2. ReaderOK' /\ spec' = spec
  BY <1>1, ReaderMoves, ReaderHasTypes DEF reader, Steps, StartSteps
<1>3. AtHandInv'
  BY <1>1 DEF AtHandInv
<1>4. FileInv'
  <2>1. lut = <<>> /\ placed \in BOOLEAN /\ FileInv
    BY <1>1, ReaderHasTypes DEF FileInv, ReadsInv, FileOK
  <2> QED
    BY <1>1, <2>1, NoBuildKeepsFile DEF section, reader, BuildSteps, CommitSteps
<1> QED
  BY <1>1, <1>2, <1>3, <1>4, MoveKeeps

LEMMA ShownPage ==
  ASSUME IInv, Filled
  PROVE  /\ Shown \in 0..MaxPages
         /\ build \/ partial => Shown = page /\ page < pageCount
<1>1. /\ page \in 0..MaxPages /\ pageCount \in 0..MaxPages
      /\ build \in BOOLEAN /\ partial \in BOOLEAN
  BY ReaderHasTypes DEF SectionOK
<1>2. build \/ partial => page < pageCount
  BY <1>1 DEF Filled
<1>3. Shown \in 0..MaxPages
  BY <1>1, SizesAssumption DEF Shown
<1>4. page < pageCount => Shown = page
  BY <1>1 DEF Shown
<1> QED
  BY <1>2, <1>3, <1>4

LEMMA RenderReadsKeeps ==
  ASSUME IInv, RenderReads
  PROVE  IInv'
<1> DEFINE r == [at |-> "seek", page |-> Shown + 1, back |-> cursor]
<1>1. /\ pc = "filling" /\ Filled /\ build /\ reads["render"].at = "idle"
      /\ Shown + 1 \in DOMAIN lut /\ lut[Shown + 1] # 0
      /\ reads' = [reads EXCEPT !["render"] = r] /\ Uses("render")
      /\ UNCHANGED <<cursor, offset, intact, peeks>> /\ placed' = TRUE /\ NoFault
      /\ UNCHANGED card /\ UNCHANGED section /\ UNCHANGED control
      /\ UNCHANGED <<failedStart, page, spec, left>>
  BY DEF RenderReads, BeginRead, InBuild
<1>2. FileOK /\ ReadsInv /\ lut \in Seq(Nat)
  BY ReaderHasTypes DEF FileInv, SectionOK
<1>3. /\ r \in [at : Places, page : 0..Len(lut), back : Nat]
      /\ r.at = "seek" /\ r.page = Shown + 1 /\ r.back = cursor
  BY <1>1, <1>2 DEF Places, FileOK
<1> HIDE DEF r
<1>4. ~Busy("render") /\ peeks' \in 0..MaxPeeks /\ page < pageCount
  BY <1>1, <1>2, ShownPage DEF Busy, FileOK
<1>5. FileInv'
  BY <1>1, <1>2, <1>3, <1>4, ReadKeepsFile, TwoTasks
  DEF EndOf, section, control, FileOK
<1> QED
  BY <1>1, <1>5, HandleMoves

LEMMA ShowKeeps ==
  ASSUME IInv, Show
  PROVE  IInv'
<1>1. /\ pc = "filling" /\ pc' = "shown" /\ Filled /\ page' = Shown /\ NoFault
      /\ UNCHANGED card /\ UNCHANGED section /\ placed' = TRUE
      /\ UNCHANGED <<failedStart, spec, left, who, goal>>
      /\ IF ~Busy("render") THEN UNCHANGED file ELSE SeekBack("render")
  BY DEF Show, Goes, Busy
<1>2. ReaderOK' /\ spec' = spec
  BY <1>1, ShownPage, ReaderMoves, ReaderHasTypes DEF Steps, OpenSteps
<1>3. AtHandInv'
  <2>1. build' = build /\ partial' = partial /\ pageCount' = pageCount
    BY <1>1 DEF section
  <2>2. build' \/ partial' => page' < pageCount'
    BY <1>1, <2>1, ShownPage
  <2> QED
    BY <1>1, <2>2 DEF AtHandInv, StartSteps
<1>4. FileInv'
  <2>1. CASE Busy("render")
    BY <1>1, <2>1, SeekBackKeepsFile, TwoTasks
  <2>2. CASE ~Busy("render")
    BY <1>1, <2>2, FileStands, ReaderHasTypes DEF section
  <2> QED
    BY <2>1, <2>2
<1> QED
  BY <1>1, <1>2, <1>3, <1>4, MoveKeeps

LEMMA UnreadableKeeps ==
  ASSUME IInv, Unreadable
  PROVE  IInv'
<1>1. /\ Filled /\ (Fault \/ NoFault) /\ bin' \in {bin, None} /\ part' = None
      /\ temp' \in {temp, None} /\ html' = html
      /\ pc' = "closed" /\ NoSection /\ page' = Shown
      /\ UNCHANGED <<spec, left, who, goal>>
  BY DEF Unreadable
<1>2. CardOK'
  BY <1>1, CardShrinks, FaultCounted, ReaderHasTypes
<1>3. ReaderOK'
  BY <1>1, ShownPage, ReaderMoves, ReaderHasTypes DEF NoSection, Steps
<1> QED
  BY <1>1, <1>2, <1>3, ClosedKeeps

LEMMA ExtendAheadKeeps ==
  ASSUME IInv, ExtendAhead
  PROVE  IInv'
<1>1. /\ pc = "shown" /\ pc' = "start" /\ who' = "loop" /\ ~build /\ partial
      /\ NoFault /\ UNCHANGED card /\ UNCHANGED section /\ UNCHANGED reader
      /\ goal' = goal /\ UNCHANGED file
  BY DEF ExtendAhead, Goes, NearTheEnd
<1>2. ReaderOK' /\ spec' = spec
  BY <1>1, ReaderMoves, ReaderHasTypes DEF reader, Steps, StartSteps
<1>3. AtHandInv'
  <2>1. page < pageCount
    BY <1>1 DEF IInv, AtHandInv
  <2>2. page' = page /\ partial' = partial /\ pageCount' = pageCount
    BY <1>1 DEF section, reader
  <2> QED
    BY <1>1, <2>1, <2>2 DEF AtHandInv
<1>4. FileInv'
  <2>1. lut = <<>> /\ placed \in BOOLEAN /\ FileInv
    BY <1>1, ReaderHasTypes DEF FileInv, ReadsInv, FileOK
  <2> QED
    BY <1>1, <2>1, NoBuildKeepsFile DEF section, reader, BuildSteps, CommitSteps
<1> QED
  BY <1>1, <1>2, <1>3, <1>4, MoveKeeps

\* Turns within the section and jumps: the section stays, the page moves.
LEMMA TurnsKeep ==
  ASSUME IInv, Jump \/ TurnForward \/ TurnBack
  PROVE  IInv'
<1>1. /\ pc = "shown" /\ pc' = "filling" /\ left' = "no" /\ NoFault
      /\ UNCHANGED card /\ UNCHANGED section /\ UNCHANGED file
      /\ UNCHANGED <<failedStart, placed, spec, who, goal>>
  BY DEF Jump, TurnForward, TurnBack, Goes
<1>2. page \in 0..MaxPages /\ pageCount \in 0..MaxPages
  BY ReaderHasTypes DEF SectionOK
<1>3. build => page < pageCount
  BY <1>1 DEF IInv, AtHandInv
<1>4. page' \in 0..MaxPages
  <2>1. CASE Jump
    BY <2>1 DEF Jump, Targets
  <2>2. CASE TurnForward
    <3>1. page + 1 < pageCount \/ page < pageCount
      BY <1>3, <2>2 DEF TurnForward
    <3> QED
      BY <1>2, <2>2, <3>1, SizesAssumption DEF TurnForward
  <2>3. CASE TurnBack
    BY <1>2, <2>3, SizesAssumption DEF TurnBack
  <2> QED
    BY <2>1, <2>2, <2>3
<1>5. ReaderOK' /\ spec' = spec
  BY <1>1, <1>4, ReaderMoves, ReaderHasTypes DEF Steps, OpenSteps
<1>6. AtHandInv'
  BY <1>1 DEF AtHandInv, StartSteps
<1>7. FileInv'
  <2>1. ~Busy("render") /\ placed \in BOOLEAN
    BY <1>1, ReaderHasTypes DEF FileInv, ReadsInv, FileOK
  <2> QED
    BY <1>1, <2>1, FileStands, ReaderHasTypes DEF section
<1> QED
  BY <1>1, <1>5, <1>6, <1>7, MoveKeeps

\* section.reset(): the build is suspended or thrown away.
LEMMA ResetKeeps ==
  ASSUME IInv, Leave \/ TurnLeaves
  PROVE  IInv'
<1>1. /\ pc = "shown" /\ Reset /\ page' \in 0..MaxPages /\ spec' \in Specs
      /\ left' \in {"no", "end", "early"} /\ NoFault /\ who' = "loop"
      /\ ~Busy("loop")
  BY ReaderHasTypes DEF Leave, TurnLeaves, Targets, Peeking, Busy
<1>2. CASE build /\ WorthKeeping
  <2>1. /\ pc' = "commit" /\ goal' = "partial" /\ UNCHANGED card
        /\ UNCHANGED section /\ UNCHANGED file
        /\ UNCHANGED <<failedStart, placed>>
    BY <1>1, <1>2 DEF Reset
  <2>2. SectionOK'
    BY <2>1, SectionStays, ReaderHasTypes
  <2>3. ReaderOK'
    BY <1>1, <2>1, ReaderMoves, ReaderHasTypes DEF Steps, CommitSteps
  <2>4. /\ bin' = bin /\ part' = part /\ html' = html /\ temp' = temp
        /\ build' = build /\ lut' = lut /\ built' = built /\ length' = length
    BY <1>1, <2>1 DEF card, section, NoFault
  <2>5. CardOK'
    BY <2>4, CardShrinks, ReaderHasTypes
  <2>6. part # None /\ Len(lut) <= length[part.spec] /\ built > 0
    BY <1>2 DEF IInv, BuildInv, WorthKeeping
  <2>7. BuildInv'
    BY <1>2, <2>1, <2>4, <2>6 DEF BuildInv, OpenSteps, BuildSteps, CommitSteps
  <2>8. FileInv'
    <3>1. ~Busy("render") /\ placed \in BOOLEAN
      BY <1>1, ReaderHasTypes DEF FileInv, ReadsInv, FileOK
    <3> QED
      BY <1>1, <2>1, <2>4, <3>1, FileStands, ReaderHasTypes
  <2> QED
    BY <2>1, <2>2, <2>3, <2>5, <2>7, <2>8
    DEF IInv, TempInv, PagesInv, AtHandInv, StartSteps, OpenSteps, BuildSteps
<1>3. CASE ~(build /\ WorthKeeping)
  <2>1. /\ pc' = "closed" /\ NoSection /\ part' \in {part, None}
        /\ temp' \in {temp, None} /\ UNCHANGED <<bin, html, goal>>
    BY <1>1, <1>3 DEF Reset
  <2>2. CardOK'
    BY <1>1, <2>1, CardShrinks, FaultCounted, ReaderHasTypes
  <2>3. ReaderOK'
    BY <1>1, <2>1, ReaderMoves, ReaderHasTypes DEF NoSection, Steps
  <2> QED
    BY <2>1, <2>2, <2>3, ClosedKeeps
<1> QED
  BY <1>2, <1>3

LEMMA ClearBookCacheKeeps ==
  ASSUME IInv, ClearBookCache
  PROVE  IInv'
<1>1. /\ pc = "closed" /\ Fault /\ UNCHANGED section /\ UNCHANGED reader
      /\ UNCHANGED control /\ UNCHANGED file
      /\ bin' \in {bin, None} /\ part' \in {part, None}
      /\ html' \in {html, None} /\ temp' \in {temp, None}
  BY DEF ClearBookCache
<1>2. CardOK'
  BY <1>1, CardShrinks, FaultCounted, ReaderHasTypes
<1>3. SectionOK'
  BY <1>1, SectionStays, ReaderHasTypes
<1>4. ReaderOK'
  BY <1>1, ReaderMoves, ReaderHasTypes DEF reader, control
<1>5. pc' = "closed" /\ ~build /\ build' = build
  BY <1>1, ClosedHasNoBuild DEF control, section
<1>6. FileInv'
  <2>1. lut = <<>> /\ placed \in BOOLEAN /\ FileInv
    BY <1>5, ReaderHasTypes DEF FileInv, ReadsInv, FileOK
  <2> QED
    BY <1>1, <1>5, <2>1, NoBuildKeepsFile DEF section, reader, BuildSteps, CommitSteps
<1> QED
  BY <1>2, <1>3, <1>4, <1>5, <1>6
  DEF IInv, TempInv, BuildInv, PagesInv, AtHandInv, StartSteps, BuildSteps,
      OpenSteps, CommitSteps

LEMMA PowerLossKeeps ==
  ASSUME IInv, PowerLoss
  PROVE  IInv'
<1>1. /\ Fault /\ pc' = "closed" /\ NoSection /\ page' \in 0..MaxPages
      /\ left' = "no" /\ UNCHANGED <<spec, who, goal>>
      /\ bin' = bin /\ part' = part /\ html' = html /\ temp' = temp
  BY DEF PowerLoss, Targets, card
<1>2. CardOK'
  BY <1>1, CardShrinks, FaultCounted, ReaderHasTypes
<1>3. ReaderOK'
  BY <1>1, ReaderMoves, ReaderHasTypes DEF NoSection, Steps
<1> QED
  BY <1>1, <1>2, <1>3, ClosedKeeps

LEMMA StutterKeeps ==
  ASSUME IInv, UNCHANGED vars
  PROVE  IInv'
<1>1. /\ UNCHANGED card /\ UNCHANGED section /\ UNCHANGED reader
      /\ UNCHANGED control /\ NoFault /\ UNCHANGED file
  BY DEF vars, NoFault
<1>2. FileInv'
  BY <1>1
  DEF file, section, reader, control, IInv, FileInv, FileOK, ReadsInv, SoundInv, Sound,
      Quiet, Busy, End
<1> QED
  BY <1>1, <1>2, HandleMoves DEF reader

-----------------------------------------------------------------------------
(* The theorems. *)

LEMMA StepIInv ==
  ASSUME IInv, [Next]_vars
  PROVE  IInv'
<1>1. CASE Opens
  BY <1>1, OpenCachedKeeps, OpenEmptyKeeps DEF Opens
<1>2. CASE Starts
  BY <1>2, StartBuildKeeps, StreamedKeeps, PromoteKeeps, CreateKeeps,
     FailuresKeep, BeginParseFailsKeeps DEF Starts
<1>3. CASE Builds
  BY <1>3, PlacePageKeeps, WritePageKeeps, FinishParseKeeps, ParseFailsKeeps DEF Builds
<1>4. CASE Commits
  BY <1>4, CommitsKeep
<1>5. CASE Renders
  BY <1>5, TwoTasks, ExtendKeeps, RenderReadsKeeps, SeekPageKeeps, ReadPageKeeps,
     ShowKeeps, UnreadableKeeps DEF Renders, Reads
<1>6. CASE Loops
  BY <1>6, ExtendAheadKeeps, TurnsKeep, ResetKeeps DEF Loops
<1>7. CASE Peeks
  BY <1>7, TwoTasks, PeekKeeps, SeekPageKeeps, ReadPageKeeps, PeekDoneKeeps
  DEF Peeks, Reads
<1> QED
  BY <1>1, <1>2, <1>3, <1>4, <1>5, <1>6, <1>7, ClearBookCacheKeeps, PowerLossKeeps,
     StutterKeeps DEF Next

LEMMA AlwaysIInv == FairSpec => []IInv
BY InitIInv, StepIInv, PTL DEF FairSpec

\* Files, section and reader keep their types, a build never lays out more
\* pages than its chapter has (Section::buildSomeMore(), EpubReaderActivity).
THEOREM ChapterIsTyped == FairSpec => []TypeOK
<1>1. IInv => TypeOK
  <2> SUFFICES ASSUME IInv PROVE TypeOK
    OBVIOUS
  <2>1. /\ bin \in Files /\ part \in Files /\ html \in Sheets /\ temp \in Sheets
    BY DEF IInv, CardOK
  <2>2. build => part # None /\ Len(lut) <= length[part.spec]
    BY DEF IInv, BuildInv
  <2>3. pc \in {"closed", "start", "stream", "promote", "create", "filling",
                "write", "finish", "shown", "commit", "swap", "rename"}
    BY ReaderHasTypes DEF Steps, StartSteps, OpenSteps, BuildSteps, CommitSteps
  <2>4. /\ cursor \in Nat /\ offset \in Nat /\ intact \subseteq DOMAIN lut
        /\ reads \in [Tasks -> [at : {"idle", "seek", "read", "good", "bad"},
                                 page : 0..Len(lut), back : Nat]]
        /\ raced \in BOOLEAN /\ peeks \in 0..MaxPeeks /\ placed \in BOOLEAN
    BY ReaderHasTypes DEF FileInv, FileOK, Places
  <2> QED
    BY <2>1, <2>2, <2>3, <2>4, ReaderHasTypes DEF TypeOK, SectionOK, Files, Sheets
<1> QED
  BY <1>1, AlwaysIInv, PTL

\* Section::commitBuildFile(): whatever fails and wherever the power goes, the
\* file a later opening trusts holds all of its layout, or some complete pages,
\* and they are where its tables say if no read without the lock met the build.
THEOREM TrustedFileIsWhole == FairSpec => []CommittedIsWhole
<1>1. IInv => CommittedIsWhole
  BY DEF IInv, CardOK
<1> QED
  BY <1>1, AlwaysIInv, PTL

\* Section::startBuild(): a chapter under its own name is completely unzipped.
THEOREM ChapterHtmlIsWhole == FairSpec => []HtmlIsWhole
<1>1. IInv => HtmlIsWhole
  BY DEF IInv, CardOK
<1> QED
  BY <1>1, AlwaysIInv, PTL

\* Section::loadPage(): every page below pageCount is in the build, in the
\* finished file or in the partial one that is being extended, and whoever reads
\* a page gets that page, unless a read without the lock met the build.
THEOREM OfferedPagesCanBeRead == FairSpec => []PagesCanBeRead
<1>1. IInv => PagesCanBeRead
  <2> SUFFICES ASSUME IInv, pc \in {"filling", "shown"}, AllWritten, Spared
               PROVE  /\ \A p \in 0..(pageCount - 1) : Readable(p)
                      /\ \A t \in Tasks : reads[t].at # "bad"
    BY DEF PagesCanBeRead
  <2>1. /\ pageCount \in 0..MaxPages /\ partialPages \in 0..MaxPages
        /\ lut \in Seq(Nat) /\ built = Len(lut) /\ Len(lut) \in Nat
        /\ build \in BOOLEAN /\ partial \in BOOLEAN
    BY ReaderHasTypes DEF SectionOK
  <2>2. bin # None => bin \in FileType
    BY DEF IInv, CardOK, Files
  <2>3. bin # None => bin.pages \in 0..MaxPages /\ bin.text = "whole"
    BY <2>2, FileHasFields DEF Spared, IInv, CardOK, CommittedIsWhole
  <2>4. PagesInv
    BY DEF IInv
  <2>5. build => Sound
    BY DEF Spared, IInv, FileInv, SoundInv
  <2>6. ASSUME NEW p \in 0..(pageCount - 1) PROVE Readable(p)
    <3>1. p \in Nat /\ p < pageCount
      BY <2>1, <2>6, SizesAssumption
    <3>2. CASE InBuild(p)
      <4>1. build /\ p + 1 \in DOMAIN lut
        BY <2>1, <3>1, <3>2 DEF InBuild
      <4>2. lut[p + 1] # 0
        BY <4>1 DEF AllWritten
      <4>3. p + 1 \in intact
        BY <2>5, <4>1, <4>2 DEF Sound
      <4> QED
        BY <3>2, <4>3 DEF Readable
    <3>3. CASE ~InBuild(p)
      <4>1. ~build \/ p >= Len(lut)
        BY <2>1, <3>1, <3>3 DEF InBuild
      <4>2. CASE partial
        <5>1. /\ bin # None /\ bin.spec = spec /\ partialPages <= bin.pages
              /\ pageCount <= partialPages \/ (build /\ pageCount <= built)
          BY <2>4, <4>2 DEF PagesInv, OpenSteps
        <5>2. p < partialPages /\ p < bin.pages
          BY <2>1, <2>3, <3>1, <4>1, <5>1
        <5> QED
          BY <2>3, <3>3, <4>2, <5>1, <5>2 DEF Readable, Stored, OnDisk
      <4>3. CASE ~partial
        <5>1. build => pageCount <= built
          BY <2>4, <4>3 DEF PagesInv, OpenSteps
        <5>2. ~build
          BY <2>1, <3>1, <4>1, <5>1
        <5>3. bin # None /\ bin.spec = spec /\ pageCount <= bin.pages
          BY <2>1, <2>4, <3>1, <4>3, <5>2 DEF PagesInv, OpenSteps
        <5>4. p < bin.pages
          BY <2>1, <2>3, <3>1, <5>3
        <5> QED
          BY <2>3, <3>1, <3>3, <4>3, <5>2, <5>3, <5>4 DEF Readable, Stored, OnDisk
      <4> QED
        BY <4>2, <4>3
    <3> QED
      BY <3>2, <3>3
  <2>7. ASSUME NEW t \in Tasks PROVE reads[t].at # "bad"
    <3>1. CASE build
      BY <2>5, <3>1 DEF Sound
    <3>2. CASE ~build
      BY <3>2 DEF IInv, FileInv, ReadsInv, Quiet, Idle
    <3> QED
      BY <3>1, <3>2
  <2> QED
    BY <2>6, <2>7
<1> QED
  BY <1>1, AlwaysIInv, PTL

-----------------------------------------------------------------------------
(* Pages once offered stay.  The invariant says nothing of a section that is *)
(* closed, starts without pages or is about to be finished; this does.       *)

KeptInv ==
    /\ pc = "closed" => ~open
    /\ pc = "start" /\ ~partial => pageCount = 0
    /\ pc \in CommitSteps /\ goal = "final" => pageCount <= Len(lut)

LEMMA InitKeptInv == Init => KeptInv
BY DEF Init, KeptInv, CommitSteps

\* The pages at hand when the parse ends are pages of this layout.
LEMMA ParsedHoldsAll ==
  ASSUME IInv, FinishParse
  PROVE  pageCount' <= Len(lut')
<1>1. build /\ length[spec] \in 0..MaxPages /\ Len(lut) = length[spec]
      /\ pc \in {"filling", "shown", "finish"}
  BY ParsedFacts
<1>2. lut' = lut /\ pageCount' = pageCount
  BY DEF FinishParse, section
<1>3. /\ pageCount <= built \/ (partial /\ pageCount <= partialPages)
      /\ partial => bin # None /\ bin.spec = spec /\ partialPages <= bin.pages
  BY <1>1 DEF IInv, PagesInv, OpenSteps, BuildSteps
<1>4. /\ pageCount \in 0..MaxPages /\ partialPages \in 0..MaxPages
      /\ built \in Nat /\ built <= Len(lut)
  BY ReaderHasTypes DEF SectionOK
<1>5. bin # None => bin \in FileType
  BY DEF IInv, CardOK, Files
<1>6. bin # None => bin.pages \in 0..MaxPages
  BY <1>5, FileHasFields
<1>7. bin # None /\ bin.spec = spec => bin.pages <= length[spec]
  BY <1>1, <1>6 DEF IInv, CardOK, CommittedIsWhole
<1>8. CASE pageCount <= built
  BY <1>1, <1>2, <1>4, <1>8
<1>9. CASE partial /\ pageCount <= partialPages
  BY <1>1, <1>2, <1>3, <1>4, <1>6, <1>7, <1>9
<1> QED
  BY <1>3, <1>8, <1>9

LEMMA StepKeptInv ==
  ASSUME IInv, KeptInv, [Next]_vars
  PROVE  KeptInv'
<1>1. CASE pc' = "closed" /\ NoSection
  BY <1>1 DEF KeptInv, CommitSteps, NoSection
<1>2. CASE Opens
  <2>1. CASE OpenCached
    BY <2>1 DEF OpenCached, Opened, KeptInv, CommitSteps
  <2>2. CASE OpenRejected \/ OpenMissing
    <3>1. Opened(0, FALSE) /\ pc' = "start"
      BY <2>2 DEF OpenRejected, OpenMissing, Goes
    <3> QED
      BY <3>1 DEF Opened, KeptInv, CommitSteps
  <2> QED
    BY <1>2, <2>1, <2>2 DEF Opens
<1>3. CASE pc' \in {"stream", "promote", "create", "filling", "write", "finish",
                   "shown"}
  BY <1>3 DEF KeptInv, CommitSteps
<1>4. CASE FinishParse
  <2>1. pc' = "commit"
    BY <1>4 DEF FinishParse
  <2> QED
    BY <1>4, <2>1, ParsedHoldsAll DEF KeptInv, CommitSteps
<1>5. CASE Stamp \/ Swap
  <2>1. /\ pc \in CommitSteps /\ pc' \in {"swap", "rename"}
        /\ lut' = lut /\ pageCount' = pageCount /\ goal' = goal
    BY <1>5 DEF Stamp, Swap, Goes, section, CommitSteps
  <2> QED
    BY <2>1 DEF KeptInv
<1>6. CASE Extend \/ ExtendAhead
  <2>1. partial' = partial /\ partial /\ pc' = "start"
    BY <1>6 DEF Extend, ExtendAhead, Goes, NearTheEnd, section
  <2> QED
    BY <2>1 DEF KeptInv, CommitSteps
<1>7. CASE pc' = "commit" /\ goal' = "partial"
  BY <1>7 DEF KeptInv, CommitSteps
<1>8. CASE ClearBookCache \/ RenderReads \/ Reads("render") \/ Peeks \/ UNCHANGED vars
  <2>1. UNCHANGED <<section, control>>
    BY <1>8 DEF ClearBookCache, RenderReads, Reads, SeekPage, ReadPage, Peeks, Peek,
       PeekDone, vars
  <2> QED
    BY <2>1 DEF section, control, KeptInv
<1>9. CASE Starts
  <2>1. (pc' = "closed" /\ NoSection)
        \/ pc' \in {"stream", "promote", "create", "filling", "shown"}
    BY <1>9 DEF Starts, StartBuild, Streamed, Promote, Create, StreamFails,
       CreateFails, BeginParseFails, StartFails, Resumed, Goes
  <2> QED
    BY <1>1, <1>3, <2>1
<1>10. CASE PlacePage \/ WritePage \/ ParseFails
  <2>1. PlacePage \/ WritePage => pc' \in {"filling", "write", "finish", "shown"}
    BY DEF PlacePage, WritePage, Resumed
  <2>2. ParseFails => pc' = "closed" /\ NoSection
    BY DEF ParseFails
  <2> QED
    BY <1>1, <1>3, <1>10, <2>1, <2>2
<1>11. CASE CommitRefused \/ Rename \/ RenameFails
  <2>1. (pc' = "closed" /\ NoSection) \/ pc' \in {"filling", "shown"}
    BY <1>11 DEF CommitRefused, Rename, RenameFails, CommitFails, Suspended,
       Finalized, Resumed
  <2> QED
    BY <1>1, <1>3, <2>1
<1>12. CASE Show \/ Unreadable \/ Leave \/ Jump \/ TurnForward \/ TurnLeaves
            \/ TurnBack \/ PowerLoss
  <2>1. \/ pc' = "closed" /\ NoSection
        \/ pc' \in {"filling", "shown"}
        \/ pc' = "commit" /\ goal' = "partial"
    BY <1>12 DEF Show, Unreadable, Leave, Jump, TurnForward, TurnLeaves, TurnBack,
       PowerLoss, Reset, Goes
  <2> QED
    BY <1>1, <1>3, <1>7, <2>1
<1> QED
  BY <1>2, <1>4, <1>5, <1>6, <1>8, <1>9, <1>10, <1>11, <1>12
  DEF Next, Builds, Commits, Renders, Loops

\* Section::buildSomeMore() and finalizeBuild(): while a section is open its
\* pages never become fewer; only abandonBuild() takes them, with the file.
THEOREM PagesOfferedStay == FairSpec => NeverFewerPages
<1> DEFINE Kept == open /\ open' => \/ pageCount' >= pageCount
                                    \/ pageCount' = 0 /\ bin' = None
<1>1. ASSUME IInv, KeptInv, [Next]_vars PROVE Kept
  <2>1. SUFFICES ASSUME open, open' PROVE pageCount' >= pageCount
                                          \/ (pageCount' = 0 /\ bin' = None)
    OBVIOUS
  <2>2. pageCount \in 0..MaxPages /\ partialPages \in 0..MaxPages /\ built \in Nat
    BY <1>1, ReaderHasTypes DEF SectionOK
  <2>3. ~NoSection
    BY <2>1 DEF NoSection
  <2>4. pc # "closed"
    BY <1>1, <2>1 DEF KeptInv
  <2>5. CASE pageCount' = pageCount
    BY <2>2, <2>5
  <2>6. CASE StartBuild
    <3>1. pc = "start" /\ pageCount' = StartCount
      BY <2>6 DEF StartBuild
    <3>2. ~build
      BY <1>1, <3>1, ClosedHasNoBuild DEF StartSteps
    <3>3. partial => pageCount <= partialPages
      BY <1>1, <3>1, <3>2 DEF IInv, PagesInv, StartSteps
    <3>4. ~partial => pageCount = 0
      BY <1>1, <3>1 DEF KeptInv
    <3> QED
      BY <2>2, <3>1, <3>3, <3>4 DEF StartCount
  <2>7. CASE BeginParseFails
    <3>1. bin' = None /\ pageCount' = 0
      BY <2>7 DEF BeginParseFails, Abandon, NoSection
    <3> QED
      BY <3>1
  <2>8. CASE PlacePage \/ WritePage \/ FinishParse
    <3>1. PlacePage \/ FinishParse => pageCount' = pageCount
      BY DEF PlacePage, FinishParse, section
    <3>2. WritePage => pageCount' = Larger(pageCount, built') /\ built' \in Nat
      BY <2>2 DEF WritePage
    <3>3. WritePage => pageCount' >= pageCount
      BY <2>2, <3>2 DEF Larger
    <3> QED
      BY <2>5, <2>8, <3>1, <3>3
  <2>9. CASE Rename
    <3>1. pc = "rename" /\ goal = "final" /\ pageCount' = built
      BY <2>3, <2>9 DEF Rename, Finalized, Suspended
    <3>2. pageCount <= Len(lut) /\ built = Len(lut)
      BY <1>1, <3>1 DEF KeptInv, CommitSteps, IInv, BuildInv, SectionOK
    <3> QED
      BY <2>2, <3>1, <3>2
  <2>10. CASE Starts
    <3>1. StreamFails \/ CreateFails => UNCHANGED section
      BY <2>3 DEF StreamFails, CreateFails, StartFails
    <3>2. Streamed \/ Promote \/ Create => pageCount' = pageCount
      BY DEF Streamed, Promote, Create, section
    <3> QED
      BY <2>5, <2>6, <2>7, <2>10, <3>1, <3>2 DEF Starts, section
  <2>11. CASE Commits
    <3>1. CommitRefused \/ RenameFails => NoSection
      BY DEF CommitRefused, RenameFails, CommitFails
    <3>2. Stamp \/ Swap => pageCount' = pageCount
      BY DEF Stamp, Swap, section
    <3> QED
      BY <2>3, <2>5, <2>9, <2>11, <3>1, <3>2 DEF Commits
  <2>12. CASE Renders \/ Peeks \/ Loops
    <3>1. pageCount' = pageCount
      BY <2>3, <2>12 DEF Renders, Peeks, Loops, Extend, RenderReads, Reads, SeekPage,
         ReadPage, Show, Unreadable, Peek, PeekDone, ExtendAhead, Leave, Jump,
         TurnForward, TurnLeaves, TurnBack, Reset, section
    <3> QED
      BY <2>5, <3>1
  <2>13. ~Opens /\ ~ParseFails /\ ~PowerLoss /\ ~ClearBookCache
    BY <2>3, <2>4 DEF Opens, OpenCached, OpenRejected, OpenMissing, Goes,
       ParseFails, PowerLoss, ClearBookCache
  <2>14. CASE UNCHANGED vars
    BY <2>5, <2>14 DEF vars, section
  <2> QED
    BY <1>1, <2>8, <2>10, <2>11, <2>12, <2>13, <2>14 DEF Next, Builds
<1>2. FairSpec => []KeptInv
  BY AlwaysIInv, InitKeptInv, StepKeptInv, PTL DEF FairSpec
<1>3. ASSUME IInv, KeptInv, [Next]_vars PROVE [Kept]_vars
  BY <1>1, <1>3
<1> QED
  BY AlwaysIInv, <1>2, <1>3, PTL DEF FairSpec, NeverFewerPages, Kept

=============================================================================
