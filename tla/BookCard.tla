------------------------------ MODULE BookCard ------------------------------
(***************************************************************************)
(* The books on the SD card, the cache directory of each path, and the     *)
(* recent list, with the calls every screen and handler makes on them.     *)
(* A handler runs to its end in the main loop, but power can be lost       *)
(* between any two of its calls and every call can fail, so what is left   *)
(* of it is a list, todo, carried out call by call.                        *)
(*                                                                         *)
(* A cache directory belongs to a path, not to a book: data is what was    *)
(* built from the book (book.bin and the sections), place is progress.bin. *)
(* Either is the book it was made for, so a cache left behind by another   *)
(* book at the same path shows.                                            *)
(***************************************************************************)
EXTENDS Naturals, Sequences, FiniteSets

Seqs == INSTANCE SequencesExt

CONSTANTS
    Paths,      \* names a book can have, all of them with an .epub ending
    Books,      \* contents
    MaxRecent,  \* MAX_RECENT_BOOKS
    MaxFaults,  \* bound: failing calls and power losses within a handler
    Nothing, Torn

ASSUME BookCardAssumption ==
    /\ Nothing \notin Paths \cup Books \cup {Torn} /\ Torn \notin Books
    /\ MaxRecent \in Nat \ {0} /\ MaxFaults \in Nat

VARIABLES
    file,        \* per path: a book, Torn (a part of one) or Nothing
    data,        \* per path: the book it was built from, Torn or Nothing
    place,       \* per path: the book progress.bin is a position of, or Nothing
    recents,     \* RECENT_BOOKS
    recentsCard, \* recent.json, or Torn
    todo,        \* the calls the running handler has still to make
    faults,
    leftBehind   \* history: paths whose cache a handler knowingly or by a
                 \* fault left to whatever book comes there next

cacheVars == <<data, place>>
listVars == <<recents, recentsCard>>
cardVars == <<file, cacheVars, listVars, todo, faults, leftBehind>>

Call(name, p, q, b) == [call |-> name, path |-> p, to |-> q, book |-> b]
On(name, p) == Call(name, p, Nothing, Nothing)

Doing(name) == todo # <<>> /\ todo[1].call = name
This == todo[1]
Goes == todo' = Tail(todo) /\ UNCHANGED faults
Faulty == faults < MaxFaults /\ faults' = faults + 1
Gives == Faulty /\ todo' = <<>>      \* the handler returns on the failure
Ignores == Faulty /\ todo' = Tail(todo)

Exists(p) == file[p] # Nothing
HasCache(p) == data[p] # Nothing \/ place[p] # Nothing

At(f, p, value) == [f EXCEPT ![p] = value]

-----------------------------------------------------------------------------
(* Calls on book files. *)

Remove ==
    /\ Doing("remove") /\ Goes
    /\ file' = At(file, This.path, Nothing)
    /\ UNCHANGED <<cacheVars, listVars, leftBehind>>
RemoveFails ==
    /\ Doing("remove") /\ Ignores
    /\ UNCHANGED <<file, cacheVars, listVars, leftBehind>>

\* A new file is written from its first byte to its last.
Write ==
    /\ Doing("write") /\ Goes
    /\ file' = At(file, This.path, This.book)
    /\ UNCHANGED <<cacheVars, listVars, leftBehind>>
\* The part that was written is removed, or left if that fails as well, and
\* the cache of the path is not looked at.
WriteFails ==
    /\ Doing("write") /\ Gives
    /\ \E part \in {Nothing, Torn} : file' = At(file, This.path, part)
    /\ leftBehind' = leftBehind \cup {This.path}
    /\ UNCHANGED <<cacheVars, listVars>>

\* A rename does not replace a file.
Moved(p, q) == At(At(file, q, file[p]), p, Nothing)
Rename ==
    /\ Doing("rename") /\ ~Exists(This.to) /\ Goes
    /\ file' = Moved(This.path, This.to)
    /\ UNCHANGED <<cacheVars, listVars, leftBehind>>
RenameFails ==
    /\ Doing("rename")
    /\ Gives \/ (Exists(This.to) /\ todo' = <<>> /\ UNCHANGED faults)
    /\ UNCHANGED <<file, cacheVars, listVars, leftBehind>>

\* The last step of a WebDAV PUT: the temporary file takes the name; when it
\* cannot, it is removed and nothing is left under either.
Put ==
    /\ Doing("put") /\ ~Exists(This.path) /\ Goes
    /\ file' = At(file, This.path, This.book)
    /\ UNCHANGED <<cacheVars, listVars, leftBehind>>
PutFails ==
    /\ Doing("put")
    /\ Gives \/ (Exists(This.path) /\ todo' = <<>> /\ UNCHANGED faults)
    /\ leftBehind' = IF Exists(This.path) THEN leftBehind
                     ELSE leftBehind \cup {This.path}
    /\ UNCHANGED <<file, cacheVars, listVars>>

-----------------------------------------------------------------------------
(* Calls on cache directories. *)

\* clearBookCache(), Epub::clearCache(): the whole directory.
Clear ==
    /\ Doing("clear") /\ Goes
    /\ data' = At(data, This.path, Nothing)
    /\ place' = At(place, This.path, Nothing)
    /\ leftBehind' = leftBehind \ {This.path}
    /\ UNCHANGED <<file, listVars>>

\* Cut short, it has removed some of the files.
ClearsSome(p) ==
    /\ \E d \in {data[p], Nothing} : data' = At(data, p, d)
    /\ \E c \in {place[p], Nothing} : place' = At(place, p, c)
ClearFails ==
    /\ Doing("clear") /\ Ignores
    /\ ClearsSome(This.path)
    /\ leftBehind' = leftBehind \cup {This.path}
    /\ UNCHANGED <<file, listVars>>

\* clearAllBookCaches() keeps the positions.
ClearAll ==
    /\ Doing("clearAll") /\ Goes
    /\ data' = [p \in Paths |-> Nothing]
    /\ UNCHANGED <<file, place, listVars, leftBehind>>

\* Epub::load() builds book.bin in place.
Build ==
    /\ Doing("build") /\ Goes
    /\ data' = At(data, This.path, file[This.path])
    /\ UNCHANGED <<file, place, listVars, leftBehind>>

\* A book that cannot be read to its end leaves no index.
BuildFails ==
    /\ Doing("build") /\ Gives
    /\ UNCHANGED <<file, cacheVars, listVars, leftBehind>>

\* ProgressFile::writeAtomic(): the old file goes, the new one takes its name.
DropPlace ==
    /\ Doing("dropPlace") /\ Goes
    /\ place' = At(place, This.path, Nothing)
    /\ UNCHANGED <<file, data, listVars, leftBehind>>
PutPlace ==
    /\ Doing("putPlace") /\ Goes
    /\ place' = At(place, This.path, This.book)
    /\ UNCHANGED <<file, data, listVars, leftBehind>>
\* The temporary file cannot be written: the old position stays.
DropPlaceFails ==
    /\ Doing("dropPlace") /\ Faulty /\ todo' = Tail(Tail(todo))
    /\ UNCHANGED <<file, cacheVars, listVars, leftBehind>>
PutPlaceFails ==
    /\ Doing("putPlace") /\ Ignores
    /\ UNCHANGED <<file, cacheVars, listVars, leftBehind>>

\* The cache directory follows a finished book, unless there is one already at
\* its new path, be it empty; that it cannot is not fatal.
CanFollow == HasCache(This.path) => ~HasCache(This.to)
FollowedTo(f) == At(At(f, This.to, f[This.path]), This.path, Nothing)
MoveCache ==
    /\ Doing("moveCache") /\ CanFollow /\ Goes
    /\ IF HasCache(This.path)
       THEN data' = FollowedTo(data) /\ place' = FollowedTo(place)
       ELSE UNCHANGED cacheVars
    /\ leftBehind' = IF HasCache(This.path) /\ This.path \in leftBehind
                     THEN (leftBehind \ {This.path}) \cup {This.to}
                     ELSE leftBehind
    /\ UNCHANGED <<file, listVars>>
MoveCacheFails ==
    /\ Doing("moveCache") /\ todo' = Tail(todo) /\ UNCHANGED faults
    /\ leftBehind' = leftBehind \cup {This.path}
    /\ UNCHANGED <<file, cacheVars, listVars>>

-----------------------------------------------------------------------------
(* Calls on the recent list; each change is written out at once. *)

Listed(p) == \E i \in DOMAIN recents : recents[i] = p
\* pruneMissing(): what is kept of the first n entries, in their order.
Present(list) ==
    LET Kept[n \in 0..Len(list)] ==
            IF n = 0 THEN <<>>
            ELSE IF Exists(list[n]) THEN Append(Kept[n - 1], list[n])
            ELSE Kept[n - 1]
    IN Kept[Len(list)]
Trim(list) == SubSeq(list, 1, IF Len(list) < MaxRecent THEN Len(list)
                              ELSE MaxRecent)

\* addBook(): first the entries whose file is gone, then the one of this path.
Unpruned(p) == Trim(<<p>> \o Seqs!RemoveFirst(recents, p)) \* mutant: no pruneMissing()
Added(p) == Trim(<<p>> \o Seqs!RemoveFirst(Present(recents), p))

\* updatePath() does not look for an entry that has the new path already.
Updated(p, q) ==
    IF Listed(p)
    THEN [recents EXCEPT ![Seqs!SelectInSeq(recents, LAMBDA e : e = p)] = q]
    ELSE recents

Relisted ==
    CASE This.call = "addRecent" -> Added(This.path)
      [] This.call = "dropRecent" -> Seqs!RemoveFirst(recents, This.path)
      [] This.call = "updateRecent" -> Updated(This.path, This.to)
      [] This.call = "pruneRecents" -> Present(recents)

ListCalls == {"addRecent", "dropRecent", "updateRecent", "pruneRecents"}
Lists == \E c \in ListCalls : Doing(c)

ChangeList ==
    /\ Lists /\ Goes /\ recents' = Relisted
    /\ recentsCard' = IF This.call # "addRecent" /\ recents' = recents
                      THEN recentsCard ELSE recents'
    /\ UNCHANGED <<file, cacheVars, leftBehind>>
\* The write truncates the file first.
ListWriteFails ==
    /\ Lists /\ Ignores /\ recents' = Relisted
    /\ recentsCard' \in {recentsCard, Torn}
    /\ UNCHANGED <<file, cacheVars, leftBehind>>

-----------------------------------------------------------------------------
(* Power. *)

\* What the call under way leaves when power goes; then memory is gone too.
Pending(name) == {todo[i].path : i \in {j \in DOMAIN todo : todo[j].call = name}}

\* A truncated book.bin starts with the version byte and is taken for whole.
HalfBuilt(p) == {data[p], Nothing, Torn}

CutShort ==
    /\ IF Doing("clear") THEN ClearsSome(This.path) /\ UNCHANGED file
       ELSE /\ UNCHANGED place
            /\ IF Doing("build")
               THEN \E d \in HalfBuilt(This.path) :
                        data' = At(data, This.path, d)
               ELSE IF Doing("clearAll")
               THEN \E kept \in SUBSET Paths : data' =
                        [p \in Paths |-> IF p \in kept THEN data[p] ELSE Nothing]
               ELSE UNCHANGED data
            /\ IF Doing("write")
               THEN \E part \in {file[This.path], Torn} :
                        file' = At(file, This.path, part)
               ELSE UNCHANGED file
    /\ recentsCard' \in {recentsCard} \cup (IF Lists THEN {Torn} ELSE {})
    /\ leftBehind' = leftBehind \cup Pending("clear") \cup Pending("write")
                     \cup Pending("put") \cup Pending("moveCache")

LosePower ==
    /\ IF todo = <<>> THEN UNCHANGED faults ELSE Faulty
    /\ CutShort /\ todo' = <<>>
    /\ recents' = <<>>

\* setup() reads the list; one that cannot be read leaves it empty.
LoadList ==
    /\ recents' = IF recentsCard = Torn THEN <<>> ELSE recentsCard
    /\ UNCHANGED <<file, cacheVars, recentsCard, faults, leftBehind>>

CardInit ==
    /\ file \in [Paths -> Books \cup {Nothing}]
    /\ data = [p \in Paths |-> Nothing] /\ place = [p \in Paths |-> Nothing]
    /\ recents = <<>> /\ recentsCard = <<>>
    /\ todo = <<>> /\ faults = 0 /\ leftBehind = {}

Calls ==
    \/ Remove \/ RemoveFails \/ Write \/ WriteFails \/ Rename \/ RenameFails
    \/ Put \/ PutFails \/ Clear \/ ClearFails \/ ClearAll \/ Build \/ BuildFails
    \/ DropPlace \/ DropPlaceFails \/ PutPlace \/ PutPlaceFails
    \/ MoveCache \/ MoveCacheFails \/ ChangeList \/ ListWriteFails

=============================================================================
