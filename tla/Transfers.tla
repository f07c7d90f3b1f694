------------------------------ MODULE Transfers ------------------------------
(***************************************************************************)
(* The web server's handlers that change books: HTTP, WebDAV and the       *)
(* upload over a WebSocket, together with the other screens that delete or *)
(* download a book.  Each request is read and answered inside one          *)
(* handleClient(), so it runs to its end; a WebSocket upload is the        *)
(* exception and spans many, with requests of other clients in between.    *)
(***************************************************************************)
EXTENDS BookCard

CONSTANTS Clients, NoClient

ASSUME ClientsAssumption == NoClient \notin Clients

VARIABLES
    running,   \* the server is up
    connected, \* WebSocket clients
    owner,     \* wsUploadClientNum while wsUploadInProgress, or NoClient
    target     \* wsUploadPath and wsUploadFileName, while they are in use

serverVars == <<running, connected, owner, target>>

Served == running /\ todo = <<>> /\ UNCHANGED serverVars
Begins(calls) ==
    /\ todo' = calls
    /\ UNCHANGED <<file, cacheVars, listVars, faults>>
Request(calls) == Served /\ Begins(calls) /\ UNCHANGED leftBehind

-----------------------------------------------------------------------------
(* HTTP. *)

\* handleUpload(): only under a name that is free.
Upload(p, b) == ~Exists(p) /\ Request(<<Call("write", p, Nothing, b),
                                        On("clear", p)>>)

\* handleRename(), handleMove(): the cache of the old path is dropped.
CacheStays(p, q) == <<Call("rename", p, q, Nothing)>> \* mutant: not cleared
ClearAndRename(p, q) == <<On("clear", p), Call("rename", p, q, Nothing)>>
RenameBook(p, q) ==
    p # q /\ Exists(p) /\ ~Exists(q) /\ Request(ClearAndRename(p, q))

\* handleDelete().
Delete(p) == Exists(p) /\ Request(<<On("remove", p), On("clear", p)>>)

-----------------------------------------------------------------------------
(* WebDAV. *)

\* raw(), handlePut(): into a temporary file, which then takes the name.
DavPut(p, b) ==
    Request((IF Exists(p) THEN <<On("remove", p)>> ELSE <<>>)
            \o <<Call("put", p, file[p], b), On("clear", p)>>)

DavDelete(p) == Exists(p) /\ Request(<<On("clear", p), On("remove", p)>>)

\* handleMove(), handleCopy(): a file at the destination is removed, its cache
\* is not.
Replaces(q) == leftBehind' = leftBehind \cup (IF Exists(q) THEN {q} ELSE {})
Removal(q) == IF Exists(q) THEN <<On("remove", q)>> ELSE <<>>
DavMove(p, q) ==
    /\ p # q /\ Exists(p)
    /\ Served /\ Begins(Removal(q) \o ClearAndRename(p, q)) /\ Replaces(q)
DavCopy(p, q) ==
    /\ p # q /\ Exists(p) /\ Served
    /\ Begins(Removal(q) \o <<Call("write", q, Nothing, file[p])>>)
    /\ Replaces(q)

-----------------------------------------------------------------------------
(* The WebSocket. *)

Idle == running /\ todo = <<>>
\* The name stays in its variables, but is not looked at before the next START
\* has replaced it: the model forgets it.
Frees == owner' = NoClient /\ target' = Nothing
Event == UNCHANGED <<cacheVars, listVars, leftBehind, running>>

Connects(c) ==
    /\ Idle /\ c \notin connected /\ connected' = connected \cup {c}
    /\ UNCHANGED <<owner, target, file, todo, faults>> /\ Event

\* START: refused while any upload is in progress and for a name in use.  (A
\* file announced with no bytes, which ends here at once, is left out.)
Start(c, p) ==
    /\ Idle /\ c \in connected /\ owner = NoClient /\ ~Exists(p)
    /\ owner' = c /\ target' = p /\ file' = At(file, p, Torn)
    /\ UNCHANGED <<connected, todo, faults>> /\ Event

\* The bytes go to the file that was opened, also after its name was given to
\* another one by a request in between.
Finished(b) ==
    file' = IF file[target] = Torn THEN At(file, target, b) ELSE file

\* The last BIN message.
LastChunk(c, b) ==
    /\ Idle /\ owner = c /\ Finished(b) /\ Frees
    /\ todo' = <<On("clear", target)>>
    /\ UNCHANGED <<connected, faults>> /\ Event

\* abortWsUpload() removes what is under the name.
Aborts == file' = At(file, target, Nothing) /\ Frees

\* Too many bytes, or a write that fails.
BadChunk(c) ==
    /\ Idle /\ owner = c /\ Aborts
    /\ UNCHANGED <<connected, todo, faults>> /\ Event

Anyone(c) == owner # NoClient \* mutant: any disconnect aborts the upload
Owns(c) == owner = c

Disconnects(c) ==
    /\ Idle /\ c \in connected /\ connected' = connected \ {c}
    /\ IF Owns(c) THEN Aborts ELSE UNCHANGED <<file, owner, target>>
    /\ UNCHANGED <<todo, faults>> /\ Event

\* begin() and stop(): what a client has not finished is removed.
StartServer ==
    /\ ~running /\ running' = TRUE
    /\ UNCHANGED <<connected, owner, target>>
StopServer ==
    /\ Idle /\ running' = FALSE /\ connected' = {}
    /\ IF owner # NoClient THEN Aborts ELSE UNCHANGED <<file, owner, target>>
    /\ UNCHANGED <<cacheVars, listVars, todo, faults, leftBehind>>
ServerGone == running' = FALSE /\ connected' = {} /\ Frees

-----------------------------------------------------------------------------
(* Screens that do the same without the server. *)

\* removeDirFile() of the file browser.
BrowserDeletes(p) == Exists(p) /\ Begins(<<On("clear", p), On("remove", p)>>)

\* An OPDS download goes over the file of the same name.
Download(p, b) == Begins(Removal(p) \o <<Call("write", p, Nothing, b),
                                         On("clear", p)>>)

ServerInit ==
    running = FALSE /\ connected = {} /\ owner = NoClient /\ target = Nothing

Requests ==
    \/ \E p \in Paths, b \in Books : Upload(p, b) \/ DavPut(p, b)
    \/ \E p \in Paths : Delete(p) \/ DavDelete(p)
    \/ \E p, q \in Paths : RenameBook(p, q) \/ DavMove(p, q) \/ DavCopy(p, q)
Events ==
    \E c \in Clients :
        \/ Connects(c) \/ BadChunk(c) \/ Disconnects(c)
        \/ \E p \in Paths : Start(c, p)
        \/ \E b \in Books : LastChunk(c, b)
=============================================================================
