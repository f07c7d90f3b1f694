------------------------- MODULE CardSessionProofs -------------------------
(***************************************************************************)
(* What holds of the device with its card whatever the books, the names,   *)
(* the faults and the number of clients, in four parts.                    *)
(*                                                                         *)
(* Caches.  A cache directory is found by the path of its book alone, and  *)
(* a handler takes several calls to change a book and its cache, any of    *)
(* which can fail or be cut short.  That a book never meets the cache or   *)
(* the saved position of another one therefore depends on the order of the *)
(* calls of every handler.  The inductive invariant IInv says which orders *)
(* there are (Shape), what the next call may rely on (HeadOK, PlacesOK),   *)
(* and that every path whose cache was not knowingly left behind is either *)
(* in order (Fits) or the one the next call deals with (Exposed).          *)
(*                                                                         *)
(* The recent list.  updatePath() does not look whether the list has the   *)
(* new path; RecentInv says why it never does.                             *)
(*                                                                         *)
(* The screens: a restart is wanted.  The server: an upload belongs to the *)
(* client that began it.                                                   *)
(***************************************************************************)
EXTENDS CardSession, TLAPS, WellFoundedInduction, SequenceTheorems

PlaceCalls == {"clear", "dropPlace", "putPlace"}
ServerCalls == {"remove", "write", "put", "rename", "clear"}

\* The i-th call of t is c on p; the next one clears the cache of its path.
Is(t, i, c, p) == i \in DOMAIN t /\ t[i].call = c /\ t[i].path = p
Cleared(t, i) == Is(t, i + 1, "clear", t[i].path)

(***************************************************************************)
(* The order of the calls still to be made.  A file is removed or written  *)
(* only just before or after its cache is cleared, or as the first call,   *)
(* when there is no cache; the cache of a finished book moves right after  *)
(* the book; a position is put back only after calls on places, so that    *)
(* the book it is of is still there.                                       *)
(***************************************************************************)
TypeAt(t, i) ==
    /\ t[i].call \in CallNames
    /\ t[i].call \notin {"clearAll", "pruneRecents"} => t[i].path \in Paths
    /\ t[i].call \in {"rename", "moveCache"} => t[i].to \in Paths
    /\ t[i].call \in {"write", "put"} => t[i].book \in Books \cup {Torn}

RemoveAt(t, i) ==
    t[i].call = "remove" =>
        \/ Cleared(t, i)
        \/ (Is(t, i + 1, "write", t[i].path) \/ Is(t, i + 1, "put", t[i].path))
           /\ Cleared(t, i + 1)
        \/ i = 1 \/ Is(t, i - 1, "clear", t[i].path)
WriteAt(t, i) ==
    t[i].call = "write" =>
        Cleared(t, i) \/ i = 1 \/ Is(t, i - 1, "remove", t[i].path)
PutAt(t, i) == t[i].call = "put" => Cleared(t, i)
Follows(t, i) == /\ Is(t, i + 1, "moveCache", t[i].path)
                 /\ t[i + 1].to = t[i].to
RenameAt(t, i) ==
    t[i].call = "rename" =>
        Follows(t, i) \/ i = 1 \/ Is(t, i - 1, "clear", t[i].path)
MoveCacheAt(t, i) ==
    t[i].call = "moveCache" =>
        i = 1 \/ (t[i - 1].call = "rename" /\ Follows(t, i - 1))
PlaceAt(t, i) ==
    /\ t[i].call = "dropPlace" => Is(t, i + 1, "putPlace", t[i].path)
    /\ t[i].call = "putPlace" => \A j \in 1..i : t[j].call \in PlaceCalls
    /\ t[i].call = "build" => Len(t) = 1

Shape(t) == \A i \in DOMAIN t :
    /\ TypeAt(t, i) /\ RemoveAt(t, i) /\ WriteAt(t, i) /\ PutAt(t, i)
    /\ RenameAt(t, i) /\ MoveCacheAt(t, i) /\ PlaceAt(t, i)

\* The cache of a path is of the book there; the one of p is of the book at q.
Fits(p) ==
    /\ data[p] \in {Nothing, file[p]} \cup (IF Exists(p) THEN {Torn} ELSE {})
    /\ place[p] \in {Nothing, file[p]}
Carried(p, q) ==
    /\ ~Exists(p)
    /\ data[p] \in {Nothing, file[q]} \cup (IF Exists(q) THEN {Torn} ELSE {})
    /\ place[p] \in {Nothing, file[q]}
\* A file may come to p without more ado.
Bare(p) == p \in leftBehind \/ ~HasCache(p)

\* The next call puts the cache of p in order.
Exposed(p) ==
    /\ todo # <<>> /\ This.path = p
    /\ \/ This.call \in {"clear", "moveCache"}
       \/ This.call = "write" /\ Cleared(todo, 1)
       \/ This.call = "put" /\ ~Exists(p)

\* What the next call finds on the card.
HeadOK ==
    todo # <<>> =>
        /\ This.call = "remove" =>
              \/ Cleared(todo, 1) \/ Bare(This.path)
              \/ /\ Is(todo, 2, "write", This.path) \/ Is(todo, 2, "put", This.path)
                 /\ Cleared(todo, 2)
        /\ This.call = "write" => Cleared(todo, 1) \/ Bare(This.path)
        /\ This.call = "rename" => Follows(todo, 1) \/ Bare(This.path)
        /\ This.call = "moveCache" =>
              This.path \in leftBehind \/ Carried(This.path, This.to)
        /\ This.call = "build" => Exists(This.path)
PlacesOK ==
    \A i \in DOMAIN todo :
        todo[i].call = "putPlace" => todo[i].book = file[todo[i].path]

CardOK ==
    /\ file \in [Paths -> Books \cup {Torn, Nothing}]
    /\ data \in [Paths -> Books \cup {Torn, Nothing}]
    /\ place \in [Paths -> Books \cup {Torn, Nothing}]
    /\ leftBehind \subseteq Paths
    /\ \A p \in Paths \ leftBehind : Exposed(p) \/ Fits(p)
CallRecords == [call : CallNames, path : Paths \cup {Nothing},
                to : Paths \cup Books \cup {Torn, Nothing},
                book : Books \cup {Torn, Nothing}]
TodoOK == /\ todo \in Seq(CallRecords) /\ Shape(todo) /\ HeadOK /\ PlacesOK
ScreenOK ==
    /\ screen \in {"opening", "reader", "launching"} => reading \in Paths
    /\ running <=> screen = "web"
    /\ screen \in {"restarting", "off"} => todo = <<>>
    /\ owner # NoClient => running /\ target \in Paths /\ Bare(target)
    /\ running => \A i \in DOMAIN todo : todo[i].call \in ServerCalls
IInv == CardOK /\ TodoOK /\ ScreenOK

-----------------------------------------------------------------------------
(* The calls still to be made. *)

LEMMA RestOf ==
  ASSUME NEW t \in Seq(CallRecords), t # <<>>
  PROVE  /\ Tail(t) \in Seq(CallRecords)
         /\ Len(t) \in Nat \ {0} /\ Len(Tail(t)) = Len(t) - 1
         /\ DOMAIN t = 1..Len(t) /\ DOMAIN Tail(t) = 1..(Len(t) - 1)
         /\ \A i \in DOMAIN Tail(t) : i + 1 \in DOMAIN t /\ Tail(t)[i] = t[i + 1]
OBVIOUS

LEMMA MoreToDo ==
  ASSUME NEW t \in Seq(CallRecords), 2 \in DOMAIN t
  PROVE  Tail(t) # <<>>
<1>1. Len(t) \in Nat /\ 2 \in 1..Len(t) /\ t # <<>>
  OBVIOUS
<1>2. Len(Tail(t)) = Len(t) - 1
  BY <1>1, RestOf
<1>3. Len(Tail(t)) # 0
  BY <1>1, <1>2
<1>4. Len(<<>>) = 0
  OBVIOUS
<1> QED
  BY <1>3, <1>4

LEMMA StillNext ==
  ASSUME NEW t \in Seq(CallRecords), t # <<>>, NEW i \in DOMAIN Tail(t),
         NEW c, NEW p, Is(t, i + 2, c, p)
  PROVE  Is(Tail(t), i + 1, c, p) /\ Tail(t)[i + 1] = t[i + 2]
<1>1. i + 2 \in 1..Len(t) /\ i \in Nat
  BY RestOf DEF Is
<1>2. i + 1 \in DOMAIN Tail(t)
  BY <1>1, RestOf
<1>3. Tail(t)[i + 1] = t[(i + 1) + 1] /\ (i + 1) + 1 = i + 2
  BY <1>1, <1>2, RestOf
<1> QED
  BY <1>2, <1>3 DEF Is

LEMMA StillBefore ==
  ASSUME NEW t \in Seq(CallRecords), t # <<>>, NEW i \in DOMAIN Tail(t), i # 1
  PROVE  i - 1 \in DOMAIN Tail(t) /\ Tail(t)[i - 1] = t[i]
<1>1. i - 1 \in DOMAIN Tail(t) /\ (i - 1) + 1 = i
  BY RestOf
<1> QED
  BY <1>1, RestOf

LEMMA RestHasShape ==
  ASSUME NEW t \in Seq(CallRecords), t # <<>>, Shape(t)
  PROVE  Shape(Tail(t))
<1> DEFINE u == Tail(t)
<1> SUFFICES ASSUME NEW i \in DOMAIN u
             PROVE  /\ TypeAt(u, i) /\ RemoveAt(u, i) /\ WriteAt(u, i)
                    /\ PutAt(u, i) /\ RenameAt(u, i) /\ MoveCacheAt(u, i)
                    /\ PlaceAt(u, i)
  BY DEF Shape
<1> DEFINE k == i + 1
<1>1. k \in DOMAIN t /\ u[i] = t[k] /\ k # 1 /\ k - 1 = i /\ k + 1 = i + 2
      /\ i \in Nat \ {0}
  BY RestOf
<1>2. /\ TypeAt(t, k) /\ RemoveAt(t, k) /\ WriteAt(t, k) /\ PutAt(t, k)
      /\ RenameAt(t, k) /\ MoveCacheAt(t, k) /\ PlaceAt(t, k)
  BY <1>1 DEF Shape
<1>3. \A c, p : Is(t, k + 1, c, p) => Is(u, i + 1, c, p) /\ u[i + 1] = t[k + 1]
  BY <1>1, StillNext
<1>4. \A c, p : i # 1 /\ Is(t, k - 1, c, p) => Is(u, i - 1, c, p)
  BY <1>1, StillBefore DEF Is
<1>5. Cleared(t, k) => Cleared(u, i)
  BY <1>1, <1>3 DEF Cleared
<1>6. ASSUME NEW c, Is(t, k + 1, c, t[k].path), Cleared(t, k + 1)
      PROVE  Cleared(u, i + 1)
  <2>1. u[i + 1] = t[k + 1] /\ i + 1 \in DOMAIN u
    BY <1>1, <1>3, <1>6 DEF Is
  <2>2. Is(t, (i + 1) + 2, "clear", t[k + 1].path)
    <3>1. (k + 1) + 1 = (i + 1) + 2
      BY <1>1
    <3> QED
      BY <1>6, <3>1 DEF Cleared
  <2>3. Is(u, (i + 1) + 1, "clear", t[k + 1].path)
    BY <2>1, <2>2, StillNext
  <2> QED
    BY <2>1, <2>3 DEF Cleared
<1>7. TypeAt(u, i)
  BY <1>1, <1>2 DEF TypeAt
<1>8. RemoveAt(u, i)
  BY <1>1, <1>2, <1>3, <1>4, <1>5, <1>6 DEF RemoveAt
<1>9. WriteAt(u, i)
  BY <1>1, <1>2, <1>4, <1>5 DEF WriteAt
<1>10. PutAt(u, i)
  BY <1>1, <1>2, <1>5 DEF PutAt
<1>11. RenameAt(u, i)
  <2>1. Follows(t, k) => Follows(u, i)
    BY <1>1, <1>3 DEF Follows
  <2> QED
    BY <1>1, <1>2, <1>4, <2>1 DEF RenameAt
<1>12. MoveCacheAt(u, i)
  <2>1. CASE u[i].call = "moveCache" /\ i # 1
    <3>1. t[i].call = "rename" /\ Follows(t, i)
      BY <1>1, <1>2, <2>1 DEF MoveCacheAt
    <3>2. u[i - 1] = t[i] /\ i - 1 \in DOMAIN u
      BY <2>1, StillBefore
    <3>3. u[i] = t[i + 1] /\ (i - 1) + 1 = i
      BY <1>1
    <3> QED
      BY <3>1, <3>2, <3>3 DEF MoveCacheAt, Follows, Is
  <2> QED
    BY <2>1 DEF MoveCacheAt
<1>13. PlaceAt(u, i)
  <2>1. u[i].call = "dropPlace" => Is(u, i + 1, "putPlace", u[i].path)
    BY <1>1, <1>2, <1>3 DEF PlaceAt
  <2>2. ASSUME u[i].call = "putPlace", NEW j \in 1..i
        PROVE  u[j].call \in PlaceCalls
    <3>1. j + 1 \in 1..k /\ j \in DOMAIN u
      BY <1>1, RestOf
    <3>2. u[j] = t[j + 1]
      BY <3>1, RestOf
    <3> QED
      BY <1>1, <1>2, <2>2, <3>1, <3>2 DEF PlaceAt
  <2>3. u[i].call # "build"
    <3>1. Len(t) # 1
      BY <1>1, RestOf
    <3> QED
      BY <1>1, <1>2, <3>1 DEF PlaceAt
  <2> QED
    BY <2>1, <2>2, <2>3 DEF PlaceAt
<1> QED
  BY <1>7, <1>8, <1>9, <1>10, <1>11, <1>12, <1>13

-----------------------------------------------------------------------------
(* A call is made: what the card has to be like for the next one. *)

LEMMA Facts ==
  ASSUME IInv
  PROVE  /\ file \in [Paths -> Books \cup {Torn, Nothing}]
         /\ data \in [Paths -> Books \cup {Torn, Nothing}]
         /\ place \in [Paths -> Books \cup {Torn, Nothing}]
         /\ leftBehind \subseteq Paths
         /\ \A p \in Paths \ leftBehind : Exposed(p) \/ Fits(p)
         /\ todo \in Seq(CallRecords) /\ Shape(todo) /\ HeadOK /\ PlacesOK
BY DEF IInv, CardOK, TodoOK

LEMMA ShapeAt ==
  ASSUME IInv, NEW i \in DOMAIN todo
  PROVE  /\ TypeAt(todo, i) /\ RemoveAt(todo, i) /\ WriteAt(todo, i)
         /\ PutAt(todo, i) /\ RenameAt(todo, i) /\ MoveCacheAt(todo, i)
         /\ PlaceAt(todo, i)
<1>1. Shape(todo)
  BY Facts
<1> QED
  BY <1>1 DEF Shape

LEMMA FirstCall ==
  ASSUME IInv, todo # <<>>
  PROVE  /\ 1 \in DOMAIN todo /\ Len(todo) \in Nat \ {0}
         /\ TypeAt(todo, 1) /\ RemoveAt(todo, 1) /\ WriteAt(todo, 1)
         /\ PutAt(todo, 1) /\ RenameAt(todo, 1) /\ MoveCacheAt(todo, 1)
         /\ PlaceAt(todo, 1)
<1>1. todo \in Seq(CallRecords)
  BY Facts
<1>2. 1 \in DOMAIN todo /\ Len(todo) \in Nat \ {0}
  BY <1>1, RestOf
<1> QED
  BY <1>2, ShapeAt

\* The second call is the next one, the third the one after it.
LEMMA SecondBecomesFirst ==
  ASSUME IInv, todo # <<>>, todo' = Tail(todo), todo' # <<>>
  PROVE  /\ 1 \in DOMAIN todo' /\ 2 \in DOMAIN todo /\ todo'[1] = todo[2]
         /\ Len(todo) # 1
         /\ \A c, p : Is(todo, 3, c, p) => Is(todo', 2, c, p) /\ todo'[2] = todo[3]
         /\ Cleared(todo, 2) => Cleared(todo', 1)
         /\ Is(todo, 3, "write", todo[2].path) \/ Is(todo, 3, "put", todo[2].path)
            => (Cleared(todo, 3) => Cleared(todo', 2))
<1>1. todo \in Seq(CallRecords) /\ Tail(todo) # <<>> /\ Tail(todo) \in Seq(CallRecords)
  BY Facts, RestOf
<1>2. Len(Tail(todo)) \in Nat \ {0} /\ 1 \in DOMAIN Tail(todo)
  BY <1>1, RestOf
<1>3. 1 + 1 \in DOMAIN todo /\ Tail(todo)[1] = todo[1 + 1]
  BY <1>1, <1>2, RestOf
<1>4. Len(todo) # 1
  BY <1>1, <1>2, RestOf
<1>5. ASSUME NEW c, NEW p, Is(todo, 3, c, p)
      PROVE  Is(todo', 2, c, p) /\ todo'[2] = todo[3]
  <2>1. Is(todo, 1 + 2, c, p) /\ 1 + 2 = 3 /\ 1 + 1 = 2
    BY <1>5
  <2>2. Is(Tail(todo), 1 + 1, c, p) /\ Tail(todo)[1 + 1] = todo[1 + 2]
    BY <1>1, <1>2, <2>1, StillNext
  <2> QED
    BY <2>1, <2>2
<1>6. Cleared(todo, 2) => Cleared(todo', 1)
  BY <1>3, <1>5 DEF Cleared
<1>7. ASSUME NEW c, NEW p, Is(todo, 3, c, p), Cleared(todo, 3) PROVE Cleared(todo', 2)
  <2>1. Is(todo', 2, c, p) /\ todo'[2] = todo[3]
    BY <1>5, <1>7
  <2>2. Is(todo, 2 + 2, "clear", todo[3].path) /\ 2 \in DOMAIN Tail(todo)
    BY <1>7, <2>1 DEF Cleared, Is
  <2>3. Is(Tail(todo), 2 + 1, "clear", todo[3].path)
    BY <1>1, <2>2, StillNext
  <2> QED
    BY <2>1, <2>3 DEF Cleared
<1>8. 1 \in DOMAIN todo' /\ 2 \in DOMAIN todo /\ todo'[1] = todo[2]
  <2>1. 1 + 1 = 2
    OBVIOUS
  <2> QED
    BY <1>2, <1>3, <2>1
<1> QED
  BY <1>4, <1>5, <1>6, <1>7, <1>8

\* Whether the next call finds what it needs.
LEMMA NextHead ==
  ASSUME IInv, todo # <<>>, todo' = Tail(todo), todo' # <<>>,
         NEW p, p = This.path, NEW q, q = This.to,
         This.call = "clear" => Bare(p)',
         This.call = "remove" /\ Bare(p) => Bare(p)',
         This.call = "rename" /\ Follows(todo, 1) =>
             p \in leftBehind' \/ Carried(p, q)'
  PROVE  HeadOK'
<1>1. /\ 1 \in DOMAIN todo' /\ 2 \in DOMAIN todo /\ todo'[1] = todo[2]
      /\ Len(todo) # 1 /\ 1 \in DOMAIN todo
  BY SecondBecomesFirst, FirstCall
<1>2. /\ RemoveAt(todo, 2) /\ WriteAt(todo, 2) /\ RenameAt(todo, 2)
      /\ MoveCacheAt(todo, 2) /\ PlaceAt(todo, 2)
  BY <1>1, ShapeAt
<1> PICK r, u : r = todo[2].path /\ u = todo[2].to
  OBVIOUS
<1>3. \A c : Is(todo, 1, c, r) <=> This.call = c /\ p = r
  BY <1>1 DEF Is, This
<1>4. todo'[1].call = "remove" =>
        \/ Cleared(todo', 1) \/ Bare(r)'
        \/ /\ Is(todo', 2, "write", r) \/ Is(todo', 2, "put", r)
           /\ Cleared(todo', 2)
  <2> SUFFICES ASSUME todo[2].call = "remove", ~Cleared(todo, 2) PROVE
        \/ Bare(r)'
        \/ /\ Is(todo', 2, "write", r) \/ Is(todo', 2, "put", r)
           /\ Cleared(todo', 2)
    BY <1>1, SecondBecomesFirst
  <2>1. \/ (Is(todo, 3, "write", r) \/ Is(todo, 3, "put", r)) /\ Cleared(todo, 3)
        \/ Is(todo, 1, "clear", r)
    BY <1>2 DEF RemoveAt
  <2>2. CASE Is(todo, 1, "clear", r)
    BY <1>3, <2>2
  <2>3. CASE (Is(todo, 3, "write", r) \/ Is(todo, 3, "put", r)) /\ Cleared(todo, 3)
    BY <2>3, SecondBecomesFirst
  <2> QED
    BY <2>1, <2>2, <2>3
<1>5. todo'[1].call = "write" => Cleared(todo', 1) \/ Bare(r)'
  <2> SUFFICES ASSUME todo[2].call = "write", ~Cleared(todo, 2) PROVE Bare(r)'
    BY <1>1, SecondBecomesFirst
  <2>1. Is(todo, 1, "remove", r)
    BY <1>2 DEF WriteAt
  <2>2. This.call = "remove" /\ p = r
    BY <1>3, <2>1
  <2>3. ~Cleared(todo, 1)
    BY <1>1 DEF Cleared, Is
  <2>4. Bare(p)
    <3>1. HeadOK
      BY Facts
    <3>2. \/ Bare(This.path)
          \/ (Is(todo, 2, "write", This.path) /\ Cleared(todo, 2))
          \/ Is(todo, 2, "put", This.path)
      BY <2>2, <2>3, <3>1, Zenon DEF HeadOK
    <3> QED
      BY <3>2 DEF Is
  <2> QED
    BY <2>2, <2>4
<1>6. todo'[1].call = "rename" => Follows(todo', 1) \/ Bare(r)'
  <2>1. Follows(todo, 2) => Follows(todo', 1)
    <3>1. 1 + 1 = 2 /\ 2 + 1 = 3
      OBVIOUS
    <3> QED
      BY <1>1, <3>1, SecondBecomesFirst DEF Follows
  <2> QED
    BY <1>1, <1>2, <1>3, <2>1 DEF RenameAt
<1>7. todo'[1].call = "moveCache" =>
        r \in leftBehind' \/ Carried(r, u)'
  <2> SUFFICES ASSUME todo[2].call = "moveCache"
               PROVE  r \in leftBehind' \/ Carried(r, u)'
    BY <1>1
  <2>1. todo[1].call = "rename" /\ Follows(todo, 1)
    BY <1>2 DEF MoveCacheAt
  <2>2. r = p /\ u = q /\ This.call = "rename"
    BY <2>1 DEF Follows, Is, This
  <2> QED
    BY <2>1, <2>2
<1>8. todo'[1].call # "build"
  BY <1>1, <1>2 DEF PlaceAt
<1> QED
  BY <1>1, <1>4, <1>5, <1>6, <1>7, <1>8 DEF HeadOK, This

CardTyped ==
    /\ file \in [Paths -> Books \cup {Torn, Nothing}]
    /\ data \in [Paths -> Books \cup {Torn, Nothing}]
    /\ place \in [Paths -> Books \cup {Torn, Nothing}]
    /\ leftBehind \subseteq Paths

\* A path none of whose variables changes, and which was not exposed.
LEMMA StillFits ==
  ASSUME IInv, NEW p \in Paths, p \notin leftBehind, ~Exposed(p),
         file'[p] = file[p], data'[p] = data[p], place'[p] = place[p]
  PROVE  Fits(p)'
<1>1. Fits(p)
  BY Facts
<1> QED
  BY <1>1 DEF Fits, Exists

\* The screens and the server stand still while the calls are made.
LEMMA ScreenStays ==
  ASSUME IInv, UNCHANGED <<libraryVars, serverVars>>,
         todo # <<>>, NEW c, c = This.call,
         todo' \in {Tail(todo), <<>>},
         c \in ServerCalls => \A p \in Paths : Bare(p) => Bare(p)'
  PROVE  ScreenOK'
<1>1. UNCHANGED <<screen, reading, running, owner, target>>
  BY DEF libraryVars, readerVars, serverVars
<1>2. ScreenOK
  BY DEF IInv
<1>3. running => c \in ServerCalls
  BY <1>2, FirstCall DEF ScreenOK, This
<1>4. owner' # NoClient => running' /\ target' \in Paths /\ Bare(target)'
  <2> SUFFICES ASSUME owner # NoClient
               PROVE  running /\ target \in Paths /\ Bare(target)'
    BY <1>1
  <2>1. running /\ target \in Paths /\ Bare(target)
    BY <1>2 DEF ScreenOK
  <2> PICK p \in Paths : p = target
    BY <2>1
  <2>2. Bare(p)'
    BY <1>3, <2>1
  <2> QED
    BY <1>1, <2>1, <2>2 DEF Bare, HasCache
<1>5. running' => \A i \in DOMAIN todo' : todo'[i].call \in ServerCalls
  <2> SUFFICES ASSUME running, NEW i \in DOMAIN todo'
               PROVE  todo'[i].call \in ServerCalls
    BY <1>1
  <2>1. todo \in Seq(CallRecords) /\ todo' = Tail(todo)
    BY Facts
  <2>2. i \in DOMAIN Tail(todo) /\ todo'[i] = todo[i + 1] /\ i + 1 \in DOMAIN todo
    BY <2>1, RestOf
  <2> QED
    BY <1>2, <2>2 DEF ScreenOK
<1>6. screen' \notin {"restarting", "off"}
  BY <1>1, <1>2 DEF ScreenOK
<1> QED
  BY <1>1, <1>2, <1>4, <1>5, <1>6 DEF ScreenOK

\* The handler stops where it is.
LEMMA CallStops ==
  ASSUME IInv, UNCHANGED <<libraryVars, serverVars>>, CardTyped',
         todo # <<>>, NEW c, c = This.call, todo' = <<>>,
         c \in ServerCalls => \A p \in Paths : Bare(p) => Bare(p)',
         \A p \in Paths \ leftBehind' : Fits(p)'
  PROVE  IInv'
<1>1. CardOK'
  BY DEF CardOK, CardTyped
<1>2. TodoOK'
  <2>1. <<>> \in Seq(CallRecords) /\ DOMAIN <<>> = {}
    OBVIOUS
  <2> QED
    BY <2>1 DEF TodoOK, Shape, HeadOK, PlacesOK
<1>3. ScreenOK'
  BY ScreenStays
<1> QED
  BY <1>1, <1>2, <1>3 DEF IInv

\* A call leaves the rest of the handler to be carried out.
LEMMA CallMovesOn ==
  ASSUME IInv, UNCHANGED <<libraryVars, serverVars>>, CardTyped',
         todo # <<>>, NEW c, c = This.call, todo' = Tail(todo),
         NEW p, p = This.path, NEW q, q = This.to,
         c \in PlaceCalls => UNCHANGED file,
         c \in ServerCalls => \A r \in Paths : Bare(r) => Bare(r)',
         c = "clear" => Bare(p)',
         c = "rename" /\ Follows(todo, 1) => p \in leftBehind' \/ Carried(p, q)',
         \A r \in Paths \ leftBehind' : Exposed(r)' \/ Fits(r)'
  PROVE  IInv'
<1>1. CardOK'
  BY DEF CardOK, CardTyped
<1>2. todo \in Seq(CallRecords) /\ Shape(todo) /\ PlacesOK
  BY Facts
<1>3. todo' \in Seq(CallRecords) /\ Shape(todo')
  BY <1>2, RestOf, RestHasShape
<1>4. HeadOK'
  <2>1. CASE todo' = <<>>
    BY <2>1 DEF HeadOK
  <2>2. CASE todo' # <<>>
    <3>1. c = "remove" => p \in Paths
      BY FirstCall DEF TypeAt, This
    <3>2. c = "remove" /\ Bare(p) => Bare(p)'
      BY <3>1 DEF ServerCalls
    <3> QED
      BY <2>2, <3>2, NextHead
  <2> QED
    BY <2>1, <2>2
<1>5. PlacesOK'
  <2> SUFFICES ASSUME NEW i \in DOMAIN todo', todo'[i].call = "putPlace"
               PROVE  todo'[i].book = file'[todo'[i].path]
    BY DEF PlacesOK
  <2>1. i + 1 \in DOMAIN todo /\ todo'[i] = todo[i + 1] /\ i \in Nat
    BY <1>2, RestOf
  <2>2. \A j \in 1..(i + 1) : todo[j].call \in PlaceCalls
    BY <2>1, ShapeAt DEF PlaceAt
  <2>3. file' = file
    BY <2>1, <2>2 DEF This
  <2> QED
    BY <1>2, <2>1, <2>3 DEF PlacesOK
<1>6. ScreenOK'
  BY ScreenStays
<1> QED
  BY <1>1, <1>3, <1>4, <1>5, <1>6 DEF IInv, TodoOK

-----------------------------------------------------------------------------
(* The calls. *)

LEMMA CallHasPath ==
  ASSUME IInv, NEW c, Doing(c)
  PROVE  /\ todo # <<>> /\ This.call = c /\ 1 \in DOMAIN todo
         /\ c \notin {"clearAll", "pruneRecents"} => This.path \in Paths
         /\ c \in {"rename", "moveCache"} => This.to \in Paths
         /\ c \in {"write", "put"} => This.book \in Books \cup {Torn}
BY FirstCall DEF Doing, TypeAt, This

LEMMA NoneExposed ==
  ASSUME IInv, NEW c, Doing(c), c \notin {"clear", "moveCache", "write", "put"}
  PROVE  \A r \in Paths : ~Exposed(r)
BY DEF Exposed, Doing, This

LEMMA OnlyThisExposed ==
  ASSUME NEW p, p = This.path, NEW r, r # p
  PROVE  ~Exposed(r)
BY DEF Exposed

\* After the last call of a handler nothing is exposed.
LEMMA SecondIsCleared ==
  ASSUME IInv, todo # <<>>, todo' = Tail(todo), NEW p, p = This.path,
         Cleared(todo, 1)
  PROVE  Exposed(p)'
<1>1. Is(todo, 2, "clear", p)
  <2>1. 1 + 1 = 2
    OBVIOUS
  <2> QED
    BY <2>1 DEF Cleared, This
<1>2. todo \in Seq(CallRecords) /\ 2 \in DOMAIN todo
  BY <1>1, Facts DEF Is
<1>3. todo' # <<>>
  BY <1>2, MoreToDo
<1>4. todo'[1] = todo[2]
  BY <1>3, SecondBecomesFirst
<1> QED
  BY <1>1, <1>3, <1>4 DEF Is, Exposed, This

\* A call that leaves the card alone, done or not.
LEMMA NothingDone ==
  ASSUME IInv, UNCHANGED <<libraryVars, serverVars>>,
         UNCHANGED <<file, cacheVars, leftBehind>>, NEW c, Doing(c),
         c \notin {"clear", "moveCache", "write", "put", "rename"},
         todo' \in {Tail(todo), <<>>}
  PROVE  IInv'
<1>1. UNCHANGED <<file, data, place, leftBehind>>
  BY DEF cacheVars
<1>2. CardTyped'
  BY <1>1, Facts DEF CardTyped
<1>3. \A r \in Paths \ leftBehind' : Fits(r)'
  BY <1>1, NoneExposed, StillFits
<1>4. \A r \in Paths : Bare(r) => Bare(r)'
  BY <1>1 DEF Bare, HasCache
<1>5. todo # <<>> /\ This.call = c
  BY DEF Doing, This
<1>6. CASE todo' = <<>>
  BY <1>2, <1>3, <1>4, <1>5, <1>6, CallStops
<1>7. CASE todo' = Tail(todo)
  BY <1>1, <1>2, <1>3, <1>4, <1>5, <1>7, CallMovesOn
<1> QED
  BY <1>6, <1>7

LEMMA RemoveKeeps ==
  ASSUME IInv, Remove, UNCHANGED <<libraryVars, serverVars>>
  PROVE  IInv'
<1>1. Doing("remove") /\ todo' = Tail(todo)
      /\ UNCHANGED <<data, place, leftBehind>>
  BY DEF Remove, Goes, cacheVars
<1> PICK p \in Paths : p = This.path
  BY <1>1, CallHasPath
<1>2. file' = [file EXCEPT ![p] = Nothing]
  BY DEF Remove, At
<1>3. CardTyped'
  BY <1>1, <1>2, Facts DEF CardTyped
<1>4. ASSUME NEW r \in Paths \ leftBehind' PROVE Exposed(r)' \/ Fits(r)'
  <2>1. CASE r # p
    <3>1. file'[r] = file[r]
      BY <1>2, <2>1, Facts
    <3> QED
      BY <1>1, <1>4, <3>1, NoneExposed, StillFits
  <2>2. CASE r = p
    <3>1. HeadOK /\ This.call = "remove" /\ todo # <<>>
      BY <1>1, Facts, CallHasPath
    <3>2. CASE Cleared(todo, 1)
      BY <1>1, <2>2, <3>1, <3>2, SecondIsCleared
    <3>3. CASE Bare(p)
      <4>1. data[p] = Nothing /\ place[p] = Nothing
        BY <1>1, <1>4, <2>2, <3>3 DEF Bare, HasCache
      <4> QED
        BY <1>1, <2>2, <4>1 DEF Fits
    <3>4. CASE /\ Is(todo, 2, "write", p) \/ Is(todo, 2, "put", p)
               /\ Cleared(todo, 2)
      <4>1. 2 \in DOMAIN todo /\ todo \in Seq(CallRecords)
        BY <3>4, Facts DEF Is
      <4>2. todo' # <<>>
        BY <1>1, <4>1, MoreToDo
      <4>3. todo'[1] = todo[2] /\ Cleared(todo', 1)
        BY <1>1, <3>1, <3>4, <4>2, SecondBecomesFirst
      <4>4. ~Exists(p)'
        BY <1>2, Facts DEF Exists
      <4> QED
        BY <2>2, <3>4, <4>2, <4>3, <4>4 DEF Is, Exposed, This
    <3> QED
      BY <3>1, <3>2, <3>3, <3>4 DEF HeadOK
  <2> QED
    BY <2>1, <2>2
<1>5. \A r \in Paths : Bare(r) => Bare(r)'
  BY <1>1 DEF Bare, HasCache
<1> QED
  BY <1>1, <1>3, <1>4, <1>5, CallMovesOn, CallHasPath DEF PlaceCalls

LEMMA WriteKeeps ==
  ASSUME IInv, Write, UNCHANGED <<libraryVars, serverVars>>
  PROVE  IInv'
<1>1. Doing("write") /\ todo' = Tail(todo)
      /\ UNCHANGED <<data, place, leftBehind>>
  BY DEF Write, Goes, cacheVars
<1> PICK p \in Paths, b \in Books \cup {Torn} : p = This.path /\ b = This.book
  BY <1>1, CallHasPath
<1>2. file' = [file EXCEPT ![p] = b]
  BY DEF Write, At
<1>3. CardTyped'
  BY <1>1, <1>2, Facts DEF CardTyped
<1>4. ASSUME NEW r \in Paths \ leftBehind' PROVE Exposed(r)' \/ Fits(r)'
  <2>1. CASE r # p
    <3>1. file'[r] = file[r]
      BY <1>2, <2>1, Facts
    <3> QED
      BY <1>1, <1>4, <2>1, <3>1, OnlyThisExposed, StillFits
  <2>2. CASE r = p
    <3>1. HeadOK /\ This.call = "write" /\ todo # <<>>
      BY <1>1, Facts, CallHasPath
    <3>2. CASE Cleared(todo, 1)
      BY <1>1, <2>2, <3>1, <3>2, SecondIsCleared
    <3>3. CASE Bare(p)
      <4>1. data[p] = Nothing /\ place[p] = Nothing
        BY <1>1, <1>4, <2>2, <3>3 DEF Bare, HasCache
      <4> QED
        BY <1>1, <2>2, <4>1 DEF Fits
    <3> QED
      BY <3>1, <3>2, <3>3 DEF HeadOK
  <2> QED
    BY <2>1, <2>2
<1>5. \A r \in Paths : Bare(r) => Bare(r)'
  BY <1>1 DEF Bare, HasCache
<1> QED
  BY <1>1, <1>3, <1>4, <1>5, CallMovesOn, CallHasPath DEF PlaceCalls

\* A call that fails on one path, whose cache is then known to be left behind.
LEMMA LeavesBehind ==
  ASSUME IInv, UNCHANGED <<libraryVars, serverVars>>, CardTyped',
         NEW c \in {"write", "put", "clear", "moveCache"}, Doing(c),
         todo' \in {Tail(todo), <<>>}, NEW p \in Paths, p = This.path,
         leftBehind' = leftBehind \cup {p}, c \in PlaceCalls => UNCHANGED file,
         \A r \in Paths : r # p => file'[r] = file[r] /\ data'[r] = data[r]
                                   /\ place'[r] = place[r]
  PROVE  IInv'
<1>1. \A r \in Paths \ leftBehind' : Fits(r)'
  BY OnlyThisExposed, StillFits
<1>2. \A r \in Paths : Bare(r) => Bare(r)'
  <2> TAKE r \in Paths
  <2>1. CASE r = p
    BY <2>1 DEF Bare
  <2>2. CASE r # p
    <3>1. data'[r] = data[r] /\ place'[r] = place[r]
      BY <2>2
    <3> QED
      BY <3>1 DEF Bare, HasCache
  <2> QED
    BY <2>1, <2>2
<1>3. Bare(p)'
  BY DEF Bare
<1>4. todo # <<>> /\ This.call = c
  BY DEF Doing, This
<1>5. CASE todo' = <<>>
  BY <1>1, <1>2, <1>4, <1>5, CallStops
<1>6. CASE todo' = Tail(todo)
  BY <1>1, <1>2, <1>3, <1>4, <1>6, CallMovesOn
<1> QED
  BY <1>5, <1>6

LEMMA WriteFailsKeeps ==
  ASSUME IInv, WriteFails, UNCHANGED <<libraryVars, serverVars>>
  PROVE  IInv'
<1>1. Doing("write") /\ todo' = <<>> /\ UNCHANGED <<data, place>>
  BY DEF WriteFails, Gives, cacheVars
<1> PICK p \in Paths : p = This.path
  BY <1>1, CallHasPath
<1>2. PICK part \in {Nothing, Torn} : file' = [file EXCEPT ![p] = part]
  BY DEF WriteFails, At
<1>3. leftBehind' = leftBehind \cup {p}
  BY DEF WriteFails
<1>4. CardTyped'
  BY <1>1, <1>2, <1>3, Facts DEF CardTyped
<1>5. \A r \in Paths : r # p => file'[r] = file[r]
  BY <1>2, Facts
<1> QED
  BY <1>1, <1>3, <1>4, <1>5, LeavesBehind DEF PlaceCalls

LEMMA RenameKeeps ==
  ASSUME IInv, Rename, UNCHANGED <<libraryVars, serverVars>>
  PROVE  IInv'
<1>1. Doing("rename") /\ todo' = Tail(todo) /\ ~Exists(This.to)
      /\ UNCHANGED <<data, place, leftBehind>>
  BY DEF Rename, Goes, cacheVars
<1> PICK p \in Paths, q \in Paths : p = This.path /\ q = This.to
  BY <1>1, CallHasPath
<1>2. file' = [[file EXCEPT ![q] = file[p]] EXCEPT ![p] = Nothing]
  BY DEF Rename, Moved, At
<1>3. /\ file'[p] = Nothing /\ (q # p => file'[q] = file[p])
      /\ \A r \in Paths : r # p /\ r # q => file'[r] = file[r]
  BY <1>2, Facts
<1>4. CardTyped'
  BY <1>1, <1>2, Facts DEF CardTyped
<1>5. \A r \in Paths \ leftBehind : Fits(r)
  BY <1>1, NoneExposed, Facts
<1>6. q \notin leftBehind => data[q] = Nothing /\ place[q] = Nothing
  BY <1>1, <1>5 DEF Fits, Exists
<1>7. ASSUME p \notin leftBehind PROVE Carried(p, q)'
  <2>1. Fits(p)
    BY <1>5, <1>7
  <2>2. CASE q = p
    BY <1>1, <1>3, <1>6, <1>7, <2>2 DEF Carried, Exists
  <2>3. CASE q # p
    BY <1>1, <1>3, <2>1, <2>3 DEF Carried, Exists, Fits
  <2> QED
    BY <2>2, <2>3
<1>8. ASSUME NEW r \in Paths \ leftBehind' PROVE Exposed(r)' \/ Fits(r)'
  <2>1. CASE r # p /\ r # q
    BY <1>1, <1>3, <1>8, <2>1, NoneExposed, StillFits
  <2>2. CASE r = q /\ q # p
    BY <1>1, <1>6, <1>8, <2>2 DEF Fits
  <2>3. CASE r = p
    <3>1. HeadOK /\ This.call = "rename" /\ todo # <<>>
      BY <1>1, Facts, CallHasPath
    <3>2. CASE Follows(todo, 1)
      <4>1. Is(todo, 2, "moveCache", p)
        <5>1. 1 + 1 = 2
          OBVIOUS
        <5> QED
          BY <3>2, <5>1 DEF Follows, This
      <4>2. todo' # <<>>
        BY <1>1, <4>1, Facts, MoreToDo DEF Is
      <4>3. todo'[1] = todo[2]
        BY <1>1, <3>1, <4>2, SecondBecomesFirst
      <4> QED
        BY <2>3, <4>1, <4>2, <4>3 DEF Is, Exposed, This
    <3>3. CASE Bare(p)
      <4>1. data[p] = Nothing /\ place[p] = Nothing
        BY <1>1, <1>8, <2>3, <3>3 DEF Bare, HasCache
      <4> QED
        BY <1>1, <2>3, <4>1 DEF Fits
    <3> QED
      BY <3>1, <3>2, <3>3 DEF HeadOK
  <2> QED
    BY <2>1, <2>2, <2>3
<1>9. \A r \in Paths : Bare(r) => Bare(r)'
  BY <1>1 DEF Bare, HasCache
<1>10. p \in leftBehind' \/ Carried(p, q)'
  BY <1>1, <1>7
<1> QED
  BY <1>1, <1>4, <1>8, <1>9, <1>10, CallMovesOn, CallHasPath DEF PlaceCalls

LEMMA RenameFailsKeeps ==
  ASSUME IInv, RenameFails, UNCHANGED <<libraryVars, serverVars>>
  PROVE  IInv'
<1>1. Doing("rename") /\ todo' = <<>> /\ UNCHANGED <<file, data, place, leftBehind>>
  BY DEF RenameFails, Gives, cacheVars
<1>2. CardTyped'
  BY <1>1, Facts DEF CardTyped
<1>3. \A r \in Paths \ leftBehind' : Fits(r)'
  BY <1>1, NoneExposed, StillFits
<1>4. \A r \in Paths : Bare(r) => Bare(r)'
  BY <1>1 DEF Bare, HasCache
<1> QED
  BY <1>1, <1>2, <1>3, <1>4, CallStops, CallHasPath

LEMMA PutKeeps ==
  ASSUME IInv, Put, UNCHANGED <<libraryVars, serverVars>>
  PROVE  IInv'
<1>1. Doing("put") /\ todo' = Tail(todo) /\ UNCHANGED <<data, place, leftBehind>>
  BY DEF Put, Goes, cacheVars
<1> PICK p \in Paths, b \in Books \cup {Torn} : p = This.path /\ b = This.book
  BY <1>1, CallHasPath
<1>2. file' = [file EXCEPT ![p] = b]
  BY DEF Put, At
<1>3. CardTyped'
  BY <1>1, <1>2, Facts DEF CardTyped
<1>4. ASSUME NEW r \in Paths \ leftBehind' PROVE Exposed(r)' \/ Fits(r)'
  <2>1. CASE r # p
    <3>1. file'[r] = file[r]
      BY <1>2, <2>1, Facts
    <3> QED
      BY <1>1, <1>4, <2>1, <3>1, OnlyThisExposed, StillFits
  <2>2. CASE r = p
    <3>1. Cleared(todo, 1) /\ todo # <<>>
      BY <1>1, FirstCall, CallHasPath DEF PutAt, This
    <3> QED
      BY <1>1, <2>2, <3>1, SecondIsCleared
  <2> QED
    BY <2>1, <2>2
<1>5. \A r \in Paths : Bare(r) => Bare(r)'
  BY <1>1 DEF Bare, HasCache
<1> QED
  BY <1>1, <1>3, <1>4, <1>5, CallMovesOn, CallHasPath DEF PlaceCalls

LEMMA PutFailsKeeps ==
  ASSUME IInv, PutFails, UNCHANGED <<libraryVars, serverVars>>
  PROVE  IInv'
<1>1. Doing("put") /\ todo' = <<>> /\ UNCHANGED <<file, data, place>>
  BY DEF PutFails, Gives, cacheVars
<1> PICK p \in Paths : p = This.path
  BY <1>1, CallHasPath
<1>2. leftBehind' = IF Exists(p) THEN leftBehind ELSE leftBehind \cup {p}
  BY DEF PutFails
<1>3. CardTyped'
  BY <1>1, <1>2, Facts DEF CardTyped
<1>4. CASE Exists(p)
  <2>1. leftBehind' = leftBehind
    BY <1>2, <1>4
  <2>2. ASSUME NEW r \in Paths PROVE ~Exposed(r)
    BY <1>1, <1>4, CallHasPath DEF Exposed
  <2>3. \A r \in Paths \ leftBehind' : Fits(r)'
    BY <1>1, <2>1, <2>2, StillFits
  <2>4. \A r \in Paths : Bare(r) => Bare(r)'
    BY <1>1, <2>1 DEF Bare, HasCache
  <2> QED
    BY <1>1, <1>3, <2>3, <2>4, CallStops, CallHasPath
<1>5. CASE ~Exists(p)
  BY <1>1, <1>2, <1>3, <1>5, LeavesBehind DEF PlaceCalls
<1> QED
  BY <1>4, <1>5

LEMMA ClearKeeps ==
  ASSUME IInv, Clear, UNCHANGED <<libraryVars, serverVars>>
  PROVE  IInv'
<1>1. Doing("clear") /\ todo' = Tail(todo) /\ UNCHANGED file
  BY DEF Clear, Goes
<1> PICK p \in Paths : p = This.path
  BY <1>1, CallHasPath
<1>2. /\ data' = [data EXCEPT ![p] = Nothing] /\ place' = [place EXCEPT ![p] = Nothing]
      /\ leftBehind' = leftBehind \ {p}
  BY DEF Clear, At
<1>3. data'[p] = Nothing /\ place'[p] = Nothing
  BY <1>2, Facts
<1>4. CardTyped'
  BY <1>1, <1>2, Facts DEF CardTyped
<1>5. \A r \in Paths : r # p => data'[r] = data[r] /\ place'[r] = place[r]
  BY <1>2, Facts
<1>6. ASSUME NEW r \in Paths \ leftBehind' PROVE Fits(r)'
  <2>1. CASE r # p
    BY <1>1, <1>2, <1>5, <1>6, <2>1, OnlyThisExposed, StillFits
  <2>2. CASE r = p
    BY <1>3, <2>2 DEF Fits
  <2> QED
    BY <2>1, <2>2
<1>7. \A r \in Paths : Bare(r) => Bare(r)'
  <2> TAKE r \in Paths
  <2>1. CASE r = p
    BY <1>3, <2>1 DEF Bare, HasCache
  <2>2. CASE r # p
    BY <1>2, <1>5, <2>2 DEF Bare, HasCache
  <2> QED
    BY <2>1, <2>2
<1>8. Bare(p)'
  BY <1>3 DEF Bare, HasCache
<1> QED
  BY <1>1, <1>4, <1>6, <1>7, <1>8, CallMovesOn, CallHasPath

LEMMA ClearFailsKeeps ==
  ASSUME IInv, ClearFails, UNCHANGED <<libraryVars, serverVars>>
  PROVE  IInv'
<1>1. Doing("clear") /\ todo' = Tail(todo) /\ UNCHANGED file
  BY DEF ClearFails, Ignores
<1> PICK p \in Paths : p = This.path
  BY <1>1, CallHasPath
<1>2. PICK d \in {data[p], Nothing}, c \in {place[p], Nothing} :
          /\ data' = [data EXCEPT ![p] = d] /\ place' = [place EXCEPT ![p] = c]
  BY DEF ClearFails, ClearsSome, At
<1>3. leftBehind' = leftBehind \cup {p}
  BY DEF ClearFails
<1>4. CardTyped'
  BY <1>1, <1>2, <1>3, Facts DEF CardTyped
<1>5. \A r \in Paths : r # p => data'[r] = data[r] /\ place'[r] = place[r]
  BY <1>2, Facts
<1> QED
  BY <1>1, <1>3, <1>4, <1>5, LeavesBehind

LEMMA ClearAllKeeps ==
  ASSUME IInv, ClearAll, UNCHANGED <<libraryVars, serverVars>>
  PROVE  IInv'
<1>1. Doing("clearAll") /\ todo' = Tail(todo) /\ UNCHANGED <<file, place, leftBehind>>
  BY DEF ClearAll, Goes
<1>2. data' = [p \in Paths |-> Nothing]
  BY DEF ClearAll
<1>3. CardTyped'
  BY <1>1, <1>2, Facts DEF CardTyped
<1>4. ASSUME NEW r \in Paths \ leftBehind' PROVE Fits(r)'
  <2>1. Fits(r)
    BY <1>1, <1>4, NoneExposed, Facts
  <2>2. data'[r] = Nothing
    BY <1>2
  <2> QED
    BY <1>1, <2>1, <2>2 DEF Fits
<1> QED
  BY <1>1, <1>3, <1>4, CallMovesOn, CallHasPath DEF ServerCalls

LEMMA BuildKeeps ==
  ASSUME IInv, Build, UNCHANGED <<libraryVars, serverVars>>
  PROVE  IInv'
<1>1. Doing("build") /\ todo' = Tail(todo) /\ UNCHANGED <<file, place, leftBehind>>
  BY DEF Build, Goes
<1> PICK p \in Paths : p = This.path
  BY <1>1, CallHasPath
<1>2. data' = [data EXCEPT ![p] = file[p]]
  BY DEF Build, At
<1>3. CardTyped'
  BY <1>1, <1>2, Facts DEF CardTyped
<1>4. ASSUME NEW r \in Paths \ leftBehind' PROVE Fits(r)'
  <2>1. Fits(r)
    BY <1>1, <1>4, NoneExposed, Facts
  <2>2. data'[r] \in {data[r], file[r]}
    BY <1>2, Facts
  <2> QED
    BY <1>1, <2>1, <2>2 DEF Fits, Exists
<1> QED
  BY <1>1, <1>3, <1>4, CallMovesOn, CallHasPath DEF ServerCalls

\* progress.bin is dropped, or put back as a position of the book that is there.
LEMMA PlaceKeeps ==
  ASSUME IInv, DropPlace \/ PutPlace, UNCHANGED <<libraryVars, serverVars>>
  PROVE  IInv'
<1>1. PICK c \in {"dropPlace", "putPlace"} :
          /\ Doing(c) /\ todo' = Tail(todo) /\ UNCHANGED <<file, data, leftBehind>>
          /\ place' = At(place, This.path,
                         IF c = "dropPlace" THEN Nothing ELSE This.book)
  BY DEF DropPlace, PutPlace, Goes
<1> PICK p \in Paths : p = This.path
  BY <1>1, CallHasPath
<1>2. PICK b \in {Nothing, file[p]} : place' = [place EXCEPT ![p] = b]
  <2>1. c = "putPlace" => This.book = file[p]
    BY <1>1, CallHasPath, Facts DEF PlacesOK, This
  <2> QED
    BY <1>1, <2>1 DEF At
<1>3. CardTyped'
  BY <1>1, <1>2, Facts DEF CardTyped
<1>4. ASSUME NEW r \in Paths \ leftBehind' PROVE Fits(r)'
  <2>1. Fits(r)
    BY <1>1, <1>4, NoneExposed, Facts
  <2>2. place'[r] \in {place[r], Nothing, file[r]}
    BY <1>2, Facts
  <2> QED
    BY <1>1, <2>1, <2>2 DEF Fits, Exists
<1> QED
  BY <1>1, <1>3, <1>4, CallMovesOn, CallHasPath DEF ServerCalls

\* After the pair that saves a position no call relies on the one before it.
LEMMA AfterPutPlace ==
  ASSUME NEW u \in Seq(CallRecords), u # <<>>, Shape(u), u[1].call = "putPlace",
         NEW v, v = Tail(u), v # <<>>
  PROVE  /\ v[1].call = "remove" =>
               \/ Cleared(v, 1)
               \/ (Is(v, 2, "write", v[1].path) \/ Is(v, 2, "put", v[1].path))
                  /\ Cleared(v, 2)
         /\ v[1].call = "write" => Cleared(v, 1)
         /\ v[1].call = "rename" => Follows(v, 1)
         /\ v[1].call \notin {"moveCache", "build"}
<1>1. v \in Seq(CallRecords) /\ 1 \in DOMAIN v /\ Len(u) # 1
  BY RestOf
<1>2. 2 \in DOMAIN u /\ v[1] = u[2]
  <2>1. 1 + 1 \in DOMAIN u /\ v[1] = u[1 + 1] /\ 1 + 1 = 2
    BY <1>1, RestOf
  <2> QED
    BY <2>1
<1>3. /\ RemoveAt(u, 2) /\ WriteAt(u, 2) /\ RenameAt(u, 2)
      /\ MoveCacheAt(u, 2) /\ PlaceAt(u, 2)
  BY <1>2 DEF Shape
<1>4. 2 # 1 /\ 2 - 1 = 1 /\ 2 + 1 = 3 /\ 1 + 1 = 2 /\ 1 + 2 = 3 /\ 2 + 2 = 4
  OBVIOUS
<1>5. ASSUME NEW c, NEW p, Is(u, 3, c, p)
      PROVE  Is(v, 2, c, p) /\ v[2] = u[3] /\ 2 \in DOMAIN v
  <2>1. Is(u, 1 + 2, c, p)
    BY <1>4, <1>5
  <2>2. Is(v, 1 + 1, c, p) /\ v[1 + 1] = u[1 + 2]
    BY <1>1, <2>1, StillNext
  <2> QED
    BY <1>4, <2>2 DEF Is
<1>6. ASSUME NEW c, NEW p, Is(u, 3, c, p), Cleared(u, 3) PROVE Cleared(v, 2)
  <2>1. Is(u, 2 + 2, "clear", u[3].path) /\ 2 \in DOMAIN v /\ v[2] = u[3]
    BY <1>4, <1>5, <1>6 DEF Cleared, Is
  <2>2. Is(v, 2 + 1, "clear", u[3].path)
    BY <2>1, StillNext
  <2> QED
    BY <2>1, <2>2 DEF Cleared
<1>7. Cleared(u, 2) => Cleared(v, 1)
  BY <1>2, <1>4, <1>5 DEF Cleared
<1>8. Follows(u, 2) => Follows(v, 1)
  BY <1>2, <1>4, <1>5 DEF Follows
<1>9. ~Is(u, 1, "clear", u[2].path) /\ ~Is(u, 1, "remove", u[2].path)
  BY DEF Is
<1>10. v[1].call = "remove" =>
               \/ Cleared(v, 1)
               \/ (Is(v, 2, "write", v[1].path) \/ Is(v, 2, "put", v[1].path))
                  /\ Cleared(v, 2)
  BY <1>2, <1>3, <1>4, <1>5, <1>6, <1>7, <1>9 DEF RemoveAt
<1>11. v[1].call = "write" => Cleared(v, 1)
  BY <1>2, <1>3, <1>4, <1>7, <1>9 DEF WriteAt
<1>12. v[1].call = "rename" => Follows(v, 1)
  BY <1>2, <1>3, <1>4, <1>8, <1>9 DEF RenameAt
<1>13. v[1].call \notin {"moveCache", "build"}
  BY <1>1, <1>2, <1>3, <1>4 DEF MoveCacheAt, PlaceAt
<1> QED
  BY <1>10, <1>11, <1>12, <1>13

LEMMA DropPlaceFailsKeeps ==
  ASSUME IInv, DropPlaceFails, UNCHANGED <<libraryVars, serverVars>>
  PROVE  IInv'
<1>1. Doing("dropPlace") /\ todo' = Tail(Tail(todo))
      /\ UNCHANGED <<file, data, place, leftBehind>>
  BY DEF DropPlaceFails, cacheVars
<1>2. todo # <<>> /\ This.call = "dropPlace" /\ 1 \in DOMAIN todo
  BY <1>1, CallHasPath
<1> DEFINE u == Tail(todo)
<1>3. todo \in Seq(CallRecords) /\ u \in Seq(CallRecords) /\ Shape(u)
  BY <1>2, Facts, RestOf, RestHasShape
<1>4. u # <<>> /\ u[1].call = "putPlace"
  <2>1. Is(todo, 2, "putPlace", This.path)
    <3>1. 1 + 1 = 2
      OBVIOUS
    <3> QED
      BY <1>2, <3>1, FirstCall DEF PlaceAt, This
  <2>2. 2 \in DOMAIN todo /\ todo[2].call = "putPlace"
    BY <2>1 DEF Is
  <2>3. u # <<>>
    BY <1>3, <2>2, MoreToDo
  <2>4. 1 \in DOMAIN u
    BY <1>3, <2>3, RestOf
  <2>5. u[1] = todo[1 + 1] /\ 1 + 1 = 2
    BY <1>2, <1>3, <2>4, RestOf
  <2> QED
    BY <2>2, <2>3, <2>5
<1>5. todo' \in Seq(CallRecords) /\ Shape(todo')
  BY <1>1, <1>3, <1>4, RestOf, RestHasShape
<1>6. CardOK'
  <2>1. ASSUME NEW r \in Paths \ leftBehind' PROVE Fits(r)'
    BY <1>1, <2>1, NoneExposed, StillFits
  <2> QED
    BY <1>1, <2>1, Facts DEF CardOK
<1>7. HeadOK'
  <2>1. CASE todo' = <<>>
    BY <2>1 DEF HeadOK
  <2>2. CASE todo' # <<>>
    <3> PICK v : v = todo'
      OBVIOUS
    <3>1. /\ v[1].call = "remove" =>
                \/ Cleared(v, 1)
                \/ (Is(v, 2, "write", v[1].path) \/ Is(v, 2, "put", v[1].path))
                   /\ Cleared(v, 2)
          /\ v[1].call = "write" => Cleared(v, 1)
          /\ v[1].call = "rename" => Follows(v, 1)
          /\ v[1].call \notin {"moveCache", "build"}
      BY <1>1, <1>3, <1>4, <2>2, AfterPutPlace
    <3> QED
      BY <3>1, Zenon DEF HeadOK, This
  <2> QED
    BY <2>1, <2>2
<1>8. PlacesOK'
  <2> SUFFICES ASSUME NEW i \in DOMAIN todo', todo'[i].call = "putPlace"
               PROVE  todo'[i].book = file'[todo'[i].path]
    BY DEF PlacesOK
  <2>1. i + 1 \in DOMAIN u /\ todo'[i] = u[i + 1]
    BY <1>1, <1>3, <1>4, RestOf
  <2>2. (i + 1) + 1 \in DOMAIN todo /\ u[i + 1] = todo[(i + 1) + 1]
    BY <1>2, <1>3, <2>1, RestOf
  <2> QED
    BY <1>1, <2>1, <2>2, Facts DEF PlacesOK
<1>9. ScreenOK'
  <2>1. ScreenOK /\ ~running
    BY <1>2, FirstCall DEF IInv, ScreenOK, ServerCalls, This
  <2>2. UNCHANGED <<screen, reading, running, owner, target>>
    BY DEF libraryVars, readerVars, serverVars
  <2> QED
    BY <1>2, <2>1, <2>2 DEF ScreenOK
<1> QED
  BY <1>5, <1>6, <1>7, <1>8, <1>9 DEF IInv, TodoOK

LEMMA MoveCacheKeeps ==
  ASSUME IInv, MoveCache, UNCHANGED <<libraryVars, serverVars>>
  PROVE  IInv'
<1>1. Doing("moveCache") /\ todo' = Tail(todo) /\ UNCHANGED file /\ CanFollow
  BY DEF MoveCache, Goes
<1> PICK p \in Paths, q \in Paths : p = This.path /\ q = This.to
  BY <1>1, CallHasPath
<1>2. CASE ~HasCache(p)
  <2>1. UNCHANGED <<data, place, leftBehind>>
    BY <1>2 DEF MoveCache, cacheVars
  <2>2. CardTyped'
    BY <1>1, <2>1, Facts DEF CardTyped
  <2>3. ASSUME NEW r \in Paths \ leftBehind' PROVE Fits(r)'
    <3>1. CASE r # p
      BY <1>1, <2>1, <2>3, <3>1, OnlyThisExposed, StillFits
    <3>2. CASE r = p
      BY <1>2, <2>1, <3>2 DEF Fits, HasCache
    <3> QED
      BY <3>1, <3>2
  <2> QED
    BY <1>1, <2>2, <2>3, CallMovesOn, CallHasPath DEF ServerCalls, PlaceCalls
<1>3. CASE HasCache(p)
  <2>1. /\ data' = [[data EXCEPT ![q] = data[p]] EXCEPT ![p] = Nothing]
        /\ place' = [[place EXCEPT ![q] = place[p]] EXCEPT ![p] = Nothing]
        /\ leftBehind' = IF p \in leftBehind THEN (leftBehind \ {p}) \cup {q}
                         ELSE leftBehind
    BY <1>3 DEF MoveCache, FollowedTo, At
  <2>2. q # p
    BY <1>1, <1>3 DEF CanFollow
  <2>3. /\ data'[p] = Nothing /\ place'[p] = Nothing
        /\ data'[q] = data[p] /\ place'[q] = place[p]
        /\ \A r \in Paths : r # p /\ r # q =>
               data'[r] = data[r] /\ place'[r] = place[r]
    BY <2>1, <2>2, Facts
  <2>4. CardTyped'
    BY <1>1, <2>1, Facts DEF CardTyped
  <2>5. ASSUME NEW r \in Paths \ leftBehind' PROVE Fits(r)'
    <3>1. CASE r = p
      BY <2>3, <3>1 DEF Fits
    <3>2. CASE r = q
      <4>1. p \notin leftBehind
        BY <2>1, <2>5, <3>2
      <4>2. Carried(p, q)
        BY <1>1, <4>1, CallHasPath, Facts DEF HeadOK
      <4> QED
        BY <1>1, <2>3, <3>2, <4>2 DEF Carried, Fits, Exists
    <3>3. CASE r # p /\ r # q
      <4>1. r \notin leftBehind
        BY <2>1, <2>5, <3>3
      <4> QED
        BY <1>1, <2>3, <3>3, <4>1, OnlyThisExposed, StillFits
    <3> QED
      BY <3>1, <3>2, <3>3
  <2> QED
    BY <1>1, <2>4, <2>5, CallMovesOn, CallHasPath DEF ServerCalls, PlaceCalls
<1> QED
  BY <1>2, <1>3

LEMMA MoveCacheFailsKeeps ==
  ASSUME IInv, MoveCacheFails, UNCHANGED <<libraryVars, serverVars>>
  PROVE  IInv'
<1>1. Doing("moveCache") /\ todo' = Tail(todo) /\ UNCHANGED <<file, data, place>>
  BY DEF MoveCacheFails, cacheVars
<1> PICK p \in Paths : p = This.path
  BY <1>1, CallHasPath
<1>2. leftBehind' = leftBehind \cup {p}
  BY DEF MoveCacheFails
<1>3. CardTyped'
  BY <1>1, <1>2, Facts DEF CardTyped
<1> QED
  BY <1>1, <1>2, <1>3, LeavesBehind

\* The calls that change the recent list, and those that fail without a trace.
LEMMA QuietCallKeeps ==
  ASSUME IInv, UNCHANGED <<libraryVars, serverVars>>,
         \/ RemoveFails \/ BuildFails \/ PutPlaceFails \/ ChangeList
         \/ ListWriteFails
  PROVE  IInv'
<1>1. CASE RemoveFails
  BY <1>1, NothingDone DEF RemoveFails, Ignores
<1>2. CASE BuildFails
  BY <1>2, NothingDone DEF BuildFails, Gives
<1>3. CASE PutPlaceFails
  BY <1>3, NothingDone DEF PutPlaceFails, Ignores
<1>4. CASE ChangeList \/ ListWriteFails
  <2>1. /\ UNCHANGED <<file, cacheVars, leftBehind>> /\ todo' = Tail(todo)
        /\ \E c \in ListCalls : Doing(c)
    BY <1>4 DEF ChangeList, ListWriteFails, Lists, Goes, Ignores
  <2> PICK c \in ListCalls : Doing(c)
    BY <2>1
  <2>2. c \notin {"clear", "moveCache", "write", "put", "rename"}
    BY DEF ListCalls
  <2> QED
    BY <2>1, <2>2, NothingDone
<1> QED
  BY <1>1, <1>2, <1>3, <1>4

LEMMA CallsKeep ==
  ASSUME IInv, Run
  PROVE  IInv'
<1>1. UNCHANGED <<libraryVars, serverVars>> /\ Calls
  BY DEF Run
<1>2. CASE \/ RemoveFails \/ BuildFails \/ PutPlaceFails \/ ChangeList
           \/ ListWriteFails
  BY <1>1, <1>2, QuietCallKeeps
<1>3. CASE Remove \/ Write \/ WriteFails \/ Rename \/ RenameFails
  BY <1>1, <1>3, RemoveKeeps, WriteKeeps, WriteFailsKeeps, RenameKeeps,
     RenameFailsKeeps
<1>4. CASE Put \/ PutFails \/ Clear \/ ClearFails
  BY <1>1, <1>4, PutKeeps, PutFailsKeeps, ClearKeeps, ClearFailsKeeps
<1>5. CASE ClearAll \/ Build \/ DropPlace \/ PutPlace \/ DropPlaceFails
  BY <1>1, <1>5, ClearAllKeeps, BuildKeeps, PlaceKeeps, DropPlaceFailsKeeps
<1>6. CASE MoveCache \/ MoveCacheFails
  BY <1>1, <1>6, MoveCacheKeeps, MoveCacheFailsKeeps
<1> QED
  BY <1>1, <1>2, <1>3, <1>4, <1>5, <1>6 DEF Calls

-----------------------------------------------------------------------------
(* Power. *)

\* A path that was exposed is known to have its cache left behind.
LEMMA PendingIsLeft ==
  ASSUME IInv, CutShort, NEW p \in Paths, p \notin leftBehind'
  PROVE  /\ p \notin leftBehind /\ ~Exposed(p)
         /\ (Doing("clear") \/ Doing("write")) => This.path # p
<1>1. leftBehind' = leftBehind \cup Pending("clear") \cup Pending("write")
                    \cup Pending("put") \cup Pending("moveCache")
  BY DEF CutShort
<1>2. ASSUME NEW c \in {"clear", "write", "put", "moveCache"}, Doing(c)
      PROVE  This.path # p
  <2>1. 1 \in DOMAIN todo /\ todo[1].call = c
    BY <1>2, CallHasPath DEF This
  <2>2. todo[1].path \in Pending(c)
    BY <2>1 DEF Pending
  <2> QED
    BY <1>1, <2>2 DEF This
<1>3. Exposed(p) => \E c \in {"clear", "write", "put", "moveCache"} :
                        Doing(c) /\ This.path = p
  BY DEF Exposed, Doing, This
<1> QED
  BY <1>1, <1>2, <1>3

LEMMA CutShortKeeps ==
  ASSUME IInv, CutShort
  PROVE  CardTyped' /\ \A p \in Paths \ leftBehind' : Fits(p)'
<1>1. leftBehind' \subseteq Paths
  <2>1. \A c \in {"clear", "write", "put", "moveCache"} : Pending(c) \subseteq Paths
    <3> SUFFICES ASSUME NEW c \in {"clear", "write", "put", "moveCache"},
                        NEW i \in DOMAIN todo, todo[i].call = c
                 PROVE  todo[i].path \in Paths
      BY DEF Pending
    <3> QED
      BY ShapeAt DEF TypeAt
  <2> QED
    BY <2>1, Facts DEF CutShort
<1>2. CASE Doing("clear")
  <2> PICK q \in Paths : q = This.path
    BY <1>2, CallHasPath
  <2>1. PICK d \in {data[q], Nothing}, c \in {place[q], Nothing} :
            /\ data' = [data EXCEPT ![q] = d] /\ place' = [place EXCEPT ![q] = c]
            /\ file' = file
    BY <1>2 DEF CutShort, ClearsSome, At
  <2>2. CardTyped'
    BY <1>1, <2>1, Facts DEF CardTyped
  <2>3. ASSUME NEW p \in Paths \ leftBehind' PROVE Fits(p)'
    <3>1. p \notin leftBehind /\ ~Exposed(p) /\ p # q
      BY <1>2, <2>3, PendingIsLeft
    <3>2. data'[p] = data[p] /\ place'[p] = place[p]
      BY <2>1, <3>1, Facts
    <3> QED
      BY <2>1, <3>1, <3>2, StillFits
  <2> QED
    BY <2>2, <2>3
<1>3. CASE Doing("build")
  <2> PICK q \in Paths : q = This.path
    BY <1>3, CallHasPath
  <2>1. ~Doing("clear") /\ ~Doing("write") /\ Exists(q)
    BY <1>3, CallHasPath, Facts DEF Doing, HeadOK
  <2>2. PICK d \in {data[q], Nothing, Torn} :
            data' = [data EXCEPT ![q] = d] /\ UNCHANGED <<file, place>>
    BY <1>3, <2>1 DEF CutShort, HalfBuilt, At
  <2>3. CardTyped'
    BY <1>1, <2>2, Facts DEF CardTyped
  <2>4. ASSUME NEW p \in Paths \ leftBehind' PROVE Fits(p)'
    <3>1. Fits(p)
      BY <2>4, PendingIsLeft, Facts
    <3>2. data'[p] = data[p] \/ (p = q /\ data'[p] \in {Nothing, Torn})
      BY <2>2, Facts
    <3> QED
      BY <2>1, <2>2, <3>1, <3>2 DEF Fits, Exists
  <2> QED
    BY <2>3, <2>4
<1>4. CASE Doing("clearAll")
  <2>1. ~Doing("clear") /\ ~Doing("write") /\ ~Doing("build")
    BY <1>4 DEF Doing
  <2>2. PICK kept \in SUBSET Paths :
            /\ data' = [p \in Paths |-> IF p \in kept THEN data[p] ELSE Nothing]
            /\ UNCHANGED <<file, place>>
    BY <1>4, <2>1 DEF CutShort
  <2>3. CardTyped'
    BY <1>1, <2>2, Facts DEF CardTyped
  <2>4. ASSUME NEW p \in Paths \ leftBehind' PROVE Fits(p)'
    <3>1. Fits(p)
      BY <2>4, PendingIsLeft, Facts
    <3>2. data'[p] \in {data[p], Nothing}
      BY <2>2
    <3> QED
      BY <2>2, <3>1, <3>2 DEF Fits, Exists
  <2> QED
    BY <2>3, <2>4
<1>5. CASE Doing("write")
  <2> PICK q \in Paths : q = This.path
    BY <1>5, CallHasPath
  <2>1. ~Doing("clear") /\ ~Doing("build") /\ ~Doing("clearAll")
    BY <1>5 DEF Doing
  <2>2. PICK part \in {file[q], Torn} :
            file' = [file EXCEPT ![q] = part] /\ UNCHANGED <<data, place>>
    BY <1>5, <2>1 DEF CutShort, At
  <2>3. CardTyped'
    BY <1>1, <2>2, Facts DEF CardTyped
  <2>4. ASSUME NEW p \in Paths \ leftBehind' PROVE Fits(p)'
    <3>1. p \notin leftBehind /\ ~Exposed(p) /\ p # q
      BY <1>5, <2>4, PendingIsLeft
    <3>2. file'[p] = file[p]
      BY <2>2, <3>1, Facts
    <3> QED
      BY <2>2, <3>1, <3>2, StillFits
  <2> QED
    BY <2>3, <2>4
<1>6. CASE /\ ~Doing("clear") /\ ~Doing("build") /\ ~Doing("clearAll")
           /\ ~Doing("write")
  <2>1. UNCHANGED <<file, data, place>>
    BY <1>6 DEF CutShort
  <2>2. CardTyped'
    BY <1>1, <2>1, Facts DEF CardTyped
  <2>3. ASSUME NEW p \in Paths \ leftBehind' PROVE Fits(p)'
    BY <2>1, <2>3, PendingIsLeft, StillFits
  <2> QED
    BY <2>2, <2>3
<1> QED
  BY <1>2, <1>3, <1>4, <1>5, <1>6

LEMMA NothingLeftToDo ==
  ASSUME todo' = <<>>
  PROVE  /\ todo' \in Seq(CallRecords) /\ Shape(todo') /\ HeadOK' /\ PlacesOK'
         /\ \A i \in DOMAIN todo' : todo'[i].call \in ServerCalls
<1>1. <<>> \in Seq(CallRecords) /\ DOMAIN <<>> = {}
  OBVIOUS
<1> QED
  BY <1>1 DEF Shape, HeadOK, PlacesOK

LEMMA PowerLossKeeps ==
  ASSUME IInv, PowerLoss
  PROVE  IInv'
<1>1. /\ CutShort /\ todo' = <<>> /\ screen' = "off" /\ running' = FALSE
      /\ owner' = NoClient
  BY DEF PowerLoss, LosePower, ServerGone, Frees
<1>2. CardOK'
  BY <1>1, CutShortKeeps DEF CardOK, CardTyped
<1>3. TodoOK'
  BY <1>1, NothingLeftToDo DEF TodoOK
<1>4. ScreenOK'
  BY <1>1 DEF ScreenOK
<1> QED
  BY <1>2, <1>3, <1>4 DEF IInv

-----------------------------------------------------------------------------
(* The lists of calls the handlers begin with. *)

LEMMA OneHasShape ==
  ASSUME NEW u \in Seq(CallRecords), Len(u) = 1, TypeAt(u, 1),
         u[1].call \notin {"put", "dropPlace"}
  PROVE  Shape(u)
<1> SUFFICES ASSUME NEW i \in DOMAIN u
             PROVE  /\ TypeAt(u, i) /\ RemoveAt(u, i) /\ WriteAt(u, i)
                    /\ PutAt(u, i) /\ RenameAt(u, i) /\ MoveCacheAt(u, i)
                    /\ PlaceAt(u, i)
  BY DEF Shape
<1>1. i = 1
  OBVIOUS
<1>2. RemoveAt(u, i) /\ WriteAt(u, i) /\ PutAt(u, i) /\ RenameAt(u, i)
  BY <1>1 DEF RemoveAt, WriteAt, PutAt, RenameAt
<1>3. MoveCacheAt(u, i) /\ PlaceAt(u, i)
  BY <1>1 DEF MoveCacheAt, PlaceAt, PlaceCalls
<1> QED
  BY <1>1, <1>2, <1>3

Pairs == {<<"write", "clear">>, <<"clear", "rename">>, <<"remove", "clear">>,
          <<"clear", "remove">>, <<"put", "clear">>, <<"dropRecent", "clear">>,
          <<"dropPlace", "putPlace">>}

LEMMA TwoHaveShape ==
  ASSUME NEW u \in Seq(CallRecords), Len(u) = 2, TypeAt(u, 1), TypeAt(u, 2),
         <<u[1].call, u[2].call>> \in Pairs, u[1].path = u[2].path
  PROVE  Shape(u)
<1> SUFFICES ASSUME NEW i \in DOMAIN u
             PROVE  /\ TypeAt(u, i) /\ RemoveAt(u, i) /\ WriteAt(u, i)
                    /\ PutAt(u, i) /\ RenameAt(u, i) /\ MoveCacheAt(u, i)
                    /\ PlaceAt(u, i)
  BY DEF Shape
<1>1. /\ DOMAIN u = {1, 2} /\ 1 + 1 = 2 /\ 2 - 1 = 1
      /\ \A j \in 1..2 : j \in {1, 2}
  OBVIOUS
<1>2. \A c : Is(u, 2, c, u[1].path) <=> u[2].call = c
  BY <1>1 DEF Is
<1>3. \A c : Is(u, 1, c, u[2].path) <=> u[1].call = c
  BY <1>1 DEF Is
<1>4. RemoveAt(u, i)
  BY <1>1, <1>3 DEF RemoveAt, Pairs
<1>5. WriteAt(u, i) /\ PutAt(u, i)
  BY <1>1, <1>2 DEF WriteAt, PutAt, Pairs, Cleared
<1>6. RenameAt(u, i) /\ MoveCacheAt(u, i)
  BY <1>1, <1>3 DEF RenameAt, MoveCacheAt, Pairs
<1>7. PlaceAt(u, i)
  BY <1>1, <1>2 DEF PlaceAt, PlaceCalls, Pairs
<1> QED
  BY <1>1, <1>4, <1>5, <1>6, <1>7

LEMMA MoveHasShape ==
  ASSUME NEW u \in Seq(CallRecords), Len(u) = 3,
         TypeAt(u, 1), TypeAt(u, 2), TypeAt(u, 3),
         u[1].call = "rename", u[2].call = "moveCache", u[3].call = "updateRecent",
         u[1].path = u[2].path, u[1].to = u[2].to
  PROVE  Shape(u) /\ Follows(u, 1)
<1>1. DOMAIN u = {1, 2, 3} /\ 1 + 1 = 2 /\ 2 - 1 = 1
  OBVIOUS
<1>2. Follows(u, 1)
  BY <1>1 DEF Follows, Is
<1>3. ASSUME NEW i \in DOMAIN u
      PROVE  /\ RemoveAt(u, i) /\ WriteAt(u, i) /\ PutAt(u, i) /\ RenameAt(u, i)
             /\ MoveCacheAt(u, i) /\ PlaceAt(u, i)
  BY <1>1, <1>2 DEF RemoveAt, WriteAt, PutAt, RenameAt, MoveCacheAt, PlaceAt
<1> QED
  BY <1>1, <1>2, <1>3 DEF Shape

LEMMA ConcatIs ==
  ASSUME NEW S, NEW s \in Seq(S), NEW t \in Seq(S)
  PROVE  /\ s \o t \in Seq(S) /\ Len(s) \in Nat /\ Len(t) \in Nat
         /\ DOMAIN s = 1..Len(s) /\ DOMAIN t = 1..Len(t)
         /\ Len(s \o t) = Len(s) + Len(t) /\ DOMAIN (s \o t) = 1..(Len(s) + Len(t))
         /\ \A i \in DOMAIN s : i \in DOMAIN (s \o t) /\ (s \o t)[i] = s[i]
         /\ \A k \in DOMAIN t : /\ Len(s) + k \in DOMAIN (s \o t)
                                /\ (s \o t)[Len(s) + k] = t[k]
OBVIOUS

\* One list after another: no call of the second may rely on being the first
\* of all.
LEMMA BothHaveShape ==
  ASSUME NEW s \in Seq(CallRecords), NEW t \in Seq(CallRecords),
         Shape(s), Shape(t),
         \A i \in DOMAIN s : s[i].call # "build",
         \A i \in DOMAIN t : /\ t[i].call # "build"
                             /\ t[i].call = "putPlace" =>
                                  \A j \in DOMAIN s : s[j].call \in PlaceCalls,
         t # <<>> =>
             /\ t[1].call \notin {"moveCache", "remove"}
             /\ t[1].call = "write" =>
                  Cleared(t, 1) \/ Is(s, Len(s), "remove", t[1].path)
             /\ t[1].call = "rename" => Follows(t, 1)
  PROVE  Shape(s \o t)
<1> PICK u : u = s \o t
  OBVIOUS
<1> PICK n : n = Len(s)
  OBVIOUS
<1>0. /\ u \in Seq(CallRecords) /\ n \in Nat /\ Len(t) \in Nat
      /\ DOMAIN s = 1..n /\ DOMAIN t = 1..Len(t) /\ DOMAIN u = 1..(n + Len(t))
      /\ \A i \in DOMAIN s : i \in DOMAIN u /\ u[i] = s[i]
      /\ \A k \in DOMAIN t : n + k \in DOMAIN u /\ u[n + k] = t[k]
  BY ConcatIs
<1>1. \A i, c, p : Is(s, i, c, p) => Is(u, i, c, p) /\ u[i] = s[i]
  BY <1>0 DEF Is
<1>2. \A k, c, p : Is(t, k, c, p) => Is(u, n + k, c, p) /\ u[n + k] = t[k]
  BY <1>0 DEF Is
<1>3. ASSUME NEW i \in DOMAIN s
      PROVE  /\ TypeAt(u, i) /\ RemoveAt(u, i) /\ WriteAt(u, i)
             /\ PutAt(u, i) /\ RenameAt(u, i) /\ MoveCacheAt(u, i)
             /\ PlaceAt(u, i)
  <2>1. /\ TypeAt(s, i) /\ RemoveAt(s, i) /\ WriteAt(s, i)
        /\ PutAt(s, i) /\ RenameAt(s, i) /\ MoveCacheAt(s, i)
        /\ PlaceAt(s, i)
    BY DEF Shape
  <2>2. u[i] = s[i] /\ i \in DOMAIN u
    BY <1>0
  <2>3. Cleared(s, i) => Cleared(u, i)
    BY <1>1, <2>2 DEF Cleared
  <2>4. ASSUME NEW c, Is(s, i + 1, c, s[i].path), Cleared(s, i + 1)
        PROVE  Cleared(u, i + 1)
    BY <1>1, <2>4 DEF Cleared
  <2>5. RemoveAt(u, i)
    BY <1>1, <2>1, <2>2, <2>3, <2>4 DEF RemoveAt
  <2>6. WriteAt(u, i) /\ PutAt(u, i)
    BY <1>1, <2>1, <2>2, <2>3 DEF WriteAt, PutAt
  <2>7. \A j : Follows(s, j) /\ j \in DOMAIN s => Follows(u, j)
    BY <1>0, <1>1 DEF Follows
  <2>8. RenameAt(u, i)
    BY <1>1, <2>1, <2>2, <2>7 DEF RenameAt
  <2>9. MoveCacheAt(u, i)
    <3>1. i # 1 => i - 1 \in DOMAIN s
      BY <1>0
    <3> QED
      BY <1>0, <2>1, <2>2, <2>7, <3>1 DEF MoveCacheAt
  <2>10. PlaceAt(u, i)
    <3>1. \A j \in 1..i : j \in DOMAIN s
      BY <1>0
    <3> QED
      BY <1>0, <1>1, <2>1, <2>2, <3>1 DEF PlaceAt
  <2> QED
    BY <2>1, <2>2, <2>5, <2>6, <2>8, <2>9, <2>10 DEF TypeAt
<1>4. ASSUME NEW k \in DOMAIN t, NEW i, i = n + k
      PROVE  /\ TypeAt(u, i) /\ RemoveAt(u, i) /\ WriteAt(u, i)
             /\ PutAt(u, i) /\ RenameAt(u, i) /\ MoveCacheAt(u, i)
             /\ PlaceAt(u, i)
  <2>1. /\ TypeAt(t, k) /\ RemoveAt(t, k) /\ WriteAt(t, k)
        /\ PutAt(t, k) /\ RenameAt(t, k) /\ MoveCacheAt(t, k)
        /\ PlaceAt(t, k)
    BY DEF Shape
  <2>2. /\ u[i] = t[k] /\ i \in DOMAIN u /\ n + (k + 1) = i + 1
        /\ n + (k - 1) = i - 1
    <3>1. k \in Nat /\ n \in Nat
      BY <1>0
    <3>2. n + (k + 1) = i + 1 /\ n + (k - 1) = i - 1
      BY <1>4, <3>1
    <3> QED
      BY <1>0, <1>4, <3>2
  <2>3. Cleared(t, k) => Cleared(u, i)
    BY <1>2, <2>2 DEF Cleared
  <2>4. \A c, p : Is(t, k + 1, c, p) => Is(u, i + 1, c, p) /\ u[i + 1] = t[k + 1]
    BY <1>2, <2>2
  <2>5. \A c, p : Is(t, k - 1, c, p) => Is(u, i - 1, c, p) /\ u[i - 1] = t[k - 1]
    BY <1>2, <2>2
  <2>6. ASSUME NEW c, Is(t, k + 1, c, t[k].path), Cleared(t, k + 1)
        PROVE  Cleared(u, i + 1)
    <3>1. n + ((k + 1) + 1) = (i + 1) + 1
      BY <1>0, <1>4
    <3> QED
      BY <1>2, <2>4, <2>6, <3>1 DEF Cleared
  <2>7. Follows(t, k) => Follows(u, i)
    BY <2>2, <2>4 DEF Follows
  <2>8. t # <<>> /\ (k # 1 => k - 1 \in DOMAIN t /\ (k - 1) + 1 = k)
    BY <1>0
  <2>9. RemoveAt(u, i)
    BY <2>1, <2>2, <2>3, <2>4, <2>5, <2>6, <2>8 DEF RemoveAt
  <2>10. WriteAt(u, i)
    <3>1. Is(s, n, "remove", t[1].path) /\ k = 1 => Is(u, i - 1, "remove", t[1].path)
      BY <1>0, <1>1, <1>4
    <3> QED
      BY <2>1, <2>2, <2>3, <2>5, <2>8, <3>1 DEF WriteAt
  <2>11. PutAt(u, i)
    BY <2>1, <2>2, <2>3 DEF PutAt
  <2>12. RenameAt(u, i)
    BY <2>1, <2>2, <2>5, <2>7, <2>8 DEF RenameAt
  <2>13. MoveCacheAt(u, i)
    <3>1. CASE k = 1
      BY <2>2, <2>8, <3>1 DEF MoveCacheAt
    <3>2. CASE k # 1 /\ t[k].call = "moveCache"
      <4>1. t[k - 1].call = "rename" /\ Follows(t, k - 1)
        BY <2>1, <3>2 DEF MoveCacheAt
      <4>2. u[i - 1] = t[k - 1] /\ (i - 1) + 1 = i
        <5>1. u[n + (k - 1)] = t[k - 1]
          BY <1>0, <2>8, <3>2
        <5>2. (i - 1) + 1 = i
          BY <1>0, <1>4
        <5> QED
          BY <2>2, <5>1, <5>2
      <4>3. Follows(u, i - 1)
        BY <2>2, <2>4, <2>8, <3>2, <4>1, <4>2 DEF Follows, Is
      <4> QED
        BY <4>1, <4>2, <4>3 DEF MoveCacheAt
    <3> QED
      BY <2>2, <3>1, <3>2 DEF MoveCacheAt
  <2>14. PlaceAt(u, i)
    <3>1. t[k].call = "dropPlace" => Is(u, i + 1, "putPlace", t[k].path)
      BY <2>1, <2>4 DEF PlaceAt
    <3>2. ASSUME t[k].call = "putPlace", NEW j \in 1..i
          PROVE  u[j].call \in PlaceCalls
      <4>1. CASE j \in DOMAIN s
        BY <1>0, <3>2, <4>1
      <4>2. CASE j \notin DOMAIN s
        <5>1. j - n \in 1..k /\ j - n \in DOMAIN t /\ n + (j - n) = j
          BY <1>0, <1>4, <4>2
        <5>2. u[j] = t[j - n]
          BY <1>0, <5>1
        <5> QED
          BY <2>1, <3>2, <5>1, <5>2 DEF PlaceAt
      <4> QED
        BY <4>1, <4>2
    <3> QED
      BY <2>2, <3>1, <3>2 DEF PlaceAt
  <2> QED
    BY <2>1, <2>2, <2>9, <2>10, <2>11, <2>12, <2>13, <2>14 DEF TypeAt
<1>5. ASSUME NEW i \in DOMAIN u, i \notin DOMAIN s
      PROVE  i - n \in DOMAIN t /\ i = n + (i - n)
  BY <1>0, <1>5
<1> QED
  BY <1>3, <1>4, <1>5 DEF Shape

-----------------------------------------------------------------------------
(* Handlers: they begin with every cache in order. *)

LEMMA AllFit ==
  ASSUME IInv, todo = <<>>
  PROVE  \A p \in Paths \ leftBehind : Fits(p)
BY Facts DEF Exposed

LEMMA HandlerStarts ==
  ASSUME IInv, todo = <<>>, UNCHANGED <<file, data, place>>,
         leftBehind \subseteq leftBehind', leftBehind' \subseteq Paths,
         todo' \in Seq(CallRecords), Shape(todo'), HeadOK', PlacesOK', ScreenOK'
  PROVE  IInv'
<1>1. ASSUME NEW p \in Paths \ leftBehind' PROVE Fits(p)'
  <2>1. Fits(p)
    BY <1>1, AllFit
  <2> QED
    BY <2>1 DEF Fits, Exists
<1>2. CardOK'
  BY <1>1, Facts DEF CardOK
<1> QED
  BY <1>2 DEF IInv, TodoOK

LEMMA CardUntouched ==
  ASSUME IInv, UNCHANGED <<file, data, place, leftBehind, todo>>, ScreenOK'
  PROVE  IInv'
<1>1. CardOK /\ TodoOK
  BY DEF IInv
<1>2. CardOK'
  BY <1>1 DEF CardOK, Exposed, Fits, Exists, This
<1>3. TodoOK'
  BY <1>1, Zenon DEF TodoOK, HeadOK, PlacesOK, Bare, HasCache, Carried, Exists, This
<1> QED
  BY <1>2, <1>3 DEF IInv

\* What the reader and the lists begin with relies on nothing on the card.
Own(t) ==
    /\ t \in Seq(CallRecords) /\ Shape(t)
    /\ t # <<>> => /\ t[1].call \notin {"remove", "write", "moveCache", "build"}
                   /\ t[1].call = "rename" => Follows(t, 1)
    /\ \A i \in DOMAIN t :
           t[i].call = "putPlace" => t[i].book = file[t[i].path]
Buildless(t) == \A i \in DOMAIN t : t[i].call # "build"

LEMMA OwnStarts ==
  ASSUME IInv, todo = <<>>, NEW t, Own(t), Makes(t), ScreenOK'
  PROVE  IInv'
<1>1. todo' = t /\ UNCHANGED <<file, data, place, leftBehind>>
  BY DEF Makes, cacheVars
<1>2. HeadOK'
  BY <1>1 DEF Own, HeadOK, This
<1>3. PlacesOK'
  BY <1>1 DEF Own, PlacesOK
<1> QED
  BY <1>1, <1>2, <1>3, HandlerStarts, Facts DEF Own

LEMMA NoneIsOwn ==
  Own(<<>>) /\ Buildless(<<>>)
<1>1. <<>> \in Seq(CallRecords) /\ DOMAIN <<>> = {}
  OBVIOUS
<1> QED
  BY <1>1 DEF Own, Shape, Buildless

LEMMA OneIsOwn ==
  ASSUME NEW c \in {"addRecent", "dropRecent", "pruneRecents", "clear", "clearAll"},
         NEW p \in Paths \cup {Nothing},
         p = Nothing => c \in {"pruneRecents", "clearAll"}
  PROVE  Own(<<On(c, p)>>) /\ Buildless(<<On(c, p)>>)
<1> DEFINE a == On(c, p)
           u == <<a>>
<1>1. a \in CallRecords
  BY DEF On, Call, CallRecords, CallNames, ListCalls
<1>2. a.call = c /\ a.path = p
  BY DEF On, Call
<1> HIDE DEF a
<1>3. u \in Seq(CallRecords) /\ Len(u) = 1 /\ u[1] = a /\ DOMAIN u = {1}
  BY <1>1
<1>4. TypeAt(u, 1)
  BY <1>2, <1>3, BookCardAssumption DEF TypeAt, CallNames, ListCalls
<1>5. Shape(u)
  BY <1>2, <1>3, <1>4, OneHasShape
<1>6. Own(u) /\ Buildless(u)
  BY <1>2, <1>3, <1>5 DEF Own, Buildless
<1> QED
  BY <1>6 DEF a

LEMMA SavePlaceIsOwn ==
  ASSUME IInv, NEW p \in Paths
  PROVE  /\ Own(SavePlace(p)) /\ Buildless(SavePlace(p))
         /\ \A i \in DOMAIN SavePlace(p) : SavePlace(p)[i].call \in PlaceCalls
         /\ SavePlace(p) # <<>> /\ SavePlace(p)[1].call = "dropPlace"
<1> DEFINE a == On("dropPlace", p)
           b == Call("putPlace", p, Nothing, file[p])
           u == <<a, b>>
<1>1. a \in CallRecords /\ b \in CallRecords
  BY Facts DEF On, Call, CallRecords, CallNames
<1>2. /\ a.call = "dropPlace" /\ a.path = p /\ b.call = "putPlace" /\ b.path = p
      /\ b.book = file[p]
  BY DEF On, Call
<1>3. SavePlace(p) = u
  BY DEF SavePlace
<1> HIDE DEF a, b
<1>4. /\ u \in Seq(CallRecords) /\ Len(u) = 2 /\ u[1] = a /\ u[2] = b
      /\ DOMAIN u = {1, 2} /\ u # <<>>
  BY <1>1
<1>5. TypeAt(u, 1) /\ TypeAt(u, 2)
  BY <1>2, <1>4 DEF TypeAt, CallNames
<1>6. Shape(u)
  BY <1>2, <1>4, <1>5, TwoHaveShape DEF Pairs
<1>7. Own(u) /\ Buildless(u)
  BY <1>2, <1>4, <1>6 DEF Own, Buildless
<1> QED
  BY <1>2, <1>3, <1>4, <1>7 DEF PlaceCalls

LEMMA MoveBookIsOwn ==
  ASSUME NEW p \in Paths, NEW q \in Paths
  PROVE  Own(MoveBook(p, q)) /\ Buildless(MoveBook(p, q))
<1> DEFINE a == Call("rename", p, q, Nothing)
           b == Call("moveCache", p, q, Nothing)
           c == Call("updateRecent", p, q, Nothing)
           u == <<a, b, c>>
<1>1. a \in CallRecords /\ b \in CallRecords /\ c \in CallRecords
  BY DEF Call, CallRecords, CallNames, ListCalls
<1>2. /\ a.call = "rename" /\ a.path = p /\ a.to = q
      /\ b.call = "moveCache" /\ b.path = p /\ b.to = q
      /\ c.call = "updateRecent" /\ c.path = p
  BY DEF Call
<1>3. MoveBook(p, q) = u
  BY DEF MoveBook
<1> HIDE DEF a, b, c
<1>4. /\ u \in Seq(CallRecords) /\ Len(u) = 3 /\ u[1] = a /\ u[2] = b /\ u[3] = c
      /\ DOMAIN u = {1, 2, 3}
  BY <1>1
<1>5. TypeAt(u, 1) /\ TypeAt(u, 2) /\ TypeAt(u, 3)
  BY <1>2, <1>4 DEF TypeAt, CallNames, ListCalls
<1>6. Shape(u) /\ Follows(u, 1)
  BY <1>2, <1>4, <1>5, MoveHasShape
<1>7. Own(u) /\ Buildless(u)
  BY <1>2, <1>4, <1>6 DEF Own, Buildless
<1> QED
  BY <1>3, <1>7

\* Calls on one cache directory, and then a list of one's own.
LEMMA OwnAfterPlaces ==
  ASSUME NEW s, Own(s), Buildless(s), \A i \in DOMAIN s : s[i].call \in PlaceCalls,
         NEW t, Own(t), Buildless(t)
  PROVE  Own(s \o t) /\ Buildless(s \o t)
<1> PICK u : u = s \o t
  OBVIOUS
<1>1. s \in Seq(CallRecords) /\ t \in Seq(CallRecords) /\ Shape(s) /\ Shape(t)
  BY DEF Own
<1>2. /\ u \in Seq(CallRecords) /\ Len(s) \in Nat
      /\ DOMAIN s = 1..Len(s) /\ DOMAIN t = 1..Len(t)
      /\ DOMAIN u = 1..(Len(s) + Len(t))
      /\ \A i \in DOMAIN s : i \in DOMAIN u /\ u[i] = s[i]
      /\ \A k \in DOMAIN t : Len(s) + k \in DOMAIN u /\ u[Len(s) + k] = t[k]
  BY <1>1, ConcatIs
<1>3. Shape(u)
  BY <1>1, BothHaveShape DEF Own, Buildless
<1>4. ASSUME NEW i \in DOMAIN u, i \notin DOMAIN s
      PROVE  i - Len(s) \in DOMAIN t /\ u[i] = t[i - Len(s)]
  <2>1. i - Len(s) \in DOMAIN t /\ Len(s) + (i - Len(s)) = i
    BY <1>1, <1>2, <1>4
  <2> QED
    BY <1>2, <2>1
<1>5. Buildless(u)
  BY <1>2, <1>4 DEF Buildless
<1>6. \A i \in DOMAIN u : u[i].call = "putPlace" => u[i].book = file[u[i].path]
  BY <1>2, <1>4 DEF Own
<1>7. CASE s = <<>>
  <2>1. u = t
    BY <1>1, <1>7
  <2> QED
    BY <1>5, <2>1
<1>8. CASE s # <<>>
  <2>1. 1 \in DOMAIN s
    BY <1>1, <1>8
  <2>2. u[1].call \in PlaceCalls
    BY <1>2, <2>1
  <2>3. Own(u)
    BY <1>2, <1>3, <1>6, <2>2 DEF Own, PlaceCalls
  <2> QED
    BY <1>5, <2>3
<1> QED
  BY <1>7, <1>8

-----------------------------------------------------------------------------
(* The reader and the screens. *)

LEMMA LeastOne ==
  ASSUME NEW S \in SUBSET Nat, S # {}
  PROVE  \E i \in S : \A j \in S : i <= j
<1>1. PICK i \in S : \A j \in S : ~ (<<j, i>> \in OpToRel(<, Nat))
  BY WFMin, NatLessThanWellFounded, Zenon
<1>2. \A j \in S : ~(j < i)
  BY <1>1 DEF OpToRel
<1>3. \A j \in S : j \in Nat /\ i \in Nat
  OBVIOUS
<1>4. \A j \in S : i <= j
  BY <1>2, <1>3
<1> QED
  BY <1>4

LEMMA DestinationIsAPath ==
  Destination \in Paths
<1>1. /\ ReadFolder \in Seq(Paths) /\ ReadFolder # <<>>
      /\ Len(ReadFolder) \in Nat \ {0} /\ DOMAIN ReadFolder = 1..Len(ReadFolder)
      /\ \A i \in DOMAIN ReadFolder : ReadFolder[i] \in Paths
  BY ReadFolderAssumption
<1>2. Len(ReadFolder) \in DOMAIN ReadFolder
  BY <1>1
<1>3. CASE Free = {}
  BY <1>1, <1>2, <1>3 DEF Destination
<1>4. CASE Free # {}
  <2>1. Free \in SUBSET Nat /\ Free \subseteq DOMAIN ReadFolder
    BY <1>1 DEF Free
  <2>2. \E i \in Free : \A j \in Free : i <= j
    BY <1>4, <2>1, LeastOne
  <2>3. (CHOOSE i \in Free : \A j \in Free : i <= j) \in Free
    BY <2>2
  <2> QED
    BY <1>1, <1>4, <2>1, <2>3 DEF Destination
<1> QED
  BY <1>3, <1>4

LEMMA ClosingIsOwn ==
  ASSUME IInv, reading \in Paths, NEW footnote \in BOOLEAN
  PROVE  Own(Closing(footnote)) /\ Buildless(Closing(footnote))
<1> DEFINE s == IF footnote THEN SavePlace(reading) ELSE <<>>
           t == IF pendingMove THEN MoveBook(reading, Destination) ELSE <<>>
<1>1. /\ Own(s) /\ Buildless(s)
      /\ \A i \in DOMAIN s : s[i].call \in PlaceCalls
  BY SavePlaceIsOwn, NoneIsOwn
<1>2. Own(t) /\ Buildless(t)
  BY MoveBookIsOwn, DestinationIsAPath, NoneIsOwn
<1>3. Closing(footnote) = s \o t
  BY DEF Closing
<1> HIDE DEF s, t
<1> QED
  BY <1>1, <1>2, <1>3, OwnAfterPlaces

\* Away from the server's screen there is no upload to look after.
LEMMA ScreenMoves ==
  ASSUME IInv, UNCHANGED serverVars, screen # "web", screen' # "web",
         screen' \in {"opening", "reader", "launching"} => reading' \in Paths,
         screen' \in {"restarting", "off"} => todo' = <<>>
  PROVE  ScreenOK'
BY DEF IInv, ScreenOK, serverVars

LEMMA ReadingIsAPath ==
  ASSUME IInv, screen \in {"opening", "reader", "launching"}
  PROVE  reading \in Paths
BY DEF IInv, ScreenOK

LEMMA BuildsStart ==
  ASSUME IInv, todo = <<>>, NEW p \in Paths, CanOpen(p), todo' = Builds(p),
         UNCHANGED <<file, data, place, leftBehind>>, ScreenOK'
  PROVE  IInv'
<1>1. CASE Known(p)
  <2>1. todo' = <<>>
    BY <1>1 DEF Builds
  <2> QED
    BY <2>1, CardUntouched
<1>2. CASE ~Known(p)
  <2> PICK a : a = On("build", p)
    OBVIOUS
  <2>1. a \in CallRecords /\ a.call = "build" /\ a.path = p
    BY DEF On, Call, CallRecords, CallNames
  <2>2. todo' = <<a>>
    BY <1>2 DEF Builds
  <2> PICK u : u = <<a>>
    OBVIOUS
  <2>3. u \in Seq(CallRecords) /\ Len(u) = 1 /\ u[1] = a /\ DOMAIN u = {1}
    BY <2>1
  <2>4. TypeAt(u, 1)
    BY <2>1, <2>3 DEF TypeAt, CallNames
  <2>5. Shape(u)
    BY <2>1, <2>3, <2>4, OneHasShape
  <2>6. todo' = u
    BY <2>2
  <2>7. HeadOK'
    <3>1. Exists(p)'
      BY DEF CanOpen, Exists
    <3> QED
      BY <2>1, <2>3, <2>6, <3>1 DEF HeadOK, This
  <2>8. PlacesOK'
    BY <2>1, <2>3, <2>6 DEF PlacesOK
  <2> QED
    BY <2>3, <2>5, <2>6, <2>7, <2>8, HandlerStarts, Facts
<1> QED
  BY <1>1, <1>2

LEMMA ReadingKeeps ==
  ASSUME IInv, Reading, AtTheScreen
  PROVE  IInv'
<1>0. UNCHANGED serverVars
  BY DEF AtTheScreen
<1>1. ASSUME NEW p \in Paths, Open(p) PROVE IInv'
  <2>1. /\ screen = "home" /\ todo = <<>> /\ CanOpen(p) /\ screen' = "opening"
        /\ reading' = p /\ Makes(Builds(p))
    BY <1>1 DEF Open, Ready
  <2>2. ScreenOK'
    BY <1>0, <2>1, ScreenMoves
  <2>3. todo' = Builds(p) /\ UNCHANGED <<file, data, place, leftBehind>>
    BY <2>1 DEF Makes, cacheVars
  <2> QED
    BY <2>1, <2>2, <2>3, BuildsStart
<1>2. ASSUME NEW p \in Paths, RemoveFromRecents(p) PROVE IInv'
  <2>1. /\ screen = "home" /\ screen' = "home" /\ todo = <<>>
        /\ Makes(<<On("dropRecent", p), On("clear", p)>>)
    BY <1>2 DEF RemoveFromRecents, Home, Ready, libraryVars
  <2>2. ScreenOK'
    BY <1>0, <2>1, ScreenMoves
  <2> PICK a, b, u : a = On("dropRecent", p) /\ b = On("clear", p) /\ u = <<a, b>>
    OBVIOUS
  <2>3. /\ a \in CallRecords /\ b \in CallRecords
        /\ a.call = "dropRecent" /\ a.path = p /\ b.call = "clear" /\ b.path = p
    BY DEF On, Call, CallRecords, CallNames, ListCalls
  <2>4. /\ u \in Seq(CallRecords) /\ Len(u) = 2 /\ u[1] = a /\ u[2] = b
        /\ DOMAIN u = {1, 2}
    BY <2>3
  <2>5. TypeAt(u, 1) /\ TypeAt(u, 2)
    BY <2>3, <2>4 DEF TypeAt, CallNames, ListCalls
  <2>6. Shape(u)
    BY <2>3, <2>4, <2>5, TwoHaveShape DEF Pairs
  <2>7. Own(u)
    BY <2>3, <2>4, <2>6 DEF Own
  <2>8. Makes(u)
    BY <2>1
  <2> QED
    BY <2>1, <2>2, <2>7, <2>8, OwnStarts
<1>3. CASE Loaded
  <2>1. screen = "opening" /\ todo = <<>> /\ reading \in Paths
    BY <1>3, ReadingIsAPath DEF Loaded, Ready
  <2>2. CASE screen' = "reader" /\ Makes(<<On("addRecent", reading)>>)
             /\ reading' = reading
    <3>1. Own(<<On("addRecent", reading)>>)
      BY <2>1, OneIsOwn, BookCardAssumption
    <3>2. ScreenOK'
      BY <1>0, <2>1, <2>2, ScreenMoves
    <3> QED
      BY <2>1, <2>2, <3>1, <3>2, OwnStarts
  <2>3. CASE screen' = "home" /\ Makes(<<>>)
    <3>1. ScreenOK'
      BY <1>0, <2>1, <2>3, ScreenMoves
    <3> QED
      BY <2>1, <2>3, <3>1, NoneIsOwn, OwnStarts
  <2> QED
    BY <1>3, <2>2, <2>3 DEF Loaded, readerVars
<1>4. CASE ShowPage
  <2>1. /\ screen = "reader" /\ screen' = "reader" /\ todo = <<>>
        /\ reading \in Paths /\ reading' = reading /\ Makes(SavePlace(reading))
    BY <1>4, ReadingIsAPath DEF ShowPage, In, Ready
  <2>2. ScreenOK'
    BY <1>0, <2>1, ScreenMoves
  <2> QED
    BY <2>1, <2>2, SavePlaceIsOwn, OwnStarts
<1>5. CASE ShowRecents \/ ClearCaches
  <2>1. PICK c \in {"pruneRecents", "clearAll"} :
            Home /\ Makes(<<On(c, Nothing)>>)
    BY <1>5 DEF ShowRecents, ClearCaches
  <2>2. screen = "home" /\ screen' = "home" /\ todo = <<>>
    BY <2>1 DEF Home, Ready, libraryVars
  <2>3. ScreenOK'
    BY <1>0, <2>2, ScreenMoves
  <2>4. Own(<<On(c, Nothing)>>)
    BY OneIsOwn
  <2> QED
    BY <2>1, <2>2, <2>3, <2>4, OwnStarts
<1>6. ASSUME NEW remove \in BOOLEAN, NEW move \in BOOLEAN, Finish(remove, move)
      PROVE  IInv'
  <2>1. /\ screen = "reader" /\ screen' = "reader" /\ todo = <<>>
        /\ reading \in Paths /\ reading' = reading
        /\ Makes(IF remove THEN <<On("dropRecent", reading)>> ELSE <<>>)
    BY <1>6, ReadingIsAPath DEF Finish, In, Ready
  <2>2. ScreenOK'
    BY <1>0, <2>1, ScreenMoves
  <2>3. Own(<<On("dropRecent", reading)>>)
    BY <2>1, OneIsOwn, BookCardAssumption
  <2> QED
    BY <2>1, <2>2, <2>3, NoneIsOwn, OwnStarts
<1>7. ASSUME NEW remove \in BOOLEAN, Return(remove) PROVE IInv'
  <2>1. /\ screen = "reader" /\ screen' = "reader" /\ todo = <<>>
        /\ reading \in Paths /\ reading' = reading
        /\ Makes(IF entryRemoved /\ remove THEN <<On("addRecent", reading)>>
                 ELSE <<>>)
    BY <1>7, ReadingIsAPath DEF Return, In, Ready
  <2>2. ScreenOK'
    BY <1>0, <2>1, ScreenMoves
  <2>3. Own(<<On("addRecent", reading)>>)
    BY <2>1, OneIsOwn, BookCardAssumption
  <2>4. CASE entryRemoved /\ remove
    BY <2>1, <2>2, <2>3, <2>4, OwnStarts
  <2>5. CASE ~(entryRemoved /\ remove)
    BY <2>1, <2>2, <2>5, NoneIsOwn, OwnStarts
  <2> QED
    BY <2>4, <2>5
<1>8. ASSUME NEW footnote \in BOOLEAN, Close(footnote) PROVE IInv'
  <2>1. /\ screen = "reader" /\ screen' = "home" /\ todo = <<>>
        /\ reading \in Paths /\ Makes(Closing(footnote))
    BY <1>8, ReadingIsAPath DEF Close, Ready
  <2>2. ScreenOK'
    BY <1>0, <2>1, ScreenMoves
  <2> QED
    BY <2>1, <2>2, ClosingIsOwn, OwnStarts
<1>9. ASSUME NEW footnote \in BOOLEAN, StartOver(footnote) PROVE IInv'
  <2>1. /\ screen = "reader" /\ screen' = "home" /\ todo = <<>>
        /\ reading \in Paths
        /\ Makes(<<On("clear", reading)>> \o SavePlace(reading)
                 \o Closing(footnote))
    BY <1>9, ReadingIsAPath DEF StartOver, ClearKeepingPlace, Ready
  <2>2. ScreenOK'
    BY <1>0, <2>1, ScreenMoves
  <2> PICK c, s, t : /\ c = <<On("clear", reading)>> /\ s = SavePlace(reading)
                     /\ t = Closing(footnote)
    OBVIOUS
  <2>3. /\ Own(c) /\ Buildless(c) /\ \A i \in DOMAIN c : c[i].call \in PlaceCalls
    <3>1. Own(c) /\ Buildless(c)
      BY <2>1, OneIsOwn, BookCardAssumption
    <3>2. DOMAIN c = {1} /\ c[1] = On("clear", reading)
      OBVIOUS
    <3> QED
      BY <3>1, <3>2 DEF On, Call, PlaceCalls
  <2>4. /\ Own(s) /\ Buildless(s) /\ \A i \in DOMAIN s : s[i].call \in PlaceCalls
    BY <2>1, SavePlaceIsOwn
  <2>5. Own(t) /\ Buildless(t)
    BY <2>1, ClosingIsOwn
  <2>6. Own(s \o t) /\ Buildless(s \o t)
    BY <2>4, <2>5, OwnAfterPlaces
  <2>7. Own(c \o (s \o t))
    BY <2>3, <2>6, OwnAfterPlaces
  <2>8. (c \o s) \o t = c \o (s \o t)
    BY <2>3, <2>4, <2>5 DEF Own
  <2> QED
    BY <2>1, <2>2, <2>7, <2>8, OwnStarts
<1> QED
  BY <1>1, <1>2, <1>3, <1>4, <1>5, <1>6, <1>7, <1>8, <1>9 DEF Reading

LEMMA PoweringKeeps ==
  ASSUME IInv, Powering, AtTheScreen
  PROVE  IInv'
<1>0. UNCHANGED serverVars
  BY DEF AtTheScreen
<1>1. CASE LaunchSync
  <2>1. /\ screen = "reader" /\ screen' = "launching" /\ todo = <<>>
        /\ reading \in Paths /\ reading' = reading /\ Makes(SavePlace(reading))
    BY <1>1, ReadingIsAPath DEF LaunchSync, Ready, readerVars
  <2>2. ScreenOK'
    BY <1>0, <2>1, ScreenMoves
  <2> QED
    BY <2>1, <2>2, SavePlaceIsOwn, OwnStarts
<1>2. CASE SyncLaunched \/ OpenUsb
  <2>1. /\ screen \in {"launching", "home"} /\ screen' \in {"sync", "reader", "usb"}
        /\ screen' = "reader" => screen = "launching" /\ reading' = reading
        /\ UNCHANGED cardVars
    BY <1>2 DEF SyncLaunched, OpenUsb, Ready, Rests, readerVars
  <2>2. UNCHANGED <<file, data, place, leftBehind, todo>>
    BY <2>1 DEF cardVars, cacheVars
  <2>3. ScreenOK'
    BY <1>0, <2>1, ReadingIsAPath, ScreenMoves
  <2> QED
    BY <2>2, <2>3, CardUntouched
<1>3. CASE LeaveSync \/ LeaveUsb \/ Asleep
  <2>1. /\ todo = <<>> /\ screen # "web" /\ screen' \in {"restarting", "off"}
        /\ UNCHANGED cardVars
    BY <1>3 DEF LeaveSync, LeaveUsb, Asleep, Ready, Rests, RestartsTo
  <2>2. UNCHANGED <<file, data, place, leftBehind, todo>>
    BY <2>1 DEF cardVars, cacheVars
  <2>3. ScreenOK'
    BY <1>0, <2>1, <2>2, ScreenMoves
  <2> QED
    BY <2>2, <2>3, CardUntouched
<1>4. CASE Boot
  <2>1. /\ screen \in {"restarting", "off"}
        /\ UNCHANGED <<file, data, place, leftBehind>>
    BY <1>4 DEF Boot, LoadList, cacheVars
  <2>2. todo = <<>>
    BY <2>1 DEF IInv, ScreenOK
  <2>3. CASE screen' = "home" /\ UNCHANGED todo
    <3>1. ScreenOK'
      BY <1>0, <2>1, <2>3, ScreenMoves
    <3> QED
      BY <2>1, <2>3, <3>1, CardUntouched
  <2>4. ASSUME NEW p \in Paths, CanOpen(p), screen' = "opening", reading' = p,
               todo' = Builds(p)
        PROVE  IInv'
    <3>1. ScreenOK'
      BY <1>0, <2>1, <2>4, ScreenMoves
    <3> QED
      BY <2>1, <2>2, <2>4, <3>1, BuildsStart
  <2> QED
    BY <1>4, <2>3, <2>4 DEF Boot
<1>5. ASSUME NEW footnote \in BOOLEAN, FallAsleep(footnote) PROVE IInv'
  <2>1. /\ todo = <<>> /\ screen \in {"home", "reader", "sync", "web"}
        /\ UNCHANGED <<screen, reading>>
        /\ Makes(IF screen = "reader" THEN Closing(footnote) ELSE <<>>)
    BY <1>5 DEF FallAsleep, readerVars
  <2>2. CASE screen = "reader"
    <3>1. Own(Closing(footnote))
      BY <2>2, ReadingIsAPath, ClosingIsOwn
    <3>2. ScreenOK'
      BY <1>0, <2>1, <2>2, ReadingIsAPath, ScreenMoves
    <3> QED
      BY <2>1, <2>2, <3>1, <3>2, OwnStarts
  <2>3. CASE screen # "reader"
    <3>1. todo' = <<>> /\ UNCHANGED <<file, data, place, leftBehind, todo>>
      BY <2>1, <2>3 DEF Makes, cacheVars
    <3>2. ScreenOK'
      BY <1>0, <2>1, <3>1, Zenon DEF IInv, ScreenOK, serverVars, Bare, HasCache
    <3> QED
      BY <3>1, <3>2, CardUntouched
  <2> QED
    BY <2>2, <2>3
<1> QED
  BY <1>1, <1>2, <1>3, <1>4, <1>5 DEF Powering

-----------------------------------------------------------------------------
(* Requests and transfers. *)

LEMMA RequestStarts ==
  ASSUME IInv, todo = <<>>, UNCHANGED <<file, data, place>>,
         leftBehind \subseteq leftBehind', leftBehind' \subseteq Paths,
         UNCHANGED <<screen, reading, serverVars>>, screen \in {"home", "web"},
         NEW u \in Seq(CallRecords), todo' = u, Shape(u),
         \A i \in DOMAIN u : u[i].call \in ServerCalls, u[1].call # "rename",
         u[1].call = "remove" =>
             \/ Cleared(u, 1) \/ u[1].path \in leftBehind'
             \/ (Is(u, 2, "write", u[1].path) \/ Is(u, 2, "put", u[1].path))
                /\ Cleared(u, 2),
         u[1].call = "write" => Cleared(u, 1) \/ Bare(u[1].path)
  PROVE  IInv'
<1>1. \A p : Bare(p) => Bare(p)'
  BY DEF Bare, HasCache
<1>2. HeadOK'
  <2> SUFFICES ASSUME u # <<>> PROVE HeadOK'
    BY DEF HeadOK
  <2> PICK p : p = u[1].path
    OBVIOUS
  <2>1. u[1].call \in ServerCalls
    OBVIOUS
  <2>2. u[1].call = "remove" =>
            \/ Cleared(u, 1) \/ Bare(p)'
            \/ (Is(u, 2, "write", p) \/ Is(u, 2, "put", p)) /\ Cleared(u, 2)
    BY DEF Bare
  <2>3. u[1].call = "write" => Cleared(u, 1) \/ Bare(p)'
    BY <1>1
  <2> QED
    BY <2>1, <2>2, <2>3 DEF HeadOK, This, ServerCalls
<1>3. PlacesOK'
  BY DEF PlacesOK, ServerCalls
<1>4. ScreenOK'
  <2>1. ScreenOK /\ UNCHANGED <<running, owner, target>>
    BY DEF IInv, serverVars
  <2>2. Bare(target) => Bare(target)'
    BY <2>1 DEF Bare, HasCache
  <2> QED
    BY <2>1, <2>2 DEF ScreenOK
<1> QED
  BY <1>2, <1>3, <1>4, HandlerStarts

LEMMA PairStarts ==
  ASSUME NEW a \in CallRecords, NEW b \in CallRecords, a.path = b.path,
         a.path \in Paths, <<a.call, b.call>> \in Pairs,
         {a.call, b.call} \subseteq ServerCalls,
         a.call \in {"write", "put"} => a.book \in Books \cup {Torn},
         b.call = "rename" => b.to \in Paths,
         NEW u, u = <<a, b>>
  PROVE  /\ u \in Seq(CallRecords) /\ Shape(u) /\ u[1] = a /\ DOMAIN u = {1, 2}
         /\ \A i \in DOMAIN u : u[i].call \in ServerCalls
         /\ b.call = "clear" => Cleared(u, 1)
<1>1. /\ u \in Seq(CallRecords) /\ Len(u) = 2 /\ u[1] = a /\ u[2] = b
      /\ DOMAIN u = {1, 2} /\ 1 + 1 = 2
  OBVIOUS
<1>2. a.call \notin {"rename", "moveCache"} /\ b.call \notin {"moveCache", "write", "put"}
  BY DEF Pairs
<1>3. TypeAt(u, 1) /\ TypeAt(u, 2)
  BY <1>1, <1>2 DEF TypeAt, CallNames, ServerCalls
<1>4. Shape(u)
  BY <1>1, <1>3, TwoHaveShape
<1> QED
  BY <1>1, <1>4 DEF Cleared, Is

\* A file that is in the way is removed first.
LEMMA RemovalStarts ==
  ASSUME NEW q \in Paths, NEW t \in Seq(CallRecords), Shape(t),
         \A i \in DOMAIN t : t[i].call \in ServerCalls,
         1 \in DOMAIN t, t[1].call \notin {"remove", "rename"},
         t[1].call = "write" => t[1].path = q,
         NEW a \in CallRecords, a.call = "remove", a.path = q,
         NEW s, s = <<a>>, NEW u, u = s \o t
  PROVE  /\ u \in Seq(CallRecords) /\ Shape(u)
         /\ u[1].call = "remove" /\ u[1].path = q
         /\ \A i \in DOMAIN u : u[i].call \in ServerCalls
         /\ \A c : Is(t, 1, c, q) => Is(u, 2, c, q)
         /\ Cleared(t, 1) => Cleared(u, 2)
<1>2. /\ s \in Seq(CallRecords) /\ Len(s) = 1 /\ s[1] = a /\ DOMAIN s = {1}
      /\ 1 + 1 = 2 /\ 2 + 1 = 3 /\ 1 + 2 = 3
  OBVIOUS
<1>3. TypeAt(s, 1)
  BY <1>2 DEF TypeAt, CallNames
<1>4. Shape(s)
  BY <1>2, <1>3, OneHasShape
<1>5. u = s \o t
  OBVIOUS
<1>6. /\ u \in Seq(CallRecords) /\ DOMAIN u = 1..(1 + Len(t)) /\ Len(t) \in Nat
      /\ DOMAIN t = 1..Len(t)
      /\ u[1] = a /\ \A k \in DOMAIN t : 1 + k \in DOMAIN u /\ u[1 + k] = t[k]
  BY <1>2, <1>5, ConcatIs
<1>7. Shape(u)
  <2>1. \A i \in DOMAIN t : t[i].call \notin {"build", "putPlace", "moveCache"}
    BY DEF ServerCalls
  <2>2. t[1].call = "write" => Is(s, Len(s), "remove", t[1].path)
    BY <1>2 DEF Is
  <2>3. \A i \in DOMAIN s : s[i].call # "build"
    BY <1>2
  <2> QED
    BY <1>2, <1>4, <1>5, <2>1, <2>2, <2>3, BothHaveShape
<1>8. ASSUME NEW i \in DOMAIN u PROVE u[i].call \in ServerCalls
  <2>1. CASE i = 1
    BY <1>6, <2>1 DEF ServerCalls
  <2>2. CASE i # 1
    <3>1. i - 1 \in DOMAIN t /\ 1 + (i - 1) = i
      BY <1>6, <2>2
    <3>2. u[i] = t[i - 1]
      BY <1>6, <3>1
    <3> QED
      BY <3>1, <3>2
  <2> QED
    BY <2>1, <2>2
<1>9. \A c : Is(t, 1, c, q) => Is(u, 2, c, q)
  BY <1>2, <1>6 DEF Is
<1>10. Cleared(t, 1) => Cleared(u, 2)
  <2> SUFFICES ASSUME Is(t, 2, "clear", t[1].path) PROVE Is(u, 3, "clear", u[2].path)
    BY <1>2 DEF Cleared
  <2>1. 2 \in DOMAIN t /\ u[2] = t[1] /\ 3 \in DOMAIN u /\ u[3] = t[2]
    BY <1>2, <1>6 DEF Is
  <2> QED
    BY <2>1 DEF Is
<1> QED
  BY <1>6, <1>7, <1>8, <1>9, <1>10

\* The same, or nothing if there is none.
LEMMA RemovedFirst ==
  ASSUME IInv, todo = <<>>, UNCHANGED <<file, data, place>>,
         leftBehind \subseteq leftBehind', leftBehind' \subseteq Paths,
         UNCHANGED <<screen, reading, serverVars>>, screen \in {"home", "web"},
         NEW q \in Paths, NEW t \in Seq(CallRecords), Shape(t), 1 \in DOMAIN t,
         \A i \in DOMAIN t : t[i].call \in ServerCalls,
         t[1].call \notin {"remove", "rename"},
         t[1].call = "write" => t[1].path = q /\ (Cleared(t, 1) \/ Bare(q) \/ Exists(q)),
         Exists(q) => \/ q \in leftBehind'
                      \/ (Is(t, 1, "write", q) \/ Is(t, 1, "put", q)) /\ Cleared(t, 1),
         todo' = (IF Exists(q) THEN <<On("remove", q)>> ELSE <<>>) \o t
  PROVE  IInv'
<1>1. CASE Exists(q)
  <2> PICK a : a = On("remove", q)
    OBVIOUS
  <2> PICK s, u : s = <<a>> /\ u = s \o t
    OBVIOUS
  <2>3. a \in CallRecords /\ a.call = "remove" /\ a.path = q
    BY DEF On, Call, CallRecords, CallNames
  <2>0. t[1].call = "write" => t[1].path = q
    OBVIOUS
  <2>1. /\ u \in Seq(CallRecords) /\ Shape(u)
        /\ u[1].call = "remove" /\ u[1].path = q
        /\ \A i \in DOMAIN u : u[i].call \in ServerCalls
        /\ \A c : Is(t, 1, c, q) => Is(u, 2, c, q)
        /\ Cleared(t, 1) => Cleared(u, 2)
    <3>1. u \in Seq(CallRecords) /\ Shape(u)
      BY <2>0, <2>3, RemovalStarts
    <3>5. u[1].call = "remove" /\ u[1].path = q
      BY <2>0, <2>3, RemovalStarts
    <3>2. \A c : Is(t, 1, c, q) => Is(u, 2, c, q)
      BY <2>0, <2>3, RemovalStarts
    <3>3. Cleared(t, 1) => Cleared(u, 2)
      BY <2>0, <2>3, RemovalStarts
    <3>4. ASSUME NEW i \in DOMAIN u PROVE u[i].call \in ServerCalls
      BY <2>0, <2>3, RemovalStarts
    <3> QED
      BY <3>1, <3>2, <3>3, <3>4, <3>5
  <2>2. todo' = u
    BY <1>1
  <2> QED
    BY <1>1, <2>1, <2>2, RequestStarts
<1>2. CASE ~Exists(q)
  <2>1. todo' = t
    BY <1>2
  <2> QED
    BY <1>2, <2>1, RequestStarts
<1> QED
  BY <1>1, <1>2

\* Without a file there is no cache, unless one was left behind.
LEMMA BareWithoutFile ==
  ASSUME IInv, todo = <<>>, NEW p \in Paths, ~Exists(p)
  PROVE  Bare(p)
<1>1. p \notin leftBehind => Fits(p)
  BY AllFit
<1> QED
  BY <1>1 DEF Fits, Bare, HasCache, Exists

LEMMA PairBegins ==
  ASSUME IInv, todo = <<>>, UNCHANGED <<file, data, place, leftBehind>>,
         UNCHANGED <<screen, reading, serverVars>>, screen \in {"home", "web"},
         NEW a \in CallRecords, NEW b \in CallRecords, a.path = b.path,
         a.path \in Paths, <<a.call, b.call>> \in Pairs,
         {a.call, b.call} \subseteq ServerCalls,
         a.call \in {"write", "put"} => a.book \in Books \cup {Torn},
         b.call = "rename" => b.to \in Paths,
         todo' = <<a, b>>
  PROVE  IInv'
<1> PICK u : u = <<a, b>>
  OBVIOUS
<1>1. /\ u \in Seq(CallRecords) /\ Shape(u) /\ u[1] = a
      /\ \A i \in DOMAIN u : u[i].call \in ServerCalls
      /\ b.call = "clear" => Cleared(u, 1)
  BY PairStarts
<1>2. a.call \in {"remove", "write"} => b.call = "clear"
  BY DEF Pairs
<1>3. a.call # "rename" /\ todo' = u
  BY DEF Pairs
<1> QED
  BY <1>1, <1>2, <1>3, Facts, RequestStarts

LEMMA PutBegins ==
  ASSUME IInv, todo = <<>>, UNCHANGED <<file, data, place, leftBehind>>,
         UNCHANGED <<screen, reading, serverVars>>, screen \in {"home", "web"},
         NEW p \in Paths, NEW a \in CallRecords, a.call \in {"write", "put"},
         a.path = p, a.book \in Books \cup {Torn},
         todo' = (IF Exists(p) THEN <<On("remove", p)>> ELSE <<>>)
                 \o <<a, On("clear", p)>>
  PROVE  IInv'
<1> PICK b, t : b = On("clear", p) /\ t = <<a, b>>
  OBVIOUS
<1>1. b \in CallRecords /\ b.call = "clear" /\ b.path = p
  BY DEF On, Call, CallRecords, CallNames
<1>2. <<a.call, b.call>> \in Pairs /\ {a.call, b.call} \subseteq ServerCalls
  BY <1>1 DEF Pairs, ServerCalls
<1>3. /\ t \in Seq(CallRecords) /\ Shape(t) /\ t[1] = a /\ DOMAIN t = {1, 2}
      /\ \A i \in DOMAIN t : t[i].call \in ServerCalls
      /\ Cleared(t, 1)
  BY <1>1, <1>2, PairStarts
<1>4. Is(t, 1, "write", p) \/ Is(t, 1, "put", p)
  BY <1>3 DEF Is
<1>5. todo' = (IF Exists(p) THEN <<On("remove", p)>> ELSE <<>>) \o t
  OBVIOUS
<1>6. /\ 1 \in DOMAIN t /\ t[1].call \notin {"remove", "rename"} /\ t[1].path = p
      /\ leftBehind' = leftBehind /\ leftBehind \subseteq Paths
      /\ UNCHANGED <<file, data, place>>
  BY <1>3, Facts
<1> QED
  BY <1>3, <1>4, <1>5, <1>6, RemovedFirst

LEMMA RequestsKeep ==
  ASSUME IInv, Requests, AtTheServer, screen = "web"
  PROVE  IInv'
<1>0. UNCHANGED <<screen, reading>>
  BY DEF AtTheServer, libraryVars, readerVars
<1>1. ASSUME NEW t, Request(t)
      PROVE  /\ todo = <<>> /\ todo' = t /\ UNCHANGED serverVars
             /\ UNCHANGED <<file, data, place, leftBehind>>
  BY <1>1 DEF Request, Served, Begins, cacheVars
<1>2. ASSUME NEW p \in Paths, NEW b \in Books, Upload(p, b) PROVE IInv'
  <2> PICK a, c : a = Call("write", p, Nothing, b) /\ c = On("clear", p)
    OBVIOUS
  <2>1. Request(<<a, c>>)
    BY <1>2 DEF Upload
  <2>2. /\ a \in CallRecords /\ a.call = "write" /\ a.path = p /\ a.book = b
        /\ c \in CallRecords /\ c.call = "clear" /\ c.path = p
    BY DEF On, Call, CallRecords, CallNames
  <2>3. <<a.call, c.call>> \in Pairs /\ {a.call, c.call} \subseteq ServerCalls
    BY <2>2 DEF Pairs, ServerCalls
  <2> QED
    BY <1>0, <1>1, <2>1, <2>2, <2>3, PairBegins
<1>3. ASSUME NEW p \in Paths, NEW b \in Books, DavPut(p, b) PROVE IInv'
  <2> PICK a : a = Call("put", p, file[p], b)
    OBVIOUS
  <2> PICK t : t = (IF Exists(p) THEN <<On("remove", p)>> ELSE <<>>)
                   \o <<a, On("clear", p)>>
    OBVIOUS
  <2>1. Request(t)
    BY <1>3 DEF DavPut
  <2>2. file[p] \in Paths \cup Books \cup {Torn, Nothing}
    BY Facts
  <2>3. /\ a \in CallRecords /\ a.call = "put" /\ a.path = p
        /\ a.book \in Books \cup {Torn}
    BY <2>2 DEF Call, CallRecords, CallNames
  <2>4. /\ todo = <<>> /\ UNCHANGED serverVars /\ todo' = t
        /\ UNCHANGED <<file, data, place, leftBehind>>
    BY <2>1 DEF Request, Served, Begins, cacheVars
  <2> QED
    BY <1>0, <2>3, <2>4, PutBegins
<1>4. ASSUME NEW p \in Paths, Delete(p) \/ DavDelete(p) PROVE IInv'
  <2> PICK a, c : /\ a \in {On("remove", p), On("clear", p)}
                  /\ c \in {On("remove", p), On("clear", p)} /\ a # c
                  /\ Request(<<a, c>>)
    <3>1. On("remove", p) # On("clear", p)
      BY DEF On, Call
    <3> QED
      BY <1>4, <3>1 DEF Delete, DavDelete
  <2>1. /\ a \in CallRecords /\ c \in CallRecords /\ a.path = p /\ c.path = p
        /\ <<a.call, c.call>> \in {<<"remove", "clear">>, <<"clear", "remove">>}
    BY DEF On, Call, CallRecords, CallNames
  <2>2. <<a.call, c.call>> \in Pairs /\ {a.call, c.call} \subseteq ServerCalls
        /\ a.call \notin {"write", "put"} /\ c.call # "rename"
    BY <2>1 DEF Pairs, ServerCalls
  <2> QED
    BY <1>0, <1>1, <2>1, <2>2, PairBegins
<1>5. ASSUME NEW p \in Paths, NEW q \in Paths, RenameBook(p, q) PROVE IInv'
  <2> PICK a, c : a = On("clear", p) /\ c = Call("rename", p, q, Nothing)
    OBVIOUS
  <2>1. Request(<<a, c>>)
    BY <1>5 DEF RenameBook, ClearAndRename
  <2>2. /\ a \in CallRecords /\ a.call = "clear" /\ a.path = p
        /\ c \in CallRecords /\ c.call = "rename" /\ c.path = p /\ c.to = q
    BY DEF On, Call, CallRecords, CallNames
  <2>3. <<a.call, c.call>> \in Pairs /\ {a.call, c.call} \subseteq ServerCalls
    BY <2>2 DEF Pairs, ServerCalls
  <2> QED
    BY <1>0, <1>1, <2>1, <2>2, <2>3, PairBegins
<1>6. ASSUME NEW p \in Paths, NEW q \in Paths, DavMove(p, q) \/ DavCopy(p, q)
      PROVE  /\ todo = <<>> /\ UNCHANGED <<file, data, place, serverVars>>
             /\ leftBehind \subseteq leftBehind' /\ leftBehind' \subseteq Paths
             /\ Exists(q) => q \in leftBehind'
             /\ Exists(p)
  BY <1>6, Facts DEF DavMove, DavCopy, Served, Begins, Replaces, cacheVars
<1>7. ASSUME NEW p \in Paths, NEW q \in Paths, DavMove(p, q) PROVE IInv'
  <2> PICK a, c, t : /\ a = On("clear", p) /\ c = Call("rename", p, q, Nothing)
                     /\ t = <<a, c>>
    OBVIOUS
  <2>1. todo' = (IF Exists(q) THEN <<On("remove", q)>> ELSE <<>>) \o t
    BY <1>7 DEF DavMove, Begins, Removal, ClearAndRename
  <2>2. /\ a \in CallRecords /\ a.call = "clear" /\ a.path = p
        /\ c \in CallRecords /\ c.call = "rename" /\ c.path = p /\ c.to = q
    BY DEF On, Call, CallRecords, CallNames
  <2>3. <<a.call, c.call>> \in Pairs /\ {a.call, c.call} \subseteq ServerCalls
    BY <2>2 DEF Pairs, ServerCalls
  <2>4. /\ t \in Seq(CallRecords) /\ Shape(t) /\ t[1] = a /\ 1 \in DOMAIN t
        /\ \A i \in DOMAIN t : t[i].call \in ServerCalls
    BY <2>2, <2>3, PairStarts
  <2> QED
    BY <1>0, <1>6, <1>7, <2>1, <2>2, <2>4, RemovedFirst
<1>8. ASSUME NEW p \in Paths, NEW q \in Paths, DavCopy(p, q) PROVE IInv'
  <2> PICK a, t : a = Call("write", q, Nothing, file[p]) /\ t = <<a>>
    OBVIOUS
  <2>1. todo' = (IF Exists(q) THEN <<On("remove", q)>> ELSE <<>>) \o t
    BY <1>8 DEF DavCopy, Begins, Removal
  <2>2. /\ a \in CallRecords /\ a.call = "write" /\ a.path = q
        /\ a.book \in Books \cup {Torn}
    <3>1. file[p] \in Books \cup {Torn}
      BY <1>6, <1>8, Facts DEF Exists
    <3> QED
      BY <3>1 DEF Call, CallRecords, CallNames
  <2>3. t \in Seq(CallRecords) /\ Len(t) = 1 /\ t[1] = a /\ DOMAIN t = {1}
    BY <2>2
  <2>4. TypeAt(t, 1)
    BY <2>2, <2>3 DEF TypeAt, CallNames
  <2>5. Shape(t)
    BY <2>2, <2>3, <2>4, OneHasShape
  <2>6. \A i \in DOMAIN t : t[i].call \in ServerCalls
    BY <2>2, <2>3 DEF ServerCalls
  <2>7. Bare(q) \/ Exists(q)
    BY <1>6, <1>8, BareWithoutFile
  <2> QED
    BY <1>0, <1>6, <1>8, <2>1, <2>2, <2>3, <2>5, <2>6, <2>7, RemovedFirst
<1> QED
  BY <1>2, <1>3, <1>4, <1>5, <1>7, <1>8 DEF Requests

LEMMA FetchingKeeps ==
  ASSUME IInv, Fetching
  PROVE  IInv'
<1>1. /\ screen = "home" /\ todo = <<>> /\ UNCHANGED <<screen, reading, serverVars>>
      /\ leftBehind' = leftBehind
  BY DEF Fetching, Home, Ready, AtTheScreen, libraryVars, readerVars
<1>2. ASSUME NEW t, Begins(t)
      PROVE  todo' = t /\ UNCHANGED <<file, data, place>>
  BY <1>2 DEF Begins, cacheVars
<1>3. ASSUME NEW p \in Paths, BrowserDeletes(p) PROVE IInv'
  <2> PICK a, c : a = On("clear", p) /\ c = On("remove", p)
    OBVIOUS
  <2>1. Begins(<<a, c>>)
    BY <1>3 DEF BrowserDeletes
  <2>2. /\ a \in CallRecords /\ a.call = "clear" /\ a.path = p
        /\ c \in CallRecords /\ c.call = "remove" /\ c.path = p
    BY DEF On, Call, CallRecords, CallNames
  <2>3. <<a.call, c.call>> \in Pairs /\ {a.call, c.call} \subseteq ServerCalls
    BY <2>2 DEF Pairs, ServerCalls
  <2> QED
    BY <1>1, <1>2, <2>1, <2>2, <2>3, PairBegins
<1>4. ASSUME NEW p \in Paths, NEW b \in Books, Download(p, b) PROVE IInv'
  <2> PICK a : a = Call("write", p, Nothing, b)
    OBVIOUS
  <2> PICK t : t = (IF Exists(p) THEN <<On("remove", p)>> ELSE <<>>)
                   \o <<a, On("clear", p)>>
    OBVIOUS
  <2>1. Begins(t)
    BY <1>4 DEF Download, Removal
  <2>2. /\ a \in CallRecords /\ a.call = "write" /\ a.path = p
        /\ a.book \in Books \cup {Torn}
    BY DEF Call, CallRecords, CallNames
  <2>3. UNCHANGED <<file, data, place>> /\ todo' = t
    BY <2>1 DEF Begins, cacheVars
  <2> QED
    BY <1>1, <2>2, <2>3, PutBegins
<1> QED
  BY <1>3, <1>4 DEF Fetching

-----------------------------------------------------------------------------
(* The WebSocket: the file of an upload has no cache. *)

LEMMA UploadFile ==
  ASSUME IInv, todo = <<>>, NEW p \in Paths, Bare(p),
         NEW x \in Books \cup {Torn, Nothing}, file' = [file EXCEPT ![p] = x],
         UNCHANGED <<data, place, leftBehind>>
  PROVE  CardTyped' /\ \A r \in Paths \ leftBehind' : Fits(r)'
<1>1. CardTyped'
  BY Facts DEF CardTyped
<1>2. ASSUME NEW r \in Paths \ leftBehind' PROVE Fits(r)'
  <2>1. Fits(r)
    BY <1>2, AllFit
  <2>2. CASE r = p
    BY <1>2, <2>2 DEF Bare, HasCache, Fits
  <2>3. CASE r # p
    <3>1. file'[r] = file[r]
      BY <2>3, Facts
    <3> QED
      BY <2>1, <3>1 DEF Fits, Exists
  <2> QED
    BY <2>2, <2>3
<1> QED
  BY <1>1, <1>2

LEMMA NothingBegins ==
  ASSUME todo' = <<>>, CardTyped', \A r \in Paths \ leftBehind' : Fits(r)', ScreenOK'
  PROVE  IInv'
<1>1. CardOK'
  BY DEF CardOK, CardTyped
<1>2. TodoOK'
  BY NothingLeftToDo DEF TodoOK
<1> QED
  BY <1>1, <1>2 DEF IInv

\* The upload in progress.
LEMMA OwnersFile ==
  ASSUME IInv, owner # NoClient
  PROVE  running /\ target \in Paths /\ Bare(target)
BY DEF IInv, ScreenOK

LEMMA AbortsLeaves ==
  ASSUME IInv, todo = <<>>, owner # NoClient, Aborts,
         UNCHANGED <<data, place, leftBehind>>
  PROVE  CardTyped' /\ \A r \in Paths \ leftBehind' : Fits(r)'
<1> PICK p \in Paths : p = target
  BY OwnersFile
<1>1. Bare(p) /\ file' = [file EXCEPT ![p] = Nothing]
  BY OwnersFile DEF Aborts, At
<1> QED
  BY <1>1, UploadFile

LEMMA EventsKeep ==
  ASSUME IInv, Events, AtTheServer, screen = "web", NoClient \notin Clients
  PROVE  IInv'
<1> PICK c \in Clients :
        \/ Connects(c) \/ BadChunk(c) \/ Disconnects(c)
        \/ \E p \in Paths : Start(c, p)
        \/ \E b \in Books : LastChunk(c, b)
  BY DEF Events
<1>0. UNCHANGED <<screen, reading>> /\ ScreenOK /\ c # NoClient
  BY DEF AtTheServer, libraryVars, readerVars, IInv
<1>1. ASSUME UNCHANGED <<file, owner, target, todo>>, Event PROVE IInv'
  <2>1. UNCHANGED <<data, place, leftBehind, running>>
    BY <1>1 DEF Event, cacheVars
  <2>2. ScreenOK'
    BY <1>0, <1>1, <2>1, Zenon DEF ScreenOK, Bare, HasCache
  <2> QED
    BY <1>1, <2>1, <2>2, CardUntouched
<1>2. ASSUME Event, owner' = NoClient, todo' = <<>>
      PROVE  ScreenOK'
  <2>1. running' = running
    BY <1>2 DEF Event
  <2> QED
    BY <1>0, <1>2, <2>1, NothingLeftToDo DEF ScreenOK
<1>3. ASSUME todo = <<>>, UNCHANGED todo, owner = c, Aborts, Event PROVE IInv'
  <2>1. UNCHANGED <<data, place, leftBehind>> /\ owner' = NoClient
    BY <1>3 DEF Event, cacheVars, Aborts, Frees
  <2>2. CardTyped' /\ \A r \in Paths \ leftBehind' : Fits(r)'
    BY <1>0, <1>3, <2>1, AbortsLeaves
  <2>3. ScreenOK'
    BY <1>2, <1>3, <2>1
  <2> QED
    BY <1>3, <2>2, <2>3, NothingBegins
<1>4. CASE Connects(c)
  BY <1>1, <1>4 DEF Connects
<1>5. CASE BadChunk(c)
  BY <1>3, <1>5 DEF BadChunk, Idle
<1>6. CASE Disconnects(c)
  <2>1. CASE Owns(c)
    BY <1>3, <1>6, <2>1 DEF Disconnects, Owns, Idle
  <2>2. CASE ~Owns(c)
    BY <1>1, <1>6, <2>2 DEF Disconnects
  <2> QED
    BY <2>1, <2>2
<1>7. ASSUME NEW p \in Paths, Start(c, p) PROVE IInv'
  <2>1. /\ todo = <<>> /\ todo' = <<>> /\ ~Exists(p) /\ owner' = c /\ target' = p
        /\ file' = [file EXCEPT ![p] = Torn] /\ running
        /\ UNCHANGED <<data, place, leftBehind, running>>
    BY <1>7 DEF Start, Idle, Event, cacheVars, At
  <2>2. Bare(p)
    BY <2>1, BareWithoutFile
  <2>3. CardTyped' /\ \A r \in Paths \ leftBehind' : Fits(r)'
    BY <2>1, <2>2, UploadFile
  <2>4. Bare(target)'
    BY <2>1, <2>2 DEF Bare, HasCache
  <2>5. ScreenOK'
    BY <1>0, <2>1, <2>4, NothingLeftToDo DEF ScreenOK
  <2> QED
    BY <2>1, <2>3, <2>5, NothingBegins
<1>8. ASSUME NEW b \in Books, LastChunk(c, b) PROVE IInv'
  <2> PICK p : p = target
    OBVIOUS
  <2>1. /\ todo = <<>> /\ owner = c /\ owner' = NoClient
        /\ todo' = <<On("clear", p)>> /\ running
        /\ UNCHANGED <<data, place, leftBehind, running>>
    BY <1>8 DEF LastChunk, Idle, Frees, Event, cacheVars
  <2>2. p \in Paths /\ Bare(p)
    BY <1>0, <2>1, OwnersFile
  <2>3. PICK x \in Books \cup {Torn, Nothing} : file' = [file EXCEPT ![p] = x]
    <3>1. file[p] \in Books \cup {Torn, Nothing} /\ file = [file EXCEPT ![p] = file[p]]
      BY <2>2, Facts
    <3> QED
      BY <1>8, <3>1 DEF LastChunk, Finished, At
  <2>4. CardTyped' /\ \A r \in Paths \ leftBehind' : Fits(r)'
    BY <2>1, <2>2, <2>3, UploadFile
  <2> PICK a, u : a = On("clear", p) /\ u = <<a>>
    OBVIOUS
  <2>5. a \in CallRecords /\ a.call = "clear" /\ a.path = p
    BY <2>2 DEF On, Call, CallRecords, CallNames
  <2>6. u \in Seq(CallRecords) /\ Len(u) = 1 /\ u[1] = a /\ DOMAIN u = {1}
    BY <2>5
  <2>7. TypeAt(u, 1)
    BY <2>2, <2>5, <2>6 DEF TypeAt, CallNames
  <2>8. Shape(u) /\ todo' = u
    BY <2>1, <2>5, <2>6, <2>7, OneHasShape
  <2>9. HeadOK' /\ PlacesOK'
    BY <2>5, <2>6, <2>8 DEF HeadOK, PlacesOK, This
  <2>10. ScreenOK'
    BY <1>0, <2>1, <2>5, <2>6, <2>8 DEF ScreenOK, ServerCalls
  <2>11. CardOK'
    BY <2>4 DEF CardOK, CardTyped
  <2> QED
    BY <2>6, <2>8, <2>9, <2>10, <2>11 DEF IInv, TodoOK
<1> QED
  BY <1>4, <1>5, <1>6, <1>7, <1>8

LEMMA ServerKeeps ==
  ASSUME IInv, OpenWeb \/ CloseWeb
  PROVE  IInv'
<1>1. CASE OpenWeb
  <2>1. /\ screen' = "web" /\ todo = <<>> /\ screen = "home" /\ running' = TRUE
        /\ UNCHANGED <<owner, target>> /\ UNCHANGED cardVars
    BY <1>1 DEF OpenWeb, Ready, StartServer, Rests
  <2>2. UNCHANGED <<file, data, place, leftBehind, todo>>
    BY <2>1 DEF cardVars, cacheVars
  <2>3. owner' = NoClient
    BY <2>1 DEF IInv, ScreenOK
  <2>4. ScreenOK'
    BY <2>1, <2>2, <2>3, NothingLeftToDo DEF ScreenOK
  <2> QED
    BY <2>2, <2>4, CardUntouched
<1>2. CASE CloseWeb
  <2>1. /\ todo = <<>> /\ todo' = <<>> /\ screen' \in {"off", "home"}
        /\ running' = FALSE /\ UNCHANGED <<data, place, leftBehind>>
        /\ IF owner # NoClient THEN Aborts ELSE UNCHANGED <<file, owner, target>>
    BY <1>2 DEF CloseWeb, StopServer, Idle, cacheVars
  <2>2. owner' = NoClient
    BY <2>1 DEF Aborts, Frees
  <2>3. ScreenOK'
    BY <2>1, <2>2 DEF ScreenOK
  <2>4. CASE owner # NoClient
    <3>1. CardTyped' /\ \A r \in Paths \ leftBehind' : Fits(r)'
      BY <2>1, <2>4, AbortsLeaves
    <3> QED
      BY <2>1, <2>3, <3>1, NothingBegins
  <2>5. CASE owner = NoClient
    BY <2>1, <2>3, <2>5, CardUntouched
  <2> QED
    BY <2>4, <2>5
<1> QED
  BY <1>1, <1>2

-----------------------------------------------------------------------------
(* The invariant. *)

LEMMA InitIsSound ==
  Init => IInv
<1> SUFFICES ASSUME Init PROVE IInv
  OBVIOUS
<1>1. todo = <<>> /\ <<>> \in Seq(CallRecords) /\ DOMAIN <<>> = {}
  BY DEF Init, CardInit
<1>2. CardOK
  BY DEF Init, CardInit, CardOK, Fits
<1>3. TodoOK
  BY <1>1 DEF TodoOK, Shape, HeadOK, PlacesOK
<1>4. ScreenOK
  BY <1>1 DEF Init, LibraryInit, ServerInit, ScreenOK
<1> QED
  BY <1>2, <1>3, <1>4 DEF IInv

LEMMA NextKeepsIt ==
  IInv /\ [Next]_vars => IInv'
<1> SUFFICES ASSUME IInv, [Next]_vars PROVE IInv'
  OBVIOUS
<1>1. CASE (Reading \/ Powering) /\ AtTheScreen
  BY <1>1, ReadingKeeps, PoweringKeeps
<1>2. CASE OpenWeb \/ CloseWeb
  BY <1>2, ServerKeeps
<1>3. CASE Serve
  BY <1>3, RequestsKeep DEF Serve, Serving, Ready
<1>4. CASE Listen
  BY <1>4, EventsKeep, ClientsAssumption DEF Listen, Serving, Ready
<1>5. CASE Fetching
  BY <1>5, FetchingKeeps
<1>6. CASE PowerLoss
  BY <1>6, PowerLossKeeps
<1>7. CASE Run
  BY <1>7, CallsKeep
<1>8. CASE UNCHANGED vars
  <2>1. UNCHANGED <<file, data, place, leftBehind, todo, screen, reading, running,
                    owner, target>>
    BY <1>8 DEF vars, cardVars, cacheVars, libraryVars, readerVars, serverVars
  <2>2. ScreenOK'
    BY <2>1, Zenon DEF IInv, ScreenOK, Bare, HasCache
  <2> QED
    BY <2>1, <2>2, CardUntouched
<1> QED
  BY <1>1, <1>2, <1>3, <1>4, <1>5, <1>6, <1>7, <1>8 DEF Next

LEMMA AlwaysSound == Spec => []IInv
BY InitIsSound, NextKeepsIt, PTL DEF Spec

(***************************************************************************)
(* Between two handlers a book's cache was made from this very book: no    *)
(* order of uploads, renames, moves, downloads, failures and power losses  *)
(* puts a book under a name whose cache is another's, but for the paths    *)
(* whose cache is known to have been kept (the clearBookCache() calls of   *)
(* CrossPointWebServer, WebDAVHandler, the file browser and the catalogue, *)
(* and moveFinishedBookToReadFolder()).                                    *)
(***************************************************************************)
THEOREM CachesAreOfTheirBooks == Spec => []CacheIsOfItsBook
<1>1. IInv => CacheIsOfItsBook
  <2> SUFFICES ASSUME IInv, todo = <<>>, NEW p \in Paths \ leftBehind
               PROVE  /\ data[p] \in {Nothing, Torn, file[p]}
                      /\ place[p] \in {Nothing, file[p]}
    BY DEF CacheIsOfItsBook
  <2>1. Fits(p)
    BY AllFit
  <2> QED
    BY <2>1 DEF Fits
<1> QED
  BY <1>1, AlwaysSound, PTL

-----------------------------------------------------------------------------
(* Saved positions. *)

LEMMA MoveCarriesThePlace ==
  ASSUME IInv, MoveCache, NEW p \in Paths \ leftBehind,
         place[p] # Nothing, place'[p] = Nothing
  PROVE  MovesAlong(p)
<1>1. Doing("moveCache") /\ CanFollow /\ UNCHANGED file
  BY DEF MoveCache
<1> PICK r \in Paths, q \in Paths : r = This.path /\ q = This.to
  BY <1>1, CallHasPath
<1>2. HasCache(r)
  BY DEF MoveCache, cacheVars
<1>3. place' = [[place EXCEPT ![q] = place[r]] EXCEPT ![r] = Nothing]
  BY <1>2 DEF MoveCache, FollowedTo, At
<1>4. q # r /\ ~HasCache(q)
  BY <1>1, <1>2 DEF CanFollow
<1>5. p # q
  BY <1>4 DEF HasCache
<1>6. p = r
  BY <1>3, <1>5, Facts
<1>7. Carried(r, q)
  BY <1>1, <1>6, CallHasPath, Facts DEF HeadOK
<1>8. place'[q] = place[p] /\ file'[q] = place[p]
  BY <1>1, <1>3, <1>4, <1>6, <1>7, Facts DEF Carried
<1> QED
  BY <1>8 DEF MovesAlong

\* A call that takes the position of a path away.
Knowingly ==
    \A p \in Paths \ leftBehind :
        place[p] # Nothing /\ place'[p] = Nothing =>
            \/ (Doing("clear") \/ Doing("dropPlace")) /\ This.path = p
            \/ MovesAlong(p)

LEMMA OnlyThisPlace ==
  ASSUME IInv, NEW q \in Paths, q = This.path,
         Doing("clear") \/ Doing("dropPlace"),
         NEW x, place' = [place EXCEPT ![q] = x]
  PROVE  Knowingly
<1>1. \A p \in Paths : p # q => place'[p] = place[p]
  BY Facts
<1> QED
  BY <1>1 DEF Knowingly

LEMMA PutPlaceKeepsOne ==
  ASSUME IInv, PutPlace
  PROVE  Knowingly
<1>1. Doing("putPlace") /\ place' = At(place, This.path, This.book) /\ UNCHANGED file
  BY DEF PutPlace
<1> PICK q \in Paths : q = This.path
  BY <1>1, CallHasPath
<1>2. This.book = file[q]
  BY <1>1, CallHasPath, Facts DEF PlacesOK, This
<1>3. place' = [place EXCEPT ![q] = file[q]]
  BY <1>1, <1>2 DEF At
<1>4. \A p \in Paths : p # q => place'[p] = place[p]
  BY <1>3, Facts
<1>5. q \notin leftBehind => Fits(q)
  BY <1>1, NoneExposed, Facts
<1>6. q \notin leftBehind /\ place[q] # Nothing => place'[q] = place[q]
  BY <1>3, <1>5, Facts DEF Fits
<1> QED
  BY <1>4, <1>6 DEF Knowingly

LEMMA CallsTakeKnowingly ==
  ASSUME IInv, Calls
  PROVE  Knowingly
<1>1. CASE UNCHANGED place
  BY <1>1 DEF Knowingly
<1>2. CASE Clear \/ DropPlace
  <2>1. PICK c \in {"clear", "dropPlace"} :
            Doing(c) /\ place' = At(place, This.path, Nothing)
    BY <1>2 DEF Clear, DropPlace
  <2> PICK q \in Paths : q = This.path
    BY <2>1, CallHasPath
  <2>2. place' = [place EXCEPT ![q] = Nothing]
    BY <2>1 DEF At
  <2> QED
    BY <2>1, <2>2, OnlyThisPlace
<1>3. CASE ClearFails
  <2>1. PICK x : Doing("clear") /\ place' = At(place, This.path, x)
    BY <1>3 DEF ClearFails, ClearsSome
  <2> PICK q \in Paths : q = This.path
    BY <2>1, CallHasPath
  <2>2. place' = [place EXCEPT ![q] = x]
    BY <2>1 DEF At
  <2> QED
    BY <2>1, <2>2, OnlyThisPlace
<1>4. CASE PutPlace
  BY <1>4, PutPlaceKeepsOne
<1>5. CASE MoveCache
  BY <1>5, MoveCarriesThePlace DEF Knowingly
<1>6. CASE Remove \/ RemoveFails \/ Write \/ WriteFails \/ Rename \/ RenameFails
  BY <1>1, <1>6 DEF Remove, RemoveFails, Write, WriteFails, Rename, RenameFails,
                    cacheVars
<1>7. CASE Put \/ PutFails \/ ClearAll \/ Build \/ BuildFails
  BY <1>1, <1>7 DEF Put, PutFails, ClearAll, Build, BuildFails, cacheVars
<1>8. CASE DropPlaceFails \/ PutPlaceFails \/ MoveCacheFails
  BY <1>1, <1>8 DEF DropPlaceFails, PutPlaceFails, MoveCacheFails, cacheVars
<1>9. CASE ChangeList \/ ListWriteFails
  BY <1>1, <1>9 DEF ChangeList, ListWriteFails, cacheVars
<1> QED
  BY <1>2, <1>3, <1>4, <1>5, <1>6, <1>7, <1>8, <1>9 DEF Calls

LEMMA PowerTakesKnowingly ==
  ASSUME IInv, PowerLoss
  PROVE  Knowingly
<1>0. CutShort
  BY DEF PowerLoss, LosePower
<1>1. CASE ~Doing("clear")
  <2>1. place' = place
    BY <1>0, <1>1 DEF CutShort
  <2> QED
    BY <2>1 DEF Knowingly
<1>2. CASE Doing("clear")
  <2>1. PICK x : place' = At(place, This.path, x)
    BY <1>0, <1>2 DEF CutShort, ClearsSome
  <2> PICK q \in Paths : q = This.path
    BY <1>2, CallHasPath
  <2>2. place' = [place EXCEPT ![q] = x]
    BY <2>1 DEF At
  <2> QED
    BY <1>2, <2>2, OnlyThisPlace
<1> QED
  BY <1>1, <1>2

\* No handler and no event touches a position by itself.
LEMMA HandlersLeavePlaces ==
  ASSUME \/ Reading \/ Powering \/ OpenWeb \/ CloseWeb \/ Requests \/ Events
         \/ Fetching
  PROVE  UNCHANGED place
<1>3. CASE Reading
  <2>1. ASSUME NEW p \in Paths, Open(p) \/ RemoveFromRecents(p)
        PROVE  UNCHANGED place
    BY <2>1 DEF Open, RemoveFromRecents, Makes, cacheVars
  <2>2. CASE Loaded \/ ShowPage \/ ShowRecents \/ ClearCaches
    BY <2>2 DEF Loaded, ShowPage, ShowRecents, ClearCaches, Makes, cacheVars
  <2>3. ASSUME NEW remove \in BOOLEAN, NEW move \in BOOLEAN,
               Finish(remove, move) \/ Return(remove)
        PROVE  UNCHANGED place
    BY <2>3 DEF Finish, Return, Makes, cacheVars
  <2>4. ASSUME NEW footnote \in BOOLEAN, Close(footnote) \/ StartOver(footnote)
        PROVE  UNCHANGED place
    BY <2>4 DEF Close, StartOver, Makes, cacheVars
  <2> QED
    BY <1>3, <2>1, <2>2, <2>3, <2>4 DEF Reading
<1>4. CASE Powering
  <2>1. CASE LaunchSync \/ Boot \/ \E footnote \in BOOLEAN : FallAsleep(footnote)
    BY <2>1 DEF LaunchSync, Boot, FallAsleep, LoadList, Makes, cacheVars
  <2>2. CASE SyncLaunched \/ LeaveSync \/ OpenUsb \/ LeaveUsb \/ Asleep
    BY <2>2 DEF SyncLaunched, LeaveSync, OpenUsb, LeaveUsb, Asleep, Rests,
                cardVars, cacheVars
  <2> QED
    BY <1>4, <2>1, <2>2 DEF Powering
<1>5. CASE OpenWeb \/ CloseWeb
  BY <1>5 DEF OpenWeb, CloseWeb, StopServer, Rests, cardVars, cacheVars
<1>6. CASE Requests
  <2>1. ASSUME NEW p \in Paths, NEW b \in Books, Upload(p, b) \/ DavPut(p, b)
        PROVE  UNCHANGED place
    BY <2>1 DEF Upload, DavPut, Request, Begins, cacheVars
  <2>2. ASSUME NEW p \in Paths, Delete(p) \/ DavDelete(p) PROVE UNCHANGED place
    BY <2>2 DEF Delete, DavDelete, Request, Begins, cacheVars
  <2>3. ASSUME NEW p \in Paths, NEW q \in Paths,
               RenameBook(p, q) \/ DavMove(p, q) \/ DavCopy(p, q)
        PROVE  UNCHANGED place
    BY <2>3 DEF RenameBook, DavMove, DavCopy, Request, Begins, cacheVars
  <2> QED
    BY <1>6, <2>1, <2>2, <2>3 DEF Requests
<1>7. CASE Events
  BY <1>7 DEF Events, Connects, BadChunk, Disconnects, Start, LastChunk, Event,
              cacheVars
<1>8. CASE Fetching
  BY <1>8 DEF Fetching, BrowserDeletes, Download, Begins, cacheVars
<1> QED
  BY <1>3, <1>4, <1>5, <1>6, <1>7, <1>8

(***************************************************************************)
(* A saved position goes away only when its cache is cleared on purpose,   *)
(* when it is about to be saved again, or when it moves along with its     *)
(* book; finishing a book and moving it to /Read does not lose it          *)
(* (ProgressFile::writeAtomic(), moveFinishedBookToReadFolder()).          *)
(***************************************************************************)
THEOREM PlacesStay == Spec => PlaceStaysWithItsBook
<1>1. IInv /\ [Next]_vars => [PlaceGoesOnlyKnowingly]_vars
  <2> SUFFICES ASSUME IInv, Next PROVE PlaceGoesOnlyKnowingly
    OBVIOUS
  <2>1. Knowingly <=> PlaceGoesOnlyKnowingly
    BY DEF Knowingly, PlaceGoesOnlyKnowingly
  <2>2. CASE UNCHANGED place
    BY <2>2 DEF PlaceGoesOnlyKnowingly
  <2>3. CASE Run
    BY <2>1, <2>3, CallsTakeKnowingly DEF Run
  <2>4. CASE PowerLoss
    BY <2>1, <2>4, PowerTakesKnowingly
  <2> QED
    BY <2>2, <2>3, <2>4, HandlersLeavePlaces DEF Next, Serve, Listen
<1> QED
  BY <1>1, AlwaysSound, PTL DEF Spec, PlaceStaysWithItsBook

-----------------------------------------------------------------------------
(* The recent list. *)

Distinct(list) == \A i, j \in DOMAIN list : list[i] = list[j] => i = j
Among(p, list) == \E i \in DOMAIN list : list[i] = p
ListOK(list) == list \in Seq(Paths) /\ Len(list) <= MaxRecent /\ Distinct(list)

LEMMA ListFacts ==
  ASSUME NEW S, NEW list \in Seq(S)
  PROVE  /\ Len(list) \in Nat /\ DOMAIN list = 1..Len(list)
         /\ \A i \in DOMAIN list : list[i] \in S
OBVIOUS

-----------------------------------------------------------------------------
(* pruneMissing().  What a recursive function computes is proved with the   *)
(* least index at which it would be something else.                        *)

KeptAt(list, f, n) ==
    IF n = 0 THEN <<>>
    ELSE IF Exists(list[n]) THEN Append(f[n - 1], list[n])
    ELSE f[n - 1]
IsKept(list, f, m) == f = [n \in 0..m |-> KeptAt(list, f, n)]

LEMMA NoLeastOne ==
  ASSUME NEW S \in SUBSET Nat, \A m \in S : \E k \in S : k < m
  PROVE  S = {}
<1> SUFFICES ASSUME S # {} PROVE FALSE
  OBVIOUS
<1>1. PICK m \in S : \A k \in S : m <= k
  BY LeastOne
<1>2. PICK k \in S : k < m
  OBVIOUS
<1>3. m <= k /\ m \in Nat /\ k \in Nat
  BY <1>1
<1> QED
  BY <1>2, <1>3

LEMMA KeptBegins ==
  ASSUME NEW list
  PROVE  \E f : IsKept(list, f, 0)
<1> DEFINE f == [n \in 0..0 |-> <<>>]
<1>1. \A n \in 0..0 : KeptAt(list, f, n) = f[n]
  BY DEF KeptAt
<1>2. f = [n \in 0..0 |-> f[n]]
  OBVIOUS
<1>3. IsKept(list, f, 0)
  BY <1>1, <1>2 DEF IsKept
<1> QED
  BY <1>3

LEMMA KeptGoesOn ==
  ASSUME NEW list, NEW m \in Nat, m # 0, NEW f, IsKept(list, f, m - 1)
  PROVE  \E g : IsKept(list, g, m)
<1> DEFINE g == [n \in 0..m |-> IF n = m THEN KeptAt(list, f, m) ELSE f[n]]
<1>1. \A n \in 0..(m - 1) : g[n] = f[n] /\ f[n] = KeptAt(list, f, n)
  BY DEF IsKept
<1>2. ASSUME NEW n \in 0..m PROVE g[n] = KeptAt(list, g, n)
  <2>1. n # 0 => n - 1 \in 0..(m - 1) /\ g[n - 1] = f[n - 1]
    BY <1>1
  <2>2. KeptAt(list, g, n) = KeptAt(list, f, n)
    BY <2>1 DEF KeptAt
  <2>3. CASE n = m
    BY <2>2, <2>3
  <2>4. CASE n # m
    <3>1. n \in 0..(m - 1)
      BY <2>4
    <3> QED
      BY <1>1, <2>2, <3>1
  <2> QED
    BY <2>3, <2>4
<1>3. g = [n \in 0..m |-> g[n]]
  OBVIOUS
<1> HIDE DEF g
<1>4. IsKept(list, g, m)
  BY <1>2, <1>3 DEF IsKept
<1> QED
  BY <1>4

LEMMA KeptIsDefined ==
  ASSUME NEW list, NEW m \in Nat
  PROVE  \E f : IsKept(list, f, m)
<1> DEFINE S == {k \in Nat : ~ \E f : IsKept(list, f, k)}
<1>1. ASSUME NEW k \in S PROVE \E j \in S : j < k
  <2>1. k \in Nat /\ k # 0
    BY KeptBegins
  <2>2. k - 1 \in Nat /\ k - 1 < k
    BY <2>1
  <2>3. k - 1 \in S
    BY <2>1, <2>2, KeptGoesOn
  <2> QED
    BY <2>2, <2>3
<1>2. S \in SUBSET Nat
  OBVIOUS
<1> HIDE DEF S
<1>3. S = {}
  BY <1>1, <1>2, NoLeastOne
<1> QED
  BY <1>3 DEF S

LEMMA PresentIsKept ==
  ASSUME NEW list \in Seq(Paths)
  PROVE  \E f : IsKept(list, f, Len(list)) /\ Present(list) = f[Len(list)]
<1> DEFINE F == CHOOSE f : IsKept(list, f, Len(list))
<1>1. Len(list) \in Nat
  OBVIOUS
<1>2. IsKept(list, F, Len(list))
  BY <1>1, KeptIsDefined
<1>3. Present(list) = F[Len(list)]
  BY DEF Present, IsKept, KeptAt
<1> QED
  BY <1>2, <1>3

\* What is kept of the first n entries of a list without repetitions.
KeptOK(list, kept, n) ==
    /\ kept \in Seq(Paths) /\ Len(kept) <= n /\ Distinct(kept)
    /\ \A k \in DOMAIN kept :
          Exists(kept[k]) /\ \E j \in 1..n : list[j] = kept[k]

LEMMA KeptStepIsOK ==
  ASSUME NEW list \in Seq(Paths), Distinct(list), NEW n \in 1..Len(list),
         NEW kept, KeptOK(list, kept, n - 1), Exists(list[n])
  PROVE  KeptOK(list, Append(kept, list[n]), n)
<1> PICK e, more : e = list[n] /\ more = Append(kept, list[n])
  OBVIOUS
<1>1. /\ kept \in Seq(Paths) /\ e \in Paths /\ n \in DOMAIN list
      /\ n \in Nat /\ n - 1 \in Nat
  BY DEF KeptOK
<1>2. /\ more \in Seq(Paths) /\ Len(more) = Len(kept) + 1 /\ Len(kept) \in Nat
      /\ DOMAIN kept = 1..Len(kept) /\ DOMAIN more = 1..(Len(kept) + 1)
      /\ \A k \in DOMAIN kept : more[k] = kept[k]
      /\ more[Len(kept) + 1] = e
  BY <1>1
<1>3. Len(more) <= n
  BY <1>1, <1>2 DEF KeptOK
<1>4. ASSUME NEW k \in DOMAIN kept
      PROVE  /\ Exists(more[k]) /\ more[k] # e
             /\ \E j \in 1..n : list[j] = more[k]
  <2>1. PICK j \in 1..(n - 1) : list[j] = kept[k]
    BY <1>4 DEF KeptOK
  <2>2. j \in 1..n /\ j \in DOMAIN list /\ j # n
    BY <1>1
  <2>3. list[j] # list[n]
    BY <1>1, <2>2 DEF Distinct
  <2> QED
    BY <1>2, <1>4, <2>1, <2>2, <2>3 DEF KeptOK
<1>5. \A k \in DOMAIN more : k \in DOMAIN kept \/ k = Len(kept) + 1
  BY <1>2
<1>6. n \in 1..n
  BY <1>1
<1>7. \A k \in DOMAIN more :
          Exists(more[k]) /\ \E j \in 1..n : list[j] = more[k]
  BY <1>2, <1>4, <1>5, <1>6
<1>8. Distinct(more)
  <2> SUFFICES ASSUME NEW i \in DOMAIN more, NEW j \in DOMAIN more,
                      more[i] = more[j]
               PROVE  i = j
    BY DEF Distinct
  <2>1. CASE i \in DOMAIN kept /\ j \in DOMAIN kept
    BY <1>2, <2>1 DEF KeptOK, Distinct
  <2> QED
    BY <1>2, <1>4, <1>5, <2>1
<1> QED
  BY <1>2, <1>3, <1>7, <1>8 DEF KeptOK

LEMMA KeptLessIsOK ==
  ASSUME NEW list, NEW n \in Nat \ {0}, NEW kept, KeptOK(list, kept, n - 1)
  PROVE  KeptOK(list, kept, n)
<1>1. Len(kept) \in Nat /\ n - 1 \in Nat /\ \A j \in 1..(n - 1) : j \in 1..n
  BY DEF KeptOK
<1>2. Len(kept) <= n
  BY <1>1 DEF KeptOK
<1> QED
  BY <1>1, <1>2 DEF KeptOK

LEMMA PresentIsOK ==
  ASSUME NEW list, ListOK(list)
  PROVE  /\ ListOK(Present(list))
         /\ \A k \in DOMAIN Present(list) :
               Exists(Present(list)[k]) /\ Among(Present(list)[k], list)
<1> DEFINE m == Len(list)
<1>1. list \in Seq(Paths) /\ m \in Nat /\ DOMAIN list = 1..m /\ Distinct(list)
  BY DEF ListOK
<1>2. PICK f : IsKept(list, f, m) /\ Present(list) = f[m]
  BY <1>1, PresentIsKept
<1> DEFINE S == {n \in 0..m : ~ KeptOK(list, f[n], n)}
<1>3. KeptOK(list, f[0], 0)
  <2>1. f[0] = <<>>
    BY <1>1, <1>2 DEF IsKept, KeptAt
  <2>2. <<>> \in Seq(Paths) /\ Len(<<>>) = 0 /\ DOMAIN <<>> = {}
    OBVIOUS
  <2> QED
    BY <2>1, <2>2 DEF KeptOK, Distinct
<1>4. ASSUME NEW n \in S PROVE \E j \in S : j < n
  <2>1. n \in 0..m /\ n # 0 /\ n \in 1..Len(list) /\ n \in Nat \ {0}
    BY <1>1, <1>3
  <2>2. n - 1 \in 0..m /\ n - 1 < n
    BY <1>1, <2>1
  <2>3. f[n] = IF Exists(list[n]) THEN Append(f[n - 1], list[n]) ELSE f[n - 1]
    BY <1>2, <2>1 DEF IsKept, KeptAt
  <2>4. ASSUME KeptOK(list, f[n - 1], n - 1) PROVE KeptOK(list, f[n], n)
    <3> PICK kept : kept = f[n - 1]
      OBVIOUS
    <3>1. CASE Exists(list[n])
      BY <1>1, <2>1, <2>3, <2>4, <3>1, KeptStepIsOK
    <3>2. CASE ~Exists(list[n])
      BY <2>1, <2>3, <2>4, <3>2, KeptLessIsOK
    <3> QED
      BY <3>1, <3>2
  <2>5. n - 1 \in S
    BY <2>2, <2>4
  <2> QED
    BY <2>2, <2>5
<1>5. S \in SUBSET Nat
  BY <1>1
<1>6. m \notin S
  <2> HIDE DEF S
  <2>1. S = {}
    BY <1>4, <1>5, NoLeastOne
  <2> QED
    BY <2>1
<1>7. KeptOK(list, f[m], m)
  BY <1>1, <1>6
<1>8. MaxRecent \in Nat
  BY BookCardAssumption
<1> PICK kept : kept = Present(list)
  OBVIOUS
<1>9. /\ kept \in Seq(Paths) /\ Len(kept) \in Nat /\ Len(kept) <= m /\ Distinct(kept)
  BY <1>2, <1>7 DEF KeptOK
<1>10. Len(kept) <= MaxRecent
  BY <1>1, <1>8, <1>9 DEF ListOK
<1>11. ASSUME NEW k \in DOMAIN kept
       PROVE  Exists(kept[k]) /\ Among(kept[k], list)
  BY <1>1, <1>2, <1>7, <1>11 DEF KeptOK, Among
<1> QED
  BY <1>9, <1>10, <1>11 DEF ListOK

-----------------------------------------------------------------------------
(* removeByPath() and addBook(). *)

FirstOf(list, p) == Seqs!SelectInSeq(list, LAMBDA v : v = p)

LEMMA FirstOfIs ==
  ASSUME NEW list \in Seq(Paths), NEW p, Among(p, list)
  PROVE  FirstOf(list, p) \in DOMAIN list /\ list[FirstOf(list, p)] = p
<1> DEFINE I == {i \in 1..Len(list) : list[i] = p}
<1>1. I \in SUBSET Nat /\ I # {} /\ DOMAIN list = 1..Len(list)
  BY DEF Among
<1>2. FirstOf(list, p) = CHOOSE i \in I : \A j \in I : i <= j
  BY <1>1 DEF FirstOf, Seqs!SelectInSeq, Seqs!Min
<1>3. \E i \in I : \A j \in I : i <= j
  BY <1>1, LeastOne
<1>4. FirstOf(list, p) \in I
  BY <1>2, <1>3
<1> QED
  BY <1>1, <1>4

LEMMA WithoutIndex ==
  ASSUME NEW list \in Seq(Paths), NEW k \in DOMAIN list
  PROVE  LET rest == Seqs!RemoveAt(list, k)
         IN  /\ rest \in Seq(Paths) /\ Len(rest) = Len(list) - 1
             /\ \A i \in DOMAIN rest :
                   rest[i] = IF i < k THEN list[i] ELSE list[i + 1]
<1>n. PICK n : n = Len(list)
  OBVIOUS
<1>1. n \in Nat /\ k \in 1..n /\ DOMAIN list = 1..n
  BY <1>n
<1>a. PICK a, b : a = SubSeq(list, 1, k - 1) /\ b = SubSeq(list, k + 1, n)
  OBVIOUS
<1>2. /\ a \in Seq(Paths) /\ Len(a) = k - 1 /\ DOMAIN a = 1..(k - 1)
      /\ \A i \in DOMAIN a : a[i] = list[i]
  BY <1>1, <1>n, <1>a
<1>3. /\ b \in Seq(Paths) /\ Len(b) = n - k /\ DOMAIN b = 1..(n - k)
      /\ \A i \in DOMAIN b : b[i] = list[k + i]
  <2>1. /\ k + 1 \in Nat /\ k + 1 >= 1 /\ k + 1 <= n + 1
        /\ n - (k + 1) + 1 = n - k
        /\ \A i \in 1..(n - k) : (k + 1) + i - 1 = k + i /\ k + i \in 1..n
    BY <1>1
  <2>2. k + 1 \in Int /\ n \in Int /\ \A i \in (k + 1)..n : list[i] \in Paths
    BY <1>1
  <2>3. /\ b \in Seq(Paths)
        /\ Len(b) = IF k + 1 <= n THEN n - (k + 1) + 1 ELSE 0
        /\ \A i \in 1..(n - (k + 1) + 1) : b[i] = list[(k + 1) + i - 1]
    BY <1>a, <2>2, SubSeqProperties
  <2>4. Len(b) = n - k
    BY <1>1, <2>1, <2>3
  <2>5. DOMAIN b = 1..(n - k)
    BY <2>3, <2>4
  <2> QED
    BY <2>1, <2>3, <2>4, <2>5
<1>r. PICK rest : rest = a \o b
  OBVIOUS
<1>4. /\ rest \in Seq(Paths) /\ DOMAIN rest = 1..(Len(a) + Len(b))
      /\ Len(rest) = Len(a) + Len(b)
      /\ \A i \in DOMAIN a : rest[i] = a[i]
      /\ \A i \in DOMAIN b : rest[Len(a) + i] = b[i]
  <2>1. a \in Seq(Paths) /\ b \in Seq(Paths)
    BY <1>2, <1>3
  <2>2. /\ (a \o b) \in Seq(Paths) /\ DOMAIN (a \o b) = 1..(Len(a) + Len(b))
        /\ Len(a \o b) = Len(a) + Len(b)
        /\ \A i \in DOMAIN a : (a \o b)[i] = a[i]
        /\ \A i \in DOMAIN b : (a \o b)[Len(a) + i] = b[i]
    BY <2>1, ConcatIs
  <2> QED
    BY <1>r, <2>2
<1>5. Len(rest) = n - 1 /\ DOMAIN rest = 1..(n - 1)
  <2>1. Len(a) + Len(b) = n - 1
    BY <1>1, <1>2, <1>3
  <2> QED
    BY <1>4, <2>1
<1>6. ASSUME NEW i \in DOMAIN rest
      PROVE  rest[i] = IF i < k THEN list[i] ELSE list[i + 1]
  <2>0. /\ i \in Nat /\ i >= 1 /\ i <= n - 1 /\ k \in Nat /\ k >= 1 /\ k <= n
        /\ n \in Nat
    BY <1>1, <1>5, <1>6
  <2>1. CASE i < k
    <3>1. i \in DOMAIN a
      BY <1>1, <1>2, <2>0, <2>1
    <3> QED
      BY <1>2, <1>4, <2>1, <3>1
  <2>2. CASE ~(i < k)
    <3> PICK j : j = i - k + 1
      OBVIOUS
    <3>1. j \in 1..(n - k) /\ (k - 1) + j = i /\ k + j = i + 1
      BY <2>0, <2>2
    <3>2. rest[(k - 1) + j] = b[j]
      BY <1>2, <1>3, <1>4, <3>1
    <3>3. b[j] = list[k + j]
      BY <1>3, <3>1
    <3> QED
      BY <2>2, <3>1, <3>2, <3>3
  <2> QED
    BY <2>1, <2>2
<1>7. rest = Seqs!RemoveAt(list, k)
  BY <1>n, <1>a, <1>r DEF Seqs!RemoveAt
<1> QED
  BY <1>n, <1>4, <1>5, <1>6, <1>7

LEMMA RemoveFirstIsOK ==
  ASSUME NEW list, ListOK(list), NEW p
  PROVE  /\ ListOK(Seqs!RemoveFirst(list, p))
         /\ Len(Seqs!RemoveFirst(list, p)) <= Len(list)
         /\ \A i \in DOMAIN Seqs!RemoveFirst(list, p) :
               /\ Seqs!RemoveFirst(list, p)[i] # p
               /\ Among(Seqs!RemoveFirst(list, p)[i], list)
<1>1. /\ list \in Seq(Paths) /\ Len(list) \in Nat /\ Len(list) <= MaxRecent
      /\ DOMAIN list = 1..Len(list) /\ Distinct(list) /\ MaxRecent \in Nat
  BY BookCardAssumption DEF ListOK
<1>2. CASE ~Among(p, list)
  <2>1. Seqs!RemoveFirst(list, p) = list
    BY <1>1, <1>2 DEF Seqs!RemoveFirst, Among
  <2> QED
    BY <1>1, <1>2, <2>1 DEF Among
<1>3. CASE Among(p, list)
  <2>1. PICK k \in DOMAIN list : list[k] = p /\ k = FirstOf(list, p)
    BY <1>1, <1>3, FirstOfIs
  <2> PICK rest : rest = Seqs!RemoveAt(list, k)
    OBVIOUS
  <2>2. Seqs!RemoveFirst(list, p) = rest
    BY <1>1, <1>3, <2>1 DEF Seqs!RemoveFirst, FirstOf, Among
  <2>3. /\ rest \in Seq(Paths) /\ Len(rest) = Len(list) - 1
        /\ \A i \in DOMAIN rest :
              rest[i] = IF i < k THEN list[i] ELSE list[i + 1]
    BY <1>1, WithoutIndex, Zenon
  <2>a. DOMAIN rest = 1..(Len(list) - 1)
    BY <2>3
  <2>4. ASSUME NEW i \in DOMAIN rest
        PROVE  \E j \in DOMAIN list : /\ j = IF i < k THEN i ELSE i + 1
                                      /\ j # k /\ rest[i] = list[j]
    <3>1. i \in DOMAIN list /\ i + 1 \in DOMAIN list /\ i \in Nat /\ k \in Nat
      BY <1>1, <2>1, <2>a, <2>4
    <3>2. CASE i < k
      BY <2>3, <2>4, <3>1, <3>2
    <3>3. CASE ~(i < k)
      BY <2>3, <2>4, <3>1, <3>3
    <3> QED
      BY <3>2, <3>3
  <2>5. \A i \in DOMAIN rest : rest[i] # p /\ Among(rest[i], list)
    BY <1>1, <2>1, <2>4 DEF Distinct, Among
  <2>6. Distinct(rest)
    <3> SUFFICES ASSUME NEW i \in DOMAIN rest, NEW j \in DOMAIN rest,
                        rest[i] = rest[j]
                 PROVE  i = j
      BY DEF Distinct
    <3>1. PICK x \in DOMAIN list : x = (IF i < k THEN i ELSE i + 1)
                                   /\ rest[i] = list[x]
      BY <2>4
    <3>2. PICK y \in DOMAIN list : y = (IF j < k THEN j ELSE j + 1)
                                   /\ rest[j] = list[y]
      BY <2>4
    <3>3. x = y
      BY <1>1, <3>1, <3>2 DEF Distinct
    <3>4. i \in Nat /\ j \in Nat /\ k \in Nat
      BY <1>1, <2>1, <2>a
    <3> QED
      BY <3>1, <3>2, <3>3, <3>4
  <2>7. Len(rest) <= Len(list) /\ Len(rest) <= MaxRecent
    BY <1>1, <2>3
  <2> QED
    BY <2>2, <2>3, <2>5, <2>6, <2>7 DEF ListOK
<1> QED
  BY <1>2, <1>3

LEMMA TrimIsOK ==
  ASSUME NEW list \in Seq(Paths), Distinct(list)
  PROVE  /\ ListOK(Trim(list))
         /\ \A i \in DOMAIN Trim(list) : Among(Trim(list)[i], list)
<1>m. PICK m : m = IF Len(list) < MaxRecent THEN Len(list) ELSE MaxRecent
  OBVIOUS
<1>1. /\ m \in Nat /\ m <= MaxRecent /\ Len(list) \in Nat /\ 1..m \subseteq DOMAIN list
      /\ m - 1 + 1 = m /\ \A i \in 1..m : 1 + i - 1 = i
  BY <1>m, BookCardAssumption
<1>s. PICK short : short = SubSeq(list, 1, m)
  OBVIOUS
<1>2. /\ short \in Seq(Paths) /\ Len(short) = m
      /\ \A i \in 1..m : short[i] = list[i]
  <2>1. 1 \in Int /\ m \in Int /\ \A i \in 1..m : list[i] \in Paths
    BY <1>1
  <2>2. /\ short \in Seq(Paths)
        /\ Len(short) = IF 1 <= m THEN m - 1 + 1 ELSE 0
        /\ \A i \in 1..(m - 1 + 1) : short[i] = list[1 + i - 1]
    BY <1>s, <2>1, SubSeqProperties
  <2> QED
    BY <1>1, <2>2
<1>3. DOMAIN short = 1..m
  BY <1>2
<1>4. Distinct(short)
  BY <1>1, <1>2, <1>3 DEF Distinct
<1>5. \A i \in DOMAIN short : Among(short[i], list)
  BY <1>1, <1>2, <1>3 DEF Among
<1>6. Trim(list) = short
  BY <1>m, <1>s DEF Trim
<1> QED
  BY <1>1, <1>2, <1>4, <1>5, <1>6 DEF ListOK

\* A path in front of a list that does not have it.
LEMMA InFrontIsDistinct ==
  ASSUME NEW rest \in Seq(Paths), Distinct(rest), NEW p \in Paths,
         \A i \in DOMAIN rest : rest[i] # p
  PROVE  /\ <<p>> \o rest \in Seq(Paths) /\ Distinct(<<p>> \o rest)
         /\ \A q : Among(q, <<p>> \o rest) => q = p \/ Among(q, rest)
<1>a. PICK a : a = <<p>>
  OBVIOUS
<1>1. a \in Seq(Paths) /\ Len(a) = 1 /\ DOMAIN a = {1} /\ a[1] = p
  BY <1>a
<1>u. PICK u : u = a \o rest
  OBVIOUS
<1>2. /\ u \in Seq(Paths) /\ Len(rest) \in Nat /\ DOMAIN rest = 1..Len(rest)
      /\ DOMAIN u = 1..(1 + Len(rest)) /\ u[1] = p
      /\ \A k \in DOMAIN rest : u[1 + k] = rest[k]
  <2>0. a \in Seq(Paths)
    BY <1>1
  <2>1. /\ (a \o rest) \in Seq(Paths) /\ Len(rest) \in Nat
        /\ DOMAIN rest = 1..Len(rest)
        /\ DOMAIN (a \o rest) = 1..(Len(a) + Len(rest))
        /\ \A i \in DOMAIN a : (a \o rest)[i] = a[i]
        /\ \A k \in DOMAIN rest : (a \o rest)[Len(a) + k] = rest[k]
    BY <2>0, ConcatIs
  <2>2. 1 \in DOMAIN a
    BY <1>1
  <2> QED
    BY <1>1, <1>u, <2>1, <2>2
<1>3. ASSUME NEW i \in DOMAIN u
      PROVE  \/ i = 1 /\ u[i] = p
             \/ \E k \in DOMAIN rest : i = 1 + k /\ u[i] = rest[k]
  <2>1. CASE i = 1
    BY <1>2, <2>1
  <2>2. CASE i # 1
    <3>1. i - 1 \in DOMAIN rest /\ 1 + (i - 1) = i
      BY <1>2, <1>3, <2>2
    <3>2. u[1 + (i - 1)] = rest[i - 1]
      BY <1>2, <3>1
    <3> QED
      BY <3>1, <3>2
  <2> QED
    BY <2>1, <2>2
<1>4. Distinct(u)
  <2> SUFFICES ASSUME NEW i \in DOMAIN u, NEW j \in DOMAIN u, u[i] = u[j]
               PROVE  i = j
    BY DEF Distinct
  <2>1. CASE i = 1 /\ j = 1
    BY <2>1
  <2>2. CASE \E k, l \in DOMAIN rest : /\ i = 1 + k /\ u[i] = rest[k]
                                       /\ j = 1 + l /\ u[j] = rest[l]
    BY <2>2 DEF Distinct
  <2> QED
    BY <1>3, <2>1, <2>2
<1>5. \A q : Among(q, u) => q = p \/ Among(q, rest)
  BY <1>3 DEF Among
<1>6. u = <<p>> \o rest
  BY <1>a, <1>u
<1> QED
  BY <1>2, <1>4, <1>5, <1>6

NoneMissing == \A i \in DOMAIN recents : Exists(recents[i])

LEMMA AddedIsOK ==
  ASSUME ListOK(recents), NEW p \in Paths
  PROVE  /\ ListOK(Added(p))
         /\ Exists(p) => \A i \in DOMAIN Added(p) : Exists(Added(p)[i])
<1>k. PICK kept : kept = Present(recents)
  OBVIOUS
<1>1. ListOK(kept) /\ \A i \in DOMAIN kept : Exists(kept[i])
  BY <1>k, PresentIsOK
<1>r. PICK rest : rest = Seqs!RemoveFirst(kept, p)
  OBVIOUS
<1>2. /\ ListOK(rest)
      /\ \A i \in DOMAIN rest : rest[i] # p /\ Among(rest[i], kept)
  BY <1>1, <1>r, RemoveFirstIsOK
<1>3. rest \in Seq(Paths) /\ Distinct(rest)
  BY <1>2 DEF ListOK
<1>l. PICK longer : longer = <<p>> \o rest
  OBVIOUS
<1>4. /\ longer \in Seq(Paths) /\ Distinct(longer)
      /\ \A q : Among(q, longer) => q = p \/ Among(q, rest)
  BY <1>2, <1>3, <1>l, InFrontIsDistinct
<1>5. /\ ListOK(Trim(longer))
      /\ \A i \in DOMAIN Trim(longer) : Among(Trim(longer)[i], longer)
  BY <1>4, TrimIsOK
<1>6. Added(p) = Trim(longer)
  BY <1>k, <1>r, <1>l DEF Added
<1>7. ASSUME Exists(p), NEW i \in DOMAIN Trim(longer)
      PROVE  Exists(Trim(longer)[i])
  <2>1. Trim(longer)[i] = p \/ Among(Trim(longer)[i], rest)
    BY <1>4, <1>5, <1>7
  <2>2. \A q : Among(q, rest) => Exists(q)
    BY <1>1, <1>2 DEF Among
  <2> QED
    BY <1>7, <2>1, <2>2
<1> QED
  BY <1>5, <1>6, <1>7

\* updatePath() keeps the list in order because the new path is not in it.
LEMMA UpdatedIsOK ==
  ASSUME ListOK(recents), NEW p, NEW q \in Paths, ~Listed(q)
  PROVE  ListOK(Updated(p, q))
<1>1. /\ recents \in Seq(Paths) /\ DOMAIN recents = 1..Len(recents)
      /\ Len(recents) \in Nat /\ Distinct(recents)
      /\ \A i \in DOMAIN recents : recents[i] # q
  BY DEF ListOK, Listed
<1>2. CASE ~Listed(p)
  BY <1>2 DEF Updated
<1>3. CASE Listed(p)
  <2>1. FirstOf(recents, p) \in DOMAIN recents
    BY <1>1, <1>3, FirstOfIs DEF Among, Listed
  <2>u. PICK u : u = [recents EXCEPT ![FirstOf(recents, p)] = q]
    OBVIOUS
  <2>2. Updated(p, q) = u
    BY <1>3, <2>u DEF Updated, FirstOf
  <2>3. /\ u \in Seq(Paths) /\ Len(u) = Len(recents) /\ DOMAIN u = DOMAIN recents
        /\ \A i \in DOMAIN u :
              u[i] = IF i = FirstOf(recents, p) THEN q ELSE recents[i]
    BY <1>1, <2>1, <2>u
  <2>4. Distinct(u)
    BY <1>1, <2>3 DEF Distinct
  <2> QED
    BY <2>2, <2>3, <2>4 DEF ListOK
<1> QED
  BY <1>2, <1>3

-----------------------------------------------------------------------------
(* The invariant.  updatePath() is called only after the book has been      *)
(* renamed to a name that was free, and no entry of the list was missing    *)
(* then: addBook() pruned the list when the reader opened, and nothing      *)
(* removes a book while a reader is shown.                                  *)

ListsOK == ListOK(recents) /\ (recentsCard # Torn => ListOK(recentsCard))

Before(t, i, calls) == \A j \in 1..(i - 1) : t[j].call \in calls

\* The i-th call gives an entry a path that is not in the list, or will not
\* be by then: the rename two calls ahead needs it to be free.
AfterRename(t, i) ==
    /\ i > 2 /\ t[i - 2].call = "rename" /\ t[i - 1].call = "moveCache"
    /\ t[i - 2].to = t[i].to /\ Before(t, i - 2, PlaceCalls)
EntryMoves(t, i) ==
    /\ t[i].to \in Paths
    /\ \/ ~Listed(t[i].to) /\ Before(t, i, {"moveCache"})
       \/ NoneMissing /\ AfterRename(t, i)
MovesOK(t) == \A i \in DOMAIN t : t[i].call = "updateRecent" => EntryMoves(t, i)

\* While a reader is open its book is there, and so is every listed one as soon
\* as it has put itself into the list.
ReaderCalls == {"build", "addRecent", "dropRecent", "dropPlace", "putPlace"}
ReaderOK ==
    screen \in {"opening", "reader", "launching"} /\ ~sleeping =>
        /\ Exists(reading)
        /\ \A i \in DOMAIN todo :
              /\ todo[i].call \in ReaderCalls
              /\ todo[i].call = "addRecent" => todo[i].path = reading
        /\ screen # "opening" => NoneMissing \/ Doing("addRecent")

RecentInv == ListsOK /\ MovesOK(todo) /\ ReaderOK

LEMMA ListsStay ==
  ASSUME ListsOK, UNCHANGED <<recents, recentsCard>>
  PROVE  ListsOK'
BY Zenon DEF ListsOK, ListOK, Distinct

LEMMA EmptyIsOK ==
  ListOK(<<>>) /\ MovesOK(<<>>)
<1>1. <<>> \in Seq(Paths) /\ Len(<<>>) = 0 /\ DOMAIN <<>> = {}
  OBVIOUS
<1>2. MaxRecent \in Nat
  BY BookCardAssumption
<1> QED
  BY <1>1, <1>2 DEF ListOK, Distinct, MovesOK

-----------------------------------------------------------------------------
(* Calls on the way to updatePath(). *)

LEMMA MovesComeCloser ==
  ASSUME NEW t \in Seq(CallRecords), t # <<>>, t[1].call # "rename", MovesOK(t)
  PROVE  MovesOK(Tail(t))
<1> PICK u : u = Tail(t)
  OBVIOUS
<1>1. /\ DOMAIN t = 1..Len(t) /\ DOMAIN u = 1..(Len(t) - 1) /\ Len(t) \in Nat
      /\ \A i \in DOMAIN u : i + 1 \in DOMAIN t /\ u[i] = t[i + 1]
  BY RestOf
<1> SUFFICES ASSUME NEW i \in DOMAIN u, u[i].call = "updateRecent"
             PROVE  EntryMoves(u, i)
  BY DEF MovesOK
<1>2. i \in Nat \ {0} /\ i + 1 \in DOMAIN t /\ u[i] = t[i + 1] /\ (i + 1) - 1 = i
      /\ (i + 1) - 2 = i - 1
  BY <1>1
<1>3. EntryMoves(t, i + 1)
  BY <1>2 DEF MovesOK
<1>4. ASSUME NEW n \in Nat \ {0}, n <= i, NEW calls, Before(t, n + 1, calls)
      PROVE  Before(u, n, calls)
  <2> SUFFICES ASSUME NEW j \in 1..(n - 1) PROVE u[j].call \in calls
    BY DEF Before
  <2>1. j + 1 \in 1..((n + 1) - 1) /\ j \in DOMAIN u
    BY <1>1, <1>2, <1>4
  <2> QED
    BY <1>1, <1>4, <2>1 DEF Before
<1>5. CASE ~Listed(t[i + 1].to) /\ Before(t, i + 1, {"moveCache"})
  <2>1. Before(u, i, {"moveCache"})
    BY <1>2, <1>4, <1>5
  <2> QED
    BY <1>2, <1>3, <1>5, <2>1 DEF EntryMoves
<1>6. CASE NoneMissing /\ AfterRename(t, i + 1)
  <2>1. i + 1 > 2 /\ t[i - 1].call = "rename" /\ t[i].call = "moveCache"
        /\ t[i - 1].to = t[i + 1].to /\ Before(t, i - 1, PlaceCalls)
    BY <1>2, <1>6 DEF AfterRename
  <2>2. i - 1 # 1 /\ i > 2 /\ i - 2 \in Nat \ {0} /\ i - 2 <= i
    <3>1. i - 1 # 1
      BY <2>1
    <3>2. i \in Nat /\ i + 1 > 2
      BY <1>2, <2>1
    <3> QED
      BY <3>1, <3>2
  <2>3. i - 2 \in DOMAIN u /\ i - 1 \in DOMAIN u /\ (i - 2) + 1 = i - 1
        /\ (i - 1) + 1 = i
    BY <1>1, <1>2, <2>2
  <2>4. u[i - 2] = t[i - 1] /\ u[i - 1] = t[i]
    BY <1>1, <2>3
  <2>5. Before(u, i - 2, PlaceCalls)
    BY <1>4, <2>1, <2>2, <2>3
  <2>6. AfterRename(u, i)
    BY <1>2, <2>1, <2>2, <2>4, <2>5 DEF AfterRename
  <2> QED
    BY <1>2, <1>3, <1>6, <2>6 DEF EntryMoves
<1> QED
  BY <1>3, <1>5, <1>6 DEF EntryMoves

LEMMA NoMoveAfter ==
  ASSUME NEW t \in Seq(CallRecords), t # <<>>, MovesOK(t),
         t[1].call \notin PlaceCalls \cup {"rename", "moveCache"}
  PROVE  \A i \in DOMAIN Tail(t) : Tail(t)[i].call # "updateRecent"
<1> SUFFICES ASSUME NEW i \in DOMAIN Tail(t), Tail(t)[i].call = "updateRecent"
             PROVE  FALSE
  OBVIOUS
<1>1. i + 1 \in DOMAIN t /\ Tail(t)[i] = t[i + 1] /\ i \in Nat \ {0}
  BY RestOf
<1>2. EntryMoves(t, i + 1)
  BY <1>1 DEF MovesOK
<1>3. ~Before(t, i + 1, {"moveCache"})
  <2>1. 1 \in 1..((i + 1) - 1)
    BY <1>1
  <2> QED
    BY <2>1 DEF Before
<1>4. ~AfterRename(t, i + 1)
  <2>1. (i + 1) - 2 = 1 \/ 1 \in 1..(((i + 1) - 2) - 1) \/ ~(i + 1 > 2)
    BY <1>1
  <2> QED
    BY <2>1 DEF AfterRename, Before
<1> QED
  BY <1>2, <1>3, <1>4 DEF EntryMoves

\* The list and the files stay.
LEMMA MovesStay ==
  ASSUME NEW t, MovesOK(t), UNCHANGED <<file, recents>>
  PROVE  MovesOK(t)'
<1>1. \A p : Listed(p)' <=> Listed(p)
  BY DEF Listed
<1>2. NoneMissing => NoneMissing'
  BY DEF NoneMissing, Exists
<1> QED
  BY <1>1, <1>2 DEF MovesOK, EntryMoves

LEMMA NoMoves ==
  ASSUME \A i \in DOMAIN todo' : todo'[i].call # "updateRecent"
  PROVE  MovesOK(todo)'
BY DEF MovesOK

\* What is left of the calls is a part of them.
LEMMA LeftOf ==
  ASSUME IInv, todo # <<>>,
         \/ todo' \in {<<>>, Tail(todo)}
         \/ Doing("dropPlace") /\ todo' = Tail(Tail(todo))
  PROVE  \A i \in DOMAIN todo' : \E j \in DOMAIN todo : todo'[i] = todo[j]
<1>1. todo \in Seq(CallRecords)
  BY Facts
<1>2. /\ Tail(todo) \in Seq(CallRecords)
      /\ \A i \in DOMAIN Tail(todo) : i + 1 \in DOMAIN todo /\ Tail(todo)[i] = todo[i + 1]
  BY <1>1, RestOf
<1>3. CASE todo' = <<>>
  BY <1>3
<1>4. CASE todo' = Tail(todo)
  BY <1>2, <1>4
<1>5. CASE Doing("dropPlace") /\ todo' = Tail(Tail(todo))
  <2>1. Is(todo, 2, "putPlace", This.path)
    BY <1>5, FirstCall DEF PlaceAt, Doing, This
  <2>2. Tail(todo) # <<>>
    BY <1>1, <2>1, MoreToDo DEF Is
  <2>3. \A i \in DOMAIN todo' :
            i + 1 \in DOMAIN Tail(todo) /\ todo'[i] = Tail(todo)[i + 1]
    BY <1>2, <1>5, <2>2, RestOf
  <2> QED
    BY <1>2, <2>3
<1> QED
  BY <1>3, <1>4, <1>5

LEMMA RenameMakesRoom ==
  ASSUME IInv, RecentInv, Rename
  PROVE  MovesOK(todo)'
<1>1. /\ todo \in Seq(CallRecords) /\ todo # <<>> /\ todo[1].call = "rename"
      /\ ~Exists(todo[1].to) /\ todo' = Tail(todo) /\ recents' = recents
  BY Facts DEF Rename, Doing, Goes, This, listVars
<1> PICK u : u = Tail(todo)
  OBVIOUS
<1>2. /\ DOMAIN u = 1..(Len(todo) - 1) /\ Len(todo) \in Nat
      /\ \A i \in DOMAIN u : i + 1 \in DOMAIN todo /\ u[i] = todo[i + 1]
  BY <1>1, RestOf
<1> SUFFICES ASSUME NEW i \in DOMAIN u, u[i].call = "updateRecent"
             PROVE  EntryMoves(u, i)'
  BY <1>1 DEF MovesOK
<1>3. i \in Nat \ {0} /\ i + 1 \in DOMAIN todo /\ u[i] = todo[i + 1] /\ (i + 1) - 1 = i
      /\ (i + 1) - 2 = i - 1
  BY <1>2
<1>4. EntryMoves(todo, i + 1)
  BY <1>3 DEF RecentInv, MovesOK
<1>5. ~Before(todo, i + 1, {"moveCache"})
  <2>1. 1 \in 1..((i + 1) - 1)
    BY <1>3
  <2> QED
    BY <1>1, <2>1 DEF Before
<1>6. NoneMissing /\ AfterRename(todo, i + 1)
  BY <1>4, <1>5 DEF EntryMoves
<1>7. i = 2
  <2>1. i + 1 > 2 /\ Before(todo, i - 1, PlaceCalls)
    BY <1>3, <1>6 DEF AfterRename
  <2>2. ASSUME i # 2 PROVE FALSE
    <3>1. 1 \in 1..((i - 1) - 1)
      BY <1>3, <2>1, <2>2
    <3> QED
      BY <1>1, <2>1, <3>1 DEF Before, PlaceCalls
  <2> QED
    BY <2>2
<1>8. /\ todo[1].to = u[i].to /\ todo[2].call = "moveCache" /\ u[i].to \in Paths
      /\ u[1] = todo[2]
  <2>1. 1 \in DOMAIN u /\ 1 + 1 = 2
    BY <1>2, <1>7
  <2> QED
    BY <1>2, <1>3, <1>4, <1>6, <1>7, <2>1 DEF AfterRename, EntryMoves
<1>9. ~Listed(u[i].to)'
  BY <1>1, <1>6, <1>8 DEF Listed, NoneMissing
<1>10. Before(u, i, {"moveCache"})
  BY <1>7, <1>8 DEF Before
<1> QED
  BY <1>8, <1>9, <1>10 DEF EntryMoves

LEMMA CallsKeepMoves ==
  ASSUME IInv, RecentInv, Calls
  PROVE  MovesOK(todo)'
<1>1. todo \in Seq(CallRecords) /\ MovesOK(todo)
  BY Facts DEF RecentInv
<1>2. CASE todo' = <<>>
  BY <1>2, NoMoves
<1>3. ASSUME todo # <<>>, todo' = Tail(todo),
             todo[1].call \notin PlaceCalls \cup {"rename", "moveCache"}
      PROVE  MovesOK(todo)'
  BY <1>1, <1>3, NoMoveAfter, NoMoves
<1>4. ASSUME todo # <<>>, todo' = Tail(todo), todo[1].call # "rename",
             UNCHANGED <<file, recents>>
      PROVE  MovesOK(todo)'
  <2> PICK u : u = Tail(todo)
    OBVIOUS
  <2>1. MovesOK(u)
    BY <1>1, <1>4, MovesComeCloser
  <2>2. MovesOK(u)'
    BY <1>4, <2>1, MovesStay
  <2> QED
    BY <1>4, <2>2 DEF MovesOK
<1>5. CASE Remove \/ RemoveFails \/ Write \/ Put \/ ClearAll \/ Build
  <2>1. todo # <<>> /\ todo' = Tail(todo)
    BY <1>5 DEF Remove, RemoveFails, Write, Put, ClearAll, Build, Doing, Goes, Ignores
  <2>2. todo[1].call \in {"remove", "write", "put", "clearAll", "build"}
    BY <1>5 DEF Remove, RemoveFails, Write, Put, ClearAll, Build, Doing
  <2> QED
    BY <1>3, <2>1, <2>2 DEF PlaceCalls
<1>6. CASE WriteFails \/ RenameFails \/ PutFails \/ BuildFails
  BY <1>2, <1>6 DEF WriteFails, RenameFails, PutFails, BuildFails, Gives
<1>7. CASE Rename
  BY <1>7, RenameMakesRoom
<1>8. CASE \/ Clear \/ ClearFails \/ DropPlace \/ PutPlace \/ PutPlaceFails
           \/ MoveCache \/ MoveCacheFails
  <2>1. /\ todo # <<>> /\ todo' = Tail(todo) /\ UNCHANGED <<file, recents>>
    BY <1>8 DEF Clear, ClearFails, DropPlace, PutPlace, PutPlaceFails, MoveCache,
                MoveCacheFails, Doing, Goes, Ignores, listVars
  <2>2. todo[1].call \in {"clear", "dropPlace", "putPlace", "moveCache"}
    BY <1>8 DEF Clear, ClearFails, DropPlace, PutPlace, PutPlaceFails, MoveCache,
                MoveCacheFails, Doing
  <2> QED
    BY <1>4, <2>1, <2>2
<1>9. CASE DropPlaceFails
  <2>1. /\ todo # <<>> /\ todo[1].call = "dropPlace" /\ todo' = Tail(Tail(todo))
        /\ UNCHANGED <<file, recents>>
    BY <1>9 DEF DropPlaceFails, Doing, listVars
  <2>2. Is(todo, 2, "putPlace", This.path)
    BY <2>1, FirstCall DEF PlaceAt, This
  <2>3. Tail(todo) # <<>> /\ Tail(todo) \in Seq(CallRecords)
    BY <1>1, <2>1, <2>2, MoreToDo, RestOf DEF Is
  <2>4. Tail(todo)[1] = todo[2]
    <3>1. 1 \in DOMAIN Tail(todo) /\ 1 + 1 = 2
      BY <2>3, RestOf
    <3> QED
      BY <1>1, <2>1, <3>1, RestOf
  <2>5. MovesOK(Tail(todo)) /\ Tail(todo)[1].call # "rename"
    BY <1>1, <2>1, <2>2, <2>4, MovesComeCloser DEF Is
  <2> PICK u : u = Tail(Tail(todo))
    OBVIOUS
  <2>6. MovesOK(u)
    BY <2>3, <2>5, MovesComeCloser
  <2>7. MovesOK(u)'
    BY <2>1, <2>6, MovesStay
  <2> QED
    BY <2>1, <2>7 DEF MovesOK
<1>10. CASE ChangeList \/ ListWriteFails
  <2>1. todo # <<>> /\ todo' = Tail(todo) /\ todo[1].call \in ListCalls
    BY <1>10 DEF ChangeList, ListWriteFails, Lists, Doing, Goes, Ignores
  <2> QED
    BY <1>3, <2>1 DEF PlaceCalls, ListCalls
<1> QED
  BY <1>5, <1>6, <1>7, <1>8, <1>9, <1>10 DEF Calls

LEMMA RelistedIsOK ==
  ASSUME IInv, RecentInv, Lists
  PROVE  ListOK(Relisted)
<1>1. todo # <<>> /\ This = todo[1] /\ This.call \in ListCalls /\ ListOK(recents)
  BY DEF Lists, Doing, This, RecentInv, ListsOK
<1>2. CASE This.call = "addRecent"
  <2>1. This.path \in Paths
    BY <1>1, <1>2, FirstCall DEF TypeAt
  <2> QED
    BY <1>1, <1>2, <2>1, AddedIsOK DEF Relisted
<1>3. CASE This.call = "dropRecent"
  BY <1>1, <1>3, RemoveFirstIsOK DEF Relisted
<1>4. CASE This.call = "updateRecent"
  <2>1. EntryMoves(todo, 1)
    BY <1>1, <1>4, FirstCall DEF RecentInv, MovesOK
  <2>2. This.to \in Paths /\ ~Listed(This.to)
    BY <1>1, <2>1 DEF EntryMoves, AfterRename
  <2> QED
    BY <1>1, <1>4, <2>2, UpdatedIsOK DEF Relisted
<1>5. CASE This.call = "pruneRecents"
  BY <1>1, <1>5, PresentIsOK DEF Relisted
<1> QED
  BY <1>1, <1>2, <1>3, <1>4, <1>5 DEF ListCalls

LEMMA CallsKeepLists ==
  ASSUME IInv, RecentInv, Calls
  PROVE  ListsOK'
<1>1. ListsOK
  BY DEF RecentInv
<1>2. CASE ChangeList \/ ListWriteFails
  <2>1. /\ recents' = Relisted /\ recentsCard' \in {recentsCard, Torn, recents'}
        /\ Lists
    BY <1>2 DEF ChangeList, ListWriteFails
  <2>2. ListOK(Relisted)
    BY <2>1, RelistedIsOK
  <2> PICK list : list = Relisted
    OBVIOUS
  <2>3. ListOK(list) /\ recents' = list
    BY <2>1, <2>2
  <2> QED
    BY <1>1, <2>1, <2>3, Zenon DEF ListsOK, ListOK, Distinct
<1>3. CASE ~(ChangeList \/ ListWriteFails)
  <2>1. UNCHANGED listVars
    BY <1>3 DEF Calls, Remove, RemoveFails, Write, WriteFails, Rename, RenameFails,
           Put, PutFails, Clear, ClearFails, ClearAll, Build, BuildFails,
           DropPlace, DropPlaceFails, PutPlace, PutPlaceFails, MoveCache,
           MoveCacheFails
  <2> QED
    BY <1>1, <2>1, ListsStay DEF listVars
<1> QED
  BY <1>2, <1>3

LEMMA CallsKeepReader ==
  ASSUME IInv, RecentInv, Calls, UNCHANGED libraryVars
  PROVE  ReaderOK'
<1>1. UNCHANGED <<screen, sleeping, reading>>
  BY DEF libraryVars, readerVars, powerVars
<1> SUFFICES ASSUME screen \in {"opening", "reader", "launching"}, ~sleeping
             PROVE  /\ Exists(reading)'
                    /\ \A i \in DOMAIN todo' :
                          /\ todo'[i].call \in ReaderCalls
                          /\ todo'[i].call = "addRecent" => todo'[i].path = reading
                    /\ screen # "opening" => NoneMissing' \/ Doing("addRecent")'
  BY <1>1 DEF ReaderOK
<1>2. /\ Exists(reading)
      /\ \A i \in DOMAIN todo :
            /\ todo[i].call \in ReaderCalls
            /\ todo[i].call = "addRecent" => todo[i].path = reading
      /\ screen # "opening" => NoneMissing \/ Doing("addRecent")
  BY DEF RecentInv, ReaderOK
<1>3. /\ reading \in Paths /\ ListOK(recents)
  BY ReadingIsAPath DEF RecentInv, ListsOK
<1>4. todo # <<>>
  BY DEF Calls, Remove, RemoveFails, Write, WriteFails, Rename, RenameFails,
         Put, PutFails, Clear, ClearFails, ClearAll, Build, BuildFails, DropPlace,
         DropPlaceFails, PutPlace, PutPlaceFails, MoveCache, MoveCacheFails,
         ChangeList, ListWriteFails, Lists, Doing
<1>5. This.call \in ReaderCalls /\ (This.call = "addRecent" => This.path = reading)
  BY <1>2, <1>4, FirstCall DEF This
<1>6. \/ Build \/ BuildFails \/ DropPlace \/ DropPlaceFails \/ PutPlace
      \/ PutPlaceFails \/ ChangeList \/ ListWriteFails
  <2>1. ~(Remove \/ RemoveFails \/ Write \/ WriteFails \/ Rename \/ RenameFails)
    BY <1>5 DEF ReaderCalls, This, Remove, RemoveFails, Write, WriteFails, Rename,
                RenameFails, Doing
  <2>2. ~(Put \/ PutFails \/ Clear \/ ClearFails \/ ClearAll \/ MoveCache
          \/ MoveCacheFails)
    BY <1>5 DEF ReaderCalls, This, Put, PutFails, Clear, ClearFails, ClearAll,
                MoveCache, MoveCacheFails, Doing
  <2> QED
    BY <2>1, <2>2 DEF Calls
<1>7. UNCHANGED file
  BY <1>6 DEF Build, BuildFails, DropPlace, DropPlaceFails, PutPlace, PutPlaceFails,
              ChangeList, ListWriteFails
<1>8. \/ todo' \in {<<>>, Tail(todo)}
      \/ Doing("dropPlace") /\ todo' = Tail(Tail(todo))
  BY <1>6 DEF Build, BuildFails, DropPlace, DropPlaceFails, PutPlace, PutPlaceFails,
              ChangeList, ListWriteFails, Goes, Gives, Ignores
<1>9. ASSUME NEW i \in DOMAIN todo'
      PROVE  /\ todo'[i].call \in ReaderCalls
             /\ todo'[i].call = "addRecent" => todo'[i].path = reading
  BY <1>2, <1>4, <1>8, LeftOf
<1>10. \A p : Exists(p)' <=> Exists(p)
  BY <1>7 DEF Exists
<1>11. ASSUME screen # "opening" PROVE NoneMissing'
  <2>1. CASE This.call # "addRecent" /\ ~Lists
    <3>1. NoneMissing
      BY <1>2, <1>11, <2>1 DEF Doing, This
    <3>2. recents' = recents
      BY <1>6, <2>1 DEF Build, BuildFails, DropPlace, DropPlaceFails, PutPlace,
           PutPlaceFails, ChangeList, ListWriteFails, listVars
    <3> QED
      BY <1>10, <3>1, <3>2 DEF NoneMissing
  <2>2. CASE Lists
    <3>1. recents' = Relisted
      BY <1>6, <2>2 DEF Build, BuildFails, DropPlace, DropPlaceFails, PutPlace,
           PutPlaceFails, ChangeList, ListWriteFails, Lists, ListCalls, Doing
    <3>2. This.call \in {"addRecent", "dropRecent"}
      BY <1>5, <2>2 DEF Lists, ListCalls, Doing, This, ReaderCalls
    <3>3. CASE This.call = "addRecent"
      <4>1. \A i \in DOMAIN Added(reading) : Exists(Added(reading)[i])
        BY <1>2, <1>3, AddedIsOK
      <4>2. recents' = Added(reading)
        BY <1>5, <3>1, <3>3 DEF Relisted
      <4> QED
        BY <1>10, <4>1, <4>2 DEF NoneMissing
    <3>4. CASE This.call = "dropRecent"
      <4>1. NoneMissing
        BY <1>2, <1>11, <3>4 DEF Doing, This
      <4> PICK list : list = Seqs!RemoveFirst(recents, This.path)
        OBVIOUS
      <4>2. recents' = list
        BY <3>1, <3>4 DEF Relisted
      <4>3. \A i \in DOMAIN list : Among(list[i], recents)
        BY <1>3, RemoveFirstIsOK
      <4>4. \A i \in DOMAIN list : Exists(list[i])
        BY <4>1, <4>3 DEF NoneMissing, Among
      <4> QED
        BY <1>10, <4>2, <4>4 DEF NoneMissing
    <3> QED
      BY <3>2, <3>3, <3>4
  <2>3. This.call = "addRecent" => Lists
    BY <1>4 DEF Lists, ListCalls, Doing, This
  <2> QED
    BY <2>1, <2>2, <2>3
<1> QED
  BY <1>1, <1>2, <1>9, <1>10, <1>11

LEMMA CallsKeepRecents ==
  ASSUME IInv, RecentInv, Calls, UNCHANGED libraryVars
  PROVE  RecentInv'
BY CallsKeepMoves, CallsKeepLists, CallsKeepReader DEF RecentInv

-----------------------------------------------------------------------------
(* Handlers begin. *)

\* Away from the reader nothing is expected of the list but its order.
LEMMA BeginsElsewhere ==
  ASSUME RecentInv, UNCHANGED listVars,
         screen' \notin {"opening", "reader", "launching"} \/ sleeping',
         \A i \in DOMAIN todo' : todo'[i].call # "updateRecent"
  PROVE  RecentInv'
<1>1. ListsOK'
  BY ListsStay DEF RecentInv, listVars
<1>2. ReaderOK'
  BY DEF ReaderOK
<1> QED
  BY <1>1, <1>2, NoMoves DEF RecentInv

LEMMA NothingToDo ==
  ASSUME todo' = <<>> PROVE \A i \in DOMAIN todo' : todo'[i].call # "updateRecent"
OBVIOUS

\* In the reader, between two handlers.
LEMMA InTheReader ==
  ASSUME RecentInv, screen \in {"reader", "launching"}, ~sleeping, todo = <<>>
  PROVE  Exists(reading) /\ NoneMissing
BY DEF RecentInv, ReaderOK, Doing

LEMMA BeginsInTheReader ==
  ASSUME RecentInv, screen \in {"reader", "launching"}, ~sleeping, todo = <<>>,
         NEW t, Makes(t), reading' = reading,
         \A i \in DOMAIN t :
             /\ t[i].call \in ReaderCalls \ {"build"}
             /\ t[i].call = "addRecent" => t[i].path = reading
  PROVE  RecentInv'
<1>1. todo' = t /\ UNCHANGED <<file, recents, recentsCard>>
  BY DEF Makes, listVars
<1>2. Exists(reading)' /\ NoneMissing'
  BY <1>1, InTheReader DEF Exists, NoneMissing
<1>3. ReaderOK'
  BY <1>1, <1>2 DEF ReaderOK
<1>4. MovesOK(todo)'
  BY <1>1, NoMoves DEF ReaderCalls
<1>5. ListsOK'
  BY <1>1, ListsStay DEF RecentInv
<1> QED
  BY <1>3, <1>4, <1>5 DEF RecentInv

LEMMA SavePlaceCalls ==
  ASSUME NEW p, NEW i \in DOMAIN SavePlace(p)
  PROVE  SavePlace(p)[i].call \in {"dropPlace", "putPlace"}
<1> PICK a, b : /\ a = On("dropPlace", p)
                /\ b = Call("putPlace", p, Nothing, file[p])
  OBVIOUS
<1>1. a.call = "dropPlace" /\ b.call = "putPlace"
  BY DEF On, Call
<1>2. SavePlace(p) = <<a, b>>
  BY DEF SavePlace
<1>3. SavePlace(p)[i] \in {a, b}
  BY <1>2
<1> QED
  BY <1>1, <1>3

LEMMA OneCall ==
  ASSUME NEW c, NEW p, NEW i \in DOMAIN <<On(c, p)>>
  PROVE  <<On(c, p)>>[i].call = c /\ <<On(c, p)>>[i].path = p
<1>1. <<On(c, p)>>[i] = On(c, p)
  OBVIOUS
<1> QED
  BY <1>1 DEF On, Call

\* A finished book moves after calls on its place.
Leads(t) ==
    /\ t \in Seq(CallRecords)
    /\ \A i \in DOMAIN t :
           t[i].call = "updateRecent" => t[i].to \in Paths /\ AfterRename(t, i)

LEMMA MoveBookLeads ==
  ASSUME NEW p \in Paths, NEW q \in Paths
  PROVE  Leads(MoveBook(p, q)) /\ Leads(<<>>)
<1>1. Leads(<<>>)
  BY NoneIsOwn DEF Leads, Own
<1> PICK a, b, c : /\ a = Call("rename", p, q, Nothing)
                   /\ b = Call("moveCache", p, q, Nothing)
                   /\ c = Call("updateRecent", p, q, Nothing)
  OBVIOUS
<1>2. /\ a.call = "rename" /\ a.to = q /\ b.call = "moveCache"
      /\ c.call = "updateRecent" /\ c.to = q
  BY DEF Call
<1>u. PICK u : u = MoveBook(p, q)
  OBVIOUS
<1>3. u \in Seq(CallRecords)
  BY <1>u, MoveBookIsOwn DEF Own
<1>4. u = <<a, b, c>>
  BY <1>u DEF MoveBook
<1>5. DOMAIN u = {1, 2, 3} /\ u[1] = a /\ u[2] = b /\ u[3] = c
  BY <1>4
<1>6. AfterRename(u, 3)
  BY <1>2, <1>5 DEF AfterRename, Before
<1>7. ASSUME NEW i \in DOMAIN u, u[i].call = "updateRecent" PROVE i = 3
  BY <1>2, <1>5, <1>7
<1>8. Leads(u)
  BY <1>2, <1>3, <1>5, <1>6, <1>7 DEF Leads
<1> QED
  BY <1>1, <1>8, <1>u

OnPlaces(s) == \A i \in DOMAIN s : s[i].call \in PlaceCalls

LEMMA RenamedBefore ==
  ASSUME NEW t, NEW i, AfterRename(t, i)
  PROVE  i > 2 /\ \A j \in 1..((i - 2) - 1) : t[j].call \in PlaceCalls
BY Zenon DEF AfterRename, Before

LEMMA LeadsAfterPlaces ==
  ASSUME NEW s \in Seq(CallRecords), OnPlaces(s),
         NEW t, Leads(t)
  PROVE  Leads(s \o t)
<1>u. PICK u : u = s \o t
  OBVIOUS
<1>1. t \in Seq(CallRecords)
  BY DEF Leads
<1>2. /\ u \in Seq(CallRecords) /\ Len(s) \in Nat /\ Len(t) \in Nat
      /\ DOMAIN s = 1..Len(s) /\ DOMAIN t = 1..Len(t)
      /\ DOMAIN u = 1..(Len(s) + Len(t))
      /\ \A i \in DOMAIN s : i \in DOMAIN u /\ u[i] = s[i]
      /\ \A k \in DOMAIN t : Len(s) + k \in DOMAIN u /\ u[Len(s) + k] = t[k]
  BY <1>u, <1>1, ConcatIs
<1> SUFFICES ASSUME NEW i \in DOMAIN u, u[i].call = "updateRecent"
             PROVE  u[i].to \in Paths /\ AfterRename(u, i)
  BY <1>u, <1>2 DEF Leads
<1>n. PICK n \in Nat : n = Len(s)
  BY <1>2, Zenon
<1>k. PICK k : k = i - n
  OBVIOUS
<1>3. i \notin DOMAIN s
  BY <1>2 DEF OnPlaces, PlaceCalls
<1>4. k \in DOMAIN t /\ n + k = i /\ k \in Nat /\ i \in Nat
  BY <1>2, <1>3, <1>n, <1>k
<1>5. u[i] = t[k]
  BY <1>2, <1>4, <1>n
<1>6. t[k].to \in Paths /\ AfterRename(t, k)
  BY <1>4, <1>5 DEF Leads
<1>7. k > 2 /\ k - 2 \in DOMAIN t /\ k - 1 \in DOMAIN t /\ i > 2
      /\ n + (k - 2) = i - 2 /\ n + (k - 1) = i - 1
  <2>1. k > 2
    BY <1>6, RenamedBefore
  <2>l. PICK l \in Nat : l = Len(t)
    BY <1>2, Zenon
  <2>2. DOMAIN t = 1..l /\ k \in 1..l
    BY <1>2, <1>4, <2>l
  <2>3. k - 2 \in 1..l /\ k - 1 \in 1..l
    BY <2>1, <2>2
  <2>4. i > 2 /\ n + (k - 2) = i - 2 /\ n + (k - 1) = i - 1
    BY <1>4, <2>1
  <2> QED
    BY <2>1, <2>2, <2>3, <2>4
<1>8. u[i - 2] = t[k - 2] /\ u[i - 1] = t[k - 1]
  BY <1>2, <1>7, <1>n
<1>9. Before(u, i - 2, PlaceCalls)
  <2> SUFFICES ASSUME NEW j \in 1..((i - 2) - 1) PROVE u[j].call \in PlaceCalls
    BY DEF Before
  <2>1. CASE j \in DOMAIN s
    BY <1>2, <2>1 DEF OnPlaces
  <2>2. CASE j \notin DOMAIN s
    <3>m. PICK m : m = j - n
      OBVIOUS
    <3>1. m \in 1..((k - 2) - 1) /\ m \in DOMAIN t /\ n + m = j
      <4>l. PICK l \in Nat : l = Len(t)
        BY <1>2, Zenon
      <4>1. k \in 1..l
        BY <1>2, <1>4, <4>l
      <4>2. j \in Nat /\ j > n /\ j <= (i - 2) - 1
        <5>1. j \notin 1..n /\ j \in Nat /\ j >= 1 /\ j <= (i - 2) - 1
          BY <1>2, <1>4, <1>7, <1>n, <2>2
        <5> QED
          BY <5>1
      <4>3. m \in 1..((k - 2) - 1) /\ n + m = j
        BY <1>4, <3>m, <4>1, <4>2
      <4>4. m \in 1..l
        BY <1>4, <3>m, <4>1, <4>2
      <4>5. m \in DOMAIN t
        BY <1>2, <4>l, <4>4
      <4> QED
        BY <4>3, <4>5
    <3>2. u[j] = t[m]
      BY <1>2, <3>1, <1>n
    <3>3. t[m].call \in PlaceCalls
      BY <1>6, <3>1, RenamedBefore
    <3> QED
      BY <3>2, <3>3
  <2> QED
    BY <2>1, <2>2
<1> QED
  BY <1>5, <1>6, <1>7, <1>8, <1>9 DEF AfterRename

LEMMA ClosingLeads ==
  ASSUME IInv, reading \in Paths, NEW footnote \in BOOLEAN
  PROVE  Leads(Closing(footnote))
<1> PICK s, t : /\ s = IF footnote THEN SavePlace(reading) ELSE <<>>
                /\ t = IF pendingMove THEN MoveBook(reading, Destination) ELSE <<>>
  OBVIOUS
<1>1. s \in Seq(CallRecords) /\ OnPlaces(s)
  BY SavePlaceIsOwn, NoneIsOwn DEF Own, OnPlaces
<1>2. Leads(t)
  BY MoveBookLeads, DestinationIsAPath
<1>3. Closing(footnote) = s \o t
  BY DEF Closing
<1> QED
  BY <1>1, <1>2, <1>3, LeadsAfterPlaces

\* The reader is left, by its end or for sleep.
LEMMA LeavesTheReader ==
  ASSUME RecentInv, screen = "reader", ~sleeping, todo = <<>>,
         screen' = "home" \/ sleeping', NEW t, Leads(t), Makes(t)
  PROVE  RecentInv'
<1>1. todo' = t /\ UNCHANGED <<file, recents, recentsCard>>
  BY DEF Makes, listVars
<1>2. MovesOK(t)
  BY InTheReader DEF Leads, MovesOK, EntryMoves
<1>3. MovesOK(t)'
  BY <1>1, <1>2, MovesStay
<1>4. MovesOK(todo)'
  BY <1>1, <1>3 DEF MovesOK
<1>5. ListsOK'
  BY <1>1, ListsStay DEF RecentInv
<1>6. ReaderOK'
  BY DEF ReaderOK
<1> QED
  BY <1>4, <1>5, <1>6 DEF RecentInv

LEMMA OpeningBegins ==
  ASSUME ListsOK', screen' = "opening", NEW p \in Paths, reading' = p,
         CanOpen(p), UNCHANGED file, todo' = Builds(p)
  PROVE  RecentInv'
<1>1. \A i \in DOMAIN todo' : todo'[i].call = "build"
  <2>1. CASE Known(p)
    BY <2>1 DEF Builds
  <2>2. CASE ~Known(p)
    BY <2>2, OneCall DEF Builds
  <2> QED
    BY <2>1, <2>2
<1>2. Exists(reading)'
  BY DEF CanOpen, Exists
<1>3. ReaderOK'
  BY <1>1, <1>2 DEF ReaderOK, ReaderCalls
<1> QED
  BY <1>1, <1>3, NoMoves DEF RecentInv

LEMMA ReadingKeepsRecents ==
  ASSUME IInv, RecentInv, Reading
  PROVE  RecentInv'
<1>1. ASSUME NEW p \in Paths, Open(p) PROVE RecentInv'
  <2>1. /\ screen' = "opening" /\ reading' = p /\ CanOpen(p) /\ todo' = Builds(p)
        /\ UNCHANGED <<file, recents, recentsCard>>
    BY <1>1 DEF Open, Makes, listVars
  <2>2. ListsOK'
    BY <2>1, ListsStay DEF RecentInv
  <2> QED
    BY <2>1, <2>2, OpeningBegins
<1>2. ASSUME NEW p \in Paths, RemoveFromRecents(p) PROVE RecentInv'
  <2> PICK a, b : a = On("dropRecent", p) /\ b = On("clear", p)
    OBVIOUS
  <2>1. screen' = "home" /\ todo' = <<a, b>> /\ UNCHANGED listVars
    BY <1>2 DEF RemoveFromRecents, Home, Ready, libraryVars, Makes
  <2>2. a.call = "dropRecent" /\ b.call = "clear"
    BY DEF On, Call
  <2> QED
    BY <2>1, <2>2, BeginsElsewhere
<1>3. CASE Loaded
  <2>1. /\ screen = "opening" /\ ~sleeping /\ sleeping' = sleeping
        /\ UNCHANGED <<file, recents, recentsCard>>
    BY <1>3 DEF Loaded, Ready, powerVars, Makes, listVars
  <2>2. ListsOK'
    BY <2>1, ListsStay DEF RecentInv
  <2>3. CASE screen' = "reader" /\ Makes(<<On("addRecent", reading)>>)
             /\ reading' = reading
    <3>1. todo' = <<On("addRecent", reading)>>
      BY <2>3 DEF Makes
    <3>2. \A i \in DOMAIN todo' :
              todo'[i].call = "addRecent" /\ todo'[i].path = reading
      BY <3>1, OneCall
    <3>3. Exists(reading)'
      BY <2>1, <2>3 DEF RecentInv, ReaderOK, Exists
    <3>4. Doing("addRecent")'
      BY <3>1, <3>2 DEF Doing
    <3>5. ReaderOK'
      BY <2>3, <3>2, <3>3, <3>4 DEF ReaderOK, ReaderCalls
    <3> QED
      BY <2>2, <3>2, <3>5, NoMoves DEF RecentInv
  <2>4. CASE screen' = "home" /\ todo' = <<>>
    BY <2>1, <2>4, BeginsElsewhere DEF listVars
  <2> QED
    BY <1>3, <2>3, <2>4 DEF Loaded, readerVars, Makes
<1>4. CASE ShowRecents \/ ClearCaches
  <2>1. PICK c \in {"pruneRecents", "clearAll"} :
            Home /\ Makes(<<On(c, Nothing)>>)
    BY <1>4 DEF ShowRecents, ClearCaches
  <2>2. screen' = "home" /\ todo' = <<On(c, Nothing)>> /\ UNCHANGED listVars
    BY <2>1 DEF Home, Ready, libraryVars, Makes
  <2>3. \A i \in DOMAIN todo' : todo'[i].call = c
    BY <2>2, OneCall
  <2> QED
    BY <2>2, <2>3, BeginsElsewhere
<1>5. CASE \/ ShowPage \/ \E remove, move \in BOOLEAN : Finish(remove, move)
           \/ \E remove \in BOOLEAN : Return(remove)
  <2>1. /\ screen = "reader" /\ ~sleeping /\ todo = <<>> /\ reading' = reading
        /\ \/ Makes(SavePlace(reading)) \/ Makes(<<>>)
           \/ \E c \in {"dropRecent", "addRecent"} : Makes(<<On(c, reading)>>)
    BY <1>5 DEF ShowPage, Finish, Return, In, Ready
  <2>2. CASE Makes(SavePlace(reading))
    BY <2>1, <2>2, SavePlaceCalls, BeginsInTheReader DEF ReaderCalls
  <2>3. CASE Makes(<<>>)
    BY <2>1, <2>3, BeginsInTheReader
  <2>4. ASSUME NEW c \in {"dropRecent", "addRecent"}, Makes(<<On(c, reading)>>)
        PROVE  RecentInv'
    BY <2>1, <2>4, OneCall, BeginsInTheReader DEF ReaderCalls
  <2> QED
    BY <2>1, <2>2, <2>3, <2>4
<1>6. ASSUME NEW footnote \in BOOLEAN, Close(footnote) PROVE RecentInv'
  <2>1. /\ screen = "reader" /\ ~sleeping /\ todo = <<>> /\ screen' = "home"
        /\ Makes(Closing(footnote))
    BY <1>6 DEF Close, Ready
  <2>2. Leads(Closing(footnote))
    BY <2>1, ReadingIsAPath, ClosingLeads
  <2> QED
    BY <2>1, <2>2, LeavesTheReader
<1>7. ASSUME NEW footnote \in BOOLEAN, StartOver(footnote) PROVE RecentInv'
  <2> PICK c, s, t : /\ c = <<On("clear", reading)>> /\ s = SavePlace(reading)
                     /\ t = Closing(footnote)
    OBVIOUS
  <2>1. /\ screen = "reader" /\ ~sleeping /\ todo = <<>> /\ screen' = "home"
        /\ Makes((c \o s) \o t)
    BY <1>7 DEF StartOver, ClearKeepingPlace, Ready
  <2>2. reading \in Paths
    BY <2>1, ReadingIsAPath
  <2>3. c \in Seq(CallRecords) /\ OnPlaces(c)
    BY <2>2, OneIsOwn, OneCall, BookCardAssumption DEF Own, OnPlaces, PlaceCalls
  <2>4. s \in Seq(CallRecords) /\ OnPlaces(s)
    BY <2>2, SavePlaceIsOwn DEF Own, OnPlaces
  <2>5. Leads(t)
    BY <2>2, ClosingLeads
  <2>6. Leads(s \o t)
    BY <2>4, <2>5, LeadsAfterPlaces
  <2>7. Leads(c \o (s \o t))
    BY <2>3, <2>6, LeadsAfterPlaces
  <2>8. (c \o s) \o t = c \o (s \o t)
    BY <2>3, <2>4, <2>5 DEF Leads
  <2> QED
    BY <2>1, <2>7, <2>8, LeavesTheReader
<1> QED
  BY <1>1, <1>2, <1>3, <1>4, <1>5, <1>6, <1>7 DEF Reading

LEMMA PoweringKeepsRecents ==
  ASSUME IInv, RecentInv, Powering
  PROVE  RecentInv'
<1>1. CASE LaunchSync
  <2>1. /\ screen = "reader" /\ ~sleeping /\ todo = <<>> /\ reading' = reading
        /\ Makes(SavePlace(reading))
    BY <1>1 DEF LaunchSync, Ready, readerVars
  <2> QED
    BY <2>1, SavePlaceCalls, BeginsInTheReader DEF ReaderCalls
<1>2. CASE SyncLaunched
  <2>1. /\ screen = "launching" /\ ~sleeping /\ todo = <<>> /\ reading' = reading
        /\ Makes(<<>>)
    BY <1>2 DEF SyncLaunched, Ready, readerVars, Rests, Makes, cardVars
  <2> QED
    BY <2>1, BeginsInTheReader
<1>3. CASE LeaveSync \/ OpenUsb \/ LeaveUsb \/ Asleep
  <2>1. /\ screen' \in {"restarting", "off", "usb"} /\ todo' = <<>>
        /\ UNCHANGED listVars
    BY <1>3 DEF LeaveSync, OpenUsb, LeaveUsb, Asleep, Ready, Rests, RestartsTo,
                cardVars
  <2> QED
    BY <2>1, BeginsElsewhere
<1>4. CASE Boot
  <2>1. /\ recents' = (IF recentsCard = Torn THEN <<>> ELSE recentsCard)
        /\ UNCHANGED <<file, recentsCard>>
    BY <1>4 DEF Boot, LoadList
  <2>2. ListsOK'
    <3> PICK list : list = IF recentsCard = Torn THEN <<>> ELSE recentsCard
      OBVIOUS
    <3>1. ListOK(list)
      BY EmptyIsOK DEF RecentInv, ListsOK
    <3>2. recents' = list
      BY <2>1
    <3> QED
      BY <2>1, <3>1, <3>2, Zenon DEF RecentInv, ListsOK, ListOK, Distinct
  <2>3. todo = <<>>
    BY <1>4 DEF Boot, IInv, ScreenOK
  <2>4. CASE screen' = "home" /\ todo' = todo
    <3>1. ReaderOK'
      BY <2>4 DEF ReaderOK
    <3>2. MovesOK(todo)'
      BY <2>3, <2>4, NoMoves
    <3> QED
      BY <2>2, <3>1, <3>2 DEF RecentInv
  <2>5. ASSUME NEW p \in Paths, CanOpen(p), screen' = "opening", reading' = p,
               todo' = Builds(p)
        PROVE  RecentInv'
    BY <2>1, <2>2, <2>5, OpeningBegins
  <2> QED
    BY <1>4, <2>4, <2>5 DEF Boot
<1>5. ASSUME NEW footnote \in BOOLEAN, FallAsleep(footnote) PROVE RecentInv'
  <2>1. /\ todo = <<>> /\ ~sleeping /\ sleeping'
        /\ Makes(IF screen = "reader" THEN Closing(footnote) ELSE <<>>)
    BY <1>5 DEF FallAsleep
  <2>2. CASE screen = "reader"
    <3>1. Leads(Closing(footnote))
      BY <2>2, ReadingIsAPath, ClosingLeads
    <3> QED
      BY <2>1, <2>2, <3>1, LeavesTheReader
  <2>3. CASE screen # "reader"
    <3>1. todo' = <<>> /\ UNCHANGED listVars
      BY <2>1, <2>3 DEF Makes
    <3> QED
      BY <2>1, <3>1, BeginsElsewhere
  <2> QED
    BY <2>2, <2>3
<1> QED
  BY <1>1, <1>2, <1>3, <1>4, <1>5 DEF Powering

LEMMA ServerKeepsRecents ==
  ASSUME IInv, RecentInv, IInv', OpenWeb \/ CloseWeb \/ Serve \/ Listen
  PROVE  RecentInv'
<1>1. CASE OpenWeb
  <2>1. todo' = <<>> /\ screen' = "web" /\ UNCHANGED listVars
    BY <1>1 DEF OpenWeb, Ready, Rests, cardVars
  <2> QED
    BY <2>1, BeginsElsewhere
<1>2. CASE CloseWeb
  <2>1. todo' = <<>> /\ screen' \in {"off", "home"} /\ UNCHANGED listVars
    BY <1>2 DEF CloseWeb, StopServer, Idle
  <2> QED
    BY <2>1, BeginsElsewhere
<1>3. CASE Serve \/ Listen
  <2>1. screen' = "web"
    BY <1>3 DEF Serve, Listen, Serving, Ready, AtTheServer, libraryVars
  <2>2. UNCHANGED listVars
    BY <1>3 DEF Serve, Listen, Requests, Upload, DavPut, Delete, DavDelete,
           RenameBook, DavMove, DavCopy, Request, Begins, Events, Connects,
           BadChunk, Disconnects, Start, LastChunk, Event
  <2>3. running'
    BY <2>1 DEF IInv, ScreenOK
  <2>4. \A i \in DOMAIN todo' : todo'[i].call \in ServerCalls
    BY <2>3 DEF IInv, ScreenOK
  <2> QED
    BY <2>1, <2>2, <2>4, BeginsElsewhere DEF ServerCalls
<1> QED
  BY <1>1, <1>2, <1>3

LEMMA FetchingKeepsRecents ==
  ASSUME IInv, RecentInv, Fetching
  PROVE  RecentInv'
<1>1. screen' = "home"
  BY DEF Fetching, Home, Ready, libraryVars
<1>2. ASSUME NEW p \in Paths, BrowserDeletes(p) PROVE RecentInv'
  <2> PICK a, b : a = On("clear", p) /\ b = On("remove", p)
    OBVIOUS
  <2>1. todo' = <<a, b>> /\ UNCHANGED listVars
    BY <1>2 DEF BrowserDeletes, Begins
  <2>2. a.call = "clear" /\ b.call = "remove"
    BY DEF On, Call
  <2> QED
    BY <1>1, <2>1, <2>2, BeginsElsewhere
<1>3. ASSUME NEW p \in Paths, NEW b \in Books, Download(p, b) PROVE RecentInv'
  <2> PICK r, w, c : /\ r = On("remove", p) /\ w = Call("write", p, Nothing, b)
                     /\ c = On("clear", p)
    OBVIOUS
  <2>1. /\ {r, w, c} \subseteq CallRecords /\ r.call = "remove"
        /\ w.call = "write" /\ c.call = "clear"
    BY BookCardAssumption DEF On, Call, CallRecords, CallNames
  <2>a. PICK s, t : s = (IF Exists(p) THEN <<r>> ELSE <<>>) /\ t = <<w, c>>
    OBVIOUS
  <2>2. s \in Seq(CallRecords) /\ t \in Seq(CallRecords)
        /\ (\A i \in DOMAIN s : s[i].call = "remove")
        /\ (\A i \in DOMAIN t : t[i].call \in {"write", "clear"})
    BY <2>1, <2>a
  <2>u. PICK u : u = s \o t
    OBVIOUS
  <2>3. /\ Len(s) \in Nat /\ DOMAIN s = 1..Len(s)
        /\ DOMAIN t = 1..Len(t) /\ DOMAIN u = 1..(Len(s) + Len(t)) /\ Len(t) \in Nat
        /\ \A i \in DOMAIN s : u[i] = s[i]
        /\ \A k \in DOMAIN t : u[Len(s) + k] = t[k]
    <3>1. s \in Seq(CallRecords) /\ t \in Seq(CallRecords)
      BY <2>2
    <3> QED
      BY <2>u, <3>1, ConcatIs
  <2>4. ASSUME NEW i \in DOMAIN u PROVE u[i].call # "updateRecent"
    <3>1. CASE i \in DOMAIN s
      BY <2>2, <2>3, <3>1
    <3>2. CASE i \notin DOMAIN s
      <4>1. i - Len(s) \in DOMAIN t /\ Len(s) + (i - Len(s)) = i
        BY <2>3, <2>4, <3>2
      <4> QED
        BY <2>2, <2>3, <4>1
    <3> QED
      BY <3>1, <3>2
  <2>5. todo' = u /\ UNCHANGED listVars
    BY <1>3, <2>a, <2>u DEF Download, Begins, Removal
  <2> QED
    BY <1>1, <2>4, <2>5, BeginsElsewhere
<1> QED
  BY <1>2, <1>3 DEF Fetching

LEMMA PowerLossKeepsRecents ==
  ASSUME RecentInv, PowerLoss
  PROVE  RecentInv'
<1>1. /\ screen' = "off" /\ todo' = <<>> /\ recents' = <<>>
      /\ recentsCard' \in {recentsCard, Torn}
  BY DEF PowerLoss, LosePower, CutShort
<1>2. ListsOK'
  BY <1>1, EmptyIsOK, Zenon DEF RecentInv, ListsOK, ListOK, Distinct
<1>3. ReaderOK'
  BY <1>1 DEF ReaderOK
<1> QED
  BY <1>1, <1>2, <1>3, NoMoves DEF RecentInv

LEMMA RecentsAreInOrder == Spec => []RecentInv
<1>1. Init => RecentInv
  BY EmptyIsOK DEF Init, CardInit, LibraryInit, RecentInv, ListsOK, ReaderOK
<1>2. IInv /\ IInv' /\ RecentInv /\ [Next]_vars => RecentInv'
  <2> SUFFICES ASSUME IInv, IInv', RecentInv, [Next]_vars PROVE RecentInv'
    OBVIOUS
  <2>1. CASE Reading \/ Powering
    BY <2>1, ReadingKeepsRecents, PoweringKeepsRecents
  <2>2. CASE OpenWeb \/ CloseWeb \/ Serve \/ Listen
    BY <2>2, ServerKeepsRecents
  <2>3. CASE Fetching
    BY <2>3, FetchingKeepsRecents
  <2>4. CASE PowerLoss
    BY <2>4, PowerLossKeepsRecents
  <2>5. CASE Run
    BY <2>5, CallsKeepRecents DEF Run
  <2>6. CASE UNCHANGED vars
    <3>1. UNCHANGED <<file, recents, recentsCard, todo, screen, sleeping, reading>>
      BY <2>6 DEF vars, cardVars, listVars, libraryVars, readerVars, powerVars
    <3>2. MovesOK(todo)'
      BY <3>1, MovesStay DEF RecentInv, MovesOK
    <3>3. ListsOK'
      BY <3>1, ListsStay DEF RecentInv
    <3>4. ReaderOK'
      BY <3>1 DEF RecentInv, ReaderOK, Exists, NoneMissing, Doing
    <3> QED
      BY <3>2, <3>3, <3>4 DEF RecentInv
  <2> QED
    BY <2>1, <2>2, <2>3, <2>4, <2>5, <2>6 DEF Next
<1> QED
  BY <1>1, <1>2, AlwaysSound, PTL DEF Spec

(***************************************************************************)
(* No book is twice in the recent list, although updatePath() does not     *)
(* look for an entry that has the new path already: the book that moves    *)
(* was renamed to a name no entry had, because addBook() takes the entries *)
(* of missing books out of the list when a reader opens                    *)
(* (RecentBooksStore.cpp) and moveFinishedBookToReadFolder() chooses and   *)
(* needs a free name.                                                      *)
(***************************************************************************)
THEOREM ListedOnce == Spec => []RecentsAreDistinct
<1>1. RecentInv => RecentsAreDistinct
  BY DEF RecentInv, ListsOK, ListOK, Distinct, RecentsAreDistinct
<1> QED
  BY <1>1, RecentsAreInOrder, PTL

-----------------------------------------------------------------------------
(***************************************************************************)
(* The restart flags.  No handler of the reader and no list touches them,  *)
(* and none runs while the device restarts.                                *)
(***************************************************************************)
LEMMA ReadingKeepsThePower ==
  ASSUME Reading
  PROVE  screen # "restarting" /\ UNCHANGED powerVars
<1>1. CASE \E p \in Paths : Open(p)
  BY <1>1 DEF Open, Ready
<1>2. CASE \E p \in Paths : RemoveFromRecents(p)
  BY <1>2 DEF RemoveFromRecents, Home, Ready, libraryVars
<1>3. CASE Loaded
  BY <1>3 DEF Loaded, Ready
<1>4. CASE ShowPage
  BY <1>4 DEF ShowPage, In, Ready
<1>5. CASE ShowRecents
  BY <1>5 DEF ShowRecents, Home, Ready, libraryVars
<1>6. CASE ClearCaches
  BY <1>6 DEF ClearCaches, Home, Ready, libraryVars
<1>7. CASE \E remove, move \in BOOLEAN : Finish(remove, move)
  BY <1>7 DEF Finish, In, Ready
<1>8. CASE \E remove \in BOOLEAN : Return(remove)
  BY <1>8 DEF Return, In, Ready
<1>9. CASE \E footnote \in BOOLEAN : Close(footnote)
  BY <1>9 DEF Close, Ready
<1>10. CASE \E footnote \in BOOLEAN : StartOver(footnote)
  BY <1>10 DEF StartOver, ClearKeepingPlace, Ready
<1> QED
  BY <1>1, <1>2, <1>3, <1>4, <1>5, <1>6, <1>7, <1>8, <1>9, <1>10 DEF Reading

\* A screen asks for a restart only when the device is not going to sleep.
LEMMA RestartsWhenAwake ==
  ASSUME NEW destination, RestartsTo(destination), UNCHANGED sleeping,
         RestartIsWanted, screen # "restarting"
  PROVE  RestartIsWanted'
BY DEF RestartsTo, MayRestart, RestartIsWanted

LEMMA PoweringKeepsIt ==
  ASSUME RestartIsWanted, Powering
  PROVE  RestartIsWanted'
<1>1. CASE LaunchSync
  BY <1>1 DEF LaunchSync, Ready, powerVars, RestartIsWanted
<1>2. CASE SyncLaunched
  BY <1>2 DEF SyncLaunched, Ready, powerVars, RestartIsWanted
<1>3. CASE LeaveSync
  BY <1>3, RestartsWhenAwake DEF LeaveSync, Ready
<1>4. CASE OpenUsb
  BY <1>4 DEF OpenUsb, Ready, powerVars, RestartIsWanted
<1>5. CASE LeaveUsb
  BY <1>5, RestartsWhenAwake DEF LeaveUsb, Ready
<1>6. CASE Asleep
  <2>1. CASE screen = "sync"
    BY <1>6, <2>1, RestartsWhenAwake DEF Asleep
  <2>2. CASE screen # "sync"
    BY <1>6, <2>2 DEF Asleep, RestartIsWanted
  <2> QED
    BY <2>1, <2>2
<1>7. CASE Boot
  BY <1>7 DEF Boot, ClearTarget, RestartIsWanted
<1>8. CASE \E footnote \in BOOLEAN : FallAsleep(footnote)
  BY <1>8 DEF FallAsleep, RestartIsWanted
<1> QED
  BY <1>1, <1>2, <1>3, <1>4, <1>5, <1>6, <1>7, <1>8 DEF Powering

(***************************************************************************)
(* The target of a silent restart stands only while the device restarts,   *)
(* awake, for it (silentRestart(), enterDeepSleep() and setup()).          *)
(***************************************************************************)
THEOREM RestartIsAlwaysWanted == Spec => []RestartIsWanted
<1>1. Init => RestartIsWanted
  BY DEF Init, LibraryInit, RestartIsWanted
<1>2. RestartIsWanted /\ [Next]_vars => RestartIsWanted'
  <2> SUFFICES ASSUME RestartIsWanted, [Next]_vars
               PROVE  RestartIsWanted'
    OBVIOUS
  <2>1. CASE UNCHANGED <<sleeping, rebootTarget, screen>>
    BY <2>1 DEF RestartIsWanted
  <2>2. CASE Reading
    BY <2>2, ReadingKeepsThePower DEF RestartIsWanted, powerVars
  <2>3. CASE Powering
    BY <2>3, PoweringKeepsIt
  <2>4. CASE OpenWeb
    BY <2>4 DEF OpenWeb, Ready, powerVars, RestartIsWanted
  <2>5. CASE CloseWeb
    BY <2>5 DEF CloseWeb, powerVars, RestartIsWanted
  <2>6. CASE Serve \/ Listen
    BY <2>6, <2>1 DEF Serve, Listen, Serving, AtTheServer, libraryVars, powerVars
  <2>7. CASE Fetching
    BY <2>7, <2>1 DEF Fetching, Home, libraryVars, powerVars
  <2>8. CASE PowerLoss
    BY <2>8 DEF PowerLoss, RestartIsWanted
  <2>9. CASE Run
    BY <2>9, <2>1 DEF Run, libraryVars, powerVars
  <2>10. CASE UNCHANGED vars
    BY <2>10, <2>1 DEF vars, libraryVars, powerVars
  <2> QED
    BY <2>2, <2>3, <2>4, <2>5, <2>6, <2>7, <2>8, <2>9, <2>10 DEF Next
<1> QED
  BY <1>1, <1>2, PTL DEF Spec

(***************************************************************************)
(* The WebSocket.  Requests of other clients, the screens and the calls    *)
(* under way leave the server's variables alone.                           *)
(***************************************************************************)
UploadEndsByItsOwner ==
    owner # NoClient /\ owner' # owner =>
        \/ ~running'
        \/ connected' = connected \ {owner}
        \/ connected' = connected /\ owner' = NoClient

LEMMA RequestsLeaveTheServer ==
  ASSUME Requests
  PROVE  UNCHANGED serverVars
<1>1. ASSUME NEW p \in Paths, NEW b \in Books, Upload(p, b) \/ DavPut(p, b)
      PROVE  UNCHANGED serverVars
  BY <1>1 DEF Upload, DavPut, Request, Served
<1>2. ASSUME NEW p \in Paths, Delete(p) \/ DavDelete(p)
      PROVE  UNCHANGED serverVars
  BY <1>2 DEF Delete, DavDelete, Request, Served
<1>3. ASSUME NEW p \in Paths, NEW q \in Paths,
             RenameBook(p, q) \/ DavMove(p, q) \/ DavCopy(p, q)
      PROVE  UNCHANGED serverVars
  BY <1>3 DEF RenameBook, DavMove, DavCopy, Request, Served
<1> QED
  BY <1>1, <1>2, <1>3 DEF Requests

LEMMA EventsKeepTheOwner ==
  ASSUME UploadHasItsOwner, Events
  PROVE  UploadHasItsOwner' /\ UploadEndsByItsOwner
<1> PICK c \in Clients :
        \/ Connects(c) \/ BadChunk(c) \/ Disconnects(c)
        \/ \E p \in Paths : Start(c, p)
        \/ \E b \in Books : LastChunk(c, b)
  BY DEF Events
<1> USE DEF UploadHasItsOwner, UploadEndsByItsOwner
<1>1. CASE Connects(c)
  BY <1>1 DEF Connects, Event
<1>2. CASE BadChunk(c)
  BY <1>2 DEF BadChunk, Aborts, Frees, Event
<1>3. CASE Disconnects(c)
  <2>1. CASE Owns(c)
    BY <1>3, <2>1 DEF Disconnects, Owns, Aborts, Frees, Event
  <2>2. CASE ~Owns(c)
    BY <1>3, <2>2 DEF Disconnects, Owns, Event
  <2> QED
    BY <2>1, <2>2
<1>4. CASE \E p \in Paths : Start(c, p)
  BY <1>4 DEF Start, Idle, Event
<1>5. CASE \E b \in Books : LastChunk(c, b)
  BY <1>5 DEF LastChunk, Frees, Event
<1> QED
  BY <1>1, <1>2, <1>3, <1>4, <1>5

LEMMA NextKeepsTheOwner ==
  ASSUME UploadHasItsOwner, [Next]_vars
  PROVE  UploadHasItsOwner' /\ UploadEndsByItsOwner
<1>1. CASE UNCHANGED serverVars
  BY <1>1 DEF serverVars, UploadHasItsOwner, UploadEndsByItsOwner
<1>2. CASE (Reading \/ Powering) /\ AtTheScreen
  BY <1>2, <1>1 DEF AtTheScreen
<1>3. CASE OpenWeb
  BY <1>3 DEF OpenWeb, StartServer, UploadHasItsOwner, UploadEndsByItsOwner
<1>4. CASE CloseWeb
  BY <1>4 DEF CloseWeb, StopServer, Aborts, Frees, UploadHasItsOwner,
              UploadEndsByItsOwner
<1>5. CASE Serve
  BY <1>5, <1>1, RequestsLeaveTheServer DEF Serve
<1>6. CASE Listen
  BY <1>6, EventsKeepTheOwner DEF Listen
<1>7. CASE Fetching
  BY <1>7, <1>1 DEF Fetching, AtTheScreen
<1>8. CASE PowerLoss
  BY <1>8 DEF PowerLoss, ServerGone, Frees, UploadHasItsOwner,
              UploadEndsByItsOwner
<1>9. CASE Run
  BY <1>9, <1>1 DEF Run
<1>10. CASE UNCHANGED vars
  BY <1>10, <1>1 DEF vars
<1> QED
  BY <1>2, <1>3, <1>4, <1>5, <1>6, <1>7, <1>8, <1>9, <1>10 DEF Next

(***************************************************************************)
(* An upload's client is connected to a running server, and only that      *)
(* client's messages and disconnection, or the end of the server, end it   *)
(* (onWebSocketEvent() and stop()).                                        *)
(***************************************************************************)
THEOREM UploadsBelongToTheirOwner == Spec => UploadBelongsToItsOwner
<1>1. Init => UploadHasItsOwner
  BY DEF Init, ServerInit, UploadHasItsOwner
<1>2. UploadHasItsOwner /\ [Next]_vars => UploadHasItsOwner'
  BY NextKeepsTheOwner
<1>3. UploadHasItsOwner /\ [Next]_vars => [UploadEndsByItsOwner]_vars
  BY NextKeepsTheOwner
<1> QED
  BY <1>1, <1>2, <1>3, PTL DEF Spec, UploadBelongsToItsOwner,
     UploadEndsByItsOwner

-----------------------------------------------------------------------------
(* The types of the rest of the state. *)

Within ==
    /\ faults \in 0..MaxFaults
    /\ screen \in Screens /\ reading \in Paths \cup {Nothing}
ServerTyped ==
    /\ connected \subseteq Clients /\ owner \in Clients \cup {NoClient}
    /\ target \in Paths \cup {Nothing} /\ (owner # NoClient => target \in Paths)

LEMMA FaultsAreCounted ==
  ASSUME [Next]_vars
  PROVE  faults' = faults \/ Faulty
<1>1. CASE Reading
  <2>1. ASSUME NEW t, Makes(t) PROVE faults' = faults
    BY <2>1 DEF Makes
  <2> QED
    BY <1>1, <2>1 DEF Reading, Open, RemoveFromRecents, Loaded, ShowPage, ShowRecents,
         ClearCaches, Finish, Return, Close, StartOver
<1>2. CASE Powering
  BY <1>2 DEF Powering, LaunchSync, SyncLaunched, LeaveSync, OpenUsb, LeaveUsb,
       Asleep, Boot, FallAsleep, Makes, Rests, LoadList, cardVars
<1>3. CASE OpenWeb \/ CloseWeb
  BY <1>3 DEF OpenWeb, CloseWeb, StopServer, Rests, cardVars
<1>4. CASE Serve
  BY <1>4 DEF Serve, Requests, Upload, DavPut, Delete, DavDelete, RenameBook, DavMove,
       DavCopy, Request, Begins
<1>5. CASE Listen
  BY <1>5 DEF Listen, Events, Connects, BadChunk, Disconnects, Start, LastChunk
<1>6. CASE Fetching
  BY <1>6 DEF Fetching, BrowserDeletes, Download, Begins
<1>7. CASE PowerLoss
  BY <1>7 DEF PowerLoss, LosePower
<1>8. CASE Run
  <2>1. \/ Goes \/ Gives \/ Ignores \/ Faulty \/ UNCHANGED faults
    <3>1. CASE Remove \/ RemoveFails \/ Write \/ WriteFails \/ Rename \/ RenameFails
               \/ Put \/ PutFails \/ Clear \/ ClearFails \/ ClearAll
      BY <3>1 DEF Remove, RemoveFails, Write, WriteFails, Rename, RenameFails, Put,
           PutFails, Clear, ClearFails, ClearAll
    <3>2. CASE \/ Build \/ BuildFails \/ DropPlace \/ DropPlaceFails \/ PutPlace
               \/ PutPlaceFails \/ MoveCache \/ MoveCacheFails
               \/ ChangeList \/ ListWriteFails
      BY <3>2 DEF Build, BuildFails, DropPlace, DropPlaceFails, PutPlace,
           PutPlaceFails, MoveCache, MoveCacheFails, ChangeList, ListWriteFails
    <3> QED
      BY <1>8, <3>1, <3>2 DEF Run, Calls
  <2> QED
    BY <2>1 DEF Goes, Gives, Ignores
<1>9. CASE UNCHANGED vars
  BY <1>9 DEF vars, cardVars
<1> QED
  BY <1>1, <1>2, <1>3, <1>4, <1>5, <1>6, <1>7, <1>8, <1>9 DEF Next

LEMMA ScreensAreKnown ==
  ASSUME Within, [Next]_vars
  PROVE  screen' \in Screens /\ reading' \in Paths \cup {Nothing}
<1> USE DEF Within
<1>1. CASE UNCHANGED <<screen, reading>>
  BY <1>1
<1>2. CASE Reading
  <2>1. CASE \/ \E p \in Paths : RemoveFromRecents(p)
             \/ ShowPage \/ ShowRecents \/ ClearCaches
             \/ \E remove, move \in BOOLEAN : Finish(remove, move)
             \/ \E remove \in BOOLEAN : Return(remove)
    BY <2>1 DEF RemoveFromRecents, ShowPage, ShowRecents, ClearCaches, Finish, Return,
         In, Home, libraryVars, readerVars
  <2>2. CASE \E p \in Paths : Open(p)
    BY <2>2 DEF Open, Screens
  <2>3. CASE Loaded
    BY <2>3 DEF Loaded, NoReader, readerVars, Screens
  <2>4. CASE \E footnote \in BOOLEAN : Close(footnote) \/ StartOver(footnote)
    BY <2>4 DEF Close, StartOver, NoReader, Screens
  <2> QED
    BY <1>2, <2>1, <2>2, <2>3, <2>4 DEF Reading
<1>3. CASE Powering
  <2>1. CASE LaunchSync \/ SyncLaunched \/ OpenUsb
    BY <2>1 DEF LaunchSync, SyncLaunched, OpenUsb, readerVars, Screens
  <2>2. CASE LeaveSync \/ LeaveUsb \/ Asleep
    BY <2>2 DEF LeaveSync, LeaveUsb, Asleep, RestartsTo, NoReader, Screens
  <2>3. CASE Boot
    BY <2>3 DEF Boot, Screens
  <2>4. CASE \E footnote \in BOOLEAN : FallAsleep(footnote)
    BY <2>4 DEF FallAsleep, readerVars
  <2> QED
    BY <1>3, <2>1, <2>2, <2>3, <2>4 DEF Powering
<1>4. CASE OpenWeb \/ CloseWeb
  BY <1>4 DEF OpenWeb, CloseWeb, readerVars, Screens
<1>5. CASE Serve \/ Listen \/ Fetching \/ Run
  BY <1>5, <1>1 DEF Serve, Listen, Serving, AtTheServer, Fetching, Home, Run,
       libraryVars, readerVars
<1>6. CASE PowerLoss
  BY <1>6 DEF PowerLoss, NoReader, Screens
<1>7. CASE UNCHANGED vars
  BY <1>7, <1>1 DEF vars, libraryVars, readerVars
<1> QED
  BY <1>2, <1>3, <1>4, <1>5, <1>6, <1>7 DEF Next

LEMMA ServerStaysTyped ==
  ASSUME ServerTyped, [Next]_vars
  PROVE  ServerTyped'
<1> USE DEF ServerTyped
<1>1. CASE UNCHANGED serverVars
  BY <1>1 DEF serverVars
<1>2. CASE ((Reading \/ Powering) /\ AtTheScreen) \/ Fetching \/ Run \/ UNCHANGED vars
  BY <1>1, <1>2 DEF AtTheScreen, Fetching, Run, vars
<1>3. CASE Serve
  BY <1>1, <1>3, RequestsLeaveTheServer DEF Serve
<1>4. CASE OpenWeb
  BY <1>4 DEF OpenWeb, StartServer
<1>5. CASE CloseWeb \/ PowerLoss
  BY <1>5 DEF CloseWeb, PowerLoss, StopServer, ServerGone, Aborts, Frees
<1>6. CASE Listen
  <2> PICK c \in Clients :
          \/ Connects(c) \/ BadChunk(c) \/ Disconnects(c)
          \/ \E p \in Paths : Start(c, p)
          \/ \E b \in Books : LastChunk(c, b)
    BY <1>6 DEF Listen, Events
  <2>1. CASE Connects(c)
    BY <2>1 DEF Connects
  <2>2. CASE BadChunk(c) \/ \E b \in Books : LastChunk(c, b)
    BY <2>2 DEF BadChunk, LastChunk, Aborts, Frees
  <2>3. CASE Disconnects(c)
    BY <2>3 DEF Disconnects, Aborts, Frees
  <2>4. CASE \E p \in Paths : Start(c, p)
    BY <2>4, BookCardAssumption, ClientsAssumption DEF Start
  <2> QED
    BY <2>1, <2>2, <2>3, <2>4
<1> QED
  BY <1>2, <1>3, <1>4, <1>5, <1>6 DEF Next

(***************************************************************************)
(* The card, the recent list of at most MAX_RECENT_BOOKS books, the calls  *)
(* under way, the screens and the server have their types.                 *)
(***************************************************************************)
THEOREM CardIsTyped == Spec => []CardTypeOK
<1>1. Init => Within /\ ServerTyped
  BY BookCardAssumption DEF Init, CardInit, LibraryInit, ServerInit, Within,
     ServerTyped, Screens
<1>2. Within /\ ServerTyped /\ [Next]_vars => (Within /\ ServerTyped)'
  <2> SUFFICES ASSUME Within, ServerTyped, [Next]_vars
               PROVE  (Within /\ ServerTyped)'
    OBVIOUS
  <2>1. faults' \in 0..MaxFaults
    BY FaultsAreCounted, BookCardAssumption DEF Within, Faulty
  <2> QED
    BY <2>1, ScreensAreKnown, ServerStaysTyped DEF Within
<1>3. IInv /\ RecentInv /\ Within /\ ServerTyped => CardTypeOK
  <2> SUFFICES ASSUME IInv, RecentInv, Within, ServerTyped PROVE CardTypeOK
    OBVIOUS
  <2>1. \A i \in DOMAIN todo : todo[i].call \in CallNames
    BY ShapeAt DEF TypeAt
  <2>2. ASSUME NEW list \in {recents, recentsCard} \ {Torn}
        PROVE  Len(list) <= MaxRecent /\ \A i \in DOMAIN list : list[i] \in Paths
    BY <2>2 DEF RecentInv, ListsOK, ListOK
  <2>3. screen \in {"opening", "reader", "launching"} => reading \in Paths
    BY ReadingIsAPath
  <2> QED
    BY <2>1, <2>2, <2>3, Facts DEF CardTypeOK, Within, ServerTyped
<1> QED
  BY <1>1, <1>2, <1>3, AlwaysSound, RecentsAreInOrder, PTL DEF Spec
=============================================================================
