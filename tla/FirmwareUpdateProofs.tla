------------------------ MODULE FirmwareUpdateProofs ------------------------
(***************************************************************************)
(* The bootloader always finds a complete image, and an application meets  *)
(* its own data only: FirmwareUpdate for any set of builds and any number  *)
(* of updates, proved from the inductive invariant IInv.                   *)
(***************************************************************************)
EXTENDS FirmwareUpdate, TLAPS

\* The partition the entries select, with an unconfirmed firmware kept, ...
Selected(entries) ==
    IF Selectable(entries) = {} THEN 0
                                ELSE PartitionOf(entries[Newest(entries)].seq)

Unconfirmable == {"new", "pending"}

\* ... and with it given up.
GivenUp(entries) ==
    [i \in Slots |-> IF entries[i].state \in Unconfirmable
                     THEN [entries[i] EXCEPT !.state = "aborted"]
                     ELSE entries[i]]

Leads(entries, i) ==
    /\ i \in Selectable(entries)
    /\ \A j \in Selectable(entries) : j # i => entries[j].seq < entries[i].seq

Updating == {"app", "write", "settings", "switch", "select"}
Switched == {"clearAfter", "restart"}
Starting == {"setup", "clear", "mark", "fresh"}

\* No two entries tie, and only the newest one can be unconfirmed: a firmware
\* that does not know it is pending may have written a newer one.
EntriesInv ==
    /\ \A i, j \in Selectable(otadata) :
          otadata[i].seq = otadata[j].seq => i = j
    /\ \A i \in Slots : otadata[i].state = "new" => Leads(otadata, i)
    /\ \A i \in Slots :
          otadata[i].state = "pending"
             => \/ Leads(otadata, i)
                \/ missed /\ \E j \in Slots : otadata[j].state = "new"

\* An unconfirmed entry is met only where the code knows of it, or missed it.
ConfirmInv ==
    /\ pc \notin {"reset"} \cup Switched
          => \A i \in Slots : otadata[i].state # "new"
    /\ pc \in Updating \cup Switched /\ ~missed
          => \A i \in Slots : otadata[i].state # "pending"
    /\ pc \in Starting
          => /\ fresh \/ missed <=> \E i \in Slots : otadata[i].state = "pending"
             /\ ~(fresh /\ missed)

\* What the entries select is complete, with and without the unconfirmed one.
\* Two complete images stand behind a new entry, whoever wrote it.
AllWhole == \A p \in Partitions : image[p] # Torn

ImageInv ==
    /\ image[Selected(otadata)] # Torn
    /\ ~missed => image[Selected(GivenUp(otadata))] # Torn
    /\ (\E i \in Slots : otadata[i].state = "new") => AllWhole
    /\ pc \in {"settings", "switch", "select"} => image[Dest] # Torn

RunningInv ==
    /\ pc \notin {"reset"} \cup Switched => running = Selected(otadata)
    /\ pc = "select" => NewSeq <= MaxSeq

\* Settings belong to the firmware that is selected and confirmed.
SettingsInv ==
    ~wired => \/ settings = None
              \/ /\ \A i \in Slots : otadata[i].state \notin Unconfirmable
                 /\ pc \notin {"freshCaches", "confirm", "switch", "select"}
                              \cup Switched
                 /\ settings = image[Selected(otadata)]

\* The caches are those of the build the marker names.
CachesInv ==
    ~kept => /\ caches \subseteq {marker}
             /\ pc = "mark" => caches = {}
             /\ pc \notin {"reset", "setup", "clear", "mark", "halted"}
                   => marker = Build

IInv == /\ TypeOK /\ EntriesInv /\ ConfirmInv /\ ImageInv /\ RunningInv
        /\ SettingsInv /\ CachesInv

-----------------------------------------------------------------------------
(* What the entries select. *)

Entries == [Slots -> EntryType]
NoTies(entries) ==
    \A i, j \in Selectable(entries) : entries[i].seq = entries[j].seq => i = j

\* Changing the state of an entry leaves its sequence number alone.
LEMMA StateChange ==
  ASSUME NEW x \in EntryType,
         NEW s \in {"erased", "new", "pending", "valid", "invalid", "aborted"}
  PROVE  /\ [x EXCEPT !.state = s] \in EntryType
         /\ [x EXCEPT !.state = s].seq = x.seq
         /\ [x EXCEPT !.state = s].state = s
  BY DEF EntryType

LEMMA FieldsOf ==
  ASSUME NEW e \in Entries, NEW i \in Slots
  PROVE  /\ e[i] \in EntryType /\ e[i].seq \in Nat
         /\ e[i].state \in {"erased", "new", "pending", "valid", "invalid",
                            "aborted"}
  BY MaxSeqAssumption DEF Entries, EntryType

LEMMA LeaderIsNewest ==
  ASSUME NEW e \in Entries, NEW i, Leads(e, i)
  PROVE  /\ Selectable(e) # {} /\ Newest(e) = i
         /\ Selected(e) = PartitionOf(e[i].seq)
  <1>1. /\ i \in Selectable(e)
        /\ \A j \in Selectable(e) : e[j].seq \in Nat
        /\ \A j \in Selectable(e) : j # i => e[j].seq < e[i].seq
    BY FieldsOf DEF Leads, Selectable
  <1>2. \A j \in Selectable(e) : e[j].seq <= e[i].seq
    BY <1>1
  <1>3. \A k \in Selectable(e) :
            (\A j \in Selectable(e) : e[j].seq <= e[k].seq) => k = i
    BY <1>1
  <1>4. Newest(e) = i
    BY <1>1, <1>2, <1>3 DEF Newest
  <1> QED BY <1>1, <1>4 DEF Selected

LEMMA SomeLeader ==
  ASSUME NEW e \in Entries, NoTies(e), Selectable(e) # {}
  PROVE  \E i \in Selectable(e) : Leads(e, i)
  <1>1. /\ Selectable(e) \subseteq {0, 1}
        /\ \A j \in Selectable(e) : e[j].seq \in Nat
    BY FieldsOf DEF Selectable, Slots
  <1>2. CASE Selectable(e) = {0, 1}
    <2>1. e[0].seq # e[1].seq /\ e[0].seq \in Nat /\ e[1].seq \in Nat
      BY <1>1, <1>2 DEF NoTies
    <2>2. CASE e[0].seq < e[1].seq
      BY <1>2, <2>2 DEF Leads
    <2>3. CASE e[1].seq < e[0].seq
      BY <1>2, <2>3 DEF Leads
    <2> QED BY <2>1, <2>2, <2>3
  <1>3. CASE Selectable(e) # {0, 1}
    BY <1>1, <1>3 DEF Leads
  <1> QED BY <1>2, <1>3

\* Only the selectable entries and their sequence numbers count.
LEMMA SameSelection ==
  ASSUME NEW e \in Entries, NEW f \in Entries, NoTies(e),
         Selectable(f) = Selectable(e),
         \A i \in Selectable(e) : f[i].seq = e[i].seq
  PROVE  /\ Selected(f) = Selected(e) /\ NoTies(f)
         /\ \A i : Leads(f, i) <=> Leads(e, i)
  <1>1. NoTies(f) /\ \A i : Leads(f, i) <=> Leads(e, i)
    BY DEF NoTies, Leads
  <1>2. CASE Selectable(e) = {}
    BY <1>1, <1>2 DEF Selected
  <1>3. CASE Selectable(e) # {}
    <2>1. PICK i \in Selectable(e) : Leads(e, i)
      BY <1>3, SomeLeader
    <2> QED BY <2>1, <1>1, LeaderIsNewest
  <1> QED BY <1>1, <1>2, <1>3

LEMMA SelectedIsPartition ==
  ASSUME NEW e \in Entries, NoTies(e)
  PROVE  Selected(e) \in Partitions
  <1>1. \A n \in Nat : PartitionOf(n) \in {0, 1}
    BY DEF PartitionOf
  <1>2. CASE Selectable(e) = {}
    BY <1>2 DEF Selected, Partitions
  <1>3. CASE Selectable(e) # {}
    <2>1. PICK i \in Selectable(e) : Leads(e, i)
      BY <1>3, SomeLeader
    <2>2. e[i].seq \in Nat
      BY <2>1, FieldsOf DEF Selectable
    <2> QED BY <1>1, <2>1, <2>2, LeaderIsNewest DEF Partitions
  <1> QED BY <1>2, <1>3

LEMMA GivenUpFields ==
  ASSUME NEW e \in Entries
  PROVE  /\ GivenUp(e) \in Entries
         /\ \A i \in Slots :
               /\ GivenUp(e)[i].seq = e[i].seq
               /\ GivenUp(e)[i].state = IF e[i].state \in Unconfirmable
                                        THEN "aborted" ELSE e[i].state
         /\ Selectable(GivenUp(e)) = {i \in Slots : e[i].state = "valid"}
  <1>1. \A i \in Slots :
          /\ GivenUp(e)[i] \in EntryType
          /\ GivenUp(e)[i].seq = e[i].seq
          /\ GivenUp(e)[i].state = IF e[i].state \in Unconfirmable
                                   THEN "aborted" ELSE e[i].state
    <2> TAKE i \in Slots
    <2>1. CASE e[i].state \in Unconfirmable
      <3>1. GivenUp(e)[i] = [e[i] EXCEPT !.state = "aborted"]
        BY <2>1 DEF GivenUp
      <3>2. e[i] \in EntryType
        BY FieldsOf
      <3>3. /\ [e[i] EXCEPT !.state = "aborted"] \in EntryType
            /\ [e[i] EXCEPT !.state = "aborted"].seq = e[i].seq
            /\ [e[i] EXCEPT !.state = "aborted"].state = "aborted"
        BY <3>2, StateChange
      <3> QED BY <2>1, <3>1, <3>3, Zenon
    <2>2. CASE ~(e[i].state \in Unconfirmable)
      <3>1. GivenUp(e)[i] = e[i]
        BY <2>2 DEF GivenUp
      <3> QED BY <2>2, <3>1, FieldsOf
    <2> QED BY <2>1, <2>2
  <1>2. GivenUp(e) \in Entries
    BY <1>1 DEF Entries, GivenUp
  <1>3. Selectable(GivenUp(e)) = {i \in Slots : e[i].state = "valid"}
    BY <1>1, FieldsOf DEF Selectable, Unconfirmable
  <1> QED BY <1>1, <1>2, <1>3

LEMMA AbortingFields ==
  ASSUME NEW e \in Entries
  PROVE  /\ Aborting(e) \in Entries
         /\ \A i \in Slots :
               /\ Aborting(e)[i].seq = e[i].seq
               /\ Aborting(e)[i].state = IF e[i].state = "pending"
                                         THEN "aborted" ELSE e[i].state
         /\ Selectable(Aborting(e)) =
               {i \in Slots : e[i].state \in {"new", "valid"}}
  <1>1. \A i \in Slots :
          /\ Aborting(e)[i] \in EntryType
          /\ Aborting(e)[i].seq = e[i].seq
          /\ Aborting(e)[i].state = IF e[i].state = "pending"
                                    THEN "aborted" ELSE e[i].state
    <2> TAKE i \in Slots
    <2>1. CASE e[i].state = "pending"
      <3>1. Aborting(e)[i] = [e[i] EXCEPT !.state = "aborted"]
        BY <2>1 DEF Aborting
      <3>2. e[i] \in EntryType
        BY FieldsOf
      <3>3. /\ [e[i] EXCEPT !.state = "aborted"] \in EntryType
            /\ [e[i] EXCEPT !.state = "aborted"].seq = e[i].seq
            /\ [e[i] EXCEPT !.state = "aborted"].state = "aborted"
        BY <3>2, StateChange
      <3> QED BY <2>1, <3>1, <3>3, Zenon
    <2>2. CASE ~(e[i].state = "pending")
      <3>1. Aborting(e)[i] = e[i]
        BY <2>2 DEF Aborting
      <3> QED BY <2>2, <3>1, FieldsOf
    <2> QED BY <2>1, <2>2
  <1>2. Aborting(e) \in Entries
    BY <1>1 DEF Entries, Aborting
  <1>3. Selectable(Aborting(e)) = {i \in Slots : e[i].state \in {"new", "valid"}}
    BY <1>1, FieldsOf DEF Selectable
  <1> QED BY <1>1, <1>2, <1>3

LEMMA FewerEntries ==
  ASSUME NEW e \in Entries, NEW f \in Entries,
         Selectable(f) \subseteq Selectable(e),
         \A i \in Selectable(f) : f[i].seq = e[i].seq
  PROVE  /\ NoTies(e) => NoTies(f)
         /\ \A i \in Selectable(f) : Leads(e, i) => Leads(f, i)
  BY DEF NoTies, Leads

Confirmed(entries) == \A i \in Slots : entries[i].state \notin Unconfirmable

\* With nothing to give up nothing changes.
LEMMA ConfirmedSelection ==
  ASSUME NEW e \in Entries, NoTies(e), Confirmed(e)
  PROVE  Selected(GivenUp(e)) = Selected(e)
  <1>1. Selectable(GivenUp(e)) = Selectable(e)
    BY GivenUpFields DEF Confirmed, Unconfirmable, Selectable
  <1>2. \A i \in Selectable(e) : GivenUp(e)[i].seq = e[i].seq
    BY GivenUpFields DEF Selectable
  <1> QED BY <1>1, <1>2, SameSelection, GivenUpFields

\* The entry switchTo() finds active is the one the bootloader selects.
LEMMA ActiveEntry ==
  ASSUME otadata \in Entries, NoTies(otadata)
  PROVE  \/ /\ Selectable(otadata) = {} /\ Active = 2 /\ ActiveSeq = 0
            /\ TargetSlot = 0 /\ Selected(otadata) = 0
         \/ /\ Active \in Slots /\ Leads(otadata, Active)
            /\ ActiveSeq = otadata[Active].seq /\ TargetSlot = 1 - Active
            /\ Selected(otadata) = PartitionOf(otadata[Active].seq)
  <1>1. CASE Selectable(otadata) = {}
    BY <1>1 DEF Active, ActiveSeq, TargetSlot, Selected
  <1>2. CASE Selectable(otadata) # {}
    <2>1. PICK i \in Selectable(otadata) : Leads(otadata, i)
      BY <1>2, SomeLeader
    <2>2. Active = i /\ Selected(otadata) = PartitionOf(otadata[i].seq)
      BY <1>2, <2>1, LeaderIsNewest DEF Active
    <2>3. i \in {0, 1}
      BY <2>1 DEF Selectable, Slots
    <2> QED BY <2>1, <2>2, <2>3 DEF ActiveSeq, TargetSlot, Slots
  <1> QED BY <1>1, <1>2

\* The sequence number found selects the partition just written.
LEMMA NextSequence ==
  ASSUME TypeOK, NoTies(otadata)
  PROVE  /\ ActiveSeq \in Nat /\ NewSeq \in Nat /\ ActiveSeq < NewSeq
         /\ Dest \in Partitions /\ Dest # running
         /\ PartitionOf(NewSeq) = Dest
  <1>0. otadata \in Entries /\ running \in {0, 1}
    BY DEF TypeOK, Entries, Partitions
  <1>1. ActiveSeq \in Nat
    BY <1>0, ActiveEntry, FieldsOf
  <1>2. Dest \in {0, 1} /\ Dest # running
    BY <1>0 DEF Dest
  <1>3. \A s \in Nat : s % 2 \in {0, 1} /\ (s % 2 # (s + 1) % 2)
    OBVIOUS
  <1>4. /\ PartitionOf(ActiveSeq + 1) = ActiveSeq % 2
        /\ PartitionOf(ActiveSeq + 2) = (ActiveSeq + 1) % 2
    BY <1>1 DEF PartitionOf
  <1>5. (ActiveSeq + 1) % 2 \in {0, 1}
    BY <1>1, <1>3
  <1> QED BY <1>1, <1>2, <1>3, <1>4, <1>5 DEF NewSeq, Partitions

-----------------------------------------------------------------------------
(* The steps that rewrite the entries. *)

\* What the entries say after a step, for the firmware that then runs.
Reselected(selected) ==
    /\ otadata' \in Entries /\ EntriesInv'
    /\ Selected(otadata') = selected
    /\ image'[selected] # Torn
    /\ ~missed' => image'[Selected(GivenUp(otadata'))] # Torn
    /\ (\E i \in Slots : otadata'[i].state = "new") => AllWhole'

LEMMA EntriesOf == TypeOK /\ EntriesInv => otadata \in Entries /\ NoTies(otadata)
  BY DEF TypeOK, EntriesInv, Entries, NoTies

\* A new and a pending entry cannot both be the newest.
LEMMA OneUnconfirmed ==
  ASSUME TypeOK, EntriesInv, ~missed, NEW i \in Slots, NEW j \in Slots,
         otadata[i].state \in Unconfirmable, otadata[j].state \in Unconfirmable
  PROVE  i = j
  <1>1. Leads(otadata, i) /\ Leads(otadata, j)
    BY DEF EntriesInv, Unconfirmable
  <1> QED BY <1>1, EntriesOf, LeaderIsNewest

\* Entries that are all settled need nothing else shown of them.
LEMMA SettledEntries ==
  ASSUME otadata' \in Entries, NoTies(otadata'), Confirmed(otadata'),
         NEW p, Selected(otadata') = p, image'[p] # Torn
  PROVE  Reselected(p)
  <1>1. EntriesInv' /\ \A i \in Slots : otadata'[i].state # "new"
    BY DEF EntriesInv, NoTies, Confirmed, Unconfirmable
  <1> QED BY <1>1, ConfirmedSelection DEF Reselected

LEMMA BootSelects ==
  ASSUME IInv, Boot
  PROVE  /\ Reselected(running')
         /\ \A i \in Slots : otadata'[i].state # "new"
         /\ Confirmed(otadata) => otadata' = otadata
  <1> DEFINE left == Aborting(otadata)
  <1>0. otadata \in Entries /\ NoTies(otadata) /\ left \in Entries
    BY EntriesOf, AbortingFields DEF IInv
  <1>1. \A i \in Slots : left[i].state = "new" => Newest(left) = i /\ i \in Selectable(left)
    <2> SUFFICES ASSUME NEW i \in Slots, left[i].state = "new"
                 PROVE  Newest(left) = i /\ i \in Selectable(left)
      OBVIOUS
    <2>1. otadata[i].state = "new"
      BY <1>0, AbortingFields
    <2>2. Leads(otadata, i)
      BY <2>1 DEF IInv, EntriesInv, Unconfirmable
    <2>3. Selectable(left) \subseteq Selectable(otadata) /\ i \in Selectable(left)
      BY <1>0, <2>1, AbortingFields DEF Selectable
    <2>4. \A j \in Selectable(left) : left[j].seq = otadata[j].seq
      BY <1>0, AbortingFields DEF Selectable
    <2>5. Leads(left, i)
      BY <1>0, <2>2, <2>3, <2>4, FewerEntries
    <2> QED BY <1>0, <2>3, <2>5, LeaderIsNewest
  <1>2. \A i \in Slots :
          /\ otadata'[i] \in EntryType
          /\ otadata'[i].seq = otadata[i].seq
          /\ otadata'[i].state = IF otadata[i].state = "new" THEN "pending"
                                 ELSE IF otadata[i].state = "pending"
                                      THEN "aborted" ELSE otadata[i].state
    <2> TAKE i \in Slots
    <2>1. /\ left[i] \in EntryType /\ left[i].seq = otadata[i].seq
          /\ left[i].state = IF otadata[i].state = "pending"
                             THEN "aborted" ELSE otadata[i].state
      BY <1>0, AbortingFields, FieldsOf
    <2>2. CASE left[i].state = "new"
      <3>1. otadata'[i] = [left[i] EXCEPT !.state = "pending"]
        BY <1>1, <2>2 DEF Boot
      <3>2. /\ [left[i] EXCEPT !.state = "pending"] \in EntryType
            /\ [left[i] EXCEPT !.state = "pending"].seq = left[i].seq
            /\ [left[i] EXCEPT !.state = "pending"].state = "pending"
        BY <2>1, StateChange
      <3>3. otadata[i].state = "new"
        BY <2>1, <2>2
      <3> QED BY <2>1, <3>1, <3>2, <3>3, Zenon
    <2>3. CASE left[i].state # "new"
      <3>1. otadata'[i] = left[i]
        BY <2>3 DEF Boot
      <3>2. otadata[i].state # "new"
        BY <2>1, <2>3
      <3> QED BY <2>1, <3>1, <3>2
    <2> QED BY <2>2, <2>3
  <1>3. otadata' \in Entries
    BY <1>2 DEF Boot, Entries
  <1>4. Selectable(otadata') = Selectable(left)
    BY <1>0, <1>2, AbortingFields DEF Selectable
  <1>5. /\ Selectable(otadata') \subseteq Selectable(otadata)
        /\ \A i \in Slots : otadata'[i].seq = otadata[i].seq
        /\ Selectable(otadata') \subseteq Slots
    BY <1>0, <1>2, <1>4, AbortingFields DEF Selectable
  <1>6. /\ NoTies(otadata')
        /\ \A i \in Selectable(otadata') : Leads(otadata, i) => Leads(otadata', i)
    BY <1>0, <1>3, <1>5, FewerEntries
  <1>7. EntriesInv'
    <2>1. \A i \in Slots : otadata'[i].state \in Unconfirmable =>
            otadata[i].state = "new" /\ i \in Selectable(otadata')
      BY <1>2 DEF Unconfirmable, Selectable
    <2>2. \A i \in Slots : otadata'[i].state \in Unconfirmable => Leads(otadata', i)
      BY <1>6, <2>1 DEF IInv, EntriesInv
    <2> QED BY <1>6, <2>2 DEF EntriesInv, NoTies, Unconfirmable
  <1>8. running' = Selected(otadata')
    <2>1. running' = Selected(left)
      BY DEF Boot, NextBoot, Selected
    <2>2. \A i \in Selectable(otadata') : left[i].seq = otadata'[i].seq
      BY <1>0, <1>5, AbortingFields
    <2> QED BY <1>0, <1>3, <1>4, <1>6, <2>1, <2>2, SameSelection
  <1>9. Selectable(GivenUp(otadata')) = Selectable(GivenUp(otadata))
    <2>1. /\ Selectable(GivenUp(otadata')) =
               {i \in Slots : otadata'[i].state = "valid"}
          /\ Selectable(GivenUp(otadata)) =
               {i \in Slots : otadata[i].state = "valid"}
      BY <1>0, <1>3, GivenUpFields
    <2>2. \A i \in Slots :
            otadata'[i].state = "valid" <=> otadata[i].state = "valid"
      BY <1>2
    <2> QED BY <2>1, <2>2
  <1>10. Selected(GivenUp(otadata')) = Selected(GivenUp(otadata))
    <2>1. /\ GivenUp(otadata) \in Entries /\ GivenUp(otadata') \in Entries
          /\ Selectable(GivenUp(otadata)) \subseteq Slots
      BY <1>0, <1>3, GivenUpFields DEF Selectable
    <2>2. \A i \in Slots : GivenUp(otadata')[i].seq = GivenUp(otadata)[i].seq
      BY <1>0, <1>3, <1>5, GivenUpFields
    <2>3. NoTies(GivenUp(otadata))
      <3>1. Selectable(GivenUp(otadata)) \subseteq Selectable(otadata)
        BY <1>0, GivenUpFields DEF Selectable
      <3>2. \A i \in Selectable(GivenUp(otadata)) :
                GivenUp(otadata)[i].seq = otadata[i].seq
        BY <1>0, <2>1, GivenUpFields
      <3> QED BY <1>0, <2>1, <3>1, <3>2, FewerEntries
    <2> QED BY <1>9, <2>1, <2>2, <2>3, SameSelection
  <1>11. image[Selected(otadata')] # Torn
    BY <1>8 DEF Boot
  <1>15. image[Selected(GivenUp(otadata'))] # Torn
    <2>1. CASE ~missed
      BY <1>10, <2>1 DEF IInv, ImageInv
    <2>2. CASE \E i \in Slots : otadata[i].state = "new"
      <3>1. GivenUp(otadata') \in Entries
        BY <1>3, GivenUpFields
      <3>2. NoTies(GivenUp(otadata'))
        <4>1. Selectable(GivenUp(otadata')) \subseteq Selectable(otadata')
          BY <1>3, GivenUpFields DEF Selectable
        <4>2. \A i \in Selectable(GivenUp(otadata')) :
                GivenUp(otadata')[i].seq = otadata'[i].seq
          BY <1>3, GivenUpFields DEF Selectable
        <4> QED BY <1>3, <1>6, <3>1, <4>1, <4>2, FewerEntries
      <3> QED BY <2>2, <3>1, <3>2, SelectedIsPartition
              DEF IInv, ImageInv, AllWhole
    <2>3. CASE \A i \in Slots : otadata[i].state # "new"
      <3>1. Confirmed(otadata')
        BY <1>2, <2>3 DEF Confirmed, Unconfirmable
      <3> QED BY <1>3, <1>6, <1>11, <3>1, ConfirmedSelection
    <2> QED BY <2>1, <2>2, <2>3
  <1>12. UNCHANGED image
    BY DEF Boot
  <1>13. Confirmed(otadata) => otadata' = otadata
    <2> SUFFICES ASSUME Confirmed(otadata) PROVE otadata' = otadata
      OBVIOUS
    <2>1. \A i \in Slots : left[i] = otadata[i] /\ left[i].state # "new"
      BY DEF Confirmed, Unconfirmable, Aborting
    <2>2. \A i \in Slots : otadata'[i] = otadata[i]
      BY <2>1 DEF Boot
    <2> QED BY <1>0, <1>3, <2>2 DEF Entries
  <1>14. \A i \in Slots : otadata'[i].state # "new"
    BY <1>2
  <1> QED BY <1>3, <1>7, <1>8, <1>11, <1>12, <1>13, <1>14, <1>15
           DEF Reselected

LEMMA ConfirmSelects ==
  ASSUME IInv, Confirm
  PROVE  /\ Reselected(running) /\ Confirmed(otadata')
  <1>0. otadata \in Entries /\ NoTies(otadata)
    BY EntriesOf DEF IInv
  <1>1. /\ pc = "confirm" /\ \A i \in Slots : otadata[i].state # "new"
        /\ running = Selected(otadata) /\ UNCHANGED <<image, running>>
    BY DEF Confirm, Goes, IInv, ConfirmInv, RunningInv, Switched
  <1>2. \A i \in Slots :
          /\ otadata'[i] \in EntryType
          /\ otadata'[i].seq = otadata[i].seq
          /\ otadata'[i].state = IF otadata[i].state = "pending"
                                 THEN "valid" ELSE otadata[i].state
    <2> TAKE i \in Slots
    <2>1. CASE otadata[i].state = "pending"
      <3>1. otadata'[i] = [otadata[i] EXCEPT !.state = "valid"]
        BY <2>1 DEF Confirm
      <3>2. otadata[i] \in EntryType
        BY <1>0, FieldsOf
      <3>3. /\ [otadata[i] EXCEPT !.state = "valid"] \in EntryType
            /\ [otadata[i] EXCEPT !.state = "valid"].seq = otadata[i].seq
            /\ [otadata[i] EXCEPT !.state = "valid"].state = "valid"
        BY <3>2, StateChange
      <3> QED BY <2>1, <3>1, <3>3, Zenon
    <2>2. CASE otadata[i].state # "pending"
      <3>1. otadata'[i] = otadata[i]
        BY <2>2 DEF Confirm
      <3> QED BY <1>0, <2>2, <3>1, FieldsOf
    <2> QED BY <2>1, <2>2
  <1>3. otadata' \in Entries
    BY <1>2 DEF Confirm, Entries
  <1>4. Selectable(otadata') = Selectable(otadata)
    BY <1>2 DEF Selectable
  <1>5. \A i \in Selectable(otadata) : otadata'[i].seq = otadata[i].seq
    BY <1>2 DEF Selectable
  <1>6. NoTies(otadata') /\ Selected(otadata') = running
    BY <1>0, <1>1, <1>3, <1>4, <1>5, SameSelection
  <1>7. Confirmed(otadata')
    BY <1>1, <1>2 DEF Confirmed, Unconfirmable
  <1> QED BY <1>1, <1>3, <1>6, <1>7, SettledEntries DEF IInv, ImageInv

LEMMA RollBackSelects ==
  ASSUME IInv, RollBack, pc' = "reset"
  PROVE  /\ Reselected(Selected(GivenUp(otadata))) /\ Confirmed(otadata')
  <1>0. otadata \in Entries /\ NoTies(otadata)
    BY EntriesOf DEF IInv
  <1>1. /\ \A i \in Slots : otadata[i].state # "new"
        /\ UNCHANGED image /\ ~missed
    BY DEF RollBack, IInv, ConfirmInv, Switched, Starting
  <1>2. \A i \in Slots :
          /\ otadata'[i] \in EntryType
          /\ otadata'[i].seq = otadata[i].seq
          /\ otadata'[i].state = IF otadata[i].state = "pending"
                                 THEN "invalid" ELSE otadata[i].state
    <2> TAKE i \in Slots
    <2>1. CASE otadata[i].state = "pending"
      <3>1. otadata'[i] = [otadata[i] EXCEPT !.state = "invalid"]
        BY <2>1 DEF RollBack
      <3>2. otadata[i] \in EntryType
        BY <1>0, FieldsOf
      <3>3. /\ [otadata[i] EXCEPT !.state = "invalid"] \in EntryType
            /\ [otadata[i] EXCEPT !.state = "invalid"].seq = otadata[i].seq
            /\ [otadata[i] EXCEPT !.state = "invalid"].state = "invalid"
        BY <3>2, StateChange
      <3> QED BY <2>1, <3>1, <3>3, Zenon
    <2>2. CASE otadata[i].state # "pending"
      <3>1. otadata'[i] = otadata[i]
        BY <2>2 DEF RollBack
      <3> QED BY <1>0, <2>2, <3>1, FieldsOf
    <2> QED BY <2>1, <2>2
  <1>3. otadata' \in Entries
    BY <1>2 DEF RollBack, Entries
  <1>4. Confirmed(otadata')
    BY <1>1, <1>2 DEF Confirmed, Unconfirmable
  <1>5. Selectable(otadata') = Selectable(GivenUp(otadata))
    <2>1. Selectable(otadata') = {i \in Slots : otadata'[i].state = "valid"}
      BY <1>4 DEF Selectable, Confirmed, Unconfirmable
    <2>2. Selectable(GivenUp(otadata)) =
            {i \in Slots : otadata[i].state = "valid"}
      BY <1>0, GivenUpFields
    <2>3. \A i \in Slots :
            otadata'[i].state = "valid" <=> otadata[i].state = "valid"
      BY <1>2
    <2> QED BY <2>1, <2>2, <2>3
  <1>6. /\ Selectable(otadata') \subseteq Selectable(otadata)
        /\ \A i \in Slots : otadata'[i].seq = otadata[i].seq
        /\ Selectable(otadata') \subseteq Slots
    BY <1>2 DEF Selectable
  <1>7. NoTies(otadata')
    BY <1>0, <1>3, <1>6, FewerEntries
  <1>8. Selected(otadata') = Selected(GivenUp(otadata))
    <2>1. \A i \in Selectable(otadata') : GivenUp(otadata)[i].seq = otadata'[i].seq
      BY <1>0, <1>6, GivenUpFields
    <2> QED BY <1>0, <1>3, <1>5, <1>7, <2>1, GivenUpFields, SameSelection
  <1> QED BY <1>1, <1>3, <1>4, <1>7, <1>8, SettledEntries DEF IInv, ImageInv

LEMMA EraseSelects ==
  ASSUME IInv, EraseEntry
  PROVE  /\ Reselected(running) /\ NewSeq' = NewSeq
         /\ \A i \in Slots : otadata'[i].state # "new"
         /\ ~missed' => Confirmed(otadata')
  <1>0. otadata \in Entries /\ NoTies(otadata) /\ TargetSlot \in Slots
    BY EntriesOf DEF IInv, TargetSlot, Slots
  <1>1. /\ ~missed => Confirmed(otadata)
        /\ \A i \in Slots : otadata[i].state # "new"
        /\ running = Selected(otadata)
        /\ UNCHANGED <<image, running, missed>>
    BY DEF EraseEntry, Goes, IInv, ConfirmInv, RunningInv, Confirmed,
           Unconfirmable, Updating, Switched
  <1>2. /\ otadata' \in Entries
        /\ otadata'[TargetSlot].state = "erased"
        /\ \A i \in Slots \ {TargetSlot} : otadata'[i] = otadata[i]
    <2>1. Erased \in EntryType /\ Erased.state = "erased"
      BY MaxSeqAssumption DEF Erased, EntryType
    <2> QED BY <1>0, <2>1 DEF EraseEntry, Entries
  <1>3. /\ ~missed' => Confirmed(otadata')
        /\ \A i \in Slots : otadata'[i].state # "new"
    BY <1>1, <1>2 DEF Confirmed, Unconfirmable
  <1>4. /\ Selectable(otadata') = Selectable(otadata) \ {TargetSlot}
        /\ \A i \in Selectable(otadata') : otadata'[i].seq = otadata[i].seq
    BY <1>2 DEF Selectable
  <1>5. NoTies(otadata')
    BY <1>0, <1>2, <1>4, FewerEntries
  <1>6. Selected(otadata') = Selected(otadata) /\ ActiveSeq' = ActiveSeq
    <2>1. CASE Selectable(otadata) = {}
      BY <1>4, <2>1 DEF Selected, Active, ActiveSeq
    <2>2. CASE Selectable(otadata) # {}
      <3>1. /\ Active \in Slots /\ Leads(otadata, Active)
            /\ ActiveSeq = otadata[Active].seq /\ TargetSlot = 1 - Active
            /\ Selected(otadata) = PartitionOf(otadata[Active].seq)
        BY <1>0, <2>2, ActiveEntry
      <3>2. Active # TargetSlot
        BY <3>1 DEF Slots
      <3>3. Active \in Selectable(otadata') /\ Leads(otadata', Active)
        BY <1>0, <1>2, <1>4, <3>1, <3>2, FewerEntries DEF Leads
      <3>4. /\ Newest(otadata') = Active /\ Selectable(otadata') # {}
            /\ Selected(otadata') = PartitionOf(otadata'[Active].seq)
        BY <1>2, <3>3, LeaderIsNewest
      <3>5. Active' = Active
        BY <3>4 DEF Active
      <3>6. ActiveSeq' = otadata'[Active].seq
        BY <3>1, <3>5 DEF ActiveSeq, Slots
      <3> QED BY <1>4, <3>1, <3>3, <3>4, <3>6
    <2> QED BY <2>1, <2>2
  <1>7. NewSeq' = NewSeq
    BY <1>1, <1>6 DEF NewSeq, Dest
  <1>8. EntriesInv'
    <2>1. \A i \in Slots : otadata'[i].state = "pending" =>
             /\ i # TargetSlot /\ Leads(otadata, i) /\ i \in Selectable(otadata')
      BY <1>1, <1>2 DEF IInv, EntriesInv, Selectable
    <2>2. \A i \in Slots : otadata'[i].state = "pending" => Leads(otadata', i)
      BY <1>0, <1>2, <1>4, <2>1, FewerEntries
    <2> QED BY <1>3, <1>5, <2>2 DEF EntriesInv, NoTies
  <1>9. ~missed' => Selected(GivenUp(otadata')) = Selected(otadata')
    BY <1>2, <1>3, <1>5, ConfirmedSelection
  <1> QED BY <1>1, <1>2, <1>3, <1>6, <1>7, <1>8, <1>9
          DEF IInv, ImageInv, Reselected

LEMMA WriteSelects ==
  ASSUME IInv, WriteEntry
  PROVE  Reselected(Dest)
  <1>0. otadata \in Entries /\ NoTies(otadata) /\ TargetSlot \in Slots
    BY EntriesOf DEF IInv, TargetSlot, Slots
  <1>1. /\ ~missed => Confirmed(otadata)
        /\ \A i \in Slots : otadata[i].state # "new"
        /\ running = Selected(otadata)
        /\ image[Dest] # Torn /\ NewSeq <= MaxSeq
        /\ UNCHANGED <<image, running, missed>>
    BY DEF WriteEntry, Goes, IInv, ConfirmInv, RunningInv, ImageInv, Confirmed,
           Unconfirmable, Updating, Switched
  <1>2. /\ NewSeq \in 0..MaxSeq /\ ActiveSeq < NewSeq /\ PartitionOf(NewSeq) = Dest
    BY <1>0, <1>1, NextSequence, MaxSeqAssumption DEF IInv
  <1>3. /\ otadata' \in Entries
        /\ otadata'[TargetSlot].state = "new" /\ otadata'[TargetSlot].seq = NewSeq
        /\ \A i \in Slots \ {TargetSlot} : otadata'[i] = otadata[i]
    <2>1. /\ EntryOf(NewSeq, Unconfirmed) \in EntryType
          /\ EntryOf(NewSeq, Unconfirmed).state = "new"
          /\ EntryOf(NewSeq, Unconfirmed).seq = NewSeq
      BY <1>2 DEF EntryOf, Unconfirmed, EntryType
    <2> QED BY <1>0, <2>1 DEF WriteEntry, Entries
  <1>4. \A j \in Selectable(otadata') : j # TargetSlot =>
           /\ j \in Selectable(otadata) /\ j = Active
           /\ otadata'[j].seq = ActiveSeq
    <2>1. \A j \in Selectable(otadata') : j # TargetSlot =>
             j \in Slots /\ j \in Selectable(otadata) /\ otadata'[j] = otadata[j]
      BY <1>3 DEF Selectable
    <2>2. CASE Selectable(otadata) = {}
      BY <2>1, <2>2
    <2>3. CASE Selectable(otadata) # {}
      <3>1. /\ Active \in {0, 1} /\ ActiveSeq = otadata[Active].seq
            /\ TargetSlot = 1 - Active
        BY <1>0, <2>3, ActiveEntry DEF Slots
      <3> QED BY <2>1, <3>1 DEF Slots
    <2> QED BY <2>2, <2>3
  <1>5. Leads(otadata', TargetSlot)
    <2>1. TargetSlot \in Selectable(otadata')
      BY <1>0, <1>3 DEF Selectable
    <2> QED BY <1>2, <1>3, <1>4, <2>1 DEF Leads
  <1>6. Selected(otadata') = Dest
    BY <1>2, <1>3, <1>5, LeaderIsNewest
  <1>7. EntriesInv'
    <2>1. NoTies(otadata')
      <3>1. \A i, j \in Selectable(otadata') :
              i # j /\ otadata'[i].seq = otadata'[j].seq => FALSE
        <4> SUFFICES ASSUME NEW i \in Selectable(otadata'),
                            NEW j \in Selectable(otadata'),
                            i # j, otadata'[i].seq = otadata'[j].seq
                     PROVE  FALSE
          OBVIOUS
        <4>1. ActiveSeq \in Nat /\ NewSeq \in Nat
          BY <1>0, NextSequence DEF IInv
        <4>2. CASE i = TargetSlot
          BY <1>2, <1>3, <1>4, <4>1, <4>2
        <4>3. CASE j = TargetSlot
          BY <1>2, <1>3, <1>4, <4>1, <4>3
        <4>4. CASE i # TargetSlot /\ j # TargetSlot
          BY <1>4, <4>4
        <4> QED BY <4>2, <4>3, <4>4
      <3> QED BY <3>1 DEF NoTies
    <2>2. \A i \in Slots : otadata'[i].state = "new" => i = TargetSlot
      BY <1>1, <1>3
    <2>3. \A i \in Slots : otadata'[i].state = "pending" => missed'
      BY <1>1, <1>3 DEF Confirmed, Unconfirmable
    <2> QED BY <1>0, <1>3, <1>5, <2>1, <2>2, <2>3 DEF EntriesInv, NoTies
  <1>8. ASSUME ~missed PROVE Selected(GivenUp(otadata')) = running
    <2>1. /\ GivenUp(otadata') \in Entries
          /\ Selectable(GivenUp(otadata')) =
               {i \in Slots : otadata'[i].state = "valid"}
          /\ \A i \in Slots : GivenUp(otadata')[i].seq = otadata'[i].seq
      BY <1>3, GivenUpFields
    <2>2. Selectable(GivenUp(otadata')) = Selectable(otadata) \ {TargetSlot}
      <3>1. \A i \in Slots : otadata'[i].state = "valid" <=>
               i \in Selectable(otadata) \ {TargetSlot}
        BY <1>1, <1>3, <1>8 DEF Confirmed, Unconfirmable, Selectable
      <3> QED BY <2>1, <3>1 DEF Selectable
    <2>3. CASE Selectable(otadata) = {}
      BY <1>1, <2>2, <2>3 DEF Selected
    <2>4. CASE Selectable(otadata) # {}
      <3>1. /\ Active \in Slots /\ Leads(otadata, Active)
            /\ TargetSlot = 1 - Active
            /\ Selected(otadata) = PartitionOf(otadata[Active].seq)
        BY <1>0, <2>4, ActiveEntry
      <3>2. Active # TargetSlot
        BY <3>1 DEF Slots
      <3>3. /\ Selectable(GivenUp(otadata')) \subseteq Selectable(otadata)
            /\ \A i \in Selectable(GivenUp(otadata')) :
                  GivenUp(otadata')[i].seq = otadata[i].seq
        BY <1>3, <2>1, <2>2 DEF Selectable
      <3>4. Active \in Selectable(GivenUp(otadata'))
        BY <2>2, <3>1, <3>2 DEF Leads
      <3>5. Leads(GivenUp(otadata'), Active)
        BY <1>0, <2>1, <3>1, <3>3, <3>4, FewerEntries
      <3> QED BY <1>1, <2>1, <3>1, <3>3, <3>4, <3>5, LeaderIsNewest
    <2> QED BY <2>3, <2>4
  <1>9. image[running] # Torn
    BY <1>1 DEF IInv, ImageInv
  <1>10. AllWhole'
    <2>1. running \in {0, 1} /\ Dest = 1 - running
      BY DEF IInv, TypeOK, Partitions, Dest
    <2> QED BY <1>1, <1>9, <2>1 DEF AllWhole, Partitions
  <1> QED BY <1>1, <1>3, <1>6, <1>7, <1>8, <1>9, <1>10 DEF Reselected

LEMMA FlashSelects ==
  ASSUME IInv, FlashOverUsb
  PROVE  /\ Reselected(0) /\ Confirmed(otadata')
  <1>1. otadata' \in Entries /\ \A i \in Slots : otadata'[i].state = "erased"
    BY MaxSeqAssumption DEF FlashOverUsb, Entries, EntryType, Erased
  <1>2. Selectable(otadata') = {} /\ Confirmed(otadata')
    BY <1>1 DEF Selectable, Confirmed, Unconfirmable
  <1>3. NoTies(otadata') /\ Selected(otadata') = 0
    BY <1>2 DEF NoTies, Selected
  <1>4. image'[0] # Torn
    BY BuildsAssumption DEF FlashOverUsb, IInv, TypeOK, Partitions
  <1> QED BY <1>1, <1>2, <1>3, <1>4, SettledEntries

-----------------------------------------------------------------------------
(* Every step preserves the invariant. *)

FlashInv == EntriesInv /\ ConfirmInv /\ ImageInv /\ RunningInv

\* The steps that write neither partition nor select entry.
CardSteps ==
    \/ Reset \/ CardFails \/ MarkerMatches \/ MarkerUnreadable \/ MarkerDiffers
    \/ InvalidateCaches \/ StoreMarker \/ NotFresh \/ ResetSettings
    \/ RollBack /\ pc' = "halted"
    \/ FreshCaches \/ ConfirmFails \/ SaveSettings \/ BuildCache \/ Fails
    \/ ForgetSettings \/ ClearAfterFlash \/ SwapCard

LEMMA InitIInv == Init => IInv
  <1> SUFFICES ASSUME Init PROVE IInv
    OBVIOUS
  <1>1. TypeOK
    <2>1. Erased \in EntryType /\ EntryOf(1, "valid") \in EntryType
      BY MaxSeqAssumption DEF EntryType, Erased, EntryOf
    <2>2. otadata \in [Slots -> EntryType]
      BY <2>1 DEF Init
    <2>3. image \in [Partitions -> Builds \cup {Torn}]
      BY DEF Init
    <2> QED BY <2>2, <2>3 DEF Init, TypeOK, Partitions
  <1>2. \/ \A i \in Slots : otadata[i].state = "erased"
        \/ /\ otadata[0].state = "valid" /\ otadata[0].seq = 1
           /\ otadata[1].state = "erased"
    BY DEF Init, Slots, Erased, EntryOf
  <1>3. Selectable(otadata) \in {{}, {0}} /\ Confirmed(otadata)
    BY <1>2 DEF Selectable, Slots, Confirmed, Unconfirmable
  <1>4. NoTies(otadata) /\ otadata \in Entries
    BY <1>1, <1>3 DEF NoTies, TypeOK, Entries
  <1>5. Selected(otadata) = 0
    <2>1. CASE Selectable(otadata) = {}
      BY <2>1 DEF Selected
    <2>2. CASE Selectable(otadata) = {0}
      <3>1. Leads(otadata, 0) /\ otadata[0].seq = 1
        BY <1>2, <2>2 DEF Leads, Selectable, Slots
      <3>2. PartitionOf(1) = 0
        BY DEF PartitionOf
      <3> QED BY <1>4, <3>1, <3>2, LeaderIsNewest
    <2> QED BY <1>3, <2>1, <2>2
  <1>6. Selected(GivenUp(otadata)) = 0
    BY <1>3, <1>4, <1>5, ConfirmedSelection
  <1>7. image[0] # Torn
    BY BuildsAssumption DEF Init, Partitions
  <1>8. EntriesInv
    BY <1>3, <1>4 DEF EntriesInv, NoTies, Confirmed, Unconfirmable
  <1>9. ConfirmInv /\ ImageInv /\ RunningInv
    <2>1. \A i \in Slots : otadata[i].state # "new"
      BY <1>3 DEF Confirmed, Unconfirmable
    <2> QED BY <1>5, <1>6, <1>7, <2>1
            DEF Init, ConfirmInv, ImageInv, RunningInv, Updating, Switched,
                Starting
  <1>10. SettingsInv /\ CachesInv
    BY DEF Init, SettingsInv, CachesInv
  <1> QED BY <1>1, <1>8, <1>9, <1>10 DEF IInv

LEMMA TypeKept ==
  ASSUME IInv, [Next]_vars
  PROVE  TypeOK'
  <1> USE DEF TypeOK, IInv, flashVars, cardVars, SetupOnly, Goes, Build
  <1>1. CASE Boot
    <2>1. running' \in Partitions
      <3>1. running' = Selected(otadata')
        BY <1>1, BootSelects DEF Reselected
      <3>2. otadata' \in Entries /\ NoTies(otadata')
        BY <1>1, BootSelects DEF Reselected, EntriesInv, NoTies
      <3> QED BY <3>1, <3>2, SelectedIsPartition
    <2>2. otadata' \in [Slots -> EntryType]
      BY <1>1, BootSelects DEF Reselected, Entries
    <2> QED BY <1>1, <2>1, <2>2 DEF Boot
  <1>2. CASE CardSteps
    <2>1. UNCHANGED <<otadata, image, running, fresh, via, missed>>
      BY <1>2 DEF CardSteps, Reset, CardFails, MarkerMatches,
           MarkerUnreadable, MarkerDiffers, InvalidateCaches, StoreMarker,
           NotFresh, ResetSettings, RemoveSettings, RollBack, FreshCaches,
           ConfirmFails, SaveSettings, BuildCache, Fails, ForgetSettings,
           ClearAfterFlash, SwapCard
    <2>2. pc \in {"mark", "app"} => Build \in Builds
      BY DEF ImageInv, RunningInv, Switched
    <2>3. marker' \in Builds \cup {None}
      BY <1>2, <2>2 DEF CardSteps, Reset, CardFails, MarkerMatches,
           MarkerUnreadable, MarkerDiffers, InvalidateCaches, StoreMarker,
           NotFresh, ResetSettings, RemoveSettings, RollBack, FreshCaches,
           ConfirmFails, SaveSettings, BuildCache, Fails, ForgetSettings,
           ClearAfterFlash, SwapCard
    <2>4. settings' \in Builds \cup {None} /\ caches' \subseteq Builds
      BY <1>2, <2>2 DEF CardSteps, Reset, CardFails, MarkerMatches,
           MarkerUnreadable, MarkerDiffers, InvalidateCaches, StoreMarker,
           NotFresh, ResetSettings, RemoveSettings, RollBack, FreshCaches,
           ConfirmFails, SaveSettings, BuildCache, Fails, ForgetSettings,
           ClearAfterFlash, SwapCard, ClearCaches
    <2>5. /\ kept' \in BOOLEAN /\ wired' \in BOOLEAN
          /\ pc' \in {"reset", "setup", "clear", "mark", "fresh",
                     "freshCaches", "confirm", "app", "halted", "write",
                     "settings", "switch", "select", "clearAfter", "restart"}
      BY <1>2 DEF CardSteps, Reset, CardFails, MarkerMatches,
           MarkerUnreadable, MarkerDiffers, InvalidateCaches, StoreMarker,
           NotFresh, ResetSettings, RemoveSettings, RollBack, FreshCaches,
           ConfirmFails, SaveSettings, BuildCache, Fails, ForgetSettings,
           ClearAfterFlash, SwapCard
    <2> QED BY <2>1, <2>3, <2>4, <2>5
  <1>3. CASE RollBack /\ pc' = "reset"
    BY <1>3, RollBackSelects DEF RollBack, Reselected, Entries
  <1>4. CASE Confirm
    BY <1>4, ConfirmSelects DEF Confirm, Reselected, Entries
  <1>5. CASE StartUpdate \/ WriteImage
    <2>1. image' \in [Partitions -> Builds \cup {Torn}]
      BY <1>5 DEF StartUpdate, WriteImage
    <2> QED BY <1>5, <2>1 DEF StartUpdate, WriteImage
  <1>6. CASE EraseEntry
    BY <1>6, EraseSelects DEF EraseEntry, Reselected, Entries
  <1>7. CASE WriteEntry
    BY <1>7, WriteSelects DEF WriteEntry, Reselected, Entries
  <1>8. CASE FlashOverUsb
    BY <1>8, FlashSelects DEF FlashOverUsb, Reselected, Entries
  <1>9. CASE UNCHANGED vars
    BY <1>9 DEF vars
  <1> QED BY <1>1, <1>2, <1>3, <1>4, <1>5, <1>6, <1>7, <1>8, <1>9
          DEF Next, Setup, Update, CardSteps, RollBack

LEMMA CardStepsKeepFlash ==
  ASSUME IInv, CardSteps
  PROVE  FlashInv'
  <1>1. UNCHANGED <<otadata, image, running, fresh, missed>>
    BY DEF CardSteps, Reset, CardFails, MarkerMatches, MarkerUnreadable,
         MarkerDiffers, InvalidateCaches, StoreMarker, NotFresh, ResetSettings,
         RemoveSettings, RollBack, FreshCaches, ConfirmFails, SaveSettings,
         BuildCache, Fails, ForgetSettings, ClearAfterFlash, SwapCard,
         SetupOnly, flashVars
  <1>2. \/ pc' = "reset"
        \/ pc' = "halted" /\ pc \notin {"reset"} \cup Switched
        \/ pc \in Starting /\ pc' \in Starting
        \/ pc = "fresh" /\ pc' = "app" /\ ~fresh
        \/ pc \in {"fresh", "freshCaches"} /\ pc' \in {"freshCaches", "confirm"}
        \/ pc \in Updating /\ pc' = "app"
        \/ pc = "settings" /\ pc' = "switch"
        \/ pc = "clearAfter" /\ pc' = "restart"
    BY DEF CardSteps, Reset, CardFails, MarkerMatches, MarkerUnreadable,
         MarkerDiffers, InvalidateCaches, StoreMarker, NotFresh, ResetSettings,
         RemoveSettings, RollBack, FreshCaches, ConfirmFails, SaveSettings,
         BuildCache, Fails, ForgetSettings, ClearAfterFlash, SwapCard,
         SetupOnly, Goes, Starting, Updating, Switched
  <1>3. EntriesInv'
    BY <1>1 DEF IInv, EntriesInv, Selectable, Leads
  <1>4. ConfirmInv'
    BY <1>1, <1>2 DEF IInv, ConfirmInv, Starting, Updating, Switched
  <1>5. /\ Selected(otadata') = Selected(otadata)
        /\ Selected(GivenUp(otadata')) = Selected(GivenUp(otadata))
    BY <1>1
  <1>6. ImageInv'
    BY <1>1, <1>2, <1>5 DEF IInv, ImageInv, AllWhole, Dest, Starting, Updating
  <1>7. RunningInv'
    BY <1>1, <1>2, <1>5 DEF IInv, RunningInv, Starting, Updating, Switched
  <1> QED BY <1>3, <1>4, <1>6, <1>7 DEF FlashInv

\* Entries as a step left them, for the program counter it left.
LEMMA ReselectedKeepsFlash ==
  ASSUME NEW p, Reselected(p),
         \/ pc' = "setup" /\ running' = p
            /\ (\A i \in Slots : otadata'[i].state # "new")
            /\ (fresh' \/ missed' <=> \E i \in Slots : otadata'[i].state = "pending")
            /\ ~(fresh' /\ missed')
         \/ pc' = "reset"
         \/ pc' = "app" /\ running' = p /\ Confirmed(otadata')
         \/ pc' = "select" /\ running' = p
            /\ (\A i \in Slots : otadata'[i].state # "new")
            /\ (~missed' => Confirmed(otadata'))
            /\ image'[Dest'] # Torn /\ NewSeq' <= MaxSeq
         \/ pc' \in Switched
            /\ (~missed' => \A i \in Slots : otadata'[i].state # "pending")
  PROVE  FlashInv'
  <1>1. EntriesInv'
    BY DEF Reselected
  <1>2. ConfirmInv'
    BY DEF ConfirmInv, Confirmed, Unconfirmable, Updating, Switched, Starting
  <1>3. ImageInv'
    BY DEF ImageInv, Reselected, Switched
  <1>4. RunningInv'
    BY DEF RunningInv, Reselected, Switched
  <1> QED BY <1>1, <1>2, <1>3, <1>4 DEF FlashInv

\* An application writes the partition it does not run from.
LEMMA ImageStepsKeepFlash ==
  ASSUME IInv, StartUpdate \/ WriteImage
  PROVE  /\ FlashInv'
         /\ image'[running] = image[running] /\ running = Selected(otadata)
  <1>0. otadata \in Entries /\ NoTies(otadata)
    BY EntriesOf DEF IInv
  <1>1. /\ ~missed => Confirmed(otadata)
        /\ \A i \in Slots : otadata[i].state # "new"
        /\ running = Selected(otadata)
        /\ UNCHANGED <<otadata, running, fresh, missed>>
        /\ \/ pc = "app" /\ pc' = "write"
           \/ pc = "write" /\ pc' = "settings"
    BY DEF StartUpdate, WriteImage, Goes, IInv, ConfirmInv, RunningInv,
           Confirmed, Unconfirmable, Updating, Switched
  <1>2. Dest # running /\ Dest \in Partitions
    BY <1>0, NextSequence DEF IInv
  <1>3. /\ image'[running] = image[running]
        /\ pc' = "settings" => image'[Dest] # Torn
    <2>1. running \in Partitions /\ image \in [Partitions -> Builds \cup {Torn}]
      BY DEF IInv, TypeOK
    <2>2. CASE StartUpdate
      <3>1. image' = [image EXCEPT ![Dest] = Torn] /\ pc' = "write"
        BY <2>2 DEF StartUpdate, Goes
      <3> QED BY <1>2, <2>1, <3>1
    <2>3. CASE WriteImage
      <3>1. PICK build \in Builds : image' = [image EXCEPT ![Dest] = build]
        BY <2>3 DEF WriteImage
      <3>2. build # Torn
        BY BuildsAssumption
      <3> QED BY <1>2, <2>1, <3>1, <3>2
    <2> QED BY <2>2, <2>3
  <1>4. /\ Selected(otadata') = running
        /\ ~missed => Selected(GivenUp(otadata')) = running
    BY <1>0, <1>1, ConfirmedSelection
  <1>5. ImageInv'
    BY <1>1, <1>3, <1>4 DEF ImageInv, IInv, Dest
  <1>6. EntriesInv'
    BY <1>1 DEF IInv, EntriesInv, Selectable, Leads
  <1>7. ConfirmInv'
    BY <1>1 DEF IInv, ConfirmInv, Updating, Switched, Starting
  <1>8. RunningInv'
    BY <1>1, <1>4 DEF RunningInv
  <1> QED BY <1>1, <1>3, <1>5, <1>6, <1>7, <1>8 DEF FlashInv

LEMMA FlashKept ==
  ASSUME IInv, [Next]_vars
  PROVE  FlashInv'
  <1>1. CASE Boot
    <2>1. pc' = "setup" /\ ~(fresh' /\ missed')
          /\ (fresh' \/ missed' <=> \E i \in Slots : otadata'[i].state = "pending")
      BY <1>1 DEF Boot, Goes
    <2> QED BY <1>1, <2>1, BootSelects, ReselectedKeepsFlash
  <1>2. CASE CardSteps
    BY <1>2, CardStepsKeepFlash
  <1>3. CASE RollBack /\ pc' = "reset"
    BY <1>3, RollBackSelects, ReselectedKeepsFlash
  <1>4. CASE Confirm
    <2>1. pc' = "app" /\ running' = running
      BY <1>4 DEF Confirm, Goes
    <2> QED BY <1>4, <2>1, ConfirmSelects, ReselectedKeepsFlash
  <1>5. CASE StartUpdate \/ WriteImage
    BY <1>5, ImageStepsKeepFlash
  <1>6. CASE EraseEntry
    <2>1. /\ pc = "switch" /\ pc' = "select" /\ running' = running
          /\ NewSeq <= MaxSeq /\ UNCHANGED image
      BY <1>6 DEF EraseEntry, Goes
    <2>2. image'[Dest'] # Torn
      BY <2>1 DEF IInv, ImageInv, Dest
    <2> QED BY <1>6, <2>1, <2>2, EraseSelects, ReselectedKeepsFlash
  <1>7. CASE WriteEntry
    <2>1. pc = "select" /\ pc' \in Switched
      BY <1>7 DEF WriteEntry, Goes, Switched
    <2>2. ASSUME ~missed' PROVE \A i \in Slots : otadata'[i].state # "pending"
      <3>1. \A i \in Slots : otadata[i].state # "pending"
        BY <1>7, <2>1, <2>2 DEF WriteEntry, IInv, ConfirmInv, Updating
      <3>2. EntryOf(NewSeq, Unconfirmed).state # "pending"
        BY DEF EntryOf, Unconfirmed
      <3> QED BY <1>7, <3>1, <3>2 DEF WriteEntry, IInv, TypeOK
    <2> QED BY <1>7, <2>1, <2>2, WriteSelects, ReselectedKeepsFlash
  <1>8. CASE FlashOverUsb
    <2>1. pc' = "reset"
      BY <1>8 DEF FlashOverUsb
    <2> QED BY <1>8, <2>1, FlashSelects, ReselectedKeepsFlash
  <1>9. CASE UNCHANGED vars
    BY <1>9 DEF vars, flashVars, IInv, FlashInv, EntriesInv, ConfirmInv,
         ImageInv, AllWhole, RunningInv, Selectable, Leads, Dest, NewSeq, ActiveSeq, Active
  <1> QED BY <1>1, <1>2, <1>3, <1>4, <1>5, <1>6, <1>7, <1>8, <1>9
          DEF Next, Setup, Update, CardSteps, RollBack

LEMMA SettingsKept ==
  ASSUME IInv, [Next]_vars
  PROVE  SettingsInv'
  <1>1. CASE Boot
    <2>1. UNCHANGED <<settings, image>> /\ pc' = "setup" /\ (wired => wired')
      BY <1>1 DEF Boot, Goes, IInv, TypeOK
    <2>2. Confirmed(otadata) => otadata' = otadata
      BY <1>1, BootSelects
    <2> QED BY <2>1, <2>2 DEF IInv, SettingsInv, Confirmed, Switched
  <1>2. CASE CardSteps
    <2>0. UNCHANGED <<otadata, image, running>>
      BY <1>2 DEF CardSteps, Reset, CardFails, MarkerMatches,
           MarkerUnreadable, MarkerDiffers, InvalidateCaches, StoreMarker,
           NotFresh, ResetSettings, RemoveSettings, RollBack, FreshCaches,
           ConfirmFails, SaveSettings, BuildCache, Fails, ForgetSettings,
           ClearAfterFlash, SwapCard, SetupOnly, flashVars
    <2>1. CASE SwapCard \/ ResetSettings \/ ForgetSettings
      BY <2>1 DEF SwapCard, ResetSettings, ForgetSettings, RemoveSettings,
           SettingsInv
    <2>2. CASE SaveSettings
      <3>1. /\ pc' = "app" /\ settings' = image[Selected(otadata)]
            /\ wired' = missed /\ (~missed => Confirmed(otadata))
        BY <2>2 DEF SaveSettings, Build, IInv, ConfirmInv, RunningInv,
             Confirmed, Unconfirmable, Updating, Switched
      <3> QED BY <2>0, <3>1 DEF SettingsInv, Confirmed, Switched
    <2>3. CASE ~(SwapCard \/ ResetSettings \/ ForgetSettings \/ SaveSettings)
      <3>1. /\ UNCHANGED <<settings, wired>>
            /\ \/ pc \in {"freshCaches", "clearAfter"}
               \/ pc' \notin {"freshCaches", "confirm", "switch", "select"}
                             \cup Switched
        BY <1>2, <2>3 DEF CardSteps, Reset, CardFails, MarkerMatches,
             MarkerUnreadable, MarkerDiffers, InvalidateCaches, StoreMarker,
             NotFresh, RollBack, FreshCaches, ConfirmFails, BuildCache, Fails,
             ClearAfterFlash, cardVars, Goes, Switched
      <3> QED BY <2>0, <3>1 DEF IInv, SettingsInv, Switched
    <2> QED BY <2>1, <2>2, <2>3
  <1>3. CASE RollBack /\ pc' = "reset"
    <2>1. \E i \in Slots : otadata[i].state \in Unconfirmable
      BY <1>3 DEF RollBack, IInv, ConfirmInv, Starting, Unconfirmable
    <2> QED BY <1>3, <2>1 DEF RollBack, cardVars, IInv, SettingsInv
  <1>4. CASE Confirm
    BY <1>4 DEF Confirm, Goes, cardVars, IInv, SettingsInv
  <1>5. CASE StartUpdate \/ WriteImage
    <2>1. /\ UNCHANGED <<settings, wired, otadata>> /\ pc' \in {"write", "settings"}
      BY <1>5 DEF StartUpdate, WriteImage, cardVars, Goes
    <2>2. Selected(otadata') = Selected(otadata)
      BY <2>1
    <2> QED BY <1>5, <2>1, <2>2, ImageStepsKeepFlash
            DEF IInv, SettingsInv, Switched
  <1>6. CASE EraseEntry \/ WriteEntry
    BY <1>6 DEF EraseEntry, WriteEntry, Goes, cardVars, IInv, SettingsInv
  <1>7. CASE FlashOverUsb
    BY <1>7 DEF FlashOverUsb, SettingsInv
  <1>8. CASE UNCHANGED vars
    BY <1>8 DEF vars, flashVars, cardVars, IInv, SettingsInv
  <1> QED BY <1>1, <1>2, <1>3, <1>4, <1>5, <1>6, <1>7, <1>8
          DEF Next, Setup, Update, CardSteps, RollBack

LEMMA CachesKept ==
  ASSUME IInv, [Next]_vars
  PROVE  CachesInv'
  <1> USE DEF IInv, CachesInv, cardVars, flashVars, SetupOnly, Goes, Build
  <1>1. CASE Boot
    BY <1>1 DEF Boot
  <1>2. CASE Reset \/ SwapCard \/ CardFails \/ MarkerMatches
             \/ MarkerUnreadable \/ MarkerDiffers
    BY <1>2 DEF Reset, SwapCard, CardFails, MarkerMatches, MarkerUnreadable,
         MarkerDiffers
  <1>3. CASE InvalidateCaches \/ StoreMarker
    BY <1>3 DEF InvalidateCaches, StoreMarker, ClearCaches
  <1>4. CASE NotFresh \/ ResetSettings \/ RollBack \/ FreshCaches \/ Confirm
             \/ ConfirmFails
    BY <1>4 DEF NotFresh, ResetSettings, RemoveSettings, RollBack, FreshCaches,
         ClearCaches, Confirm, ConfirmFails
  <1>5. CASE SaveSettings \/ BuildCache
    BY <1>5 DEF SaveSettings, BuildCache
  <1>6. CASE StartUpdate \/ WriteImage
    <2>1. image'[running] = image[running]
      BY <1>6, ImageStepsKeepFlash
    <2> QED BY <1>6, <2>1 DEF StartUpdate, WriteImage
  <1>7. CASE Fails \/ ForgetSettings \/ EraseEntry \/ WriteEntry
             \/ ClearAfterFlash
    BY <1>7 DEF Fails, ForgetSettings, RemoveSettings, EraseEntry, WriteEntry,
         ClearAfterFlash, ClearCaches
  <1>8. CASE FlashOverUsb
    BY <1>8 DEF FlashOverUsb
  <1>9. CASE UNCHANGED vars
    BY <1>9 DEF vars
  <1> QED BY <1>1, <1>2, <1>3, <1>4, <1>5, <1>6, <1>7, <1>8, <1>9
          DEF Next, Setup, Update

LEMMA NextIInv == IInv /\ [Next]_vars => IInv'
  BY TypeKept, FlashKept, SettingsKept, CachesKept DEF IInv, FlashInv

LEMMA InvariantIInv == Spec => []IInv
  BY InitIInv, NextIInv, PTL DEF Spec

-----------------------------------------------------------------------------
(* What follows from it. *)

LEMMA SelectedBoots == IInv => AlwaysBoots
  <1> SUFFICES ASSUME IInv, ~missed PROVE AlwaysBoots
    BY DEF AlwaysBoots
  <1> DEFINE left == Aborting(otadata)
  <1>0. otadata \in Entries /\ NoTies(otadata) /\ left \in Entries
    BY EntriesOf, AbortingFields DEF IInv
  <1>1. NextBoot(otadata) = Selected(left)
    BY DEF NextBoot, Selected
  <1>2. /\ Selectable(left) = {i \in Slots : otadata[i].state \in {"new", "valid"}}
        /\ \A i \in Slots : left[i].seq = otadata[i].seq
        /\ Selectable(left) \subseteq Selectable(otadata)
    BY <1>0, AbortingFields DEF Selectable
  <1>3. NoTies(left)
    BY <1>0, <1>2, FewerEntries DEF Selectable
  <1>4. CASE \A i \in Slots : otadata[i].state # "pending"
    <2>1. Selectable(left) = Selectable(otadata)
      BY <1>2, <1>4 DEF Selectable
    <2>2. Selected(left) = Selected(otadata)
      BY <1>0, <1>2, <2>1, SameSelection DEF Selectable
    <2> QED BY <1>1, <2>2 DEF AlwaysBoots, IInv, ImageInv
  <1>5. CASE \E p \in Slots : otadata[p].state = "pending"
    <2>1. \A i \in Slots : otadata[i].state # "new"
      BY <1>5, OneUnconfirmed DEF IInv, Unconfirmable
    <2>2. Selectable(left) = Selectable(GivenUp(otadata))
      BY <1>0, <1>2, <2>1, GivenUpFields
    <2>3. \A i \in Slots : GivenUp(otadata)[i].seq = left[i].seq
      BY <1>0, <1>2, GivenUpFields
    <2>4. Selected(GivenUp(otadata)) = Selected(left)
      BY <1>0, <1>3, <2>2, <2>3, GivenUpFields, SameSelection DEF Selectable
    <2> QED BY <1>1, <2>4 DEF AlwaysBoots, IInv, ImageInv
  <1> QED BY <1>4, <1>5

LEMMA OwnDataFollows == IInv => OwnDataOnly
  BY DEF IInv, OwnDataOnly, SettingsInv, CachesInv, RunningInv, Switched, Build

\* The variables of an update keep their types.
THEOREM TypeCorrect == Spec => []TypeOK
  BY InvariantIInv, PTL DEF IInv

\* Wherever the power is lost during an update, a rollback or a first boot, the
\* bootloader finds a complete image, unless a firmware that did not know it
\* was unconfirmed overwrote the one to fall back on.
THEOREM DeviceAlwaysBoots == Spec => []AlwaysBoots
  BY InvariantIInv, SelectedBoots, PTL

\* The application never meets the settings or caches of another build, but for
\* those the code could not remove or a user put there.
THEOREM ApplicationMeetsOwnData == Spec => []OwnDataOnly
  BY InvariantIInv, OwnDataFollows, PTL

=============================================================================
