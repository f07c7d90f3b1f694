--------------------------- MODULE FirmwareUpdate ---------------------------
(***************************************************************************)
(* Firmware updates: flashFromSdPath() and OtaUpdater::installUpdate(),    *)
(* which write the other app partition, ota_boot::switchTo(), which        *)
(* selects it in the two otadata sectors, and the part of setup() that     *)
(* clears what an older firmware left on the SD card and then confirms the *)
(* new one.  Power may be lost between any two steps; every flash or SD    *)
(* call may fail.  The bootloader, with rollback enabled, is external.     *)
(*                                                                         *)
(* An image is the build it holds, or Torn while it is being written.      *)
(***************************************************************************)
EXTENDS Naturals, FiniteSets

CONSTANTS
    Builds,      \* firmware builds
    Torn,        \* an incomplete image
    None,        \* no file, no marker
    MaxSeq       \* bound: sequence numbers an update may write

ASSUME BuildsAssumption == Torn \notin Builds /\ None \notin Builds
ASSUME MaxSeqAssumption == MaxSeq \in Nat \ {0}

VARIABLES
    otadata,     \* the two select entries
    image,       \* the two app partitions
    running,     \* the partition the code runs from
    settings,    \* whose settings.json is on the card
    caches,      \* the builds whose book caches are on the card
    marker,      \* cacheBuildId in NVS
    fresh,       \* freshFirmwareInstall
    via,         \* the update under way: "sd" or "ota"
    pc,
    kept,        \* history: caches may be foreign: a removal or marker call
                 \* failed, or the card was changed
    wired,       \* history: the settings may be foreign: older than a USB
                 \* flash, from another card, met or written unconfirmed
    missed       \* history: the boot did not see that its firmware is pending

flashVars == <<otadata, image>>
cardVars == <<settings, caches, kept, wired>>
vars == <<flashVars, running, cardVars, marker, fresh, via, pc, missed>>

Slots == {0, 1}
Partitions == {0, 1}
Erased == [seq |-> 0, state |-> "erased"]
EntryOf(seq, state) == [seq |-> seq, state |-> state]

\* The partition a sequence number selects.
PartitionOf(seq) == (seq - 1) % 2

Build == image[running]

Goes(from, to) == pc = from /\ pc' = to

-----------------------------------------------------------------------------
(* The bootloader. *)

Selectable(entries) ==
    {i \in Slots : entries[i].state \in {"new", "pending", "valid"}}

\* A firmware still pending at the next boot was not confirmed.
Aborting(entries) ==
    [i \in Slots |-> IF entries[i].state = "pending"
                     THEN [entries[i] EXCEPT !.state = "aborted"]
                     ELSE entries[i]]

Newest(entries) ==
    CHOOSE i \in Selectable(entries) :
        \A j \in Selectable(entries) : entries[j].seq <= entries[i].seq

\* The partition that runs after a reset in this state; without an entry it
\* is the first.
NextBoot(entries) ==
    LET left == Aborting(entries)
    IN IF Selectable(left) = {} THEN 0 ELSE PartitionOf(left[Newest(left)].seq)

\* A torn image does not boot; what the bootloader then tries is not followed.
\* verifyRollbackLater() learns of a pending firmware unless the call that
\* reads its state fails.
Boot ==
    LET left == Aborting(otadata)
    IN /\ Goes("reset", "setup") /\ image[NextBoot(otadata)] # Torn
       /\ running' = NextBoot(otadata)
       /\ otadata' = [i \in Slots |->
              IF Selectable(left) # {} /\ i = Newest(left)
                 /\ left[i].state = "new"
              THEN [left[i] EXCEPT !.state = "pending"] ELSE left[i]]
       /\ LET pending == \E i \in Slots : otadata'[i].state = "pending"
          IN fresh' \in {pending, FALSE} /\ missed' = (pending # fresh')
       /\ wired' = (wired \/ missed')
       /\ UNCHANGED <<image, settings, caches, kept, marker, via>>

\* Power is lost, or the code restarts the device.
Reset ==
    /\ pc # "reset" /\ pc' = "reset"
    /\ UNCHANGED <<flashVars, running, cardVars, marker, fresh, via, missed>>

-----------------------------------------------------------------------------
(* setup(). *)

SetupOnly == UNCHANGED <<flashVars, running, marker, fresh, via, missed>>

CardFails == Goes("setup", "halted") /\ SetupOnly /\ UNCHANGED cardVars

\* invalidateBookCachesForFirmwareBuild()
MarkerMatches ==
    /\ Goes("setup", "fresh") /\ marker = Build
    /\ SetupOnly /\ UNCHANGED cardVars
MarkerUnreadable ==
    /\ Goes("setup", "fresh")
    /\ kept' = (kept \/ marker # Build)
    /\ SetupOnly /\ UNCHANGED <<settings, caches, wired>>
MarkedFirst == \* mutant: the marker is stored before the caches are cleared
    /\ Goes("setup", "clear") /\ marker # Build
    /\ marker' = Build
    /\ UNCHANGED <<flashVars, running, cardVars, fresh, via, missed>>
MarkerDiffers ==
    /\ Goes("setup", "clear") /\ marker # Build
    /\ SetupOnly /\ UNCHANGED cardVars

\* clearAllBookCaches(): removals that fail are only logged.
ClearCaches == caches' \in SUBSET caches

InvalidateCaches ==
    /\ Goes("clear", "mark")
    /\ ClearCaches /\ kept' = (caches' # {})
    /\ SetupOnly /\ UNCHANGED <<settings, wired>>

StoreMarker ==
    /\ Goes("mark", "fresh")
    /\ marker' \in {Build, marker}
    /\ kept' = (kept \/ marker' # Build)
    /\ UNCHANGED <<flashVars, running, settings, caches, wired, fresh, via, missed>>

NotFresh == Goes("fresh", "app") /\ ~fresh /\ SetupOnly /\ UNCHANGED cardVars

RemoveSettings(from, to) ==
    /\ Goes(from, to)
    /\ settings' = None /\ wired' = FALSE
    /\ SetupOnly /\ UNCHANGED <<caches, kept>>

ResetSettings == fresh /\ RemoveSettings("fresh", "freshCaches")

\* esp_ota_mark_app_invalid_rollback_and_reboot(), which returns when there
\* is nothing to go back to.
RollBack ==
    /\ fresh /\ settings # None
    /\ pc = "fresh" /\ pc' \in {"reset", "halted"}
    /\ otadata' = IF pc' = "halted" THEN otadata
                  ELSE [i \in Slots |->
                           IF otadata[i].state = "pending"
                           THEN [otadata[i] EXCEPT !.state = "invalid"]
                           ELSE otadata[i]]
    /\ UNCHANGED <<image, running, cardVars, marker, fresh, via, missed>>

FreshCaches ==
    /\ Goes("freshCaches", "confirm")
    /\ ClearCaches
    /\ SetupOnly /\ UNCHANGED <<settings, kept, wired>>

\* esp_ota_mark_app_valid_cancel_rollback()
Confirm ==
    /\ Goes("confirm", "app")
    /\ otadata' = [i \in Slots |-> IF otadata[i].state = "pending"
                                   THEN [otadata[i] EXCEPT !.state = "valid"]
                                   ELSE otadata[i]]
    /\ fresh' = FALSE
    /\ UNCHANGED <<image, running, cardVars, marker, via, missed>>
ConfirmFails ==
    /\ Goes("confirm", "halted") /\ SetupOnly /\ UNCHANGED cardVars

-----------------------------------------------------------------------------
(* The running application. *)

SaveSettings ==
    /\ pc = "app" /\ settings' = Build /\ wired' = missed
    /\ SetupOnly /\ UNCHANGED <<caches, kept, pc>>
BuildCache ==
    /\ pc = "app" /\ caches' = caches \cup {Build}
    /\ SetupOnly /\ UNCHANGED <<settings, kept, wired, pc>>

\* esp_ota_get_next_update_partition()
Dest == 1 - running

StartUpdate ==
    /\ Goes("app", "write")
    /\ via' \in {"sd", "ota"}
    /\ image' = [image EXCEPT ![Dest] = Torn]
    /\ UNCHANGED <<otadata, running, cardVars, marker, fresh, missed>>

WriteImage ==
    /\ Goes("write", "settings")
    /\ \E build \in Builds : image' = [image EXCEPT ![Dest] = build]
    /\ UNCHANGED <<otadata, running, cardVars, marker, fresh, via, missed>>

\* Every error returns to the activity with the boot partition unchanged.
Fails ==
    /\ pc \in {"write", "settings", "switch", "select"} /\ pc' = "app"
    /\ SetupOnly /\ UNCHANGED cardVars

ForgetSettings == RemoveSettings("settings", "switch")

\* ota_boot::switchTo(): the entry that is not active is erased, then written
\* with the next sequence number that selects dest.  esp_ota_set_boot_partition()
\* does the same for installUpdate().
Active ==
    IF Selectable(otadata) = {} THEN 2 ELSE Newest(otadata)
ActiveSlot == IF Active = 1 THEN 1 ELSE 0 \* mutant: the active one is erased
TargetSlot == IF Active = 0 THEN 1 ELSE 0
ActiveSeq == IF Active = 2 THEN 0 ELSE otadata[Active].seq
NewSeq == IF PartitionOf(ActiveSeq + 1) = Dest THEN ActiveSeq + 1
                                               ELSE ActiveSeq + 2

EraseEntry ==
    /\ Goes("switch", "select") /\ NewSeq <= MaxSeq
    /\ otadata' = [otadata EXCEPT ![TargetSlot] = Erased]
    /\ UNCHANGED <<image, running, cardVars, marker, fresh, via, missed>>

Undefined == "undefined" \* mutant: the state is left 0xFFFFFFFF
Unconfirmed == "new"

WriteEntry ==
    /\ Goes("select", IF via = "sd" THEN "clearAfter" ELSE "restart")
    /\ otadata' = [otadata EXCEPT ![TargetSlot] = EntryOf(NewSeq, Unconfirmed)]
    /\ UNCHANGED <<image, running, cardVars, marker, fresh, via, missed>>

ClearAfterFlash ==
    /\ Goes("clearAfter", "restart")
    /\ ClearCaches
    /\ SetupOnly /\ UNCHANGED <<settings, kept, wired>>

\* A build flashed over USB: otadata is erased and the SD card left alone.
FlashOverUsb ==
    /\ pc' = "reset"
    /\ \E build \in Builds : image' = [image EXCEPT ![0] = build]
    /\ otadata' = [i \in Slots |-> Erased]
    /\ wired' = TRUE /\ missed' = FALSE
    /\ UNCHANGED <<running, settings, caches, kept, marker, fresh, via>>

\* While the device is off the card is changed for one another build wrote.
SwapCard ==
    /\ pc = "reset"
    /\ settings' \in Builds \cup {None} /\ caches' \in SUBSET Builds
    /\ kept' = TRUE /\ wired' = TRUE
    /\ SetupOnly /\ UNCHANGED pc

-----------------------------------------------------------------------------

Init ==
    /\ otadata \in {[i \in Slots |-> Erased],
                    [i \in Slots |-> IF i = 0 THEN EntryOf(1, "valid")
                                              ELSE Erased]}
    /\ \E build \in Builds : image = [p \in Partitions |->
                                         IF p = 0 THEN build ELSE Torn]
    /\ running = 0
    /\ settings = None /\ caches = {} /\ marker = None
    /\ fresh = FALSE /\ via = "sd" /\ pc = "reset"
    /\ kept = FALSE /\ wired = FALSE /\ missed = FALSE

Setup == \/ CardFails \/ MarkerMatches \/ MarkerUnreadable \/ MarkerDiffers
         \/ InvalidateCaches \/ StoreMarker \/ NotFresh \/ ResetSettings
         \/ RollBack \/ FreshCaches \/ Confirm \/ ConfirmFails

Update == \/ StartUpdate \/ WriteImage \/ Fails \/ ForgetSettings
          \/ EraseEntry \/ WriteEntry \/ ClearAfterFlash

Next == Boot \/ Reset \/ Setup \/ SaveSettings \/ BuildCache \/ Update
        \/ FlashOverUsb \/ SwapCard

Spec == Init /\ [][Next]_vars

-----------------------------------------------------------------------------
(* Properties. *)

EntryType == [seq : 0..MaxSeq,
              state : {"erased", "new", "pending", "valid", "invalid",
                       "aborted"}]

TypeOK ==
    /\ otadata \in [Slots -> EntryType]
    /\ image \in [Partitions -> Builds \cup {Torn}]
    /\ running \in Partitions
    /\ settings \in Builds \cup {None} /\ caches \subseteq Builds
    /\ marker \in Builds \cup {None}
    /\ fresh \in BOOLEAN /\ via \in {"sd", "ota"} /\ kept \in BOOLEAN
    /\ wired \in BOOLEAN /\ missed \in BOOLEAN
    /\ pc \in {"reset", "setup", "clear", "mark", "fresh", "freshCaches",
               "confirm", "app", "halted", "write", "settings", "switch",
               "select", "clearAfter", "restart"}

\* Wherever the power is lost the bootloader finds a complete image: the
\* partition under an update, the sector being rewritten and an unconfirmed
\* firmware always leave another whole one selected.  Only a firmware that
\* does not know it is unconfirmed may overwrite the one to fall back on.
AlwaysBoots == image[NextBoot(otadata)] = Torn => missed

\* The application of a build that came by an update never meets the settings
\* or book caches of another build, whatever was interrupted, repeated or
\* rolled back.  Only a failed removal or marker call or another card leaves
\* caches behind; only a USB flash, another card or a firmware that does not
\* know it is unconfirmed leaves settings.
OwnDataOnly ==
    pc = "app" => /\ wired \/ settings \in {Build, None}
                  /\ kept \/ caches \subseteq {Build}

=============================================================================
