----------------------------- MODULE OtaUpdate -----------------------------
(***************************************************************************)
(* Firmware update and boot: the OTA handles of                            *)
(* components/app_update/esp_ota_ops.c, the contents of the app            *)
(* partitions, and the bootloader's search for a bootable image, composed  *)
(* with the otadata protocol of module OtaData.  The chip may be reset     *)
(* between any two flash operations.                                       *)
(*                                                                         *)
(* A partition is a function from its sectors to what they hold: Blank,    *)
(* Junk, or a sector of a firmware image, named by the image's number (a   *)
(* sector of an image is only ever written at its own offset, because      *)
(* esp_ota_write writes sequentially).  esp_ota_write is called with whole *)
(* sectors.  An image is bootable when all its sectors are in place, which *)
(* is what esp_image_load establishes by header, segment and checksum      *)
(* verification.                                                           *)
(***************************************************************************)
EXTENDS OtaData, FiniteSets

CONSTANTS
    PartSectors,    \* sectors of every app partition
    SecSize,        \* SPI_FLASH_SEC_SIZE, in bytes
    ImageSectors,   \* image number -> sectors it takes
    InitialParts,   \* partition -> image flashed at the factory, 0 for none
    BootCopyApp,    \* CONFIG_ESP8266_BOOT_COPY_APP
    FactoryResetPin,\* CONFIG_BOOTLOADER_FACTORY_RESET (IDF_TARGET_ESP32) with OTA_DATA_ERASE
    RestartsAfterSet, \* the application restarts once set_boot returned ESP_OK
    MaxHandles,     \* bound: handles issued between two faults
    MaxFaults       \* bound: resets the application did not ask for, and other faults

Images == DOMAIN ImageSectors
Parts == Slots \cup (IF HasFactory THEN {FACTORY_INDEX} ELSE {})
               \cup (IF HasTest THEN {TEST_APP_INDEX} ELSE {})

ASSUME PartAssumption ==
    /\ PartSectors \in Nat \ {0} /\ SecSize \in Nat \ {0}
    /\ \A v \in Images : v \in Nat \ {0} /\ ImageSectors[v] \in 1 .. PartSectors
    /\ DOMAIN InitialParts = Parts
    /\ \A p \in Parts : InitialParts[p] \in Images \cup {0}
ASSUME CopyAssumption ==    \* the partition tables the option is used with
    BootCopyApp => ota_app_count = 2 /\ ~HasFactory /\ ~HasTest

VARIABLES
    flash,                  \* app partitions
    running,                \* partition executing, or Booting, or Dead
    entries,                \* s_ota_ops_entries_head: open handles
    s_ota_ops_last_handle,
    work,                   \* sectors of work.part still to erase or to copy
    confirmed,              \* ghost: partition the last set_boot returned ESP_OK for
    faults                  \* faults so far

sysVars == <<flash, running, entries, s_ota_ops_last_handle, work, confirmed, faults>>
otaVars == <<dataVars, sysVars>>

Blank == 0
Junk == -1
Booting == -50
Dead == -99
None == -98
NoWork == [op |-> "none", part |-> 0, at |-> 0, last |-> 0]
PartCells == 1 .. PartSectors

----------------------------------------------------------------------------
(* Images. *)

Holds(cells, v) == \A i \in 1 .. ImageSectors[v] : cells[i] = v
Bootable(cells) == \E v \in Images : Holds(cells, v)
ImageIn(cells) == CHOOSE v \in Images : Holds(cells, v)

\* Flash programming only clears bits.
Program(old, new) == IF old = Blank \/ old = new THEN new ELSE Junk

\* bootloader_utility_load_boot_image: from start down to the factory app, then
\* the OTA slots above start, then the test app.
SearchDown(start) == {p \in Parts : p \in FACTORY_INDEX .. start /\ Bootable(flash[p])}
SearchUp(start) == {p \in Slots : p > start /\ Bootable(flash[p])}

\* Mutant: only the slots from start downwards are tried.
LoadSearchingDownOnly(start) ==
    IF SearchDown(start) # {} THEN CHOOSE p \in SearchDown(start) : \A q \in SearchDown(start) : q <= p
    ELSE Dead

bootloader_utility_load_boot_image(start) ==
    IF start = TEST_APP_INDEX
    THEN IF Bootable(flash[start]) THEN start ELSE Dead
    ELSE IF SearchDown(start) # {}
    THEN CHOOSE p \in SearchDown(start) : \A q \in SearchDown(start) : q <= p
    ELSE IF SearchUp(start) # {}
    THEN CHOOSE p \in SearchUp(start) : \A q \in SearchUp(start) : p <= q
    ELSE IF HasTest /\ Bootable(flash[TEST_APP_INDEX]) THEN TEST_APP_INDEX
    ELSE Dead

----------------------------------------------------------------------------
(* The application's calls.  They do not overlap: the list of handles and  *)
(* s_ota_select have no lock.                                              *)

AppIdle ==
    /\ running \in Parts
    /\ step = "idle" /\ work = NoWork
    /\ RestartsAfterSet => confirmed \in {None, running}

\* Mutant: no special case for an unknown size.
EraseUnknownAsZero(image_size) == image_size \div SecSize + 1

\* Sectors esp_ota_begin erases; 0 stands for OTA_SIZE_UNKNOWN too.
EraseSectors(image_size) ==
    IF image_size = 0 THEN PartSectors ELSE image_size \div SecSize + 1

\* Mutant: the running partition may be updated in place.
BeginAllowsRunning(p, image_size) ==
    IF p \notin Slots THEN "ESP_ERR_INVALID_ARG"
    ELSE IF EraseSectors(image_size) > PartSectors THEN "ESP_ERR_INVALID_SIZE"
    ELSE "ESP_OK"

BeginResult(p, image_size) ==
    IF p \notin Slots THEN "ESP_ERR_INVALID_ARG"
    ELSE IF p = running THEN "ESP_ERR_OTA_PARTITION_CONFLICT"
    ELSE IF EraseSectors(image_size) > PartSectors THEN "ESP_ERR_INVALID_SIZE"
    ELSE "ESP_OK"

esp_ota_begin(p, image_size) ==
    /\ AppIdle
    /\ BeginResult(p, image_size) = "ESP_OK"
    /\ s_ota_ops_last_handle < MaxHandles
    /\ work' = [op |-> "erase", part |-> p, at |-> 1, last |-> EraseSectors(image_size)]
    /\ UNCHANGED <<dataVars, flash, running, entries, s_ota_ops_last_handle, confirmed, faults>>

\* spi_flash_erase_range, one sector a step; the entry is made after the last.
BeginErase ==
    /\ running \in Parts /\ work.op = "erase"
    /\ flash' = [flash EXCEPT ![work.part][work.at] = Blank]
    /\ IF work.at < work.last
       THEN /\ work' = [work EXCEPT !.at = @ + 1]
            /\ UNCHANGED <<entries, s_ota_ops_last_handle>>
       ELSE /\ work' = NoWork
            /\ s_ota_ops_last_handle' = s_ota_ops_last_handle + 1
            /\ entries' = entries \cup
                 {[handle |-> s_ota_ops_last_handle', part |-> work.part, wrote_size |-> 0]}
    /\ UNCHANGED <<dataVars, running, confirmed, faults>>

\* data is one sector of some image, or anything else.  The magic byte of the
\* first sector is checked; Junk may carry it.
esp_ota_write(it, data) ==
    /\ AppIdle
    /\ it.wrote_size < PartSectors
    /\ flash' = [flash EXCEPT ![it.part][it.wrote_size + 1] = Program(@, data)]
    /\ entries' = (entries \ {it}) \cup {[it EXCEPT !.wrote_size = @ + 1]}
    /\ UNCHANGED <<dataVars, running, s_ota_ops_last_handle, work, confirmed, faults>>

EndResult(it) ==
    IF it.wrote_size = 0 THEN "ESP_ERR_INVALID_ARG"
    ELSE IF Bootable(flash[it.part]) THEN "ESP_OK" ELSE "ESP_ERR_OTA_VALIDATE_FAILED"

\* Mutant: the entry stays when the image does not verify.
EndKeepsBadEntry(it) ==
    /\ AppIdle
    /\ entries' = IF EndResult(it) = "ESP_OK" THEN entries \ {it} ELSE entries
    /\ UNCHANGED <<dataVars, flash, running, s_ota_ops_last_handle, work, confirmed, faults>>

\* The entry is freed whatever the result.
esp_ota_end(it) ==
    /\ AppIdle
    /\ entries' = entries \ {it}
    /\ UNCHANGED <<dataVars, flash, running, s_ota_ops_last_handle, work, confirmed, faults>>

esp_ota_set_boot_partition(p) ==
    /\ AppIdle
    /\ Bootable(flash[p])
    /\ IF p = FACTORY_INDEX THEN FormatStart ELSE esp_rewrite_ota_data(p)
    /\ confirmed' = None
    /\ UNCHANGED <<flash, running, entries, s_ota_ops_last_handle, work, faults>>

\* The flash operations of set_boot; the last one returns ESP_OK.
SetBootFlash ==
    /\ running \in Parts
    /\ RewriteErase \/ RewriteProgram \/ FormatSector
    /\ confirmed' = IF step' = "idle" THEN newBoot ELSE confirmed
    /\ UNCHANGED <<flash, running, entries, s_ota_ops_last_handle, work, faults>>

\* Round robin over the OTA slots; from a non-OTA partition, the first slot.
esp_ota_get_next_update_partition(from) ==
    IF from \in Slots /\ from + 1 \in Slots THEN from + 1 ELSE 0

----------------------------------------------------------------------------
(* Reset and boot. *)

\* RAM is lost.  A sector being erased, programmed or copied is left as it was
\* or torn.
TornCells ==
    {flash}
    \cup {[flash EXCEPT ![it.part][it.wrote_size + 1] = Junk] :
            it \in {e \in entries : AppIdle /\ e.wrote_size < PartSectors}}
    \cup {[flash EXCEPT ![work.part][work.at] = x] :
            x \in IF work.op \in {"erase", "copy"} THEN {Blank, Junk} ELSE {}}

LoseRam ==
    /\ running # Booting \/ step # "idle" \/ work # NoWork
    /\ running' = Booting
    /\ flash' \in TornCells
    /\ PowerFail
    /\ entries' = {}
    /\ s_ota_ops_last_handle' = 0
    /\ work' = NoWork
    /\ UNCHANGED confirmed

Reset == faults < MaxFaults /\ faults' = faults + 1 /\ LoseRam

BootIdle == running = Booting /\ step = "idle" /\ work = NoWork

Selected == bootloader_utility_get_selected_boot_partition(otadata)

\* select_image with no pin held.
Boot ==
    /\ BootIdle
    /\ ~(BootCopyApp /\ Selected = 1)
    /\ running' = bootloader_utility_load_boot_image(Selected)
    /\ UNCHANGED <<dataVars, flash, entries, s_ota_ops_last_handle, work, confirmed, faults>>

\* The factory reset pin: otadata is erased, then the selection is made again.
FactoryReset ==
    /\ BootIdle
    /\ FactoryResetPin
    /\ FormatStart
    /\ confirmed' = None
    /\ UNCHANGED <<flash, running, entries, s_ota_ops_last_handle, work, faults>>

BootFormat ==
    /\ running = Booting /\ step = "format"
    /\ FormatSector
    /\ UNCHANGED sysVars

\* The test app pin.
BootTestApp ==
    /\ BootIdle
    /\ HasTest
    /\ running' = bootloader_utility_load_boot_image(TEST_APP_INDEX)
    /\ UNCHANGED <<dataVars, flash, entries, s_ota_ops_last_handle, work, confirmed, faults>>

\* Mutant: otadata is erased before the copy.
CopyAfterErasingOtaData ==
    /\ BootIdle
    /\ BootCopyApp /\ Selected = 1
    /\ FormatStart
    /\ work' = [op |-> "copy", part |-> 0, at |-> 1, last |-> PartSectors]
    /\ UNCHANGED <<flash, running, entries, s_ota_ops_last_handle, confirmed, faults>>

\* esp_patition_copy_ota1_to_ota0: every sector is read, erased, programmed and
\* read back; then otadata is erased and ota_0 is booted.
CopyStart ==
    /\ BootIdle
    /\ BootCopyApp /\ Selected = 1
    /\ work' = [op |-> "copy", part |-> 0, at |-> 1, last |-> PartSectors]
    /\ UNCHANGED <<dataVars, flash, running, entries, s_ota_ops_last_handle, confirmed, faults>>

CopySector ==
    /\ work.op = "copy" /\ step = "idle"
    /\ flash' = [flash EXCEPT ![0][work.at] = flash[1][work.at]]
    /\ IF work.at < work.last
       THEN work' = [work EXCEPT !.at = @ + 1] /\ UNCHANGED <<dataVars, confirmed>>
       ELSE work' = [work EXCEPT !.op = "copied"] /\ FormatStart /\ confirmed' = 0
    /\ UNCHANGED <<running, entries, s_ota_ops_last_handle, faults>>

\* A failed program operation: spi_flash_write_data_safe logs it and returns 0, so
\* the copy goes on.
CopyWriteFails ==
    /\ work.op = "copy" /\ step = "idle"
    /\ faults < MaxFaults /\ faults' = faults + 1
    /\ flash' = [flash EXCEPT ![0][work.at] = Junk]
    /\ IF work.at < work.last
       THEN work' = [work EXCEPT !.at = @ + 1] /\ UNCHANGED <<dataVars, confirmed>>
       ELSE work' = [work EXCEPT !.op = "copied"] /\ FormatStart /\ confirmed' = 0
    /\ UNCHANGED <<running, entries, s_ota_ops_last_handle>>

CopyBoot ==
    /\ work.op = "copied" /\ step = "idle"
    /\ running' = bootloader_utility_load_boot_image(0)
    /\ work' = NoWork
    /\ confirmed' = None
    /\ UNCHANGED <<dataVars, flash, entries, s_ota_ops_last_handle, faults>>

----------------------------------------------------------------------------
SysInit ==
    /\ DataInit
    /\ flash = [p \in Parts |-> [i \in PartCells |->
                    IF InitialParts[p] # 0 /\ i <= ImageSectors[InitialParts[p]]
                    THEN InitialParts[p] ELSE Blank]]
    /\ running = Booting
    /\ entries = {}
    /\ s_ota_ops_last_handle = 0
    /\ work = NoWork
    /\ confirmed = None
    /\ faults = 0

BootNext ==
    \/ Boot \/ FactoryReset \/ BootFormat \/ BootTestApp
    \/ CopyStart \/ CopySector \/ CopyBoot

AppNext ==
    \/ \E p \in Parts, image_size \in 0 .. (PartSectors * SecSize) : esp_ota_begin(p, image_size)
    \/ BeginErase
    \/ \E it \in entries : \E data \in Images \cup {Junk} : esp_ota_write(it, data)
    \/ \E it \in entries : esp_ota_end(it)
    \/ \E p \in Parts : esp_ota_set_boot_partition(p)
    \/ SetBootFlash

SysNext == BootNext \/ AppNext \/ Reset \/ CopyWriteFails

SysSpec == SysInit /\ [][SysNext]_otaVars

----------------------------------------------------------------------------
(* Properties. *)

\* What a reset at this point would lead to: the partition whose image runs
\* (with the copy option, whose image is copied to ota_0 and runs there).
NextBoot ==
    IF BootCopyApp /\ Selected = 1
    THEN IF Bootable(flash[1]) THEN 1 ELSE Dead
    ELSE bootloader_utility_load_boot_image(Selected)

\* Whenever the power fails, during an update, a change of boot partition or a
\* boot-time copy, the bootloader finds an image that boots.
SurvivesReset == NextBoot # Dead

\* esp_ota_begin, esp_ota_write and esp_ota_end never touch the partition that
\* is executing: its code is read from flash while it runs.
RunningIntact == running \in Parts => Bootable(flash[running])

\* A restart now runs p's image: p itself, or its copy.
RestartRuns(p) ==
    \/ NextBoot = p
    \/ BootCopyApp /\ NextBoot # Dead /\ ImageIn(flash[NextBoot]) = ImageIn(flash[p])

\* Once esp_ota_set_boot_partition returned ESP_OK for an OTA or factory
\* partition, and while that partition still verifies, a restart boots it.
ConfirmedBoots ==
    confirmed \in Slots \cup {FACTORY_INDEX} /\ step = "idle" /\ Bootable(flash[confirmed])
        => RestartRuns(confirmed)

\* The same for every partition esp_ota_set_boot_partition accepts.
ConfirmedAlwaysBoots ==
    confirmed \in Parts /\ step = "idle" /\ Bootable(flash[confirmed])
        => RestartRuns(confirmed)
=============================================================================
