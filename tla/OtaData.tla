------------------------------ MODULE OtaData ------------------------------
(***************************************************************************)
(* The boot selection kept in the "otadata" partition: how the application *)
(* rewrites it (components/app_update/esp_ota_ops.c) and how the           *)
(* bootloader reads it (components/bootloader_support).                    *)
(*                                                                         *)
(* The partition is two flash sectors.  A sector is abstracted to the      *)
(* sequence number it holds, Erased (all 0xFF), or Torn: an interrupted    *)
(* erase or program, whose CRC does not match.  Power may fail between and *)
(* during flash operations.                                                *)
(***************************************************************************)
EXTENDS Integers

CONSTANTS
    ota_app_count,  \* OTA app partitions of the partition table, ota_0 upwards
    HasFactory,     \* the table has a factory app partition
    HasTest,        \* the table has a test app partition
    MaxSeq          \* bound: largest sequence number ever written

ASSUME CountAssumption == ota_app_count \in Nat \ {0}
ASSUME FactoryAssumption == HasFactory \in BOOLEAN /\ HasTest \in BOOLEAN
ASSUME SeqAssumption == MaxSeq \in Nat

VARIABLES
    otadata,    \* flash: the two sectors
    step,       \* where the running otadata operation stands
    wseq,       \* sequence number being written
    wsec,       \* sector being erased or programmed
    oldBoot,    \* ghost: partition configured when the operation began
    newBoot     \* ghost: partition the operation is to configure

dataVars == <<otadata, step, wseq, wsec, oldBoot, newBoot>>

Erased == 0
Torn == -1
FACTORY_INDEX == -1
TEST_APP_INDEX == -2

Slots == 0 .. (ota_app_count - 1)
Sectors == {0, 1}
Steps == {"idle", "erase", "program", "format"}

Larger(x, y) == IF x > y THEN x ELSE y

----------------------------------------------------------------------------
(* Reading the selection. *)

ota_select_valid(s) == s # Erased /\ s # Torn

SlotOf(seq) == (seq - 1) % ota_app_count

\* The sequence number that counts, given that one sector is valid.
CurrentSeq(d) ==
    IF ota_select_valid(d[0]) /\ ota_select_valid(d[1]) THEN Larger(d[0], d[1])
    ELSE IF ota_select_valid(d[0]) THEN d[0] ELSE d[1]

SomeValid(d) == ota_select_valid(d[0]) \/ ota_select_valid(d[1])

\* Mutant: the first valid sector wins.
SelectsFirstValid(d) ==
    IF ota_select_valid(d[0]) THEN SlotOf(d[0])
    ELSE IF ota_select_valid(d[1]) THEN SlotOf(d[1]) ELSE FACTORY_INDEX

\* The bootloader's choice of where to start looking for an image.
bootloader_utility_get_selected_boot_partition(d) ==
    IF d[0] = Erased /\ d[1] = Erased
    THEN IF HasFactory THEN FACTORY_INDEX ELSE 0
    ELSE IF SomeValid(d) THEN SlotOf(CurrentSeq(d)) ELSE FACTORY_INDEX

\* The application's view: factory, else ota_0 (ota_app_count > 0).
find_default_boot_partition == IF HasFactory THEN FACTORY_INDEX ELSE 0

esp_ota_get_boot_partition(d) ==
    IF d[0] = Erased /\ d[1] = Erased THEN find_default_boot_partition
    ELSE IF SomeValid(d) THEN SlotOf(CurrentSeq(d)) ELSE find_default_boot_partition

Configured == esp_ota_get_boot_partition(otadata)

----------------------------------------------------------------------------
(* Rewriting it. *)

\* SUB_TYPE_ID: the low four bits of the subtype.  ota_k is 0x10 + k, the test
\* app partition is 0x20.
SUB_TYPE_ID(p) == IF p = TEST_APP_INDEX THEN 0 ELSE p

\* Mutant: the quotient rounded down.
NextSeqBelow(id, seq) ==
    ((id + 1) % ota_app_count) + ota_app_count * (seq \div ota_app_count)

\* The while loop counts i up from 0 to the first base + i * ota_app_count that
\* is not below seq: the quotient rounded up.
NextSeq(id, seq) ==
    LET base == (id + 1) % ota_app_count
        i    == IF seq <= base THEN 0
                ELSE ((seq - base) + (ota_app_count - 1)) \div ota_app_count
    IN  base + i * ota_app_count

\* Mutant: the sector in use is overwritten.
TargetSectorNewest(d) ==
    IF ota_select_valid(d[0]) /\ ota_select_valid(d[1])
    THEN IF d[0] >= d[1] THEN 0 ELSE 1
    ELSE IF ota_select_valid(d[0]) THEN 1 ELSE 0

\* The sector esp_rewrite_ota_data overwrites: the older one, or the bad one.
TargetSector(d) ==
    IF ota_select_valid(d[0]) /\ ota_select_valid(d[1])
    THEN IF d[0] >= d[1] THEN 1 ELSE 0
    ELSE IF ota_select_valid(d[0]) THEN 1 ELSE 0

TargetSeq(d, id) ==
    IF SomeValid(d) THEN NextSeq(id, CurrentSeq(d)) ELSE id + 1

\* esp_rewrite_ota_data up to the flash erase of rewrite_ota_seq.
esp_rewrite_ota_data(p) ==
    /\ step = "idle"
    /\ SUB_TYPE_ID(p) < ota_app_count
    /\ TargetSeq(otadata, SUB_TYPE_ID(p)) <= MaxSeq
    /\ step' = "erase"
    /\ wseq' = TargetSeq(otadata, SUB_TYPE_ID(p))
    /\ wsec' = TargetSector(otadata)
    /\ oldBoot' = Configured
    /\ newBoot' = p
    /\ UNCHANGED otadata

RewriteErase ==
    /\ step = "erase"
    /\ otadata' = [otadata EXCEPT ![wsec] = Erased]
    /\ step' = "program"
    /\ UNCHANGED <<wseq, wsec, oldBoot, newBoot>>

RewriteProgram ==
    /\ step = "program"
    /\ otadata' = [otadata EXCEPT ![wsec] = wseq]
    /\ step' = "idle"
    /\ UNCHANGED <<wseq, wsec, oldBoot, newBoot>>

\* Configuring the factory app, or the factory reset pin: erase the whole
\* partition, sector 0 first.
FormatStart ==
    /\ step = "idle"
    /\ step' = "format"
    /\ wsec' = 0
    /\ oldBoot' = Configured
    /\ newBoot' = find_default_boot_partition
    /\ UNCHANGED <<otadata, wseq>>

FormatSector ==
    /\ step = "format"
    /\ otadata' = [otadata EXCEPT ![wsec] = Erased]
    /\ IF wsec = 1 THEN step' = "idle" /\ UNCHANGED wsec
                   ELSE wsec' = wsec + 1 /\ UNCHANGED step
    /\ UNCHANGED <<wseq, oldBoot, newBoot>>

\* Power fails or the chip is reset.  A sector being erased keeps its contents
\* or is torn, one being programmed is still erased or is torn.
Leftovers ==
    IF step \in {"erase", "format"} THEN {otadata[wsec], Torn}
    ELSE IF step = "program" THEN {Erased, Torn}
    ELSE {otadata[wsec]}

PowerFail ==
    /\ \E x \in Leftovers : otadata' = [otadata EXCEPT ![wsec] = x]
    /\ step' = "idle"
    /\ UNCHANGED <<wseq, wsec, oldBoot, newBoot>>

DataInit ==
    /\ otadata = [k \in Sectors |-> Erased]
    /\ step = "idle"
    /\ wseq = 0
    /\ wsec = 0
    /\ oldBoot = find_default_boot_partition
    /\ newBoot = find_default_boot_partition

DataNext ==
    \/ \E p \in Slots : esp_rewrite_ota_data(p)
    \/ RewriteErase
    \/ RewriteProgram
    \/ HasFactory /\ FormatStart
    \/ FormatSector
    \/ PowerFail

DataSpec == DataInit /\ [][DataNext]_dataVars

----------------------------------------------------------------------------
(* Properties. *)

\* Sectors hold a sequence number up to MaxSeq, or are erased or torn.
TypeOK ==
    /\ otadata \in [Sectors -> Torn .. MaxSeq]
    /\ step \in Steps
    /\ wseq \in 0 .. MaxSeq
    /\ wsec \in Sectors
    /\ oldBoot \in Slots \cup {FACTORY_INDEX}
    /\ newBoot \in Slots \cup {FACTORY_INDEX}

\* Until the last program operation of esp_rewrite_ota_data completes, a reset
\* at any point boots the partition configured before the call.
OldBootKept ==
    step \in {"erase", "program"} => Configured = oldBoot

\* A completed rewrite configures the partition asked for, and the configured
\* partition changes at no other step, except while otadata is being formatted.
SwitchStep ==
    /\ RewriteProgram => esp_ota_get_boot_partition(otadata') = newBoot
    /\ esp_ota_get_boot_partition(otadata') # esp_ota_get_boot_partition(otadata)
          => RewriteProgram \/ step = "format"
SwitchesAtomically == [][SwitchStep]_dataVars

\* The sequence number that counts never goes back, except by formatting: an
\* older otadata entry cannot come back into force.
SeqStep ==
    step # "format" /\ SomeValid(otadata)
        => SomeValid(otadata') /\ CurrentSeq(otadata') >= CurrentSeq(otadata)
SeqMonotone == [][SeqStep]_dataVars

\* Application and bootloader, which decode otadata separately, agree on the
\* partition tried first: the bootloader skips a missing factory partition and
\* goes on with ota_0.
BootViewsAgree ==
    LET b == bootloader_utility_get_selected_boot_partition(otadata)
    IN  Configured = IF b = FACTORY_INDEX /\ ~HasFactory THEN 0 ELSE b
=============================================================================
