----------------------------- MODULE MCOtaSlots -----------------------------
(* Three devices with two OTA slots, chosen by `setup': "factory", the cfg's,  *)
(* with a factory app and the factory reset pin; "plain" with neither, an      *)
(* unflashed test partition and two handles at a time; "copy" with the         *)
(* boot-time copy of ota_1 to ota_0.  The latter two have variables of their   *)
(* own.  Partitions have two sectors; image 1, one sector long, is in the      *)
(* first partition; image 2 takes two.                                         *)
EXTENDS OtaUpdate

VARIABLES
    setup,
    otadata2, step2, wseq2, wsec2, oldBoot2, newBoot2, flash2, running2,
    entries2, last_handle2, work2, confirmed2, faults2

MCImageSectors == <<1, 2>>
FirstOnly(parts, first) == [p \in parts |-> IF p = first THEN 1 ELSE 0]
MCInitialParts == FirstOnly(Parts, find_default_boot_partition)

Plain == INSTANCE OtaUpdate WITH
    HasFactory <- FALSE, HasTest <- TRUE, MaxSeq <- 4, FactoryResetPin <- FALSE,
    InitialParts <- FirstOnly({TEST_APP_INDEX, 0, 1}, 0), MaxHandles <- 2,
    otadata <- otadata2, step <- step2, wseq <- wseq2, wsec <- wsec2,
    oldBoot <- oldBoot2, newBoot <- newBoot2, flash <- flash2, running <- running2,
    entries <- entries2, s_ota_ops_last_handle <- last_handle2, work <- work2,
    confirmed <- confirmed2, faults <- faults2

Copy == INSTANCE OtaUpdate WITH
    HasFactory <- FALSE, MaxSeq <- 4, FactoryResetPin <- FALSE,
    BootCopyApp <- TRUE, RestartsAfterSet <- TRUE,
    InitialParts <- FirstOnly({0, 1}, 0), MaxFaults <- 3,
    otadata <- otadata2, step <- step2, wseq <- wseq2, wsec <- wsec2,
    oldBoot <- oldBoot2, newBoot <- newBoot2, flash <- flash2, running <- running2,
    entries <- entries2, s_ota_ops_last_handle <- last_handle2, work <- work2,
    confirmed <- confirmed2, faults <- faults2

vars2 == <<otadata2, step2, wseq2, wsec2, oldBoot2, newBoot2, flash2, running2,
           entries2, last_handle2, work2, confirmed2, faults2>>

SlotsInit == /\ SysInit
             /\ \/ setup = "factory" /\ Copy!SysInit
                \/ setup = "plain" /\ Plain!SysInit
                \/ setup = "copy" /\ Copy!SysInit
SlotsNext == \/ setup = "factory" /\ SysNext /\ UNCHANGED <<setup, vars2>>
             \/ setup = "plain" /\ Plain!SysNext /\ UNCHANGED <<setup, otaVars>>
             \/ setup = "copy" /\ Copy!SysNext /\ UNCHANGED <<setup, otaVars>>
SlotsSpec == SlotsInit /\ [][SlotsNext]_<<setup, otaVars, vars2>>

----------------------------------------------------------------------------
(* The properties of OtaUpdate on each device; those of OtaData are checked  *)
(* on the "factory" device.                                                  *)

InSetup(factory, plain, copy) ==
    CASE setup = "factory" -> factory [] setup = "plain" -> plain [] setup = "copy" -> copy

\* Whenever the power fails, during an update, a change of boot partition or a
\* boot-time copy, the bootloader finds an image that boots.
AlwaysBootable == InSetup(SurvivesReset, Plain!SurvivesReset, Copy!SurvivesReset)

\* Updating never touches the partition that is executing.
ExecutingIntact == InSetup(RunningIntact, Plain!RunningIntact, Copy!RunningIntact)

\* What esp_ota_set_boot_partition returned ESP_OK for is what a restart boots.
ConfirmationsHold == InSetup(ConfirmedBoots, Plain!ConfirmedBoots, Copy!ConfirmedBoots)
=============================================================================
