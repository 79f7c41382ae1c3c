------------------------------ MODULE HttpsOta ------------------------------
(***************************************************************************)
(* esp_https_ota (components/esp_https_ota/src/esp_https_ota.c) driving    *)
(* the OTA operations of module OtaUpdate, in an application that calls it *)
(* while it does not run the newest firmware and restarts when the call    *)
(* returns ESP_OK.  The connection may be cut, the buffer allocation may   *)
(* fail and the chip may be reset at any point, MaxFaults times in all.    *)
(***************************************************************************)
EXTENDS OtaUpdate

CONSTANT Latest     \* the image the server offers

ASSUME LatestAssumption == Latest \in Images

VARIABLE job    \* where the running call of esp_https_ota stands

httpsVars == <<otaVars, job>>

UpToDate == running \in Parts /\ Bootable(flash[running]) /\ ImageIn(flash[running]) = Latest

\* The handle of this call: the newest one.
update_handle == CHOOSE it \in entries : it.handle = s_ota_ops_last_handle

Fault == faults < MaxFaults /\ faults' = faults + 1

\* Connect, choose the partition and begin with OTA_SIZE_UNKNOWN.
StartUpdate ==
    /\ job = "idle" /\ running \in Parts /\ ~UpToDate
    /\ esp_ota_begin(esp_ota_get_next_update_partition(running), 0)
    /\ job' = "begin"

EraseForUpdate ==
    /\ job = "begin"
    /\ BeginErase
    /\ UNCHANGED job

\* esp_ota_begin has returned; the read buffer is allocated.
AllocBuffer ==
    /\ job = "begin" /\ work = NoWork
    /\ job' = "read"
    /\ UNCHANGED otaVars

\* The early return for want of memory leaves the handle open.
AllocFails ==
    /\ job = "begin" /\ work = NoWork
    /\ Fault
    /\ job' = "idle"
    /\ UNCHANGED <<dataVars, flash, running, entries, s_ota_ops_last_handle, work,
                   confirmed>>

ReadAndWrite ==
    /\ job = "read"
    /\ update_handle.wrote_size < ImageSectors[Latest]
    /\ esp_ota_write(update_handle, Latest)
    /\ UNCHANGED job

\* data_read = 0: the server has sent everything.
AllRead ==
    /\ job = "read" /\ update_handle.wrote_size = ImageSectors[Latest]
    /\ job' = "end"
    /\ UNCHANGED otaVars

\* A lost connection: a read of 0 bytes or an error.  The loop ends the same way.
ConnectionLost ==
    /\ job = "read"
    /\ Fault
    /\ job' = "end"
    /\ UNCHANGED <<dataVars, flash, running, entries, s_ota_ops_last_handle, work, confirmed>>

\* Mutant: the result of esp_ota_end is not looked at, nor is the image checked.
EndIgnoringResult ==
    /\ job = "end"
    /\ esp_ota_end(update_handle)
    /\ job' = "set"

EndUpdate ==
    /\ job = "end"
    /\ esp_ota_end(update_handle)
    /\ job' = IF EndResult(update_handle) = "ESP_OK" THEN "set" ELSE "idle"

SetBoot ==
    /\ job = "set"
    /\ LET update_partition == esp_ota_get_next_update_partition(running)
       IN  IF Bootable(flash[update_partition])
           THEN esp_ota_set_boot_partition(update_partition) /\ job' = "setting"
           ELSE UNCHANGED otaVars /\ job' = "idle"

SettingBoot ==
    /\ job = "setting"
    /\ SetBootFlash
    /\ job' = IF step' = "idle" THEN "restart" ELSE "setting"

\* The application's esp_restart once esp_https_ota returned ESP_OK.
Restart ==
    /\ job = "restart"
    /\ LoseRam
    /\ job' = "idle"
    /\ UNCHANGED faults

ResetHttps == Reset /\ job' = "idle"

HttpsInit == SysInit /\ job = "idle"

Progress ==
    \/ StartUpdate \/ EraseForUpdate \/ AllocBuffer \/ ReadAndWrite \/ AllRead
    \/ EndUpdate \/ SetBoot \/ SettingBoot \/ Restart
    \/ BootNext /\ UNCHANGED job

HttpsNext ==
    \/ Progress
    \/ AllocFails \/ ConnectionLost \/ ResetHttps
    \/ CopyWriteFails /\ UNCHANGED job

\* The update task and the bootloader keep running; faults are never forced.
HttpsSpec == HttpsInit /\ [][HttpsNext]_httpsVars /\ WF_httpsVars(Progress)

----------------------------------------------------------------------------
\* Properties.

\* However the call is interrupted, the device ends up running the newest
\* firmware for good, once the faults are over.
EventuallyUpToDate == <>[]UpToDate

\* esp_https_ota goes on to set_boot only with the server's image in place from
\* end to end, whatever ended the read loop and whatever the partition held.
BootsOnlyWholeImage ==
    job \in {"set", "setting", "restart"} =>
        Holds(flash[esp_ota_get_next_update_partition(running)], Latest)

\* Between calls the only handles left open are ones never written to: those of
\* calls that returned for want of memory.
HandlesReturned == job = "idle" => \A it \in entries : it.wrote_size = 0
=============================================================================
