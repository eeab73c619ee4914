------------------------------ MODULE Settings ------------------------------
(***************************************************************************)
(* What becomes of the settings of the installed OpenWrt: the flash job    *)
(* together with the place the overlay is found at.  A unit of data is a   *)
(* piece of an image, a superblock, or a piece of the settings, which an   *)
(* installed system keeps behind its root file system.                     *)
(*                                                                         *)
(* webflash_find_overlay() is one call, during which the server does       *)
(* nothing else; only a loss of power interrupts it.                       *)
(***************************************************************************)
EXTENDS FlashJob, OverlaySearch, Sequences

CONSTANTS
  Images,     \* firmware images: sequences of units
  Setting     \* a unit of settings; no image contains it

\* An image where flashing puts it, in an otherwise empty flash.
InPlace(img) ==
  [x \in Addr |-> IF FirmwareOffset <= x /\ x < FirmwareOffset + Len(img)
                    THEN img[x - FirmwareOffset + 1] ELSE Erased]

\* There are no settings between a root file system and its overlay.
CleanPadding(f) ==
  \A a \in Positions : Accepted(f, a) =>
    \A x \in RootFsEnd(f, a) .. Candidate(f, a) - 1 : f[x] # Setting

\* Images of OpenWrt: each has a root file system, all of it, and no settings.
ASSUME ImageAssumption ==
  /\ Setting \in Data \ Superblocks
  /\ \A img \in Images :
       /\ img \in Seq(Byte \ {Setting}) /\ Len(img) \in 1 .. FirmwareSize
       /\ \E a \in Positions : Accepted(InPlace(img), a)
       /\ \A a \in Positions : Accepted(InPlace(img), a) =>
            RootFsEnd(InPlace(img), a) <= FirmwareOffset + Len(img)
  /\ \A f \in FlashImages : CleanPadding(f)

VARIABLES
  completed_size,   \* ctx->completed_size; 0 while there is no valid upload
  keep_config       \* ctx->keep_config

uploadVars   == <<completed_size, keep_config>>
settingsVars == <<jobVars, pos, status, overlay, uploadVars>>

\* No call of webflash_find_overlay() is under way, and none begins.
NoSearch == status = "idle" /\ UNCHANGED <<pos, status, overlay>>

\* webflash_prepare_upload(): the job and the last upload are forgotten.
BeginUpload ==
  /\ DropJob /\ NoSearch
  /\ completed_size' = 0
  /\ UNCHANGED keep_config

\* The body of an upload has arrived in the buffer and was found valid.
EndUpload(img) ==
  /\ Load /\ NoSearch
  /\ job.phase = "idle" /\ completed_size = 0
  /\ ram' = [i \in 0 .. FirmwareSize - 1 |-> IF i < Len(img) THEN img[i + 1] ELSE ram[i]]
  /\ completed_size' = Len(img)
  /\ UNCHANGED keep_config

\* POST /api/flash with the confirmation, with or without "keep".
Flash(keep) ==
  /\ ~Blocked /\ NoSearch /\ completed_size > 0
  /\ keep_config' = keep
  /\ StartFlashJob("firmware", completed_size, keep, Crc(ram, completed_size))
  /\ UNCHANGED completed_size

\* POST /api/factory-reset: webflash_factory_reset() up to the search.
BeginReset ==
  /\ ~Blocked /\ status = "idle"
  /\ status' = "scanning" /\ pos' = FirmwareOffset /\ overlay' = 0
  /\ UNCHANGED <<jobVars, uploadVars>>

\* A window of the search.
Search ==
  /\ SearchNext
  /\ UNCHANGED <<ram, factory_buf, job, reboot_pending, before, uploadVars>>

\* The rest of webflash_factory_reset(): the overlay is erased, or there is none.
EndReset ==
  /\ status \in {"found", "none", "failed"}
  /\ IF status = "found" THEN StartEraseSettings(overlay) ELSE UNCHANGED jobVars
  /\ status' = "idle"
  /\ UNCHANGED <<pos, overlay, uploadVars>>

\* A turn of the main loop.
Turn ==
  /\ JobStep /\ NoSearch
  /\ UNCHANGED uploadVars

\* The board restarts into the server.
RestartServer ==
  /\ Restart
  /\ completed_size' = 0 /\ keep_config' = FALSE
  /\ status' = "idle" /\ UNCHANGED <<pos, overlay>>

-----------------------------------------------------------------------------
SettingsInit ==
  /\ JobInit
  /\ completed_size = 0 /\ keep_config = FALSE
  /\ pos = FirmwareOffset /\ status = "idle" /\ overlay = 0

SettingsNext ==
  \/ BeginUpload
  \/ \E img \in Images : EndUpload(img)
  \/ \E keep \in BOOLEAN : Flash(keep)
  \/ BeginReset \/ Search \/ EndReset
  \/ Turn
  \/ RestartServer

SettingsSpec == SettingsInit /\ [][SettingsNext]_settingsVars

-----------------------------------------------------------------------------
\* webflash_factory_reset() and the job it starts take the settings away, all
\* of them, and leave the system: the same root file system is found afterwards
\* and no unit of it or of what is before it has changed.
ResetKeepsSystem ==
  job.mode = "erase_settings" /\ job.phase = "done" =>
    \E a \in Positions :
      /\ IsFirst(before, a) /\ IsFirst(flash, a)
      /\ \A x \in FirmwareOffset .. RootFsEnd(before, a) - 1 : flash[x] = before[x]
      /\ \A x \in RootFsEnd(before, a) .. FirmwareEnd - 1 : flash[x] # Setting

\* Without keep_config a flashed system starts with fresh settings, although
\* only the image and a margin are erased: the sector its overlay begins in
\* holds nothing of the old settings, so OpenWrt rebuilds it (the comment in
\* webflash_start_flash_job()), however the sizes of the old and the new image
\* compare.
FreshSettings ==
  job.mode = "flash" /\ job.phase = "done" /\ ~keep_config =>
    \A a \in Positions : IsFirst(flash, a) =>
      \A x \in Candidate(flash, a) .. Candidate(flash, a) + SectorSize - 1 :
        flash[x] # Setting

\* With keep_config the page promises that rootfs_data is not erased. It is not,
\* to the last unit, if the new image does not reach into the overlay of the
\* installed system; a larger one overwrites the settings' start, although the
\* page says nothing of sizes.
KeepsSettings ==
  job.mode = "flash" /\ job.phase = "done" /\ keep_config =>
    \A a \in Positions :
      IsFirst(before, a) /\ FirmwareOffset + job.write_size <= Candidate(before, a) =>
        \A x \in Candidate(before, a) .. FirmwareEnd - 1 : flash[x] = before[x]

\* README.webflash.md:29: neither a firmware update nor clearing the OpenWrt
\* configuration erases the calibration data of the EEPROM. A superblock whose
\* bytes_used makes the 64-bit sum of webflash_find_overlay() wrap refutes it:
\* the range of the reset then begins below the firmware partition.
ResetKeepsCalibration ==
  job.mode = "erase_settings" => JobRange \cap Area("eeprom") = {}

-----------------------------------------------------------------------------
(* The inductive invariant behind these, together with that of the job and  *)
(* that of the search.                                                      *)

\* No superblock names a size that takes the 64-bit sum beyond its range.
SizesDoNotWrap == \A d \in Superblocks : FlashSize + BytesUsed[d] <= U64

\* The n units at load_addr are one of the images.
InBuffer(n) ==
  \E img \in Images : n = Len(img) /\ \A i \in 0 .. n - 1 : ram[i] = img[i + 1]

UploadInv ==
  /\ completed_size \in Nat
  /\ completed_size > 0 => InBuffer(completed_size)

\* What a job was started for: an image in the buffer, or the overlay that was
\* found in the flash.
JobOrigin ==
  Ongoing =>
    /\ job.mode = "flash" =>
         /\ job.part = "firmware" /\ job.buf = "ram"
         /\ job.erase_size = EraseSize("firmware", job.write_size, keep_config)
         /\ InBuffer(job.write_size)
    /\ job.mode = "erase_settings" =>
         /\ CleanPadding(before)
         /\ job.erase_size = FirmwareEnd - job.erase_offset
         /\ \E a \in Positions : IsFirst(before, a) /\ job.erase_offset = Candidate(before, a)

\* What has been erased does not get settings back while the image is written.
RangeClean ==
  job.mode = "flash" /\ job.phase \in {"writing", "verifying", "done"} =>
    \A x \in JobRange : flash[x] # Setting

SettingsInv ==
  /\ JobInv /\ SectorsInv /\ ScanInv
  /\ status # "idle" => ~Blocked
  /\ keep_config \in BOOLEAN
  /\ UploadInv /\ JobOrigin /\ RangeClean
  /\ CleanPadding(flash)
=============================================================================
