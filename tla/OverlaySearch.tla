---------------------------- MODULE OverlaySearch ----------------------------
(***************************************************************************)
(* webflash_find_overlay() of cmd/lwip/webflash.c: the firmware partition  *)
(* is read window by window into io_buf, and each window is searched for   *)
(* the squashfs superblock.  Consecutive windows overlap by one unit less  *)
(* than a superblock, so that none is missed at a boundary.                *)
(***************************************************************************)
EXTENDS RootFs

VARIABLES
  pos,       \* start of the next window
  status,    \* "idle" outside a call, "scanning", or how the function returned
  overlay    \* *offset

searchVars == <<flash, pos, status, overlay>>

ReadLen == Min2(IoSize, FirmwareEnd - pos)

\* Mutant of Stride: windows that do not overlap.
StrideWhole == IoSize

Stride == IoSize - (SbSize - 1)

\* The positions in io_buf at which the inner loop finds an accepted superblock.
Hits == {i \in 0 .. ReadLen - SbSize : Accepted(flash, pos + i)}

\* One turn of the outer loop: the read succeeds and the window is searched.
ScanWindow ==
  /\ status = "scanning" /\ pos + SbSize <= FirmwareEnd
  /\ \/ /\ Hits = {}
        /\ pos' = pos + Stride
        /\ UNCHANGED <<status, overlay>>
     \/ \E i \in Hits :
          /\ \A j \in Hits : i <= j
          /\ overlay' = Candidate(flash, pos + i)
          /\ status' = "found"
          /\ UNCHANGED pos
  /\ UNCHANGED flash

\* spi_flash_read() fails.
ReadFails ==
  /\ status = "scanning" /\ pos + SbSize <= FirmwareEnd
  /\ status' = "failed"
  /\ UNCHANGED <<flash, pos, overlay>>

\* The loop ends without a hit: -ENOENT.
NotFound ==
  /\ status = "scanning" /\ pos + SbSize > FirmwareEnd
  /\ status' = "none"
  /\ UNCHANGED <<flash, pos, overlay>>

SearchInit ==
  /\ flash \in FlashImages
  /\ pos = FirmwareOffset
  /\ status = "scanning"
  /\ overlay = 0

SearchNext == ScanWindow \/ ReadFails \/ NotFound

SearchSpec == SearchInit /\ [][SearchNext]_searchVars

-----------------------------------------------------------------------------
\* The windows of webflash_find_overlay() start in the partition or end the loop
\* right behind it, and its result is an address of the flash.
SearchTypeOK ==
  /\ flash \in [Addr -> Unit]
  /\ pos \in FirmwareOffset .. FirmwareEnd + IoSize
  /\ status \in {"idle", "scanning", "found", "none", "failed"}
  /\ overlay \in 0 .. FirmwareEnd - 1

\* The windowed search of webflash_find_overlay() gives the same answer as a
\* search of the whole partition: the overlay behind the first superblock that
\* passes the tests, wherever the window boundaries fall, and "not found" only
\* if there is none.
FindsFirst ==
  /\ status = "found" =>
       \E a \in Positions : IsFirst(flash, a) /\ overlay = Candidate(flash, a)
  /\ status = "none" => \A a \in Positions : ~Accepted(flash, a)

\* What webflash_factory_reset() relies on when it starts an erase job from the
\* result to the end of the partition: the range is not empty, is made of whole
\* sectors, and lies behind the start of the firmware. README.webflash.md says
\* that erasing the OpenWrt configuration never touches the factory partition.
OverlayInFirmware ==
  status = "found" =>
    /\ overlay % SectorSize = 0
    /\ FirmwareOffset < overlay /\ overlay < FirmwareEnd

-----------------------------------------------------------------------------
\* The part of the partition before pos holds no superblock to be found.
ScannedInv ==
  status = "scanning" =>
    \A a \in Positions : a < pos => ~Accepted(flash, a)

\* What a search keeps, whatever the flash holds.
ScanInv == SearchTypeOK /\ ScannedInv /\ FindsFirst

SearchInv == ScanInv /\ flash \in FlashImages
=============================================================================
