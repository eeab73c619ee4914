----------------------------- MODULE FlashLayout -----------------------------
(***************************************************************************)
(* The SPI NOR flash of the HLK-7621A as cmd/lwip/webflash.c sees it: the  *)
(* partition table, the layout conditions webflash_init_flash() checks     *)
(* before the server starts, and what an erase and a program operation of  *)
(* a NOR chip do to its units.  A "unit" is the smallest piece of flash    *)
(* the model tells apart; sizes and offsets are counted in units.          *)
(***************************************************************************)
EXTENDS Integers

CONSTANTS
  SectorSize,       \* flash->sector_size, the erase size
  IoSize,           \* WEBFLASH_IO_SIZE, the size of io_buf
  FlashSize,        \* flash->size
  UbootOffset, UbootSize,
  EnvOffset, EnvSize,
  FactoryOffset, FactorySize,
  FirmwareOffset, FirmwareSize,
  EepromOffset,     \* WEBFLASH_EEPROM_OFFSET, relative to the factory partition
  EepromSize,       \* WEBFLASH_EEPROM_SIZE
  Data,             \* contents of a unit that is not all ones
  Erased,           \* an erased unit (all ones); an image may contain it too
  Junk,             \* a unit programmed without being erased, or a bad cell
  FlashImages       \* contents the flash may have when the server starts

VARIABLE flash      \* contents of the NOR flash

(***************************************************************************)
(* The conditions under which webflash_init_flash() lets the server run,   *)
(* with the sizes being positive as Kconfig declares them.                 *)
(* EepromAssumption is not checked by the code; it holds for the           *)
(* configured values: the EEPROM lies inside the factory partition, and no *)
(* partition is larger than the firmware one, whose size the model gives   *)
(* to the upload buffer.                                                   *)
(***************************************************************************)
ASSUME SizesAssumption ==
  /\ SectorSize \in Nat \ {0} /\ IoSize \in Nat \ {0} /\ FlashSize \in Nat
  /\ UbootOffset \in Nat /\ UbootSize \in Nat \ {0}
  /\ EnvOffset \in Nat /\ EnvSize \in Nat \ {0}
  /\ FactoryOffset \in Nat /\ FactorySize \in Nat \ {0}
  /\ FirmwareOffset \in Nat /\ FirmwareSize \in Nat \ {0}
  /\ EepromOffset \in Nat /\ EepromSize \in Nat \ {0}

ASSUME LayoutAssumption ==
  /\ UbootOffset + UbootSize <= EnvOffset
  /\ EnvOffset + EnvSize <= FactoryOffset
  /\ FactoryOffset + FactorySize <= FirmwareOffset
  /\ FirmwareOffset + FirmwareSize <= FlashSize

ASSUME AlignmentAssumption ==
  \A x \in {UbootOffset, UbootSize, EnvOffset, EnvSize, FactoryOffset,
            FactorySize, FirmwareOffset, FirmwareSize} : x % SectorSize = 0

ASSUME EepromAssumption ==
  /\ EepromOffset + EepromSize <= FactorySize
  /\ UbootSize <= FirmwareSize /\ EnvSize <= FirmwareSize /\ FactorySize <= FirmwareSize

ASSUME DataAssumption == Erased \notin Data /\ Junk \notin Data /\ Erased # Junk

Addr == 0 .. FlashSize - 1
Byte == Data \cup {Erased}          \* what a client can upload
Unit == Byte \cup {Junk}            \* what a unit of flash can hold

ASSUME FlashImagesAssumption == FlashImages \subseteq [Addr -> Unit]

-----------------------------------------------------------------------------
(* The partition table. "eeprom" and "ram" are upload targets, not table    *)
(* entries: the first is a piece of the factory partition, the second the   *)
(* buffer an initramfs image is booted from.                                *)

Partitions == {"uboot", "environment", "factory", "firmware"}
Targets    == Partitions \cup {"eeprom", "ram"}
Protected  == {"uboot", "environment", "factory", "eeprom"}

Offset(p) ==
  CASE p = "uboot"       -> UbootOffset
    [] p = "environment" -> EnvOffset
    [] p = "factory"     -> FactoryOffset
    [] p = "firmware"    -> FirmwareOffset
    [] p = "eeprom"      -> FactoryOffset + EepromOffset
    [] p = "ram"         -> 0

Size(p) ==
  CASE p = "uboot"       -> UbootSize
    [] p = "environment" -> EnvSize
    [] p = "factory"     -> FactorySize
    [] p = "firmware"    -> FirmwareSize
    [] p = "eeprom"      -> EepromSize
    [] p = "ram"         -> FirmwareSize

Area(p) == Offset(p) .. Offset(p) + Size(p) - 1

\* The upload sizes webflash_prepare_upload() accepts for a target.
SizeAccepted(p, n) == n \in 1 .. Size(p) /\ (p \in Protected => n = Size(p))

-----------------------------------------------------------------------------
(* Arithmetic of include/linux/kernel.h, on naturals.                       *)

Min2(a, b)      == IF a < b THEN a ELSE b
RoundDown(x, s) == x - (x % s)
RoundUp(x, s)   == RoundDown(x + s - 1, s)

-----------------------------------------------------------------------------
(* NOR flash: an erase sets every unit of a range to all ones; programming  *)
(* can only clear bits, so a unit that was not erased ends up as junk.      *)

Program(old, new) ==
  IF new = Erased \/ new = old THEN old
  ELSE IF old = Erased THEN new ELSE Junk

EraseUnits(f, lo, n) ==
  [a \in Addr |-> IF lo <= a /\ a < lo + n THEN Erased ELSE f[a]]

ProgramUnits(f, lo, n, buf, from) ==
  [a \in Addr |-> IF lo <= a /\ a < lo + n
                    THEN Program(f[a], buf[from + (a - lo)]) ELSE f[a]]

\* The result of crc32() over the first n units of buf; the model has no
\* collisions, so the checksum of a content is the content itself.
Crc(buf, n) == [i \in 0 .. n - 1 |-> buf[i]]
EmptyCrc    == Crc([i \in {} |-> Erased], 0)
=============================================================================
