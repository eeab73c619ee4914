------------------------------- MODULE RootFs -------------------------------
(***************************************************************************)
(* Where the settings of an installed OpenWrt begin: the squashfs root     *)
(* file system of the firmware partition is found by its superblock, and   *)
(* the writable overlay starts at the first sector boundary behind it.     *)
(* These are the tests webflash_find_overlay() makes on one superblock;    *)
(* module OverlaySearch models how it comes by them.                       *)
(***************************************************************************)
EXTENDS FlashLayout

CONSTANTS
  SbSize,        \* WEBFLASH_SQUASHFS_SB_SIZE
  Superblocks,   \* units of flash at which a superblock (its magic) begins
  Version,       \* the version a superblock names: "4.0" or another
  BytesUsed,     \* the bytes_used field of a superblock
  U64            \* 2^64, the range of rootfs_end

ASSUME RootFsAssumption ==
  /\ SbSize \in Nat \ {0} /\ SbSize <= IoSize
  /\ Superblocks \subseteq Data
  /\ BytesUsed \in [Superblocks -> Nat]
  /\ U64 \in Nat \ {0}

FirmwareEnd == FirmwareOffset + FirmwareSize

\* The offsets at which a whole superblock fits into the firmware partition.
Positions == FirmwareOffset .. FirmwareEnd - SbSize

\* rootfs_end, a 64-bit sum
RootFsEnd(f, a) == (a + BytesUsed[f[a]]) % U64

\* Mutant of Candidate: the end of the file system is not rounded.
CandidateUnaligned(f, a) == RootFsEnd(f, a)

\* Mutant of Candidate: the end of the file system is rounded down.
CandidateRoundedDown(f, a) == RoundDown(RootFsEnd(f, a), SectorSize)

Candidate(f, a) == RoundUp(RootFsEnd(f, a), SectorSize)

\* The superblock at a passes every test of the loop's body.
Accepted(f, a) ==
  /\ f[a] \in Superblocks
  /\ Version[f[a]] = "4.0"
  /\ BytesUsed[f[a]] >= SbSize
  /\ RootFsEnd(f, a) < FirmwareEnd
  /\ Candidate(f, a) < FirmwareEnd

\* What a search of the whole partition is after: the first superblock that
\* passes the tests.
IsFirst(f, a) ==
  a \in Positions /\ Accepted(f, a) /\ \A b \in FirmwareOffset .. a - 1 : ~Accepted(f, b)

\* The size field of no superblock in flash is so large that the sum wraps.
NoWrap(f) ==
  \A a \in Positions : f[a] \in Superblocks => a + BytesUsed[f[a]] < U64
=============================================================================
