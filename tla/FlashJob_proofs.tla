--------------------------- MODULE FlashJob_proofs ---------------------------
(* Proofs that the flash job of webflash.c keeps its promises for every      *)
(* layout webflash_init_flash() accepts, every image and every pattern of    *)
(* SPI failures, silent write errors and restarts.                           *)
EXTENDS FlashJob, TLAPS

-----------------------------------------------------------------------------
(* Arithmetic of roundup() and rounddown() in include/linux/kernel.h, for    *)
(* every value and every sector size.                                        *)

\* The remainder of a division is smaller than the divisor.
LEMMA ModBounds ==
  ASSUME NEW x \in Nat, NEW s \in Nat \ {0}
  PROVE  x % s \in 0 .. s - 1
  OBVIOUS

\* Quotient and remainder make up the dividend.
LEMMA DivMod ==
  ASSUME NEW x \in Nat, NEW s \in Nat \ {0}
  PROVE  x = s * (x \div s) + (x % s) /\ x \div s \in Nat
  OBVIOUS

\* rounddown() never increases a value.
LEMMA RoundDownBounds ==
  ASSUME NEW x \in Nat, NEW s \in Nat \ {0}
  PROVE  RoundDown(x, s) \in 0 .. x
  BY ModBounds DEF RoundDown

\* roundup() never decreases a value.
LEMMA RoundUpLower ==
  ASSUME NEW x \in Nat, NEW s \in Nat \ {0}
  PROVE  RoundUp(x, s) \in Nat /\ x <= RoundUp(x, s)
  <1>1. x + s - 1 \in Nat
    OBVIOUS
  <1>2. (x + s - 1) % s \in 0 .. s - 1
    BY <1>1, ModBounds
  <1> QED
    BY <1>1, <1>2 DEF RoundUp, RoundDown

\* The step from one multiple of s to the next is s.
LEMMA MultipleGap ==
  ASSUME NEW a \in Int, NEW b \in Int, NEW s \in Nat \ {0}, s * a < s * b + s
  PROVE  s * a <= s * b
  <1>1. a <= b
    OBVIOUS
  <1> QED
    BY <1>1

\* roundup() of a value does not pass a sector boundary above the value.
LEMMA RoundUpUpper ==
  ASSUME NEW x \in Nat, NEW s \in Nat \ {0}, NEW m \in Nat,
         m % s = 0, x <= m
  PROVE  RoundUp(x, s) <= m
  <1> DEFINE y == x + s - 1
  <1>1. y \in Nat
    OBVIOUS
  <1>2. y = s * (y \div s) + (y % s) /\ y \div s \in Nat /\ y % s \in Nat
    BY <1>1, DivMod, ModBounds
  <1>3. m = s * (m \div s) /\ m \div s \in Nat
    BY DivMod
  <1> HIDE DEF y
  <1>4. RoundUp(x, s) = s * (y \div s)
    BY <1>2 DEF RoundUp, RoundDown, y
  <1>5. s * (y \div s) < s * (m \div s) + s
    BY <1>2, <1>3 DEF y
  <1>6. s * (y \div s) <= s * (m \div s)
    BY <1>2, <1>3, <1>5, MultipleGap
  <1> QED
    BY <1>3, <1>4, <1>6

\* A multiple leaves no remainder.
LEMMA MultipleMod ==
  ASSUME NEW k \in Nat, NEW s \in Nat \ {0}
  PROVE  (s * k) % s = 0
  <1> DEFINE x == s * k
             q == x \div s
  <1>1. x \in Nat
    OBVIOUS
  <1>2. x = s * q + (x % s) /\ q \in Nat /\ x % s \in 0 .. s - 1
    BY <1>1, DivMod, ModBounds
  <1> HIDE DEF x, q
  <1>3. CASE k <= q
    <2>1. s * k <= s * q
      BY <1>2, <1>3
    <2> QED
      BY <2>1, <1>2 DEF x
  <1>4. CASE q + 1 <= k
    <2>1. s * (q + 1) <= s * k
      BY <1>2, <1>4
    <2>2. s * (q + 1) = s * q + s
      BY <1>2
    <2>3. s * q \in Nat
      BY <1>2
    <2> QED
      BY <2>1, <2>2, <2>3, <1>2 DEF x
  <1> QED
    BY <1>2, <1>3, <1>4

\* rounddown() gives a multiple.
LEMMA RoundDownAligned ==
  ASSUME NEW x \in Nat, NEW s \in Nat \ {0}
  PROVE  RoundDown(x, s) % s = 0
  <1>1. x = s * (x \div s) + (x % s) /\ x \div s \in Nat /\ x % s \in Nat
    BY DivMod, ModBounds
  <1>2. RoundDown(x, s) = s * (x \div s)
    BY <1>1 DEF RoundDown
  <1> QED
    BY <1>1, <1>2, MultipleMod

\* roundup() gives a multiple.
LEMMA RoundUpAligned ==
  ASSUME NEW x \in Nat, NEW s \in Nat \ {0}
  PROVE  RoundUp(x, s) % s = 0
  <1>1. x + s - 1 \in Nat
    OBVIOUS
  <1> QED
    BY <1>1, RoundDownAligned DEF RoundUp

\* The sum of two multiples is one.
LEMMA SumAligned ==
  ASSUME NEW x \in Nat, NEW y \in Nat, NEW s \in Nat \ {0}, x % s = 0, y % s = 0
  PROVE  (x + y) % s = 0
  <1>1. x = s * (x \div s) /\ x \div s \in Nat /\ y = s * (y \div s) /\ y \div s \in Nat
    BY DivMod
  <1>2. PICK j \in Nat, k \in Nat : x = s * j /\ y = s * k
    BY <1>1
  <1>3. x + y = s * (j + k) /\ j + k \in Nat
    BY <1>2
  <1> QED
    BY <1>3, MultipleMod

\* The difference of two multiples is one.
LEMMA DifferenceAligned ==
  ASSUME NEW x \in Nat, NEW y \in Nat, NEW s \in Nat \ {0}, x % s = 0, y % s = 0, y <= x
  PROVE  (x - y) % s = 0
  <1>1. x = s * (x \div s) /\ x \div s \in Nat /\ y = s * (y \div s) /\ y \div s \in Nat
    BY DivMod
  <1>2. PICK j \in Nat, k \in Nat : x = s * j /\ y = s * k
    BY <1>1
  <1>3. k <= j
    <2>1. s * k <= s * j
      BY <1>2
    <2>2. s * k < s * j + s
      BY <1>2, <2>1
    <2>3. CASE j + 1 <= k
      <3>1. s * (j + 1) <= s * k
        BY <1>2, <2>3
      <3> QED
        BY <3>1, <2>2, <1>2
    <2> QED
      BY <2>3
  <1>4. x - y = s * (j - k) /\ j - k \in Nat
    BY <1>2, <1>3
  <1> QED
    BY <1>4, MultipleMod

-----------------------------------------------------------------------------
(* The partition table and the chunk sizes.                                 *)

\* Every target lies inside the flash.
LEMMA PartitionInFlash ==
  ASSUME NEW p \in Targets
  PROVE  /\ Offset(p) \in Nat /\ Size(p) \in Nat \ {0}
         /\ Offset(p) + Size(p) <= FlashSize
  BY SizesAssumption, LayoutAssumption, EepromAssumption
     DEF Targets, Partitions, Offset, Size

\* The erased range covers the image and stays inside the partition.
LEMMA EraseSizeBounds ==
  ASSUME NEW p \in Targets, NEW n \in 1 .. FirmwareSize, NEW keep \in BOOLEAN,
         SizeAccepted(p, n)
  PROVE  EraseSize(p, n, keep) \in n .. Size(p)
  <1>1. n \in Nat /\ n <= Size(p) /\ Size(p) \in Nat /\ SectorSize \in Nat \ {0}
    BY PartitionInFlash, SizesAssumption DEF SizeAccepted
  <1>2. CASE p # "firmware"
    BY <1>1, <1>2 DEF EraseSize
  <1>3. CASE p = "firmware"
    <2> DEFINE need == RoundUp(n, SectorSize)
    <2>1. need \in Nat /\ n <= need
      BY <1>1, RoundUpLower
    <2>2. Size(p) % SectorSize = 0
      BY <1>3, AlignmentAssumption DEF Size
    <2>3. need <= Size(p)
      BY <1>1, <2>2, RoundUpUpper
    <2> HIDE DEF need
    <2>4. EraseSize(p, n, keep) = IF keep THEN need
                                  ELSE Min2(Size(p), need + 2 * SectorSize)
      BY <1>3 DEF EraseSize, need
    <2> QED
      BY <1>1, <2>1, <2>3, <2>4 DEF Min2
  <1> QED
    BY <1>2, <1>3

\* A chunk is never empty and never passes the end of the range.
LEMMA ChunkBounds ==
  ASSUME NEW r \in Nat \ {0}, NEW e \in BOOLEAN
  PROVE  JobChunk(r, e) \in 1 .. r
  <1> DEFINE c == Min2(r, IoSize)
             d == RoundDown(c, SectorSize)
  <1>1. c \in 1 .. r /\ SectorSize \in Nat \ {0} /\ IoSize \in Nat \ {0}
    BY SizesAssumption DEF Min2
  <1>2. d \in 0 .. c
    BY <1>1, RoundDownBounds
  <1>3. Min2(r, SectorSize) \in 1 .. r
    BY <1>1 DEF Min2
  <1> HIDE DEF c, d
  <1>4. JobChunk(r, e) = IF ~e THEN c
                         ELSE IF SectorSize > IoSize THEN Min2(r, SectorSize)
                         ELSE IF d # 0 THEN d ELSE Min2(r, SectorSize)
    BY DEF JobChunk, c, d
  <1> QED
    BY <1>1, <1>2, <1>3, <1>4

-----------------------------------------------------------------------------
(* What the flash operations return.                                        *)

\* Erasing leaves a flash.
LEMMA EraseUnitsType ==
  ASSUME NEW f \in [Addr -> Unit], NEW lo \in Int, NEW n \in Int
  PROVE  EraseUnits(f, lo, n) \in [Addr -> Unit]
  BY DEF EraseUnits, Unit, Byte

\* Programming from a buffer that holds the range leaves a flash.
LEMMA ProgramUnitsType ==
  ASSUME NEW f \in [Addr -> Unit], NEW lo \in Int, NEW n \in Nat,
         NEW m \in Nat, NEW buf \in [0 .. m - 1 -> Unit], NEW from \in Nat,
         from + n <= m
  PROVE  ProgramUnits(f, lo, n, buf, from) \in [Addr -> Unit]
  BY SizesAssumption DEF ProgramUnits, Program, Unit, Byte, Addr

\* A checksum has the size of what it was computed over.
LEMMA CrcType ==
  ASSUME NEW m \in Nat, NEW buf \in [0 .. m - 1 -> Unit], NEW n \in 0 .. m,
         n <= FirmwareSize
  PROVE  Crc(buf, n) \in Checksum
  <1>1. Crc(buf, n) \in [0 .. n - 1 -> Unit]
    BY DEF Crc
  <1>2. n \in 0 .. FirmwareSize
    BY SizesAssumption
  <1> QED
    BY <1>1, <1>2 DEF Checksum

\* The checksum of nothing.
LEMMA EmptyCrcType ==
  EmptyCrc \in Checksum
  <1>1. EmptyCrc \in [0 .. 0 - 1 -> Unit]
    BY DEF EmptyCrc, Crc
  <1>2. 0 \in 0 .. FirmwareSize
    BY SizesAssumption
  <1> QED
    BY <1>1, <1>2 DEF Checksum

\* The buffer a job programs from.
LEMMA SourceType ==
  ASSUME JobTypeOK
  PROVE  Source \in [0 .. (IF job.buf = "ram" THEN FirmwareSize ELSE FactorySize) - 1 -> Unit]
  BY DEF JobTypeOK, JobType, Source, Unit

-----------------------------------------------------------------------------
(* The initial states.                                                      *)

\* The server starts without a job.
LEMMA InitInv == JobInit => JobInv
  <1> SUFFICES ASSUME JobInit PROVE JobInv
    OBVIOUS
  <1>1. job \in JobType /\ job.phase = "idle"
    BY EmptyCrcType DEF JobInit, NoJob, JobType, ActivePhases
  <1>2. JobTypeOK
    BY <1>1, ImagesAssumption, FlashImagesAssumption DEF JobInit, JobTypeOK, Unit, Byte
  <1> QED
    BY <1>1, <1>2 DEF JobInv, Ongoing, ActivePhases, DoneMeansWritten, Confined

\* NoJob satisfies what is said of a job that is not going on.
LEMMA IdleInv ==
  ASSUME JobTypeOK', job' = NoJob
  PROVE  JobInv'
  BY DEF JobInv, Ongoing, ActivePhases, DoneMeansWritten, Confined, NoJob

-----------------------------------------------------------------------------
(* Starting a job.                                                          *)

\* webflash_start_flash_job() sets up a job that covers its image.
LEMMA StartFlashInv ==
  ASSUME JobInv, ~Blocked, NEW p \in Targets, NEW n \in 1 .. FirmwareSize,
         NEW keep \in BOOLEAN, SizeAccepted(p, n),
         StartFlashJob(p, n, keep, Crc(ram, n))
  PROVE  JobInv'
  <1>1. /\ JobTypeOK
        /\ ram \in [0 .. FirmwareSize - 1 -> Unit]
        /\ before' = flash /\ UNCHANGED <<flash, ram, reboot_pending>>
    BY DEF JobInv, JobTypeOK, StartFlashJob, Unit
  <1>2. CASE p = "eeprom"
    <2>1. factory_buf' = MergedFactory /\ job' =
            [mode |-> "flash", phase |-> "erasing", part |-> "factory",
             buf |-> "factory_buf", erase_offset |-> FactoryOffset,
             erase_size |-> FactorySize, write_size |-> FactorySize,
             processed |-> 0, source_crc |-> MergedFactory,
             verify_crc |-> EmptyCrc]
      BY <1>2 DEF StartFlashJob, StartEepromJob
    <2>2. MergedFactory \in [0 .. FactorySize - 1 -> Unit]
      BY <1>1, SizesAssumption, LayoutAssumption, EepromAssumption
         DEF MergedFactory, JobTypeOK, Addr
    <2>3. Crc(MergedFactory, FactorySize) = MergedFactory
      BY <2>2, SizesAssumption DEF Crc
    <2>4. MergedFactory \in Checksum
      <3>1. FactorySize \in Nat /\ FactorySize \in 0 .. FirmwareSize
        BY SizesAssumption, EepromAssumption
      <3> QED
        BY <2>2, <3>1 DEF Checksum
    <2>5. JobTypeOK'
      BY <1>1, <2>1, <2>2, <2>4, EmptyCrcType, SizesAssumption
         DEF JobTypeOK, JobType, ActivePhases, Partitions
    <2>6. JobShape'
      BY <2>1, <2>3, SizesAssumption, LayoutAssumption
         DEF JobShape, Source, Offset
    <2>7. PhaseProgress'
      BY <2>1, SizesAssumption DEF PhaseProgress, Blank, Addr
    <2>8. MergeInv'
      BY <1>1, <2>1 DEF MergeInv, MergedFactory
    <2> QED
      BY <1>1, <2>1, <2>5, <2>6, <2>7, <2>8
         DEF JobInv, DoneMeansWritten, Confined
  <1>3. CASE p # "eeprom"
    <2>1. factory_buf' = factory_buf /\ job' =
            [mode |-> "flash", phase |-> "erasing", part |-> p, buf |-> "ram",
             erase_offset |-> Offset(p), erase_size |-> EraseSize(p, n, keep),
             write_size |-> n, processed |-> 0,
             source_crc |-> Crc(ram, n), verify_crc |-> EmptyCrc]
      BY <1>3 DEF StartFlashJob, StartImageJob
    <2>2. /\ EraseSize(p, n, keep) \in n .. Size(p)
          /\ Offset(p) \in Nat /\ Size(p) \in Nat /\ Offset(p) + Size(p) <= FlashSize
      BY EraseSizeBounds, PartitionInFlash
    <2>3. Crc(ram, n) \in Checksum
      <3>1. FirmwareSize \in Nat /\ n \in 0 .. FirmwareSize /\ n <= FirmwareSize
        BY SizesAssumption
      <3> QED
        BY <1>1, <3>1, CrcType
    <2>4. p \in Partitions \cup {"ram", "none"} /\ p # "none"
      BY <1>3 DEF Targets, Partitions
    <2>5. JobTypeOK'
      BY <1>1, <2>1, <2>2, <2>3, <2>4, EmptyCrcType, SizesAssumption
         DEF JobTypeOK, JobType, ActivePhases
    <2>6. JobShape'
      BY <1>1, <2>1, <2>2, <2>4, SizesAssumption DEF JobShape, Source
    <2>7. PhaseProgress'
      BY <2>1, <2>2 DEF PhaseProgress, Blank, Addr
    <2> QED
      BY <1>1, <2>1, <2>5, <2>6, <2>7
         DEF JobInv, DoneMeansWritten, Confined, MergeInv
  <1> QED
    BY <1>2, <1>3

\* webflash_factory_reset() sets up a job that ends with the firmware partition.
LEMMA StartEraseInv ==
  ASSUME JobInv, ~Blocked,
         NEW o \in 0 .. FirmwareOffset + FirmwareSize - 1,
         StartEraseSettings(o)
  PROVE  JobInv'
  <1>1. /\ JobTypeOK
        /\ before' = flash /\ UNCHANGED <<flash, ram, factory_buf, reboot_pending>>
        /\ job' = [mode |-> "erase_settings", phase |-> "erasing",
                   part |-> "firmware", buf |-> "ram", erase_offset |-> o,
                   erase_size |-> FirmwareOffset + FirmwareSize - o,
                   write_size |-> 0, processed |-> 0,
                   source_crc |-> EmptyCrc, verify_crc |-> EmptyCrc]
    BY DEF JobInv, StartEraseSettings, NoJob
  <1>2. JobTypeOK'
    BY <1>1, EmptyCrcType, SizesAssumption
       DEF JobTypeOK, JobType, ActivePhases, Partitions
  <1>3. JobShape' /\ PhaseProgress' /\ MergeInv'
    BY <1>1, SizesAssumption, LayoutAssumption
       DEF JobShape, PhaseProgress, MergeInv, Blank, Addr
  <1> QED
    BY <1>1, <1>2, <1>3 DEF JobInv, DoneMeansWritten, Confined

-----------------------------------------------------------------------------
(* The steps of a job.                                                      *)

\* What the invariant says of a running job, spelled out.
LEMMA ActiveFacts ==
  ASSUME JobInv, JobActive
  PROVE  /\ JobTypeOK /\ JobShape /\ PhaseProgress /\ MergeInv
         /\ \A a \in Addr \ JobRange : flash[a] = before[a]
         /\ job.erase_offset \in Nat /\ job.erase_size \in Nat
         /\ job.write_size \in Nat /\ job.processed \in Nat
  BY DEF JobInv, JobActive, ActivePhases, Ongoing, Confined, JobTypeOK, JobType

\* The fields of a job that no step changes.
SameJob ==
  /\ job'.mode = job.mode /\ job'.part = job.part /\ job'.buf = job.buf
  /\ job'.erase_offset = job.erase_offset /\ job'.erase_size = job.erase_size
  /\ job'.write_size = job.write_size /\ job'.source_crc = job.source_crc

\* A step that goes on with the same job keeps its shape and its buffer.
LEMMA SameJobShape ==
  ASSUME JobShape, MergeInv, SameJob, UNCHANGED <<ram, factory_buf, before>>,
         job'.mode = "erase_settings" => job'.phase \in {"erasing", "done"}
  PROVE  JobShape' /\ MergeInv' /\ Source' = Source /\ JobRange' = JobRange
  BY DEF JobShape, MergeInv, SameJob, Source, JobRange

\* After an error only the types and the rest of the flash are promised.
LEMMA ErrorInv ==
  ASSUME JobInv, JobActive, JobTypeOK', job' = [job EXCEPT !.phase = "error"],
         before' = before, \A a \in Addr \ JobRange : flash'[a] = flash[a]
  PROVE  JobInv'
  <1>1. job \in JobType /\ \A a \in Addr \ JobRange : flash[a] = before[a]
    BY ActiveFacts DEF JobTypeOK
  <1>2. job'.phase = "error" /\ JobRange' = JobRange
    BY <1>1 DEF JobType, JobRange
  <1>3. Confined'
    BY <1>1, <1>2 DEF Confined
  <1> QED
    BY <1>2, <1>3 DEF JobInv, Ongoing, ActivePhases, DoneMeansWritten

\* A successful erase step.
LEMMA EraseStepInv ==
  ASSUME JobInv, EraseStep
  PROVE  JobInv'
  <1> DEFINE c == EraseChunk
             at == job.erase_offset + job.processed
             done == job.processed + c = job.erase_size
  <1>1. job.phase = "erasing" /\ JobActive
    BY DEF EraseStep, JobActive, ActivePhases
  <1>2. /\ JobTypeOK /\ JobShape /\ PhaseProgress /\ MergeInv
        /\ \A a \in Addr \ JobRange : flash[a] = before[a]
        /\ job.erase_offset \in Nat /\ job.erase_size \in Nat
        /\ job.write_size \in Nat /\ job.processed \in Nat
    BY <1>1, ActiveFacts
  <1>3. at < job.erase_offset + job.erase_size /\ Blank(job.erase_offset, at)
    BY <1>1, <1>2 DEF PhaseProgress
  <1>4. c \in 1 .. job.erase_size - job.processed
    <2>1. job.erase_size - job.processed \in Nat \ {0}
      BY <1>2, <1>3
    <2> QED
      BY <2>1, ChunkBounds DEF EraseChunk
  <1> HIDE DEF c
  <1> DEFINE n == IF done THEN 0 ELSE job.processed + c
             ph == IF ~done THEN "erasing"
                   ELSE IF job.mode = "erase_settings" THEN "done" ELSE "writing"
  <1>5. /\ flash' = EraseUnits(flash, at, c)
        /\ UNCHANGED <<ram, factory_buf, before>>
        /\ reboot_pending' = (reboot_pending \/ (done /\ job.mode = "erase_settings"))
        /\ job' = [job EXCEPT !.processed = n, !.phase = ph]
    BY <1>1 DEF EraseStep, EraseAt, RebootWhen, c
  <1>6. /\ SameJob /\ job' \in JobType /\ job'.processed = n /\ job'.phase = ph
    <2>1. n \in Nat /\ ph \in ActivePhases \cup {"idle", "done", "error"}
      BY <1>2, <1>4 DEF ActivePhases
    <2> HIDE DEF n, ph
    <2> QED
      BY <1>2, <1>5, <2>1 DEF SameJob, JobTypeOK, JobType
  <1>7. /\ flash' \in [Addr -> Unit]
        /\ \A a \in Addr : flash'[a] =
             IF at <= a /\ a < at + c THEN Erased ELSE flash[a]
    <2>1. flash \in [Addr -> Unit] /\ at \in Int /\ c \in Int
      BY <1>2, <1>4 DEF JobTypeOK
    <2> HIDE DEF at
    <2>2. flash' \in [Addr -> Unit]
      BY <1>5, <2>1, EraseUnitsType
    <2> QED
      BY <1>5, <2>2 DEF EraseUnits
  <1>8. JobTypeOK'
    BY <1>2, <1>5, <1>6, <1>7 DEF JobTypeOK
  <1>9. job.mode \in {"flash", "erase_settings"}
    BY <1>2 DEF JobShape
  <1>10. JobShape' /\ MergeInv' /\ Source' = Source /\ JobRange' = JobRange
    BY <1>2, <1>5, <1>6, <1>9, SameJobShape DEF SameJob
  <1>11. \A a \in Addr : job.erase_offset <= a /\ a < at + c => flash'[a] = Erased
    BY SMTT(30), <1>2, <1>3, <1>4, <1>7, SizesAssumption DEF Blank, Addr
  <1>12. PhaseProgress'
    <2>1. CASE ~done
      <3>1. job'.phase = "erasing" /\ job'.processed = job.processed + c
        BY <1>6, <2>1
      <3>2. at + c < job.erase_offset + job.erase_size
        BY <1>2, <1>4, <2>1
      <3> QED
        BY <1>2, <1>4, <1>6, <1>11, <3>1, <3>2, SizesAssumption
           DEF PhaseProgress, Blank, Addr, SameJob
    <2>2. CASE done /\ job.mode = "flash"
      <3>1. job'.phase = "writing" /\ job'.processed = 0
        BY <1>6, <2>2
      <3>2. at + c = job.erase_offset + job.erase_size
        BY <1>2, <1>4, <2>2
      <3>3. job.write_size \in 1 .. job.erase_size
        BY <1>2, <2>2 DEF JobShape
      <3> QED
        BY SMTT(30), <1>2, <1>4, <1>6, <1>11, <3>1, <3>2, <3>3, SizesAssumption
           DEF PhaseProgress, Blank, Addr, SameJob
    <2>3. CASE done /\ job.mode = "erase_settings"
      <3>1. job'.phase = "done" /\ reboot_pending'
        BY <1>5, <1>6, <2>3
      <3> QED
        BY <3>1 DEF PhaseProgress
    <2> QED
      BY <1>9, <2>1, <2>2, <2>3
  <1>13. DoneMeansWritten'
    <2> SUFFICES ASSUME job'.phase = "done", NEW a \in JobRange
                 PROVE  flash'[a] = Erased /\ job'.mode # "flash"
      BY <1>10 DEF DoneMeansWritten
    <2>1. done /\ job.mode = "erase_settings"
      BY <1>6
    <2>2. a \in Addr
      BY <1>2, SizesAssumption DEF JobRange, JobShape, Addr
    <2>3. at + c = job.erase_offset + job.erase_size
      BY <1>2, <1>4, <2>1
    <2> QED
      BY <1>2, <1>4, <1>6, <1>11, <2>1, <2>2, <2>3 DEF JobRange, SameJob
  <1>14. Confined'
    <2> SUFFICES ASSUME NEW a \in Addr \ JobRange PROVE flash'[a] = before[a]
      BY <1>5, <1>10 DEF Confined
    <2>1. ~(at <= a /\ a < at + c)
      BY <1>2, <1>4, SizesAssumption DEF JobRange, Addr
    <2> QED
      BY <1>2, <1>7, <2>1
  <1> QED
    BY <1>8, <1>10, <1>12, <1>13, <1>14 DEF JobInv

\* A failed erase step.
LEMMA EraseFailInv ==
  ASSUME JobInv, EraseFail
  PROVE  JobInv'
  <1>1. JobTypeOK
    BY DEF JobInv
  <1>2. PICK k \in 0 .. EraseChunk :
          flash' = EraseUnits(flash, job.erase_offset + job.processed, k)
    BY DEF EraseFail, EraseAt
  <1>3. flash' \in [Addr -> Unit]
    BY <1>1, <1>2, EraseUnitsType DEF JobTypeOK, JobType
  <1>4. job' = [job EXCEPT !.phase = "error"] /\ UNCHANGED <<ram, factory_buf, reboot_pending, before>>
    BY DEF EraseFail, FailJob
  <1>5. JobTypeOK'
    BY <1>1, <1>3, <1>4 DEF JobTypeOK, JobType
  <1>6. JobActive /\ job.phase = "erasing"
    BY DEF EraseFail, JobActive, ActivePhases
  <1>7. /\ PhaseProgress /\ job.erase_offset \in Nat /\ job.erase_size \in Nat
        /\ job.processed \in Nat
    BY <1>6, ActiveFacts
  <1>8. job.erase_size - job.processed \in Nat \ {0}
    BY <1>6, <1>7 DEF PhaseProgress
  <1>9. EraseChunk \in 1 .. job.erase_size - job.processed
    BY <1>8, ChunkBounds DEF EraseChunk
  <1>10. ASSUME NEW a \in Addr \ JobRange PROVE flash'[a] = flash[a]
    <2>1. ~(/\ job.erase_offset + job.processed <= a
            /\ a < job.erase_offset + job.processed + k)
      BY <1>2, <1>7, <1>9, SizesAssumption DEF JobRange, Addr
    <2> QED
      BY <1>2, <2>1 DEF EraseUnits
  <1> QED
    BY <1>4, <1>5, <1>6, <1>10, ErrorInv

\* Programming n units changes only those units.
LEMMA ProgrammedFacts ==
  ASSUME JobInv, job.phase = "writing",
         NEW n \in 0 .. job.write_size - job.processed, Programmed(n)
  PROVE  /\ flash' \in [Addr -> Unit]
         /\ \A a \in Addr : ~(job.erase_offset + job.processed <= a
                              /\ a < job.erase_offset + job.processed + n)
                            => flash'[a] = flash[a]
  <1> DEFINE lo == Offset(job.part) + job.processed
             good == ProgramUnits(flash, lo, n, Source, job.processed)
             m == IF job.buf = "ram" THEN FirmwareSize ELSE FactorySize
  <1>1. JobActive
    BY DEF JobActive, ActivePhases
  <1>2. /\ JobTypeOK /\ JobShape /\ PhaseProgress
        /\ job.erase_offset \in Nat /\ job.write_size \in Nat /\ job.processed \in Nat
    BY <1>1, ActiveFacts
  <1>3. job.mode = "flash" /\ job.erase_offset = Offset(job.part) /\ job.write_size <= m
    BY <1>2 DEF JobShape
  <1>4. Source \in [0 .. m - 1 -> Unit] /\ m \in Nat
    BY <1>2, SourceType, SizesAssumption
  <1>5. n \in Nat /\ job.processed + n <= m /\ lo \in Int
    BY <1>2, <1>3, <1>4
  <1>6. PICK bad \in lo - 1 .. lo + n - 1 :
          flash' = [a \in Addr |-> IF a = bad /\ a >= lo THEN Junk ELSE good[a]]
    BY DEF Programmed
  <1> HIDE DEF lo, m
  <1>7. good \in [Addr -> Unit]
    BY <1>2, <1>4, <1>5, ProgramUnitsType DEF JobTypeOK
  <1>8. \A a \in Addr : ~(lo <= a /\ a < lo + n) => good[a] = flash[a]
    BY DEF ProgramUnits
  <1> HIDE DEF good
  <1>9. flash' \in [Addr -> Unit]
    BY <1>6, <1>7 DEF Unit
  <1>10. \A a \in Addr : ~(lo <= a /\ a < lo + n) => ~(a = bad /\ a >= lo)
    BY <1>5, <1>6, SizesAssumption DEF Addr
  <1>11. \A a \in Addr : ~(lo <= a /\ a < lo + n) => flash'[a] = flash[a]
    BY <1>6, <1>8, <1>10
  <1> QED
    BY <1>3, <1>9, <1>11 DEF lo

\* What the invariant says while the job is writing.
LEMMA WritingFacts ==
  ASSUME JobInv, job.phase = "writing"
  PROVE  /\ job.mode = "flash" /\ job.write_size \in 1 .. job.erase_size
         /\ job.processed < job.write_size
         /\ DataChunk \in 1 .. job.write_size - job.processed
         /\ Blank(job.erase_offset + job.processed, job.erase_offset + job.erase_size)
  <1>1. JobActive
    BY DEF JobActive, ActivePhases
  <1>2. /\ JobShape /\ PhaseProgress /\ job.erase_offset \in Nat
        /\ job.write_size \in Nat /\ job.processed \in Nat
    BY <1>1, ActiveFacts
  <1>3. /\ job.mode = "flash" /\ job.write_size \in 1 .. job.erase_size
        /\ job.processed < job.write_size
        /\ Blank(job.erase_offset + job.processed, job.erase_offset + job.erase_size)
    BY <1>2 DEF JobShape, PhaseProgress
  <1>4. job.write_size - job.processed \in Nat \ {0}
    BY <1>2, <1>3
  <1> QED
    BY <1>3, <1>4, ChunkBounds DEF DataChunk

\* A successful write step.
LEMMA WriteStepInv ==
  ASSUME JobInv, WriteStep
  PROVE  JobInv'
  <1> DEFINE c == DataChunk
             at == job.erase_offset + job.processed
             done == job.processed + c = job.write_size
             n == IF done THEN 0 ELSE job.processed + c
             v == IF done THEN EmptyCrc ELSE job.verify_crc
             ph == IF done THEN "verifying" ELSE "writing"
  <1>1. job.phase = "writing" /\ JobActive
    BY DEF WriteStep, JobActive, ActivePhases
  <1>2. /\ JobTypeOK /\ JobShape /\ PhaseProgress /\ MergeInv
        /\ \A a \in Addr \ JobRange : flash[a] = before[a]
        /\ job.erase_offset \in Nat /\ job.erase_size \in Nat
        /\ job.write_size \in Nat /\ job.processed \in Nat
    BY <1>1, ActiveFacts
  <1>3. /\ job.mode = "flash" /\ job.write_size \in 1 .. job.erase_size
        /\ c \in 1 .. job.write_size - job.processed
        /\ Blank(at, job.erase_offset + job.erase_size)
    BY <1>1, WritingFacts
  <1>4. /\ flash' \in [Addr -> Unit]
        /\ \A a \in Addr : ~(at <= a /\ a < at + c) => flash'[a] = flash[a]
    <2>1. Programmed(c) /\ c \in 0 .. job.write_size - job.processed
      BY <1>2, <1>3 DEF WriteStep
    <2> QED
      BY <1>1, <2>1, ProgrammedFacts
  <1> HIDE DEF c
  <1>5. /\ UNCHANGED <<ram, factory_buf, reboot_pending, before>>
        /\ job' = [job EXCEPT !.processed = n, !.verify_crc = v, !.phase = ph]
    BY <1>1 DEF WriteStep, DataDone, c
  <1>6. /\ SameJob /\ job' \in JobType
        /\ job'.processed = n /\ job'.phase = ph /\ job'.verify_crc = v
    <2>1. n \in Nat /\ ph \in ActivePhases \cup {"idle", "done", "error"}
      BY <1>2, <1>3 DEF ActivePhases
    <2>2. v \in Checksum
      BY <1>2, EmptyCrcType DEF JobTypeOK, JobType
    <2> HIDE DEF n, ph, v
    <2> QED
      BY <1>2, <1>5, <2>1, <2>2 DEF SameJob, JobTypeOK, JobType
  <1>7. JobTypeOK'
    BY <1>2, <1>4, <1>5, <1>6 DEF JobTypeOK
  <1>8. JobShape' /\ MergeInv' /\ Source' = Source /\ JobRange' = JobRange
    BY <1>2, <1>3, <1>5, <1>6, SameJobShape DEF SameJob
  <1>9. \A a \in Addr : at + c <= a /\ a < job.erase_offset + job.erase_size
                        => flash'[a] = Erased
    <2> SUFFICES ASSUME NEW a \in Addr, at + c <= a,
                        a < job.erase_offset + job.erase_size
                 PROVE  flash'[a] = Erased
      OBVIOUS
    <2>1. at \in Nat /\ c \in Nat \ {0} /\ a \in Int
      BY <1>2, <1>3, SizesAssumption DEF Addr
    <2> HIDE DEF at
    <2>2. at <= a /\ ~(at <= a /\ a < at + c)
      BY <2>1
    <2>3. flash[a] = Erased
      BY <1>3, <2>2 DEF Blank
    <2> QED
      BY <1>4, <2>2, <2>3
  <1>10. PhaseProgress'
    <2>1. CASE ~done
      <3>1. /\ job'.phase = "writing" /\ job'.processed = job.processed + c
            /\ job.processed + c < job.write_size
        BY <1>2, <1>3, <1>6, <2>1
      <3> QED
        BY <1>2, <1>3, <1>6, <1>9, <3>1, SizesAssumption
           DEF PhaseProgress, Blank, Addr, SameJob
    <2>2. CASE done
      <3>1. /\ job'.phase = "verifying" /\ job'.processed = 0
            /\ at + c = job.erase_offset + job.write_size
            /\ job'.verify_crc = EmptyCrc
        BY <1>2, <1>3, <1>6, <2>2
      <3>2. EmptyCrc = [i \in 0 .. 0 - 1 |-> flash'[job.erase_offset + i]]
        BY DEF EmptyCrc, Crc
      <3> QED
        BY <1>2, <1>3, <1>6, <1>9, <3>1, <3>2, SizesAssumption
           DEF PhaseProgress, Blank, Addr, SameJob
    <2> QED
      BY <2>1, <2>2
  <1>11. DoneMeansWritten'
    BY <1>6 DEF DoneMeansWritten
  <1>12. Confined'
    <2> SUFFICES ASSUME NEW a \in Addr \ JobRange PROVE flash'[a] = before[a]
      BY <1>5, <1>8 DEF Confined
    <2>1. ~(at <= a /\ a < at + c)
      BY <1>2, <1>3, SizesAssumption DEF JobRange, Addr
    <2> QED
      BY <1>2, <1>4, <2>1
  <1> QED
    BY <1>7, <1>8, <1>10, <1>11, <1>12 DEF JobInv

\* A failed write step.
LEMMA WriteFailInv ==
  ASSUME JobInv, WriteFail
  PROVE  JobInv'
  <1>1. JobTypeOK /\ job.phase = "writing"
    BY DEF JobInv, WriteFail
  <1>2. DataChunk \in 1 .. job.write_size - job.processed
    BY <1>1, WritingFacts
  <1>3. PICK k \in 0 .. DataChunk : Programmed(k)
    BY DEF WriteFail
  <1>4. k \in 0 .. job.write_size - job.processed
    BY <1>1, <1>2, <1>3 DEF JobTypeOK, JobType
  <1>5. /\ flash' \in [Addr -> Unit]
        /\ \A a \in Addr : ~(job.erase_offset + job.processed <= a
                             /\ a < job.erase_offset + job.processed + k)
                           => flash'[a] = flash[a]
    BY <1>1, <1>3, <1>4, ProgrammedFacts
  <1>6. job' = [job EXCEPT !.phase = "error"] /\ UNCHANGED <<ram, factory_buf, reboot_pending, before>>
    BY DEF WriteFail, FailJob
  <1>7. JobTypeOK'
    BY <1>1, <1>5, <1>6 DEF JobTypeOK, JobType
  <1>8. /\ JobActive /\ job.erase_offset \in Nat /\ job.erase_size \in Nat
        /\ job.processed \in Nat
    BY <1>1 DEF JobActive, ActivePhases, JobTypeOK, JobType
  <1>9. job.write_size \in 1 .. job.erase_size
    BY <1>1, WritingFacts
  <1>10. ASSUME NEW a \in Addr \ JobRange PROVE flash'[a] = flash[a]
    <2>1. ~(/\ job.erase_offset + job.processed <= a
            /\ a < job.erase_offset + job.processed + k)
      BY <1>4, <1>8, <1>9, SizesAssumption DEF JobRange, Addr
    <2> QED
      BY <1>5, <2>1
  <1> QED
    BY <1>6, <1>7, <1>8, <1>10, ErrorInv

\* A verify step: what it accepts is what the flash holds.
LEMMA VerifyStepInv ==
  ASSUME JobInv, VerifyStep
  PROVE  JobInv'
  <1> DEFINE c == DataChunk
             lo == job.erase_offset
             n == job.processed + c
             done == n = job.write_size
             v == ReadBack(c)
             ph == IF ~done THEN "verifying"
                   ELSE IF CrcAccepted(v) THEN "done" ELSE "error"
  <1>1. job.phase = "verifying" /\ JobActive
    BY DEF VerifyStep, JobActive, ActivePhases
  <1>2. /\ JobTypeOK /\ JobShape /\ PhaseProgress /\ MergeInv
        /\ \A a \in Addr \ JobRange : flash[a] = before[a]
        /\ job.erase_offset \in Nat /\ job.erase_size \in Nat
        /\ job.write_size \in Nat /\ job.processed \in Nat
    BY <1>1, ActiveFacts
  <1>3. /\ job.mode = "flash" /\ job.write_size \in 1 .. job.erase_size
        /\ lo = Offset(job.part) /\ lo + job.erase_size <= FlashSize
        /\ job.source_crc = Crc(Source, job.write_size)
        /\ job.write_size <= FirmwareSize
        /\ job.processed < job.write_size
        /\ Blank(lo + job.write_size, lo + job.erase_size)
        /\ job.verify_crc = [i \in 0 .. job.processed - 1 |-> flash[lo + i]]
    BY <1>1, <1>2, SizesAssumption, EepromAssumption DEF JobShape, PhaseProgress
  <1>4. c \in 1 .. job.write_size - job.processed
    <2>1. job.write_size - job.processed \in Nat \ {0}
      BY <1>2, <1>3
    <2> QED
      BY <2>1, ChunkBounds DEF DataChunk
  <1> HIDE DEF c
  <1>5. v = [i \in 0 .. n - 1 |-> flash[lo + i]]
    BY <1>2, <1>3, <1>4 DEF ReadBack
  <1>6. v \in Checksum
    <2>1. n \in 0 .. FirmwareSize /\ n \in Nat
      BY SMTT(30), <1>2, <1>3, <1>4, SizesAssumption
    <2>2. \A i \in 0 .. n - 1 : lo + i \in Addr
      <3>1. lo + n <= FlashSize
        BY SMTT(30), <1>2, <1>3, <1>4, SizesAssumption
      <3> QED
        BY <1>2, <2>1, <3>1, SizesAssumption DEF Addr
    <2>3. v \in [0 .. n - 1 -> Unit]
      BY <1>2, <1>5, <2>2 DEF JobTypeOK
    <2> HIDE DEF v, n
    <2> QED
      BY <2>1, <2>3 DEF Checksum
  <1>7. /\ UNCHANGED <<flash, ram, factory_buf, before>>
        /\ reboot_pending' = (reboot_pending \/ (done /\ CrcAccepted(v)))
        /\ job' = [job EXCEPT !.verify_crc = v, !.processed = n, !.phase = ph]
    BY <1>1 DEF VerifyStep, DataDone, RebootWhen, c
  <1> HIDE DEF v
  <1>8. /\ SameJob /\ job' \in JobType
        /\ job'.processed = n /\ job'.phase = ph /\ job'.verify_crc = v
    <2>1. n \in Nat /\ ph \in ActivePhases \cup {"idle", "done", "error"}
      BY <1>2, <1>4 DEF ActivePhases
    <2> HIDE DEF n, ph
    <2> QED
      BY <1>2, <1>6, <1>7, <2>1 DEF SameJob, JobTypeOK, JobType
  <1>9. JobTypeOK'
    <2>1. reboot_pending' \in BOOLEAN
      BY <1>2, <1>7 DEF JobTypeOK
    <2> QED
      BY <1>2, <1>7, <1>8, <2>1 DEF JobTypeOK
  <1>10. JobShape' /\ MergeInv' /\ Source' = Source /\ JobRange' = JobRange
    BY <1>2, <1>3, <1>7, <1>8, SameJobShape DEF SameJob
  <1>11. PhaseProgress'
    <2>1. CASE ~done
      <3>1. job'.phase = "verifying" /\ n < job.write_size
        <4>1. job'.phase = ph
          BY <1>8
        <4>2. ph = "verifying"
          <5> HIDE DEF n, done
          <5> QED
            BY <2>1
        <4>3. n < job.write_size
          <5>1. job.processed \in Nat /\ job.write_size \in Nat
            BY <1>2
          <5> QED
            BY <1>4, <2>1, <5>1
        <4> HIDE DEF ph, n, done
        <4> QED
          BY <4>1, <4>2, <4>3, Zenon
      <3>2. job'.verify_crc = [i \in 0 .. job'.processed - 1 |->
                                 flash'[job'.erase_offset + i]]
        BY <1>5, <1>7, <1>8 DEF SameJob
      <3>3. job'.erase_offset + job'.processed < job'.erase_offset + job'.write_size
        BY <1>2, <1>4, <1>8, <3>1 DEF SameJob
      <3>4. Blank(lo + job.write_size, lo + job.erase_size)'
        BY <1>3, <1>7, <1>8 DEF Blank, SameJob
      <3> QED
        BY <1>8, <3>1, <3>2, <3>3, <3>4 DEF PhaseProgress
    <2>2. CASE done /\ CrcAccepted(v)
      <3>1. job'.phase = "done" /\ reboot_pending'
        BY <1>7, <1>8, <2>2
      <3> QED
        BY <3>1 DEF PhaseProgress
    <2>3. CASE done /\ ~CrcAccepted(v)
      <3>1. job'.phase = "error"
        BY <1>8, <2>3
      <3> QED
        BY <3>1 DEF PhaseProgress
    <2> QED
      BY <2>1, <2>2, <2>3
  <1>12. DoneMeansWritten'
    <2> SUFFICES ASSUME job'.phase = "done", NEW a \in JobRange
                 PROVE  flash[a] = IF a < lo + job.write_size
                                     THEN Source[a - lo] ELSE Erased
      BY <1>3, <1>7, <1>8, <1>10 DEF DoneMeansWritten, SameJob
    <2>1. done /\ CrcAccepted(v)
      BY <1>8
    <2>2. a \in Addr /\ a \in Int /\ lo <= a /\ a < lo + job.erase_size
      BY <1>2, <1>3, SizesAssumption DEF JobRange, Addr
    <2>3. CASE a < lo + job.write_size
      <3>1. a - lo \in 0 .. n - 1 /\ lo + (a - lo) = a
        BY <1>2, <1>3, <2>1, <2>2, <2>3
      <3>2. v[a - lo] = flash[a]
        BY <1>5, <3>1
      <3>3. v = [i \in 0 .. job.write_size - 1 |-> Source[i]]
        BY <1>3, <2>1 DEF CrcAccepted, Crc
      <3> QED
        BY <2>1, <2>3, <3>1, <3>2, <3>3
    <2>4. CASE ~(a < lo + job.write_size)
      BY <1>2, <1>3, <2>2, <2>4 DEF Blank
    <2> QED
      BY <2>3, <2>4
  <1>13. Confined'
    BY <1>2, <1>7, <1>10 DEF Confined
  <1> QED
    BY <1>9, <1>10, <1>11, <1>12, <1>13 DEF JobInv

\* A failed verify step.
LEMMA VerifyFailInv ==
  ASSUME JobInv, VerifyFail
  PROVE  JobInv'
  <1>1. JobTypeOK' /\ JobActive
    BY DEF JobInv, VerifyFail, FailJob, JobTypeOK, JobType, JobActive, ActivePhases
  <1> QED
    BY <1>1, ErrorInv DEF VerifyFail, FailJob

-----------------------------------------------------------------------------
(* The environment's steps.                                                 *)

\* With no job going on, the buffer is free, and so is the flash for changes
\* that are not a job's.
LEMMA FreeInv ==
  ASSUME JobInv, ~Blocked, UNCHANGED <<job, reboot_pending>>, JobTypeOK',
         \A a \in Addr : flash[a] = before[a] => flash'[a] = before'[a]
  PROVE  JobInv'
  <1>1. ~Ongoing
    BY DEF JobInv, Ongoing, Blocked, JobActive, PhaseProgress
  <1>2. Confined'
    BY DEF JobInv, Confined, JobRange
  <1> QED
    BY <1>1, <1>2 DEF JobInv, Ongoing, ActivePhases, DoneMeansWritten

\* An upload fills the buffer.
LEMMA LoadInv ==
  ASSUME JobInv, Load
  PROVE  JobInv'
  <1>1. JobTypeOK'
    BY ImagesAssumption DEF JobInv, JobTypeOK, Load
  <1> QED
    BY <1>1, FreeInv DEF Load

\* env_save() rewrites the environment partition.
LEMMA EnvWriteInv ==
  ASSUME JobInv, EnvWrite
  PROVE  JobInv'
  <1>1. PICK e \in EnvImages : /\ flash' = WithEnvironment(flash, e)
                                /\ before' = WithEnvironment(before, e)
    BY DEF EnvWrite, EnvSaved
  <1>2. e \in [Area("environment") -> Unit]
    BY ImagesAssumption
  <1>3. JobTypeOK'
    BY <1>1, <1>2 DEF JobInv, JobTypeOK, EnvWrite, EnvSaved, WithEnvironment
  <1>4. \A a \in Addr : flash[a] = before[a] => flash'[a] = before'[a]
    BY <1>1 DEF WithEnvironment
  <1> QED
    BY <1>3, <1>4, FreeInv DEF EnvWrite, EnvSaved

\* A reboot is announced.
LEMMA ScheduleRebootInv ==
  ASSUME JobInv, ScheduleReboot
  PROVE  JobInv'
  BY DEF JobInv, ScheduleReboot, JobTypeOK, JobActive, Ongoing, ActivePhases,
         JobShape, PhaseProgress, MergeInv, DoneMeansWritten, Confined,
         Source, JobRange, Blank

\* The job is dropped, or the board restarts.
LEMMA DropInv ==
  ASSUME JobInv, DropJob \/ Restart
  PROVE  JobInv'
  <1>1. job' = NoJob /\ NoJob \in JobType
    BY EmptyCrcType DEF DropJob, ResetJob, Restart, NoJob, JobType, ActivePhases
  <1>2. JobTypeOK'
    BY <1>1 DEF JobInv, JobTypeOK, DropJob, ResetJob, Restart
  <1> QED
    BY <1>1, <1>2, IdleInv

-----------------------------------------------------------------------------
(* The theorems.                                                            *)

\* Every step of the specification preserves the invariant.
LEMMA NextInv ==
  ASSUME JobInv, [JobNext]_jobVars
  PROVE  JobInv'
  <1>1. CASE StartAnyFlashJob
    BY <1>1, StartFlashInv DEF StartAnyFlashJob
  <1>2. CASE StartAnyEraseSettings
    BY <1>2, StartEraseInv DEF StartAnyEraseSettings
  <1>3. CASE JobStep
    BY <1>3, EraseStepInv, EraseFailInv, WriteStepInv, WriteFailInv,
       VerifyStepInv, VerifyFailInv DEF JobStep, StepSucceeds, StepFails
  <1>4. CASE Load
    BY <1>4, LoadInv
  <1>5. CASE EnvWrite
    BY <1>5, EnvWriteInv
  <1>6. CASE ScheduleReboot
    BY <1>6, ScheduleRebootInv
  <1>7. CASE DropJob \/ Restart
    BY <1>7, DropInv
  <1>8. CASE UNCHANGED jobVars
    BY <1>8 DEF jobVars, JobInv, JobTypeOK, Ongoing, JobShape, PhaseProgress,
       MergeInv, DoneMeansWritten, Confined, Source, JobRange, Blank
  <1> QED
    BY <1>1, <1>2, <1>3, <1>4, <1>5, <1>6, <1>7, <1>8 DEF JobNext

\* JobInv is an invariant of the job.
THEOREM JobInvariant == JobSpec => []JobInv
  BY InitInv, NextInv, PTL DEF JobSpec

\* The state of a job is always well-formed: sizes and positions of
\* struct webflash_job are naturals, checksums cover what was read.
THEOREM JobTypeCorrect == JobSpec => []JobTypeOK
  <1>1. JobInv => JobTypeOK
    BY DEF JobInv
  <1> QED
    BY <1>1, JobInvariant, PTL

\* webflash_job_step() programs erased units only.
THEOREM ProgramsErasedOnlyAlways == JobSpec => []ProgramsErasedOnly
  <1>1. JobInv => ProgramsErasedOnly
    <2> SUFFICES ASSUME JobInv, job.phase = "writing",
                        NEW i \in job.processed .. job.write_size - 1
                 PROVE  flash[Offset(job.part) + i] = Erased
      BY DEF ProgramsErasedOnly
    <2>1. JobActive
      BY DEF JobActive, ActivePhases
    <2>2. /\ JobShape /\ job.erase_offset \in Nat /\ job.erase_size \in Nat
          /\ job.write_size \in Nat /\ job.processed \in Nat
      BY <2>1, ActiveFacts
    <2>3. /\ job.mode = "flash" /\ job.write_size \in 1 .. job.erase_size
          /\ Blank(job.erase_offset + job.processed, job.erase_offset + job.erase_size)
      BY WritingFacts
    <2>4. /\ job.erase_offset = Offset(job.part)
          /\ job.erase_offset + job.erase_size <= FlashSize
      BY <2>2, <2>3 DEF JobShape
    <2> QED
      BY <2>2, <2>3, <2>4, SizesAssumption DEF Blank, Addr
  <1> QED
    BY <1>1, JobInvariant, PTL

\* "done" means that the flash holds the image.
THEOREM DoneMeansWrittenAlways == JobSpec => []DoneMeansWritten
  <1>1. JobInv => DoneMeansWritten
    BY DEF JobInv
  <1> QED
    BY <1>1, JobInvariant, PTL

\* A job changes nothing outside the range it erases, not even when one of its
\* SPI operations fails half way.
THEOREM ConfinedAlways == JobSpec => []Confined
  <1>1. JobInv => Confined
    BY DEF JobInv
  <1> QED
    BY <1>1, JobInvariant, PTL

\* The calibration data around the EEPROM survives an EEPROM job.
THEOREM EepromMergeAlways == JobSpec => []EepromMerge
  <1>1. JobInv => EepromMerge
    <2> SUFFICES ASSUME JobInv, job.phase = "done", job.buf = "factory_buf",
                        NEW a \in Area("factory")
                 PROVE  flash[a] = IF a \in Area("eeprom")
                                     THEN ram[a - Offset("eeprom")] ELSE before[a]
      BY DEF EepromMerge
    <2>1. JobShape /\ MergeInv /\ DoneMeansWritten /\ JobTypeOK
      BY DEF JobInv, Ongoing
    <2>2. /\ job.part = "factory" /\ job.write_size = FactorySize
          /\ job.erase_offset = FactoryOffset /\ FactorySize <= job.erase_size
          /\ job.mode = "flash" /\ Source = factory_buf /\ job.erase_size \in Nat
      BY <2>1 DEF JobShape, MergeInv, Offset, Source, JobTypeOK, JobType
    <2>3. a \in FactoryOffset .. FactoryOffset + FactorySize - 1
      BY DEF Area, Offset, Size
    <2>4. a \in JobRange /\ a < job.erase_offset + job.write_size
      BY <2>2, <2>3, SizesAssumption DEF JobRange
    <2>5. flash[a] = factory_buf[a - FactoryOffset]
      BY <2>1, <2>2, <2>4 DEF DoneMeansWritten
    <2>6. a - FactoryOffset \in 0 .. FactorySize - 1
          /\ FactoryOffset + (a - FactoryOffset) = a
      BY <2>3, SizesAssumption
    <2>7. a \in Area("eeprom") <=> EepromOffset <= a - FactoryOffset
                                   /\ a - FactoryOffset < EepromOffset + EepromSize
      BY <2>3, SizesAssumption DEF Area, Offset, Size
    <2>8. a - Offset("eeprom") = (a - FactoryOffset) - EepromOffset
      BY <2>3, SizesAssumption DEF Offset
    <2> QED
      BY <2>1, <2>5, <2>6, <2>7, <2>8 DEF MergeInv
  <1> QED
    BY <1>1, JobInvariant, PTL

-----------------------------------------------------------------------------
(* Sector boundaries.                                                       *)

\* A multiple of s that is not 0 is at least s.
LEMMA AlignedAtLeast ==
  ASSUME NEW x \in Nat \ {0}, NEW s \in Nat \ {0}, x % s = 0
  PROVE  s <= x
  <1>1. x = s * (x \div s) /\ x \div s \in Nat
    BY DivMod
  <1>2. PICK k \in Nat : x = s * k
    BY <1>1
  <1>3. k # 0
    BY <1>2
  <1>4. s * 1 <= s * k
    BY <1>3
  <1> QED
    BY <1>2, <1>4

\* A sector is a whole number of sectors, and so are none and two.
LEMMA SectorsAligned ==
  /\ 0 % SectorSize = 0 /\ SectorSize % SectorSize = 0
  /\ (2 * SectorSize) % SectorSize = 0
  <1>1. SectorSize \in Nat \ {0}
    BY SizesAssumption
  <1>2. (SectorSize * 0) % SectorSize = 0 /\ (SectorSize * 1) % SectorSize = 0
    BY <1>1, MultipleMod
  <1>3. (SectorSize * 2) % SectorSize = 0
    BY <1>1, MultipleMod
  <1>4. SectorSize * 0 = 0 /\ SectorSize * 1 = SectorSize /\ SectorSize * 2 = 2 * SectorSize
    BY <1>1
  <1> QED
    BY <1>2, <1>3, <1>4

\* webflash_job_chunk() cuts whole sectors off a range of whole sectors,
\* however the size of io_buf compares with that of a sector.
LEMMA EraseChunkAligned ==
  ASSUME NEW r \in Nat \ {0}, r % SectorSize = 0
  PROVE  JobChunk(r, TRUE) % SectorSize = 0
  <1> DEFINE c == Min2(r, IoSize)
             d == RoundDown(c, SectorSize)
  <1>1. c \in Nat /\ SectorSize \in Nat \ {0}
    BY SizesAssumption DEF Min2
  <1>2. d % SectorSize = 0
    BY <1>1, RoundDownAligned
  <1>3. Min2(r, SectorSize) = SectorSize
    BY <1>1, AlignedAtLeast DEF Min2
  <1> HIDE DEF c, d
  <1>4. JobChunk(r, TRUE) \in {d, Min2(r, SectorSize)}
    BY DEF JobChunk, c, d
  <1> QED
    BY <1>2, <1>3, <1>4, SectorsAligned

\* The range webflash_start_flash_job() erases is made of whole sectors.
LEMMA EraseRangeAligned ==
  ASSUME NEW p \in Targets, p # "eeprom", NEW n \in 1 .. FirmwareSize, NEW keep \in BOOLEAN
  PROVE  Offset(p) % SectorSize = 0 /\ EraseSize(p, n, keep) % SectorSize = 0
  <1>1. Offset(p) % SectorSize = 0 /\ Size(p) % SectorSize = 0
    BY AlignmentAssumption, SectorsAligned DEF Targets, Partitions, Offset, Size
  <1>2. CASE p # "firmware"
    BY <1>1, <1>2 DEF EraseSize
  <1>3. CASE p = "firmware"
    <2> DEFINE need == RoundUp(n, SectorSize)
    <2>1. n \in Nat /\ SectorSize \in Nat \ {0} /\ 2 * SectorSize \in Nat
      BY SizesAssumption
    <2>2. need \in Nat /\ need % SectorSize = 0
      BY <2>1, RoundUpLower, RoundUpAligned
    <2>3. (need + 2 * SectorSize) % SectorSize = 0
      BY <2>1, <2>2, SumAligned, SectorsAligned
    <2> HIDE DEF need
    <2>4. EraseSize(p, n, keep) \in {need, Size(p), need + 2 * SectorSize}
      BY <1>3 DEF EraseSize, Min2, need
    <2> QED
      BY <1>1, <2>2, <2>3, <2>4
  <1> QED
    BY <1>2, <1>3

\* Starting a job sets up a range of whole sectors; the overlay of a settings
\* reset is on a boundary, and so is the end of the firmware partition.
LEMMA StartSectors ==
  ASSUME StartAnyFlashJob \/ StartAnyEraseSettings
  PROVE  SectorsInv'
  <1>1. SectorSize \in Nat \ {0} /\ FirmwareOffset \in Nat /\ FirmwareSize \in Nat
    BY SizesAssumption
  <1>2. CASE StartAnyFlashJob
    <2>1. PICK p \in Targets, n \in 1 .. FirmwareSize, keep \in BOOLEAN :
                 StartFlashJob(p, n, keep, Crc(ram, n))
      BY <1>2 DEF StartAnyFlashJob
    <2>2. CASE p = "eeprom"
      BY <2>1, <2>2, AlignmentAssumption, SectorsAligned
         DEF StartFlashJob, StartEepromJob, SectorsInv
    <2>3. CASE p # "eeprom"
      BY <2>1, <2>3, EraseRangeAligned, SectorsAligned
         DEF StartFlashJob, StartImageJob, SectorsInv
    <2> QED
      BY <2>2, <2>3
  <1>3. CASE StartAnyEraseSettings
    <2>1. PICK o \in 0 .. FirmwareOffset + FirmwareSize - 1 :
                 o % SectorSize = 0 /\ StartEraseSettings(o)
      BY <1>3 DEF StartAnyEraseSettings
    <2>2. (FirmwareOffset + FirmwareSize) % SectorSize = 0
      BY <1>1, SumAligned, AlignmentAssumption
    <2>3. (FirmwareOffset + FirmwareSize - o) % SectorSize = 0
      <3>1. PICK end \in Nat : end = FirmwareOffset + FirmwareSize
        BY <1>1
      <3>2. o \in Nat /\ o <= end /\ end % SectorSize = 0
        BY <1>1, <2>2, <3>1
      <3>3. (end - o) % SectorSize = 0
        BY <3>2, <1>1, <2>1, DifferenceAligned
      <3> QED
        BY <1>1, <3>1, <3>2, <3>3
    <2> QED
      BY <2>1, <2>3, SectorsAligned DEF StartEraseSettings, NoJob, SectorsInv
  <1> QED
    BY <1>2, <1>3

\* A running job leaves this much to be erased.
LEMMA RemainingAligned ==
  ASSUME JobInv, SectorsInv, job.phase = "erasing"
  PROVE  /\ job.erase_size - job.processed \in Nat \ {0}
         /\ (job.erase_size - job.processed) % SectorSize = 0
         /\ job.erase_offset \in Nat /\ job.processed \in Nat
  <1>1. JobActive
    BY DEF JobActive, ActivePhases
  <1>2. /\ job.erase_offset \in Nat /\ job.erase_size \in Nat /\ job.processed \in Nat
        /\ PhaseProgress
    BY <1>1, ActiveFacts
  <1>3. job.processed < job.erase_size
    BY <1>2 DEF PhaseProgress
  <1>4. SectorSize \in Nat \ {0} /\ job.processed <= job.erase_size
    BY <1>2, <1>3, SizesAssumption
  <1> QED
    BY <1>2, <1>3, <1>4, DifferenceAligned DEF SectorsInv

\* The next piece to be erased is made of whole sectors.
LEMMA NextChunkAligned ==
  ASSUME JobInv, SectorsInv, job.phase = "erasing"
  PROVE  EraseChunk \in Nat \ {0} /\ EraseChunk % SectorSize = 0
  <1> DEFINE r == job.erase_size - job.processed
  <1>1. r \in Nat \ {0} /\ r % SectorSize = 0
    BY RemainingAligned
  <1> HIDE DEF r
  <1>2. JobChunk(r, TRUE) \in 1 .. r
    BY <1>1, ChunkBounds
  <1>3. JobChunk(r, TRUE) % SectorSize = 0
    BY <1>1, EraseChunkAligned
  <1>4. EraseChunk = JobChunk(r, TRUE)
    BY DEF EraseChunk, r
  <1>5. EraseChunk \in 1 .. r
    BY <1>2, <1>4, Zenon
  <1>6. EraseChunk \in Nat \ {0}
    BY <1>1, <1>5
  <1> QED
    BY <1>3, <1>4, <1>6, Zenon

\* Every step leaves an erasing job on a sector boundary.
LEMMA SectorsNext ==
  ASSUME JobInv, SectorsInv, [JobNext]_jobVars
  PROVE  SectorsInv'
  <1>1. CASE StartAnyFlashJob \/ StartAnyEraseSettings
    BY <1>1, StartSectors
  <1>2. CASE EraseStep
    <2>1. job.phase = "erasing"
      BY <1>2 DEF EraseStep
    <2>2. EraseChunk \in Nat /\ EraseChunk % SectorSize = 0 /\ job.processed \in Nat
      BY <2>1, RemainingAligned, NextChunkAligned
    <2>3. (job.processed + EraseChunk) % SectorSize = 0
      BY <2>1, <2>2, SumAligned, SizesAssumption DEF SectorsInv
    <2>4. job \in JobType
      BY DEF JobInv, JobTypeOK
    <2>5. /\ job'.erase_offset = job.erase_offset /\ job'.erase_size = job.erase_size
          /\ job'.processed \in {0, job.processed + EraseChunk}
      BY <1>2, <2>4 DEF EraseStep, JobType
    <2> QED
      BY <2>1, <2>3, <2>5, SectorsAligned DEF SectorsInv
  <1>3. CASE EraseFail \/ WriteFail \/ VerifyFail
    BY <1>3 DEF EraseFail, WriteFail, VerifyFail, FailJob, SectorsInv, JobInv, JobTypeOK, JobType
  <1>4. CASE WriteStep
    <2>1. job'.phase \in {"writing", "verifying"}
      BY <1>4 DEF WriteStep, JobInv, JobTypeOK, JobType
    <2> QED
      BY <2>1 DEF SectorsInv
  <1>5. CASE VerifyStep
    <2>1. job'.phase \in {"verifying", "done", "error"}
      BY <1>5 DEF VerifyStep, JobInv, JobTypeOK, JobType
    <2> QED
      BY <2>1 DEF SectorsInv
  <1>6. CASE DropJob \/ Restart
    BY <1>6 DEF DropJob, ResetJob, Restart, NoJob, SectorsInv
  <1>7. CASE Load \/ EnvWrite \/ ScheduleReboot \/ UNCHANGED jobVars
    BY <1>7 DEF Load, EnvWrite, EnvSaved, ScheduleReboot, jobVars, SectorsInv
  <1> QED
    BY <1>1, <1>2, <1>3, <1>4, <1>5, <1>6, <1>7 DEF JobNext, JobStep, StepSucceeds, StepFails

\* Every range handed to spi_flash_erase() is made of whole sectors, for every
\* size of a sector and of io_buf, and for every image.
THEOREM EraseAlignedAlways == JobSpec => []EraseAligned
  <1>1. JobInit => SectorsInv
    BY DEF JobInit, NoJob, SectorsInv
  <1>2. JobInv /\ SectorsInv => EraseAligned
    <2> SUFFICES ASSUME JobInv, SectorsInv, job.phase = "erasing"
                 PROVE  /\ EraseAt % SectorSize = 0
                        /\ EraseChunk > 0 /\ EraseChunk % SectorSize = 0
      BY DEF EraseAligned
    <2>1. EraseChunk > 0 /\ EraseChunk % SectorSize = 0
      BY NextChunkAligned
    <2>2. EraseAt % SectorSize = 0
      BY RemainingAligned, SumAligned, SizesAssumption DEF EraseAt, SectorsInv
    <2> QED
      BY <2>1, <2>2
  <1> QED
    BY <1>1, <1>2, JobInvariant, SectorsNext, PTL DEF JobSpec
=============================================================================
