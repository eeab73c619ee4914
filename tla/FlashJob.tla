------------------------------ MODULE FlashJob ------------------------------
(***************************************************************************)
(* The background job of cmd/lwip/webflash.c: a job erases a range of the  *)
(* flash, programs it from a RAM buffer and reads it back, one chunk per   *)
(* turn of the server's main loop, and reboots the board when it is done.  *)
(* Any SPI operation may fail half way, a programmed unit may silently     *)
(* come out wrong, and the board may restart between any two steps.        *)
(*                                                                         *)
(* The rest of the server is the environment of this module: it fills the  *)
(* upload buffer, writes the environment partition, and starts jobs.       *)
(* Module WebFlash is that rest; it implements this specification.         *)
(***************************************************************************)
EXTENDS FlashLayout

CONSTANTS
  RamImages,     \* contents uploads may leave in the buffer at load_addr
  EnvImages      \* contents env_save() may leave in the environment partition

ASSUME ImagesAssumption ==
  /\ RamImages \subseteq [0 .. FirmwareSize - 1 -> Byte]
  /\ EnvImages \subseteq [Area("environment") -> Unit]

VARIABLES
  ram,             \* the buffer at ctx->load_addr
  factory_buf,     \* ctx->factory_buf
  job,             \* ctx->job
  reboot_pending,  \* ctx->reboot_pending
  before           \* history: the flash when the current job was started, and
                   \* what env_save() has written to it since

jobVars == <<flash, ram, factory_buf, job, reboot_pending, before>>

-----------------------------------------------------------------------------
(* struct webflash_job. "buf" stands for source_addr and source_buffer: the *)
(* buffer the job programs from. Checksums are contents (see Crc).          *)

NoJob == [mode |-> "none", phase |-> "idle", part |-> "none", buf |-> "ram",
          erase_offset |-> 0, erase_size |-> 0, write_size |-> 0,
          processed |-> 0, source_crc |-> EmptyCrc, verify_crc |-> EmptyCrc]

ActivePhases == {"erasing", "writing", "verifying"}

JobActive == job.phase \in ActivePhases
Source    == IF job.buf = "factory_buf" THEN factory_buf ELSE ram

Checksum == UNION {[0 .. n - 1 -> Unit] : n \in 0 .. FirmwareSize}

JobType ==
  [mode : {"none", "flash", "erase_settings"},
   phase : ActivePhases \cup {"idle", "done", "error"},
   part : Partitions \cup {"ram", "none"}, buf : {"ram", "factory_buf"},
   erase_offset : Nat, erase_size : Nat, write_size : Nat, processed : Nat,
   source_crc : Checksum, verify_crc : Checksum]

-----------------------------------------------------------------------------
(* Starting a job.                                                          *)

\* Mutant of EraseSize: the image size is rounded down to whole sectors.
EraseSizeRoundedDown(p, n, keep) ==
  IF p # "firmware" THEN Size(p)
  ELSE IF n < SectorSize THEN SectorSize ELSE RoundDown(n, SectorSize)

\* Mutant of EraseSize: the margin behind the image is forgotten.
EraseSizeNoMargin(p, n, keep) ==
  IF p # "firmware" THEN Size(p) ELSE RoundUp(n, SectorSize)

\* Mutant of EraseSize: the margin is erased although the settings are kept.
EraseSizeMargin(p, n, keep) ==
  IF p # "firmware" THEN Size(p)
  ELSE Min2(Size(p), RoundUp(n, SectorSize) + 2 * SectorSize)

\* The range webflash_start_flash_job() erases for an n-unit image: the whole
\* partition, except that a firmware image gets just the sectors it needs and,
\* unless the configuration is kept, two more.
EraseSize(p, n, keep) ==
  LET need == RoundUp(n, SectorSize)
  IN  IF p # "firmware" THEN Size(p)
      ELSE IF keep THEN need
      ELSE Min2(Size(p), need + 2 * SectorSize)

\* Mutant of MergedFactory: the EEPROM is copied to the start of the partition.
MergedAtStart ==
  [i \in 0 .. FactorySize - 1 |->
     IF i < EepromSize THEN ram[i] ELSE flash[FactoryOffset + i]]

\* The factory partition with the uploaded EEPROM merged into it.
MergedFactory ==
  [i \in 0 .. FactorySize - 1 |->
     IF EepromOffset <= i /\ i < EepromOffset + EepromSize
       THEN ram[i - EepromOffset] ELSE flash[FactoryOffset + i]]

\* webflash_start_flash_job() for a raw image: every target but the EEPROM.
StartImageJob(p, n, keep, crc) ==
  /\ p # "eeprom"
  /\ job' = [mode |-> "flash", phase |-> "erasing", part |-> p, buf |-> "ram",
             erase_offset |-> Offset(p), erase_size |-> EraseSize(p, n, keep),
             write_size |-> n, processed |-> 0,
             source_crc |-> crc, verify_crc |-> EmptyCrc]
  /\ UNCHANGED factory_buf

\* webflash_start_flash_job() for the EEPROM: a read-modify-write of factory.
StartEepromJob ==
  /\ factory_buf' = MergedFactory
  /\ job' = [mode |-> "flash", phase |-> "erasing", part |-> "factory",
             buf |-> "factory_buf", erase_offset |-> FactoryOffset,
             erase_size |-> FactorySize, write_size |-> FactorySize,
             processed |-> 0, source_crc |-> MergedFactory,
             verify_crc |-> EmptyCrc]

StartFlashJob(p, n, keep, crc) ==
  /\ IF p = "eeprom" THEN StartEepromJob ELSE StartImageJob(p, n, keep, crc)
  /\ before' = flash
  /\ UNCHANGED <<flash, ram, reboot_pending>>

\* The tail of webflash_factory_reset(), once the overlay has been found.
StartEraseSettings(overlay) ==
  /\ job' = [NoJob EXCEPT !.mode = "erase_settings", !.phase = "erasing",
                          !.part = "firmware", !.erase_offset = overlay,
                          !.erase_size = FirmwareOffset + FirmwareSize - overlay]
  /\ before' = flash
  /\ UNCHANGED <<flash, ram, factory_buf, reboot_pending>>

\* memset(&ctx->job, 0, ...): an upload begins, or reading the factory
\* partition for an EEPROM job failed.
ResetJob ==
  /\ job' = NoJob
  /\ UNCHANGED <<flash, ram, factory_buf, reboot_pending, before>>

-----------------------------------------------------------------------------
(* webflash_job_step().                                                     *)

\* Mutant of JobChunk: an erase chunk is not rounded to sectors.
JobChunkUnaligned(remaining, erase) == Min2(remaining, IoSize)

\* webflash_job_chunk()
JobChunk(remaining, erase) ==
  LET chunk   == Min2(remaining, IoSize)
      aligned == RoundDown(chunk, SectorSize)
  IN  IF ~erase THEN chunk
      ELSE IF SectorSize > IoSize THEN Min2(remaining, SectorSize)
      ELSE IF aligned # 0 THEN aligned ELSE Min2(remaining, SectorSize)

EraseChunk == JobChunk(job.erase_size - job.processed, TRUE)
DataChunk  == JobChunk(job.write_size - job.processed, FALSE)

\* Mutant of EraseAt: the erase starts at the partition, not at erase_offset.
EraseAtPartition == Offset(job.part) + job.processed

EraseAt == job.erase_offset + job.processed

\* Mutant of DataDone: the amount written is compared with erase_size.
DataDoneErase == job.processed + DataChunk = job.erase_size

\* The chunk at hand is the last one of the data.
DataDone == job.processed + DataChunk = job.write_size

\* webflash_job_fail()
FailJob == job' = [job EXCEPT !.phase = "error"]

\* Mutant of RebootWhen: the call is missing.
RebootNever(done) == UNCHANGED reboot_pending

\* webflash_schedule_reboot(), called if done
RebootWhen(done) == reboot_pending' = (reboot_pending \/ done)

\* spi_flash_erase() succeeded.
EraseStep ==
  /\ job.phase = "erasing"
  /\ flash' = EraseUnits(flash, EraseAt, EraseChunk)
  /\ LET done == job.processed + EraseChunk = job.erase_size
     IN  /\ job' = [job EXCEPT
                      !.processed = IF done THEN 0 ELSE @ + EraseChunk,
                      !.phase = IF ~done THEN @
                                ELSE IF job.mode = "erase_settings" THEN "done"
                                ELSE "writing"]
         /\ RebootWhen(done /\ job.mode = "erase_settings")
  /\ UNCHANGED <<ram, factory_buf, before>>

\* spi_flash_erase() failed after it had erased k units.
EraseFail ==
  /\ job.phase = "erasing"
  /\ \E k \in 0 .. EraseChunk :
        flash' = EraseUnits(flash, EraseAt, k)
  /\ FailJob
  /\ UNCHANGED <<ram, factory_buf, reboot_pending, before>>

\* spi_flash_write() of n units succeeded, or says so: at most one unit of
\* the chunk may hold something else than what was written.
Programmed(n) ==
  LET lo   == Offset(job.part) + job.processed
      good == ProgramUnits(flash, lo, n, Source, job.processed)
  IN  \E bad \in lo - 1 .. lo + n - 1 :
         flash' = [a \in Addr |-> IF a = bad /\ a >= lo THEN Junk ELSE good[a]]

WriteStep ==
  /\ job.phase = "writing"
  /\ Programmed(DataChunk)
  /\ job' = [job EXCEPT !.processed = IF DataDone THEN 0 ELSE @ + DataChunk,
                        !.verify_crc = IF DataDone THEN EmptyCrc ELSE @,
                        !.phase = IF DataDone THEN "verifying" ELSE @]
  /\ UNCHANGED <<ram, factory_buf, reboot_pending, before>>

\* spi_flash_write() failed after it had programmed k units.
WriteFail ==
  /\ job.phase = "writing"
  /\ \E k \in 0 .. DataChunk : Programmed(k)
  /\ FailJob
  /\ UNCHANGED <<ram, factory_buf, reboot_pending, before>>

\* verify_crc after reading back the next n units.
ReadBack(n) ==
  [i \in 0 .. job.processed + n - 1 |->
     IF i < job.processed THEN job.verify_crc[i] ELSE flash[Offset(job.part) + i]]

\* Mutant of CrcAccepted: the checksums are not compared.
CrcIgnored(crc) == TRUE

CrcAccepted(crc) == crc = job.source_crc

VerifyStep ==
  /\ job.phase = "verifying"
  /\ LET crc == ReadBack(DataChunk)
     IN  /\ job' = [job EXCEPT !.verify_crc = crc,
                               !.processed = @ + DataChunk,
                               !.phase = IF ~DataDone THEN @
                                         ELSE IF CrcAccepted(crc) THEN "done"
                                         ELSE "error"]
         /\ RebootWhen(DataDone /\ CrcAccepted(crc))
  /\ UNCHANGED <<flash, ram, factory_buf, before>>

\* spi_flash_read() failed.
VerifyFail ==
  /\ job.phase = "verifying"
  /\ FailJob
  /\ UNCHANGED <<flash, ram, factory_buf, reboot_pending, before>>

\* webflash_job_step() with an SPI operation that returns success or an error.
StepSucceeds == EraseStep \/ WriteStep \/ VerifyStep
StepFails    == EraseFail \/ WriteFail \/ VerifyFail
JobStep      == StepSucceeds \/ StepFails

-----------------------------------------------------------------------------
(* The environment of the job: the rest of the server and the board.        *)

\* webflash_operation_blocked(), without the RAM boot this module has not.
Blocked == JobActive \/ reboot_pending

StartAnyFlashJob ==
  /\ ~Blocked
  /\ \E p \in Targets, n \in 1 .. FirmwareSize, keep \in BOOLEAN :
        /\ SizeAccepted(p, n)
        /\ StartFlashJob(p, n, keep, Crc(ram, n))

\* webflash_find_overlay() returns a sector boundary below the end of the
\* firmware. That it lies behind the start of the firmware is not checked, and
\* does not hold if the 64-bit sum wraps (RootFs).
StartAnyEraseSettings ==
  /\ ~Blocked
  /\ \E overlay \in 0 .. FirmwareOffset + FirmwareSize - 1 :
        /\ overlay % SectorSize = 0
        /\ StartEraseSettings(overlay)

DropJob == ~Blocked /\ ResetJob

\* webflash_store_upload() writes to the buffer at load_addr.
Load ==
  /\ ~Blocked
  /\ ram' \in RamImages
  /\ UNCHANGED <<flash, factory_buf, job, reboot_pending, before>>

\* A flash f with e in its environment partition.
WithEnvironment(f, e) ==
  [a \in Addr |-> IF a \in Area("environment") THEN e[a] ELSE f[a]]

\* env_save(): the environment partition after a save, complete or not.
EnvSaved ==
  /\ \E e \in EnvImages : /\ flash' = WithEnvironment(flash, e)
                          /\ before' = WithEnvironment(before, e)
  /\ UNCHANGED <<ram, factory_buf, job, reboot_pending>>

EnvWrite == ~Blocked /\ EnvSaved

\* POST /api/reboot
ScheduleReboot ==
  /\ ~JobActive /\ job.phase # "error"
  /\ reboot_pending' = TRUE
  /\ UNCHANGED <<flash, ram, factory_buf, job, before>>

\* The board resets, loses power or leaves the server, at any time. What a
\* broken off SPI operation leaves behind is what EraseFail and WriteFail
\* leave behind.
Restart ==
  /\ job' = NoJob
  /\ reboot_pending' = FALSE
  /\ UNCHANGED <<flash, ram, factory_buf, before>>

-----------------------------------------------------------------------------
JobInit ==
  /\ flash \in FlashImages
  /\ ram \in RamImages
  /\ factory_buf = [i \in 0 .. FactorySize - 1 |-> Erased]
  /\ job = NoJob
  /\ reboot_pending = FALSE
  /\ before = flash

JobNext ==
  \/ StartAnyFlashJob \/ StartAnyEraseSettings \/ DropJob
  \/ JobStep
  \/ Load \/ EnvWrite \/ ScheduleReboot \/ Restart

JobSpec == JobInit /\ [][JobNext]_jobVars

-----------------------------------------------------------------------------
(* What the job promises.                                                   *)

JobTypeOK ==
  /\ flash \in [Addr -> Unit]
  /\ before \in [Addr -> Unit]
  /\ ram \in [0 .. FirmwareSize - 1 -> Byte]
  /\ factory_buf \in [0 .. FactorySize - 1 -> Unit]
  /\ job \in JobType
  /\ reboot_pending \in BOOLEAN

\* webflash_job_step() only programs units that its erase phase has cleared:
\* whatever the target, the erased range covers the written one, and nothing
\* is programmed twice. (NOR cells cannot be set back to one by programming.)
ProgramsErasedOnly ==
  job.phase = "writing" =>
    \A i \in job.processed .. job.write_size - 1 :
      flash[Offset(job.part) + i] = Erased

\* The range a job may touch.
JobRange == job.erase_offset .. job.erase_offset + job.erase_size - 1

\* When webflash_job_step() reports "done", and so announces the reboot, the
\* flash really holds the buffer's content, in spite of chips that report
\* success for a bad write, and the rest of the erased range is blank; after
\* a settings reset the whole range is.
DoneMeansWritten ==
  job.phase = "done" =>
    \A a \in JobRange :
      flash[a] = IF job.mode = "flash" /\ a < job.erase_offset + job.write_size
                   THEN Source[a - job.erase_offset] ELSE Erased

\* A job changes nothing outside its own erase range, whether it is going on,
\* has succeeded or has failed in the middle of an SPI operation: chunking and
\* sector rounding never spill into the next partition. What env_save() writes
\* after a failed job is not the job's doing.
Confined ==
  job.phase # "idle" => \A a \in Addr \ JobRange : flash[a] = before[a]

\* Writing the EEPROM goes through the whole factory partition, but the
\* calibration data around it survives: README.webflash.md keeps the factory
\* partition from every operation but the restore of a full backup.
EepromMerge ==
  job.phase = "done" /\ job.buf = "factory_buf" =>
    \A a \in Area("factory") :
      flash[a] = IF a \in Area("eeprom") THEN ram[a - Offset("eeprom")] ELSE before[a]

\* Every range handed to spi_flash_erase() starts on a sector boundary, is a
\* whole number of sectors and is not empty; the driver refuses anything else
\* and the job would end in an error with the flash half erased.
EraseAligned ==
  job.phase = "erasing" =>
    /\ EraseAt % SectorSize = 0
    /\ EraseChunk > 0 /\ EraseChunk % SectorSize = 0

-----------------------------------------------------------------------------
(* The inductive invariant behind these promises. The parts about phases    *)
(* that are over would not survive a step if the erased range did not cover *)
(* the written one, if a chunk could be empty or too long, or if the buffer *)
(* could change under a running job.                                        *)

Ongoing == job.phase \in ActivePhases \cup {"done"}

\* What a started job looks like, whichever handler started it.
JobShape ==
  /\ job.mode \in {"flash", "erase_settings"}
  /\ job.erase_offset + job.erase_size <= FlashSize
  /\ job.mode = "erase_settings" => job.phase \in {"erasing", "done"}
  /\ job.mode = "flash" =>
       /\ job.part # "none"
       /\ job.erase_offset = Offset(job.part)
       /\ job.write_size \in 1 .. job.erase_size
       /\ job.write_size <= (IF job.buf = "ram" THEN FirmwareSize ELSE FactorySize)
       /\ job.source_crc = Crc(Source, job.write_size)

Blank(x, y) == \A a \in Addr : x <= a /\ a < y => flash[a] = Erased

\* How far the current phase has got, and what the earlier ones have achieved.
PhaseProgress ==
  LET lo == job.erase_offset
      hi == job.erase_offset + job.erase_size
      at == job.erase_offset + job.processed
      to == job.erase_offset + job.write_size
  IN  /\ job.phase = "erasing" => at < hi /\ Blank(lo, at)
      /\ job.phase = "writing" => at < to /\ Blank(at, hi)
      /\ job.phase = "verifying" =>
           /\ at < to
           /\ Blank(to, hi)
           /\ job.verify_crc = [i \in 0 .. job.processed - 1 |-> flash[lo + i]]
      /\ job.phase = "done" => reboot_pending

\* The bytes an EEPROM job writes around the EEPROM are those the factory
\* partition had when the job was started.
MergeInv ==
  job.buf = "factory_buf" =>
    /\ job.part = "factory" /\ job.write_size = FactorySize /\ job.mode = "flash"
    /\ \A i \in 0 .. FactorySize - 1 :
         factory_buf[i] = IF EepromOffset <= i /\ i < EepromOffset + EepromSize
                            THEN ram[i - EepromOffset] ELSE before[FactoryOffset + i]

\* A job that is erasing stands on a sector boundary of a range of whole sectors.
SectorsInv ==
  job.phase = "erasing" =>
    /\ job.erase_offset % SectorSize = 0 /\ job.erase_size % SectorSize = 0
    /\ job.processed % SectorSize = 0

JobInv ==
  /\ JobTypeOK
  /\ Ongoing => JobShape /\ PhaseProgress /\ MergeInv
  /\ DoneMeansWritten
  /\ Confined
=============================================================================
