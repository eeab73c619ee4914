--------------------------- MODULE Settings_proofs ---------------------------
(***************************************************************************)
(* The windowed search for the overlay, and what becomes of the settings   *)
(* of the installed system, for every layout, window size, superblock size *)
(* and content of the flash.                                               *)
(***************************************************************************)
EXTENDS Settings, FlashJob_proofs

-----------------------------------------------------------------------------
(* webflash_find_overlay().                                                 *)

\* Every superblock in the first ReadLen units behind pos is either looked at
\* in this window or left to the next one: the windows overlap just enough.
LEMMA WindowCovers ==
  ASSUME NEW a \in Positions, pos \in Nat, pos <= a, a < pos + Stride
  PROVE  a - pos \in 0 .. ReadLen - SbSize
  BY SizesAssumption, RootFsAssumption
  DEF Positions, Stride, ReadLen, Min2, FirmwareEnd

\* The start of a search satisfies the invariant.
LEMMA ScanInvInit == SearchInit => ScanInv
  <1> SUFFICES ASSUME SearchInit PROVE ScanInv
    OBVIOUS
  <1>1. SearchTypeOK
    BY SizesAssumption, RootFsAssumption, FlashImagesAssumption
    DEF SearchInit, SearchTypeOK, FirmwareEnd
  <1>2. ScannedInv
    BY SizesAssumption, RootFsAssumption
    DEF SearchInit, ScannedInv, Positions, FirmwareEnd
  <1>3. FindsFirst
    BY DEF SearchInit, FindsFirst
  <1> QED
    BY <1>1, <1>2, <1>3 DEF ScanInv

\* A candidate is a natural number.
LEMMA CandidateType ==
  ASSUME NEW f \in [Addr -> Unit], NEW a \in Nat, f[a] \in Superblocks
  PROVE  RootFsEnd(f, a) \in Nat /\ Candidate(f, a) \in Nat
  <1>1. BytesUsed[f[a]] \in Nat /\ U64 \in Nat \ {0}
    BY RootFsAssumption
  <1>2. RootFsEnd(f, a) \in Nat
    BY <1>1 DEF RootFsEnd
  <1>3. SectorSize \in Nat \ {0}
    BY SizesAssumption
  <1>4. Candidate(f, a) \in Nat
    BY <1>2, <1>3, RoundUpLower DEF Candidate
  <1> QED
    BY <1>2, <1>4

\* A window without a hit: everything before the next window is ruled out.
LEMMA WindowWithoutHit ==
  ASSUME ScanInv, status = "scanning", pos + SbSize <= FirmwareEnd,
         Hits = {}, pos' = pos + Stride, UNCHANGED <<flash, status, overlay>>
  PROVE  ScanInv'
  <1>1. SearchTypeOK'
    BY SizesAssumption, RootFsAssumption
    DEF ScanInv, SearchTypeOK, Stride, FirmwareEnd
  <1>2. ScannedInv'
    <2> SUFFICES ASSUME NEW a \in Positions, a < pos + Stride
                 PROVE  ~Accepted(flash, a)
      BY DEF ScannedInv, Accepted, Positions, Candidate, RootFsEnd
    <2>1. CASE a < pos
      BY <2>1 DEF ScanInv, ScannedInv
    <2>2. CASE pos <= a
      <3>1. pos \in Nat /\ a \in Nat
        BY SizesAssumption, RootFsAssumption DEF ScanInv, SearchTypeOK, Positions, FirmwareEnd
      <3>2. a - pos \in 0 .. ReadLen - SbSize
        BY <2>2, <3>1, WindowCovers
      <3>3. ~Accepted(flash, pos + (a - pos))
        BY <3>2 DEF Hits
      <3>4. pos + (a - pos) = a
        BY <3>1
      <3> QED
        BY <3>3, <3>4
    <2>3. pos \in Int /\ a \in Int
      BY SizesAssumption, RootFsAssumption DEF ScanInv, SearchTypeOK, Positions, FirmwareEnd
    <2> QED
      BY <2>1, <2>2, <2>3
  <1>3. FindsFirst'
    BY DEF ScanInv, FindsFirst
  <1> QED
    BY <1>1, <1>2, <1>3 DEF ScanInv

\* A window with hits: the first of them is the first of the partition.
LEMMA WindowWithHit ==
  ASSUME ScanInv, status = "scanning", pos + SbSize <= FirmwareEnd,
         NEW i \in Hits, \A j \in Hits : i <= j,
         overlay' = Candidate(flash, pos + i), status' = "found",
         UNCHANGED <<flash, pos>>
  PROVE  ScanInv'
  <1> DEFINE a == pos + i
  <1>1. pos \in Nat /\ FirmwareOffset <= pos /\ i \in 0 .. ReadLen - SbSize /\ Accepted(flash, a)
    BY SizesAssumption DEF ScanInv, SearchTypeOK, Hits, FirmwareEnd
  <1>2. a \in Positions /\ a \in Nat /\ ReadLen \in Int /\ ReadLen <= FirmwareEnd - pos
    BY <1>1, SizesAssumption, RootFsAssumption DEF Positions, ReadLen, Min2, FirmwareEnd
  <1>3. \A b \in FirmwareOffset .. a - 1 : ~Accepted(flash, b)
    <2> SUFFICES ASSUME NEW b \in FirmwareOffset .. a - 1, Accepted(flash, b) PROVE FALSE
      OBVIOUS
    <2>1. b \in Positions /\ b \in Int
      BY <1>1, <1>2, SizesAssumption, RootFsAssumption DEF Positions, FirmwareEnd
    <2>2. pos <= b
      BY <1>1, <2>1 DEF ScanInv, ScannedInv
    <2>3. b - pos \in 0 .. ReadLen - SbSize
      BY <1>1, <1>2, <2>2, SizesAssumption, RootFsAssumption
    <2>4. pos + (b - pos) = b
      BY <1>1, <2>1
    <2>5. b - pos \in Hits
      BY <2>3, <2>4 DEF Hits
    <2>6. i <= b - pos
      BY <2>5
    <2> QED
      BY <2>6, <1>1, <1>2, <2>1
  <1>4. IsFirst(flash, a)
    BY <1>1, <1>2, <1>3 DEF IsFirst
  <1>5. SearchTypeOK'
    <2>1. Candidate(flash, a) \in Nat /\ Candidate(flash, a) < FirmwareEnd
      BY <1>1, <1>2, CandidateType, FlashImagesAssumption DEF Accepted, ScanInv, SearchTypeOK
    <2>2. overlay' \in 0 .. FirmwareEnd - 1
      BY <2>1, SizesAssumption DEF FirmwareEnd
    <2> QED
      BY <2>2 DEF ScanInv, SearchTypeOK
  <1>6. FindsFirst'
    <2> HIDE DEF a
    <2>1. (\E x \in Positions : IsFirst(flash, x) /\ overlay = Candidate(flash, x))'
      <3>1. overlay' = Candidate(flash', a) /\ IsFirst(flash', a)
        BY <1>4 DEF a
      <3> QED
        BY <3>1, <1>2 DEF IsFirst, Accepted, Candidate, RootFsEnd, Positions
    <2> QED
      BY <2>1 DEF FindsFirst
  <1> QED
    BY <1>5, <1>6 DEF ScanInv, ScannedInv

\* Every step of the search preserves the invariant.
LEMMA ScanInvNext == ScanInv /\ [SearchNext]_searchVars => ScanInv'
  <1> SUFFICES ASSUME ScanInv, [SearchNext]_searchVars PROVE ScanInv'
    OBVIOUS
  <1>1. CASE ScanWindow
    BY <1>1, WindowWithoutHit, WindowWithHit DEF ScanWindow
  <1>2. CASE ReadFails
    BY <1>2 DEF ReadFails, ScanInv, SearchTypeOK, ScannedInv, FindsFirst
  <1>3. CASE NotFound
    <2>1. \A a \in Positions : a < pos
      BY <1>3, SizesAssumption, RootFsAssumption
      DEF NotFound, ScanInv, SearchTypeOK, Positions, FirmwareEnd
    <2>2. \A a \in Positions : ~Accepted(flash, a)
      BY <2>1, <1>3 DEF NotFound, ScanInv, ScannedInv
    <2>3. FindsFirst'
      BY <2>2, <1>3 DEF NotFound, FindsFirst, Accepted, Candidate, RootFsEnd, Positions
    <2> QED
      BY <2>3, <1>3 DEF NotFound, ScanInv, SearchTypeOK, ScannedInv
  <1>4. CASE UNCHANGED searchVars
    BY <1>4 DEF searchVars, ScanInv, SearchTypeOK, ScannedInv, FindsFirst,
                IsFirst, Accepted, Candidate, RootFsEnd, Positions
  <1> QED
    BY <1>1, <1>2, <1>3, <1>4 DEF SearchNext

\* The inductive invariant of webflash_find_overlay() holds throughout.
THEOREM SearchInvariant == SearchSpec => []SearchInv
  <1>1. SearchInit => SearchInv
    BY ScanInvInit DEF SearchInv, SearchInit
  <1>2. SearchInv /\ [SearchNext]_searchVars => SearchInv'
    BY ScanInvNext DEF SearchInv, SearchNext, ScanWindow, ReadFails, NotFound, searchVars
  <1> QED
    BY <1>1, <1>2, PTL DEF SearchSpec

\* The variables of the search keep their types; in particular an overlay that
\* is reported lies inside the flash.
THEOREM SearchTypeCorrect == SearchSpec => []SearchTypeOK
  BY SearchInvariant, PTL DEF SearchInv, ScanInv

\* The windowed search finds what a search of the whole partition would.
THEOREM FindsFirstAlways == SearchSpec => []FindsFirst
  BY SearchInvariant, PTL DEF SearchInv, ScanInv

\* An overlay that passes the tests lies inside the firmware partition and on a
\* sector boundary, unless the size field of the superblock makes the sum wrap.
LEMMA AcceptedInFirmware ==
  ASSUME NEW f \in [Addr -> Unit], NoWrap(f), NEW a \in Positions, Accepted(f, a)
  PROVE  /\ Candidate(f, a) % SectorSize = 0
         /\ FirmwareOffset < Candidate(f, a) /\ Candidate(f, a) < FirmwareEnd
  <1>1. f[a] \in Superblocks /\ BytesUsed[f[a]] \in Nat /\ BytesUsed[f[a]] >= SbSize
        /\ SbSize \in Nat \ {0} /\ U64 \in Nat \ {0} /\ a \in Nat /\ FirmwareOffset <= a
        /\ FirmwareOffset \in Nat /\ SectorSize \in Nat \ {0}
    BY RootFsAssumption, SizesAssumption DEF Accepted, Positions, FirmwareEnd
  <1>2. RootFsEnd(f, a) = a + BytesUsed[f[a]]
    <2>1. a + BytesUsed[f[a]] < U64
      BY <1>1 DEF NoWrap
    <2> QED
      BY <2>1, <1>1 DEF RootFsEnd
  <1>3. RootFsEnd(f, a) \in Nat /\ FirmwareOffset < RootFsEnd(f, a)
    BY <1>1, <1>2
  <1>4. RootFsEnd(f, a) <= Candidate(f, a) /\ Candidate(f, a) \in Nat
    BY <1>1, <1>3, RoundUpLower DEF Candidate
  <1>5. Candidate(f, a) % SectorSize = 0
    BY <1>1, <1>3, RoundUpAligned DEF Candidate
  <1> QED
    BY <1>1, <1>3, <1>4, <1>5 DEF Accepted

\* What webflash_factory_reset() relies on: the erase job it starts stays inside
\* the firmware partition, provided that no size field makes the sum wrap.
THEOREM OverlayInFirmwareAlways ==
  ASSUME \A f \in FlashImages : NoWrap(f)
  PROVE  SearchSpec => []OverlayInFirmware
  <1>1. SearchInv => OverlayInFirmware
    <2> SUFFICES ASSUME SearchInv, status = "found"
                 PROVE  /\ overlay % SectorSize = 0
                        /\ FirmwareOffset < overlay /\ overlay < FirmwareEnd
      BY DEF OverlayInFirmware
    <2>1. PICK a \in Positions : IsFirst(flash, a) /\ overlay = Candidate(flash, a)
      BY DEF SearchInv, ScanInv, FindsFirst
    <2>2. flash \in [Addr -> Unit] /\ NoWrap(flash)
      BY FlashImagesAssumption DEF SearchInv, ScanInv, SearchTypeOK
    <2> QED
      BY <2>1, <2>2, AcceptedInFirmware DEF IsFirst
  <1> QED
    BY <1>1, SearchInvariant, PTL

-----------------------------------------------------------------------------
(* Settings: the job and the search together.                               *)

\* With sizes that do not take the sum beyond its range, none wraps.
LEMMA NoWrapAnywhere ==
  ASSUME SizesDoNotWrap, NEW f \in [Addr -> Unit]
  PROVE  NoWrap(f)
  <1> SUFFICES ASSUME NEW a \in Positions, f[a] \in Superblocks
               PROVE  a + BytesUsed[f[a]] < U64
    BY DEF NoWrap
  <1>1. a \in Nat /\ a < FlashSize /\ FlashSize \in Nat
    BY SizesAssumption, LayoutAssumption, RootFsAssumption DEF Positions, FirmwareEnd
  <1>2. BytesUsed[f[a]] \in Nat /\ U64 \in Nat
    BY RootFsAssumption
  <1>3. FlashSize + BytesUsed[f[a]] <= U64
    BY DEF SizesDoNotWrap
  <1> QED
    BY <1>1, <1>2, <1>3

\* The verdict on a superblock depends on its own unit only.
LEMMA SameSuperblock ==
  ASSUME NEW f, NEW g, NEW a, f[a] = g[a]
  PROVE  /\ Accepted(f, a) <=> Accepted(g, a)
         /\ RootFsEnd(f, a) = RootFsEnd(g, a) /\ Candidate(f, a) = Candidate(g, a)
  BY DEF Accepted, RootFsEnd, Candidate

\* Where an accepted superblock, its file system and its overlay lie.
LEMMA AcceptedPlaces ==
  ASSUME SizesDoNotWrap, NEW f \in [Addr -> Unit], NEW a \in Positions, Accepted(f, a)
  PROVE  /\ a \in Nat /\ RootFsEnd(f, a) \in Nat /\ Candidate(f, a) \in Nat
         /\ FirmwareOffset <= a /\ a < RootFsEnd(f, a)
         /\ RootFsEnd(f, a) <= Candidate(f, a) /\ Candidate(f, a) < FirmwareEnd
         /\ Candidate(f, a) % SectorSize = 0
  <1>1. a \in Nat /\ FirmwareOffset <= a /\ SectorSize \in Nat \ {0}
    BY SizesAssumption, RootFsAssumption DEF Positions, FirmwareEnd
  <1>2. f[a] \in Superblocks /\ BytesUsed[f[a]] >= SbSize
    BY DEF Accepted
  <1>3. BytesUsed[f[a]] \in Nat \ {0} /\ U64 \in Nat \ {0}
    BY <1>2, RootFsAssumption
  <1>4. RootFsEnd(f, a) = a + BytesUsed[f[a]]
    <2>1. a + BytesUsed[f[a]] < U64
      BY <1>2, NoWrapAnywhere DEF NoWrap
    <2> QED
      BY <2>1, <1>1, <1>3 DEF RootFsEnd
  <1>5. RootFsEnd(f, a) \in Nat /\ a < RootFsEnd(f, a)
    BY <1>1, <1>3, <1>4
  <1>6. Candidate(f, a) \in Nat /\ RootFsEnd(f, a) <= Candidate(f, a)
    BY <1>1, <1>5, RoundUpLower DEF Candidate
  <1>7. Candidate(f, a) % SectorSize = 0
    BY <1>1, <1>5, RoundUpAligned DEF Candidate
  <1> QED
    BY <1>1, <1>5, <1>6, <1>7 DEF Accepted

\* What webflash_factory_reset() gets from a search that found something.
LEMMA FoundOverlay ==
  ASSUME SizesDoNotWrap, ScanInv, status = "found"
  PROVE  /\ overlay \in FirmwareOffset + 1 .. FirmwareOffset + FirmwareSize - 1
         /\ overlay % SectorSize = 0
         /\ \E a \in Positions : IsFirst(flash, a) /\ overlay = Candidate(flash, a)
  <1>1. PICK a \in Positions : IsFirst(flash, a) /\ overlay = Candidate(flash, a)
    BY DEF ScanInv, FindsFirst
  <1>2. flash \in [Addr -> Unit] /\ Accepted(flash, a)
    BY <1>1 DEF ScanInv, SearchTypeOK, IsFirst
  <1>3. /\ overlay \in Nat /\ overlay % SectorSize = 0
        /\ FirmwareOffset < overlay /\ overlay < FirmwareEnd
    <2>1. /\ a \in Nat /\ RootFsEnd(flash, a) \in Nat /\ Candidate(flash, a) \in Nat
          /\ FirmwareOffset <= a /\ a < RootFsEnd(flash, a)
          /\ RootFsEnd(flash, a) <= Candidate(flash, a) /\ Candidate(flash, a) < FirmwareEnd
      BY <1>2, AcceptedPlaces
    <2>2. FirmwareOffset < Candidate(flash, a)
      BY <2>1, SizesAssumption
    <2>3. Candidate(flash, a) % SectorSize = 0
      BY <1>2, AcceptedPlaces
    <2> QED
      BY <1>1, <2>1, <2>2, <2>3, Zenon
  <1> QED
    BY <1>1, <1>3, SizesAssumption DEF FirmwareEnd

\* An image in the buffer is one the job takes.
LEMMA UploadSize ==
  ASSUME UploadInv, completed_size > 0
  PROVE  completed_size \in 1 .. FirmwareSize /\ SizeAccepted("firmware", completed_size)
  <1>1. completed_size \in 1 .. FirmwareSize
    BY ImageAssumption DEF UploadInv, InBuffer
  <1> QED
    BY <1>1 DEF SizeAccepted, Size, Protected

\* The server of Settings uses the job as its specification allows.
LEMMA SettingsRefines ==
  ASSUME SizesDoNotWrap, SettingsInv, [SettingsNext]_settingsVars
  PROVE  [JobNext]_jobVars
  <1>1. CASE BeginUpload
    BY <1>1 DEF BeginUpload, JobNext
  <1>2. CASE \E img \in Images : EndUpload(img)
    BY <1>2 DEF EndUpload, JobNext
  <1>3. ASSUME NEW keep \in BOOLEAN, Flash(keep) PROVE JobNext
    <2>1. completed_size \in 1 .. FirmwareSize /\ SizeAccepted("firmware", completed_size)
      BY <1>3, UploadSize DEF Flash, SettingsInv
    <2>2. "firmware" \in Targets
      BY DEF Targets, Partitions
    <2>3. ~Blocked /\ StartFlashJob("firmware", completed_size, keep, Crc(ram, completed_size))
      BY <1>3 DEF Flash
    <2>4. StartAnyFlashJob
      BY <2>1, <2>2, <2>3 DEF StartAnyFlashJob
    <2> QED
      BY <2>4 DEF JobNext
  <1>4. CASE BeginReset
    BY <1>4 DEF BeginReset
  <1>5. CASE Search
    BY <1>5 DEF Search, SearchNext, ScanWindow, ReadFails, NotFound, jobVars
  <1>6. CASE EndReset
    <2>1. CASE status # "found"
      BY <1>6, <2>1 DEF EndReset
    <2>2. CASE status = "found"
      <3>1. /\ overlay \in FirmwareOffset + 1 .. FirmwareOffset + FirmwareSize - 1
            /\ overlay % SectorSize = 0
        BY <2>2, FoundOverlay DEF SettingsInv
      <3>2. ~Blocked /\ StartEraseSettings(overlay)
        BY <1>6, <2>2 DEF EndReset, SettingsInv
      <3>3. StartAnyEraseSettings
        BY <3>1, <3>2, SizesAssumption DEF StartAnyEraseSettings
      <3> QED
        BY <3>3 DEF JobNext
    <2> QED
      BY <2>1, <2>2
  <1>7. CASE Turn
    BY <1>7 DEF Turn, JobNext
  <1>8. CASE RestartServer
    BY <1>8 DEF RestartServer, JobNext
  <1>9. CASE UNCHANGED settingsVars
    BY <1>9 DEF settingsVars
  <1> QED
    BY <1>1, <1>2, <1>3, <1>4, <1>5, <1>6, <1>7, <1>8, <1>9 DEF SettingsNext

-----------------------------------------------------------------------------
(* What the units of the flash become.                                      *)

\* A step of a job leaves a unit alone, erases it, spoils it, or writes the
\* unit of the buffer that belongs there.
LEMMA TouchedUnits ==
  ASSUME JobInv, JobStep, NEW x \in Addr
  PROVE  \/ flash'[x] = flash[x]
         \/ flash'[x] \in {Erased, Junk}
         \/ /\ job.phase = "writing" /\ job.mode = "flash"
            /\ x - Offset(job.part) \in 0 .. job.write_size - 1
            /\ flash'[x] = Source[x - Offset(job.part)]
  <1>1. CASE EraseStep \/ EraseFail
    BY <1>1 DEF EraseStep, EraseFail, EraseUnits
  <1>2. CASE VerifyStep \/ VerifyFail
    BY <1>2 DEF VerifyStep, VerifyFail
  <1>3. CASE WriteStep \/ WriteFail
    <2>1. job.phase = "writing" /\ JobActive
      BY <1>3 DEF WriteStep, WriteFail, JobActive, ActivePhases
    <2>2. /\ JobShape /\ PhaseProgress
          /\ job.erase_offset \in Nat /\ job.write_size \in Nat /\ job.processed \in Nat
      BY <2>1, ActiveFacts
    <2>3. job.mode = "flash" /\ Offset(job.part) = job.erase_offset
      BY <2>1, <2>2 DEF JobShape
    <2>4. job.processed < job.write_size
      BY <2>1, <2>2 DEF PhaseProgress
    <2>5. DataChunk \in 1 .. job.write_size - job.processed
      <3>1. PICK r \in Nat \ {0} : r = job.write_size - job.processed
        BY <2>2, <2>4
      <3>2. JobChunk(r, FALSE) \in 1 .. r
        BY <3>1, ChunkBounds
      <3> QED
        BY <3>1, <3>2, Zenon DEF DataChunk
    <2>6. PICK n \in 0 .. DataChunk : Programmed(n)
      <3>1. DataChunk \in 0 .. DataChunk
        BY <2>2, <2>5
      <3> QED
        BY <1>3, <3>1 DEF WriteStep, WriteFail
    <2>7. n \in Nat /\ job.processed + n <= job.write_size
      BY <2>2, <2>5, <2>6
    <2> DEFINE lo == Offset(job.part) + job.processed
               good == ProgramUnits(flash, lo, n, Source, job.processed)
    <2>8. flash'[x] = Junk \/ flash'[x] = good[x]
      BY <2>6 DEF Programmed
    <2>9. CASE ~(lo <= x /\ x < lo + n)
      BY <2>8, <2>9 DEF ProgramUnits
    <2>10. CASE lo <= x /\ x < lo + n
      <3>1. good[x] = Program(flash[x], Source[job.processed + (x - lo)])
        BY <2>10 DEF ProgramUnits
      <3>2. job.processed + (x - lo) = x - Offset(job.part)
            /\ x - Offset(job.part) \in 0 .. job.write_size - 1
        BY <2>2, <2>3, <2>7, <2>10, SizesAssumption DEF Addr
      <3>3. good[x] \in {flash[x], Source[x - Offset(job.part)], Junk}
        BY <3>1, <3>2 DEF Program
      <3> HIDE DEF good
      <3> QED
        BY <2>1, <2>3, <2>8, <3>2, <3>3
    <2> QED
      BY <2>9, <2>10
  <1> QED
    BY <1>1, <1>2, <1>3 DEF JobStep, StepSucceeds, StepFails

\* What a job writes is a unit of an image.
LEMMA WrittenUnit ==
  ASSUME JobOrigin, job.phase = "writing", job.mode = "flash",
         NEW i \in 0 .. job.write_size - 1
  PROVE  \E img \in Images : /\ job.write_size = Len(img)
                             /\ \A j \in 0 .. job.write_size - 1 : Source[j] = img[j + 1]
                             /\ Source[i] # Setting
  <1>1. job.buf = "ram" /\ InBuffer(job.write_size)
    BY DEF JobOrigin, Ongoing, ActivePhases
  <1>2. PICK img \in Images : /\ job.write_size = Len(img)
                             /\ \A j \in 0 .. job.write_size - 1 : ram[j] = img[j + 1]
    BY <1>1 DEF InBuffer
  <1>3. img \in Seq(Byte \ {Setting})
    BY ImageAssumption
  <1>4. Len(img) \in Nat /\ i + 1 \in 1 .. Len(img)
    BY <1>2, <1>3
  <1>5. img[i + 1] # Setting
    BY <1>3, <1>4
  <1> QED
    BY <1>1, <1>2, <1>5 DEF Source

\* No step of a job makes a unit one of settings.
LEMMA NoNewSetting ==
  ASSUME JobInv, JobOrigin, JobStep, NEW x \in Addr, flash[x] # Setting
  PROVE  flash'[x] # Setting
  <1>1. Setting # Erased /\ Setting # Junk
    BY ImageAssumption, DataAssumption
  <1>2. CASE /\ job.phase = "writing" /\ job.mode = "flash"
             /\ x - Offset(job.part) \in 0 .. job.write_size - 1
             /\ flash'[x] = Source[x - Offset(job.part)]
    BY <1>2, WrittenUnit
  <1> QED
    BY <1>1, <1>2, TouchedUnits

\* The range a job erases, in the flash.
LEMMA JobRangeInFlash ==
  ASSUME JobInv, JobActive \/ job.phase = "done"
  PROVE  JobRange \subseteq Addr
  <1>1. job.erase_offset \in Nat /\ job.erase_size \in Nat /\ JobShape
    BY DEF JobInv, JobTypeOK, JobType, JobActive, Ongoing
  <1> QED
    BY <1>1, SizesAssumption DEF JobShape, JobRange, Addr

\* What is erased for an image is clean once it is erased, and stays so.
LEMMA RangeCleanTurn ==
  ASSUME JobInv, JobInv', JobOrigin, RangeClean, JobStep
  PROVE  RangeClean'
  <1> SUFFICES ASSUME job'.mode = "flash", job'.phase \in {"writing", "verifying", "done"},
                      NEW x \in JobRange'
               PROVE  flash'[x] # Setting
    BY DEF RangeClean
  <1>1. Setting # Erased
    BY ImageAssumption, DataAssumption
  <1>2. job \in JobType /\ job' \in JobType
    BY DEF JobInv, JobTypeOK
  <1>3. JobActive /\ (JobActive' \/ job'.phase = "done")
    BY DEF JobStep, StepSucceeds, StepFails, EraseStep, EraseFail, WriteStep, WriteFail,
           VerifyStep, VerifyFail, JobActive, ActivePhases
  <1>4. x \in Addr
    <2>1. job'.erase_offset \in Nat /\ job'.erase_size \in Nat /\ JobShape'
      BY <1>2, <1>3 DEF JobInv, JobType, JobActive, Ongoing
    <2> QED
      BY <2>1, SizesAssumption DEF JobShape, JobRange, Addr
  <1>5. CASE job.phase = "erasing"
    <2>1. EraseStep
      BY <1>2, <1>5 DEF JobStep, StepSucceeds, StepFails, EraseFail, WriteStep, WriteFail,
                        VerifyStep, VerifyFail, FailJob, JobType
    <2>2. job'.phase = "writing" /\ job'.processed = 0
      BY <1>2, <2>1, <1>5 DEF EraseStep, JobType
    <2>3. PhaseProgress' /\ job'.erase_offset \in Nat /\ job'.erase_size \in Nat
      BY <1>2, <2>2 DEF JobInv, Ongoing, ActivePhases, JobType
    <2>4. flash'[x] = Erased
      <3>1. Blank(job.erase_offset + job.processed, job.erase_offset + job.erase_size)'
        BY <2>2, <2>3, Zenon DEF PhaseProgress
      <3>2. /\ job'.erase_offset + job'.processed <= x
            /\ x < job'.erase_offset + job'.erase_size
        BY <1>4, <2>2, <2>3 DEF JobRange
      <3> QED
        BY <1>4, <3>1, <3>2 DEF Blank
    <2> QED
      BY <1>1, <2>4
  <1>6. CASE job.phase \in {"writing", "verifying"}
    <2>1. /\ job'.mode = job.mode /\ job'.erase_offset = job.erase_offset
          /\ job'.erase_size = job.erase_size
      BY <1>2, <1>6 DEF JobStep, StepSucceeds, StepFails, EraseStep, EraseFail, WriteStep,
                        WriteFail, VerifyStep, VerifyFail, FailJob, JobType
    <2>2. x \in JobRange
      BY <2>1 DEF JobRange
    <2>3. flash[x] # Setting
      BY <1>6, <2>1, <2>2 DEF RangeClean
    <2> QED
      BY <1>4, <2>3, NoNewSetting
  <1> QED
    BY <1>3, <1>5, <1>6 DEF JobActive, ActivePhases

\* How much of the flash an image's own file system and overlay take.
LEMMA ImagePlaces ==
  ASSUME SizesDoNotWrap, NEW img \in Images, NEW a \in Positions, Accepted(InPlace(img), a)
  PROVE  /\ FirmwareOffset <= a /\ a < FirmwareOffset + Len(img)
         /\ Candidate(InPlace(img), a) <= FirmwareOffset + RoundUp(Len(img), SectorSize)
  <1>1. /\ img \in Seq(Byte \ {Setting}) /\ Len(img) \in 1 .. FirmwareSize
        /\ RootFsEnd(InPlace(img), a) <= FirmwareOffset + Len(img)
    BY ImageAssumption
  <1>2. FirmwareOffset \in Nat /\ SectorSize \in Nat \ {0} /\ Len(img) \in Nat
    BY <1>1, SizesAssumption
  <1>3. a \in Addr /\ a \in Nat /\ FirmwareOffset <= a
    BY SizesAssumption, LayoutAssumption, RootFsAssumption DEF Positions, FirmwareEnd, Addr
  <1>4. InPlace(img)[a] \in Superblocks /\ Erased \notin Superblocks
    BY RootFsAssumption, DataAssumption DEF Accepted
  <1>5. a < FirmwareOffset + Len(img)
    BY <1>3, <1>4 DEF InPlace
  <1>6. RootFsEnd(InPlace(img), a) \in Nat
    <2>1. BytesUsed[InPlace(img)[a]] \in Nat /\ U64 \in Nat \ {0}
      BY <1>4, RootFsAssumption
    <2> QED
      BY <1>3, <2>1 DEF RootFsEnd
  <1> DEFINE need == RoundUp(Len(img), SectorSize)
             end == FirmwareOffset + need
  <1>7. need \in Nat /\ Len(img) <= need /\ need % SectorSize = 0
    BY <1>2, RoundUpLower, RoundUpAligned
  <1> HIDE DEF need
  <1>8. end \in Nat /\ RootFsEnd(InPlace(img), a) <= end
    BY <1>1, <1>2, <1>6, <1>7
  <1>9. end % SectorSize = 0
    BY <1>2, <1>7, SumAligned, AlignmentAssumption
  <1> HIDE DEF end
  <1>10. Candidate(InPlace(img), a) <= end
    BY <1>2, <1>6, <1>8, <1>9, RoundUpUpper DEF Candidate
  <1> QED
    BY <1>3, <1>5, <1>10 DEF end, need

\* The range that is erased for an image holds the image, rounded up.
LEMMA RangeHoldsImage ==
  ASSUME JobInv, JobOrigin, Ongoing, job.mode = "flash"
  PROVE  /\ job.erase_offset = FirmwareOffset /\ job.erase_size \in Nat
         /\ Offset(job.part) = FirmwareOffset
         /\ RoundUp(job.write_size, SectorSize) <= job.erase_size
  <1>1. /\ job.part = "firmware" /\ InBuffer(job.write_size)
        /\ job.erase_size = EraseSize("firmware", job.write_size, keep_config)
    BY DEF JobOrigin
  <1>2. job.erase_offset = FirmwareOffset /\ job.erase_size \in Nat /\ Offset(job.part) = FirmwareOffset
    BY <1>1 DEF JobInv, JobShape, JobTypeOK, JobType, Offset
  <1> DEFINE need == RoundUp(job.write_size, SectorSize)
  <1>3. job.write_size \in 1 .. FirmwareSize
    BY <1>1, ImageAssumption DEF InBuffer
  <1>4. job.write_size \in Nat /\ SectorSize \in Nat \ {0} /\ FirmwareSize \in Nat
        /\ job.write_size <= FirmwareSize
    BY <1>3, SizesAssumption
  <1>5. need \in Nat /\ need <= FirmwareSize
    BY <1>4, RoundUpLower, RoundUpUpper, AlignmentAssumption
  <1>6. job.erase_size \in {need, Min2(FirmwareSize, need + 2 * SectorSize)}
    BY <1>1 DEF EraseSize, Size
  <1> HIDE DEF need
  <1>7. need <= job.erase_size
    BY <1>4, <1>5, <1>6 DEF Min2
  <1> QED
    BY <1>2, <1>7 DEF need

\* A step of a job leaves no settings between a file system and its overlay,
\* neither those of the installed system nor those of the image.
LEMMA CleanPaddingTurn ==
  ASSUME SizesDoNotWrap, JobInv, JobInv', JobOrigin, RangeClean, CleanPadding(flash), JobStep
  PROVE  CleanPadding(flash')
  <1> SUFFICES ASSUME NEW a \in Positions, Accepted(flash', a),
                      NEW x \in RootFsEnd(flash', a) .. Candidate(flash', a) - 1
               PROVE  flash'[x] # Setting
    BY DEF CleanPadding
  <1>1. flash \in [Addr -> Unit] /\ flash' \in [Addr -> Unit]
    BY DEF JobInv, JobTypeOK
  <1>2. /\ a \in Nat /\ RootFsEnd(flash', a) \in Nat /\ Candidate(flash', a) \in Nat
        /\ FirmwareOffset <= a /\ a < RootFsEnd(flash', a)
        /\ Candidate(flash', a) < FirmwareEnd
    BY <1>1, AcceptedPlaces
  <1>3. a \in Addr /\ x \in Addr /\ x \in Nat /\ FirmwareOffset < x
    BY <1>2, SizesAssumption, LayoutAssumption, RootFsAssumption DEF Positions, FirmwareEnd, Addr
  <1>4. CASE flash'[a] = flash[a]
    <2>1. Accepted(flash, a) /\ RootFsEnd(flash, a) = RootFsEnd(flash', a)
          /\ Candidate(flash, a) = Candidate(flash', a)
      BY <1>4, SameSuperblock
    <2>2. flash[x] # Setting
      BY <2>1 DEF CleanPadding
    <2> QED
      BY <1>3, <2>2, NoNewSetting
  <1>5. CASE flash'[a] \in {Erased, Junk}
    BY <1>5, RootFsAssumption, DataAssumption DEF Accepted
  <1>6. CASE /\ job.phase = "writing" /\ job.mode = "flash"
             /\ a - Offset(job.part) \in 0 .. job.write_size - 1
             /\ flash'[a] = Source[a - Offset(job.part)]
    <2>1. PICK img \in Images : /\ job.write_size = Len(img)
                               /\ \A j \in 0 .. job.write_size - 1 : Source[j] = img[j + 1]
      BY <1>6, WrittenUnit
    <2>2. Ongoing /\ JobActive
      BY <1>6 DEF Ongoing, JobActive, ActivePhases
    <2>3. /\ job.erase_offset = FirmwareOffset /\ job.erase_size \in Nat
          /\ Offset(job.part) = FirmwareOffset
          /\ RoundUp(Len(img), SectorSize) <= job.erase_size
      BY <1>6, <2>1, <2>2, RangeHoldsImage
    <2>4. Len(img) \in Nat /\ FirmwareOffset \in Nat /\ RoundUp(Len(img), SectorSize) \in Nat
      <3>1. Len(img) \in Nat /\ SectorSize \in Nat \ {0}
        BY ImageAssumption, SizesAssumption
      <3> QED
        BY <3>1, SizesAssumption, RoundUpLower
    <2>5. flash'[a] = InPlace(img)[a]
      <3>1. a - FirmwareOffset \in 0 .. Len(img) - 1
        BY <1>6, <2>1, <2>3
      <3>2. flash'[a] = img[a - FirmwareOffset + 1]
        BY <1>6, <2>1, <2>3, <3>1
      <3>3. FirmwareOffset <= a /\ a < FirmwareOffset + Len(img)
        BY <1>2, <2>4, <3>1
      <3> QED
        BY <1>3, <3>2, <3>3 DEF InPlace
    <2>6. Accepted(InPlace(img), a) /\ Candidate(InPlace(img), a) = Candidate(flash', a)
      BY <2>5, SameSuperblock
    <2>7. Candidate(flash', a) <= FirmwareOffset + RoundUp(Len(img), SectorSize)
      BY <2>6, ImagePlaces
    <2>8. x \in JobRange
      BY <1>2, <1>3, <2>3, <2>4, <2>7, SizesAssumption DEF JobRange
    <2>9. flash[x] # Setting
      BY <1>6, <2>8 DEF RangeClean
    <2> QED
      BY <1>3, <2>9, NoNewSetting
  <1> QED
    BY <1>3, <1>4, <1>5, <1>6, TouchedUnits

-----------------------------------------------------------------------------
(* The conjuncts of the invariant, one by one, over the steps of the server. *)

\* The buffer holds the valid upload until it is forgotten.
LEMMA UploadNext ==
  ASSUME SettingsInv, [SettingsNext]_settingsVars
  PROVE  UploadInv' /\ keep_config' \in BOOLEAN
  <1>1. UploadInv /\ keep_config \in BOOLEAN
    BY DEF SettingsInv
  <1>2. CASE BeginUpload \/ RestartServer
    <2>1. completed_size' = 0 /\ (keep_config' = keep_config \/ keep_config' = FALSE)
      BY <1>2 DEF BeginUpload, RestartServer
    <2>2. UploadInv'
      BY <2>1 DEF UploadInv
    <2> QED
      BY <1>1, <2>1, <2>2
  <1>3. ASSUME NEW img \in Images, EndUpload(img) PROVE UploadInv' /\ keep_config' \in BOOLEAN
    <2>1. /\ Len(img) \in 1 .. FirmwareSize /\ completed_size' = Len(img)
          /\ ram' = [i \in 0 .. FirmwareSize - 1 |-> IF i < Len(img) THEN img[i + 1] ELSE ram[i]]
      BY <1>3, ImageAssumption DEF EndUpload
    <2>2. \A i \in 0 .. Len(img) - 1 : ram'[i] = img[i + 1]
      BY <2>1, SizesAssumption
    <2>3. InBuffer(completed_size)'
      BY <2>1, <2>2 DEF InBuffer
    <2> QED
      BY <1>1, <1>3, <2>1, <2>3, SizesAssumption DEF UploadInv, EndUpload
  <1>4. ASSUME NEW keep \in BOOLEAN, Flash(keep) PROVE UploadInv' /\ keep_config' \in BOOLEAN
    BY <1>1, <1>4 DEF Flash, StartFlashJob, UploadInv, InBuffer
  <1>5. CASE UNCHANGED <<ram, uploadVars>>
    BY <1>1, <1>5 DEF uploadVars, UploadInv, InBuffer
  <1>6. BeginReset \/ Search \/ EndReset \/ Turn \/ UNCHANGED settingsVars
          => UNCHANGED <<ram, uploadVars>>
    BY DEF BeginReset, Search, EndReset, StartEraseSettings, Turn, JobStep, StepSucceeds,
           StepFails, EraseStep, EraseFail, WriteStep, WriteFail, VerifyStep, VerifyFail,
           settingsVars, jobVars, uploadVars
  <1> QED
    BY <1>2, <1>3, <1>4, <1>5, <1>6 DEF SettingsNext

\* A job that runs unchanged was started for the same thing.
LEMMA SameOrigin ==
  ASSUME JobOrigin, UNCHANGED <<ram, before, keep_config>>, Ongoing' => Ongoing,
         /\ job'.mode = job.mode /\ job'.part = job.part /\ job'.buf = job.buf
         /\ job'.erase_offset = job.erase_offset /\ job'.erase_size = job.erase_size
         /\ job'.write_size = job.write_size
  PROVE  JobOrigin'
  BY DEF JobOrigin, InBuffer

\* What a job was started for stays true while it runs.
LEMMA OriginNext ==
  ASSUME SizesDoNotWrap, SettingsInv, [SettingsNext]_settingsVars
  PROVE  JobOrigin'
  <1>1. JobOrigin /\ JobInv /\ UploadInv /\ CleanPadding(flash) /\ ScanInv /\ JobTypeOK
    BY DEF SettingsInv, JobInv
  <1>2. CASE BeginUpload \/ RestartServer
    BY <1>2 DEF BeginUpload, RestartServer, DropJob, ResetJob, Restart, NoJob, JobOrigin,
                Ongoing, ActivePhases
  <1>3. ASSUME NEW img \in Images, EndUpload(img) PROVE JobOrigin'
    BY <1>3 DEF EndUpload, Load, JobOrigin, Ongoing, ActivePhases
  <1>4. ASSUME NEW keep \in BOOLEAN, Flash(keep) PROVE JobOrigin'
    <2>1. /\ job' = [mode |-> "flash", phase |-> "erasing", part |-> "firmware", buf |-> "ram",
                     erase_offset |-> Offset("firmware"),
                     erase_size |-> EraseSize("firmware", completed_size, keep),
                     write_size |-> completed_size, processed |-> 0,
                     source_crc |-> Crc(ram, completed_size), verify_crc |-> EmptyCrc]
          /\ ram' = ram /\ keep_config' = keep
      BY <1>4 DEF Flash, StartFlashJob, StartImageJob
    <2>2. InBuffer(completed_size)
      BY <1>1, <1>4 DEF UploadInv, Flash
    <2> QED
      BY <2>1, <2>2 DEF JobOrigin, InBuffer
  <1>5. CASE BeginReset \/ Search \/ UNCHANGED settingsVars
    BY <1>1, <1>5, SameOrigin DEF BeginReset, Search, settingsVars, jobVars, uploadVars, Ongoing
  <1>6. CASE EndReset /\ status = "found"
    <2>1. /\ job' = [NoJob EXCEPT !.mode = "erase_settings", !.phase = "erasing",
                                  !.part = "firmware", !.erase_offset = overlay,
                                  !.erase_size = FirmwareOffset + FirmwareSize - overlay]
          /\ before' = flash
      BY <1>6 DEF EndReset, StartEraseSettings
    <2>2. \E a \in Positions : IsFirst(flash, a) /\ overlay = Candidate(flash, a)
      BY <1>1, <1>6, FoundOverlay
    <2>3. /\ job'.mode = "erase_settings" /\ job'.erase_offset = overlay
          /\ job'.erase_size = FirmwareEnd - overlay
      <3>1. job'.mode = "erase_settings" /\ job'.erase_offset = overlay
        BY <2>1 DEF NoJob
      <3>2. job'.erase_size = FirmwareOffset + FirmwareSize - overlay
        BY <2>1 DEF NoJob
      <3> QED
        BY <1>1, <3>1, <3>2, SizesAssumption DEF FirmwareEnd, ScanInv, SearchTypeOK
    <2>4. CleanPadding(before)' /\ \E a \in Positions : IsFirst(before', a)
                                             /\ job'.erase_offset = Candidate(before', a)
      BY <1>1, <2>1, <2>2, <2>3
    <2> QED
      BY <2>3, <2>4 DEF JobOrigin
  <1>7. CASE EndReset /\ status # "found"
    BY <1>1, <1>7, SameOrigin DEF EndReset, jobVars, uploadVars, Ongoing
  <1>8. CASE Turn
    <2>1. JobStep /\ UNCHANGED keep_config
      BY <1>8 DEF Turn, uploadVars
    <2>2. /\ job'.mode = job.mode /\ job'.part = job.part /\ job'.buf = job.buf
          /\ job'.erase_offset = job.erase_offset /\ job'.erase_size = job.erase_size
          /\ job'.write_size = job.write_size
      BY <1>1, <2>1 DEF JobStep, StepSucceeds, StepFails, EraseStep, EraseFail, WriteStep,
             WriteFail, VerifyStep, VerifyFail, FailJob, JobTypeOK, JobType
    <2>3. UNCHANGED <<ram, before>> /\ Ongoing
      BY <2>1 DEF JobStep, StepSucceeds, StepFails, EraseStep, EraseFail, WriteStep,
             WriteFail, VerifyStep, VerifyFail, Ongoing, ActivePhases
    <2> QED
      BY <1>1, <2>1, <2>2, <2>3, SameOrigin
  <1> QED
    BY <1>2, <1>3, <1>4, <1>5, <1>6, <1>7, <1>8 DEF SettingsNext

\* Only a turn of the main loop changes the flash.
LEMMA OnlyTurnsWrite ==
  ASSUME [SettingsNext]_settingsVars, ~Turn
  PROVE  flash' = flash
  BY DEF SettingsNext, BeginUpload, EndUpload, Flash, BeginReset, Search, EndReset,
         RestartServer, DropJob, ResetJob, Load, StartFlashJob, StartEraseSettings, Restart,
         SearchNext, ScanWindow, ReadFails, NotFound, jobVars, settingsVars

\* What has been erased for an image stays free of settings.
LEMMA RangeCleanNext ==
  ASSUME SettingsInv, JobInv', [SettingsNext]_settingsVars
  PROVE  RangeClean'
  <1>1. RangeClean /\ JobInv /\ JobOrigin
    BY DEF SettingsInv
  <1>2. CASE Turn
    BY <1>1, <1>2, RangeCleanTurn DEF Turn
  <1>3. CASE UNCHANGED <<flash, job>>
    BY <1>1, <1>3 DEF RangeClean, JobRange
  <1>4. CASE job'.phase \in {"idle", "erasing"}
    BY <1>4 DEF RangeClean
  <1>5. BeginUpload \/ RestartServer => job'.phase = "idle"
    BY DEF BeginUpload, RestartServer, DropJob, ResetJob, Restart, NoJob
  <1>6. \A img \in Images : EndUpload(img) => UNCHANGED <<flash, job>>
    BY DEF EndUpload, Load
  <1>7. \A keep \in BOOLEAN : Flash(keep) => job'.phase = "erasing"
    BY DEF Flash, StartFlashJob, StartImageJob
  <1>8. BeginReset \/ Search \/ UNCHANGED settingsVars => UNCHANGED <<flash, job>>
    BY DEF BeginReset, Search, SearchNext, ScanWindow, ReadFails, NotFound, settingsVars, jobVars
  <1>9. EndReset => job'.phase = "erasing" \/ UNCHANGED <<flash, job>>
    BY DEF EndReset, StartEraseSettings, NoJob, jobVars
  <1> QED
    BY <1>2, <1>3, <1>4, <1>5, <1>6, <1>7, <1>8, <1>9 DEF SettingsNext

\* No step puts settings between a root file system and its overlay.
LEMMA PaddingNext ==
  ASSUME SizesDoNotWrap, SettingsInv, JobInv', [SettingsNext]_settingsVars
  PROVE  CleanPadding(flash)'
  <1>1. JobInv /\ JobOrigin /\ RangeClean /\ CleanPadding(flash)
    BY DEF SettingsInv
  <1>2. CASE Turn
    BY <1>1, <1>2, CleanPaddingTurn DEF Turn
  <1>3. CASE ~Turn
    BY <1>1, <1>3, OnlyTurnsWrite
  <1> QED
    BY <1>2, <1>3

\* The search sees a flash that nothing writes to.
LEMMA SearchPartNext ==
  ASSUME SettingsInv, JobInv', [SettingsNext]_settingsVars
  PROVE  ScanInv' /\ (status' # "idle" => ~Blocked')
  <1>1. ScanInv /\ (status # "idle" => ~Blocked)
    BY DEF SettingsInv
  <1>2. flash' \in [Addr -> Unit]
    BY DEF JobInv, JobTypeOK
  <1>3. CASE status' = "idle" /\ UNCHANGED <<pos, overlay>>
    BY <1>1, <1>2, <1>3 DEF ScanInv, SearchTypeOK, ScannedInv, FindsFirst
  <1>4. CASE BeginReset
    <2>1. ~Blocked /\ UNCHANGED jobVars
      BY <1>4 DEF BeginReset
    <2>2. /\ status' = "scanning" /\ pos' = FirmwareOffset /\ overlay' = 0
      BY <1>4 DEF BeginReset
    <2>3. SearchTypeOK'
      BY <1>2, <2>2, SizesAssumption, RootFsAssumption DEF SearchTypeOK, FirmwareEnd
    <2>4. ScannedInv' /\ FindsFirst'
      BY <2>2, SizesAssumption, RootFsAssumption DEF ScannedInv, FindsFirst, Positions, FirmwareEnd
    <2> QED
      BY <2>1, <2>3, <2>4 DEF ScanInv, Blocked, JobActive, jobVars
  <1>5. CASE Search
    <2>1. ScanInv'
      BY <1>1, <1>5, ScanInvNext DEF Search
    <2>2. status # "idle" /\ UNCHANGED <<job, reboot_pending>>
      BY <1>5 DEF Search, SearchNext, ScanWindow, ReadFails, NotFound
    <2> QED
      BY <1>1, <2>1, <2>2 DEF Blocked, JobActive
  <1>6. CASE UNCHANGED settingsVars
    BY <1>1, <1>6, ScanInvNext DEF settingsVars, jobVars, searchVars, Blocked, JobActive
  <1>7. CASE BeginUpload \/ EndReset \/ Turn \/ RestartServer
    BY <1>3, <1>7 DEF BeginUpload, EndReset, Turn, RestartServer, NoSearch
  <1>8. ASSUME \/ \E img \in Images : EndUpload(img)
               \/ \E keep \in BOOLEAN : Flash(keep)
        PROVE  status' = "idle" /\ UNCHANGED <<pos, overlay>>
    BY <1>8 DEF EndUpload, Flash, NoSearch
  <1> QED
    BY <1>3, <1>4, <1>5, <1>6, <1>7, <1>8 DEF SettingsNext

\* The server starts with the invariant.
LEMMA SettingsInitInv == SettingsInit => SettingsInv
  <1> SUFFICES ASSUME SettingsInit PROVE SettingsInv
    OBVIOUS
  <1>1. JobInv /\ SectorsInv
    BY InitInv DEF SettingsInit, JobInit, NoJob, SectorsInv
  <1>2. SearchTypeOK
    BY <1>1, SizesAssumption, RootFsAssumption DEF SettingsInit, SearchTypeOK, FirmwareEnd, JobInv, JobTypeOK
  <1>3. ScanInv /\ status = "idle"
    BY <1>2 DEF SettingsInit, ScanInv, ScannedInv, FindsFirst
  <1>4. UploadInv /\ keep_config \in BOOLEAN
    <2>1. completed_size = 0 /\ keep_config = FALSE
      BY DEF SettingsInit
    <2>2. UploadInv
      BY <2>1 DEF UploadInv
    <2> QED
      BY <2>1, <2>2
  <1>5. JobOrigin /\ RangeClean
    BY DEF SettingsInit, JobInit, NoJob, JobOrigin, RangeClean, Ongoing, ActivePhases
  <1>6. CleanPadding(flash)
    BY ImageAssumption DEF SettingsInit, JobInit
  <1> QED
    BY <1>1, <1>3, <1>4, <1>5, <1>6 DEF SettingsInv

\* Every step of the server preserves the invariant.
LEMMA SettingsInvNext ==
  ASSUME SizesDoNotWrap, SettingsInv, [SettingsNext]_settingsVars
  PROVE  SettingsInv'
  <1>1. JobInv' /\ SectorsInv'
    BY SettingsRefines, NextInv, SectorsNext DEF SettingsInv
  <1>2. ScanInv' /\ (status' # "idle" => ~Blocked')
    BY <1>1, SearchPartNext
  <1> QED
    BY <1>1, <1>2, UploadNext, OriginNext, RangeCleanNext, PaddingNext DEF SettingsInv

-----------------------------------------------------------------------------
(* The theorems.                                                            *)

\* The invariant of the server with its uploads, its jobs and its searches.
THEOREM SettingsInvariant ==
  ASSUME SizesDoNotWrap
  PROVE  SettingsSpec => []SettingsInv
  <1>1. SettingsInv /\ [SettingsNext]_settingsVars => SettingsInv'
    BY SettingsInvNext
  <1> QED
    BY <1>1, SettingsInitInv, PTL DEF SettingsSpec

\* Flashing and the settings reset use the job as its specification allows: an
\* image that was found valid fits the partition, an overlay that was found is a
\* range of whole sectors. What FlashJob promises holds here too.
THEOREM SettingsImplementsJob ==
  ASSUME SizesDoNotWrap
  PROVE  SettingsSpec => JobSpec
  <1>1. SettingsInit => JobInit
    BY DEF SettingsInit
  <1>2. SettingsInv /\ [SettingsNext]_settingsVars => [JobNext]_jobVars
    BY SettingsRefines
  <1> QED
    BY <1>1, <1>2, SettingsInvariant, PTL DEF SettingsSpec, JobSpec

-----------------------------------------------------------------------------

\* The job of a settings reset has blanked what is behind the overlay's start and
\* touched nothing before it.
LEMMA ResetDone ==
  ASSUME SizesDoNotWrap, SettingsInv, job.mode = "erase_settings", job.phase = "done",
         NEW a \in Positions, IsFirst(before, a), job.erase_offset = Candidate(before, a)
  PROVE  /\ \A x \in FirmwareOffset .. Candidate(before, a) - 1 : flash[x] = before[x]
         /\ \A x \in Candidate(before, a) .. FirmwareEnd - 1 : flash[x] = Erased
  <1>1. Ongoing /\ JobInv /\ JobOrigin /\ before \in [Addr -> Unit]
    BY DEF SettingsInv, JobInv, JobTypeOK, Ongoing, ActivePhases
  <1>2. /\ Candidate(before, a) \in Nat /\ Candidate(before, a) < FirmwareEnd
        /\ job.erase_size = FirmwareEnd - job.erase_offset
    BY <1>1, AcceptedPlaces DEF IsFirst, JobOrigin
  <1>3. FirmwareOffset \in Nat /\ FirmwareEnd \in Nat /\ FirmwareEnd <= FlashSize /\ FlashSize \in Nat
    BY SizesAssumption, LayoutAssumption DEF FirmwareEnd
  <1>4. JobRange = Candidate(before, a) .. FirmwareEnd - 1
    BY <1>2, <1>3 DEF JobRange
  <1>5. ASSUME NEW x \in FirmwareOffset .. Candidate(before, a) - 1
        PROVE  flash[x] = before[x]
    <2>1. x \in Addr \ JobRange
      BY <1>2, <1>3, <1>4 DEF Addr
    <2> QED
      BY <1>1, <2>1 DEF JobInv, Confined
  <1>6. ASSUME NEW x \in Candidate(before, a) .. FirmwareEnd - 1
        PROVE  flash[x] = Erased
    BY <1>1, <1>4 DEF JobInv, DoneMeansWritten
  <1> QED
    BY <1>5, <1>6

\* A settings reset takes all the settings and leaves the system as it was.
THEOREM ResetKeepsSystemAlways ==
  ASSUME SizesDoNotWrap
  PROVE  SettingsSpec => []ResetKeepsSystem
  <1>1. SettingsInv => ResetKeepsSystem
    <2> SUFFICES ASSUME SettingsInv, job.mode = "erase_settings", job.phase = "done"
                 PROVE  \E a \in Positions :
                          /\ IsFirst(before, a) /\ IsFirst(flash, a)
                          /\ \A x \in FirmwareOffset .. RootFsEnd(before, a) - 1 : flash[x] = before[x]
                          /\ \A x \in RootFsEnd(before, a) .. FirmwareEnd - 1 : flash[x] # Setting
      BY DEF ResetKeepsSystem
    <2>1. Ongoing /\ JobOrigin /\ before \in [Addr -> Unit] /\ Erased # Setting
      BY ImageAssumption, DataAssumption
         DEF SettingsInv, JobInv, JobTypeOK, Ongoing, ActivePhases
    <2>2. PICK a \in Positions : IsFirst(before, a) /\ job.erase_offset = Candidate(before, a)
      BY <2>1 DEF JobOrigin
    <2>3. CleanPadding(before)
      BY <2>1 DEF JobOrigin
    <2>4. /\ \A x \in FirmwareOffset .. Candidate(before, a) - 1 : flash[x] = before[x]
          /\ \A x \in Candidate(before, a) .. FirmwareEnd - 1 : flash[x] = Erased
      BY <2>2, ResetDone
    <2>5. Accepted(before, a)
      BY <2>2 DEF IsFirst
    <2>6. /\ a \in Nat /\ RootFsEnd(before, a) \in Nat /\ Candidate(before, a) \in Nat
          /\ FirmwareOffset <= a /\ a < RootFsEnd(before, a)
          /\ RootFsEnd(before, a) <= Candidate(before, a) /\ Candidate(before, a) < FirmwareEnd
      BY <2>1, <2>5, AcceptedPlaces
    <2>7. FirmwareOffset \in Nat /\ FirmwareEnd \in Nat
      BY SizesAssumption DEF FirmwareEnd
    <2>8. \A b \in FirmwareOffset .. a : flash[b] = before[b]
      BY <2>4, <2>6, <2>7
    <2>9. IsFirst(flash, a)
      <3>1. Accepted(flash, a)
        BY <2>5, <2>6, <2>7, <2>8, SameSuperblock
      <3>2. ASSUME NEW b \in FirmwareOffset .. a - 1 PROVE ~Accepted(flash, b)
        <4>1. flash[b] = before[b]
          BY <2>6, <2>7, <2>8
        <4>2. ~Accepted(before, b)
          BY <2>2 DEF IsFirst
        <4> QED
          BY <4>1, <4>2, SameSuperblock
      <3> QED
        BY <3>1, <3>2 DEF IsFirst
    <2>10. \A x \in FirmwareOffset .. RootFsEnd(before, a) - 1 : flash[x] = before[x]
      BY <2>4, <2>6, <2>7
    <2>11. ASSUME NEW x \in RootFsEnd(before, a) .. FirmwareEnd - 1 PROVE flash[x] # Setting
      <3>1. CASE x < Candidate(before, a)
        <4>1. before[x] # Setting
          BY <2>3, <2>5, <2>6, <2>7, <3>1 DEF CleanPadding
        <4> QED
          BY <2>4, <2>6, <2>7, <3>1, <4>1
      <3>2. CASE Candidate(before, a) <= x
        BY <2>1, <2>4, <2>6, <2>7, <3>2
      <3> QED
        BY <2>6, <2>7, <3>1, <3>2
    <2> QED
      BY <2>2, <2>9, <2>10, <2>11
  <1> QED
    BY <1>1, SettingsInvariant, PTL

\* With keep_config the installed system's overlay is not touched, unless the new
\* image itself reaches into it.
THEOREM KeepsSettingsAlways ==
  ASSUME SizesDoNotWrap
  PROVE  SettingsSpec => []KeepsSettings
  <1>1. SettingsInv => KeepsSettings
    <2> SUFFICES ASSUME SettingsInv, job.mode = "flash", job.phase = "done", keep_config,
                        NEW a \in Positions, IsFirst(before, a),
                        FirmwareOffset + job.write_size <= Candidate(before, a),
                        NEW x \in Candidate(before, a) .. FirmwareEnd - 1
                 PROVE  flash[x] = before[x]
      BY DEF KeepsSettings
    <2>1. Ongoing /\ JobInv /\ JobOrigin /\ before \in [Addr -> Unit] /\ job.write_size \in Nat
      BY DEF SettingsInv, JobInv, JobTypeOK, JobType, Ongoing, ActivePhases
    <2>2. /\ job.erase_size = EraseSize("firmware", job.write_size, keep_config)
          /\ job.erase_offset = FirmwareOffset
      BY <2>1, RangeHoldsImage DEF JobOrigin
    <2>3. job.erase_size = RoundUp(job.write_size, SectorSize)
      BY <2>2 DEF EraseSize
    <2>4. /\ Candidate(before, a) \in Nat /\ Candidate(before, a) < FirmwareEnd
          /\ Candidate(before, a) % SectorSize = 0
      BY <2>1, AcceptedPlaces DEF IsFirst
    <2>5. /\ FirmwareOffset \in Nat /\ SectorSize \in Nat \ {0} /\ FirmwareOffset % SectorSize = 0
          /\ FirmwareEnd \in Nat /\ FirmwareEnd <= FlashSize /\ FlashSize \in Nat
      BY SizesAssumption, LayoutAssumption, AlignmentAssumption DEF FirmwareEnd
    <2>6. PICK m \in Nat : Candidate(before, a) = FirmwareOffset + m
      <3>1. Candidate(before, a) - FirmwareOffset \in Nat
        BY <2>1, <2>4, <2>5
      <3> QED
        BY <2>4, <2>5, <3>1
    <2>7. m % SectorSize = 0
      <3>1. m = Candidate(before, a) - FirmwareOffset /\ FirmwareOffset <= Candidate(before, a)
        BY <2>5, <2>6
      <3> QED
        BY <2>4, <2>5, <3>1, DifferenceAligned
    <2>8. job.write_size <= m
      BY <2>1, <2>5, <2>6
    <2>9. RoundUp(job.write_size, SectorSize) <= m /\ RoundUp(job.write_size, SectorSize) \in Nat
      BY <2>1, <2>5, <2>7, <2>8, RoundUpUpper, RoundUpLower
    <2>10. x \in Addr /\ FirmwareOffset + job.erase_size <= x
      BY <2>3, <2>4, <2>5, <2>6, <2>9 DEF Addr
    <2>11. x \notin JobRange
      <3>1. job.erase_size \in Nat
        BY <2>3, <2>9
      <3>2. x \in Int
        BY <2>4, <2>5
      <3>3. ~(x <= FirmwareOffset + job.erase_size - 1)
        BY <2>5, <2>10, <3>1, <3>2
      <3>4. JobRange = FirmwareOffset .. FirmwareOffset + job.erase_size - 1
        BY <2>2 DEF JobRange
      <3> QED
        BY <3>3, <3>4
    <2> QED
      BY <2>1, <2>10, <2>11 DEF JobInv, Confined
  <1> QED
    BY <1>1, SettingsInvariant, PTL

\* The whole sector behind a boundary inside a range of whole sectors is in it.
LEMMA WholeSector ==
  ASSUME NEW c \in Nat, NEW e \in Nat, NEW s \in Nat \ {0}, c % s = 0, e % s = 0, c < e
  PROVE  c + s <= e
  <1>1. PICK d \in Nat \ {0} : d = e - c
    OBVIOUS
  <1>2. (e - c) % s = 0
    <2>1. c <= e
      OBVIOUS
    <2> QED
      BY <2>1, DifferenceAligned
  <1>3. s <= d
    BY <1>1, <1>2, AlignedAtLeast
  <1> QED
    BY <1>1, <1>3

\* After an image without keep_config, the first root file system is one of the
\* image's, so its overlay starts at most right behind the image.
LEMMA OverlayBehindImage ==
  ASSUME SizesDoNotWrap, SettingsInv, job.mode = "flash", job.phase = "done",
         NEW a \in Positions, IsFirst(flash, a)
  PROVE  Candidate(flash, a) <= FirmwareOffset + RoundUp(job.write_size, SectorSize)
  <1>1. Ongoing /\ JobInv /\ JobOrigin /\ job.write_size \in Nat
    BY DEF SettingsInv, JobInv, JobTypeOK, JobType, Ongoing, ActivePhases
  <1>2. /\ job.erase_offset = FirmwareOffset /\ job.erase_size \in Nat /\ job.buf = "ram"
        /\ RoundUp(job.write_size, SectorSize) <= job.erase_size
    BY <1>1, RangeHoldsImage DEF JobOrigin
  <1>3. PICK img \in Images : /\ job.write_size = Len(img)
                             /\ \A i \in 0 .. job.write_size - 1 : ram[i] = img[i + 1]
    BY <1>1 DEF JobOrigin, InBuffer
  <1>4. /\ FirmwareOffset \in Nat /\ FirmwareEnd \in Nat /\ FirmwareEnd <= FlashSize
        /\ FlashSize \in Nat /\ SbSize \in Nat \ {0} /\ SectorSize \in Nat \ {0}
    BY SizesAssumption, LayoutAssumption, RootFsAssumption DEF FirmwareEnd
  <1>5. RoundUp(job.write_size, SectorSize) \in Nat /\ job.write_size <= RoundUp(job.write_size, SectorSize)
    BY <1>1, <1>4, RoundUpLower
  <1>6. ASSUME NEW b \in Positions, FirmwareOffset <= b, b < FirmwareOffset + job.write_size
        PROVE  flash[b] = InPlace(img)[b]
    <2>1. b \in JobRange /\ b \in Addr /\ b - FirmwareOffset \in 0 .. job.write_size - 1
      BY <1>1, <1>2, <1>4, <1>5, <1>6 DEF JobRange, Positions, Addr
    <2>2. flash[b] = ram[b - FirmwareOffset]
      BY <1>1, <1>2, <1>6, <2>1 DEF JobInv, DoneMeansWritten, Source
    <2> QED
      BY <1>3, <1>6, <2>1, <2>2 DEF InPlace
  <1>7. PICK b \in Positions : Accepted(InPlace(img), b)
    BY ImageAssumption
  <1>8. FirmwareOffset <= b /\ b < FirmwareOffset + job.write_size
    BY <1>3, <1>7, ImagePlaces
  <1>9. Accepted(flash, b)
    BY <1>6, <1>7, <1>8, SameSuperblock
  <1>10. a <= b
    BY <1>4, <1>9 DEF IsFirst, Positions
  <1>11. flash[a] = InPlace(img)[a]
    BY <1>1, <1>4, <1>6, <1>8, <1>10 DEF Positions
  <1>12. Accepted(InPlace(img), a) /\ Candidate(InPlace(img), a) = Candidate(flash, a)
    BY <1>11, SameSuperblock DEF IsFirst
  <1> QED
    BY <1>3, <1>12, ImagePlaces

\* Without keep_config the system that was flashed starts with fresh settings.
THEOREM FreshSettingsAlways ==
  ASSUME SizesDoNotWrap
  PROVE  SettingsSpec => []FreshSettings
  <1>1. SettingsInv => FreshSettings
    <2> SUFFICES ASSUME SettingsInv, job.mode = "flash", job.phase = "done", ~keep_config,
                        NEW a \in Positions, IsFirst(flash, a),
                        NEW x \in Candidate(flash, a) .. Candidate(flash, a) + SectorSize - 1
                 PROVE  flash[x] # Setting
      BY DEF FreshSettings
    <2>1. Ongoing /\ JobInv /\ JobOrigin /\ flash \in [Addr -> Unit] /\ job.write_size \in Nat
      BY DEF SettingsInv, JobInv, JobTypeOK, JobType, Ongoing, ActivePhases
    <2>2. /\ job.erase_size = EraseSize("firmware", job.write_size, keep_config)
          /\ job.erase_offset = FirmwareOffset /\ job.erase_size \in Nat
      BY <2>1, RangeHoldsImage DEF JobOrigin
    <2>3. job.erase_size = Min2(FirmwareSize, RoundUp(job.write_size, SectorSize) + 2 * SectorSize)
      BY <2>2 DEF EraseSize, Size
    <2>4. /\ Candidate(flash, a) \in Nat /\ Candidate(flash, a) < FirmwareEnd
          /\ Candidate(flash, a) % SectorSize = 0 /\ FirmwareOffset <= Candidate(flash, a)
      <3>1. /\ Candidate(flash, a) \in Nat /\ RootFsEnd(flash, a) \in Nat /\ a \in Nat
            /\ FirmwareOffset <= a /\ a < RootFsEnd(flash, a)
            /\ RootFsEnd(flash, a) <= Candidate(flash, a) /\ Candidate(flash, a) < FirmwareEnd
            /\ Candidate(flash, a) % SectorSize = 0
        BY <2>1, AcceptedPlaces DEF IsFirst
      <3> QED
        BY <3>1, SizesAssumption
    <2>5. /\ FirmwareOffset \in Nat /\ FirmwareSize \in Nat /\ SectorSize \in Nat \ {0}
          /\ FirmwareEnd = FirmwareOffset + FirmwareSize
      BY SizesAssumption DEF FirmwareEnd
    <2>6. FirmwareEnd \in Nat /\ FirmwareEnd % SectorSize = 0
      <3>1. FirmwareOffset % SectorSize = 0 /\ FirmwareSize % SectorSize = 0
        BY AlignmentAssumption
      <3>2. (FirmwareOffset + FirmwareSize) % SectorSize = 0
        BY <2>5, <3>1, SumAligned
      <3> QED
        BY <2>5, <3>2
    <2>7. Candidate(flash, a) + SectorSize <= FirmwareEnd
      BY <2>4, <2>5, <2>6, WholeSector
    <2>8. /\ Candidate(flash, a) <= FirmwareOffset + RoundUp(job.write_size, SectorSize)
          /\ RoundUp(job.write_size, SectorSize) \in Nat
      BY <2>1, <2>5, OverlayBehindImage, RoundUpLower
    <2>9. Candidate(flash, a) + SectorSize <= FirmwareOffset + job.erase_size
      BY <2>3, <2>4, <2>5, <2>7, <2>8 DEF Min2
    <2>10. x \in JobRange
      BY <2>2, <2>4, <2>5, <2>9 DEF JobRange
    <2> QED
      BY <2>10 DEF SettingsInv, RangeClean
  <1> QED
    BY <1>1, SettingsInvariant, PTL
=============================================================================
