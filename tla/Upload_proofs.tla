---------------------------- MODULE Upload_proofs ----------------------------
(***************************************************************************)
(* Theorems about uploads: the verdict on what was received (module        *)
(* UploadCheck), and the memory it is received in (modules UploadRange and *)
(* Lmb).                                                                   *)
(***************************************************************************)
EXTENDS UploadCheck, UploadRange, SequenceTheorems, FiniteSetTheorems,
        WellFoundedInduction, TLAPS

Sequence(s) == s \in Seq({s[i] : i \in DOMAIN s})

\* Two buffers with the same first n units.
Agree(b, u, n) ==
  /\ Sequence(b) /\ Sequence(u) /\ n \in 0 .. Len(b) /\ n \in 0 .. Len(u)
  /\ \A i \in 1 .. n : b[i] = u[i]

-----------------------------------------------------------------------------
(* What is read of a buffer.                                                *)

\* Such buffers, unit by unit.
LEMMA AgreeFacts ==
  ASSUME NEW b, NEW u, NEW n, Agree(b, u, n)
  PROVE  n \in Nat /\ \A i \in 1 .. n : b[i] = u[i]
  <1>1. n \in 0 .. Len(b) /\ \A i \in 1 .. n : b[i] = u[i]
    BY Zenon DEF Agree
  <1> QED
    BY <1>1

\* A part of the buffer that a checksum is taken of.
LEMMA PartAgrees ==
  ASSUME NEW b, NEW u, NEW n, Agree(b, u, n), NEW k \in Nat \ {0}, NEW m \in 0 .. n
  PROVE  SubSeq(b, k, m) = SubSeq(u, k, m)
  <1>1. /\ Sequence(b) /\ Sequence(u) /\ n \in 0 .. Len(b) /\ n \in 0 .. Len(u)
        /\ \A i \in 1 .. n : b[i] = u[i]
    BY DEF Agree
  <1>2. CASE k > m
    BY <1>1, <1>2, SubSeqEmpty DEF Sequence
  <1>3. CASE k <= m
    <2>1. k \in 1 .. Len(b) /\ m \in k .. Len(b) /\ k \in 1 .. Len(u) /\ m \in k .. Len(u)
      BY <1>1, <1>3 DEF Sequence
    <2> QED
      BY <1>1, <1>3, <2>1 DEF Sequence
  <1> QED
    BY <1>2, <1>3

\* One record.
LEMMA InfoAgrees ==
  ASSUME NEW b, NEW u, NEW n, Agree(b, u, n), NEW c \in 1 .. n,
         u[c].record_size \in 1 .. c
  PROVE  InfoVerdict(b, c) = InfoVerdict(u, c)
  <1> DEFINE r     == u[c].record_size
             start == c - r
  <1>1. /\ n \in Nat /\ \A i \in 1 .. n : b[i] = u[i]
    BY AgreeFacts
  <1>2. b[c] = u[c] /\ r \in Nat
    BY <1>1
  <1>3. CASE r - 1 <= 1
    BY <1>2, <1>3 DEF InfoVerdict
  <1>4. CASE ~(r - 1 <= 1)
    <2>1. start + 1 \in 1 .. n /\ \A j \in start + 2 .. c - 1 : j \in 1 .. n
      BY <1>1, <1>2, <1>4
    <2>2. b[start + 1] = u[start + 1] /\ \A j \in start + 2 .. c - 1 : b[j] = u[j]
      BY <1>1, <2>1
    <2>3. (\E j \in start + 2 .. c - 1 : b[j].kind = "json" /\ b[j].ours)
            <=> (\E j \in start + 2 .. c - 1 : u[j].kind = "json" /\ u[j].ours)
      BY <2>2, Zenon
    <2> QED
      BY <1>2, <1>4, <2>2, <2>3, Zenon DEF InfoVerdict
  <1> QED
    BY <1>3, <1>4

LEMMA IterationAgrees ==
  ASSUME NEW b, NEW u, NEW n, Agree(b, u, n), NEW c \in 0 .. n, NEW x, NEW y,
         \A i \in 1 .. n : IsUnit(u[i]),
         c > 0 /\ u[c].kind = "trailer" /\ u[c].record_size \in 1 .. c => x = y
  PROVE  Iteration(b, c, x) = Iteration(u, c, y)
  <1>1. n \in Nat /\ c \in Nat
    BY AgreeFacts
  <1>2. CASE c = 0
    BY <1>2 DEF Iteration
  <1>3. CASE c # 0
    <2>1. c \in 1 .. n /\ b[c] = u[c]
      BY <1>1, <1>3 DEF Agree
    <2>2. CASE u[c].kind # "trailer"
      BY <1>3, <2>1, <2>2 DEF Iteration
    <2>3. CASE u[c].kind = "trailer"
      <3>1. u[c].record_size \in Nat
        BY <2>1, <2>3 DEF IsUnit
      <3>2. CASE u[c].record_size < 1 \/ u[c].record_size > c
        BY <1>3, <2>1, <2>3, <3>2 DEF Iteration
      <3>3. CASE ~(u[c].record_size < 1 \/ u[c].record_size > c)
        <4>1. u[c].record_size \in 1 .. c
          BY <1>1, <3>1, <3>3
        <4>2. x = y /\ InfoVerdict(b, c) = InfoVerdict(u, c)
          BY <1>1, <1>3, <2>1, <2>3, <4>1, InfoAgrees
        <4>3. SubSeq(b, 1, c - 1) = SubSeq(u, 1, c - 1)
          <5>1. c - 1 \in 0 .. n
            BY <1>1, <2>1
          <5> QED
            BY <5>1, PartAgrees
        <4> QED
          BY <1>3, <2>1, <2>3, <3>3, <4>2, <4>3 DEF Iteration
      <3> QED
        BY <3>2, <3>3
    <2> QED
      BY <2>2, <2>3
  <1> QED
    BY <1>2, <1>3

\* webflash_validate_fwtool() reads the first n units only.
LEMMA FwtoolAgrees ==
  ASSUME NEW b, NEW u, NEW n, Agree(b, u, n), \A i \in 1 .. n : IsUnit(u[i])
  PROVE  FwtoolVerdict(b, n) = FwtoolVerdict(u, n)
  <1>1. n \in Nat /\ \A i \in 1 .. n : b[i] = u[i]
    BY AgreeFacts
  <1>2. ASSUME NEW c \in 0 .. n
        PROVE  LastIteration(b, c) = LastIteration(u, c)
    BY <1>1, <1>2, IterationAgrees DEF LastIteration
  <1>3. ASSUME NEW c \in 1 .. n, u[c].record_size \in 1 .. c
        PROVE  b[c] = u[c] /\ c - u[c].record_size \in 0 .. n
    BY <1>1, <1>3
  <1>4. ASSUME NEW c \in 0 .. n
        PROVE  SecondIteration(b, c) = SecondIteration(u, c)
    <2>1. ASSUME c > 0, u[c].record_size \in 1 .. c
          PROVE  LastIteration(b, c - b[c].record_size) = LastIteration(u, c - u[c].record_size)
      <3>1. c \in 1 .. n
        BY <1>1, <1>4, <2>1
      <3> QED
        BY <1>2, <1>3, <2>1, <3>1
    <2> QED
      BY <1>4, <2>1, IterationAgrees DEF SecondIteration
  <1>5. ASSUME n > 0, u[n].record_size \in 1 .. n
        PROVE  SecondIteration(b, n - b[n].record_size) = SecondIteration(u, n - u[n].record_size)
    <2>1. n \in 1 .. n
      BY <1>1, <1>5
    <2> QED
      BY <1>3, <1>4, <1>5, <2>1
  <1>6. n \in 0 .. n
    BY <1>1
  <1> QED
    BY <1>5, <1>6, IterationAgrees DEF FwtoolVerdict

LEMMA UniformAgrees ==
  ASSUME NEW b, NEW u, NEW n, Agree(b, u, n), n > 0
  PROVE  Uniform(b, n) = Uniform(u, n)
  <1>1. n \in Nat /\ 1 \in 1 .. n /\ (\A i \in 1 .. n : b[i] = u[i]) /\ 2 .. n \subseteq 1 .. n
    BY AgreeFacts
  <1>2. b[1] = u[1] /\ \A i \in 2 .. n : b[i] = u[i]
    BY <1>1
  <1>3. (\A i \in 2 .. n : b[i] = b[1]) <=> (\A i \in 2 .. n : u[i] = u[1])
    BY <1>2, Zenon
  <1> QED
    BY <1>3, Zenon DEF Uniform

LEMMA KindAgrees ==
  ASSUME NEW b, NEW u, NEW n, Agree(b, u, n), n > 0, \A i \in 1 .. n : IsUnit(u[i])
  PROVE  FirmwareKind(b, n) = FirmwareKind(u, n)
  <1>1. n \in Nat /\ 1 \in 1 .. n /\ b[1] = u[1] /\ \A i \in 1 .. n : b[i] = u[i]
    <2>1. n \in Nat /\ \A i \in 1 .. n : b[i] = u[i]
      BY AgreeFacts
    <2> QED
      BY <2>1
  <1>2. FwtoolVerdict(b, n) = FwtoolVerdict(u, n)
    BY FwtoolAgrees
  <1>3. UimageComplete(b, n) <=> UimageComplete(u, n)
    <2>1. CASE ~IsKernel(u) \/ ~(ImageSize(u) <= n)
      BY <1>1, <2>1 DEF UimageComplete, IsKernel, ImageSize
    <2>2. CASE IsKernel(u) /\ ImageSize(u) <= n
      <3>1. u[1].data_size \in Nat
        BY <1>1, <2>2 DEF IsKernel, IsUnit
      <3>2. ImageSize(u) \in 0 .. n /\ ImageSize(b) = ImageSize(u)
        BY <1>1, <2>2, <3>1 DEF ImageSize
      <3>3. SubSeq(b, 2, ImageSize(b)) = SubSeq(u, 2, ImageSize(u))
        BY <3>2, PartAgrees
      <3> QED
        BY <1>1, <3>2, <3>3 DEF UimageComplete, IsKernel, DataCrcRight
    <2> QED
      BY <2>1, <2>2
  <1> QED
    BY <1>2, <1>3 DEF FirmwareKind

\* The cases of webflash_validate_upload().
LEMMA ValidCases ==
  ASSUME NEW b, NEW n
  PROVE  /\ Valid("eeprom", b, n) = (b[1].kind = "eeprom" /\ ~Uniform(b, n))
         /\ Valid("firmware", b, n) = TRUE
         /\ Valid("environment", b, n) =
              (n >= EnvUnits /\ b[1].kind = "envcrc" /\ b[1].crc = SubSeq(b, 2, EnvUnits))
         /\ Valid("uboot", b, n) = (~Uniform(b, n) /\ b[2].kind = "mt7621")
         /\ Valid("factory", b, n) = ~Uniform(b, n)
  <1>1. Valid("eeprom", b, n) = (b[1].kind = "eeprom" /\ ~Uniform(b, n))
    BY Zenon DEF Valid
  <1>2. Valid("firmware", b, n) = TRUE
    BY Zenon DEF Valid
  <1>3. Valid("environment", b, n) =
          (n >= EnvUnits /\ b[1].kind = "envcrc" /\ b[1].crc = SubSeq(b, 2, EnvUnits))
    BY Zenon DEF Valid
  <1>4. Valid("uboot", b, n) = (~Uniform(b, n) /\ b[2].kind = "mt7621")
    BY Zenon DEF Valid
  <1>5. Valid("factory", b, n) = ~Uniform(b, n)
    BY Zenon DEF Valid
  <1> QED
    BY <1>1, <1>2, <1>3, <1>4, <1>5

\* Apart from images for a RAM boot, the verdict is about the first n units.
LEMMA VerdictAgrees ==
  ASSUME NEW b, NEW u, NEW n, Agree(b, u, n), n > 0, \A i \in 1 .. n : IsUnit(u[i]),
         NEW t \in Targets \ {"ram"}
  PROVE  Valid(t, b, n) = Valid(t, u, n) /\ Kind(t, b, n) = Kind(t, u, n)
  <1>1. n \in Nat /\ 1 \in 1 .. n /\ b[1] = u[1] /\ (n > 1 => b[2] = u[2])
    <2>1. n \in Nat /\ \A i \in 1 .. n : b[i] = u[i]
      BY AgreeFacts
    <2> QED
      BY <2>1
  <1>2. Kind(t, b, n) = Kind(t, u, n)
    BY KindAgrees DEF Kind
  <1>3. Uniform(b, n) = Uniform(u, n)
    BY UniformAgrees
  <1>4. CASE t = "firmware"
    BY <1>4, <1>2, ValidCases
  <1>5. CASE t \in {"eeprom", "factory"}
    BY <1>1, <1>3, <1>5, <1>2, ValidCases
  <1>6. CASE t = "uboot"
    <2>1. CASE n > 1
      BY <1>1, <1>3, <1>6, <2>1, <1>2, ValidCases
    <2>2. CASE n = 1
      <3>1. Uniform(b, n) /\ Uniform(u, n)
        BY <2>2 DEF Uniform
      <3> QED
        BY <1>6, <3>1, <1>2, ValidCases
    <2> QED
      BY <1>1, <2>1, <2>2
  <1>7. CASE t = "environment"
    <2>1. CASE n >= EnvUnits
      <3>1. SubSeq(b, 2, EnvUnits) = SubSeq(u, 2, EnvUnits)
        BY <1>1, <2>1, UploadsAssumption, PartAgrees
      <3> QED
        BY <1>1, <1>7, <3>1, <1>2, ValidCases
    <2>2. CASE ~(n >= EnvUnits)
      BY <1>7, <2>2, <1>2, ValidCases
    <2> QED
      BY <2>1, <2>2
  <1> QED
    BY <1>2, <1>4, <1>5, <1>6, <1>7 DEF Targets

-----------------------------------------------------------------------------
(* The uploads.                                                             *)

\* A buffer is a sequence.
LEMMA BufferSequence ==
  ASSUME NEW b, b = [i \in 1 .. BufferSize |-> b[i]]
  PROVE  Sequence(b) /\ Len(b) = BufferSize
  <1> DEFINE S == {b[i] : i \in DOMAIN b}
  <1>1. b \in [1 .. BufferSize -> S] /\ BufferSize \in Nat
    BY UploadsAssumption
  <1> HIDE DEF S
  <1>2. b \in Seq(S) /\ Len(b) = BufferSize
    BY <1>1, SeqDef
  <1> QED
    BY <1>2 DEF Sequence, S

\* What is in the buffer when an upload is complete, and what would be there
\* without the leftovers.
LEMMA UploadStored ==
  ASSUME NEW t \in DOMAIN Uploads, NEW u \in Uploads[t], NEW rest
  PROVE  LET b == [i \in 1 .. BufferSize |-> IF i <= Len(u) THEN u[i] ELSE rest[i]]
         IN  Agree(b, u, Len(u)) /\ Len(u) > 0 /\ \A i \in 1 .. Len(u) : IsUnit(u[i])
  <1> DEFINE b == [i \in 1 .. BufferSize |-> IF i <= Len(u) THEN u[i] ELSE rest[i]]
  <1>1. Sequence(u) /\ Len(u) \in 1 .. BufferSize /\ BufferSize \in Nat
        /\ \A i \in 1 .. Len(u) : IsUnit(u[i])
    BY UploadsAssumption DEF Sequence
  <1>2. Sequence(b) /\ Len(b) = BufferSize
    BY BufferSequence
  <1>3. \A i \in 1 .. Len(u) : b[i] = u[i]
    BY <1>1
  <1> QED
    BY <1>1, <1>2, <1>3 DEF Agree

LEMMA VerdictStep ==
  ASSUME "ram" \notin DOMAIN Uploads, VerdictFromUpload, [CheckNext]_checkVars
  PROVE  VerdictFromUpload'
  <1>1. ASSUME NEW t \in DOMAIN Uploads, NEW u \in Uploads[t], Upload(t, u)
        PROVE  VerdictFromUpload'
    <2> DEFINE n     == Len(u)
               alone == [i \in 1 .. BufferSize |-> IF i <= n THEN u[i] ELSE Blank]
               rest  == [i \in 1 .. BufferSize |-> Blank]
               blank == [i \in 1 .. BufferSize |-> IF i <= n THEN u[i] ELSE rest[i]]
    <2>1. /\ buf' = [i \in 1 .. BufferSize |-> IF i <= n THEN u[i] ELSE buf[i]]
          /\ target' = t /\ size' = n /\ body' = u
          /\ upload_valid' = Valid(t, buf', n) /\ image_kind' = Kind(t, buf', n)
      BY <1>1 DEF Upload, Stored
    <2>2. /\ Agree(buf', u, n) /\ Agree(blank, u, n) /\ n > 0
          /\ \A i \in 1 .. n : IsUnit(u[i])
      BY <2>1, UploadStored
    <2>3. alone = blank /\ t \in Targets \ {"ram"}
      BY UploadsAssumption
    <2> HIDE DEF n, blank
    <2>4. /\ Valid(t, buf', n) = Valid(t, u, n) /\ Kind(t, buf', n) = Kind(t, u, n)
          /\ Valid(t, blank, n) = Valid(t, u, n) /\ Kind(t, blank, n) = Kind(t, u, n)
      BY <2>2, <2>3, VerdictAgrees
    <2> QED
      BY <2>1, <2>3, <2>4 DEF VerdictFromUpload
  <1>2. ASSUME NEW t, NEW u, NEW k, BreakOff(t, u, k)
        PROVE  VerdictFromUpload'
    BY <1>2 DEF BreakOff, VerdictFromUpload
  <1>3. CASE UNCHANGED checkVars
    BY <1>3 DEF checkVars, VerdictFromUpload
  <1> QED
    BY <1>1, <1>2, <1>3 DEF CheckNext

\* The verdict does not depend on what is left in the buffer, for every upload
\* but an image for a RAM boot, whose checksum is taken without regard to the
\* length of the upload.
THEOREM VerdictFromUploadAlways ==
  ASSUME "ram" \notin DOMAIN Uploads
  PROVE  CheckSpec => []VerdictFromUpload
  <1>1. CheckInit => VerdictFromUpload
    BY DEF CheckInit, VerdictFromUpload
  <1>2. VerdictFromUpload /\ [CheckNext]_checkVars => VerdictFromUpload'
    BY VerdictStep
  <1> QED
    BY <1>1, <1>2, PTL DEF CheckSpec

-----------------------------------------------------------------------------
(* The class of an image.                                                   *)

\* The record that ends at c is metadata that names this device.
Metadata(u, c) ==
  LET r == u[c].record_size
  IN  /\ u[c].type = "info" /\ r > 2
      /\ u[c - r + 1] = [kind |-> "fwheader", version |-> 0]
      /\ \E j \in c - r + 2 .. c - 1 : u[j] = [kind |-> "json", ours |-> TRUE]

\* The records that end at ends[1], ends[2] .. ends[n], from the back to the front.
Records(u, n, ends) ==
  /\ ends[1] = Len(u)
  /\ \A i \in 1 .. n : Sealed(u, ends[i])
  /\ \A i \in 1 .. n - 1 :
       u[ends[i]].type # "info" /\ ends[i + 1] = ends[i] - u[ends[i]].record_size
  /\ Metadata(u, ends[n])

Units(u) == Sequence(u) /\ Len(u) > 0 /\ \A i \in 1 .. Len(u) : IsUnit(u[i])

\* What one record says.
LEMMA InfoRight ==
  ASSUME NEW u, Units(u), NEW c \in 1 .. Len(u), u[c].record_size \in 1 .. c, u[c].type = "info"
  PROVE  InfoVerdict(u, c) = "ok" <=> Metadata(u, c)
  <1> DEFINE r == u[c].record_size
  <1>1. Len(u) \in Nat /\ c \in Nat /\ r \in Nat /\ \A i \in 1 .. Len(u) : IsUnit(u[i])
    BY DEF Units, Sequence
  <1>2. CASE ~(r > 2)
    BY <1>1, <1>2 DEF InfoVerdict, Metadata
  <1>3. CASE r > 2
    <2>1. /\ c - r + 1 \in 1 .. Len(u) /\ \A j \in c - r + 2 .. c - 1 : j \in 1 .. Len(u)
      BY <1>1, <1>3
    <2>2. IsUnit(u[c - r + 1]) /\ \A j \in c - r + 2 .. c - 1 : IsUnit(u[j])
      BY <1>1, <2>1
    <2>3. (u[c - r + 1].kind # "fwheader" \/ u[c - r + 1].version # 0)
            <=> u[c - r + 1] # [kind |-> "fwheader", version |-> 0]
      BY <2>2 DEF IsUnit
    <2>4. ASSUME NEW j \in c - r + 2 .. c - 1
          PROVE  (u[j].kind = "json" /\ u[j].ours) <=> u[j] = [kind |-> "json", ours |-> TRUE]
      <3>1. IsUnit(u[j])
        BY <2>2, <2>4
      <3>2. ASSUME u[j].kind = "json", u[j].ours
            PROVE  u[j] = [kind |-> "json", ours |-> TRUE]
        <4>1. u[j] = [kind |-> "json", ours |-> u[j].ours] /\ u[j].ours \in BOOLEAN
          BY <3>1, <3>2 DEF IsUnit
        <4>2. u[j].ours = TRUE
          BY <3>2, <4>1, Zenon
        <4> QED
          BY <4>1, <4>2, Zenon
      <3> QED
        BY <3>2
    <2>5. (\E j \in c - r + 2 .. c - 1 : u[j].kind = "json" /\ u[j].ours)
            <=> (\E j \in c - r + 2 .. c - 1 : u[j] = [kind |-> "json", ours |-> TRUE])
      BY <2>4, Zenon
    <2>6. ~(r - 1 <= 1)
      BY <1>1, <1>3
    <2>7. "einval" # "ok" /\ "eprotonosupport" # "ok" /\ "enodev" # "ok"
      OBVIOUS
    <2> QED
      BY <1>3, <2>3, <2>5, <2>6, <2>7, Zenon DEF InfoVerdict, Metadata
  <1> QED
    BY <1>2, <1>3

LEMMA IterationRight ==
  ASSUME NEW u, Units(u), NEW c \in 0 .. Len(u), NEW x
  PROVE  Iteration(u, c, x) = "ok" <=>
           /\ c > 0 /\ Sealed(u, c)
           /\ Metadata(u, c) \/ (u[c].type # "info" /\ x = "ok")
  <1>1. Len(u) \in Nat /\ c \in Nat
    BY DEF Units, Sequence
  <1>2. CASE c = 0 \/ u[c].kind # "trailer"
    BY <1>1, <1>2 DEF Iteration, Sealed
  <1>3. CASE ~(c = 0 \/ u[c].kind # "trailer")
    <2>1. c \in 1 .. Len(u) /\ c > 0
      BY <1>1, <1>3
    <2>2. u[c].record_size \in Nat
      BY <1>3, <2>1 DEF Units, IsUnit
    <2>3. CASE u[c].record_size < 1 \/ u[c].record_size > c
      BY <1>1, <1>3, <2>2, <2>3 DEF Iteration, Sealed
    <2>4. CASE u[c].record_size \in 1 .. c
      <3>1. ~(u[c].record_size < 1 \/ u[c].record_size > c)
        BY <1>1, <2>2, <2>4
      <3>2. CASE u[c].crc # SubSeq(u, 1, c - 1)
        BY <1>3, <3>1, <3>2 DEF Iteration, Sealed
      <3>3. CASE u[c].crc = SubSeq(u, 1, c - 1)
        <4>1. Sealed(u, c)
          BY <1>3, <2>4, <3>3 DEF Sealed
        <4>2. CASE u[c].type = "info"
          BY <1>3, <2>1, <2>4, <3>1, <3>3, <4>1, <4>2, InfoRight DEF Iteration
        <4>3. CASE u[c].type # "info"
          BY <1>3, <2>1, <3>1, <3>3, <4>1, <4>3 DEF Iteration, Metadata
        <4> QED
          BY <4>2, <4>3
      <3> QED
        BY <3>2, <3>3
    <2> QED
      BY <1>1, <2>2, <2>3, <2>4
  <1> QED
    BY <1>2, <1>3

\* webflash_validate_fwtool() accepts exactly a chain of one to three sealed
\* records that ends in this device's metadata.
LEMMA FwtoolRight ==
  ASSUME NEW u, Units(u)
  PROVE  FwtoolVerdict(u, Len(u)) = "ok" <=>
           \E n \in 1 .. 3 : \E ends \in [1 .. n -> 1 .. Len(u)] : Records(u, n, ends)
  <1> DEFINE len     == Len(u)
             Back(c) == c - u[c].record_size
             Goes(c) == Sealed(u, c) /\ u[c].type # "info"
             Ends(c) == Sealed(u, c) /\ Metadata(u, c)
  <1>1. len \in Nat /\ len \in 1 .. len /\ len \in 0 .. len
    BY DEF Units, Sequence
  <1>2. ASSUME NEW c \in 1 .. len, Sealed(u, c)
        PROVE  Back(c) \in 0 .. len
    BY <1>1, <1>2 DEF Sealed
  <1>3. ASSUME NEW c \in 0 .. len
        PROVE  LastIteration(u, c) = "ok" <=> c > 0 /\ Ends(c)
    BY <1>3, IterationRight DEF LastIteration
  <1>4. ASSUME NEW c \in 0 .. len
        PROVE  SecondIteration(u, c) = "ok" <=>
                 c > 0 /\ (Ends(c) \/ (Goes(c) /\ Back(c) > 0 /\ Ends(Back(c))))
    <2>1. SecondIteration(u, c) = "ok" <=>
            c > 0 /\ (Ends(c) \/ (Goes(c) /\ LastIteration(u, Back(c)) = "ok"))
      BY <1>4, IterationRight DEF SecondIteration
    <2>2. ASSUME c > 0, Goes(c)
          PROVE  LastIteration(u, Back(c)) = "ok" <=> Back(c) > 0 /\ Ends(Back(c))
      <3>1. c \in 1 .. len
        BY <1>1, <1>4, <2>2
      <3> QED
        BY <1>2, <1>3, <2>2, <3>1
    <2> QED
      BY <2>1, <2>2
  <1>5. FwtoolVerdict(u, len) = "ok" <=>
          \/ Ends(len)
          \/ Goes(len) /\ Back(len) > 0 /\ Ends(Back(len))
          \/ /\ Goes(len) /\ Back(len) > 0 /\ Goes(Back(len))
             /\ Back(Back(len)) > 0 /\ Ends(Back(Back(len)))
    <2>1. FwtoolVerdict(u, len) = "ok" <=>
            Ends(len) \/ (Goes(len) /\ SecondIteration(u, Back(len)) = "ok")
      BY <1>1, IterationRight DEF FwtoolVerdict, Units
    <2>2. Goes(len) => Back(len) \in 0 .. len
      BY <1>1, <1>2
    <2> QED
      BY <1>4, <2>1, <2>2
  <1>6. ASSUME FwtoolVerdict(u, len) = "ok"
        PROVE  \E n \in 1 .. 3 : \E ends \in [1 .. n -> 1 .. len] : Records(u, n, ends)
    <2>1. CASE Ends(len)
      <3> DEFINE ends == [i \in 1 .. 1 |-> len]
      <3>1. ends \in [1 .. 1 -> 1 .. len] /\ Records(u, 1, ends)
        BY <1>1, <2>1 DEF Records
      <3> QED
        BY <3>1
    <2>2. CASE Goes(len) /\ Back(len) > 0 /\ Ends(Back(len))
      <3> DEFINE c    == Back(len)
                 ends == [i \in 1 .. 2 |-> IF i = 1 THEN len ELSE c]
      <3>1. c \in 1 .. len
        BY <1>1, <1>2, <2>2
      <3> HIDE DEF c
      <3>2. ends \in [1 .. 2 -> 1 .. len] /\ ends[1] = len /\ ends[2] = c
        BY <1>1, <3>1
      <3>3. Records(u, 2, ends)
        BY <2>2, <3>2 DEF Records, c
      <3> QED
        BY <3>2, <3>3
    <2>3. CASE /\ Goes(len) /\ Back(len) > 0 /\ Goes(Back(len))
               /\ Back(Back(len)) > 0 /\ Ends(Back(Back(len)))
      <3> DEFINE c    == Back(len)
                 d    == Back(c)
                 ends == [i \in 1 .. 3 |-> IF i = 1 THEN len ELSE IF i = 2 THEN c ELSE d]
      <3>1. c \in 1 .. len
        BY <1>1, <1>2, <2>3
      <3>2. d \in 1 .. len
        <4>1. Back(c) \in 0 .. len /\ Back(c) > 0
          BY <1>2, <2>3, <3>1
        <4> QED
          BY <1>1, <4>1
      <3>3. /\ Goes(len) /\ Goes(c) /\ Ends(d)
            /\ c = len - u[len].record_size /\ d = c - u[c].record_size
        BY <2>3
      <3> HIDE DEF c, d
      <3>4. ends \in [1 .. 3 -> 1 .. len] /\ ends[1] = len /\ ends[2] = c /\ ends[3] = d
        BY <1>1, <3>1, <3>2
      <3>5. Records(u, 3, ends)
        BY <3>3, <3>4 DEF Records
      <3> QED
        BY <3>4, <3>5
    <2> QED
      BY <1>5, <1>6, <2>1, <2>2, <2>3
  <1>7. ASSUME NEW n \in 1 .. 3, NEW ends \in [1 .. n -> 1 .. len], Records(u, n, ends)
        PROVE  FwtoolVerdict(u, len) = "ok"
    <2>1. CASE n = 1
      <3>1. Ends(len)
        BY <1>7, <2>1 DEF Records
      <3> QED
        BY <1>5, <3>1
    <2>2. CASE n = 2
      <3>1. /\ ends[1] = len /\ ends[2] \in 1 .. len /\ Goes(ends[1]) /\ Ends(ends[2])
            /\ ends[2] = ends[1] - u[ends[1]].record_size
        BY <1>7, <2>2 DEF Records
      <3>2. Goes(len) /\ Back(len) > 0 /\ Ends(Back(len))
        BY <1>1, <3>1
      <3> QED
        BY <1>5, <3>2
    <2>3. CASE n = 3
      <3>1. /\ ends[1] = len /\ ends[2] \in 1 .. len /\ ends[3] \in 1 .. len
            /\ Goes(ends[1]) /\ Goes(ends[2]) /\ Ends(ends[3])
            /\ ends[2] = ends[1] - u[ends[1]].record_size
            /\ ends[3] = ends[2] - u[ends[2]].record_size
        BY <1>7, <2>3 DEF Records
      <3>2. /\ Goes(len) /\ Back(len) > 0 /\ Goes(Back(len))
            /\ Back(Back(len)) > 0 /\ Ends(Back(Back(len)))
        BY <1>1, <3>1
      <3> QED
        BY <1>5, <3>2
    <2> QED
      BY <2>1, <2>2, <2>3
  <1> QED
    BY <1>6, <1>7

LEMMA KindRightStep ==
  ASSUME KindRight, [CheckNext]_checkVars
  PROVE  KindRight'
  <1>1. ASSUME NEW t \in DOMAIN Uploads, NEW u \in Uploads[t], Upload(t, u), t = "firmware"
        PROVE  image_kind' = "openwrt" <=> ForThisDevice(u)
    <2> DEFINE n == Len(u)
    <2>1. /\ buf' = [i \in 1 .. BufferSize |-> IF i <= n THEN u[i] ELSE buf[i]]
          /\ image_kind' = FirmwareKind(buf', n)
      BY <1>1 DEF Upload, Stored, Kind
    <2>2. Agree(buf', u, n) /\ n > 0 /\ \A i \in 1 .. n : IsUnit(u[i])
      BY <2>1, UploadStored
    <2>3. image_kind' = FirmwareKind(u, n)
      BY <2>1, <2>2, KindAgrees
    <2>4. Units(u) /\ n \in Nat /\ n \in 1 .. BufferSize /\ BufferSize \in Nat
      <3>1. n \in 1 .. BufferSize /\ BufferSize \in Nat
        BY UploadsAssumption
      <3> QED
        BY <2>2, <3>1 DEF Units, Agree
    <2>5. FwtoolVerdict(u, n) = "ok" <=>
            \E m \in 1 .. 3 : \E ends \in [1 .. m -> 1 .. n] : Records(u, m, ends)
      BY <2>4, FwtoolRight
    <2>6. UimageComplete(u, n) <=>
            /\ u[1].kind = "header" /\ u[1].mips_linux_kernel
            /\ u[1].data_size < n /\ u[1].data_crc = SubSeq(u, 2, u[1].data_size + 1)
      <3>1. CASE u[1].kind # "header"
        BY <3>1 DEF UimageComplete, IsKernel
      <3>2. CASE u[1].kind = "header"
        <4>1. IsUnit(u[1])
          BY <2>2, <2>4
        <4>2. u[1].data_size \in Nat
          BY <3>2, <4>1 DEF IsUnit
        <4> QED
          BY <2>4, <4>2 DEF UimageComplete, IsKernel, ImageSize, DataCrcRight
      <3> QED
        BY <3>1, <3>2
    <2>7. FirmwareKind(u, n) = "openwrt" <=> UimageComplete(u, n) /\ FwtoolVerdict(u, n) = "ok"
      BY DEF FirmwareKind
    <2>8. ForThisDevice(u) <=>
            /\ u[1].kind = "header" /\ u[1].mips_linux_kernel
            /\ u[1].data_size < n /\ u[1].data_crc = SubSeq(u, 2, u[1].data_size + 1)
            /\ \E m \in 1 .. 3 : \E ends \in [1 .. m -> 1 .. n] : Records(u, m, ends)
      BY Zenon DEF ForThisDevice, Records, Metadata
    <2> QED
      BY <2>3, <2>5, <2>6, <2>7, <2>8
  <1>2. ASSUME NEW t \in DOMAIN Uploads, NEW u \in Uploads[t], Upload(t, u)
        PROVE  KindRight'
    <2>1. target' = t /\ body' = u
      BY <1>2 DEF Upload
    <2>2. t = "firmware" => (image_kind' = "openwrt" <=> ForThisDevice(u))
      BY <1>1, <1>2
    <2>3. ForThisDevice(body)' <=> ForThisDevice(u)
      BY <2>1 DEF ForThisDevice, Sealed
    <2> QED
      BY <2>1, <2>2, <2>3 DEF KindRight
  <1>3. ASSUME NEW t, NEW u, NEW k, BreakOff(t, u, k)
        PROVE  KindRight'
    BY <1>3 DEF BreakOff, KindRight
  <1>4. CASE UNCHANGED checkVars
    <2>1. body' = body /\ target' = target /\ size' = size /\ image_kind' = image_kind
      BY <1>4 DEF checkVars
    <2>2. ForThisDevice(body)' <=> ForThisDevice(body)
      BY <2>1 DEF ForThisDevice, Sealed
    <2> QED
      BY <2>1, <2>2 DEF KindRight
  <1> QED
    BY <1>2, <1>3, <1>4 DEF CheckNext

\* webflash_validate_firmware() calls an image one for this device exactly if it
\* is: for every image, of whatever length and with whatever records, and over
\* whatever leftovers.
THEOREM KindRightAlways == CheckSpec => []KindRight
  <1>1. CheckInit => KindRight
    BY DEF CheckInit, KindRight
  <1>2. KindRight /\ [CheckNext]_checkVars => KindRight'
    BY KindRightStep
  <1> QED
    BY <1>1, <1>2, PTL DEF CheckSpec

-----------------------------------------------------------------------------
(* The memory map. First, sets of indices.                                  *)

\* Every set of naturals has a least member; this is what the inductions use.
LEMMA LeastMember ==
  ASSUME NEW T, T \subseteq Nat, T # {}
  PROVE  Min(T) \in T /\ \A y \in T : Min(T) <= y
  <1>1. PICK x \in T : \A y \in T : <<y, x>> \notin OpToRel(<, Nat)
    BY WFMin, NatLessThanWellFounded
  <1>2. \A y \in T : ~(y < x)
    BY <1>1 DEF OpToRel
  <1>3. \E z \in T : \A y \in T : z <= y
    BY <1>2
  <1> QED
    BY <1>3 DEF Min

\* A bounded one has a greatest member.
LEMMA GreatestMember ==
  ASSUME NEW n \in Nat, NEW T, T \subseteq 0 .. n, T # {}
  PROVE  Max(T) \in T /\ \A y \in T : Max(T) >= y
  <1> DEFINE U == {n - y : y \in T}
  <1>1. \A y \in T : n - y \in Nat /\ y \in Nat
    OBVIOUS
  <1>2. U \subseteq Nat /\ U # {}
    BY <1>1
  <1>3. PICK z \in U : \A y \in U : z <= y
    BY <1>2, LeastMember
  <1>4. PICK x \in T : z = n - x
    BY <1>3
  <1>5. ASSUME NEW y \in T PROVE x >= y
    <2>1. n - x <= n - y
      BY <1>3, <1>4, <1>5
    <2> QED
      BY <1>1, <1>4, <1>5, <2>1
  <1>6. \E w \in T : \A y \in T : w >= y
    BY <1>4, <1>5
  <1> QED
    BY <1>6 DEF Max

\* What SelectInSeq() makes of the set of the indices that pass its test.
FirstOf(I) == IF I # {} THEN Min(I) ELSE 0

\* It is the least of them, or 0 if there is none.
LEMMA FirstIndex ==
  ASSUME NEW n \in Nat, NEW I, I \subseteq 1 .. n
  PROVE  \/ FirstOf(I) = 0 /\ I = {}
         \/ /\ FirstOf(I) \in 1 .. n /\ FirstOf(I) # 0 /\ FirstOf(I) \in I
            /\ \A j \in 1 .. FirstOf(I) - 1 : j \notin I
  <1>1. CASE I = {}
    BY <1>1 DEF FirstOf
  <1>2. CASE I # {}
    <2> DEFINE i == Min(I)
    <2>1. i \in I /\ \A y \in I : i <= y
      <3>1. I \subseteq Nat
        OBVIOUS
      <3> QED
        BY <1>2, <3>1, LeastMember
    <2>2. FirstOf(I) = i
      BY <1>2 DEF FirstOf
    <2> HIDE DEF i
    <2>3. i \in 1 .. n /\ i # 0
      BY <2>1
    <2>4. \A j \in 1 .. i - 1 : j \notin I
      BY <2>1, <2>3
    <2> QED
      BY <2>1, <2>2, <2>3, <2>4
  <1> QED
    BY <1>1, <1>2

-----------------------------------------------------------------------------
(* Addresses.                                                               *)

\* The assumptions on the memory, without their definitions.
LEMMA Numbers ==
  /\ W \in Nat \ {0} /\ MemBase \in Nat /\ MemSize \in Nat \ {0} /\ MemEnd \in Nat
  /\ MemEnd = MemBase + MemSize /\ MemEnd < W /\ MemSize < MemBase
  /\ UbootBase \in Nat /\ MemBase <= UbootBase /\ UbootBase < MemEnd
  /\ None # NoOverwrite
  BY LmbAssumption DEF MemEnd

\* Below 2^32 nothing wraps.
LEMMA Small ==
  ASSUME NEW x \in Nat, x < W
  PROVE  x % W = x
  BY Numbers

\* lmb_addrs_overlap() for ranges that do not wrap.
LEMMA Overlap ==
  ASSUME NEW b1 \in Nat, NEW s1 \in Nat \ {0}, NEW b2 \in Nat, NEW s2 \in Nat \ {0},
         b1 + s1 <= W, b2 + s2 <= W
  PROVE  AddrsOverlap(b1, s1, b2, s2) <=> b1 < b2 + s2 /\ b2 < b1 + s1
  <1>1. b1 + s1 - 1 \in Nat /\ b1 + s1 - 1 < W /\ b2 + s2 - 1 \in Nat /\ b2 + s2 - 1 < W
    BY Numbers
  <1>2. (b1 + s1 - 1) % W = b1 + s1 - 1 /\ (b2 + s2 - 1) % W = b2 + s2 - 1
    BY <1>1, Small
  <1> QED
    BY <1>2 DEF AddrsOverlap

-----------------------------------------------------------------------------
(* Lists of regions.                                                        *)

\* The fields of a region.
LEMMA RegionFields ==
  ASSUME NEW b, NEW s, NEW f
  PROVE  /\ Region(b, s, f).base = b /\ Region(b, s, f).size = s /\ Region(b, s, f).flags = f
         /\ b \in Nat /\ s \in Nat \ {0} /\ f \in Flags => Region(b, s, f) \in Regions
  BY DEF Region, Regions

\* U-Boot's region reaches to the end of the memory.
LEMMA UbootFields ==
  /\ Uboot.base = UbootBase /\ Uboot.size = MemEnd - UbootBase /\ Uboot.flags = NoOverwrite
  /\ End(Uboot) = MemEnd /\ Uboot \in Regions
  BY Numbers, RegionFields DEF Uboot, End, Flags

\* What is known of the regions of a list.
LEMMA ListFacts ==
  ASSUME NEW lst, LmbList(lst)
  PROVE  /\ Len(lst) \in Nat \ {0} /\ lst[Len(lst)] = Uboot
         /\ \A i \in 1 .. Len(lst) :
              /\ lst[i] \in Regions /\ lst[i].base \in Nat /\ lst[i].size \in Nat \ {0}
              /\ lst[i].flags \in Flags
              /\ End(lst[i]) = lst[i].base + lst[i].size /\ End(lst[i]) \in Nat
              /\ End(lst[i]) <= MemEnd
              /\ i < Len(lst) => End(lst[i]) <= UbootBase /\ lst[i].flags = None
         /\ \A i, j \in 1 .. Len(lst) : i < j => End(lst[i]) <= lst[j].base
  <1>1. Len(lst) \in Nat \ {0} /\ lst[Len(lst)] = Uboot /\ lst \in Seq(Regions)
    BY LenProperties DEF LmbList
  <1>2. ASSUME NEW i \in 1 .. Len(lst)
        PROVE  /\ lst[i] \in Regions /\ lst[i].base \in Nat /\ lst[i].size \in Nat \ {0}
               /\ lst[i].flags \in Flags
               /\ End(lst[i]) = lst[i].base + lst[i].size /\ End(lst[i]) \in Nat
    <2>1. lst[i] \in Regions
      BY <1>1, ElementOfSeq
    <2> QED
      BY <2>1 DEF Regions, End
  <1>3. ASSUME NEW i \in 1 .. Len(lst), i < Len(lst)
        PROVE  End(lst[i]) <= UbootBase /\ lst[i].flags = None
    <2>1. End(lst[i]) <= lst[Len(lst)].base
      BY <1>1, <1>3 DEF LmbList
    <2>2. lst[i].flags = None
      BY <1>1, <1>3 DEF LmbList
    <2> QED
      BY <1>1, <2>1, <2>2, UbootFields
  <1>4. ASSUME NEW i \in 1 .. Len(lst)
        PROVE  End(lst[i]) <= MemEnd
    <2>1. CASE i < Len(lst)
      BY <1>2, <1>3, <2>1, Numbers
    <2>2. CASE i = Len(lst)
      BY <1>1, <2>2, UbootFields, Numbers
    <2> QED
      BY <1>1, <2>1, <2>2
  <1>5. \A i, j \in 1 .. Len(lst) : i < j => End(lst[i]) <= lst[j].base
    BY DEF LmbList
  <1> QED
    BY <1>1, <1>2, <1>3, <1>4, <1>5

\* Regions i to k of a list have become one, from lo to hi.
IsMerged(out, lst, i, k, lo, hi) ==
  /\ out \in Seq(Regions) /\ Len(out) = Len(lst) - (k - i)
  /\ \A j \in 1 .. Len(out) :
       out[j] = IF j < i THEN lst[j] ELSE IF j = i THEN Region(lo, hi - lo, None)
                ELSE lst[j + (k - i)]

\* The new region may have grown downwards and upwards into free memory. If k is
\* i - 1 it is in addition to the old ones.
LEMMA MergedList ==
  ASSUME NEW lst, LmbList(lst), NEW i \in 1 .. Len(lst), NEW k \in i - 1 .. Len(lst) - 1,
         NEW lo \in Nat, NEW hi \in Nat, lo < hi, hi <= lst[k + 1].base,
         \A j \in 1 .. i - 1 : End(lst[j]) <= lo,
         NEW out, IsMerged(out, lst, i, k, lo, hi)
  PROVE  LmbList(out)
  <1> DEFINE n == Len(lst)
             d == k - i
             g == Region(lo, hi - lo, None)
  <1>1. /\ n \in Nat \ {0} /\ lst[n] = Uboot
        /\ \A j \in 1 .. n : lst[j].base \in Nat /\ End(lst[j]) \in Nat /\ lst[j].base <= End(lst[j])
        /\ \A j \in 1 .. n - 1 : lst[j].flags = None
        /\ \A j \in 1 .. n : \A l \in 1 .. n : j < l => End(lst[j]) <= lst[l].base
    <2>1. n \in Nat \ {0} /\ lst[n] = Uboot
      BY ListFacts
    <2>2. ASSUME NEW j \in 1 .. n
          PROVE  /\ lst[j].base \in Nat /\ End(lst[j]) \in Nat /\ lst[j].base <= End(lst[j])
                 /\ j < n => lst[j].flags = None
      <3>1. /\ lst[j].base \in Nat /\ lst[j].size \in Nat \ {0} /\ End(lst[j]) = lst[j].base + lst[j].size
            /\ j < n => lst[j].flags = None
        BY <2>2, ListFacts
      <3> QED
        BY <3>1
    <2>3. \A j \in 1 .. n : \A l \in 1 .. n : j < l => End(lst[j]) <= lst[l].base
      BY ListFacts
    <2> HIDE DEF n
    <2>4. \A j \in 1 .. n - 1 : lst[j].flags = None
      <3> TAKE j \in 1 .. n - 1
      <3>1. j \in 1 .. n /\ j < n
        BY <2>1
      <3> QED
        BY <2>2, <3>1
    <2> QED
      BY <2>1, <2>2, <2>3, <2>4
  <1>2. g.base = lo /\ g.flags = None /\ End(g) = hi
    <2>1. g.base = lo /\ g.flags = None /\ g.size = hi - lo
      BY RegionFields
    <2> HIDE DEF g
    <2> QED
      BY <2>1 DEF End
  <1> HIDE DEF g, n
  <1>3. n \in Nat \ {0} /\ d \in Int /\ Len(out) = n - d /\ n - d > i /\ i \in Nat \ {0} /\ k \in Nat /\ k = i + d /\ k < n
    <2>1. Len(out) = n - d
      BY Zenon DEF n, IsMerged
    <2> QED
      BY <1>1, <2>1 DEF n
  <1>4. \A j \in 1 .. n - d : out[j] = IF j < i THEN lst[j] ELSE IF j = i THEN g ELSE lst[j + d]
    BY <1>3 DEF g, IsMerged
  <1>5. hi <= lst[k + 1].base /\ \A j \in 1 .. i - 1 : End(lst[j]) <= lo
    OBVIOUS
  <1> HIDE DEF d
  <1>6. \A j \in 1 .. i - 1 : out[j] = lst[j] /\ j \in 1 .. n - 1 /\ j < i
    <2> TAKE j \in 1 .. i - 1
    <2>1. j \in 1 .. n - d /\ j < i /\ j \in 1 .. n - 1
      BY <1>3
    <2> QED
      BY <1>4, <2>1
  <1>7. out[i] = g
    <2>1. i \in 1 .. n - d /\ ~(i < i)
      BY <1>3
    <2> QED
      BY <1>4, <2>1
  <1>8. \A j \in i + 1 .. n - d : out[j] = lst[j + d] /\ j + d \in k + 1 .. n
    <2> TAKE j \in i + 1 .. n - d
    <2>1. j \in 1 .. n - d /\ ~(j < i) /\ j # i /\ j + d \in k + 1 .. n
      BY <1>3
    <2> QED
      BY <1>4, <2>1
  <1>9. out[n - d] = Uboot
    <2>1. n - d \in i + 1 .. n - d /\ (n - d) + d = n
      BY <1>3
    <2> QED
      BY <1>1, <1>8, <2>1
  <1>10. \A j \in 1 .. n - d - 1 : out[j].flags = None
    <2> TAKE j \in 1 .. n - d - 1
    <2>0. j \in 1 .. i - 1 \/ j = i \/ (j \in i + 1 .. n - d /\ j + d < n)
      BY <1>3
    <2>1. CASE j \in 1 .. i - 1
      BY <1>1, <1>6, <2>1
    <2>2. CASE j = i
      BY <1>2, <1>7, <2>2
    <2>3. CASE j \in i + 1 .. n - d /\ j + d < n
      <3>1. out[j] = lst[j + d] /\ j + d \in k + 1 .. n
        BY <1>8, <2>3
      <3>2. j + d \in 1 .. n - 1
        BY <1>3, <2>3, <3>1
      <3> QED
        BY <1>1, <3>1, <3>2
    <2> QED
      BY <2>0, <2>1, <2>2, <2>3
  <1>11. \A l \in k + 1 .. n : hi <= lst[l].base
    <2> TAKE l \in k + 1 .. n
    <2>1. CASE l = k + 1
      BY <1>5, <2>1
    <2>2. CASE l # k + 1
      <3>1. k + 1 \in 1 .. n /\ l \in 1 .. n /\ k + 1 < l
        BY <1>3, <2>2
      <3>2. End(lst[k + 1]) <= lst[l].base
        BY <1>1, <3>1
      <3>3. /\ lst[k + 1].base <= End(lst[k + 1]) /\ lst[k + 1].base \in Nat
            /\ End(lst[k + 1]) \in Nat /\ lst[l].base \in Nat
        BY <1>1, <3>1
      <3> QED
        BY <1>5, <3>2, <3>3
    <2> QED
      BY <2>1, <2>2
  <1>12. ASSUME NEW j \in 1 .. n - d, NEW l \in 1 .. n - d, j < l
        PROVE  End(out[j]) <= out[l].base
    <2>0. /\ j \in 1 .. i - 1 \/ j = i \/ j \in i + 1 .. n - d
          /\ l \in 1 .. i - 1 \/ l = i \/ l \in i + 1 .. n - d
      BY <1>3
    <2>1. CASE l \in 1 .. i - 1
      <3>1. j \in 1 .. i - 1 /\ j \in 1 .. n /\ l \in 1 .. n
        BY <1>3, <1>12, <2>1
      <3> QED
        BY <1>1, <1>12, <1>6, <2>1, <3>1
    <2>2. CASE l = i
      <3>1. j \in 1 .. i - 1
        BY <1>3, <1>12, <2>2
      <3> QED
        BY <1>2, <1>5, <1>6, <1>7, <2>2, <3>1
    <2>3. CASE l \in i + 1 .. n - d /\ j \in 1 .. i - 1
      <3>1. out[l] = lst[l + d] /\ l + d \in k + 1 .. n /\ out[j] = lst[j]
        BY <1>6, <1>8, <2>3
      <3>2. l + d \in 1 .. n /\ j \in 1 .. n /\ j < l + d
        BY <1>3, <2>3, <3>1
      <3> QED
        BY <1>1, <3>1, <3>2
    <2>4. CASE l \in i + 1 .. n - d /\ j = i
      <3>1. out[l] = lst[l + d] /\ l + d \in k + 1 .. n
        BY <1>8, <2>4
      <3> QED
        BY <1>2, <1>7, <1>11, <2>4, <3>1
    <2>5. CASE l \in i + 1 .. n - d /\ j \in i + 1 .. n - d
      <3>1. /\ out[j] = lst[j + d] /\ out[l] = lst[l + d]
            /\ j + d \in k + 1 .. n /\ l + d \in k + 1 .. n
        BY <1>8, <2>5
      <3>2. j + d \in 1 .. n /\ l + d \in 1 .. n /\ j + d < l + d
        BY <1>3, <1>12, <3>1
      <3> QED
        BY <1>1, <3>1, <3>2
    <2> QED
      BY <2>0, <2>1, <2>2, <2>3, <2>4, <2>5
  <1>13. Len(out) > 0
    BY <1>3
  <1>14. out \in Seq(Regions)
    BY Zenon DEF IsMerged
  <1> QED
    BY <1>3, <1>9, <1>10, <1>12, <1>13, <1>14 DEF LmbList

\* A region between the beginning and the end of a list.
Spliced(lst, a, g, c) == SubSeq(lst, 1, a) \o <<g>> \o SubSeq(lst, c, Len(lst))

IsSpliced(out, lst, a, g, c) ==
  /\ out \in Seq(Regions) /\ Len(out) = a + 1 + (Len(lst) - c + 1)
  /\ \A j \in 1 .. a + 1 + (Len(lst) - c + 1) :
       out[j] = IF j <= a THEN lst[j] ELSE IF j = a + 1 THEN g ELSE lst[j - (a + 1) + c - 1]

\* Its members, one by one.
LEMMA Joined ==
  ASSUME NEW lst \in Seq(Regions), NEW a \in 0 .. Len(lst), NEW c \in 1 .. Len(lst) + 1, NEW g \in Regions
  PROVE  IsSpliced(Spliced(lst, a, g, c), lst, a, g, c)
  <1> DEFINE n  == Len(lst)
             s1 == SubSeq(lst, 1, a)
             s3 == SubSeq(lst, c, n)
             s2 == <<g>>
             out == Spliced(lst, a, g, c)
  <1>1. n \in Nat /\ \A j \in 1 .. n : lst[j] \in Regions
    BY LenProperties, ElementOfSeq
  <1>2. s1 \in Seq(Regions) /\ Len(s1) = a /\ \A j \in 1 .. a : s1[j] = lst[j]
    <2>1. \A j \in 1 .. a : lst[j] \in Regions
      BY <1>1
    <2>2. /\ s1 \in Seq(Regions) /\ Len(s1) = (IF 1 <= a THEN a - 1 + 1 ELSE 0)
          /\ \A j \in 1 .. a - 1 + 1 : s1[j] = lst[1 + j - 1]
      BY <2>1, SubSeqProperties
    <2> HIDE DEF s1
    <2> QED
      BY <1>1, <2>2
  <1>3. s3 \in Seq(Regions) /\ Len(s3) = n - c + 1 /\ \A j \in 1 .. n - c + 1 : s3[j] = lst[c + j - 1]
    <2>1. \A j \in c .. n : lst[j] \in Regions
      BY <1>1
    <2>2. /\ s3 \in Seq(Regions) /\ Len(s3) = (IF c <= n THEN n - c + 1 ELSE 0)
          /\ \A j \in 1 .. n - c + 1 : s3[j] = lst[c + j - 1]
      BY <1>1, <2>1, SubSeqProperties
    <2> HIDE DEF s3
    <2> QED
      BY <1>1, <2>2
  <1>4. s2 \in Seq(Regions) /\ Len(s2) = 1 /\ s2[1] = g
    OBVIOUS
  <1>5. out = (s1 \o s2) \o s3
    BY DEF Spliced
  <1>6. a \in Nat /\ c \in Nat /\ a <= n /\ c <= n + 1 /\ c >= 1
    BY <1>1
  <1> HIDE DEF n, s1, s2, s3, out
  <1> DEFINE t == s1 \o s2
  <1>7. t \in Seq(Regions) /\ Len(t) = a + 1 /\ \A j \in 1 .. a + 1 : t[j] = IF j <= a THEN s1[j] ELSE s2[j - a]
    <2>1. /\ t \in Seq(Regions) /\ Len(t) = Len(s1) + Len(s2)
          /\ \A j \in 1 .. Len(s1) + Len(s2) : t[j] = IF j <= Len(s1) THEN s1[j] ELSE s2[j - Len(s1)]
      BY <1>2, <1>4, ConcatProperties, Zenon
    <2> HIDE DEF t
    <2> QED
      BY <1>2, <1>4, <2>1
  <1>8. /\ out \in Seq(Regions) /\ Len(out) = a + 1 + (n - c + 1)
        /\ \A j \in 1 .. a + 1 + (n - c + 1) : out[j] = IF j <= a + 1 THEN t[j] ELSE s3[j - (a + 1)]
    <2>0. out = t \o s3
      BY <1>5
    <2> HIDE DEF t
    <2>1. /\ t \o s3 \in Seq(Regions) /\ Len(t \o s3) = Len(t) + Len(s3)
          /\ \A j \in 1 .. Len(t) + Len(s3) : (t \o s3)[j] = IF j <= Len(t) THEN t[j] ELSE s3[j - Len(t)]
      BY <1>3, <1>7, ConcatProperties, Zenon
    <2> QED
      BY <1>3, <1>7, <2>0, <2>1
  <1> HIDE DEF t
  <1>9. ASSUME NEW j \in 1 .. a + 1 + (n - c + 1)
        PROVE  out[j] = IF j <= a THEN lst[j] ELSE IF j = a + 1 THEN g ELSE lst[j - (a + 1) + c - 1]
    <2>1. CASE j <= a
      BY <1>1, <1>9, <1>2, <1>6, <1>7, <1>8, <2>1
    <2>2. CASE j = a + 1
      <3>1. out[j] = s2[j - a] /\ j - a = 1
        BY <1>1, <1>9, <1>6, <1>7, <1>8, <2>2
      <3> QED
        BY <1>1, <1>4, <1>6, <1>9, <2>2, <3>1
    <2>3. CASE j > a + 1
      <3>1. out[j] = s3[j - (a + 1)] /\ j - (a + 1) \in 1 .. n - c + 1
        BY <1>1, <1>9, <1>6, <1>8, <2>3
      <3>2. s3[j - (a + 1)] = lst[c + (j - (a + 1)) - 1] /\ c + (j - (a + 1)) - 1 = j - (a + 1) + c - 1
        BY <1>1, <1>9, <1>3, <1>6, <3>1
      <3> QED
        BY <1>1, <1>6, <1>9, <2>3, <3>1, <3>2
    <2> QED
      BY <1>1, <1>9, <1>6, <2>1, <2>2, <2>3
  <1> QED
    BY <1>8, <1>9 DEF n, out, IsSpliced

\* A list without its region i.
LEMMA Removed ==
  ASSUME NEW lst \in Seq(Regions), NEW i \in 1 .. Len(lst)
  PROVE  /\ RemoveAt(lst, i) \in Seq(Regions) /\ Len(RemoveAt(lst, i)) = Len(lst) - 1
         /\ \A j \in 1 .. Len(lst) - 1 : RemoveAt(lst, i)[j] = IF j < i THEN lst[j] ELSE lst[j + 1]
  <1> DEFINE n  == Len(lst)
             s1 == SubSeq(lst, 1, i - 1)
             s3 == SubSeq(lst, i + 1, n)
  <1>1. n \in Nat /\ \A j \in 1 .. n : lst[j] \in Regions
    BY LenProperties, ElementOfSeq
  <1>2. s1 \in Seq(Regions) /\ Len(s1) = i - 1 /\ \A j \in 1 .. i - 1 : s1[j] = lst[j]
    <2>1. \A j \in 1 .. i - 1 : lst[j] \in Regions
      BY <1>1
    <2>2. /\ s1 \in Seq(Regions) /\ Len(s1) = (IF 1 <= i - 1 THEN i - 1 - 1 + 1 ELSE 0)
          /\ \A j \in 1 .. i - 1 - 1 + 1 : s1[j] = lst[1 + j - 1]
      BY <2>1, SubSeqProperties
    <2> HIDE DEF s1
    <2> QED
      BY <1>1, <2>2
  <1>3. s3 \in Seq(Regions) /\ Len(s3) = n - i /\ \A j \in 1 .. n - i : s3[j] = lst[i + j]
    <2>1. \A j \in i + 1 .. n : lst[j] \in Regions
      BY <1>1
    <2>2. /\ s3 \in Seq(Regions) /\ Len(s3) = (IF i + 1 <= n THEN n - (i + 1) + 1 ELSE 0)
          /\ \A j \in 1 .. n - (i + 1) + 1 : s3[j] = lst[i + 1 + j - 1]
      BY <1>1, <2>1, SubSeqProperties
    <2> HIDE DEF s3
    <2> QED
      BY <1>1, <2>2
  <1>4. RemoveAt(lst, i) = s1 \o s3
    BY DEF RemoveAt
  <1>5. i \in Nat /\ i <= n /\ i >= 1
    BY <1>1
  <1> HIDE DEF n, s1, s3
  <1> DEFINE t == s1 \o s3
  <1>6. /\ t \in Seq(Regions) /\ Len(t) = n - 1
        /\ \A j \in 1 .. n - 1 : t[j] = IF j <= i - 1 THEN s1[j] ELSE s3[j - (i - 1)]
    <2>1. i - 1 + (n - i) = n - 1
      BY <1>1, <1>5
    <2>2. /\ t \in Seq(Regions) /\ Len(t) = Len(s1) + Len(s3)
          /\ \A j \in 1 .. Len(s1) + Len(s3) : t[j] = IF j <= Len(s1) THEN s1[j] ELSE s3[j - Len(s1)]
      BY <1>2, <1>3, ConcatProperties, Zenon
    <2> HIDE DEF t
    <2> QED
      BY <1>2, <1>3, <2>1, <2>2
  <1> HIDE DEF t
  <1>7. ASSUME NEW j \in 1 .. n - 1
        PROVE  t[j] = IF j < i THEN lst[j] ELSE lst[j + 1]
    <2>1. CASE j < i
      BY <1>1, <1>2, <1>5, <1>6, <2>1
    <2>2. CASE j >= i
      <3>1. t[j] = s3[j - (i - 1)] /\ j - (i - 1) \in 1 .. n - i /\ i + (j - (i - 1)) = j + 1
        BY <1>1, <1>5, <1>6, <2>2
      <3> QED
        BY <1>1, <1>3, <1>5, <2>2, <3>1
    <2> QED
      BY <1>1, <1>5, <2>1, <2>2
  <1> QED
    BY <1>4, <1>6, <1>7 DEF n, t

-----------------------------------------------------------------------------
(* lmb_add_region_flags().                                                  *)

\* A request below U-Boot and region j of a list.
LEMMA Relation ==
  ASSUME NEW lst, LmbList(lst), NEW j \in 1 .. Len(lst),
         NEW b \in Nat, NEW s \in Nat \ {0}, b + s <= UbootBase
  PROVE  LET r == lst[j]
         IN  /\ AddrsOverlap(b, s, r.base, r.size) <=> b < End(r) /\ r.base < b + s
             /\ r.base = b + s => AddrsAdjacent(b, s, r.base, r.size) = 1
             /\ b = End(r) => AddrsAdjacent(b, s, r.base, r.size) = -1
             /\ r.base # b + s /\ b # End(r) => AddrsAdjacent(b, s, r.base, r.size) = 0
             /\ StopsSearch(r, b, s, None) <=> b <= End(r) /\ r.base <= b + s
             /\ j = Len(lst) => b < End(r)
  <1> DEFINE r == lst[j]
  <1>1. /\ r.base \in Nat /\ r.size \in Nat \ {0} /\ End(r) = r.base + r.size /\ End(r) <= MemEnd
        /\ Len(lst) \in Nat /\ j \in 1 .. Len(lst)
        /\ j < Len(lst) => r.flags = None
        /\ j = Len(lst) => r = Uboot
    BY ListFacts
  <1> HIDE DEF r
  <1>2. b + s < W /\ r.base + r.size < W /\ b + s <= W /\ r.base + r.size <= W
    BY <1>1, Numbers
  <1>3. AddrsOverlap(b, s, r.base, r.size) <=> b < End(r) /\ r.base < b + s
    BY <1>1, <1>2, Overlap
  <1>4. /\ r.base = b + s => AddrsAdjacent(b, s, r.base, r.size) = 1
        /\ b = End(r) => AddrsAdjacent(b, s, r.base, r.size) = -1
        /\ r.base # b + s /\ b # End(r) => AddrsAdjacent(b, s, r.base, r.size) = 0
    <2>1. (b + s) % W = b + s /\ (r.base + r.size) % W = r.base + r.size
      BY <1>1, <1>2, Small
    <2> QED
      BY <1>1, <2>1 DEF AddrsAdjacent
  <1>5. j = Len(lst) => b < End(r)
    BY <1>1, UbootFields, Numbers
  <1>6. b = End(r) => r.flags = None
    BY <1>1, <1>5
  <1>7. StopsSearch(r, b, s, None) <=> b <= End(r) /\ r.base <= b + s
    <2>1. CASE r.base = b + s
      <3>1. AddrsAdjacent(b, s, r.base, r.size) = 1 /\ b <= End(r)
        BY <1>1, <1>4, <2>1
      <3> QED
        BY <2>1, <3>1 DEF StopsSearch
    <2>2. CASE r.base # b + s /\ b = End(r)
      <3>1. AddrsAdjacent(b, s, r.base, r.size) = -1 /\ r.base <= b + s
        BY <1>1, <1>4, <2>2
      <3> QED
        BY <1>6, <2>2, <3>1 DEF StopsSearch
    <2>3. CASE r.base # b + s /\ b # End(r)
      <3>1. AddrsAdjacent(b, s, r.base, r.size) = 0
        BY <1>4, <2>3
      <3>2. StopsSearch(r, b, s, None) <=> AddrsOverlap(b, s, r.base, r.size)
        BY <3>1 DEF StopsSearch
      <3> QED
        BY <1>1, <1>3, <2>3, <3>2
    <2> QED
      BY <2>1, <2>2, <2>3
  <1> QED
    BY <1>3, <1>4, <1>5, <1>7 DEF r

\* lmb_resize_regions(): region i, which may have been extended to the end of the
\* request, takes in what the request overlaps.
TakesIn(lst, i, g, b, s) ==
  /\ LmbList(lst) /\ i \in 1 .. Len(lst) - 1
  /\ b \in Nat /\ s \in Nat \ {0} /\ b + s <= UbootBase
  /\ g \in Regions /\ g.flags = None /\ g.base = lst[i].base
  /\ End(g) = b + s \/ g = lst[i]
  /\ b < End(lst[i]) /\ lst[i].base < b + s
  /\ \A j \in 1 .. i - 1 : End(lst[j]) <= b

GoodResult(res, i) ==
  /\ res = [ok |-> TRUE, list |-> res.list]
  /\ LmbList(res.list) /\ i \in 1 .. Len(res.list)

LEMMA Resized ==
  ASSUME NEW lst, NEW i, NEW g, NEW b, NEW s, TakesIn(lst, i, g, b, s)
  PROVE  GoodResult(ResizeRegions(ReplaceAt(lst, i, g), i, b, s), i)
  <1> SUFFICES ASSUME LmbList(lst), i \in 1 .. Len(lst) - 1,
                      b \in Nat, s \in Nat \ {0}, b + s <= UbootBase,
                      g \in Regions, g.flags = None, g.base = lst[i].base,
                      End(g) = b + s \/ g = lst[i],
                      b < End(lst[i]), lst[i].base < b + s,
                      \A j \in 1 .. i - 1 : End(lst[j]) <= b
               PROVE  GoodResult(ResizeRegions(ReplaceAt(lst, i, g), i, b, s), i)
    BY DEF TakesIn
  <1> DEFINE n   == Len(lst)
             m   == ReplaceAt(lst, i, g)
             hit == {j \in i .. Len(m) : AddrsOverlap(b, s, m[j].base, m[j].size)}
             k   == Max(hit)
             low  == IF b < m[i].base THEN b ELSE m[i].base
             high == IF End(m[k]) > b + s THEN End(m[k]) ELSE b + s
  <1>1. /\ n \in Nat \ {0} /\ lst \in Seq(Regions) /\ i \in 1 .. n /\ i < n
        /\ \A j \in 1 .. n : /\ lst[j].base \in Nat /\ lst[j].size \in Nat \ {0} /\ lst[j] \in Regions
                             /\ End(lst[j]) = lst[j].base + lst[j].size /\ End(lst[j]) \in Nat
                             /\ End(lst[j]) <= MemEnd
                             /\ j < n => lst[j].flags = None /\ End(lst[j]) <= UbootBase
        /\ lst[n].base = UbootBase
    <2>1. n \in Nat \ {0} /\ lst[n] = Uboot /\ lst \in Seq(Regions)
      BY ListFacts DEF LmbList
    <2>2. i \in 1 .. n /\ i < n
      BY <2>1
    <2>3. \A j \in 1 .. n :
            /\ lst[j].base \in Nat /\ lst[j].size \in Nat \ {0} /\ lst[j] \in Regions
            /\ End(lst[j]) = lst[j].base + lst[j].size /\ End(lst[j]) \in Nat
            /\ End(lst[j]) <= MemEnd
            /\ j < n => lst[j].flags = None /\ End(lst[j]) <= UbootBase
      BY ListFacts
    <2>4. lst[n].base = UbootBase
      BY <2>1, UbootFields
    <2> HIDE DEF n
    <2> QED
      BY <2>1, <2>2, <2>3, <2>4
  <1>2. \A j \in 1 .. n : \A l \in 1 .. n : j < l => End(lst[j]) <= lst[l].base
    BY ListFacts
  <1>3. /\ m \in Seq(Regions) /\ Len(m) = n /\ m[i] = g /\ \A j \in 1 .. n : j # i => m[j] = lst[j]
    BY <1>1 DEF ReplaceAt
  <1> HIDE DEF n, m
  <1>4. n \in Nat /\ i \in 1 .. n /\ i < n
    BY <1>1
  <1>5. \A j \in i + 1 .. n : AddrsOverlap(b, s, m[j].base, m[j].size) <=> lst[j].base < b + s
    <2> TAKE j \in i + 1 .. n
    <2>1. j \in 1 .. n /\ j # i /\ i < j
      BY <1>4
    <2>2. AddrsOverlap(b, s, lst[j].base, lst[j].size) <=> b < End(lst[j]) /\ lst[j].base < b + s
      BY <2>1, Relation DEF n
    <2>3. b < End(lst[j])
      <3>1. End(lst[i]) <= lst[j].base
        BY <1>1, <1>2, <2>1
      <3>2. /\ End(lst[i]) \in Nat /\ lst[j].base \in Nat /\ lst[j].size \in Nat \ {0}
            /\ End(lst[j]) = lst[j].base + lst[j].size
        BY <1>1, <2>1
      <3> QED
        BY <3>1, <3>2
    <2> QED
      BY <1>3, <2>1, <2>2, <2>3
  <1>6. AddrsOverlap(b, s, m[i].base, m[i].size)
    <2>1. /\ g.base \in Nat /\ g.size \in Nat \ {0} /\ End(g) = g.base + g.size
      BY DEF Regions, End
    <2>2. lst[i].base \in Nat /\ End(lst[i]) \in Nat /\ End(lst[i]) <= MemEnd
      BY <1>1
    <2>3. End(g) <= W /\ b + s <= W /\ b < End(g)
      BY <2>1, <2>2, Numbers
    <2>4. g.base + g.size <= W /\ b + s <= W /\ b < g.base + g.size /\ g.base < b + s
      BY <2>1, <2>3
    <2> QED
      BY <1>3, <2>1, <2>4, Overlap
  <1>7. \A j : j \in hit <=> j \in i .. n /\ (j = i \/ lst[j].base < b + s)
    <2>1. \A j : j \in hit <=> j \in i .. n /\ AddrsOverlap(b, s, m[j].base, m[j].size)
      BY <1>3
    <2> HIDE DEF hit
    <2>2. ASSUME NEW j \in i .. n, j # i
          PROVE  AddrsOverlap(b, s, m[j].base, m[j].size) <=> lst[j].base < b + s
      <3>1. j \in i + 1 .. n
        BY <1>1, <2>2
      <3> QED
        BY <1>5, <3>1
    <2> QED
      BY <1>6, <2>1, <2>2
  <1> HIDE DEF hit
  <1>8. /\ k \in i .. n - 1 /\ hit = i .. k
        /\ \A j \in k + 1 .. n : lst[j].base >= b + s
    <2>1. ASSUME NEW j \in hit PROVE j \in i .. n - 1
      <3>1. j \in i .. n /\ (j = i \/ lst[j].base < b + s)
        BY <1>7
      <3>2. j # n
        BY <1>1, <3>1
      <3> QED
        BY <1>1, <3>1, <3>2
    <2>2. i \in i .. n
      BY <1>1
    <2>3. k \in hit /\ \A y \in hit : k >= y
      <3>1. i \in hit
        BY <1>7, <2>2
      <3>2. hit \subseteq 0 .. n
        BY <1>1, <2>1
      <3> QED
        BY <1>1, <3>1, <3>2, GreatestMember
    <2> HIDE DEF k
    <2>4. k \in i .. n - 1
      BY <2>1, <2>3
    <2>5. ASSUME NEW j \in i .. k PROVE j \in hit
      <3>1. CASE j = i
        BY <1>7, <2>2, <3>1
      <3>2. CASE j = k
        BY <2>3, <3>2
      <3>3. CASE j # i /\ j # k
        <4>1. j \in 1 .. n /\ k \in 1 .. n /\ j < k /\ k # i
          BY <1>1, <2>4, <2>5, <3>3
        <4>2. lst[k].base < b + s /\ End(lst[j]) <= lst[k].base
          BY <1>2, <1>7, <2>3, <4>1
        <4>3. /\ lst[j].base \in Nat /\ lst[j].size \in Nat \ {0} /\ lst[k].base \in Nat
              /\ End(lst[j]) = lst[j].base + lst[j].size
          BY <1>1, <4>1
        <4>4. lst[j].base < b + s
          BY <4>2, <4>3
        <4>5. j \in i .. n
          BY <1>1, <2>4, <2>5
        <4> QED
          BY <1>7, <4>4, <4>5
      <3> QED
        BY <3>1, <3>2, <3>3
    <2>6. hit = i .. k
      <3>1. \A j : j \in hit <=> j \in i .. k
        <4>1. ASSUME NEW j \in hit PROVE j \in i .. k
          <5>1. j \in i .. n - 1 /\ k >= j
            BY <2>1, <2>3
          <5> QED
            BY <1>1, <2>4, <5>1
        <4> QED
          BY <2>5, <4>1
      <3> QED
        BY <3>1
    <2>7. ASSUME NEW j \in k + 1 .. n PROVE lst[j].base >= b + s
      <3>1. j \in i .. n /\ j \notin hit /\ j \in 1 .. n
        BY <1>1, <2>3, <2>4, <2>7
      <3>2. ~(lst[j].base < b + s) /\ lst[j].base \in Nat
        BY <1>1, <1>7, <3>1
      <3> QED
        BY <3>2
    <2> QED
      BY <2>4, <2>6, <2>7
  <1> HIDE DEF k
  <1>9. Cardinality(hit) = k - i + 1
    <2>1. i \in Int /\ k \in Int /\ ~(i > k)
      BY <1>1, <1>8
    <2> QED
      BY <1>8, <2>1, FS_Interval
  <1>10. ~(\E j \in hit : m[j].flags # None)
    <2> SUFFICES ASSUME NEW j \in hit PROVE m[j].flags = None
      OBVIOUS
    <2>1. j \in 1 .. n /\ j < n
      BY <1>1, <1>8
    <2>2. m[j] = lst[j] \/ m[j] = g
      BY <1>3, <2>1
    <2> QED
      BY <1>1, <2>1, <2>2
  <1>11. /\ low \in Nat /\ high \in Nat /\ low < high /\ high <= lst[k + 1].base
         /\ \A j \in 1 .. i - 1 : End(lst[j]) <= low
    <2>1. m[i].base = lst[i].base
      BY <1>3
    <2>2. k + 1 \in 1 .. n /\ k \in 1 .. n /\ lst[k + 1].base >= b + s /\ End(lst[k]) <= lst[k + 1].base
      <3>1. k + 1 \in 1 .. n /\ k \in 1 .. n /\ k + 1 \in k + 1 .. n /\ k < k + 1
        BY <1>1, <1>8
      <3> QED
        BY <1>2, <1>8, <3>1
    <2>3. End(m[k]) = b + s \/ End(m[k]) = End(lst[k])
      <3>1. CASE k = i
        BY <1>3, <3>1
      <3>2. CASE k # i
        BY <1>3, <2>2, <3>2
      <3> QED
        BY <3>1, <3>2
    <2>4. \A j \in 1 .. i - 1 : End(lst[j]) <= lst[i].base
      BY <1>1, <1>2
    <2>5. /\ lst[i].base \in Nat /\ End(lst[i]) \in Nat /\ End(lst[k]) \in Nat /\ lst[k + 1].base \in Nat
      BY <1>1, <2>2
    <2>6. low \in Nat /\ (low = b \/ low = lst[i].base) /\ low <= b
      BY <2>1, <2>5
    <2>7. high \in Nat /\ high <= lst[k + 1].base /\ high >= b + s
      BY <2>2, <2>3, <2>5
    <2> HIDE DEF low, high
    <2>8. low < high
      BY <2>6, <2>7
    <2>9. \A j \in 1 .. i - 1 : End(lst[j]) <= low
      BY <2>4, <2>6
    <2> QED
      BY <2>6, <2>7, <2>8, <2>9
  <1> DEFINE merged == Region(low, high - low, m[i].flags)
             out    == Spliced(m, i - 1, merged, k + 1)
             res    == ResizeRegions(m, i, b, s)
  <1>12. res = [ok |-> TRUE, list |-> out]
    <2>1. i + (k - i + 1) = k + 1
      BY <1>1, <1>8
    <2>2. res = IF \E j \in hit : m[j].flags # None THEN [ok |-> FALSE, list |-> m]
                ELSE [ok |-> TRUE, list |-> SubSeq(m, 1, i - 1) \o <<merged>>
                                              \o SubSeq(m, i + Cardinality(hit), Len(m))]
      BY Zenon DEF ResizeRegions, hit, k
    <2> QED
      BY <1>9, <1>10, <2>1, <2>2 DEF Spliced
  <1>13. merged \in Regions /\ merged = Region(low, high - low, None)
    <2>1. m[i].flags = None
      BY <1>3
    <2>2. low \in Nat /\ high - low \in Nat \ {0}
      <3> HIDE DEF low, high
      <3> QED
        BY <1>11
    <2> HIDE DEF low, high
    <2> QED
      BY <2>1, <2>2, RegionFields DEF Flags
  <1> HIDE DEF merged, low, high
  <1>14. /\ out \in Seq(Regions) /\ Len(out) = n - (k - i)
         /\ \A j \in 1 .. Len(out) :
              out[j] = IF j < i THEN lst[j] ELSE IF j = i THEN merged ELSE lst[j + (k - i)]
    <2> DEFINE a == i - 1
               c == k + 1
    <2>1. a \in 0 .. n /\ c \in 1 .. n + 1 /\ a + 1 = i
      BY <1>1, <1>8
    <2>2. /\ out \in Seq(Regions) /\ Len(out) = a + 1 + (n - c + 1)
          /\ \A j \in 1 .. Len(out) :
               out[j] = IF j <= a THEN m[j] ELSE IF j = a + 1 THEN merged ELSE m[j - (a + 1) + c - 1]
      <3>1. m \in Seq(Regions) /\ a \in 0 .. Len(m) /\ c \in 1 .. Len(m) + 1 /\ merged \in Regions
        BY <1>3, <1>13, <2>1
      <3>2. out = Spliced(m, a, merged, c)
        OBVIOUS
      <3> HIDE DEF out, a, c
      <3>3. /\ out \in Seq(Regions) /\ Len(out) = a + 1 + (Len(m) - c + 1)
            /\ \A j \in 1 .. a + 1 + (Len(m) - c + 1) :
                 out[j] = IF j <= a THEN m[j] ELSE IF j = a + 1 THEN merged ELSE m[j - (a + 1) + c - 1]
        <4>1. IsSpliced(Spliced(m, a, merged, c), m, a, merged, c)
          BY <3>1, Joined
        <4>2. IsSpliced(out, m, a, merged, c)
          BY <3>2, <4>1
        <4> QED
          BY <4>2, Zenon DEF IsSpliced
      <3> QED
        BY <1>3, <3>3, Zenon
    <2> HIDE DEF out
    <2>3. a + 1 + (n - c + 1) = n - (k - i)
      BY <1>1, <1>8
    <2>4. ASSUME NEW j \in 1 .. Len(out)
          PROVE  out[j] = IF j < i THEN lst[j] ELSE IF j = i THEN merged ELSE lst[j + (k - i)]
      <3>1. j \in 1 .. n - (k - i) /\ j \in Nat
        BY <1>1, <1>8, <2>2, <2>3, <2>4
      <3>2. CASE j < i
        BY <1>1, <1>3, <2>2, <2>4, <3>1, <3>2
      <3>3. CASE j = i
        BY <1>1, <2>2, <2>4, <3>1, <3>3
      <3>4. CASE j > i
        <4>1. j - (a + 1) + c - 1 = j + (k - i) /\ j + (k - i) \in 1 .. n /\ j + (k - i) # i
          <5> HIDE DEF n
          <5>1. n \in Nat /\ i \in Nat /\ k \in Nat /\ j \in Nat /\ i <= k /\ j <= n - (k - i) /\ i >= 1
            BY <1>1, <1>8, <3>1
          <5> QED
            BY <3>4, <5>1
        <4>2. ~(j <= a) /\ j # a + 1
          BY <1>1, <3>1, <3>4
        <4>3. out[j] = m[j - (a + 1) + c - 1]
          BY <2>2, <2>4, <4>2
        <4>4. m[j + (k - i)] = lst[j + (k - i)]
          BY <1>3, <4>1
        <4>5. ~(j < i) /\ j # i
          BY <1>1, <3>1, <3>4
        <4> QED
          BY <4>1, <4>3, <4>4, <4>5, Zenon
      <3> QED
        BY <1>1, <3>1, <3>2, <3>3, <3>4
    <2> QED
      BY <2>2, <2>3, <2>4
  <1> HIDE DEF out
  <1>15. LmbList(out)
    <2>1. IsMerged(out, lst, i, k, low, high)
      BY <1>13, <1>14 DEF n, IsMerged
    <2>2. i \in 1 .. Len(lst) /\ k \in i - 1 .. Len(lst) - 1
      BY <1>1, <1>8 DEF n
    <2>3. /\ low \in Nat /\ high \in Nat /\ low < high /\ high <= lst[k + 1].base
          /\ \A j \in 1 .. i - 1 : End(lst[j]) <= low
      BY <1>11
    <2> QED
      BY <2>1, <2>2, <2>3, MergedList
  <1>16. i \in 1 .. Len(out)
    BY <1>1, <1>8, <1>14
  <1> HIDE DEF res
  <1>17. GoodResult(res, i)
    BY <1>12, <1>15, <1>16 DEF GoodResult
  <1> QED
    BY <1>17 DEF res, m

\* The other operations on the list change region i, or take it away.
FitsAt(lst, i, lo, hi) ==
  /\ LmbList(lst) /\ i \in 1 .. Len(lst) - 1
  /\ lo \in Nat /\ hi \in Nat /\ lo < hi /\ hi <= lst[i + 1].base
  /\ \A j \in 1 .. i - 1 : End(lst[j]) <= lo

LEMMA Changed ==
  ASSUME NEW lst, NEW i, NEW lo, NEW hi, FitsAt(lst, i, lo, hi),
         NEW g, g = Region(lo, hi - lo, None)
  PROVE  LmbList(ReplaceAt(lst, i, g)) /\ Len(ReplaceAt(lst, i, g)) = Len(lst)
  <1> SUFFICES ASSUME LmbList(lst), i \in 1 .. Len(lst) - 1,
                      lo \in Nat, hi \in Nat, lo < hi, hi <= lst[i + 1].base,
                      \A j \in 1 .. i - 1 : End(lst[j]) <= lo
               PROVE  LmbList(ReplaceAt(lst, i, g)) /\ Len(ReplaceAt(lst, i, g)) = Len(lst)
    BY DEF FitsAt
  <1> DEFINE n   == Len(lst)
             out == ReplaceAt(lst, i, g)
  <1>1. lst \in Seq(Regions) /\ n \in Nat \ {0}
    BY ListFacts DEF LmbList
  <1>2. g \in Regions
    <2>1. hi - lo \in Nat \ {0}
      OBVIOUS
    <2> QED
      BY <2>1, RegionFields DEF Flags
  <1>3. i \in 1 .. n /\ i \in i - 1 .. n - 1 /\ i - i = 0
    BY <1>1
  <1>4. /\ out \in Seq(Regions) /\ Len(out) = n
        /\ \A j \in 1 .. n : out[j] = IF j = i THEN g ELSE lst[j]
    BY <1>1, <1>2, <1>3 DEF ReplaceAt
  <1> HIDE DEF n, out
  <1>5. IsMerged(out, lst, i, i, lo, hi)
    <2>1. \A j \in 1 .. n : out[j] = IF j < i THEN lst[j] ELSE IF j = i THEN Region(lo, hi - lo, None)
                                     ELSE lst[j + (i - i)]
      <3> TAKE j \in 1 .. n
      <3>1. j + (i - i) = j /\ (j = i => ~(j < i))
        BY <1>1, <1>3
      <3> QED
        BY <1>4, <3>1
    <2>2. n - (i - i) = n
      BY <1>1, <1>3
    <2> QED
      BY <1>4, <2>1, <2>2 DEF IsMerged, n
  <1>6. LmbList(out)
    BY <1>3, <1>5, MergedList DEF n
  <1> QED
    BY <1>4, <1>6 DEF n, out

LEMMA Dropped ==
  ASSUME NEW lst, LmbList(lst), NEW i \in 1 .. Len(lst) - 1
  PROVE  LmbList(RemoveAt(lst, i))
  <1> DEFINE n   == Len(lst)
             out == RemoveAt(lst, i)
  <1>1. lst \in Seq(Regions) /\ n \in Nat \ {0} /\ lst[n] = Uboot
    BY ListFacts DEF LmbList
  <1>2. i \in 1 .. n /\ i < n
    BY <1>1
  <1>3. /\ out \in Seq(Regions) /\ Len(out) = n - 1
        /\ \A j \in 1 .. n - 1 : out[j] = IF j < i THEN lst[j] ELSE lst[j + 1]
    BY <1>1, <1>2, Removed
  <1>4. /\ \A j \in 1 .. n - 1 : lst[j].flags = None
        /\ \A j \in 1 .. n : \A l \in 1 .. n : j < l => End(lst[j]) <= lst[l].base
    BY DEF LmbList
  <1> HIDE DEF n, out
  <1>5. out[n - 1] = Uboot /\ n - 1 > 0
    <2>1. n - 1 \in 1 .. n - 1 /\ ~(n - 1 < i) /\ n - 1 + 1 = n
      BY <1>1, <1>2
    <2> QED
      BY <1>1, <1>3, <2>1
  <1>6. \A j \in 1 .. n - 2 : out[j].flags = None
    <2> TAKE j \in 1 .. n - 2
    <2>1. j \in 1 .. n - 1 /\ j + 1 \in 1 .. n - 1
      BY <1>1
    <2> QED
      BY <1>3, <1>4, <2>1
  <1>7. ASSUME NEW j \in 1 .. n - 1, NEW l \in 1 .. n - 1, j < l
        PROVE  End(out[j]) <= out[l].base
    <2>1. /\ j \in 1 .. n /\ j + 1 \in 1 .. n /\ l \in 1 .. n /\ l + 1 \in 1 .. n
          /\ j < l + 1 /\ j + 1 < l + 1 /\ (l < i => j < i)
      BY <1>1, <1>2, <1>7
    <2>2. out[j] = lst[j] \/ (~(j < i) /\ out[j] = lst[j + 1])
      BY <1>3
    <2>3. (l < i /\ out[l] = lst[l]) \/ (~(l < i) /\ out[l] = lst[l + 1])
      BY <1>3
    <2>4. CASE l < i
      <3>1. out[j] = lst[j] /\ out[l] = lst[l]
        BY <2>1, <2>2, <2>3, <2>4
      <3> QED
        BY <1>4, <1>7, <2>1, <3>1
    <2>5. CASE ~(l < i)
      <3>1. out[l] = lst[l + 1] /\ (out[j] = lst[j] \/ out[j] = lst[j + 1])
        BY <2>2, <2>3, <2>5
      <3> QED
        BY <1>4, <2>1, <3>1
    <2> QED
      BY <2>4, <2>5
  <1>8. n - 1 - 1 = n - 2
    BY <1>1
  <1> QED
    BY <1>3, <1>5, <1>6, <1>7, <1>8 DEF LmbList, out

\* lmb_add_region_flags() after the request was made part of region i: the list
\* is in order but region i may end where the next one begins.
LEMMA MergedNext ==
  ASSUME NEW lst, LmbList(lst), NEW i \in 1 .. Len(lst)
  PROVE  LET n == MergeNext([ok |-> TRUE, list |-> lst, merged |-> TRUE], i)
         IN  n.ok /\ n.merged /\ LmbList(n.list)
  <1> DEFINE m   == [ok |-> TRUE, list |-> lst, merged |-> TRUE]
             r   == lst[i]
             x   == lst[i + 1]
             bigger == [lst EXCEPT ![i].size = @ + x.size]
             out == RemoveAt(bigger, i + 1)
             len == Len(lst)
  <1>1. len \in Nat \ {0} /\ lst \in Seq(Regions)
    BY ListFacts DEF LmbList
  <1>2. m.ok /\ m.merged /\ m.list = lst
    OBVIOUS
  <1>3. CASE i >= len \/ r.flags # x.flags
    <2>1. MergeNext(m, i) = m
      BY <1>3 DEF MergeNext
    <2> QED
      BY <1>2, <2>1
  <1>4. CASE i < len /\ r.flags = x.flags
    <2>1. i + 1 \in 1 .. len /\ i \in 1 .. len /\ i < i + 1
      BY <1>1, <1>4
    <2>2. /\ r \in Regions /\ r.base \in Nat /\ r.size \in Nat \ {0} /\ End(r) = r.base + r.size
          /\ x \in Regions /\ x.base \in Nat /\ x.size \in Nat \ {0} /\ End(x) = x.base + x.size
          /\ End(r) <= MemEnd /\ End(x) <= MemEnd /\ End(r) <= x.base /\ r.flags = None
      <3>1. /\ r \in Regions /\ r.base \in Nat /\ r.size \in Nat \ {0} /\ End(r) = r.base + r.size
            /\ End(r) <= MemEnd /\ r.flags = None
        BY <1>4, <2>1, ListFacts
      <3>2. /\ x \in Regions /\ x.base \in Nat /\ x.size \in Nat \ {0} /\ End(x) = x.base + x.size
            /\ End(x) <= MemEnd
        BY <2>1, ListFacts
      <3>3. End(r) <= x.base
        BY <2>1, ListFacts
      <3> QED
        BY <3>1, <3>2, <3>3
    <2>3. i + 1 < len
      <3>1. x.flags # NoOverwrite
        BY <1>4, <2>2, Numbers
      <3>2. i + 1 # len
        BY <3>1, ListFacts, UbootFields
      <3> QED
        BY <1>1, <2>1, <3>2
    <2> HIDE DEF r, x
    <2>4. r.base + r.size <= W /\ x.base + x.size <= W /\ r.base + r.size < W /\ x.base + x.size < W
      BY <2>2, Numbers
    <2>5. ~AddrsOverlap(r.base, r.size, x.base, x.size)
      BY <2>2, <2>4, Overlap
    <2>6. AddrsAdjacent(r.base, r.size, x.base, x.size) # 0 => x.base = End(r)
      <3>1. (r.base + r.size) % W = r.base + r.size /\ (x.base + x.size) % W = x.base + x.size
        BY <2>2, <2>4, Small
      <3> QED
        BY <2>2, <3>1 DEF AddrsAdjacent
    <2>7. CASE AddrsAdjacent(r.base, r.size, x.base, x.size) = 0
      <3>1. MergeNext(m, i) = m
        BY <1>2, <2>5, <2>7 DEF MergeNext, r, x
      <3> QED
        BY <1>2, <3>1
    <2>8. CASE AddrsAdjacent(r.base, r.size, x.base, x.size) # 0
      <3>1. MergeNext(m, i) = [ok |-> TRUE, merged |-> TRUE, list |-> out]
        <4>1. ~(i >= Len(m.list) \/ r.flags # x.flags)
          BY <1>1, <1>2, <1>4
        <4> QED
          BY <1>2, <2>5, <2>8, <4>1 DEF MergeNext, r, x
      <3>2. bigger[i] = Region(r.base, End(x) - r.base, None)
        <4>1. bigger[i] = [r EXCEPT !.size = @ + x.size]
          BY <1>1 DEF r
        <4>2. r = [base |-> r.base, size |-> r.size, flags |-> r.flags]
          BY <2>2 DEF Regions
        <4>3. bigger[i] = [base |-> r.base, size |-> r.size + x.size, flags |-> None]
          BY <2>2, <4>1, <4>2
        <4>4. r.size + x.size = End(x) - r.base
          BY <2>2, <2>6, <2>8
        <4> QED
          BY <4>3, <4>4 DEF Region
      <3>3. Region(r.base, End(x) - r.base, None) \in Regions
        <4>1. End(x) - r.base \in Nat \ {0}
          BY <2>2
        <4> QED
          BY <2>2, <4>1, RegionFields DEF Flags
      <3>4. bigger \in Seq(Regions) /\ Len(bigger) = len /\ \A j \in 1 .. len : j # i => bigger[j] = lst[j]
        <4> DEFINE h == [lst[i] EXCEPT !.size = @ + x.size]
        <4>1. bigger = [lst EXCEPT ![i] = h]
          OBVIOUS
        <4>2. h \in Regions
          <5>1. bigger[i] = h
            BY <1>1
          <5> QED
            BY <3>2, <3>3, <5>1
        <4> HIDE DEF h, bigger
        <4> QED
          BY <1>1, <2>1, <4>1, <4>2
      <3> HIDE DEF bigger, len
      <3>5. /\ out \in Seq(Regions) /\ Len(out) = len - 1
            /\ \A j \in 1 .. len - 1 : out[j] = IF j < i + 1 THEN bigger[j] ELSE bigger[j + 1]
        <4>1. i + 1 \in 1 .. Len(bigger)
          BY <2>1, <3>4
        <4>2. /\ out \in Seq(Regions) /\ Len(out) = Len(bigger) - 1
              /\ \A j \in 1 .. Len(bigger) - 1 : out[j] = IF j < i + 1 THEN bigger[j] ELSE bigger[j + 1]
          BY <3>4, <4>1, Removed
        <4> QED
          BY <3>4, <4>2
      <3> HIDE DEF out
      <3>6. \A j \in 1 .. len - 1 :
              out[j] = IF j < i THEN lst[j] ELSE IF j = i THEN Region(r.base, End(x) - r.base, None)
                       ELSE lst[j + (i + 1 - i)]
        <4> TAKE j \in 1 .. len - 1
        <4>1. /\ j < i => j < i + 1 /\ j # i /\ j \in 1 .. len
              /\ j = i => j < i + 1
              /\ ~(j < i) /\ j # i => ~(j < i + 1) /\ j + 1 # i /\ j + 1 \in 1 .. len
              /\ j + (i + 1 - i) = j + 1
          BY <1>1, <2>1
        <4>2. CASE j < i
          BY <3>4, <3>5, <4>1, <4>2
        <4>3. CASE j = i
          <5>1. out[j] = bigger[i] /\ ~(j < i)
            BY <2>1, <3>5, <4>1, <4>3
          <5> QED
            BY <3>2, <4>3, <5>1
        <4>4. CASE ~(j < i) /\ j # i
          <5>1. out[j] = bigger[j + 1]
            BY <3>5, <4>1, <4>4
          <5>2. out[j] = lst[j + 1]
            BY <3>4, <4>1, <4>4, <5>1
          <5> QED
            BY <4>1, <4>4, <5>2
        <4> QED
          BY <4>2, <4>3, <4>4
      <3>7. IsMerged(out, lst, i, i + 1, r.base, End(x))
        <4>1. len - (i + 1 - i) = len - 1
          BY <1>1, <2>1
        <4> QED
          BY <3>5, <3>6, <4>1 DEF IsMerged, len
      <3>8. LmbList(out)
        <4>1. i \in 1 .. Len(lst) /\ i + 1 \in i - 1 .. Len(lst) - 1
          BY <1>1, <2>1, <2>3 DEF len
        <4>2. r.base \in Nat /\ End(x) \in Nat /\ r.base < End(x)
          BY <2>2
        <4>3. End(x) <= lst[(i + 1) + 1].base
          <5>1. (i + 1) + 1 \in 1 .. Len(lst) /\ i + 1 \in 1 .. Len(lst) /\ i + 1 < (i + 1) + 1
            BY <1>1, <2>1, <2>3 DEF len
          <5> QED
            BY <5>1, ListFacts DEF x
        <4>4. \A j \in 1 .. i - 1 : End(lst[j]) <= r.base
          <5> TAKE j \in 1 .. i - 1
          <5>1. j \in 1 .. Len(lst) /\ i \in 1 .. Len(lst) /\ j < i
            BY <1>1, <2>1 DEF len
          <5> QED
            BY <5>1, ListFacts DEF r
        <4> QED
          BY <3>7, <4>1, <4>2, <4>3, <4>4, MergedList
      <3> QED
        BY <3>1, <3>8
    <2> QED
      BY <2>7, <2>8
  <1> QED
    BY <1>1, <1>3, <1>4

\* The first loop of lmb_add_region_flags() stops at region i: the request becomes
\* a part of it, unless it is U-Boot's.
LEMMA MergedInto ==
  ASSUME NEW lst, LmbList(lst), NEW b \in Nat, NEW s \in Nat \ {0}, b + s <= UbootBase,
         NEW i \in 1 .. Len(lst), StopsSearch(lst[i], b, s, None),
         \A j \in 1 .. i - 1 : ~StopsSearch(lst[j], b, s, None)
  PROVE  LET m == MergeInto(lst, i, b, s, None)
             n == MergeNext(m, i)
         IN  \/ m = [ok |-> TRUE, list |-> lst, merged |-> FALSE] /\ i = Len(lst)
             \/ m.ok /\ m.merged /\ n.ok /\ n.merged /\ LmbList(n.list)
  <1> DEFINE r   == lst[i]
             adj == AddrsAdjacent(b, s, r.base, r.size)
             m   == MergeInto(lst, i, b, s, None)
             n   == MergeNext(m, i)
             len == Len(lst)
             Good == m.ok /\ m.merged /\ n.ok /\ n.merged /\ LmbList(n.list)
  <1> SUFFICES (m = [ok |-> TRUE, list |-> lst, merged |-> FALSE] /\ i = len) \/ Good
    OBVIOUS
  <1>1. /\ len \in Nat \ {0} /\ i \in 1 .. len
        /\ r \in Regions /\ r.base \in Nat /\ r.size \in Nat \ {0}
        /\ End(r) = r.base + r.size /\ End(r) \in Nat /\ End(r) <= MemEnd
    BY ListFacts
  <1>2. /\ i < len => r.flags = None /\ End(r) <= UbootBase
        /\ i = len => r = Uboot
    BY ListFacts
  <1>3. /\ AddrsOverlap(b, s, r.base, r.size) <=> b < End(r) /\ r.base < b + s
        /\ r.base = b + s => adj = 1
        /\ b = End(r) => adj = -1
        /\ r.base # b + s /\ b # End(r) => adj = 0
        /\ b <= End(r) /\ r.base <= b + s
        /\ i = len => b < End(r)
    BY Relation
  <1>4. \A j \in 1 .. i - 1 : End(lst[j]) <= b /\ End(lst[j]) <= r.base
    <2> TAKE j \in 1 .. i - 1
    <2>1. j \in 1 .. Len(lst) /\ i \in 1 .. Len(lst) /\ j < i
      BY <1>1
    <2>2. End(lst[j]) <= r.base
      BY <2>1, ListFacts
    <2>3. lst[j].base \in Nat /\ lst[j].size \in Nat \ {0} /\ End(lst[j]) = lst[j].base + lst[j].size
      BY <2>1, ListFacts
    <2>4. ~(b <= End(lst[j]) /\ lst[j].base <= b + s)
      BY <2>1, Relation
    <2>5. r.base \in Nat /\ r.base <= b + s
      BY <1>1, <1>3
    <2> HIDE DEF r
    <2> QED
      BY <2>2, <2>3, <2>4, <2>5
  <1>5. ASSUME i < len PROVE i + 1 \in 1 .. len /\ End(r) <= lst[i + 1].base
    <2>1. i \in 1 .. Len(lst) /\ i + 1 \in 1 .. Len(lst) /\ i < i + 1
      BY <1>1, <1>5
    <2> QED
      BY <2>1, ListFacts
  <1>6. ASSUME NEW l, LmbList(l), i \in 1 .. Len(l), m = [ok |-> TRUE, list |-> l, merged |-> TRUE]
        PROVE  Good
    BY <1>6, MergedNext
  <1> HIDE DEF r, adj, m, len, n
  <1>7. CASE r.base = b + s
    <2>1. adj = 1
      BY <1>3, <1>7
    <2>2. CASE i = len
      <3>1. None # r.flags
        BY <1>2, <2>2, UbootFields, Numbers
      <3> QED
        BY <2>1, <2>2, <3>1 DEF MergeInto, r, adj, m, len
    <2>3. CASE i # len
      <3> DEFINE g == Region(b, End(r) - b, None)
                 l == ReplaceAt(lst, i, g)
      <3>1. i < len /\ i \in 1 .. Len(lst) - 1
        BY <1>1, <2>3 DEF len
      <3>2. r.base - s = b /\ r.size + s = End(r) - b /\ b < End(r)
        BY <1>1, <1>7
      <3>3. m = [ok |-> TRUE, list |-> l, merged |-> TRUE]
        <4>1. m = [ok |-> TRUE, list |-> [lst EXCEPT ![i] = Region(r.base - s, r.size + s, r.flags)],
                   merged |-> TRUE]
          BY <1>2, <2>1, <3>1 DEF MergeInto, r, adj, m
        <4> QED
          BY <1>2, <3>1, <3>2, <4>1 DEF ReplaceAt
      <3>4. LmbList(l) /\ Len(l) = len
        <4>1. End(r) <= lst[i + 1].base
          BY <1>5, <3>1
        <4> HIDE DEF g
        <4>2. g = Region(b, End(r) - b, None)
          BY DEF g
        <4> QED
          <5>1. \A j \in 1 .. i - 1 : End(lst[j]) <= b
            BY <1>4
          <5>2. End(r) \in Nat /\ b < End(r)
            BY <1>1, <3>2
          <5>3. FitsAt(lst, i, b, End(r))
            BY <3>1, <4>1, <5>1, <5>2 DEF FitsAt
          <5> QED
            BY <4>2, <5>3, Changed DEF len
      <3> HIDE DEF l
      <3>5. i \in 1 .. Len(l)
        BY <1>1, <3>4
      <3>6. Good
        BY <1>6, <3>3, <3>4, <3>5
      <3> QED
        BY <3>6
    <2> QED
      BY <2>2, <2>3
  <1>8. CASE b = End(r)
    <2> DEFINE g == Region(r.base, r.size + s, None)
               e == ReplaceAt(lst, i, g)
               x == lst[i + 1]
    <2>1. adj = -1 /\ i < len /\ i \in 1 .. Len(lst) - 1
      BY <1>1, <1>3, <1>8 DEF len
    <2>2. m = [ok |-> TRUE, list |-> e, merged |-> TRUE]
      <3>1. ~(adj > 0) /\ adj < 0 /\ adj # 0 /\ r.flags = None
        BY <1>2, <2>1
      <3> QED
        BY <3>1 DEF MergeInto, ReplaceAt, r, adj, m
    <2>3. r.size + s = (b + s) - r.base /\ r.base < b + s /\ b + s \in Nat
      BY <1>1, <1>8
    <2>4. i + 1 \in 1 .. Len(lst) /\ x.base \in Nat /\ x.size \in Nat \ {0} /\ End(x) = x.base + x.size
          /\ End(x) <= MemEnd /\ (i + 1 < Len(lst) => x.flags = None)
          /\ (i + 1 = Len(lst) => x.base = UbootBase)
      <3>1. i + 1 \in 1 .. Len(lst)
        BY <1>5, <2>1 DEF len
      <3>2. /\ x.base \in Nat /\ x.size \in Nat \ {0} /\ End(x) = x.base + x.size
            /\ End(x) <= MemEnd /\ (i + 1 < Len(lst) => x.flags = None)
        BY <3>1, ListFacts
      <3>3. i + 1 = Len(lst) => x.base = UbootBase
        BY ListFacts, UbootFields
      <3> QED
        BY <3>1, <3>2, <3>3
    <2>5. CASE b + s <= x.base
      <3>1. LmbList(e) /\ Len(e) = len
        <4>1. g = Region(r.base, (b + s) - r.base, None)
          BY <2>3
        <4> HIDE DEF g
        <4>2. \A j \in 1 .. i - 1 : End(lst[j]) <= r.base
          BY <1>4
        <4> QED
          <5>1. FitsAt(lst, i, r.base, b + s)
            BY <1>1, <2>1, <2>3, <2>5, <4>2 DEF FitsAt
          <5> QED
            BY <4>1, <5>1, Changed DEF len
      <3> HIDE DEF e
      <3>2. i \in 1 .. Len(e)
        BY <1>1, <3>1
      <3>3. Good
        BY <1>6, <2>2, <3>1, <3>2
      <3> QED
        BY <3>3
    <2>6. CASE ~(b + s <= x.base)
      <3> DEFINE res == ResizeRegions(e, i, r.base, r.size + s)
      <3>1. i + 1 < Len(lst) /\ x.flags = None
        BY <1>1, <2>4, <2>6 DEF len
      <3>2. g \in Regions /\ g.base = r.base /\ g.size = r.size + s /\ g.flags = None
        BY <1>1, RegionFields DEF Flags
      <3>3. e[i] = g /\ e[i + 1] = x /\ Len(e) = len
        <4>1. lst \in Seq(Regions)
          BY DEF LmbList
        <4> HIDE DEF g
        <4> QED
          BY <1>1, <2>4, <3>2, <4>1 DEF len, ReplaceAt
      <3>4. AddrsOverlap(r.base, r.size + s, x.base, x.size)
        <4>1. /\ r.base + (r.size + s) <= W /\ x.base + x.size <= W /\ r.size + s \in Nat \ {0}
              /\ r.base < x.base + x.size /\ x.base < r.base + (r.size + s)
          <5>1. End(r) <= x.base
            BY <1>5, <2>1
          <5> HIDE DEF x
          <5>2. r.base + (r.size + s) = b + s
            BY <1>1, <1>8
          <5>3. x.base < b + s /\ r.base < x.base + x.size
            BY <1>1, <2>4, <2>6, <5>1
          <5>4. b + s <= W
            BY Numbers
          <5>5. x.base + x.size <= W
            BY <2>4, Numbers
          <5>6. r.size + s \in Nat \ {0}
            BY <1>1
          <5> QED
            BY <5>2, <5>3, <5>4, <5>5, <5>6
        <4> QED
          BY <1>1, <2>4, <4>1, Overlap
      <3>5. res = [ok |-> TRUE, list |-> res.list] /\ LmbList(res.list) /\ i \in 1 .. Len(res.list)
        <4>1. /\ r.base \in Nat /\ r.size + s \in Nat \ {0} /\ r.base + (r.size + s) <= UbootBase
              /\ End(g) = r.base + (r.size + s)
              /\ r.base < End(r) /\ r.base < r.base + (r.size + s)
          <5>1. End(g) = r.base + (r.size + s)
            BY <3>2 DEF End
          <5> HIDE DEF g
          <5> QED
            BY <1>1, <1>8, <5>1
        <4>2. /\ g \in Regions /\ g.flags = None /\ g.base = lst[i].base
              /\ r.base < End(lst[i]) /\ lst[i].base < r.base + (r.size + s)
              /\ \A j \in 1 .. i - 1 : End(lst[j]) <= r.base
          BY <1>4, <3>2, <4>1 DEF r
        <4> HIDE DEF g
        <4>3. TakesIn(lst, i, g, r.base, r.size + s)
          BY <2>1, <4>1, <4>2 DEF TakesIn
        <4>4. GoodResult(res, i)
          BY <4>3, Resized
        <4> HIDE DEF res
        <4> QED
          BY <4>4, Zenon DEF GoodResult
      <3>6. n = [ok |-> TRUE, list |-> res.list, merged |-> TRUE]
        <4>1. m.list = e /\ m.ok /\ m.merged
          BY <2>2
        <4>2. ~(i >= Len(e) \/ g.flags # x.flags)
          BY <1>1, <2>1, <3>1, <3>2, <3>3
        <4>3. n = [ok |-> res.ok, list |-> res.list, merged |-> TRUE]
          <5> HIDE DEF e, g, x
          <5> QED
            BY <3>2, <3>3, <3>4, <4>1, <4>2 DEF MergeNext, n
        <4> HIDE DEF res
        <4>4. res.ok = TRUE
          BY <3>5
        <4> QED
          BY <4>3, <4>4
      <3> HIDE DEF res, e, n
      <3>7. Good
        BY <2>2, <3>5, <3>6
      <3> QED
        BY <3>7
    <2> QED
      BY <2>5, <2>6
  <1>9. CASE r.base # b + s /\ b # End(r)
    <2> DEFINE res == ResizeRegions(lst, i, b, s)
    <2>1. adj = 0 /\ b < End(r) /\ r.base < b + s
      BY <1>1, <1>3, <1>9
    <2>2. i \in 1 .. Len(lst) - 1
      <3>1. i # len
        BY <1>1, <1>2, <2>1, UbootFields, Numbers
      <3> QED
        BY <1>1, <3>1 DEF len
    <2>3. res = [ok |-> TRUE, list |-> res.list] /\ LmbList(res.list) /\ i \in 1 .. Len(res.list)
      <3>1. ReplaceAt(lst, i, r) = lst
        BY <1>1 DEF LmbList, ReplaceAt, r
      <3>2. /\ r \in Regions /\ r.flags = None /\ r.base = lst[i].base /\ r = lst[i]
            /\ b < End(lst[i]) /\ lst[i].base < b + s
            /\ \A j \in 1 .. i - 1 : End(lst[j]) <= b
        <4>1. i < len
          BY <2>2, <1>1 DEF len
        <4> QED
          BY <1>1, <1>2, <1>4, <2>1, <4>1 DEF r
      <3>3. TakesIn(lst, i, r, b, s)
        BY <2>2, <3>2 DEF TakesIn
      <3>4. GoodResult(res, i)
        BY <3>1, <3>3, Resized
      <3> HIDE DEF res
      <3> QED
        BY <3>4, Zenon DEF GoodResult
    <2>4. m = [ok |-> TRUE, list |-> res.list, merged |-> TRUE]
      <3>1. m = [ok |-> res.ok, list |-> res.list, merged |-> TRUE]
        BY <2>1 DEF MergeInto, r, adj, m
      <3> HIDE DEF res
      <3>2. res.ok = TRUE
        BY <2>3
      <3> QED
        BY <3>1, <3>2
    <2> HIDE DEF res
    <2>5. Good
      BY <1>6, <2>3, <2>4
    <2> QED
      BY <2>5
  <1> QED
    BY <1>7, <1>8, <1>9

\* The last loop: a request that meets no region becomes one.
LEMMA Inserted ==
  ASSUME NEW lst, LmbList(lst), NEW b \in Nat, NEW s \in Nat \ {0}, b + s <= UbootBase,
         \A j \in 1 .. Len(lst) : End(lst[j]) <= b \/ b + s <= lst[j].base
  PROVE  LmbList(Insert(lst, Region(b, s, None)))
  <1> DEFINE n   == Len(lst)
             g   == Region(b, s, None)
             I   == {j \in 1 .. n : lst[j].base <= b}
             p   == IF I # {} THEN Max(I) ELSE 0
             out == Spliced(lst, p, g, p + 1)
  <1>1. n \in Nat \ {0} /\ lst \in Seq(Regions)
    BY ListFacts DEF LmbList
  <1>2. g \in Regions /\ g.base = b
    BY RegionFields DEF Flags
  <1>3. \A j \in 1 .. n : /\ lst[j].base \in Nat /\ lst[j].size \in Nat \ {0}
                         /\ End(lst[j]) = lst[j].base + lst[j].size
    BY ListFacts
  <1>4. lst[n].base = UbootBase
    BY ListFacts, UbootFields
  <1>5. /\ p \in 0 .. n - 1 /\ (p > 0 => lst[p].base <= b)
        /\ \A j \in p + 1 .. n : lst[j].base > b
    <2>1. n \notin I
      BY <1>4, Numbers
    <2>2. I \subseteq 0 .. n
      OBVIOUS
    <2>3. \A j \in 1 .. n : j \in I <=> lst[j].base <= b
      OBVIOUS
    <2>4. I \subseteq 1 .. n
      OBVIOUS
    <2> HIDE DEF I
    <2>5. CASE I = {}
      <3>1. p = 0
        BY <2>5
      <3>2. \A j \in 1 .. n : lst[j].base > b
        BY <1>3, <2>3, <2>5
      <3> QED
        BY <1>1, <3>1, <3>2
    <2>6. CASE I # {}
      <3>1. p \in I /\ \A y \in I : p >= y
        BY <1>1, <2>2, <2>6, GreatestMember
      <3> HIDE DEF p
      <3>2. p \in 1 .. n /\ p # n
        BY <2>1, <2>4, <3>1
      <3>3. \A j \in p + 1 .. n : lst[j].base > b
        <4> TAKE j \in p + 1 .. n
        <4>1. j \in 1 .. n /\ j \notin I
          BY <1>1, <3>1, <3>2
        <4>2. lst[j].base \in Nat /\ ~(lst[j].base <= b)
          BY <1>3, <2>3, <4>1
        <4> QED
          BY <4>2
      <3>4. lst[p].base <= b
        BY <2>3, <3>1, <3>2
      <3> QED
        BY <1>1, <3>2, <3>3, <3>4
    <2> QED
      BY <2>5, <2>6
  <1>6. Insert(lst, g) = out
    <2>1. SelectLastInSeq(lst, LAMBDA x : x.base <= g.base) = p
      BY <1>2 DEF SelectLastInSeq
    <2> HIDE DEF g, p
    <2>2. (p + 1) - 1 = p
      BY <1>1, <1>5
    <2> QED
      BY <2>1, <2>2 DEF Insert, InsertAt, Spliced
  <1> HIDE DEF p, n
  <1>7. IsSpliced(out, lst, p, g, p + 1)
    <2>1. p \in 0 .. Len(lst) /\ p + 1 \in 1 .. Len(lst) + 1
      BY <1>1, <1>5 DEF n
    <2> HIDE DEF g
    <2> QED
      BY <1>1, <1>2, <2>1, Joined
  <1>8. IsMerged(out, lst, p + 1, p, b, b + s)
    <2>1. /\ out \in Seq(Regions) /\ Len(out) = p + 1 + (n - (p + 1) + 1)
          /\ \A j \in 1 .. p + 1 + (n - (p + 1) + 1) :
               out[j] = IF j <= p THEN lst[j] ELSE IF j = p + 1 THEN g ELSE lst[j - (p + 1) + (p + 1) - 1]
      BY <1>7, Zenon DEF IsSpliced, n
    <2>2. p + 1 + (n - (p + 1) + 1) = n - (p - (p + 1)) /\ (b + s) - b = s
      BY <1>1, <1>5
    <2>3. g = Region(b, (b + s) - b, None)
      BY <2>2
    <2> HIDE DEF out, g
    <2>4. ASSUME NEW j \in 1 .. p + 1 + (n - (p + 1) + 1)
          PROVE  out[j] = IF j < p + 1 THEN lst[j] ELSE IF j = p + 1 THEN g ELSE lst[j + (p - (p + 1))]
      <3>1. (j < p + 1 <=> j <= p) /\ j - (p + 1) + (p + 1) - 1 = j + (p - (p + 1))
        BY <1>1, <1>5
      <3> QED
        BY <2>1, <3>1
    <2> QED
      BY <2>1, <2>2, <2>3, <2>4 DEF IsMerged, n
  <1>9. LmbList(out)
    <2>1. p + 1 \in 1 .. Len(lst) /\ p \in (p + 1) - 1 .. Len(lst) - 1
      BY <1>1, <1>5 DEF n
    <2>2. b + s <= lst[p + 1].base
      <3>1. p + 1 \in 1 .. n /\ p + 1 \in p + 1 .. n
        BY <2>1 DEF n
      <3>2. End(lst[p + 1]) <= b \/ b + s <= lst[p + 1].base
        BY <2>1
      <3>3. /\ lst[p + 1].base > b /\ lst[p + 1].base \in Nat /\ lst[p + 1].size \in Nat \ {0}
            /\ End(lst[p + 1]) = lst[p + 1].base + lst[p + 1].size
        BY <1>3, <1>5, <3>1
      <3> QED
        BY <3>2, <3>3
    <2>3. \A j \in 1 .. (p + 1) - 1 : End(lst[j]) <= b
      <3> TAKE j \in 1 .. (p + 1) - 1
      <3>1. j \in 1 .. n /\ p \in 1 .. n /\ j <= p /\ p > 0
        BY <1>1, <1>5
      <3>2. lst[j].base <= b
        <4>1. CASE j = p
          BY <1>5, <3>1, <4>1
        <4>2. CASE j # p
          <5>1. End(lst[j]) <= lst[p].base
            BY <3>1, <4>2, ListFacts DEF n
          <5>2. lst[p].base <= b /\ lst[p].base \in Nat
            BY <1>3, <1>5, <3>1
          <5>3. lst[j].base \in Nat /\ lst[j].size \in Nat \ {0} /\ End(lst[j]) = lst[j].base + lst[j].size
            BY <1>3, <3>1
          <5> QED
            BY <5>1, <5>2, <5>3
        <4> QED
          BY <4>1, <4>2
      <3>3. End(lst[j]) <= b \/ b + s <= lst[j].base
        BY <3>1 DEF n
      <3>4. lst[j].base \in Nat
        BY <1>3, <3>1
      <3> QED
        BY <3>2, <3>3, <3>4
    <2>4. b + s \in Nat /\ b < b + s
      OBVIOUS
    <2> HIDE DEF out
    <2> QED
      BY <1>8, <2>1, <2>2, <2>3, <2>4, MergedList
  <1> QED
    BY <1>6, <1>9

\* lmb_add_region_flags(): a request below U-Boot is taken in, unless the list
\* would have to grow and cannot.
LEMMA Added ==
  ASSUME NEW lst, LmbList(lst), NEW b \in Nat, NEW s \in Nat \ {0}, b + s <= UbootBase,
         NEW full \in BOOLEAN
  PROVE  LET res == AddRegionFlags(lst, b, s, None, full)
         IN  LmbList(res.list) /\ (~full => res.ok)
  <1> DEFINE len == Len(lst)
             I   == {j \in 1 .. len : StopsSearch(lst[j], b, s, None)}
             i   == FirstOf(I)
             m   == IF i = 0 THEN [ok |-> TRUE, list |-> lst, merged |-> FALSE]
                    ELSE MergeInto(lst, i, b, s, None)
             n   == IF i = 0 \/ ~m.ok THEN m ELSE MergeNext(m, i)
             g   == Region(b, s, None)
             res == AddRegionFlags(lst, b, s, None, full)
             Good == LmbList(res.list) /\ (~full => res.ok)
  <1> SUFFICES Good
    OBVIOUS
  <1>1. len \in Nat \ {0}
    BY ListFacts
  <1>2. SelectInSeq(lst, LAMBDA r : StopsSearch(r, b, s, None)) = i
    BY DEF SelectInSeq, FirstOf
  <1>3. res = IF ~n.ok \/ n.merged THEN [ok |-> n.ok, list |-> n.list]
              ELSE IF full THEN [ok |-> FALSE, list |-> n.list]
              ELSE [ok |-> TRUE, list |-> Insert(n.list, g)]
    BY <1>2, Zenon DEF AddRegionFlags
  <1>4. \A j \in 1 .. len : j \in I <=> StopsSearch(lst[j], b, s, None)
    OBVIOUS
  <1>5. \/ i = 0 /\ I = {}
        \/ i \in 1 .. len /\ i # 0 /\ i \in I /\ \A j \in 1 .. i - 1 : j \notin I
    <2>1. I \subseteq 1 .. len
      OBVIOUS
    <2> HIDE DEF I
    <2> QED
      BY <1>1, <2>1, FirstIndex
  <1> HIDE DEF I, i, res, len
  <1>6. ASSUME m = [ok |-> TRUE, list |-> lst, merged |-> FALSE], n = m,
               \A j \in 1 .. len - 1 : ~StopsSearch(lst[j], b, s, None)
        PROVE  Good
    <2>1. n.ok /\ ~n.merged /\ n.list = lst
      <3> HIDE DEF m, n
      <3> QED
        BY <1>6
    <2>2. res = IF full THEN [ok |-> FALSE, list |-> lst] ELSE [ok |-> TRUE, list |-> Insert(lst, g)]
      <3> HIDE DEF m, n
      <3> QED
        BY <1>3, <2>1
    <2>3. \A j \in 1 .. Len(lst) : End(lst[j]) <= b \/ b + s <= lst[j].base
      <3> TAKE j \in 1 .. Len(lst)
      <3>1. CASE j = Len(lst)
        BY <3>1, ListFacts, UbootFields
      <3>2. CASE j # Len(lst)
        <4>1. ~StopsSearch(lst[j], b, s, None)
          BY <1>1, <1>6, <3>2 DEF len
        <4>2. ~(b <= End(lst[j]) /\ lst[j].base <= b + s)
          BY <4>1, Relation
        <4>3. lst[j].base \in Nat /\ End(lst[j]) \in Nat
          BY ListFacts
        <4> QED
          BY <4>2, <4>3
      <3> QED
        BY <3>1, <3>2
    <2>4. LmbList(Insert(lst, g))
      BY <2>3, Inserted
    <2> HIDE DEF g
    <2>5. CASE full
      BY <2>2, <2>5
    <2>6. CASE ~full
      BY <2>2, <2>4, <2>6
    <2> QED
      BY <2>5, <2>6
  <1>7. CASE i = 0
    <2>1. m = [ok |-> TRUE, list |-> lst, merged |-> FALSE] /\ n = m
      BY <1>7
    <2>2. \A j \in 1 .. len - 1 : ~StopsSearch(lst[j], b, s, None)
      BY <1>1, <1>4, <1>5, <1>7
    <2> HIDE DEF m, n
    <2> QED
      BY <1>6, <2>1, <2>2
  <1>8. CASE i # 0
    <2> DEFINE m1 == MergeInto(lst, i, b, s, None)
               n1 == MergeNext(m1, i)
    <2>1. /\ i \in 1 .. Len(lst) /\ StopsSearch(lst[i], b, s, None)
          /\ \A j \in 1 .. i - 1 : ~StopsSearch(lst[j], b, s, None)
      BY <1>1, <1>4, <1>5, <1>8 DEF len
    <2>2. \/ m1 = [ok |-> TRUE, list |-> lst, merged |-> FALSE] /\ i = Len(lst)
          \/ m1.ok /\ m1.merged /\ n1.ok /\ n1.merged /\ LmbList(n1.list)
      BY <2>1, MergedInto
    <2>3. m = m1
      BY <1>8
    <2>4. m1.ok => n = n1
      BY <1>8, <2>3
    <2>5. i >= Len(lst) /\ m1 = [ok |-> TRUE, list |-> lst, merged |-> FALSE] => n1 = m1
      BY DEF MergeNext
    <2> HIDE DEF m, n, m1, n1
    <2>6. CASE m1 = [ok |-> TRUE, list |-> lst, merged |-> FALSE] /\ i = Len(lst)
      <3>1. m1.ok /\ i >= Len(lst)
        BY <1>1, <2>6 DEF len
      <3>2. n = m
        BY <2>3, <2>4, <2>5, <2>6, <3>1
      <3>3. \A j \in 1 .. len - 1 : ~StopsSearch(lst[j], b, s, None)
        BY <2>1, <2>6 DEF len
      <3> QED
        BY <1>6, <2>3, <2>6, <3>2, <3>3
    <2>7. CASE m1.ok /\ m1.merged /\ n1.ok /\ n1.merged /\ LmbList(n1.list)
      <3>1. res = [ok |-> n1.ok, list |-> n1.list]
        BY <1>3, <2>4, <2>7
      <3> QED
        BY <2>7, <3>1
    <2> QED
      BY <2>2, <2>6, <2>7
  <1> QED
    BY <1>7, <1>8

-----------------------------------------------------------------------------
(* _lmb_free(), _lmb_alloc_addr() and _lmb_alloc_base().                    *)

\* A region with another size.
LEMMA NewSize ==
  ASSUME NEW lst, LmbList(lst), NEW i \in 1 .. Len(lst) - 1, NEW z
  PROVE  [lst EXCEPT ![i].size = z] = ReplaceAt(lst, i, Region(lst[i].base, z, None))
  <1>1. i \in 1 .. Len(lst) /\ i < Len(lst)
    BY ListFacts
  <1>2. lst[i] \in Regions /\ lst[i].flags = None
    BY <1>1, ListFacts
  <1>3. lst[i] = [base |-> lst[i].base, size |-> lst[i].size, flags |-> lst[i].flags]
    BY <1>2 DEF Regions
  <1>4. [lst[i] EXCEPT !.size = z] = Region(lst[i].base, z, None)
    BY <1>2, <1>3 DEF Region
  <1>5. [lst EXCEPT ![i].size = z] = [lst EXCEPT ![i] = [lst[i] EXCEPT !.size = z]]
    OBVIOUS
  <1> QED
    BY <1>4, <1>5 DEF ReplaceAt

\* _lmb_free() of something below U-Boot.
LEMMA Freed ==
  ASSUME NEW lst, LmbList(lst), NEW b \in Nat, NEW s \in Nat \ {0}, b < UbootBase, b + s <= W,
         NEW full \in BOOLEAN
  PROVE  LmbList(FreeIn(lst, b, s, full).list)
  <1> DEFINE len == Len(lst)
             Inside(r) == r.base <= b /\ (b + s - 1) % W <= End(r) - 1
             I   == {j \in 1 .. len : Inside(lst[j])}
             i   == FirstOf(I)
             r   == lst[i]
             res == FreeIn(lst, b, s, full)
  <1> SUFFICES LmbList(res.list)
    OBVIOUS
  <1>1. len \in Nat \ {0}
    BY ListFacts
  <1>2. SelectInSeq(lst, LAMBDA x : x.base <= b /\ (b + s - 1) % W <= End(x) - 1) = i
    BY DEF SelectInSeq, FirstOf
  <1>3. \/ i = 0
        \/ i \in 1 .. len /\ i # 0 /\ i \in I
    <2>1. I \subseteq 1 .. len
      OBVIOUS
    <2> HIDE DEF I
    <2> QED
      BY <1>1, <2>1, FirstIndex
  <1>4. (b + s - 1) % W = b + s - 1
    <2>1. b + s - 1 \in Nat /\ b + s - 1 < W
      BY Numbers
    <2> QED
      BY <2>1, Small
  <1>5. \A j \in I : lst[j].base <= b /\ b + s - 1 <= End(lst[j]) - 1
    BY <1>4
  <1> HIDE DEF I, i, len, Inside
  <1>6. CASE i = 0
    <2>1. res = [ok |-> FALSE, list |-> lst]
      BY <1>2, <1>6 DEF FreeIn
    <2> HIDE DEF res
    <2> QED
      BY <2>1
  <1>7. CASE i # 0
    <2>1. /\ i \in 1 .. Len(lst) /\ r.base <= b /\ b + s - 1 <= End(r) - 1
      BY <1>3, <1>5, <1>7 DEF len
    <2>2. /\ r.base \in Nat /\ r.size \in Nat \ {0} /\ End(r) = r.base + r.size
          /\ (i < Len(lst) => r.flags = None /\ End(r) <= UbootBase)
      BY <2>1, ListFacts
    <2>3. i # Len(lst)
      BY <2>1, ListFacts, UbootFields, Numbers
    <2>4. i \in 1 .. Len(lst) - 1 /\ i < Len(lst)
      BY <1>1, <2>1, <2>3 DEF len
    <2>5. r.flags = None /\ End(r) <= UbootBase
      BY <2>2, <2>4
    <2>6. /\ \A j \in 1 .. i - 1 : End(lst[j]) <= r.base
          /\ End(r) <= lst[i + 1].base /\ lst[i + 1].base \in Nat
      <3>1. \A j \in 1 .. i - 1 : j \in 1 .. Len(lst) /\ j < i
        BY <1>1, <2>4 DEF len
      <3>2. i + 1 \in 1 .. Len(lst) /\ i < i + 1
        BY <1>1, <2>4 DEF len
      <3>3. \A j \in 1 .. i - 1 : End(lst[j]) <= r.base
        BY <2>1, <3>1, ListFacts
      <3>4. End(r) <= lst[i + 1].base /\ lst[i + 1].base \in Nat
        BY <2>1, <3>2, ListFacts
      <3> QED
        BY <3>3, <3>4
    <2>7. \A j \in 1 .. i - 1 : End(lst[j]) \in Nat
      <3> TAKE j \in 1 .. i - 1
      <3>1. j \in 1 .. Len(lst)
        BY <1>1, <2>4 DEF len
      <3> QED
        BY <3>1, ListFacts
    <2> HIDE DEF r
    <2>8. b + s <= End(r) /\ End(r) \in Nat
      BY <2>1, <2>2
    <2>9. ASSUME NEW lo \in Nat, NEW hi \in Nat, r.base <= lo, lo < hi, hi <= End(r)
          PROVE  LmbList(ReplaceAt(lst, i, Region(lo, hi - lo, None)))
      <3>1. hi <= lst[i + 1].base
        BY <2>6, <2>8, <2>9
      <3>2. \A j \in 1 .. i - 1 : End(lst[j]) <= lo
        BY <2>2, <2>6, <2>7, <2>9
      <3>3. FitsAt(lst, i, lo, hi)
        BY <2>4, <2>9, <3>1, <3>2 DEF FitsAt
      <3> QED
        BY <3>3, Changed
    <2>10. CASE r.base = b /\ r.size = s
      <3>1. res = [ok |-> TRUE, list |-> RemoveAt(lst, i)]
        BY <1>2, <1>7, <2>10 DEF FreeIn, r
      <3>2. LmbList(RemoveAt(lst, i))
        BY <2>4, Dropped
      <3> HIDE DEF res
      <3> QED
        BY <3>1, <3>2
    <2>11. CASE r.base = b /\ r.size # s
      <3>1. res = [ok |-> TRUE, list |-> ReplaceAt(lst, i, Region(b + s, r.size - s, r.flags))]
        BY <1>2, <1>7, <2>11 DEF FreeIn, ReplaceAt, r
      <3>2. b + s \in Nat /\ b + s < End(r) /\ r.base <= b + s /\ r.size - s = End(r) - (b + s)
        BY <2>2, <2>8, <2>11
      <3>3. LmbList(ReplaceAt(lst, i, Region(b + s, End(r) - (b + s), None)))
        BY <2>8, <2>9, <3>2
      <3> HIDE DEF res
      <3> QED
        BY <2>5, <3>1, <3>2, <3>3
    <2>12. CASE r.base # b /\ End(r) = b + s
      <3>1. res = [ok |-> TRUE, list |-> [lst EXCEPT ![i].size = r.size - s]]
        BY <1>2, <1>7, <2>12 DEF FreeIn, r
      <3>2. r.base < b /\ b <= End(r) /\ r.size - s = b - r.base
        BY <2>1, <2>2, <2>12
      <3>3. [lst EXCEPT ![i].size = r.size - s] = ReplaceAt(lst, i, Region(r.base, b - r.base, None))
        BY <2>4, <3>2, NewSize DEF r
      <3>4. LmbList(ReplaceAt(lst, i, Region(r.base, b - r.base, None)))
        BY <2>2, <2>9, <3>2
      <3> HIDE DEF res
      <3> QED
        BY <3>1, <3>3, <3>4
    <2>13. CASE r.base # b /\ End(r) # b + s
      <3> DEFINE l == [lst EXCEPT ![i].size = b - r.base]
      <3>1. res = AddRegionFlags(l, b + s, End(r) - (b + s), r.flags, full)
        BY <1>2, <1>7, <2>13 DEF FreeIn, Split, r
      <3>2. /\ r.base < b /\ b <= End(r) /\ b + s \in Nat /\ End(r) - (b + s) \in Nat \ {0}
            /\ b + s + (End(r) - (b + s)) <= UbootBase
        BY <2>1, <2>2, <2>5, <2>8, <2>13
      <3>3. l = ReplaceAt(lst, i, Region(r.base, b - r.base, None))
        BY <2>4, NewSize DEF r
      <3>4. LmbList(ReplaceAt(lst, i, Region(r.base, b - r.base, None)))
        BY <2>2, <2>9, <3>2
      <3> HIDE DEF l
      <3>5. LmbList(l)
        BY <3>3, <3>4
      <3>6. LmbList(AddRegionFlags(l, b + s, End(r) - (b + s), None, full).list)
        BY <3>2, <3>5, Added
      <3> HIDE DEF res
      <3> QED
        BY <2>5, <3>1, <3>6
    <2> QED
      BY <2>10, <2>11, <2>12, <2>13
  <1> QED
    BY <1>6, <1>7

\* Sums that pass 2^32 once.
LEMMA Wrapped ==
  ASSUME NEW x \in Nat, W <= x, x < 2 * W
  PROVE  x % W = x - W
  BY Numbers

\* A remainder is no larger than what it is taken of.
LEMMA ModBounds ==
  ASSUME NEW x \in Nat, NEW a \in Nat \ {0}
  PROVE  x % a \in Nat /\ x % a <= x
  <1>1. x % a \in Nat /\ x % a < a
    OBVIOUS
  <1>2. x < a => x % a = x
    OBVIOUS
  <1> QED
    BY <1>1, <1>2

\* ALIGN_DOWN() never goes up.
LEMMA AlignDownBounds ==
  ASSUME NEW x \in Nat, NEW a \in Nat
  PROVE  AlignDown(x, a) \in Nat /\ AlignDown(x, a) <= x
  <1>1. CASE a = 0
    BY <1>1 DEF AlignDown
  <1>2. CASE a # 0
    <2>1. x % a \in Nat /\ x % a <= x
      BY <1>2, ModBounds
    <2> QED
      BY <1>2, <2>1 DEF AlignDown
  <1> QED
    BY <1>1, <1>2

\* lmb_overlap_checks() finds a region that forbids the request, if there is one.
Forbids(r, b, s, f, any) ==
  AddrsOverlap(b, s, r.base, r.size) /\ (any \/ f # None \/ f # r.flags)

\* A result of 0 says that there is none.
LEMMA Checked ==
  ASSUME NEW lst, Len(lst) \in Nat, NEW b, NEW s, NEW f, NEW any
  PROVE  \/ /\ OverlapChecks(lst, b, s, f, any) = 0
            /\ \A j \in 1 .. Len(lst) : ~Forbids(lst[j], b, s, f, any)
         \/ /\ OverlapChecks(lst, b, s, f, any) \in 1 .. Len(lst)
            /\ OverlapChecks(lst, b, s, f, any) # 0
            /\ Forbids(lst[OverlapChecks(lst, b, s, f, any)], b, s, f, any)
  <1> DEFINE I == {j \in 1 .. Len(lst) : Forbids(lst[j], b, s, f, any)}
             i == FirstOf(I)
  <1>1. OverlapChecks(lst, b, s, f, any) = i
    BY DEF OverlapChecks, SelectInSeq, FirstOf, Forbids
  <1>2. \A j \in 1 .. Len(lst) : j \in I <=> Forbids(lst[j], b, s, f, any)
    OBVIOUS
  <1>3. I \subseteq 1 .. Len(lst)
    OBVIOUS
  <1> HIDE DEF I
  <1>4. (i = 0 /\ I = {}) \/ (i \in 1 .. Len(lst) /\ i # 0 /\ i \in I)
    BY <1>3, FirstIndex
  <1> HIDE DEF i
  <1> QED
    BY <1>1, <1>2, <1>4

\* What may be reserved with LMB_NONE is whatever is not U-Boot's.
LEMMA OnlyUbootForbids ==
  ASSUME NEW lst, LmbList(lst), NEW b, NEW s
  PROVE  OverlapChecks(lst, b, s, None, FALSE) = 0 <=>
           ~AddrsOverlap(b, s, UbootBase, MemEnd - UbootBase)
  <1>1. Len(lst) \in Nat \ {0} /\ Len(lst) \in 1 .. Len(lst) /\ lst[Len(lst)] = Uboot
    BY ListFacts
  <1>2. \A j \in 1 .. Len(lst) : j # Len(lst) => lst[j].flags = None
    BY ListFacts
  <1>3. Forbids(lst[Len(lst)], b, s, None, FALSE) <=> AddrsOverlap(b, s, UbootBase, MemEnd - UbootBase)
    BY <1>1, UbootFields, Numbers DEF Forbids
  <1>4. \A j \in 1 .. Len(lst) : j # Len(lst) => ~Forbids(lst[j], b, s, None, FALSE)
    BY <1>2 DEF Forbids
  <1> QED
    BY <1>1, <1>3, <1>4, Checked

\* A range in memory that does not reach into U-Boot.
LEMMA BelowUboot ==
  ASSUME NEW b \in Nat, NEW s \in Nat \ {0}, b < W, s <= W - MemSize, InMemory(b, s),
         ~AddrsOverlap(b, s, UbootBase, MemEnd - UbootBase)
  PROVE  b + s <= UbootBase
  <1> DEFINE y == b + s - 1
             x == y % W
             e == MemEnd - 1
  <1>1. /\ MemBase + MemSize - 1 = e /\ UbootBase + (MemEnd - UbootBase) - 1 = e
        /\ e \in Nat /\ e < W /\ e % W = e
    <2>1. MemBase + MemSize - 1 = e /\ UbootBase + (MemEnd - UbootBase) - 1 = e /\ e \in Nat /\ e < W
      BY Numbers
    <2> HIDE DEF e
    <2> QED
      BY <2>1, Small
  <1> HIDE DEF e
  <1>2. b <= e /\ MemBase <= x
    BY <1>1 DEF InMemory, AddrsOverlap
  <1>3. ~(b <= e /\ UbootBase <= x)
    BY <1>1 DEF AddrsOverlap
  <1>4. y \in Nat /\ y = b + s - 1 /\ y < 2 * W
    BY Numbers
  <1> HIDE DEF y
  <1>5. CASE y < W
    <2>1. x = y
      BY <1>4, <1>5, Small
    <2> QED
      BY <1>2, <1>3, <1>4, <2>1, Numbers
  <1>6. CASE W <= y
    <2>1. x = y - W
      BY <1>4, <1>6, Wrapped
    <2> HIDE DEF x
    <2> QED
      BY <1>2, <1>4, <2>1, Numbers DEF e
  <1> QED
    BY <1>4, <1>5, <1>6, Numbers

\* _lmb_alloc_addr() with LMB_NONE.
LEMMA Reserved ==
  ASSUME NEW lst, LmbList(lst), NEW b \in Nat, NEW s \in Nat \ {0}, b < W, s <= W - MemSize,
         NEW full \in BOOLEAN
  PROVE  LET res == AllocAddr(lst, b, s, None, full)
         IN  LmbList(res.list) /\ (res.ok => b + s <= UbootBase)
  <1> DEFINE res == AllocAddr(lst, b, s, None, full)
  <1>1. CASE InMemory(b, s) /\ OverlapChecks(lst, b, s, None, FALSE) = 0
    <2>1. b + s <= UbootBase
      BY <1>1, OnlyUbootForbids, BelowUboot
    <2>2. res = AddRegionFlags(lst, b, s, None, full)
      BY <1>1 DEF AllocAddr, ReserveIn
    <2>3. LmbList(AddRegionFlags(lst, b, s, None, full).list)
      BY <2>1, Added
    <2> QED
      BY <2>1, <2>2, <2>3
  <1>2. CASE ~(InMemory(b, s) /\ OverlapChecks(lst, b, s, None, FALSE) = 0)
    <2>1. res = [ok |-> FALSE, list |-> lst]
      BY <1>2 DEF AllocAddr, ReserveIn
    <2> HIDE DEF res
    <2>2. LmbList(res.list) /\ ~res.ok
      BY <2>1
    <2> QED
      BY <2>2 DEF res
  <1> QED
    BY <1>1, <1>2

-----------------------------------------------------------------------------
(* The search of _lmb_alloc_base().                                         *)

\* One step of the search, with f for the rest of it.
DescentStep(f, lst, s, align, b) ==
  IF b < MemBase THEN 0
  ELSE IF OverlapChecks(lst, b, s, NoOverwrite, TRUE) = 0 THEN b
  ELSE f[NextBelow(lst, b, s, align)]

\* The search goes down, and stays below the region that was in the way.
LEMMA GoesDown ==
  ASSUME NEW lst, LmbList(lst), NEW s \in Nat \ {0}, s <= MemSize, NEW align \in Nat,
         NEW b \in Nat, b >= MemBase, OverlapChecks(lst, b, s, NoOverwrite, TRUE) # 0
  PROVE  /\ NextBelow(lst, b, s, align) \in Nat
         /\ NextBelow(lst, b, s, align) < b
         /\ NextBelow(lst, b, s, align) + s <= MemEnd
  <1> DEFINE i == OverlapChecks(lst, b, s, NoOverwrite, TRUE)
             r == lst[i]
             p == NextBelow(lst, b, s, align)
             y == b + s - 1
             z == r.base - s
  <1>1. i \in 1 .. Len(lst) /\ Forbids(r, b, s, NoOverwrite, TRUE)
    <2>1. Len(lst) \in Nat
      BY ListFacts
    <2> QED
      BY <2>1, Checked
  <1>2. r.base \in Nat /\ r.base <= MemEnd
    <2>1. r.base \in Nat /\ r.size \in Nat \ {0} /\ End(r) = r.base + r.size /\ End(r) <= MemEnd
      BY <1>1, ListFacts
    <2> HIDE DEF r
    <2> QED
      BY <2>1, Numbers
  <1>3. r.base <= y % W
    BY <1>1 DEF Forbids, AddrsOverlap
  <1>4. p = IF r.base < s THEN 0 ELSE AlignDown(z, align)
    BY DEF NextBelow
  <1> HIDE DEF i, r, p
  <1>5. y \in Nat
    OBVIOUS
  <1>6. y % W <= y /\ y % W \in Nat
    <2> HIDE DEF y
    <2> QED
      BY <1>5, ModBounds, Numbers
  <1>7. r.base < b + s
    <2> DEFINE x == y % W
    <2>1. r.base <= x /\ x <= y /\ x \in Nat
      BY <1>3, <1>6
    <2> HIDE DEF x
    <2> QED
      BY <1>2, <2>1
  <1>8. CASE r.base < s
    <2>1. p = 0
      BY <1>4, <1>8
    <2> QED
      BY <2>1, Numbers DEF p
  <1>9. CASE ~(r.base < s)
    <2>1. p = AlignDown(z, align) /\ z \in Nat
      BY <1>2, <1>4, <1>9
    <2>2. p \in Nat /\ p <= z
      <3> HIDE DEF z
      <3> QED
        BY <2>1, AlignDownBounds
    <2>3. p < b /\ p + s <= MemEnd
      BY <1>2, <1>7, <2>2, Numbers
    <2> QED
      BY <2>2, <2>3 DEF p
  <1> QED
    BY <1>8, <1>9

\* So the search is well defined.
LEMMA DescentDefined ==
  ASSUME NEW lst, LmbList(lst), NEW s \in Nat \ {0}, s <= MemSize, NEW align \in Nat
  PROVE  \A b \in 0 .. W - 1 :
           Descent(lst, s, align)[b] = DescentStep(Descent(lst, s, align), lst, s, align, b)
  <1> DEFINE Step(f, b) == DescentStep(f, lst, s, align, b)
             IsEnd(f) == f = [b \in 0 .. W - 1 |-> Step(f, b)]
             UpTo(f, n) == \A b \in 0 .. n - 1 : f[b] = Step(f, b)
             Missing == {n \in 0 .. W : \A f : ~UpTo(f, n)}
  <1>1. ASSUME NEW f, NEW g, NEW b \in Nat, \A c \in 0 .. b - 1 : f[c] = g[c]
        PROVE  Step(f, b) = Step(g, b)
    <2>1. CASE b >= MemBase /\ OverlapChecks(lst, b, s, NoOverwrite, TRUE) # 0
      <3>1. NextBelow(lst, b, s, align) \in Nat /\ NextBelow(lst, b, s, align) < b
        BY <2>1, GoesDown
      <3>2. NextBelow(lst, b, s, align) \in 0 .. b - 1
        BY <3>1
      <3>3. f[NextBelow(lst, b, s, align)] = g[NextBelow(lst, b, s, align)]
        BY <1>1, <3>2
      <3> QED
        BY <2>1, <3>3, Numbers DEF DescentStep
    <2>2. CASE b < MemBase
      BY <2>2 DEF DescentStep
    <2>3. CASE OverlapChecks(lst, b, s, NoOverwrite, TRUE) = 0
      BY <2>3 DEF DescentStep
    <2>4. b < MemBase \/ b >= MemBase
      BY Numbers
    <2> QED
      BY <2>1, <2>2, <2>3, <2>4
  <1>2. Missing = {}
    <2> SUFFICES ASSUME Missing # {} PROVE FALSE
      OBVIOUS
    <2> DEFINE m == Min(Missing)
    <2>1. m \in Missing /\ \A n \in Missing : m <= n
      <3>1. Missing \subseteq Nat
        OBVIOUS
      <3> HIDE DEF Missing
      <3> QED
        BY <3>1, LeastMember
    <2> HIDE DEF m
    <2>2. m \in 0 .. W /\ \A f : ~UpTo(f, m)
      BY <2>1
    <2>3. m # 0
      <3>1. UpTo(<<>>, 0)
        OBVIOUS
      <3> QED
        BY <2>2, <3>1
    <2>4. m - 1 \in 0 .. W /\ m - 1 \notin Missing
      BY <2>1, <2>2, <2>3, Numbers
    <2>5. PICK f : UpTo(f, m - 1)
      BY <2>4
    <2> DEFINE g == [b \in 0 .. W - 1 |-> IF b = m - 1 THEN Step(f, b) ELSE f[b]]
    <2> HIDE DEF Step
    <2>6. /\ \A b \in 0 .. m - 2 : g[b] = f[b]
          /\ g[m - 1] = Step(f, m - 1)
      BY <2>2, <2>3, Numbers
    <2> HIDE DEF g
    <2>7. ASSUME NEW b \in 0 .. m - 1 PROVE g[b] = Step(g, b)
      <3>1. b \in Nat /\ \A c \in 0 .. b - 1 : g[c] = f[c]
        BY <2>2, <2>6
      <3>2. Step(g, b) = Step(f, b)
        BY <1>1, <3>1
      <3>3. CASE b = m - 1
        BY <2>6, <3>2, <3>3
      <3>4. CASE b # m - 1
        <4>1. b \in 0 .. m - 2 /\ b \in 0 .. m - 1 - 1
          BY <2>2, <2>3, <3>4
        <4> QED
          BY <2>5, <2>6, <3>2, <4>1
      <3> QED
        BY <3>3, <3>4
    <2> QED
      BY <2>2, <2>7
  <1>3. \E f : IsEnd(f)
    <2>1. PICK f : UpTo(f, W)
      <3>1. W \in 0 .. W /\ W \notin Missing
        <4> HIDE DEF Missing
        <4> QED
          BY <1>2, Numbers
      <3> HIDE DEF UpTo
      <3> QED
        BY <3>1
    <2> DEFINE g == [b \in 0 .. W - 1 |-> f[b]]
    <2>2. \A b \in 0 .. W - 1 : g[b] = f[b]
      OBVIOUS
    <2>3. ASSUME NEW b \in 0 .. W - 1 PROVE f[b] = Step(g, b)
      <3> HIDE DEF g
      <3>1. b \in Nat /\ \A c \in 0 .. b - 1 : f[c] = g[c]
        BY <2>2, Numbers
      <3>2. Step(f, b) = Step(g, b)
        BY <1>1, <3>1
      <3> HIDE DEF Step
      <3> QED
        BY <2>1, <3>2
    <2> HIDE DEF Step
    <2>4. g = [b \in 0 .. W - 1 |-> Step(g, b)]
      BY <2>3
    <2> QED
      BY <2>4
  <1>4. Descent(lst, s, align) = CHOOSE f : IsEnd(f)
    BY DEF Descent, DescentStep
  <1>5. IsEnd(Descent(lst, s, align))
    <2> HIDE DEF IsEnd
    <2> QED
      BY <1>3, <1>4
  <1> DEFINE D == Descent(lst, s, align)
  <1>6. D = [b \in 0 .. W - 1 |-> Step(D, b)]
    BY <1>5
  <1> HIDE DEF D, Step
  <1>7. \A b \in 0 .. W - 1 : D[b] = Step(D, b)
    BY <1>6
  <1> QED
    BY <1>7 DEF D, Step

\* A place where nothing is reserved.
Vacant(lst, s, p) ==
  p \in Nat /\ p + s <= MemEnd /\ OverlapChecks(lst, p, s, NoOverwrite, TRUE) = 0

\* The search ends at a vacant place or finds none.
LEMMA DescentFinds ==
  ASSUME NEW lst, LmbList(lst), NEW s \in Nat \ {0}, s <= MemSize, NEW align \in Nat,
         NEW top \in Nat, top + s <= MemEnd
  PROVE  Descent(lst, s, align)[top] = 0 \/ Vacant(lst, s, Descent(lst, s, align)[top])
  <1> DEFINE D == Descent(lst, s, align)
             Fine(b) == D[b] = 0 \/ Vacant(lst, s, D[b])
             Bad == {b \in Nat : b + s <= MemEnd /\ ~Fine(b)}
  <1>1. ASSUME NEW b \in Nat, b + s <= MemEnd
        PROVE  D[b] = DescentStep(D, lst, s, align, b)
    <2>1. b \in 0 .. W - 1
      BY <1>1, Numbers
    <2> QED
      BY <2>1, DescentDefined
  <1> HIDE DEF D
  <1>2. Bad = {}
    <2> SUFFICES ASSUME Bad # {} PROVE FALSE
      OBVIOUS
    <2> DEFINE b == Min(Bad)
    <2>1. b \in Bad /\ \A n \in Bad : b <= n
      <3>1. Bad \subseteq Nat
        OBVIOUS
      <3> HIDE DEF Bad
      <3> QED
        BY <3>1, LeastMember
    <2> HIDE DEF b
    <2>2. b \in Nat /\ b + s <= MemEnd /\ ~Fine(b)
      BY <2>1
    <2>3. D[b] = DescentStep(D, lst, s, align, b)
      BY <1>1, <2>2
    <2>4. CASE b < MemBase
      BY <2>2, <2>3, <2>4 DEF DescentStep
    <2>5. CASE b >= MemBase /\ OverlapChecks(lst, b, s, NoOverwrite, TRUE) = 0
      <3>1. D[b] = b
        BY <2>2, <2>3, <2>5, Numbers DEF DescentStep
      <3> QED
        BY <2>2, <2>5, <3>1 DEF Vacant
    <2>6. CASE b >= MemBase /\ OverlapChecks(lst, b, s, NoOverwrite, TRUE) # 0
      <3> DEFINE p == NextBelow(lst, b, s, align)
      <3>1. p \in Nat /\ p < b /\ p + s <= MemEnd
        BY <2>2, <2>6, GoesDown
      <3>2. D[b] = D[p]
        BY <2>2, <2>3, <2>6, Numbers DEF DescentStep
      <3> HIDE DEF p
      <3>3. p \notin Bad
        BY <2>1, <2>2, <3>1
      <3>4. Fine(p)
        BY <3>1, <3>3
      <3> QED
        BY <2>2, <3>2, <3>4
    <2>7. b < MemBase \/ b >= MemBase
      BY <2>2, Numbers
    <2> QED
      BY <2>4, <2>5, <2>6, <2>7
  <1> QED
    BY <1>2 DEF D

\* _lmb_alloc_base() gives a place below U-Boot.
LEMMA PlaceBelowUboot ==
  ASSUME NEW lst, LmbList(lst), NEW s \in Nat \ {0}, NEW align \in Nat, NEW max \in Nat,
         Place(lst, s, align, max) # 0
  PROVE  Place(lst, s, align, max) \in Nat /\ Place(lst, s, align, max) + s <= UbootBase
  <1> DEFINE p   == Place(lst, s, align, max)
             low == IF max < MemEnd THEN max ELSE MemEnd
             x   == low - s
             top == AlignDown(x, align)
  <1>1. ~(MemSize < s \/ max <= MemBase) /\ p = Descent(lst, s, align)[top]
    BY DEF Place
  <1>2. s <= MemSize /\ x \in Nat /\ x + s <= MemEnd
    BY <1>1, Numbers
  <1>3. top \in Nat /\ top <= x
    <2> HIDE DEF x
    <2> QED
      BY <1>2, AlignDownBounds
  <1> HIDE DEF top, x
  <1>4. top + s <= MemEnd
    BY <1>2, <1>3, Numbers
  <1>5. Vacant(lst, s, p)
    BY <1>1, <1>2, <1>3, <1>4, DescentFinds
  <1> HIDE DEF p
  <1>6. p \in Nat /\ p + s <= MemEnd /\ OverlapChecks(lst, p, s, NoOverwrite, TRUE) = 0
    BY <1>5 DEF Vacant
  <1>7. ~AddrsOverlap(p, s, UbootBase, MemEnd - UbootBase)
    <2>1. Len(lst) \in Nat /\ Len(lst) \in 1 .. Len(lst) /\ lst[Len(lst)] = Uboot
      BY ListFacts
    <2>2. ~Forbids(lst[Len(lst)], p, s, NoOverwrite, TRUE)
      BY <1>6, <2>1, Checked
    <2> QED
      BY <2>1, <2>2, UbootFields DEF Forbids
  <1>8. ~(p < MemEnd /\ UbootBase < p + s)
    <2>1. /\ UbootBase \in Nat /\ MemEnd - UbootBase \in Nat \ {0} /\ p + s <= W
          /\ UbootBase + (MemEnd - UbootBase) = MemEnd /\ UbootBase + (MemEnd - UbootBase) <= W
      BY <1>6, Numbers
    <2> QED
      BY <1>6, <1>7, <2>1, Overlap
  <1>9. p + s <= UbootBase
    BY <1>6, <1>8, Numbers
  <1> QED
    BY <1>6, <1>9 DEF p

\* lmb_alloc_mem() with LMB_NONE.
LEMMA Allocated ==
  ASSUME NEW lst, LmbList(lst), NEW s \in Nat \ {0}, NEW align \in Nat, NEW max \in Nat,
         NEW full \in BOOLEAN
  PROVE  LmbList(AllocBase(lst, s, align, max, None, full).list)
  <1> DEFINE b   == Place(lst, s, align, max)
             add == AddRegionFlags(lst, b, s, None, full)
             res == AllocBase(lst, s, align, max, None, full)
  <1>1. res = IF b = 0 THEN [ok |-> FALSE, list |-> lst, base |-> max]
              ELSE IF ~add.ok THEN [ok |-> TRUE, list |-> add.list, base |-> max]
              ELSE [ok |-> TRUE, list |-> add.list, base |-> b]
    BY DEF AllocBase
  <1>2. b # 0 => LmbList(add.list)
    <2>1. b # 0 => b \in Nat /\ b + s <= UbootBase
      BY PlaceBelowUboot
    <2> HIDE DEF b
    <2> QED
      BY <2>1, Added
  <1>3. (b = 0 /\ res.list = lst) \/ (b # 0 /\ res.list = add.list)
    <2> HIDE DEF res, b, add
    <2> QED
      BY <1>1
  <1>4. LmbList(res.list)
    <2> HIDE DEF res, b, add
    <2> QED
      BY <1>2, <1>3
  <1> QED
    BY <1>4

-----------------------------------------------------------------------------
(* Uploads.                                                                 *)

\* Whether the list can grow is a yes or a no.
LEMMA FullType == Full \subseteq BOOLEAN
  BY DEF Full

\* The two tests of webflash_range_valid() before it asks lib/lmb.c.
LEMMA InRamBounds ==
  ASSUME load_addr \in 0 .. W - 1, NEW s \in 1 .. W - 1, InRam(s)
  PROVE  MemBase <= load_addr /\ load_addr + s <= MemEnd /\ s <= W - MemSize
  <1> DEFINE y == load_addr + s
  <1>1. y \in Nat /\ y < 2 * W /\ load_addr \in Nat /\ y - W < load_addr
    BY Numbers
  <1>2. y % W >= load_addr /\ load_addr >= MemBase /\ y % W <= MemEnd
    BY DEF InRam
  <1>3. y = load_addr + s
    OBVIOUS
  <1> HIDE DEF y
  <1>4. CASE y < W
    <2>1. y % W = y
      BY <1>1, <1>4, Small
    <2> QED
      BY <1>1, <1>2, <1>3, <2>1, Numbers
  <1>5. CASE W <= y
    <2>1. y % W = y - W
      BY <1>1, <1>5, Wrapped
    <2> QED
      BY <1>1, <1>2, <2>1, Numbers
  <1> QED
    BY <1>1, <1>4, <1>5, Numbers

\* What ends below U-Boot is accepted.
LEMMA Accepted ==
  ASSUME LmbList(used), load_addr \in Nat, NEW s \in Nat \ {0},
         MemBase <= load_addr, load_addr + s <= UbootBase
  PROVE  InRam(s) /\ ReadCheck(s).ok
  <1> DEFINE y == load_addr + s
             z == y - 1
             e == MemEnd - 1
             u == MemEnd - UbootBase
  <1>1. y \in Nat /\ y < W /\ y % W = y /\ z \in Nat /\ z < W /\ z % W = z
    <2>1. y \in Nat /\ y < W /\ z \in Nat /\ z < W
      BY Numbers
    <2> HIDE DEF y, z
    <2> QED
      BY <2>1, Small
  <1>2. InRam(s)
    BY <1>1, Numbers DEF InRam
  <1>3. InMemory(load_addr, s)
    <2>1. load_addr + s <= W /\ MemBase + MemSize <= W /\ z + 1 <= W /\ z % W = z /\ z \in Nat
      BY <1>1, Numbers
    <2>2. AddrsOverlap(load_addr, s, MemBase, MemSize)
      BY <2>1, Overlap, Numbers
    <2>3. AddrsOverlap(MemBase, MemSize, z, 1)
      <3>1. MemBase < z + 1 /\ z < MemBase + MemSize
        BY Numbers
      <3> HIDE DEF z
      <3> QED
        BY <2>1, <3>1, Overlap, Numbers
    <2> QED
      BY <2>1, <2>2, <2>3 DEF InMemory
  <1>4. ~AddrsOverlap(load_addr, s, UbootBase, u)
    <2>1. u \in Nat \ {0} /\ UbootBase + u <= W /\ load_addr + s <= W /\ ~(UbootBase < load_addr + s)
      BY Numbers
    <2> HIDE DEF u
    <2> QED
      BY <2>1, Overlap, Numbers
  <1>5. OverlapChecks(used, load_addr, s, None, FALSE) = 0
    BY <1>4, OnlyUbootForbids
  <1>6. AddRegionFlags(used, load_addr, s, None, FALSE).ok
    BY Added
  <1>7. ReadCheck(s) = AddRegionFlags(used, load_addr, s, None, FALSE)
    BY <1>3, <1>5 DEF ReadCheck, AllocAddr, ReserveIn
  <1> QED
    BY <1>2, <1>6, <1>7

\* The memory map after lmb_init().
LEMMA InitialList == LmbInit => LmbList(used)
  <1> SUFFICES ASSUME LmbInit PROVE LmbList(used)
    OBVIOUS
  <1>1. used = <<Uboot>>
    BY DEF LmbInit, Uboot
  <1>2. used \in Seq(Regions) /\ Len(used) = 1 /\ used[1] = Uboot
    BY <1>1, UbootFields
  <1> HIDE DEF Uboot
  <1> QED
    BY <1>2 DEF LmbList

\* Every call keeps the list in order and U-Boot's region at its end.
LEMMA ListKept ==
  ASSUME OrdinaryCallers, LmbList(used), LmbNext
  PROVE  LmbList(used')
  <1>1. ASSUME NEW q \in Reservations, LmbReserve(q[1], q[2], q[3]) PROVE LmbList(used')
    <2>1. q[1] \in Nat /\ q[1] < W /\ q[2] \in Nat \ {0} /\ q[2] <= W - MemSize /\ q[3] = None
      BY Numbers DEF OrdinaryCallers
    <2>2. PICK full \in Full : used' = AllocAddr(used, q[1], q[2], q[3], full).list
      BY <1>1 DEF LmbReserve, Becomes
    <2> QED
      BY <2>1, <2>2, FullType, Reserved
  <1>2. ASSUME NEW q \in Allocations, LmbAlloc(q[1], q[2], q[3], q[4]) PROVE LmbList(used')
    <2>1. q[1] \in Nat \ {0} /\ q[2] \in Nat /\ q[3] \in Nat /\ q[4] = None
      BY DEF OrdinaryCallers
    <2>2. PICK full \in Full : used' = AllocBase(used, q[1], q[2], q[3], q[4], full).list
      BY <1>2 DEF LmbAlloc, Becomes
    <2> QED
      BY <2>1, <2>2, FullType, Allocated
  <1>3. ASSUME NEW q \in Releases, LmbFree(q[1], q[2]) PROVE LmbList(used')
    <2>1. q[1] \in Nat /\ q[1] < UbootBase /\ q[2] \in Nat \ {0} /\ q[1] + q[2] <= W
      BY Numbers DEF OrdinaryCallers
    <2>2. PICK full \in Full : used' = FreeIn(used, q[1], q[2], full).list
      BY <1>3 DEF LmbFree, Becomes
    <2> QED
      BY <2>1, <2>2, FullType, Freed
  <1> QED
    BY <1>1, <1>2, <1>3 DEF LmbNext

\* An upload is accepted below U-Boot or not at all.
LEMMA PrepareKeeps ==
  ASSUME OrdinaryCallers, RangeInv, NEW s \in Lengths, PrepareUpload(s)
  PROVE  RangeInv'
  <1>1. /\ s \in 1 .. W - 1 /\ s \in Nat \ {0} /\ load_addr \in 0 .. W - 1 /\ load_addr \in Nat
        /\ load_addr < W /\ load_addr' = load_addr
    BY Numbers DEF OrdinaryCallers, RangeInv, PrepareUpload
  <1>2. InRam(s) => /\ MemBase <= load_addr /\ LmbList(ReadCheck(s).list)
                    /\ ReadCheck(s).ok => load_addr + s <= UbootBase
    <2> SUFFICES ASSUME InRam(s)
                 PROVE  /\ MemBase <= load_addr /\ LmbList(ReadCheck(s).list)
                        /\ ReadCheck(s).ok => load_addr + s <= UbootBase
      OBVIOUS
    <2>1. MemBase <= load_addr /\ s <= W - MemSize
      BY <1>1, InRamBounds
    <2>2. LmbList(used)
      BY DEF RangeInv
    <2> QED
      BY <1>1, <2>1, <2>2, Reserved DEF ReadCheck
  <1>3. LmbList(used')
    <2>1. CASE InRam(s) /\ used' = ReadCheck(s).list
      BY <1>2, <2>1
    <2>2. CASE used' = used
      BY <2>2 DEF RangeInv
    <2> QED
      BY <2>1, <2>2 DEF PrepareUpload, Becomes, lmbVars
  <1>4. \/ content_length' = 0
        \/ content_length' = s /\ MemBase <= load_addr /\ load_addr + s <= UbootBase
    BY <1>2 DEF PrepareUpload
  <1>5. largest' = IF content_length' > largest THEN content_length' ELSE largest
    BY DEF PrepareUpload
  <1>6. largest \in Nat /\ (largest > 0 => MemBase <= load_addr /\ load_addr + largest <= UbootBase)
    BY DEF RangeInv
  <1>7. content_length' \in Nat /\ largest' \in Nat /\ content_length' <= largest'
    BY <1>1, <1>4, <1>5, <1>6
  <1>8. largest' > 0 => MemBase <= load_addr /\ load_addr + largest' <= UbootBase
    BY <1>1, <1>4, <1>5, <1>6
  <1> QED
    BY <1>1, <1>3, <1>7, <1>8 DEF RangeInv

\* With callers like these, whatever the size of the memory, of U-Boot and of
\* the uploads: the list of lib/lmb.c stays sorted, without overlaps and with
\* U-Boot's region untouched, and what a session has accepted ends below it.
THEOREM RangeInvariant == OrdinaryCallers => (RangeSpec => []RangeInv)
  <1> SUFFICES ASSUME OrdinaryCallers PROVE RangeSpec => []RangeInv
    OBVIOUS
  <1>1. RangeInit => RangeInv
    BY InitialList DEF RangeInit, RangeInv
  <1>2. RangeInv /\ [RangeNext]_uploadVars => RangeInv'
    <2> SUFFICES ASSUME RangeInv, [RangeNext]_uploadVars PROVE RangeInv'
      OBVIOUS
    <2>1. ASSUME NEW s \in Lengths, PrepareUpload(s) PROVE RangeInv'
      BY <2>1, PrepareKeeps
    <2>2. CASE StartServer
      BY <2>2, Numbers DEF StartServer, RangeInv, LmbList, lmbVars
    <2>3. CASE OtherUse
      <3>1. LmbList(used')
        BY <2>3, ListKept DEF OtherUse, RangeInv
      <3>2. load_addr' = load_addr /\ content_length' = content_length /\ largest' = largest
        BY <2>3 DEF OtherUse
      <3> QED
        BY <3>1, <3>2 DEF RangeInv
    <2>4. CASE UNCHANGED uploadVars
      BY <2>4 DEF uploadVars, lmbVars, RangeInv, LmbList
    <2> QED
      BY <2>1, <2>2, <2>3, <2>4 DEF RangeNext
  <1> QED
    BY <1>1, <1>2, PTL DEF RangeSpec

\* An accepted upload lies in memory and below U-Boot, whatever was reserved.
THEOREM UploadInsideAlways == OrdinaryCallers => (RangeSpec => []UploadInside)
  <1> SUFFICES ASSUME OrdinaryCallers PROVE RangeSpec => []UploadInside
    OBVIOUS
  <1>1. RangeInv => UploadInside
    <2> SUFFICES ASSUME RangeInv, content_length > 0
                 PROVE  MemBase <= load_addr /\ load_addr + content_length <= UbootBase
      BY DEF UploadInside
    <2>1. load_addr \in Nat
      BY Numbers DEF RangeInv, OrdinaryCallers
    <2> QED
      BY <2>1, Numbers DEF RangeInv
  <1> QED
    BY <1>1, RangeInvariant, PTL

\* An upload no longer than one accepted before in the session is accepted.
THEOREM StaysPossibleAlways == OrdinaryCallers => (RangeSpec => StaysPossible)
  <1> SUFFICES ASSUME OrdinaryCallers PROVE RangeSpec => StaysPossible
    OBVIOUS
  <1>1. RangeInv /\ [RangeNext]_uploadVars =>
          [\A s \in Lengths : s <= largest => (PrepareUpload(s) => content_length' = s)]_uploadVars
    <2> SUFFICES ASSUME RangeInv, NEW s \in Lengths, s <= largest, PrepareUpload(s)
                 PROVE  content_length' = s
      OBVIOUS
    <2>1. s \in Nat \ {0} /\ load_addr \in Nat
      BY Numbers DEF OrdinaryCallers, RangeInv
    <2>2. LmbList(used) /\ MemBase <= load_addr /\ load_addr + s <= UbootBase
      BY <2>1, Numbers DEF RangeInv
    <2>3. InRam(s) /\ ReadCheck(s).ok
      BY <2>1, <2>2, Accepted
    <2> QED
      BY <2>3 DEF PrepareUpload
  <1> QED
    BY <1>1, RangeInvariant, PTL DEF RangeSpec, StaysPossible

-----------------------------------------------------------------------------
(* Queries.                                                                 *)

\* An address is free if no region has it.
LEMMA OwnerFree ==
  ASSUME LmbList(used), NEW x \in Nat
  PROVE  Owner(x) = Free <=> \A j \in 1 .. Len(used) : ~(used[j].base <= x /\ x < End(used[j]))
  <1> DEFINE Has(r) == r.base <= x /\ x < End(r)
             I == {j \in 1 .. Len(used) : Has(used[j])}
             i == FirstOf(I)
  <1>1. Owner(x) = IF i = 0 THEN Free ELSE used[i].flags
    BY DEF Owner, SelectInSeq, FirstOf
  <1>2. \A j \in 1 .. Len(used) : j \in I <=> Has(used[j])
    OBVIOUS
  <1>3. I \subseteq 1 .. Len(used) /\ Len(used) \in Nat
    BY ListFacts
  <1> HIDE DEF I
  <1>4. (i = 0 /\ I = {}) \/ (i \in 1 .. Len(used) /\ i # 0 /\ i \in I)
    BY <1>3, FirstIndex
  <1> HIDE DEF i, Has
  <1>5. CASE i = 0 /\ I = {}
    BY <1>1, <1>2, <1>5 DEF Has
  <1>6. CASE i \in 1 .. Len(used) /\ i # 0 /\ i \in I
    <2>1. used[i].flags # Free
      BY <1>6, ListFacts, LmbAssumption
    <2>2. Has(used[i])
      BY <1>2, <1>6
    <2> QED
      BY <1>1, <1>6, <2>1, <2>2 DEF Has
  <1> QED
    BY <1>4, <1>5, <1>6

\* What lmb_get_free_size() looks for.
LEMMA FreeSize ==
  ASSUME LmbList(used), NEW a \in MemBase .. MemEnd - 1
  PROVE  \E i \in 1 .. Len(used) :
           /\ \A j \in 1 .. i - 1 : End(used[j]) <= a
           /\ \/ a < used[i].base /\ GetFreeSize(a) = used[i].base - a
              \/ used[i].base <= a /\ a < End(used[i]) /\ GetFreeSize(a) = 0
  <1> DEFINE Behind(r) == a < r.base \/ End(r) > a
             I == {j \in 1 .. Len(used) : Behind(used[j])}
             i == FirstOf(I)
  <1>1. a \in Nat /\ MemBase <= a /\ a < MemEnd
    BY Numbers
  <1>2. AddrsOverlap(a, 1, MemBase, MemSize)
    BY <1>1, Overlap, Numbers
  <1>3. GetFreeSize(a) = IF i = 0 THEN MemEnd - a
                         ELSE IF a < used[i].base THEN used[i].base - a ELSE 0
    BY <1>2 DEF GetFreeSize, SelectInSeq, FirstOf
  <1>4. \A j \in 1 .. Len(used) : j \in I <=> Behind(used[j])
    OBVIOUS
  <1>5. I \subseteq 1 .. Len(used) /\ Len(used) \in Nat \ {0} /\ Len(used) \in 1 .. Len(used)
    BY ListFacts
  <1>6. Len(used) \in I
    <2>1. End(used[Len(used)]) = MemEnd
      BY ListFacts, UbootFields
    <2> QED
      BY <1>1, <1>5, <2>1, Numbers
  <1> HIDE DEF I
  <1>7. i \in 1 .. Len(used) /\ i # 0 /\ i \in I /\ \A j \in 1 .. i - 1 : j \notin I
    BY <1>5, <1>6, FirstIndex
  <1> HIDE DEF i
  <1>8. ASSUME NEW j \in 1 .. i - 1 PROVE End(used[j]) <= a
    <2>1. j \in 1 .. Len(used)
      BY <1>5, <1>7
    <2>2. ~Behind(used[j]) /\ End(used[j]) \in Nat
      BY <1>4, <1>7, <1>8, <2>1, ListFacts
    <2> QED
      BY <1>1, <2>2
  <1>9. used[i].base \in Nat /\ End(used[i]) \in Nat /\ Behind(used[i])
    BY <1>4, <1>7, ListFacts
  <1>10. \/ a < used[i].base /\ GetFreeSize(a) = used[i].base - a
         \/ used[i].base <= a /\ a < End(used[i]) /\ GetFreeSize(a) = 0
    BY <1>1, <1>3, <1>7, <1>9
  <1> QED
    BY <1>7, <1>8, <1>10

\* lmb_get_free_size() is exact.
THEOREM FreeSizeExactAlways == OrdinaryCallers => (RangeSpec => []FreeSizeExact)
  <1> SUFFICES ASSUME OrdinaryCallers PROVE RangeSpec => []FreeSizeExact
    OBVIOUS
  <1>1. RangeInv => FreeSizeExact
    <2> SUFFICES ASSUME RangeInv, NEW a \in MemBase .. MemEnd - 1
                 PROVE  /\ \A x \in a .. a + GetFreeSize(a) - 1 : Owner(x) = Free
                        /\ a + GetFreeSize(a) < MemEnd => Owner(a + GetFreeSize(a)) # Free
      BY DEF FreeSizeExact
    <2>1. LmbList(used)
      BY DEF RangeInv
    <2>2. a \in Nat
      BY Numbers
    <2>3. PICK i \in 1 .. Len(used) :
            /\ \A j \in 1 .. i - 1 : End(used[j]) <= a
            /\ \/ a < used[i].base /\ GetFreeSize(a) = used[i].base - a
               \/ used[i].base <= a /\ a < End(used[i]) /\ GetFreeSize(a) = 0
      BY <2>1, FreeSize
    <2>4. \A j \in 1 .. Len(used) :
            /\ used[j].base \in Nat /\ End(used[j]) \in Nat /\ used[j].base < End(used[j])
            /\ j < i \/ used[i].base <= used[j].base
      <3> TAKE j \in 1 .. Len(used)
      <3>1. /\ used[j].base \in Nat /\ used[j].size \in Nat \ {0} /\ End(used[j]) \in Nat
            /\ End(used[j]) = used[j].base + used[j].size
            /\ used[i].base \in Nat /\ used[i].size \in Nat \ {0} /\ End(used[i]) \in Nat
            /\ End(used[i]) = used[i].base + used[i].size
            /\ i < j => End(used[i]) <= used[j].base
        BY <2>1, ListFacts
      <3>2. j < i \/ j = i \/ i < j
        BY <2>1, ListFacts
      <3> QED
        BY <3>1, <3>2
    <2>5. CASE a < used[i].base /\ GetFreeSize(a) = used[i].base - a
      <3>1. used[i].base \in Nat /\ a + GetFreeSize(a) = used[i].base /\ used[i].base < End(used[i])
        BY <2>2, <2>4, <2>5
      <3>2. ASSUME NEW x \in a .. used[i].base - 1 PROVE Owner(x) = Free
        <4>1. x \in Nat /\ a <= x /\ x < used[i].base
          BY <2>2, <3>1
        <4>2. ASSUME NEW j \in 1 .. Len(used) PROVE ~(used[j].base <= x /\ x < End(used[j]))
          <5>1. CASE j < i
            <6>1. j \in 1 .. i - 1
              BY <2>1, <5>1, ListFacts
            <6>2. End(used[j]) <= a /\ End(used[j]) \in Nat
              BY <2>3, <2>4, <6>1
            <6> QED
              BY <2>2, <4>1, <6>2
          <5>2. CASE used[i].base <= used[j].base
            BY <2>4, <3>1, <4>1, <5>2
          <5> QED
            BY <2>4, <5>1, <5>2
        <4> QED
          BY <2>1, <4>1, <4>2, OwnerFree
      <3>3. Owner(used[i].base) # Free
        BY <2>1, <3>1, OwnerFree
      <3>4. Owner(a + GetFreeSize(a)) # Free
        BY <3>1, <3>3, Zenon
      <3>5. ASSUME NEW x \in a .. a + GetFreeSize(a) - 1 PROVE Owner(x) = Free
        <4>1. x \in a .. used[i].base - 1
          BY <2>2, <2>5, <3>1
        <4> QED
          BY <3>2, <4>1
      <3> QED
        BY <3>4, <3>5
    <2>6. CASE used[i].base <= a /\ a < End(used[i]) /\ GetFreeSize(a) = 0
      <3>1. a + GetFreeSize(a) = a
        BY <2>2, <2>6
      <3>2. Owner(a) # Free
        BY <2>1, <2>2, <2>6, OwnerFree
      <3>3. Owner(a + GetFreeSize(a)) # Free
        BY <3>1, <3>2, Zenon
      <3>4. ASSUME NEW x \in a .. a + GetFreeSize(a) - 1 PROVE Owner(x) = Free
        <4>1. x \in a .. a - 1
          BY <2>2, <2>6
        <4> QED
          BY <2>2, <4>1
      <3> QED
        BY <3>3, <3>4
    <2> QED
      BY <2>3, <2>5, <2>6
  <1> QED
    BY <1>1, RangeInvariant, PTL
=============================================================================
