----------------------------- MODULE UploadCheck -----------------------------
(***************************************************************************)
(* webflash_validate_upload() of cmd/lwip/webflash.c: what an upload that  *)
(* has arrived completely is taken for.  The buffer keeps what earlier     *)
(* uploads, finished or broken off, left behind the end of the new one.    *)
(*                                                                         *)
(* A unit of the buffer is a record with a field "kind": a legacy image    *)
(* header, the trailer of an fwtool record, the header of OpenWrt          *)
(* metadata, its JSON text, the mark of a U-Boot or of an EEPROM, or other *)
(* data.  A checksum is the sequence of the units it is taken of.          *)
(***************************************************************************)
EXTENDS Integers, Sequences

CONSTANTS
  Blank,         \* a unit of other data
  BufferSize,    \* units of memory at load_addr
  EnvUnits,      \* CONFIG_ENV_SIZE; the partition may be larger
  Uploads,       \* target -> the uploads that may be sent to it
  MaxUploads     \* bound on the number of uploads

Targets == {"firmware", "eeprom", "ram", "environment", "uboot", "factory"}

\* The fields that the kind of a unit promises.
IsUnit(x) ==
  /\ x.kind = "header" => x.data_size \in Nat
  /\ x.kind = "trailer" => x.record_size \in Nat
  /\ x.kind = "fwheader" => x = [kind |-> "fwheader", version |-> x.version]
  /\ x.kind = "json" => x = [kind |-> "json", ours |-> x.ours] /\ x.ours \in BOOLEAN

ASSUME UploadsAssumption ==
  /\ BufferSize \in Nat /\ EnvUnits \in Nat /\ Blank.kind = "data"
  /\ DOMAIN Uploads \subseteq Targets
  /\ \A t \in DOMAIN Uploads : \A u \in Uploads[t] :
       /\ u \in Seq({u[i] : i \in DOMAIN u}) /\ Len(u) \in 1 .. BufferSize
       /\ \A i \in 1 .. Len(u) : IsUnit(u[i])

VARIABLES
  buf,           \* the memory at load_addr
  target,        \* ctx->upload_part
  size,          \* ctx->completed_size
  upload_valid,  \* ctx->upload_valid
  image_kind,    \* ctx->image_kind
  body,          \* history: the upload itself
  count          \* uploads so far

checkVars == <<buf, target, size, upload_valid, image_kind, body, count>>

-----------------------------------------------------------------------------
(* Legacy images: boot/image.c. A unit of kind "header" has the right magic  *)
(* and the right checksum of its own.                                        *)

IsKernel(b) == b[1].kind = "header" /\ b[1].mips_linux_kernel

\* image_get_image_size(), with the header's own unit
ImageSize(b) == b[1].data_size + 1

\* image_check_dcrc(); it reads as many units as the header says.
DataCrcRight(b) ==
  ImageSize(b) <= BufferSize /\ b[1].data_crc = SubSeq(b, 2, ImageSize(b))

-----------------------------------------------------------------------------
(* webflash_validate_fwtool().                                              *)

\* The record that ends at c, an info record: its version, then the devices.
InfoVerdict(b, c) ==
  LET start == c - b[c].record_size
  IN  IF b[c].record_size - 1 <= 1 THEN "einval"
      ELSE IF b[start + 1].kind # "fwheader" \/ b[start + 1].version # 0 THEN "eprotonosupport"
      ELSE IF \E j \in start + 2 .. c - 1 : b[j].kind = "json" /\ b[j].ours THEN "ok"
      ELSE "enodev"

\* An iteration of the loop, with the cursor at c; next is the verdict of the
\* iterations after it.
Iteration(b, c, next) ==
  IF c = 0 \/ b[c].kind # "trailer" THEN "enoent"
  ELSE IF b[c].record_size < 1 \/ b[c].record_size > c THEN "einval"
  ELSE IF b[c].crc # SubSeq(b, 1, c - 1) THEN "ebadmsg"
  ELSE IF b[c].type = "info" THEN InfoVerdict(b, c)
  ELSE next

\* The last two of the three iterations.
LastIteration(b, c)   == Iteration(b, c, "enoent")
SecondIteration(b, c) == Iteration(b, c, LastIteration(b, c - b[c].record_size))

\* Mutant of FwtoolVerdict: two signatures hide the metadata.
FwtoolVerdictTwo(b, n) == Iteration(b, n, LastIteration(b, n - b[n].record_size))

\* The verdict on the first n units, going back over at most three records.
FwtoolVerdict(b, n) == Iteration(b, n, SecondIteration(b, n - b[n].record_size))

-----------------------------------------------------------------------------
(* The verdict on an upload of n units for a target.                        *)

\* Mutant of UimageComplete: the size in the header is not checked.
UimageCompleteUnchecked(b, n) == IsKernel(b) /\ DataCrcRight(b)

\* The tests of webflash_validate_firmware() before it looks for metadata.
UimageComplete(b, n) == IsKernel(b) /\ ImageSize(b) <= n /\ DataCrcRight(b)

\* webflash_validate_firmware(): any image is accepted, and classified.
FirmwareKind(b, n) ==
  IF ~UimageComplete(b, n) \/ FwtoolVerdict(b, n) = "enoent" THEN "foreign"
  ELSE IF FwtoolVerdict(b, n) = "ok" THEN "openwrt"
  ELSE "openwrt_other"

\* webflash_buffer_uniform()
Uniform(b, n) == \A i \in 2 .. n : b[i] = b[1]

\* webflash_validate_upload(). The sizes of the raw targets have been checked
\* when the upload began.
Valid(t, b, n) ==
  CASE t = "eeprom"      -> b[1].kind = "eeprom" /\ ~Uniform(b, n)
    [] t = "ram"         -> IsKernel(b) /\ DataCrcRight(b)
    [] t = "firmware"    -> TRUE
    [] t = "environment" -> n >= EnvUnits /\ b[1].kind = "envcrc" /\ b[1].crc = SubSeq(b, 2, EnvUnits)
    [] t = "uboot"       -> ~Uniform(b, n) /\ b[2].kind = "mt7621"
    [] t = "factory"     -> ~Uniform(b, n)

Kind(t, b, n) == IF t = "firmware" THEN FirmwareKind(b, n) ELSE "foreign"

-----------------------------------------------------------------------------
\* The first k units of u arrive.
Stored(u, k) == [i \in 1 .. BufferSize |-> IF i <= k THEN u[i] ELSE buf[i]]

\* webflash_prepare_upload() up to webflash_validate_upload(), without a break.
Upload(t, u) ==
  /\ count < MaxUploads /\ count' = count + 1
  /\ buf' = Stored(u, Len(u))
  /\ target' = t /\ size' = Len(u) /\ body' = u
  /\ upload_valid' = Valid(t, buf', Len(u))
  /\ image_kind' = Kind(t, buf', Len(u))

\* The connection breaks after k units.
BreakOff(t, u, k) ==
  /\ count < MaxUploads /\ count' = count + 1
  /\ k < Len(u)
  /\ buf' = Stored(u, k)
  /\ target' = t /\ size' = 0 /\ body' = <<>>
  /\ upload_valid' = FALSE
  /\ image_kind' = "foreign"

CheckInit ==
  /\ buf = [i \in 1 .. BufferSize |-> Blank]
  /\ target = "none" /\ size = 0
  /\ upload_valid = FALSE /\ image_kind = "openwrt"
  /\ body = <<>> /\ count = 0

CheckNext ==
  \E t \in DOMAIN Uploads : \E u \in Uploads[t] :
    Upload(t, u) \/ \E k \in 0 .. BufferSize - 1 : BreakOff(t, u, k)

CheckSpec == CheckInit /\ [][CheckNext]_checkVars

-----------------------------------------------------------------------------
\* A record of n units, its trailer the last of them, that ends u[1 .. c].
Sealed(u, c) ==
  /\ u[c].kind = "trailer"
  /\ u[c].record_size \in 1 .. c
  /\ u[c].crc = SubSeq(u, 1, c - 1)

\* What makes an image one for this device: a complete kernel image at its
\* start, and at its end a chain of sealed records, the metadata first and then
\* at most two others.
ForThisDevice(u) ==
  /\ u[1].kind = "header" /\ u[1].mips_linux_kernel
  /\ u[1].data_size < Len(u)
  /\ u[1].data_crc = SubSeq(u, 2, u[1].data_size + 1)
  /\ \E n \in 1 .. 3 : \E ends \in [1 .. n -> 1 .. Len(u)] :
       /\ ends[1] = Len(u)
       /\ \A i \in 1 .. n : Sealed(u, ends[i])
       /\ \A i \in 1 .. n - 1 :
            u[ends[i]].type # "info" /\ ends[i + 1] = ends[i] - u[ends[i]].record_size
       /\ LET c == ends[n]  r == u[c].record_size
          IN  /\ u[c].type = "info" /\ r > 2
              /\ u[c - r + 1] = [kind |-> "fwheader", version |-> 0]
              /\ \E j \in c - r + 2 .. c - 1 : u[j] = [kind |-> "json", ours |-> TRUE]

\* The class that decides whether the page warns, and which phrase it asks for:
\* "openwrt" exactly for images for this device, wherever the signatures, the
\* truncations and the leftovers lie.
KindRight ==
  target = "firmware" /\ size > 0 => (image_kind = "openwrt" <=> ForThisDevice(body))

\* The verdict is about the upload: it does not depend on what earlier uploads
\* have left behind its end.
VerdictFromUpload ==
  size > 0 =>
    LET alone == [i \in 1 .. BufferSize |-> IF i <= size THEN body[i] ELSE Blank]
    IN  /\ upload_valid = Valid(target, alone, size)
        /\ image_kind = Kind(target, alone, size)
=============================================================================
