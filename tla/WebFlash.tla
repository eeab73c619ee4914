------------------------------ MODULE WebFlash ------------------------------
(***************************************************************************)
(* The recovery server of cmd/lwip/webflash.c: one HTTP client at a time,  *)
(* uploads into RAM, confirmation phrases, the flash job of FlashJob, the  *)
(* environment, the RAM boot and the reboot timers of the main loop.       *)
(*                                                                         *)
(* The TCP layer is abstracted to what it can do to the server's state:    *)
(* the callbacks do not ask which connection they are called for, so data, *)
(* an end of stream, an error or a timeout may come at any time, from the  *)
(* current client or from an earlier connection.  Timers are abstracted to *)
(* the order of events they allow: a pending reboot or RAM boot happens at *)
(* some later turn of the loop.                                            *)
(***************************************************************************)
EXTENDS FlashJob

CONSTANTS
  UploadTargets,     \* the /api/upload/... targets clients use
  UploadData,        \* the units clients upload
  ChunkSizes,        \* sizes of the pieces in which TCP delivers a body
  Accepts(_, _),     \* webflash_validate_upload(): target, content |-> BOOLEAN
  KindOf(_)          \* webflash_validate_firmware(): content |-> image kind

Kinds == {"openwrt", "openwrt-other", "foreign"}

ASSUME TargetsAssumption == UploadTargets \subseteq Targets
ASSUME ChunkAssumption == ChunkSizes \subseteq Nat \ {0}
ASSUME UploadAssumption ==
  UploadData \subseteq Byte /\ RamImages = [0 .. FirmwareSize - 1 -> UploadData]
ASSUME VerdictAssumption ==
  \A n \in 1 .. FirmwareSize : \A c \in [0 .. n - 1 -> UploadData] :
    KindOf(c) \in Kinds /\ \A p \in Targets : Accepts(p, c) \in BOOLEAN

VARIABLES
  client,           \* ctx->client != NULL
  rx_state,         \* ctx->rx_state
  upload_part,      \* ctx->upload_part
  content_length,   \* ctx->content_length of an upload
  upload_size,      \* ctx->upload_size
  completed_size,   \* ctx->completed_size
  upload_crc,       \* ctx->upload_crc
  upload_valid,     \* ctx->upload_valid
  image_kind,       \* ctx->image_kind
  boot_pending,     \* ctx->boot_pending
  confirmed,        \* history: the phrase that started the current job
  failed            \* history: a job has failed since the last one succeeded

connVars   == <<client, rx_state>>
uploadVars == <<upload_part, content_length, upload_size, completed_size,
                upload_crc, upload_valid, image_kind>>
webVars    == <<jobVars, connVars, uploadVars, boot_pending, confirmed, failed>>

-----------------------------------------------------------------------------
(* Replies. tcp_write() of the header may fail, which aborts the client     *)
(* before the request is marked as answered; a later failure aborts it      *)
(* after that. An abort during an upload invalidates the upload.            *)

ReplySent == rx_state' = "replied" /\ client' \in BOOLEAN
ReplyLost == client' = FALSE /\ UNCHANGED rx_state
Reply     == ReplySent \/ ReplyLost

\* webflash_abort_client() and webflash_tcp_error()
AbortClient ==
  /\ client' = FALSE
  /\ upload_valid' = (upload_valid /\ ~(client /\ rx_state = "upload"))
  /\ UNCHANGED rx_state

\* A reply that changes nothing else: every refusal and every plain GET.
JustReply == Reply /\ UNCHANGED <<jobVars, uploadVars, boot_pending, confirmed, failed>>

\* A complete request header has arrived.
Request == client /\ rx_state = "headers"

\* Mutant of OperationBlocked: one of the two timers is forgotten.
BlockedButReboot == JobActive \/ boot_pending

\* webflash_operation_blocked()
OperationBlocked == JobActive \/ reboot_pending \/ boot_pending

\* Mutant of ExpectedConfirmation: the factory partition has no phrase of its own.
ConfirmationButFactory ==
  CASE upload_part = "eeprom"      -> "WRITE-EEPROM"
    [] upload_part = "uboot"       -> "RESTORE-UBOOT"
    [] upload_part = "environment" -> "RESTORE-ENVIRONMENT"
    [] OTHER                       -> "FLASH-FIRMWARE"

\* webflash_expected_confirmation()
ExpectedConfirmation ==
  CASE upload_part = "eeprom"      -> "WRITE-EEPROM"
    [] upload_part = "uboot"       -> "RESTORE-UBOOT"
    [] upload_part = "factory"     -> "RESTORE-FACTORY"
    [] upload_part = "environment" -> "RESTORE-ENVIRONMENT"
    [] upload_part = "firmware" /\ image_kind = "openwrt-other" -> "FLASH-OPENWRT-OTHER"
    [] upload_part = "firmware" /\ image_kind = "foreign"       -> "FLASH-FOREIGN"
    [] OTHER -> "FLASH-FIRMWARE"

Phrases == {"WRITE-EEPROM", "RESTORE-UBOOT", "RESTORE-FACTORY",
            "RESTORE-ENVIRONMENT", "FLASH-OPENWRT-OTHER", "FLASH-FOREIGN",
            "FLASH-FIRMWARE", "ERASE-SETTINGS", "RESET-ENVIRONMENT"}

-----------------------------------------------------------------------------
(* The request handlers of webflash_handle_headers().                       *)

\* GET /, /api/info, /api/eeprom, /api/job, /api/env, /api/backup/..., and 404.
Query == Request /\ JustReply

\* Mutant of ForgetUpload: the verdict on the previous upload stays.
KeepUpload == UNCHANGED <<completed_size, upload_valid>>

\* A new upload begins by forgetting the result of the previous one.
ForgetUpload == completed_size' = 0 /\ upload_valid' = FALSE

\* POST /api/upload/<p> with Content-Length n; 0 stands for a missing one.
\* Whether webflash_range_valid() finds the RAM free is left open.
PrepareUpload(p, n) ==
  /\ Request
  /\ \/ JustReply
     \/ /\ ~OperationBlocked /\ SizeAccepted(p, n)
        /\ rx_state' = "upload"
        /\ job' = NoJob
        /\ upload_part' = p
        /\ image_kind' = "foreign"
        /\ content_length' = n
        /\ upload_size' = 0
        /\ ForgetUpload
        /\ UNCHANGED <<client, upload_crc, flash, ram, factory_buf,
                       reboot_pending, before, boot_pending, confirmed, failed>>

\* POST /api/flash, with the phrase and X-Keep-Config of the request.
PostFlash(phrase, keep) ==
  /\ Request
  /\ IF \/ OperationBlocked
        \/ upload_part = "none" \/ ~upload_valid \/ completed_size = 0
        \/ phrase # ExpectedConfirmation
     THEN JustReply
     ELSE /\ Reply
          /\ StartFlashJob(upload_part, completed_size, keep, upload_crc)
          /\ confirmed' = phrase
          /\ UNCHANGED <<uploadVars, boot_pending, failed>>

\* POST /api/flash when reading the factory partition for the EEPROM fails.
PostFlashReadError(phrase) ==
  /\ Request
  /\ ~OperationBlocked
  /\ upload_part = "eeprom" /\ upload_valid /\ completed_size # 0
  /\ phrase = ExpectedConfirmation
  /\ Reply
  /\ ResetJob
  /\ UNCHANGED <<uploadVars, boot_pending, confirmed, failed>>

\* POST /api/factory-reset; webflash_find_overlay() finds overlay, or finds none
\* (or fails to read).
FactoryReset(phrase, found, overlay) ==
  /\ Request
  /\ IF OperationBlocked \/ phrase # "ERASE-SETTINGS" \/ ~found
     THEN JustReply
     ELSE /\ Reply
          /\ StartEraseSettings(overlay)
          /\ confirmed' = phrase
          /\ UNCHANGED <<uploadVars, boot_pending, failed>>

\* Mutant of RamImageReady: any RAM upload will do, valid or not.
RamImageUploaded == upload_part = "ram"

RamImageReady == upload_valid /\ upload_part = "ram"

\* POST /api/boot-ram
BootRam ==
  /\ Request
  /\ IF OperationBlocked \/ ~RamImageReady
     THEN JustReply
     ELSE /\ Reply
          /\ boot_pending' = TRUE
          /\ UNCHANGED <<jobVars, uploadVars, confirmed, failed>>

\* Mutant of RebootRefused: a failed job does not block the reboot.
RebootRefusedActive == JobActive

RebootRefused == JobActive \/ job.phase = "error"

\* POST /api/reboot
Reboot ==
  /\ Request
  /\ IF RebootRefused
     THEN JustReply
     ELSE /\ Reply
          /\ reboot_pending' = TRUE
          /\ UNCHANGED <<flash, ram, factory_buf, job, before, uploadVars,
                         boot_pending, confirmed, failed>>

\* POST /api/env/reset
EnvReset(phrase) ==
  /\ Request
  /\ IF OperationBlocked \/ phrase # "RESET-ENVIRONMENT"
     THEN JustReply
     ELSE Reply /\ EnvSaved /\ UNCHANGED <<uploadVars, boot_pending, confirmed, failed>>

\* POST /api/env: the body follows.
PrepareBody ==
  /\ Request
  /\ IF OperationBlocked
     THEN JustReply
     ELSE /\ rx_state' = "body"
          /\ UNCHANGED <<client, jobVars, uploadVars, boot_pending, confirmed, failed>>

-----------------------------------------------------------------------------
(* The bodies of requests.                                                  *)

Receiving(state) == client /\ rx_state = state

\* webflash_store_body(): the form is incomplete or rejected, or it is saved.
StoreBody ==
  /\ Receiving("body")
  /\ \/ JustReply
     \/ Reply /\ EnvSaved /\ UNCHANGED <<uploadVars, boot_pending, confirmed, failed>>

\* The upload buffer after a piece of n units of value v has been stored.
Stored(n, v) ==
  [i \in DOMAIN ram |-> IF upload_size <= i /\ i < upload_size + n THEN v ELSE ram[i]]

\* n more units do not complete the upload.
Incomplete(n) == upload_size + n < content_length

\* The reply to an upload that did not go through.
UploadFailed ==
  \/ ReplySent /\ UNCHANGED upload_valid
  \/ AbortClient

\* webflash_store_upload() with a piece that does not complete the upload.
StoreUpload(n, v) ==
  /\ Receiving("upload")
  /\ Incomplete(n)
  /\ ram' = Stored(n, v)
  /\ upload_size' = upload_size + n
  /\ UNCHANGED <<connVars, flash, factory_buf, job, reboot_pending, before,
                 upload_part, content_length, completed_size, upload_crc,
                 upload_valid, image_kind, boot_pending, confirmed, failed>>

\* webflash_store_upload() with a piece that goes beyond Content-Length.
OverflowUpload(n) ==
  /\ Receiving("upload")
  /\ upload_size + n > content_length
  /\ UploadFailed
  /\ UNCHANGED <<jobVars, upload_part, content_length, upload_size, completed_size,
                 upload_crc, image_kind, boot_pending, confirmed, failed>>

\* webflash_store_upload() with the last piece: the content is checked and
\* the client told, unless env_set_hex() fails before that. An abort while
\* the answer is being queued still finds the upload state.
FinishUpload(n, v) ==
  LET crc == Crc(Stored(n, v), content_length)
  IN  /\ Receiving("upload")
      /\ upload_size + n = content_length
      /\ ram' = Stored(n, v)
      /\ upload_size' = content_length
      /\ completed_size' = content_length
      /\ \/ UploadFailed /\ UNCHANGED <<upload_crc, image_kind>>
         \/ /\ upload_crc' = crc
            /\ image_kind' = IF upload_part = "firmware" THEN KindOf(crc) ELSE image_kind
            /\ \/ ReplySent /\ upload_valid' = Accepts(upload_part, crc)
               \/ AbortClient
      /\ UNCHANGED <<flash, factory_buf, job, reboot_pending, before, upload_part,
                     content_length, boot_pending, confirmed, failed>>

-----------------------------------------------------------------------------
(* Connections.                                                             *)

\* webflash_accept() with no client.
Accept ==
  /\ ~client
  /\ client' = TRUE
  /\ rx_state' = "headers"
  /\ upload_size' = 0
  /\ content_length' = 0
  /\ UNCHANGED <<jobVars, upload_part, completed_size, upload_crc, upload_valid,
                 image_kind, boot_pending, confirmed, failed>>

\* webflash_try_close_client() succeeded: the reply has been acknowledged, or
\* an end of stream was received.
CloseClient ==
  /\ client
  /\ client' = FALSE
  /\ UNCHANGED <<rx_state, jobVars, uploadVars, boot_pending, confirmed, failed>>

\* webflash_abort_client() or webflash_tcp_error(): a reset, an idle timeout.
LoseClient ==
  /\ client
  /\ AbortClient
  /\ UNCHANGED <<jobVars, upload_part, content_length, upload_size, completed_size,
                 upload_crc, image_kind, boot_pending, confirmed, failed>>

-----------------------------------------------------------------------------
(* The main loop of do_webflash().                                          *)

RunJob ==
  /\ JobStep
  /\ failed' = IF job'.phase = "error" THEN TRUE
               ELSE IF job'.phase = "done" THEN FALSE ELSE failed
  /\ UNCHANGED <<connVars, uploadVars, boot_pending, confirmed>>

\* The board starts the server afresh, after a reset, a power loss, a Ctrl-C
\* or a system booted from RAM: everything but the flash is gone. A Ctrl-C
\* leaves the loop even in the middle of a job.
StartServer ==
  /\ Restart
  /\ client' = FALSE /\ rx_state' = "headers"
  /\ upload_part' = "none" /\ content_length' = 0 /\ upload_size' = 0
  /\ completed_size' = 0 /\ upload_crc' = EmptyCrc /\ upload_valid' = FALSE
  /\ image_kind' = "openwrt" /\ boot_pending' = FALSE
  /\ confirmed' = "none" /\ failed' = FALSE

\* reset_cpu(), five seconds after the reboot was scheduled.
ResetCpu == reboot_pending /\ StartServer

\* A Ctrl-C on the console, or a loss of power.
Interrupted == StartServer

\* "bootm" of the RAM image, 1.5 seconds after the request: it does not come
\* back, or it fails and the server goes on.
BootNow ==
  /\ boot_pending
  /\ \/ StartServer
     \/ /\ boot_pending' = FALSE
        /\ AbortClient
        /\ UNCHANGED <<jobVars, upload_part, content_length, upload_size,
                       completed_size, upload_crc, image_kind, confirmed, failed>>

-----------------------------------------------------------------------------
Init ==
  /\ JobInit
  /\ client = FALSE /\ rx_state = "headers"
  /\ upload_part = "none" /\ content_length = 0 /\ upload_size = 0
  /\ completed_size = 0 /\ upload_crc = EmptyCrc /\ upload_valid = FALSE
  /\ image_kind = "openwrt" /\ boot_pending = FALSE
  /\ confirmed = "none" /\ failed = FALSE

StartJob ==
  \/ \E phrase \in Phrases, keep \in BOOLEAN : PostFlash(phrase, keep)
  \/ \E phrase \in Phrases, found \in BOOLEAN,
        overlay \in 0 .. FirmwareOffset + FirmwareSize - 1 :
        overlay % SectorSize = 0 /\ FactoryReset(phrase, found, overlay)

Upload ==
  \/ \E p \in UploadTargets, n \in 0 .. FirmwareSize + 1 : PrepareUpload(p, n)
  \/ \E n \in ChunkSizes, v \in UploadData :
        StoreUpload(n, v) \/ FinishUpload(n, v)
  \/ \E n \in ChunkSizes : OverflowUpload(n)

Other ==
  \/ Query \/ BootRam \/ Reboot \/ PrepareBody
  \/ \E phrase \in Phrases : PostFlashReadError(phrase)
  \/ Accept \/ CloseClient \/ LoseClient
  \/ RunJob \/ ResetCpu \/ Interrupted \/ BootNow

SaveEnv == StoreBody \/ \E phrase \in Phrases : EnvReset(phrase)

Next == StartJob \/ Upload \/ SaveEnv \/ Other

\* The main loop polls the network and steps the job on every turn; only
\* clients and the power supply owe nothing.
Spec == Init /\ [][Next]_webVars /\ WF_webVars(StepSucceeds /\ RunJob)
             /\ WF_webVars(ResetCpu) /\ WF_webVars(BootNow)

-----------------------------------------------------------------------------
(* What the server promises.                                                *)

TypeOK ==
  /\ JobTypeOK
  /\ client \in BOOLEAN
  /\ rx_state \in {"headers", "upload", "body", "replied"}
  /\ upload_part \in Targets \cup {"none"}
  /\ content_length \in 0 .. FirmwareSize /\ upload_size \in 0 .. FirmwareSize
  /\ completed_size \in 0 .. FirmwareSize
  /\ upload_crc \in Checksum /\ upload_valid \in BOOLEAN
  /\ image_kind \in Kinds /\ boot_pending \in BOOLEAN
  /\ confirmed \in Phrases \cup {"none"} /\ failed \in BOOLEAN

\* An upload that counts as valid is the one in the buffer: no later request,
\* abort or half-finished upload leaves upload_valid set over other content.
\* This is what the confirmation page, the flash job and the RAM boot rely on.
ValidatedImageInBuffer ==
  upload_valid =>
    /\ upload_part # "none"
    /\ SizeAccepted(upload_part, completed_size)
    /\ upload_crc = Crc(ram, completed_size)
    /\ Accepts(upload_part, upload_crc)
    /\ upload_part = "firmware" => image_kind = KindOf(upload_crc)

\* webflash_operation_blocked() keeps the activities apart although it is
\* only asked when a request arrives: while a body is being received nothing
\* else is going on, and a job excludes a reboot and a RAM boot.
ActivitiesExclusive ==
  /\ client /\ rx_state \in {"upload", "body"} =>
       ~JobActive /\ ~reboot_pending /\ ~boot_pending
  /\ JobActive => ~reboot_pending /\ ~boot_pending

\* The image a scheduled RAM boot will start is a valid RAM image, still in
\* the buffer when "bootm" runs.
BootsValidatedImage ==
  boot_pending => upload_valid /\ upload_part = "ram" /\ Accepts("ram", Crc(ram, completed_size))

\* When a job reports success, the flash holds an image that
\* webflash_validate_upload() accepted for that very partition.
DoneImageAccepted ==
  job.phase = "done" /\ job.mode = "flash" /\ job.buf = "ram" =>
    Accepts(job.part, [i \in 0 .. job.write_size - 1 |-> flash[Offset(job.part) + i]])

\* The phrases that allow a protected partition to be rewritten.
PhrasesFor(p) ==
  CASE p = "uboot"       -> {"RESTORE-UBOOT"}
    [] p = "environment" -> {"RESTORE-ENVIRONMENT"}
    [] p = "factory"     -> {"RESTORE-FACTORY", "WRITE-EEPROM"}

\* webflash.c:5: "Normal recovery can only update the OpenWrt firmware
\* partition. Raw U-Boot, environment and factory/calibration restores require
\* [...] a target-specific confirmation phrase."
ProtectedNeedsPhrase ==
  JobActive =>
    \A p \in {"uboot", "environment", "factory"} :
      JobRange \cap Area(p) # {} => confirmed \in PhrasesFor(p)

\* The overlay a settings reset erases from lies in the firmware partition. The
\* code takes this for granted: webflash_find_overlay() gives such a one unless
\* its 64-bit sum wraps (OverlayInFirmware and ResetKeepsCalibration, in the
\* modules OverlaySearch and Settings).
OverlayBehindFirmware == job.mode = "erase_settings" => job.erase_offset > FirmwareOffset

\* The same for jobs that have a place in flash: the request that restores a
\* partition, also through the EEPROM's target, needs that partition's phrase,
\* however uploads, requests and jobs follow one another. Two kinds of job are
\* excepted because the code does not keep the promise for them: flashing what
\* was uploaded for a RAM boot (ProtectedNeedsPhrase is refuted by it), and a
\* settings reset from an overlay below the firmware.
RestoreNeedsPhrase ==
  job.part # "ram" /\ OverlayBehindFirmware => ProtectedNeedsPhrase

\* webflash.c:1658: "reboot blocked after failed flash": no reboot is pending
\* while the last job left the flash half written.
RebootBlockedAfterFailure == reboot_pending => ~failed

\* mydoc/webflash.md:136: the page only accepts sysupgrade images with the
\* fwtool metadata of this device; nothing else is written as firmware.
FirmwareIsForThisDevice ==
  JobActive /\ job.mode = "flash" /\ job.part = "firmware" =>
    KindOf(job.source_crc) = "openwrt"

\* A job that was started ends in an error the status page shows, or the board
\* comes up again: the server never hangs in "done" or in a phase.
JobLeadsToRestart == JobActive ~> (job.phase = "error" \/ job = NoJob)

-----------------------------------------------------------------------------
(* The inductive invariant. What is in the buffer is what was validated     *)
(* only because an upload under way has taken the verdict back, and because *)
(* a pending boot keeps further uploads out.                                *)

\* An upload under way has a target, an accepted size, and no verdict yet.
UploadUnderWay ==
  client /\ rx_state = "upload" =>
    /\ upload_part # "none" /\ SizeAccepted(upload_part, content_length)
    /\ upload_size < content_length /\ ~upload_valid

ServerInv ==
  /\ TypeOK /\ ram \in RamImages
  /\ UploadUnderWay /\ ValidatedImageInBuffer
  /\ ActivitiesExclusive /\ BootsValidatedImage
=============================================================================
