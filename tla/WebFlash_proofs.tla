-------------------------- MODULE WebFlash_proofs --------------------------
(***************************************************************************)
(* Proofs about WebFlash: the server uses the flash only as FlashJob       *)
(* allows, and the invariants that make this so, for every layout, every   *)
(* verdict of the image checks and every way TCP cuts an upload to pieces. *)
(***************************************************************************)
EXTENDS WebFlash, FlashJob_proofs

\* The variables the job does not know, in two parts which different provers
\* deal with.
WebData ==
  /\ rx_state \in {"headers", "upload", "body", "replied"}
  /\ upload_part \in Targets \cup {"none"}
  /\ content_length \in 0 .. FirmwareSize /\ upload_size \in 0 .. FirmwareSize
  /\ completed_size \in 0 .. FirmwareSize
  /\ upload_crc \in Checksum /\ image_kind \in Kinds
  /\ confirmed \in Phrases \cup {"none"}
  /\ ram \in RamImages

WebFlags ==
  client \in BOOLEAN /\ upload_valid \in BOOLEAN /\ boot_pending \in BOOLEAN
  /\ failed \in BOOLEAN

\* The part of BootsValidatedImage that does not follow from the verdict.
BootImage == boot_pending => upload_valid /\ upload_part = "ram"

\* The server's part of the invariant.
WebInv ==
  /\ WebData /\ WebFlags
  /\ UploadUnderWay /\ ValidatedImageInBuffer /\ ActivitiesExclusive /\ BootImage

\* The invariant of the server follows from its part and the job's.
LEMMA ServerParts ==
  ASSUME JobInv, WebInv
  PROVE  ServerInv
  <1>1. TypeOK
    BY DEF JobInv, WebInv, WebData, WebFlags, TypeOK
  <1>2. BootsValidatedImage
    BY DEF WebInv, BootImage, BootsValidatedImage, ValidatedImageInBuffer
  <1> QED
    BY <1>1, <1>2 DEF WebInv, WebData, ServerInv

-----------------------------------------------------------------------------
(* Every step of the server is a step of the job's specification.           *)

\* A request that is not refused as busy finds the job's specification ready.
LEMMA FreeFacts ==
  ASSUME ~OperationBlocked
  PROVE  ~Blocked /\ ~JobActive /\ ~reboot_pending /\ ~boot_pending
  BY DEF OperationBlocked, Blocked

\* While a body is being received the server is free.
LEMMA ReceivingFree ==
  ASSUME WebInv, Receiving("upload") \/ Receiving("body")
  PROVE  ~OperationBlocked
  BY DEF WebInv, ActivitiesExclusive, Receiving, OperationBlocked

\* The buffer after a piece of an upload.
LEMMA StoredType ==
  ASSUME ram \in RamImages, NEW n, NEW v \in UploadData
  PROVE  Stored(n, v) \in RamImages
  <1>1. ram \in [0 .. FirmwareSize - 1 -> UploadData]
    BY UploadAssumption
  <1>2. Stored(n, v) \in [0 .. FirmwareSize - 1 -> UploadData]
    BY <1>1 DEF Stored
  <1> QED
    BY <1>2, UploadAssumption

LEMMA StartJobRefines ==
  ASSUME WebInv, StartJob
  PROVE  [JobNext]_jobVars
  <1>1. CASE \E phrase \in Phrases, keep \in BOOLEAN : PostFlash(phrase, keep)
    <2>1. PICK phrase \in Phrases, keep \in BOOLEAN : PostFlash(phrase, keep)
      BY <1>1
    <2>2. CASE JustReply
      BY <2>2 DEF JustReply
    <2>3. CASE ~JustReply
      <3>1. /\ ~OperationBlocked /\ upload_part # "none" /\ upload_valid
            /\ StartFlashJob(upload_part, completed_size, keep, upload_crc)
        BY <2>1, <2>3 DEF PostFlash
      <3>2. /\ upload_part \in Targets
            /\ SizeAccepted(upload_part, completed_size)
            /\ upload_crc = Crc(ram, completed_size)
            /\ completed_size \in 0 .. FirmwareSize
        BY <3>1 DEF WebInv, WebData, ValidatedImageInBuffer
      <3>3. completed_size \in 1 .. FirmwareSize
        BY <3>2, SizesAssumption DEF SizeAccepted
      <3>4. ~Blocked
        BY <3>1, FreeFacts
      <3>5. StartAnyFlashJob
        BY <3>1, <3>2, <3>3, <3>4 DEF StartAnyFlashJob
      <3> QED
        BY <3>5 DEF JobNext
    <2> QED
      BY <2>2, <2>3
  <1>2. CASE \E phrase \in Phrases, found \in BOOLEAN,
               overlay \in 0 .. FirmwareOffset + FirmwareSize - 1 :
               overlay % SectorSize = 0 /\ FactoryReset(phrase, found, overlay)
    <2>1. PICK phrase \in Phrases, found \in BOOLEAN,
               overlay \in 0 .. FirmwareOffset + FirmwareSize - 1 :
               overlay % SectorSize = 0 /\ FactoryReset(phrase, found, overlay)
      BY <1>2
    <2>2. CASE JustReply
      BY <2>2 DEF JustReply
    <2>3. CASE ~JustReply
      <3>1. ~OperationBlocked /\ StartEraseSettings(overlay)
        BY <2>1, <2>3 DEF FactoryReset
      <3>2. StartAnyEraseSettings
        BY <2>1, <3>1, FreeFacts DEF StartAnyEraseSettings
      <3> QED
        BY <3>2 DEF JobNext
    <2> QED
      BY <2>2, <2>3
  <1> QED
    BY <1>1, <1>2 DEF StartJob

LEMMA UploadRefines ==
  ASSUME WebInv, Upload
  PROVE  [JobNext]_jobVars
  <1>1. CASE \E p \in UploadTargets, n \in 0 .. FirmwareSize + 1 : PrepareUpload(p, n)
    <2>1. CASE JustReply
      BY <2>1 DEF JustReply
    <2>2. CASE ~JustReply
      <3>1. /\ ~OperationBlocked /\ job' = NoJob
            /\ UNCHANGED <<flash, ram, factory_buf, reboot_pending, before>>
        BY <1>1, <2>2 DEF PrepareUpload
      <3> QED
        BY <3>1, FreeFacts DEF JobNext, DropJob, ResetJob
    <2> QED
      BY <2>1, <2>2
  <1>2. CASE \E n \in ChunkSizes, v \in UploadData : StoreUpload(n, v) \/ FinishUpload(n, v)
    <2>1. PICK n \in ChunkSizes, v \in UploadData : StoreUpload(n, v) \/ FinishUpload(n, v)
      BY <1>2
    <2>2. /\ Receiving("upload") /\ ram' = Stored(n, v)
          /\ UNCHANGED <<flash, factory_buf, job, reboot_pending, before>>
      BY <2>1 DEF StoreUpload, FinishUpload
    <2>3. ram' \in RamImages /\ ~Blocked
      BY <2>2, StoredType, ReceivingFree, FreeFacts DEF WebInv, WebData
    <2> QED
      BY <2>2, <2>3 DEF JobNext, Load
  <1>3. CASE \E n \in ChunkSizes : OverflowUpload(n)
    BY <1>3 DEF OverflowUpload
  <1> QED
    BY <1>1, <1>2, <1>3 DEF Upload

LEMMA SaveEnvRefines ==
  ASSUME WebInv, SaveEnv
  PROVE  [JobNext]_jobVars
  <1>1. CASE JustReply
    BY <1>1 DEF JustReply
  <1>2. CASE ~JustReply
    <2>1. EnvSaved /\ ~OperationBlocked
      BY <1>2, ReceivingFree DEF SaveEnv, StoreBody, EnvReset
    <2> QED
      BY <2>1, FreeFacts DEF EnvSaved, EnvWrite, JobNext
  <1> QED
    BY <1>1, <1>2

LEMMA OtherRefines ==
  ASSUME WebInv, Other
  PROVE  [JobNext]_jobVars
  <1>1. CASE JustReply \/ PrepareBody \/ BootRam \/ Accept \/ CloseClient \/ LoseClient
    BY <1>1 DEF JustReply, PrepareBody, BootRam, Accept, CloseClient, LoseClient
  <1>2. CASE Query
    BY <1>2 DEF Query, JustReply
  <1>3. CASE Reboot /\ ~JustReply
    BY <1>3 DEF Reboot, RebootRefused, ScheduleReboot, JobNext
  <1>4. CASE \E phrase \in Phrases : PostFlashReadError(phrase)
    BY <1>4, FreeFacts DEF PostFlashReadError, DropJob, JobNext
  <1>5. CASE RunJob
    BY <1>5 DEF RunJob, JobNext
  <1>6. CASE StartServer
    BY <1>6 DEF StartServer, JobNext
  <1>7. CASE BootNow /\ ~StartServer
    BY <1>7 DEF BootNow
  <1> QED
    BY <1>1, <1>2, <1>3, <1>4, <1>5, <1>6, <1>7 DEF Other, ResetCpu, Interrupted

LEMMA NextRefines ==
  ASSUME WebInv, [Next]_webVars
  PROVE  [JobNext]_jobVars
  <1>1. CASE UNCHANGED webVars
    BY <1>1 DEF webVars
  <1> QED
    BY <1>1, StartJobRefines, UploadRefines, SaveEnvRefines, OtherRefines DEF Next

-----------------------------------------------------------------------------
(* Every step preserves the server's part of the invariant.                 *)

\* A step after which no body is being received owes the invariants about
\* transfers nothing.
LEMMA QuietInv ==
  ASSUME WebData', WebFlags', ValidatedImageInBuffer', BootImage',
         ~(client' /\ rx_state' \in {"upload", "body"}),
         JobActive' => ~reboot_pending' /\ ~boot_pending'
  PROVE  WebInv'
  BY DEF WebInv, UploadUnderWay, ActivitiesExclusive

\* After an answer, sent or lost, no body is being received.
LEMMA ReplyFacts ==
  ASSUME WebInv, Reply
  PROVE  /\ ~(client' /\ rx_state' \in {"upload", "body"})
         /\ client' \in BOOLEAN
         /\ rx_state' \in {"headers", "upload", "body", "replied"}
  BY DEF WebInv, WebData, Reply, ReplySent, ReplyLost

\* The verdict does not depend on anything a plain answer changes.
LEMMA VerdictKept ==
  ASSUME WebInv, UNCHANGED uploadVars, ram' = ram
  PROVE  ValidatedImageInBuffer'
  BY DEF WebInv, ValidatedImageInBuffer, uploadVars

\* A request that is answered at once and leaves the upload alone.
LEMMA AnsweredInv ==
  ASSUME WebInv, Reply, UNCHANGED uploadVars, ram' = ram,
         confirmed' \in Phrases \cup {"none"}, boot_pending' \in BOOLEAN,
         failed' \in BOOLEAN, BootImage',
         JobActive' => ~reboot_pending' /\ ~boot_pending'
  PROVE  WebInv'
  <1>1. /\ ~(client' /\ rx_state' \in {"upload", "body"})
        /\ client' \in BOOLEAN
        /\ rx_state' \in {"headers", "upload", "body", "replied"}
    BY ReplyFacts
  <1>2. WebData'
    BY <1>1 DEF WebInv, WebData, uploadVars
  <1>3. WebFlags'
    BY <1>1 DEF WebInv, WebFlags, uploadVars
  <1> QED
    BY <1>1, <1>2, <1>3, VerdictKept, QuietInv

\* The variables that most handlers leave alone keep what the invariant says
\* of them.
LEMMA KeptFacts ==
  ASSUME WebInv
  PROVE  /\ confirmed \in Phrases \cup {"none"} /\ boot_pending \in BOOLEAN
         /\ failed \in BOOLEAN /\ BootImage
         /\ JobActive => ~reboot_pending /\ ~boot_pending
  BY DEF WebInv, WebData, WebFlags, ActivitiesExclusive

LEMMA JustReplyInv ==
  ASSUME WebInv, JustReply
  PROVE  WebInv'
  <1>1. /\ Reply /\ UNCHANGED uploadVars /\ ram' = ram /\ job' = job
        /\ reboot_pending' = reboot_pending /\ boot_pending' = boot_pending
        /\ confirmed' = confirmed /\ failed' = failed
        /\ upload_valid' = upload_valid /\ upload_part' = upload_part
    BY DEF JustReply, jobVars, uploadVars
  <1>2. BootImage' /\ (JobActive' => ~reboot_pending' /\ ~boot_pending')
    BY <1>1, KeptFacts DEF BootImage, JobActive
  <1> QED
    BY <1>1, <1>2, KeptFacts, AnsweredInv

\* A job is started, dropped, or the environment is saved, while the server is
\* free.
LEMMA FreeRequestInv ==
  ASSUME WebInv, ~OperationBlocked, Reply, UNCHANGED uploadVars,
         ram' = ram, reboot_pending' = reboot_pending,
         boot_pending' = boot_pending, failed' = failed,
         confirmed' \in Phrases \cup {"none"}
  PROVE  WebInv'
  <1>1. ~reboot_pending' /\ ~boot_pending'
    BY FreeFacts
  <1>2. BootImage'
    BY <1>1 DEF BootImage
  <1> QED
    BY <1>1, <1>2, KeptFacts, AnsweredInv

LEMMA StartJobInv ==
  ASSUME WebInv, StartJob
  PROVE  WebInv'
  <1>1. CASE JustReply
    BY <1>1, JustReplyInv
  <1>2. CASE ~JustReply
    <2>1. /\ ~OperationBlocked /\ Reply /\ confirmed' \in Phrases
          /\ UNCHANGED uploadVars /\ ram' = ram
          /\ reboot_pending' = reboot_pending /\ boot_pending' = boot_pending
          /\ failed' = failed
      BY <1>2 DEF StartJob, PostFlash, FactoryReset, StartFlashJob, StartEraseSettings
    <2> QED
      BY <2>1, FreeRequestInv
  <1> QED
    BY <1>1, <1>2

LEMMA ReadErrorInv ==
  ASSUME WebInv, NEW phrase \in Phrases, PostFlashReadError(phrase)
  PROVE  WebInv'
  <1>1. /\ ~OperationBlocked /\ Reply
        /\ UNCHANGED uploadVars /\ ram' = ram
        /\ reboot_pending' = reboot_pending /\ boot_pending' = boot_pending
        /\ failed' = failed /\ confirmed' = confirmed
    BY DEF PostFlashReadError, ResetJob
  <1> QED
    BY <1>1, KeptFacts, FreeRequestInv

LEMMA BootRamInv ==
  ASSUME WebInv, BootRam
  PROVE  WebInv'
  <1>1. CASE JustReply
    BY <1>1, JustReplyInv DEF BootRam
  <1>2. CASE ~JustReply
    <2>1. /\ ~OperationBlocked /\ RamImageReady /\ Reply
          /\ boot_pending' = TRUE /\ UNCHANGED uploadVars /\ ram' = ram
          /\ job' = job /\ confirmed' = confirmed /\ failed' = failed
          /\ upload_valid' = upload_valid /\ upload_part' = upload_part
      BY <1>2 DEF BootRam, jobVars, uploadVars
    <2>2. BootImage'
      BY <2>1 DEF BootImage, RamImageReady
    <2>3. ~JobActive'
      BY <2>1, FreeFacts DEF JobActive
    <2> QED
      BY <2>1, <2>2, <2>3, KeptFacts, AnsweredInv
  <1> QED
    BY <1>1, <1>2

LEMMA RebootInv ==
  ASSUME WebInv, Reboot
  PROVE  WebInv'
  <1>1. CASE JustReply
    BY <1>1, JustReplyInv DEF Reboot
  <1>2. CASE ~JustReply
    <2>1. /\ ~JobActive /\ Reply /\ UNCHANGED uploadVars /\ ram' = ram
          /\ job' = job /\ boot_pending' = boot_pending
          /\ confirmed' = confirmed /\ failed' = failed
          /\ upload_valid' = upload_valid /\ upload_part' = upload_part
      BY <1>2 DEF Reboot, RebootRefused, uploadVars
    <2>2. BootImage' /\ ~JobActive'
      BY <2>1, KeptFacts DEF BootImage, JobActive
    <2> QED
      BY <2>1, <2>2, KeptFacts, AnsweredInv
  <1> QED
    BY <1>1, <1>2

LEMMA SaveEnvInv ==
  ASSUME WebInv, SaveEnv
  PROVE  WebInv'
  <1>1. CASE JustReply
    BY <1>1, JustReplyInv
  <1>2. CASE ~JustReply
    <2>1. /\ ~OperationBlocked /\ Reply /\ EnvSaved
          /\ UNCHANGED <<uploadVars, boot_pending, confirmed, failed>>
      BY <1>2, ReceivingFree DEF SaveEnv, StoreBody, EnvReset
    <2> QED
      BY <2>1, KeptFacts, FreeRequestInv DEF EnvSaved
  <1> QED
    BY <1>1, <1>2

\* The body of POST /api/env begins while the server is free.
LEMMA PrepareBodyInv ==
  ASSUME WebInv, PrepareBody
  PROVE  WebInv'
  <1>1. CASE JustReply
    BY <1>1, JustReplyInv
  <1>2. CASE ~JustReply
    <2>1. /\ ~OperationBlocked /\ rx_state' = "body" /\ client' = client
          /\ UNCHANGED <<jobVars, uploadVars, boot_pending, confirmed, failed>>
      BY <1>2 DEF PrepareBody
    <2>2. ram' = ram /\ job' = job /\ ~reboot_pending' /\ ~boot_pending' /\ ~JobActive'
      BY <2>1, FreeFacts DEF jobVars, JobActive
    <2>3. WebData'
      BY <2>1, <2>2 DEF WebInv, WebData, uploadVars
    <2>4. WebFlags'
      BY <2>1 DEF WebInv, WebFlags, uploadVars
    <2>5. ValidatedImageInBuffer'
      BY <2>1, <2>2, VerdictKept
    <2> QED
      BY <2>1, <2>2, <2>3, <2>4, <2>5
         DEF WebInv, UploadUnderWay, ActivitiesExclusive, BootImage
  <1> QED
    BY <1>1, <1>2

\* An upload begins while the server is free, without a verdict.
LEMMA PrepareUploadInv ==
  ASSUME WebInv, NEW p \in UploadTargets, NEW n \in 0 .. FirmwareSize + 1,
         PrepareUpload(p, n)
  PROVE  WebInv'
  <1>1. CASE JustReply
    BY <1>1, JustReplyInv
  <1>2. CASE ~JustReply
    <2>1. /\ ~OperationBlocked /\ SizeAccepted(p, n) /\ rx_state' = "upload"
          /\ job' = NoJob /\ upload_part' = p /\ image_kind' = "foreign"
          /\ content_length' = n /\ upload_size' = 0 /\ completed_size' = 0
          /\ upload_valid' = FALSE
          /\ UNCHANGED <<client, upload_crc, ram, reboot_pending, boot_pending,
                         confirmed, failed>>
      BY <1>2 DEF PrepareUpload, ForgetUpload
    <2>2. p \in Targets /\ p # "none"
      BY TargetsAssumption DEF Targets, Partitions
    <2>3. n \in 1 .. FirmwareSize
      <3>1. Size(p) \in Nat /\ Size(p) <= FirmwareSize
        BY <2>2, SizesAssumption, EepromAssumption DEF Targets, Partitions, Size
      <3> QED
        BY <2>1, <3>1, SizesAssumption DEF SizeAccepted
    <2>4. ~reboot_pending' /\ ~boot_pending' /\ ~JobActive'
      BY <2>1, FreeFacts DEF JobActive, NoJob, ActivePhases
    <2>5. WebData'
      BY <2>1, <2>2, <2>3, SizesAssumption DEF WebInv, WebData, Kinds
    <2>6. WebFlags'
      BY <2>1 DEF WebInv, WebFlags
    <2>7. ValidatedImageInBuffer' /\ BootImage' /\ ActivitiesExclusive'
      BY <2>1, <2>4 DEF ValidatedImageInBuffer, BootImage, ActivitiesExclusive
    <2>8. UploadUnderWay'
      BY <2>1, <2>2, <2>3 DEF UploadUnderWay, SizeAccepted
    <2> QED
      BY <2>5, <2>6, <2>7, <2>8 DEF WebInv
  <1> QED
    BY <1>1, <1>2

\* What is known while an upload is being received.
LEMMA UploadFacts ==
  ASSUME WebInv, Receiving("upload")
  PROVE  /\ client /\ rx_state = "upload" /\ ~upload_valid
         /\ upload_part \in Targets /\ SizeAccepted(upload_part, content_length)
         /\ upload_size \in Nat /\ content_length \in 1 .. FirmwareSize
         /\ upload_size < content_length
         /\ ~reboot_pending /\ ~boot_pending /\ ~JobActive
  <1>1. /\ client /\ rx_state = "upload" /\ ~upload_valid
        /\ upload_part \in Targets /\ SizeAccepted(upload_part, content_length)
        /\ upload_size < content_length
    BY DEF WebInv, WebData, UploadUnderWay, Receiving
  <1>2. content_length \in 0 .. FirmwareSize /\ upload_size \in 0 .. FirmwareSize
    BY DEF WebInv, WebData
  <1>3. content_length \in 1 .. FirmwareSize /\ upload_size \in Nat
    BY <1>1, <1>2, SizesAssumption
  <1> QED
    BY <1>1, <1>3, ReceivingFree, FreeFacts

LEMMA StoreUploadInv ==
  ASSUME WebInv, NEW n \in ChunkSizes, NEW v \in UploadData, StoreUpload(n, v)
  PROVE  WebInv'
  <1>1. /\ Receiving("upload") /\ ram' = Stored(n, v)
        /\ upload_size + n < content_length /\ upload_size' = upload_size + n
        /\ UNCHANGED <<client, rx_state, job, reboot_pending, boot_pending, failed,
                       confirmed, upload_part, content_length, completed_size,
                       upload_crc, upload_valid, image_kind>>
    BY DEF StoreUpload, Incomplete, connVars
  <1>2. n \in Nat
    BY ChunkAssumption
  <1>3. upload_size' \in 0 .. FirmwareSize
    BY <1>1, <1>2, UploadFacts, SizesAssumption
  <1>4. ram' \in RamImages
    BY <1>1, StoredType DEF WebInv, WebData
  <1>5. WebData'
    BY <1>1, <1>3, <1>4 DEF WebInv, WebData
  <1>6. WebFlags'
    BY <1>1 DEF WebInv, WebFlags
  <1>7. ~upload_valid' /\ ~reboot_pending' /\ ~boot_pending' /\ ~JobActive'
    BY <1>1, UploadFacts DEF JobActive
  <1>8. ValidatedImageInBuffer' /\ BootImage' /\ ActivitiesExclusive'
    BY <1>7 DEF ValidatedImageInBuffer, BootImage, ActivitiesExclusive
  <1>9. UploadUnderWay'
    <2>1. upload_part' # "none" /\ SizeAccepted(upload_part', content_length')
      BY <1>1 DEF WebInv, UploadUnderWay, Receiving
    <2>2. upload_size' < content_length'
      BY <1>1
    <2> QED
      BY <1>7, <2>1, <2>2 DEF UploadUnderWay
  <1> QED
    BY <1>5, <1>6, <1>8, <1>9 DEF WebInv

\* The end of an upload, or of its client, without a verdict.
LEMMA UploadOverInv ==
  ASSUME WebInv, Receiving("upload"), WebData',
         ~(client' /\ rx_state' \in {"upload", "body"}), client' \in BOOLEAN,
         upload_valid' = FALSE,
         UNCHANGED <<job, reboot_pending, boot_pending, failed>>
  PROVE  WebInv'
  <1>1. ~boot_pending' /\ ~JobActive'
    BY UploadFacts DEF JobActive
  <1>2. WebFlags'
    BY DEF WebInv, WebFlags
  <1>3. ValidatedImageInBuffer' /\ BootImage'
    BY <1>1 DEF ValidatedImageInBuffer, BootImage
  <1> QED
    BY <1>1, <1>2, <1>3, QuietInv

\* A refused upload leaves no verdict, and its client has been answered or is
\* gone.
LEMMA UploadFailedFacts ==
  ASSUME WebInv, Receiving("upload"), UploadFailed
  PROVE  /\ ~(client' /\ rx_state' \in {"upload", "body"}) /\ client' \in BOOLEAN
         /\ upload_valid' = FALSE
         /\ rx_state' \in {"headers", "upload", "body", "replied"}
  <1>1. upload_valid = FALSE /\ rx_state = "upload"
    BY UploadFacts DEF WebInv, WebFlags
  <1>2. CASE ReplySent /\ UNCHANGED upload_valid
    BY <1>1, <1>2 DEF ReplySent
  <1>3. CASE AbortClient
    BY <1>1, <1>3 DEF AbortClient
  <1> QED
    BY <1>2, <1>3 DEF UploadFailed

LEMMA OverflowUploadInv ==
  ASSUME WebInv, NEW n \in ChunkSizes, OverflowUpload(n)
  PROVE  WebInv'
  <1>1. /\ Receiving("upload") /\ UploadFailed
        /\ UNCHANGED <<job, reboot_pending, ram, boot_pending, failed, confirmed,
                       upload_part, content_length, upload_size, completed_size,
                       upload_crc, image_kind>>
    BY DEF OverflowUpload, jobVars
  <1>2. /\ ~(client' /\ rx_state' \in {"upload", "body"}) /\ client' \in BOOLEAN
        /\ upload_valid' = FALSE
        /\ rx_state' \in {"headers", "upload", "body", "replied"}
    BY <1>1, UploadFailedFacts
  <1>3. WebData'
    BY <1>1, <1>2 DEF WebInv, WebData
  <1> QED
    BY <1>1, <1>2, <1>3, UploadOverInv

\* The last piece: the verdict is about the content now in the buffer.
LEMMA FinishUploadInv ==
  ASSUME WebInv, NEW n \in ChunkSizes, NEW v \in UploadData, FinishUpload(n, v)
  PROVE  WebInv'
  <1> DEFINE crc == Crc(ram', content_length)
  <1>1. /\ Receiving("upload") /\ ram' = Stored(n, v)
        /\ upload_size' = content_length /\ completed_size' = content_length
        /\ UNCHANGED <<job, reboot_pending, boot_pending, failed, confirmed,
                       upload_part, content_length>>
        /\ \/ UploadFailed /\ UNCHANGED <<upload_crc, image_kind>>
           \/ /\ upload_crc' = crc
              /\ image_kind' = IF upload_part = "firmware" THEN KindOf(crc) ELSE image_kind
              /\ \/ ReplySent /\ upload_valid' = Accepts(upload_part, crc)
                 \/ AbortClient
    BY DEF FinishUpload
  <1>2. ram' \in RamImages
    BY <1>1, StoredType DEF WebInv, WebData
  <1>3. /\ content_length \in 1 .. FirmwareSize /\ upload_part \in Targets
        /\ SizeAccepted(upload_part, content_length)
        /\ rx_state = "upload" /\ ~upload_valid
    BY <1>1, UploadFacts
  <1>4. crc \in [0 .. content_length - 1 -> UploadData]
    <2>1. ram' \in [0 .. FirmwareSize - 1 -> UploadData]
      BY <1>2, UploadAssumption
    <2> QED
      BY <1>3, <2>1, SizesAssumption DEF Crc
  <1>5. KindOf(crc) \in Kinds /\ Accepts(upload_part, crc) \in BOOLEAN
    BY <1>3, <1>4, VerdictAssumption
  <1>6. crc \in Checksum
    <2>1. crc \in [0 .. content_length - 1 -> Unit]
      BY <1>4, UploadAssumption DEF Unit
    <2>2. content_length \in 0 .. FirmwareSize
      BY <1>3, SizesAssumption
    <2> QED
      BY <2>1, <2>2 DEF Checksum
  <1>7. /\ ~(client' /\ rx_state' \in {"upload", "body"}) /\ client' \in BOOLEAN
        /\ rx_state' \in {"headers", "upload", "body", "replied"}
        /\ upload_valid' \in BOOLEAN
        /\ upload_valid' => /\ upload_crc' = crc /\ Accepts(upload_part, crc)
                            /\ upload_part = "firmware" => image_kind' = KindOf(crc)
    <2> HIDE DEF crc
    <2>1. CASE UploadFailed
      BY <1>1, <2>1, UploadFailedFacts
    <2>2. CASE upload_crc' = crc /\ AbortClient
      BY <1>1, <2>2, UploadFailedFacts DEF UploadFailed
    <2>3. CASE /\ upload_crc' = crc /\ ReplySent /\ upload_valid' = Accepts(upload_part, crc)
               /\ image_kind' = IF upload_part = "firmware" THEN KindOf(crc) ELSE image_kind
      BY <1>5, <2>3 DEF ReplySent
    <2> QED
      BY <1>1, <2>1, <2>2, <2>3
  <1>8. upload_crc' \in Checksum /\ image_kind' \in Kinds
    <2> HIDE DEF crc
    <2> QED
      BY <1>1, <1>5, <1>6 DEF WebInv, WebData
  <1> HIDE DEF crc
  <1>9. WebData'
    BY <1>1, <1>2, <1>3, <1>7, <1>8, SizesAssumption DEF WebInv, WebData
  <1>10. WebFlags'
    BY <1>1, <1>7 DEF WebInv, WebFlags
  <1>11. ~boot_pending' /\ ~JobActive'
    BY <1>1, UploadFacts DEF JobActive
  <1>12. ValidatedImageInBuffer'
    BY <1>1, <1>3, <1>7 DEF ValidatedImageInBuffer, crc, Targets, Partitions
  <1> QED
    BY <1>7, <1>9, <1>10, <1>11, <1>12, QuietInv DEF BootImage

\* A client comes or goes. That it goes with an upload under way takes no
\* verdict away that a pending boot relies on.
LEMMA ClientInv ==
  ASSUME WebInv, Accept \/ CloseClient \/ LoseClient
  PROVE  WebInv'
  <1>1. /\ UNCHANGED <<ram, job, reboot_pending, boot_pending, failed, confirmed,
                       upload_part, completed_size, upload_crc, image_kind>>
        /\ client' \in BOOLEAN
        /\ ~(client' /\ rx_state' \in {"upload", "body"})
        /\ rx_state' \in {"headers", "upload", "body", "replied"}
    BY DEF Accept, CloseClient, LoseClient, AbortClient, jobVars, uploadVars,
           WebInv, WebData
  <1>2. /\ upload_valid' \in BOOLEAN /\ (upload_valid' => upload_valid)
        /\ boot_pending => upload_valid' = upload_valid
    <2>1. CASE Accept \/ CloseClient
      BY <2>1 DEF Accept, CloseClient, uploadVars, WebInv, WebFlags
    <2>2. CASE LoseClient
      <3>1. upload_valid' = (upload_valid /\ ~(client /\ rx_state = "upload"))
        BY <2>2 DEF LoseClient, AbortClient
      <3>2. boot_pending => ~(client /\ rx_state = "upload")
        BY DEF WebInv, ActivitiesExclusive
      <3> QED
        BY <3>1, <3>2 DEF WebInv, WebFlags
    <2> QED
      BY <2>1, <2>2
  <1>3. content_length' \in 0 .. FirmwareSize /\ upload_size' \in 0 .. FirmwareSize
    BY SizesAssumption
       DEF Accept, CloseClient, LoseClient, uploadVars, WebInv, WebData
  <1>4. WebData'
    BY <1>1, <1>3 DEF WebInv, WebData
  <1>5. WebFlags'
    <2>1. boot_pending' \in BOOLEAN /\ failed' \in BOOLEAN
      BY <1>1, KeptFacts
    <2> QED
      BY <1>1, <1>2, <2>1, Zenon DEF WebFlags
  <1>6. ValidatedImageInBuffer'
    BY <1>1, <1>2 DEF WebInv, ValidatedImageInBuffer
  <1>7. BootImage'
    <2>1. boot_pending => upload_valid /\ upload_part = "ram"
      BY KeptFacts DEF BootImage
    <2> QED
      BY <1>1, <1>2, <2>1 DEF BootImage
  <1>8. JobActive' => ~reboot_pending' /\ ~boot_pending'
    BY <1>1, KeptFacts DEF JobActive
  <1> QED
    BY <1>1, <1>4, <1>5, <1>6, <1>7, <1>8, QuietInv

\* A step of the job runs only while nothing is received, and schedules the
\* reboot only when it ends.
LEMMA RunJobInv ==
  ASSUME WebInv, JobInv, RunJob
  PROVE  WebInv'
  <1>1. /\ JobActive /\ ram' = ram /\ UNCHANGED <<connVars, uploadVars>>
        /\ boot_pending' = boot_pending /\ confirmed' = confirmed
    BY DEF RunJob, JobStep, StepSucceeds, StepFails, EraseStep, EraseFail, WriteStep,
           WriteFail, VerifyStep, VerifyFail, JobActive, ActivePhases
  <1>2. ~boot_pending /\ ~reboot_pending /\ ~(client /\ rx_state \in {"upload", "body"})
    BY <1>1 DEF WebInv, ActivitiesExclusive
  <1>3. failed' \in BOOLEAN
    BY DEF RunJob, WebInv, WebFlags
  <1>4. job \in JobType
    BY DEF JobInv, JobTypeOK
  <1>5. JobActive' => ~reboot_pending'
    <2>1. CASE EraseStep
      <3>1. reboot_pending' => job'.phase = "done"
        BY <1>2, <1>4, <2>1 DEF EraseStep, RebootWhen, JobType
      <3> QED
        BY <3>1 DEF JobActive, ActivePhases
    <2>2. CASE VerifyStep
      <3>1. reboot_pending' => job'.phase = "done"
        BY <1>2, <1>4, <2>2 DEF VerifyStep, RebootWhen, JobType
      <3> QED
        BY <3>1 DEF JobActive, ActivePhases
    <2>3. CASE WriteStep \/ StepFails
      BY <1>2, <2>3 DEF WriteStep, StepFails, EraseFail, WriteFail, VerifyFail
    <2> QED
      BY <2>1, <2>2, <2>3 DEF RunJob, JobStep, StepSucceeds
  <1>6. WebData'
    BY <1>1 DEF WebInv, WebData, connVars, uploadVars
  <1>7. WebFlags'
    BY <1>1, <1>3 DEF WebInv, WebFlags, connVars, uploadVars
  <1>8. BootImage' /\ ~(client' /\ rx_state' \in {"upload", "body"}) /\ ~boot_pending'
    BY <1>1, <1>2 DEF BootImage, connVars
  <1> QED
    BY <1>1, <1>5, <1>6, <1>7, <1>8, VerdictKept, QuietInv

LEMMA StartServerInv ==
  ASSUME WebInv, StartServer
  PROVE  WebInv'
  <1>1. /\ ram' = ram /\ rx_state' = "headers" /\ upload_part' = "none"
        /\ content_length' = 0 /\ upload_size' = 0 /\ completed_size' = 0
        /\ upload_crc' = EmptyCrc /\ image_kind' = "openwrt" /\ confirmed' = "none"
        /\ ~reboot_pending' /\ ~upload_valid' /\ ~boot_pending'
    BY DEF StartServer, Restart
  <1>2. WebFlags'
    BY DEF StartServer, WebFlags
  <1>3. WebData'
    BY <1>1, EmptyCrcType, SizesAssumption DEF WebInv, WebData, Kinds
  <1>4. ValidatedImageInBuffer' /\ BootImage'
    BY <1>1 DEF ValidatedImageInBuffer, BootImage
  <1> QED
    BY <1>1, <1>2, <1>3, <1>4, QuietInv

\* bootm comes back: the client has been aborted, the verdict stays.
LEMMA BootNowInv ==
  ASSUME WebInv, BootNow
  PROVE  WebInv'
  <1>1. CASE StartServer
    BY <1>1, StartServerInv
  <1>2. CASE ~StartServer
    <2>1. /\ boot_pending' = FALSE /\ AbortClient
          /\ UNCHANGED <<jobVars, upload_part, content_length, upload_size,
                         completed_size, upload_crc, image_kind, confirmed, failed>>
      BY <1>2 DEF BootNow
    <2>2. /\ client' = FALSE /\ rx_state' = rx_state
          /\ upload_valid' \in BOOLEAN /\ (upload_valid' => upload_valid)
      BY <2>1 DEF AbortClient, WebInv, WebFlags
    <2>3. ram' = ram /\ job' = job /\ reboot_pending' = reboot_pending
      BY <2>1 DEF jobVars
    <2>4. WebData'
      BY <2>1, <2>2, <2>3 DEF WebInv, WebData
    <2>5. WebFlags'
      <3>1. failed' \in BOOLEAN /\ boot_pending' \in BOOLEAN /\ client' \in BOOLEAN
        BY <2>1, <2>2, KeptFacts
      <3> QED
        BY <2>2, <3>1, Zenon DEF WebFlags
    <2>6. ValidatedImageInBuffer' /\ BootImage'
      <3>1. ValidatedImageInBuffer'
        BY <2>1, <2>2, <2>3 DEF WebInv, ValidatedImageInBuffer
      <3> QED
        BY <2>1, <3>1 DEF BootImage
    <2>7. JobActive' => ~reboot_pending' /\ ~boot_pending'
      BY <2>1, <2>3, KeptFacts DEF JobActive
    <2> QED
      BY <2>2, <2>4, <2>5, <2>6, <2>7, QuietInv
  <1> QED
    BY <1>1, <1>2

LEMMA StutterInv ==
  ASSUME WebInv, UNCHANGED webVars
  PROVE  WebInv'
  BY DEF webVars, jobVars, connVars, uploadVars, WebInv, WebData, WebFlags,
         UploadUnderWay, ValidatedImageInBuffer, ActivitiesExclusive, BootImage, JobActive

LEMMA WebNextInv ==
  ASSUME JobInv, WebInv, [Next]_webVars
  PROVE  WebInv'
  <1>1. CASE StartJob
    BY <1>1, StartJobInv
  <1>2. CASE Upload
    BY <1>2, PrepareUploadInv, StoreUploadInv, FinishUploadInv, OverflowUploadInv DEF Upload
  <1>3. CASE SaveEnv
    BY <1>3, SaveEnvInv
  <1>4. CASE Other
    <2>1. CASE Query
      BY <2>1, JustReplyInv DEF Query
    <2>2. CASE BootRam \/ Reboot \/ PrepareBody
      BY <2>2, BootRamInv, RebootInv, PrepareBodyInv
    <2>3. CASE \E phrase \in Phrases : PostFlashReadError(phrase)
      BY <2>3, ReadErrorInv
    <2>4. CASE Accept \/ CloseClient \/ LoseClient
      BY <2>4, ClientInv
    <2>5. CASE RunJob \/ ResetCpu \/ Interrupted \/ BootNow
      BY <2>5, RunJobInv, StartServerInv, BootNowInv DEF ResetCpu, Interrupted
    <2> QED
      BY <1>4, <2>1, <2>2, <2>3, <2>4, <2>5 DEF Other
  <1>5. CASE UNCHANGED webVars
    BY <1>5, StutterInv
  <1> QED
    BY <1>1, <1>2, <1>3, <1>4, <1>5 DEF Next

LEMMA WebInit ==
  ASSUME Init
  PROVE  JobInv /\ WebInv
  <1>1. JobInv
    BY InitInv DEF Init
  <1>2. WebData
    BY EmptyCrcType, SizesAssumption DEF Init, JobInit, WebData, Kinds
  <1>3. WebFlags
    BY DEF Init, WebFlags
  <1>4. UploadUnderWay /\ ValidatedImageInBuffer /\ BootImage /\ ActivitiesExclusive
    BY DEF Init, JobInit, UploadUnderWay, ValidatedImageInBuffer, BootImage,
           ActivitiesExclusive
  <1> QED
    BY <1>1, <1>2, <1>3, <1>4 DEF WebInv

-----------------------------------------------------------------------------
(* The theorems.                                                            *)

LEMMA ServerSafe == Spec => [](JobInv /\ WebInv)
  <1>1. Init => JobInv /\ WebInv
    BY WebInit
  <1>2. (JobInv /\ WebInv) /\ [Next]_webVars => (JobInv /\ WebInv)'
    BY NextRefines, NextInv, WebNextInv
  <1> QED
    BY <1>1, <1>2, PTL DEF Spec

\* The invariant of the server, for every layout and every verdict of the image
\* checks.
THEOREM ServerInvariant == Spec => []ServerInv
  <1>1. JobInv /\ WebInv => ServerInv
    BY ServerParts
  <1> QED
    BY <1>1, ServerSafe, PTL

\* The variables of struct webflash_ctx keep their types; in particular no
\* upload is stored beyond the buffer.
THEOREM TypeCorrect == Spec => []TypeOK
  <1>1. ServerInv => TypeOK
    BY DEF ServerInv
  <1> QED
    BY <1>1, ServerInvariant, PTL

\* The server uses the flash, the buffers and the job only as the
\* specification of the job allows: whatever clients ask for, jobs are started
\* with a validated image in the buffer, and nothing interferes with them.
THEOREM ImplementsJob == Spec => JobSpec
  <1>1. Init => JobInit
    BY DEF Init
  <1>2. (JobInv /\ WebInv) /\ [Next]_webVars => [JobNext]_jobVars
    BY NextRefines
  <1> QED
    BY <1>1, <1>2, ServerSafe, PTL DEF Spec, JobSpec

\* upload_valid is only ever set over the content that was validated.
THEOREM ValidatedImageInBufferAlways == Spec => []ValidatedImageInBuffer
  <1>1. ServerInv => ValidatedImageInBuffer
    BY DEF ServerInv
  <1> QED
    BY <1>1, ServerInvariant, PTL

\* Transfers, jobs, reboots and RAM boots exclude each other as
\* webflash_operation_blocked() is meant to ensure.
THEOREM ActivitiesExclusiveAlways == Spec => []ActivitiesExclusive
  <1>1. ServerInv => ActivitiesExclusive
    BY DEF ServerInv
  <1> QED
    BY <1>1, ServerInvariant, PTL

\* A RAM boot that is pending finds the image that was validated for it.
THEOREM BootsValidatedImageAlways == Spec => []BootsValidatedImage
  <1>1. ServerInv => BootsValidatedImage
    BY DEF ServerInv
  <1> QED
    BY <1>1, ServerInvariant, PTL

-----------------------------------------------------------------------------
(* What a running job has been confirmed for, and what it writes.           *)

\* POST /api/flash starts a job for the validated upload.
JobConfirmed ==
  \E keep \in BOOLEAN :
    /\ upload_valid /\ upload_part # "none" /\ confirmed' = ExpectedConfirmation
    /\ StartFlashJob(upload_part, completed_size, keep, upload_crc)

\* POST /api/factory-reset starts a job that ends with the firmware partition.
SettingsErased ==
  \E overlay \in 0 .. FirmwareOffset + FirmwareSize - 1 :
    StartEraseSettings(overlay)

\* All that a step of the server can do to the job.
LEMMA JobCases ==
  ASSUME [Next]_webVars
  PROVE  \/ job' = job /\ confirmed' = confirmed
         \/ job' = NoJob
         \/ JobStep /\ confirmed' = confirmed
         \/ JobConfirmed
         \/ SettingsErased
  <1>1. CASE UNCHANGED webVars \/ JustReply
    BY <1>1 DEF webVars, jobVars, JustReply
  <1>2. CASE StartJob /\ ~JustReply
    <2>1. CASE \E phrase \in Phrases, keep \in BOOLEAN : PostFlash(phrase, keep)
      BY <1>2, <2>1 DEF PostFlash, JobConfirmed
    <2>2. CASE \E phrase \in Phrases, found \in BOOLEAN,
                 overlay \in 0 .. FirmwareOffset + FirmwareSize - 1 :
                 overlay % SectorSize = 0 /\ FactoryReset(phrase, found, overlay)
      BY <1>2, <2>2 DEF FactoryReset, SettingsErased
    <2> QED
      BY <1>2, <2>1, <2>2 DEF StartJob
  <1>3. CASE Upload /\ ~JustReply
    BY <1>3 DEF Upload, PrepareUpload, StoreUpload, FinishUpload, OverflowUpload, jobVars
  <1>4. CASE SaveEnv /\ ~JustReply
    BY <1>4 DEF SaveEnv, StoreBody, EnvReset, EnvSaved
  <1>5. CASE Other /\ ~JustReply
    <2>1. CASE BootRam \/ Reboot \/ PrepareBody \/ Accept \/ CloseClient \/ LoseClient
      BY <1>5, <2>1 DEF BootRam, Reboot, PrepareBody, Accept, CloseClient, LoseClient, jobVars
    <2>2. CASE \E phrase \in Phrases : PostFlashReadError(phrase)
      BY <2>2 DEF PostFlashReadError, ResetJob
    <2>3. CASE RunJob
      BY <2>3 DEF RunJob
    <2>4. CASE StartServer
      BY <2>4 DEF StartServer, Restart
    <2>5. CASE BootNow /\ ~StartServer
      BY <2>5 DEF BootNow, jobVars
    <2> QED
      BY <1>5, <2>1, <2>2, <2>3, <2>4, <2>5 DEF Other, Query, ResetCpu, Interrupted
  <1> QED
    BY <1>1, <1>2, <1>3, <1>4, <1>5 DEF Next

\* A step of the job keeps what the job was started with.
LEMMA StepKeeps ==
  ASSUME JobInv, JobStep
  PROVE  /\ JobActive
         /\ job'.mode = job.mode /\ job'.part = job.part /\ job'.buf = job.buf
         /\ job'.erase_offset = job.erase_offset /\ job'.erase_size = job.erase_size
         /\ job'.source_crc = job.source_crc
  <1>1. job \in JobType
    BY DEF JobInv, JobTypeOK
  <1>2. JobActive
    BY DEF JobStep, StepSucceeds, StepFails, EraseStep, EraseFail, WriteStep,
           WriteFail, VerifyStep, VerifyFail, JobActive, ActivePhases
  <1>3. CASE StepFails
    BY <1>1, <1>2, <1>3 DEF StepFails, EraseFail, WriteFail, VerifyFail, FailJob, JobType
  <1>4. CASE EraseStep
    BY <1>1, <1>2, <1>4 DEF EraseStep, JobType
  <1>5. CASE WriteStep
    BY <1>1, <1>2, <1>5 DEF WriteStep, JobType
  <1>6. CASE VerifyStep
    BY <1>1, <1>2, <1>6 DEF VerifyStep, JobType
  <1> QED
    BY <1>3, <1>4, <1>5, <1>6 DEF JobStep, StepSucceeds

\* The job's image is one that was accepted for its partition.
ImageAccepted ==
  Ongoing /\ job.mode = "flash" /\ job.buf = "ram" => Accepts(job.part, job.source_crc)

LEMMA ImageAcceptedNext ==
  ASSUME JobInv, WebInv, ImageAccepted, [Next]_webVars
  PROVE  ImageAccepted'
  <1>1. CASE job' = job
    BY <1>1 DEF ImageAccepted, Ongoing
  <1>2. CASE job' = NoJob
    BY <1>2 DEF ImageAccepted, Ongoing, NoJob, ActivePhases
  <1>3. CASE JobStep
    BY <1>3, StepKeeps DEF ImageAccepted, Ongoing, JobActive
  <1>4. CASE JobConfirmed
    <2>1. PICK keep \in BOOLEAN :
            /\ upload_valid
            /\ StartFlashJob(upload_part, completed_size, keep, upload_crc)
      BY <1>4 DEF JobConfirmed
    <2>2. Accepts(upload_part, upload_crc)
      BY <2>1 DEF WebInv, ValidatedImageInBuffer
    <2>3. CASE upload_part = "eeprom"
      BY <2>1, <2>3 DEF StartFlashJob, StartEepromJob, ImageAccepted
    <2>4. CASE upload_part # "eeprom"
      <3>1. job'.part = upload_part /\ job'.source_crc = upload_crc
        BY <2>1, <2>4 DEF StartFlashJob, StartImageJob
      <3> QED
        BY <2>2, <3>1 DEF ImageAccepted
    <2> QED
      BY <2>3, <2>4
  <1>5. CASE SettingsErased
    BY <1>5 DEF SettingsErased, StartEraseSettings, NoJob, ImageAccepted
  <1> QED
    BY <1>1, <1>2, <1>3, <1>4, <1>5, JobCases

\* When a job reports success, what is in flash was accepted for its partition.
THEOREM DoneImageAcceptedAlways == Spec => []DoneImageAccepted
  <1>1. Init => ImageAccepted
    BY DEF Init, JobInit, NoJob, ImageAccepted, Ongoing, ActivePhases
  <1>2. (JobInv /\ WebInv) /\ ImageAccepted /\ [Next]_webVars => ImageAccepted'
    BY ImageAcceptedNext
  <1>3. JobInv /\ ImageAccepted => DoneImageAccepted
    <2> SUFFICES ASSUME JobInv, ImageAccepted, job.phase = "done",
                        job.mode = "flash", job.buf = "ram"
                 PROVE  Accepts(job.part, [i \in 0 .. job.write_size - 1 |->
                                             flash[Offset(job.part) + i]])
      BY DEF DoneImageAccepted
    <2>1. /\ JobShape /\ DoneMeansWritten /\ job.erase_offset \in Nat
          /\ job.erase_size \in Nat /\ job.write_size \in Nat
      BY DEF JobInv, Ongoing, JobTypeOK, JobType
    <2>2. /\ job.erase_offset = Offset(job.part)
          /\ job.write_size \in 1 .. job.erase_size
          /\ job.source_crc = Crc(ram, job.write_size)
      BY <2>1 DEF JobShape, Source
    <2>3. \A i \in 0 .. job.write_size - 1 : flash[Offset(job.part) + i] = ram[i]
      <3> SUFFICES ASSUME NEW i \in 0 .. job.write_size - 1
                   PROVE  flash[job.erase_offset + i] = ram[i]
        BY <2>2
      <3>1. /\ job.erase_offset + i \in JobRange
            /\ job.erase_offset + i < job.erase_offset + job.write_size
            /\ (job.erase_offset + i) - job.erase_offset = i
        BY <2>1, <2>2 DEF JobRange
      <3> QED
        BY <2>1, <3>1 DEF DoneMeansWritten, Source
    <2>4. job.source_crc = [i \in 0 .. job.write_size - 1 |-> flash[Offset(job.part) + i]]
      BY <2>2, <2>3 DEF Crc
    <2> QED
      BY <2>4 DEF ImageAccepted, Ongoing
  <1> QED
    BY <1>1, <1>2, <1>3, ServerSafe, PTL DEF Spec

-----------------------------------------------------------------------------
(* Protected partitions. Jobs for the RAM target, and settings resets whose *)
(* overlay is not in the firmware partition, are left out: for them the     *)
(* property does not hold.                                                  *)

\* The range of a running job is inside one partition, for which the phrase
\* that started the job is the right one.
PhraseInv ==
  JobActive /\ job.part # "ram" /\ OverlayBehindFirmware =>
    /\ job.part \in Partitions
    /\ job.erase_offset \in Nat /\ job.erase_size \in Nat
    /\ Offset(job.part) <= job.erase_offset
    /\ job.erase_offset + job.erase_size <= Offset(job.part) + Size(job.part)
    /\ job.part # "firmware" => confirmed \in PhrasesFor(job.part)

\* Every step keeps the phrase and the range of the job together.
LEMMA PhraseNext ==
  ASSUME JobInv, WebInv, PhraseInv, [Next]_webVars
  PROVE  PhraseInv'
  <1>2. CASE job' = job /\ confirmed' = confirmed
    BY <1>2 DEF PhraseInv, JobActive, OverlayBehindFirmware
  <1>3. CASE job' = NoJob
    BY <1>3 DEF PhraseInv, JobActive, NoJob, ActivePhases
  <1>4. CASE JobStep /\ confirmed' = confirmed
    BY <1>4, StepKeeps DEF PhraseInv, OverlayBehindFirmware
  <1>5. CASE JobConfirmed
    <2>1. PICK keep \in BOOLEAN :
            /\ upload_valid /\ upload_part # "none" /\ confirmed' = ExpectedConfirmation
            /\ StartFlashJob(upload_part, completed_size, keep, upload_crc)
      BY <1>5 DEF JobConfirmed
    <2>2. CASE upload_part = "eeprom"
      <3>1. /\ job'.part = "factory" /\ job'.erase_offset = FactoryOffset
            /\ job'.erase_size = FactorySize /\ confirmed' = "WRITE-EEPROM"
        BY <2>1, <2>2 DEF StartFlashJob, StartEepromJob, ExpectedConfirmation
      <3> QED
        BY <3>1, SizesAssumption DEF PhraseInv, Partitions, Offset, Size, PhrasesFor
    <2>3. CASE upload_part = "ram"
      BY <2>1, <2>3 DEF StartFlashJob, StartImageJob, PhraseInv
    <2>4. CASE upload_part \notin {"eeprom", "ram"}
      <3>1. /\ job'.part = upload_part /\ job'.erase_offset = Offset(upload_part)
            /\ job'.erase_size = EraseSize(upload_part, completed_size, keep)
        BY <2>1, <2>4 DEF StartFlashJob, StartImageJob
      <3>2. upload_part \in Partitions /\ upload_part \in Targets
        BY <2>1, <2>4 DEF WebInv, WebData, Targets
      <3>3. SizeAccepted(upload_part, completed_size) /\ completed_size \in 0 .. FirmwareSize
        BY <2>1 DEF WebInv, WebData, ValidatedImageInBuffer
      <3>4. completed_size \in 1 .. FirmwareSize
        BY <3>3, SizesAssumption DEF SizeAccepted
      <3>5. EraseSize(upload_part, completed_size, keep) \in completed_size .. Size(upload_part)
        BY <3>2, <3>3, <3>4, EraseSizeBounds
      <3>6. Offset(upload_part) \in Nat /\ Size(upload_part) \in Nat
        BY <3>2, PartitionInFlash
      <3>7. upload_part # "firmware" => confirmed' \in PhrasesFor(upload_part)
        BY <2>1, <3>2 DEF Partitions, ExpectedConfirmation, PhrasesFor
      <3>8. /\ job'.erase_size \in Nat
            /\ job'.erase_offset + job'.erase_size <= Offset(upload_part) + Size(upload_part)
        BY <3>1, <3>4, <3>5, <3>6
      <3> QED
        BY <3>1, <3>2, <3>6, <3>7, <3>8 DEF PhraseInv
    <2> QED
      BY <2>2, <2>3, <2>4
  <1>6. CASE SettingsErased
    <2>1. PICK overlay \in 0 .. FirmwareOffset + FirmwareSize - 1 :
            StartEraseSettings(overlay)
      BY <1>6 DEF SettingsErased
    <2>2. /\ job'.mode = "erase_settings" /\ job'.part = "firmware"
          /\ job'.erase_offset = overlay
          /\ job'.erase_size = FirmwareOffset + FirmwareSize - overlay
      BY <2>1 DEF StartEraseSettings, NoJob
    <2> QED
      BY <2>2, SizesAssumption DEF PhraseInv, OverlayBehindFirmware, Partitions, Offset, Size
  <1> QED
    BY <1>2, <1>3, <1>4, <1>5, <1>6, JobCases

\* The partitions of the table do not overlap.
LEMMA PartitionsDisjoint ==
  ASSUME NEW p \in Partitions, NEW q \in Partitions, p # q
  PROVE  Offset(p) + Size(p) <= Offset(q) \/ Offset(q) + Size(q) <= Offset(p)
  BY SizesAssumption, LayoutAssumption DEF Partitions, Offset, Size

\* No job for a partition rewrites U-Boot, the environment or the factory
\* partition but with the phrase of that partition, whatever sizes, offsets and
\* images are involved: webflash_expected_confirmation() asks for it. Of the
\* settings resets this is said of those that erase from an overlay in the
\* firmware partition, which is what webflash_find_overlay() gives when its sum
\* does not wrap (OverlayInFirmwareAlways in Settings_proofs).
THEOREM RestoreNeedsPhraseAlways == Spec => []RestoreNeedsPhrase
  <1>1. Init => PhraseInv
    BY DEF Init, JobInit, NoJob, PhraseInv, JobActive, ActivePhases
  <1>2. (JobInv /\ WebInv) /\ PhraseInv /\ [Next]_webVars => PhraseInv'
    BY PhraseNext
  <1>3. PhraseInv => RestoreNeedsPhrase
    <2> SUFFICES ASSUME PhraseInv, JobActive, job.part # "ram",
                        OverlayBehindFirmware,
                        NEW p \in {"uboot", "environment", "factory"},
                        NEW a \in JobRange, a \in Area(p)
                 PROVE  confirmed \in PhrasesFor(p)
      BY DEF RestoreNeedsPhrase, ProtectedNeedsPhrase
    <2>1. /\ job.part \in Partitions /\ p \in Partitions
          /\ job.erase_offset \in Nat /\ job.erase_size \in Nat
          /\ Offset(job.part) <= job.erase_offset
          /\ job.erase_offset + job.erase_size <= Offset(job.part) + Size(job.part)
          /\ job.part # "firmware" => confirmed \in PhrasesFor(job.part)
      BY DEF PhraseInv, Partitions
    <2>2. /\ Offset(p) \in Nat /\ Size(p) \in Nat
          /\ Offset(job.part) \in Nat /\ Size(job.part) \in Nat
      BY <2>1, PartitionInFlash DEF Targets
    <2>3. job.part = p
      <3> SUFFICES ASSUME job.part # p PROVE FALSE
        OBVIOUS
      <3>1. \/ Offset(p) + Size(p) <= Offset(job.part)
            \/ Offset(job.part) + Size(job.part) <= Offset(p)
        BY <2>1, PartitionsDisjoint
      <3> QED
        BY <2>1, <2>2, <3>1 DEF JobRange, Area
    <2> QED
      BY <2>1, <2>3
  <1> QED
    BY <1>1, <1>2, <1>3, ServerSafe, PTL DEF Spec
=============================================================================
