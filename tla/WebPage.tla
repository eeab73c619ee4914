------------------------------- MODULE WebPage -------------------------------
(***************************************************************************)
(* The page of the recovery server (index.html of the vendor hlk-7621a) in *)
(* one or more browsers, and the server behind it.  A button starts a      *)
(* chain of requests; other buttons, and most of the time the same one,    *)
(* can be pressed before it has ended, so that a page has several chains   *)
(* under way.  Their requests reach the server in any order, and their     *)
(* answers the page; either may get lost.  The server is the one of module *)
(* WebFlash with uploads and jobs as single steps.                         *)
(***************************************************************************)
EXTENDS Integers, Sequences

CONSTANTS
  Pages,        \* browsers that show the page
  RawTargets,   \* the options of rawTarget
  Files,        \* target -> files: data, kind and whether the server takes it
  Macs,         \* MAC addresses a user may type in
  Factory,      \* content of the EEPROM at first: a record with cal and mac
  MaxClicks     \* bound on the number of clicks

ASSUME PageAssumption ==
  /\ "nobody" \notin Pages
  /\ RawTargets \subseteq {"factory", "environment", "uboot"}
  /\ {"firmware", "ram"} \cup RawTargets \subseteq DOMAIN Files
  /\ \A t \in DOMAIN Files : \A f \in Files[t] : f.kind \in {"openwrt", "openwrt-other", "foreign"}

VARIABLES
  page,     \* what each page's script keeps, and the chains it has under way
  up,       \* whether the server runs
  part,     \* ctx->upload_part, or "none"
  image,    \* the file in the upload buffer
  valid,    \* ctx->upload_valid
  origin,   \* history: the page the upload in the buffer came from
  job,      \* ctx->job: phase, part and data; with a history of how it was started
  reboot,   \* ctx->reboot_pending
  boot,     \* ctx->boot_pending, with a history of how it was set, or NoBoot
  factory,  \* the EEPROM in flash
  clicks    \* clicks so far

server   == <<up, part, image, valid, origin, job, reboot, boot, factory>>
pageVars == <<page, server, clicks>>

\* Data is what an EEPROM holds, calibration and address; of other files it only
\* tells them apart.
Data(x) == [cal |-> x, mac |-> x]

\* A factory partition whose job did not end well.
Junk == Data("junk")

NoFile  == [data |-> Data("none"), kind |-> "foreign", good |-> FALSE]
NoJob   == [phase |-> "idle"]
NoBoot  == [file |-> NoFile, shown |-> NoFile, own |-> TRUE, hasty |-> FALSE]

-----------------------------------------------------------------------------
(* The server.                                                              *)

\* webflash_operation_blocked()
Blocked == job.phase = "active" \/ reboot \/ boot # NoBoot

\* webflash_expected_confirmation()
ExpectedConfirmation(t, f) ==
  CASE t = "eeprom"      -> "WRITE-EEPROM"
    [] t = "uboot"       -> "RESTORE-UBOOT"
    [] t = "factory"     -> "RESTORE-FACTORY"
    [] t = "environment" -> "RESTORE-ENVIRONMENT"
    [] t = "firmware" /\ f.kind = "openwrt-other" -> "FLASH-OPENWRT-OTHER"
    [] t = "firmware" /\ f.kind = "foreign"       -> "FLASH-FOREIGN"
    [] OTHER -> "FLASH-FIRMWARE"

\* POST /api/upload; broken says that the body does not arrive completely.
ServerUpload(p, t, f, broken) ==
  /\ up /\ ~Blocked
  /\ origin' = p
  /\ part' = t /\ image' = f /\ valid' = (f.good /\ ~broken) /\ job' = NoJob
  /\ UNCHANGED <<up, reboot, boot, factory>>

\* Mutant of FlashAccepted: the phrase is not compared.
FlashAcceptedAny(phrase) == up /\ ~Blocked /\ part # "none" /\ valid

FlashAccepted(phrase) ==
  up /\ ~Blocked /\ part # "none" /\ valid /\ phrase = ExpectedConfirmation(part, image)

\* POST /api/flash; the job's history has what page p named and showed, whether
\* the upload was its own, and whether its uploads have overlapped other chains.
ServerFlash(p, c) ==
  /\ FlashAccepted(c.phrase)
  /\ job' = [phase |-> "active", part |-> part, file |-> image, named |-> c.target,
             shown |-> c.file, own |-> origin = p, hasty |-> page[p].hasty, before |-> factory]
  /\ UNCHANGED <<up, part, image, valid, origin, reboot, boot, factory>>

BootAccepted == up /\ ~Blocked /\ part = "ram" /\ valid

\* POST /api/boot-ram
ServerBoot(p, c) ==
  /\ BootAccepted
  /\ boot' = [file |-> image, shown |-> c.file, own |-> origin = p, hasty |-> page[p].hasty]
  /\ UNCHANGED <<up, part, image, valid, origin, job, reboot, factory>>

\* webflash_job_step() until the job has ended: what an EEPROM or factory job
\* leaves in flash, and the reboot that is due. A failed one leaves it half done.
JobDone ==
  /\ up /\ job.phase = "active"
  /\ job' = [job EXCEPT !.phase = "done"] /\ reboot' = TRUE
  /\ factory' = IF job.part \in {"eeprom", "factory"} THEN job.file.data ELSE factory
  /\ UNCHANGED <<up, part, image, valid, origin, boot>>

BrokenOff ==
  factory' \in {factory} \cup IF job.phase = "active" /\ job.part \in {"eeprom", "factory"} THEN {Junk} ELSE {}

JobFails ==
  /\ up /\ job.phase = "active"
  /\ job' = [job EXCEPT !.phase = "error"]
  /\ BrokenOff
  /\ UNCHANGED <<up, part, image, valid, origin, reboot, boot>>

\* A pending reboot or RAM boot, a Ctrl-C or a loss of power.
Stop ==
  /\ up /\ up' = FALSE
  /\ part' = "none" /\ image' = NoFile /\ valid' = FALSE /\ origin' = "nobody" /\ job' = NoJob
  /\ reboot' = FALSE /\ boot' = NoBoot
  /\ BrokenOff

\* The server is started again.
Start == ~up /\ up' = TRUE /\ UNCHANGED <<part, image, valid, origin, job, reboot, boot, factory>>

-----------------------------------------------------------------------------
(* Clicks. The view of a button is opened before; only the one of the EEPROM *)
(* sends a request when it is. A dialog that is cancelled changes nothing.   *)

\* firmwareReady and rawReady say that the button that writes is enabled too: it
\* is disabled when it is pressed, and enabled where they are set. hasty is a
\* history: an upload was started while another chain that writes or boots had
\* not ended.
FreshPage ==
  [ firmwareReady |-> FALSE, firmwareConfirm |-> "FLASH-FIRMWARE", firmwareShown |-> NoFile,
    rawTarget |-> "factory", rawReady |-> FALSE, rawShown |-> NoFile,
    ramEnabled |-> TRUE, view |-> "other",
    EB |-> Data("none"), eepromEnabled |-> FALSE,
    chains |-> {}, hasty |-> FALSE ]

\* The next request of a chain. target and file are what the page says it uploads
\* or writes; answer is that of the server, until the page gets it; id tells it
\* from the others of the page.
Chain(p, step, button, t, f, phrase) ==
  [ id |-> CHOOSE i \in 1 .. MaxClicks : \A c \in page[p].chains : c.id # i,
    step |-> step, button |-> button, target |-> t, file |-> f, phrase |-> phrase, answer |-> "none" ]

\* The handlers of index.html: what the page keeps, and the chains they start.
Click(p, view, next, started) ==
  /\ clicks < MaxClicks /\ clicks' = clicks + 1
  /\ page' = [page EXCEPT ![p] = [next EXCEPT !.view = view, !.chains = @ \cup started]]
  /\ UNCHANGED server

\* upload()
ClickUpload(p, view, next, button, t, f) ==
  Click(p, view, [next EXCEPT !.hasty = @ \/ \E c \in page[p].chains : c.step # "read"],
        {Chain(p, "upload", button, t, f, "none")})

\* startFlash()
ClickFlash(p, next, button, phrase, t, f) ==
  Click(p, "other", next, {Chain(p, "flash", button, t, f, phrase)})

\* Mutant of FirmwareUpload: what was ready before stays ready.
FirmwareUploadKeep(p, f) == ClickUpload(p, "other", page[p], "firmware", "firmware", f)

\* firmwareUpload.onclick
FirmwareUpload(p, f) ==
  ClickUpload(p, "other", [page[p] EXCEPT !.firmwareReady = FALSE], "firmware", "firmware", f)

\* firmwareFlash.onclick
FirmwareFlash(p) ==
  /\ page[p].firmwareReady
  /\ ClickFlash(p, [page[p] EXCEPT !.firmwareReady = FALSE],
                "firmware", page[p].firmwareConfirm, "firmware", page[p].firmwareShown)

\* ramBoot.onclick
RamBoot(p, f) ==
  /\ page[p].ramEnabled
  /\ ClickUpload(p, "other", [page[p] EXCEPT !.ramEnabled = FALSE], "ram", "ram", f)

\* rawTarget.onchange
SelectTarget(p, t) == Click(p, "other", [page[p] EXCEPT !.rawTarget = t, !.rawReady = FALSE], {})

\* rawUpload.onclick
RawUpload(p, f) ==
  ClickUpload(p, "other", [page[p] EXCEPT !.rawReady = FALSE], "raw", page[p].rawTarget, f)

RawPhrase(t) ==
  CASE t = "uboot" -> "RESTORE-UBOOT" [] t = "factory" -> "RESTORE-FACTORY" [] OTHER -> "RESTORE-ENVIRONMENT"

\* rawRestore.onclick, with the phrase the page asks for typed in.
RawRestore(p) ==
  /\ page[p].rawReady
  /\ ClickFlash(p, [page[p] EXCEPT !.rawReady = FALSE],
                "raw", RawPhrase(page[p].rawTarget), page[p].rawTarget, page[p].rawShown)

\* LE(): the tab is opened, or the button pressed.
ReadEeprom(p) == Click(p, "eeprom", page[p], {Chain(p, "read", "reload", "none", NoFile, "none")})

\* eepromWrite.onclick: CE() puts the typed address into what was read.
WriteEeprom(p, m) ==
  /\ page[p].eepromEnabled /\ page[p].view = "eeprom"
  /\ ClickUpload(p, "eeprom", [page[p] EXCEPT !.eepromEnabled = FALSE], "eeprom", "eeprom",
                 [data |-> [page[p].EB EXCEPT !.mac = m], kind |-> "foreign", good |-> TRUE])

-----------------------------------------------------------------------------
(* Requests of a chain and their answers.                                   *)

\* The chain c of page p goes on as one of the set next.
Goes(p, c, kept, next) ==
  /\ page' = [page EXCEPT ![p] = [kept EXCEPT !.chains = (@ \ {c}) \cup next]]
  /\ UNCHANGED clicks

\* The server deals with the request; its answer is on its way.
Served(p, c, answer, f) == Goes(p, c, page[p], {[c EXCEPT !.answer = answer, !.file = f]})

Waiting(c, step) == c.step = step /\ c.answer = "none"

Upload(p, c) ==
  /\ Waiting(c, "upload")
  /\ \E broken \in BOOLEAN : ServerUpload(p, c.target, c.file, broken)
  /\ Served(p, c, IF valid' THEN "good" ELSE "bad", c.file)

Flash(p, c) == Waiting(c, "flash") /\ ServerFlash(p, c) /\ Served(p, c, "good", c.file)

BootRam(p, c) == Waiting(c, "boot") /\ ServerBoot(p, c) /\ Served(p, c, "good", c.file)

\* webflash_eeprom_info() answers unless the server is busy.
Read(p, c) ==
  /\ Waiting(c, "read") /\ up /\ ~Blocked
  /\ Served(p, c, "good", [NoFile EXCEPT !.data = factory])
  /\ UNCHANGED server

\* What the page keeps of the good answer to the last request of c.
Resolved(p, c) ==
  CASE c.step = "upload" /\ c.button = "firmware" ->
         [page[p] EXCEPT !.firmwareReady = TRUE, !.firmwareShown = c.file,
                         !.firmwareConfirm = ExpectedConfirmation("firmware", c.file)]
    [] c.step = "upload" /\ c.button = "raw" -> [page[p] EXCEPT !.rawReady = TRUE, !.rawShown = c.file]
    [] c.step = "read" -> [page[p] EXCEPT !.EB = c.file.data, !.eepromEnabled = TRUE]
    [] c.step = "flash" /\ c.button = "raw" -> [page[p] EXCEPT !.view = "other"]
    [] OTHER -> page[p]

\* The next request after an upload for the EEPROM or for RAM.
Continued(c) ==
  CASE c.step = "upload" /\ c.button = "eeprom" ->
         {[c EXCEPT !.step = "flash", !.phrase = "WRITE-EEPROM", !.answer = "none"]}
    [] c.step = "upload" /\ c.button = "ram" -> {[c EXCEPT !.step = "boot", !.answer = "none"]}
    [] OTHER -> {}

\* The page gets a good answer.
Answered(p, c) ==
  /\ c.answer = "good" /\ Goes(p, c, Resolved(p, c), Continued(c))
  /\ UNCHANGED server

\* The catch of a chain: the request or its answer is lost, or the server is busy,
\* not there, or does not accept it. A button that was disabled for the chain
\* comes back, but for the ones that start a job.
Failed(p, c) ==
  /\ Goes(p, c, [page[p] EXCEPT !.eepromEnabled = @ \/ c.button = "eeprom",
                                !.ramEnabled = @ \/ c.button = "ram"], {})
  /\ UNCHANGED server

PageInit ==
  /\ page = [p \in Pages |-> FreshPage] /\ clicks = 0
  /\ up = TRUE /\ part = "none" /\ image = NoFile /\ valid = FALSE /\ origin = "nobody"
  /\ job = NoJob /\ reboot = FALSE /\ boot = NoBoot /\ factory = Factory

Clicks(p) ==
  \/ \E f \in Files["firmware"] : FirmwareUpload(p, f)
  \/ FirmwareFlash(p)
  \/ \E f \in Files["ram"] : RamBoot(p, f)
  \/ \E t \in RawTargets \ {page[p].rawTarget} : SelectTarget(p, t)
  \/ \E f \in Files[page[p].rawTarget] : RawUpload(p, f)
  \/ RawRestore(p)
  \/ ReadEeprom(p)
  \/ \E m \in Macs : WriteEeprom(p, m)

Requests(p) ==
  \E c \in page[p].chains :
    Upload(p, c) \/ Flash(p, c) \/ BootRam(p, c) \/ Read(p, c) \/ Answered(p, c) \/ Failed(p, c)

Server == JobDone \/ JobFails \/ Stop \/ Start

PageNext ==
  \/ \E p \in Pages : Clicks(p) \/ Requests(p)
  \/ Server /\ UNCHANGED <<page, clicks>>

PageSpec == PageInit /\ [][PageNext]_pageVars

-----------------------------------------------------------------------------
(* What the page promises.                                                  *)

\* A job writes the partition that the button said, whatever the pages have
\* uploaded since and in whichever order requests and answers went: the phrase of
\* firmwareFlash, rawRestore or eepromWrite is not accepted for an upload of
\* another kind. The exception is the phrase for firmware of this device, which
\* webflash_expected_confirmation() also expects for an image to be booted from
\* RAM (RamNotFlashed, below, is refuted).
ButtonWritesTarget ==
  job # NoJob =>
    job.part = job.named \/ (job.part = "ram" /\ job.named = "firmware" /\ job.shown.kind = "openwrt")

\* What is written or booted is the very file whose checks the page has shown,
\* though requests and answers get lost, uploads break off and the device
\* restarts, as long as the upload in the buffer is the page's own and the page
\* started none while a chain of its own was under way: an upload takes the
\* readiness of its own button away, and that of another is for another target.
\* (Without these conditions it is refuted: ShownIsWritten, below.) Images for a
\* RAM boot that firmwareFlash writes are left to ButtonWritesTarget.
WritesShown ==
  /\ job # NoJob /\ job.part # "ram" /\ job.own /\ ~job.hasty => job.file = job.shown
  /\ boot.own /\ ~boot.hasty => boot.file = boot.shown

-----------------------------------------------------------------------------
(* The inductive invariant behind these.                                    *)

Raws == {"factory", "environment", "uboot"}

\* What the chains of the buttons are about.
ChainOK(c) ==
  /\ DOMAIN c = {"id", "step", "button", "target", "file", "phrase", "answer"}
  /\ \/ c.button = "firmware" /\ c.target = "firmware" /\ c.step \in {"upload", "flash"}
        /\ c.file \in Files["firmware"]
     \/ c.button = "raw" /\ c.target \in Raws /\ c.step \in {"upload", "flash"}
     \/ c.button = "eeprom" /\ c.target = "eeprom" /\ c.step \in {"upload", "flash"}
     \/ c.button = "ram" /\ c.target = "ram" /\ c.step \in {"upload", "boot"} /\ c.file \in Files["ram"]
     \/ c.button = "reload" /\ c.step = "read"

\* A chain that starts a job sends the phrase of its target.
PhraseOK(c) ==
  c.step = "flash" =>
    /\ c.button = "firmware" => c.phrase = ExpectedConfirmation("firmware", c.file)
    /\ c.button = "raw" => c.phrase = RawPhrase(c.target)
    /\ c.button = "eeprom" => c.phrase = "WRITE-EEPROM"

\* What a page q that is ready to write would send.
ReadyOK(q) ==
  /\ q.rawTarget \in Raws
  /\ q.firmwareReady =>
       /\ q.firmwareShown \in Files["firmware"]
       /\ q.firmwareConfirm = ExpectedConfirmation("firmware", q.firmwareShown)

\* If the uploads of p have not overlapped its chains, there is one upload at a
\* time, its button is not ready and has no other chain; and what the page is
\* about to write or boot is what it uploaded last for that target. The buffer
\* holds file f for target t, uploaded by o; q is what p keeps.
CalmOK(p, q, o, t, f) ==
  ~q.hasty =>
    /\ \A c \in q.chains : c.step = "upload" =>
         /\ \A d \in q.chains : d.step # "read" /\ d.button = c.button => d = c
         /\ \A d \in q.chains : d.step = "upload" => d = c
         /\ c.button = "firmware" => ~q.firmwareReady
         /\ c.button = "raw" => ~q.rawReady
         /\ c.answer # "none" /\ o = p => t = c.target /\ f = c.file
    /\ \A c \in q.chains : c.step \in {"flash", "boot"} /\ o = p /\ t = c.target => f = c.file
    /\ q.firmwareReady /\ o = p /\ t = "firmware" => f = q.firmwareShown
    /\ q.rawReady /\ o = p /\ t = q.rawTarget => f = q.rawShown

PageOK(p, q, o, t, f) ==
  /\ DOMAIN q = DOMAIN FreshPage
  /\ \A c \in q.chains : ChainOK(c) /\ PhraseOK(c)
  /\ ReadyOK(q) /\ CalmOK(p, q, o, t, f)

\* A job writes what was shown where the button said; or else firmware for this
\* device was to be flashed and an image uploaded for a RAM boot is.
JobAsShown ==
  job # NoJob =>
    /\ DOMAIN job = {"phase", "part", "file", "named", "shown", "own", "hasty", "before"}
    /\ \/ job.part = job.named /\ (job.own /\ ~job.hasty => job.file = job.shown)
       \/ /\ job.part = "ram" /\ job.file \in Files["ram"] /\ job.named = "firmware"
          /\ job.shown \in Files["firmware"] /\ job.shown.kind = "openwrt"

BootAsShown == boot.own /\ ~boot.hasty => boot.file = boot.shown

\* What an upload can be for; RAM images come from the button for them.
PartInv ==
  /\ part \in {"none", "firmware", "ram", "eeprom"} \cup Raws
  /\ part = "ram" => image \in Files["ram"]

PageInv ==
  /\ DOMAIN page = Pages
  /\ \A p \in Pages : PageOK(p, page[p], origin, part, image)
  /\ PartInv /\ JobAsShown /\ BootAsShown

-----------------------------------------------------------------------------
(* What the page says and does not keep: TLC refutes these.                 *)

\* What is written is what was shown: the page's dialog is about the file it has
\* checked (firmwareFlash.onclick). Another page's upload of the same kind, or a
\* second upload of the page itself whose answer is still to come, replaces it.
ShownIsWritten == job # NoJob /\ job.part # "ram" => job.file = job.shown

\* The same if the upload was the page's own.
OwnIsWritten == job # NoJob /\ job.part # "ram" /\ job.own => job.file = job.shown

\* What is uploaded for a RAM boot is not written to flash (ramBoot.onclick).
RamNotFlashed == job # NoJob => job.part # "ram"

\* Saving the MAC address changes nothing else of an intact EEPROM
\* (eepromWrite.onclick).
EepromOnlyMac ==
  job # NoJob /\ job.named = "eeprom" /\ job.before # Junk => job.file.data.cal = job.before.cal
=============================================================================
