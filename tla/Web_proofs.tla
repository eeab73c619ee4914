----------------------------- MODULE Web_proofs -----------------------------
(***************************************************************************)
(* Theorems about the two ends of an HTTP exchange: the page the recovery  *)
(* server sends (module WebPage) and the requests it puts together from    *)
(* what TCP delivers (module HttpRx).                                      *)
(***************************************************************************)
EXTENDS WebPage, HttpRx, SequenceTheorems, WellFoundedInduction, TLAPS

\* The fields of a page's state.
LEMMA PageFields ==
  DOMAIN FreshPage =
    {"firmwareReady", "firmwareConfirm", "firmwareShown", "rawTarget", "rawReady", "rawShown",
     "ramEnabled", "view", "EB", "eepromEnabled", "chains", "hasty"}
  BY DEF FreshPage

\* The parts of a page's state that the invariant is about.
Same(q, r) ==
  /\ DOMAIN r = DOMAIN FreshPage /\ r.hasty = q.hasty
  /\ r.firmwareReady = q.firmwareReady /\ r.firmwareShown = q.firmwareShown
  /\ r.firmwareConfirm = q.firmwareConfirm
  /\ r.rawTarget = q.rawTarget /\ r.rawReady = q.rawReady /\ r.rawShown = q.rawShown

LEMMA WithChains ==
  ASSUME NEW q, DOMAIN q = DOMAIN FreshPage, NEW S, NEW r, r = [q EXCEPT !.chains = S]
  PROVE  Same(q, r) /\ r.chains = S
  BY PageFields DEF Same

\* A page that does nothing, while the buffer gets somebody else's upload.
LEMMA OtherPage ==
  ASSUME NEW p, NEW q, NEW o, NEW t, NEW f, NEW o1, NEW t1, NEW f1,
         PageOK(p, q, o, t, f), o1 # p
  PROVE  PageOK(p, q, o1, t1, f1)
  BY DEF PageOK, CalmOK

\* A step of one page, with what it does to the server.
LEMMA PageFrame ==
  ASSUME PageInv, NEW p \in Pages, NEW next, page' = [page EXCEPT ![p] = next],
         UNCHANGED <<origin, part, image>> \/ origin' = p,
         PageOK(p, next, origin', part', image'), PartInv', JobAsShown', BootAsShown'
  PROVE  PageInv'
  <1>1. DOMAIN page' = Pages /\ page'[p] = next /\ \A q \in Pages \ {p} : page'[q] = page[q]
    BY DEF PageInv
  <1>2. ASSUME NEW q \in Pages \ {p}
        PROVE  PageOK(q, page'[q], origin', part', image')
    <2>1. PageOK(q, page[q], origin, part, image) /\ page'[q] = page[q]
      BY <1>1 DEF PageInv
    <2>2. CASE UNCHANGED <<origin, part, image>>
      BY <2>1, <2>2
    <2>3. CASE origin' = p
      <3>1. origin' # q
        BY <2>3
      <3> QED
        BY <2>1, <3>1, OtherPage
    <2> QED
      BY <2>2, <2>3
  <1>3. \A q \in Pages : PageOK(q, page'[q], origin', part', image')
    BY <1>1, <1>2
  <1> QED
    BY <1>1, <1>3 DEF PageInv

\* A step that changes one page and nothing else.
LEMMA QuietFrame ==
  ASSUME PageInv, NEW p \in Pages, NEW next, page' = [page EXCEPT ![p] = next], UNCHANGED server,
         PageOK(p, next, origin, part, image)
  PROVE  PageInv'
  <1>1. UNCHANGED <<origin, part, image, job, boot>>
    BY DEF server
  <1>2. PartInv' /\ JobAsShown' /\ BootAsShown'
    BY <1>1 DEF PageInv, PartInv, JobAsShown, BootAsShown
  <1> QED
    BY <1>1, <1>2, PageFrame

-----------------------------------------------------------------------------
(* The clicks.                                                              *)

LEMMA ClickFrame ==
  ASSUME PageInv, NEW p \in Pages, NEW view, NEW next, DOMAIN next = DOMAIN FreshPage, NEW S,
         Click(p, view, next, S),
         \A r : Same(next, r) /\ r.chains = next.chains \cup S => PageOK(p, r, origin, part, image)
  PROVE  PageInv'
  <1> DEFINE r == [next EXCEPT !.view = view, !.chains = @ \cup S]
  <1>1. page' = [page EXCEPT ![p] = r] /\ UNCHANGED server
    BY DEF Click
  <1>2. Same(next, r) /\ r.chains = next.chains \cup S
    BY PageFields DEF Same
  <1> HIDE DEF r
  <1> QED
    BY <1>1, <1>2, QuietFrame

\* A page before a click.
LEMMA PageFacts ==
  ASSUME PageInv, NEW p \in Pages
  PROVE  PageOK(p, page[p], origin, part, image) /\ DOMAIN page[p] = DOMAIN FreshPage
  BY DEF PageInv, PageOK

LEMMA NewChain ==
  ASSUME NEW p, NEW step, NEW button, NEW t, NEW f, NEW phrase, NEW c,
         c = Chain(p, step, button, t, f, phrase)
  PROVE  /\ DOMAIN c = {"id", "step", "button", "target", "file", "phrase", "answer"}
         /\ c.step = step /\ c.button = button /\ c.target = t /\ c.file = f /\ c.phrase = phrase
         /\ c.answer = "none"
  BY DEF Chain

\* The page q becomes next and starts an upload.
LEMMA UploadClick ==
  ASSUME PageInv, NEW p \in Pages, NEW view, NEW next, NEW button, NEW t, NEW f,
         ClickUpload(p, view, next, button, t, f),
         DOMAIN next = DOMAIN FreshPage,
         next.hasty = page[p].hasty /\ next.chains = page[p].chains,
         next.firmwareReady => page[p].firmwareReady,
         next.firmwareShown = page[p].firmwareShown,
         next.firmwareConfirm = page[p].firmwareConfirm,
         next.rawTarget = page[p].rawTarget, next.rawShown = page[p].rawShown,
         next.rawReady => page[p].rawReady,
         button = "firmware" => ~next.firmwareReady, button = "raw" => ~next.rawReady,
         ChainOK(Chain(p, "upload", button, t, f, "none"))
  PROVE  PageInv'
  <1> DEFINE q  == page[p]
             h  == q.hasty \/ \E c \in q.chains : c.step # "read"
             n  == [next EXCEPT !.hasty = @ \/ \E c \in page[p].chains : c.step # "read"]
             c0 == Chain(p, "upload", button, t, f, "none")
  <1>1. /\ DOMAIN n = DOMAIN FreshPage /\ n.hasty = h /\ n.chains = q.chains
        /\ n.firmwareReady = next.firmwareReady /\ n.firmwareShown = next.firmwareShown
        /\ n.firmwareConfirm = next.firmwareConfirm /\ n.rawTarget = next.rawTarget
        /\ n.rawReady = next.rawReady /\ n.rawShown = next.rawShown
    BY PageFields
  <1>2. Click(p, view, n, {c0})
    BY DEF ClickUpload
  <1>3. ASSUME NEW r, Same(n, r), r.chains = n.chains \cup {c0}
        PROVE  PageOK(p, r, origin, part, image)
    <2>1. /\ DOMAIN r = DOMAIN FreshPage /\ r.hasty = h /\ r.chains = q.chains \cup {c0}
          /\ (r.firmwareReady => q.firmwareReady) /\ r.firmwareShown = q.firmwareShown
          /\ r.firmwareConfirm = q.firmwareConfirm /\ r.rawTarget = q.rawTarget
          /\ (r.rawReady => q.rawReady) /\ r.rawShown = q.rawShown
          /\ (button = "firmware" => ~r.firmwareReady) /\ (button = "raw" => ~r.rawReady)
      BY <1>1, <1>3 DEF Same
    <2>2. PageOK(p, q, origin, part, image)
      BY PageFacts
    <2>3. c0.step = "upload" /\ c0.answer = "none" /\ c0.button = button /\ ChainOK(c0) /\ PhraseOK(c0)
      BY NewChain DEF PhraseOK
    <2> HIDE DEF q, c0
    <2>4. ReadyOK(r) /\ \A c \in r.chains : ChainOK(c) /\ PhraseOK(c)
      BY <2>1, <2>2, <2>3 DEF PageOK, ReadyOK
    <2>5. CalmOK(p, r, origin, part, image)
      <3>1. CASE ~h
        <4>1. \A c \in r.chains : c = c0 \/ c.step = "read"
          BY <2>1, <3>1
        <4>2. ~q.hasty
          BY <3>1
        <4> QED
          BY <2>1, <2>2, <2>3, <4>1, <4>2 DEF PageOK, CalmOK
      <3>2. CASE h
        BY <2>1, <3>2 DEF CalmOK
      <3> QED
        BY <3>1, <3>2
    <2> QED
      BY <2>1, <2>4, <2>5 DEF PageOK
  <1> HIDE DEF n, c0
  <1> QED
    BY <1>1, <1>2, <1>3, ClickFrame

\* The page q becomes next, starts a job and is not ready for another of the button.
LEMMA FlashClick ==
  ASSUME PageInv, NEW p \in Pages, NEW next, NEW button, NEW phrase, NEW t, NEW f,
         ClickFlash(p, next, button, phrase, t, f),
         DOMAIN next = DOMAIN FreshPage,
         next.hasty = page[p].hasty /\ next.chains = page[p].chains,
         next.firmwareReady => page[p].firmwareReady,
         next.firmwareShown = page[p].firmwareShown,
         next.firmwareConfirm = page[p].firmwareConfirm,
         next.rawTarget = page[p].rawTarget, next.rawShown = page[p].rawShown,
         next.rawReady => page[p].rawReady,
         \/ /\ button = "firmware" /\ page[p].firmwareReady /\ t = "firmware"
            /\ f = page[p].firmwareShown /\ phrase = page[p].firmwareConfirm
         \/ /\ button = "raw" /\ page[p].rawReady /\ t = page[p].rawTarget
            /\ f = page[p].rawShown /\ phrase = RawPhrase(t)
  PROVE  PageInv'
  <1> DEFINE q  == page[p]
             c0 == Chain(p, "flash", button, t, f, phrase)
  <1>1. Click(p, "other", next, {c0})
    BY DEF ClickFlash
  <1>2. ASSUME NEW r, Same(next, r), r.chains = next.chains \cup {c0}
        PROVE  PageOK(p, r, origin, part, image)
    <2>1. /\ DOMAIN r = DOMAIN FreshPage /\ r.hasty = q.hasty /\ r.chains = q.chains \cup {c0}
          /\ (r.firmwareReady => q.firmwareReady) /\ r.firmwareShown = q.firmwareShown
          /\ r.firmwareConfirm = q.firmwareConfirm /\ r.rawTarget = q.rawTarget
          /\ (r.rawReady => q.rawReady) /\ r.rawShown = q.rawShown
      BY <1>2 DEF Same
    <2>2. PageOK(p, q, origin, part, image)
      BY PageFacts
    <2>3. /\ DOMAIN c0 = {"id", "step", "button", "target", "file", "phrase", "answer"}
          /\ c0.step = "flash" /\ c0.button = button /\ c0.target = t /\ c0.file = f
          /\ c0.phrase = phrase
      BY NewChain
    <2> HIDE DEF q, c0
    <2>4. ChainOK(c0) /\ PhraseOK(c0)
      BY <2>2, <2>3 DEF PageOK, ReadyOK, ChainOK, PhraseOK, q
    <2>5. ReadyOK(r) /\ \A c \in r.chains : ChainOK(c) /\ PhraseOK(c)
      BY <2>1, <2>2, <2>4 DEF PageOK, ReadyOK
    <2>6. CalmOK(p, r, origin, part, image)
      <3>1. ASSUME ~q.hasty
            PROVE  /\ \A c \in q.chains : c.step = "upload" => c.button # button
                   /\ origin = p /\ part = c0.target => image = c0.file
        BY <2>2, <2>3, <3>1 DEF PageOK, CalmOK, q
      <3> QED
        BY <2>1, <2>2, <2>3, <3>1 DEF PageOK, CalmOK
    <2> QED
      BY <2>1, <2>5, <2>6 DEF PageOK
  <1> HIDE DEF c0
  <1> QED
    BY <1>1, <1>2, ClickFrame

\* firmwareUpload.onclick, ramBoot.onclick, rawUpload.onclick, eepromWrite.onclick
LEMMA UploadClicks ==
  ASSUME PageInv, NEW p \in Pages,
         \/ \E f \in Files["firmware"] : FirmwareUpload(p, f)
         \/ \E f \in Files["ram"] : RamBoot(p, f)
         \/ \E f \in Files[page[p].rawTarget] : RawUpload(p, f)
         \/ \E m \in Macs : WriteEeprom(p, m)
  PROVE  PageInv'
  <1>1. DOMAIN page[p] = DOMAIN FreshPage /\ page[p].rawTarget \in Raws
    BY PageFacts DEF PageOK, ReadyOK
  <1>2. ASSUME NEW f \in Files["firmware"], FirmwareUpload(p, f)
        PROVE  PageInv'
    <2> DEFINE next == [page[p] EXCEPT !.firmwareReady = FALSE]
    <2>1. ChainOK(Chain(p, "upload", "firmware", "firmware", f, "none"))
      BY NewChain DEF ChainOK
    <2>2. /\ DOMAIN next = DOMAIN FreshPage /\ ~next.firmwareReady /\ next.hasty = page[p].hasty
          /\ next.chains = page[p].chains /\ next.firmwareShown = page[p].firmwareShown
          /\ next.firmwareConfirm = page[p].firmwareConfirm /\ next.rawTarget = page[p].rawTarget
          /\ next.rawReady = page[p].rawReady /\ next.rawShown = page[p].rawShown
      BY <1>1, PageFields
    <2>3. ClickUpload(p, "other", next, "firmware", "firmware", f)
      BY <1>2 DEF FirmwareUpload
    <2> HIDE DEF next
    <2> QED
      BY <2>1, <2>2, <2>3, UploadClick
  <1>3. ASSUME NEW f \in Files["ram"], RamBoot(p, f)
        PROVE  PageInv'
    <2> DEFINE next == [page[p] EXCEPT !.ramEnabled = FALSE]
    <2>1. ChainOK(Chain(p, "upload", "ram", "ram", f, "none"))
      BY NewChain DEF ChainOK
    <2>2. /\ DOMAIN next = DOMAIN FreshPage /\ next.firmwareReady = page[p].firmwareReady
          /\ next.hasty = page[p].hasty
          /\ next.chains = page[p].chains /\ next.firmwareShown = page[p].firmwareShown
          /\ next.firmwareConfirm = page[p].firmwareConfirm /\ next.rawTarget = page[p].rawTarget
          /\ next.rawReady = page[p].rawReady /\ next.rawShown = page[p].rawShown
      BY <1>1, PageFields
    <2>3. ClickUpload(p, "other", next, "ram", "ram", f)
      BY <1>3 DEF RamBoot
    <2> HIDE DEF next
    <2> QED
      BY <2>1, <2>2, <2>3, UploadClick
  <1>4. ASSUME NEW f, RawUpload(p, f)
        PROVE  PageInv'
    <2> DEFINE next == [page[p] EXCEPT !.rawReady = FALSE]
    <2>1. ChainOK(Chain(p, "upload", "raw", page[p].rawTarget, f, "none"))
      BY <1>1, NewChain DEF ChainOK
    <2>2. /\ DOMAIN next = DOMAIN FreshPage /\ next.firmwareReady = page[p].firmwareReady
          /\ next.hasty = page[p].hasty
          /\ next.chains = page[p].chains /\ next.firmwareShown = page[p].firmwareShown
          /\ next.firmwareConfirm = page[p].firmwareConfirm /\ next.rawTarget = page[p].rawTarget
          /\ ~next.rawReady /\ next.rawShown = page[p].rawShown
      BY <1>1, PageFields
    <2>3. ClickUpload(p, "other", next, "raw", page[p].rawTarget, f)
      BY <1>4 DEF RawUpload
    <2> HIDE DEF next
    <2> QED
      BY <2>1, <2>2, <2>3, UploadClick
  <1>5. ASSUME NEW m \in Macs, WriteEeprom(p, m)
        PROVE  PageInv'
    <2> DEFINE next == [page[p] EXCEPT !.eepromEnabled = FALSE]
               f    == [data |-> [page[p].EB EXCEPT !.mac = m], kind |-> "foreign", good |-> TRUE]
    <2>1. ClickUpload(p, "eeprom", next, "eeprom", "eeprom", f)
      BY <1>5 DEF WriteEeprom
    <2>2. /\ DOMAIN next = DOMAIN FreshPage /\ next.firmwareReady = page[p].firmwareReady
          /\ next.hasty = page[p].hasty
          /\ next.chains = page[p].chains /\ next.firmwareShown = page[p].firmwareShown
          /\ next.firmwareConfirm = page[p].firmwareConfirm /\ next.rawTarget = page[p].rawTarget
          /\ next.rawReady = page[p].rawReady /\ next.rawShown = page[p].rawShown
      BY <1>1, PageFields
    <2> HIDE DEF next, f
    <2>3. ChainOK(Chain(p, "upload", "eeprom", "eeprom", f, "none"))
      BY NewChain DEF ChainOK
    <2> QED
      BY <2>1, <2>2, <2>3, UploadClick
  <1> QED
    BY <1>2, <1>3, <1>4, <1>5

\* firmwareFlash.onclick, rawRestore.onclick
LEMMA FlashClicks ==
  ASSUME PageInv, NEW p \in Pages, FirmwareFlash(p) \/ RawRestore(p)
  PROVE  PageInv'
  <1>1. DOMAIN page[p] = DOMAIN FreshPage
    BY PageFacts
  <1>2. CASE FirmwareFlash(p)
    <2> DEFINE next == [page[p] EXCEPT !.firmwareReady = FALSE]
    <2>1. /\ DOMAIN next = DOMAIN FreshPage /\ ~next.firmwareReady /\ next.hasty = page[p].hasty
          /\ next.chains = page[p].chains /\ next.firmwareShown = page[p].firmwareShown
          /\ next.firmwareConfirm = page[p].firmwareConfirm /\ next.rawTarget = page[p].rawTarget
          /\ next.rawReady = page[p].rawReady /\ next.rawShown = page[p].rawShown
      BY <1>1, PageFields
    <2>2. page[p].firmwareReady /\ ClickFlash(p, next, "firmware", page[p].firmwareConfirm,
                                              "firmware", page[p].firmwareShown)
      BY <1>2 DEF FirmwareFlash
    <2> HIDE DEF next
    <2> QED
      BY <2>1, <2>2, FlashClick
  <1>3. CASE RawRestore(p)
    <2> DEFINE next == [page[p] EXCEPT !.rawReady = FALSE]
    <2>1. /\ DOMAIN next = DOMAIN FreshPage /\ next.firmwareReady = page[p].firmwareReady
          /\ next.hasty = page[p].hasty
          /\ next.chains = page[p].chains /\ next.firmwareShown = page[p].firmwareShown
          /\ next.firmwareConfirm = page[p].firmwareConfirm /\ next.rawTarget = page[p].rawTarget
          /\ ~next.rawReady /\ next.rawShown = page[p].rawShown
      BY <1>1, PageFields
    <2>2. page[p].rawReady /\ ClickFlash(p, next, "raw", RawPhrase(page[p].rawTarget),
                                         page[p].rawTarget, page[p].rawShown)
      BY <1>3 DEF RawRestore
    <2> HIDE DEF next
    <2> QED
      BY <2>1, <2>2, FlashClick
  <1> QED
    BY <1>2, <1>3

\* rawTarget.onchange, and LE()
LEMMA OtherClicks ==
  ASSUME PageInv, NEW p \in Pages, (\E t \in RawTargets : SelectTarget(p, t)) \/ ReadEeprom(p)
  PROVE  PageInv'
  <1> DEFINE q == page[p]
  <1>1. PageOK(p, q, origin, part, image) /\ DOMAIN q = DOMAIN FreshPage
    BY PageFacts
  <1>2. ASSUME NEW t \in RawTargets, SelectTarget(p, t)
        PROVE  PageInv'
    <2> DEFINE next == [page[p] EXCEPT !.rawTarget = t, !.rawReady = FALSE]
    <2>1. /\ DOMAIN next = DOMAIN FreshPage /\ next.firmwareReady = q.firmwareReady
          /\ next.hasty = q.hasty
          /\ next.chains = q.chains /\ next.firmwareShown = q.firmwareShown
          /\ next.firmwareConfirm = q.firmwareConfirm /\ next.rawTarget = t /\ ~next.rawReady
      BY <1>1, PageFields
    <2>2. Click(p, "other", next, {})
      BY <1>2 DEF SelectTarget
    <2>3. t \in Raws
      BY PageAssumption DEF Raws
    <2> HIDE DEF next, q
    <2>4. ASSUME NEW r, Same(next, r), r.chains = next.chains \cup {}
          PROVE  PageOK(p, r, origin, part, image)
      <3>1. /\ DOMAIN r = DOMAIN FreshPage /\ r.firmwareReady = q.firmwareReady /\ r.hasty = q.hasty
            /\ r.chains = q.chains /\ r.firmwareShown = q.firmwareShown
            /\ r.firmwareConfirm = q.firmwareConfirm /\ r.rawTarget = t /\ ~r.rawReady
        BY <2>1, <2>4 DEF Same
      <3> QED
        BY <1>1, <2>3, <3>1 DEF PageOK, ReadyOK, CalmOK
    <2> QED
      BY <2>1, <2>2, <2>4, ClickFrame
  <1>3. CASE ReadEeprom(p)
    <2> DEFINE c0 == Chain(p, "read", "reload", "none", NoFile, "none")
    <2>1. Click(p, "eeprom", page[p], {c0})
      BY <1>3 DEF ReadEeprom
    <2>2. c0.step = "read" /\ ChainOK(c0) /\ PhraseOK(c0)
      BY NewChain DEF ChainOK, PhraseOK
    <2> HIDE DEF c0
    <2>3. ASSUME NEW r, Same(q, r), r.chains = q.chains \cup {c0}
          PROVE  PageOK(p, r, origin, part, image)
      <3> HIDE DEF q
      <3> QED
        BY <1>1, <2>2, <2>3 DEF PageOK, ReadyOK, CalmOK, Same
    <2> QED
      BY <1>1, <2>1, <2>3, ClickFrame
  <1> QED
    BY <1>2, <1>3

-----------------------------------------------------------------------------
(* Requests and answers.                                                    *)

\* A chain that ends leaves the others.
LEMMA ChainEnds ==
  ASSUME NEW p, NEW q, NEW o, NEW t, NEW f, PageOK(p, q, o, t, f),
         NEW c, NEW r, Same(q, r), r.chains = q.chains \ {c}
  PROVE  PageOK(p, r, o, t, f)
  BY DEF PageOK, ReadyOK, CalmOK, Same

\* A chain that is served, but for uploads, has an answer and is otherwise the same.
LEMMA ChainServed ==
  ASSUME NEW p, NEW q, NEW o, NEW t, NEW f, PageOK(p, q, o, t, f),
         NEW c \in q.chains, c.step # "upload", NEW d,
         DOMAIN d = DOMAIN c, d.step = c.step, d.button = c.button, d.target = c.target,
         d.phrase = c.phrase, c.step # "read" => d.file = c.file,
         NEW r, Same(q, r), r.chains = (q.chains \ {c}) \cup {d}
  PROVE  PageOK(p, r, o, t, f)
  <1>1. ChainOK(d) /\ PhraseOK(d)
    BY DEF PageOK, ChainOK, PhraseOK
  <1>2. ReadyOK(r) /\ \A x \in r.chains : ChainOK(x) /\ PhraseOK(x)
    BY <1>1 DEF PageOK, ReadyOK, Same
  <1>3. CalmOK(p, r, o, t, f)
    <2> SUFFICES ASSUME ~q.hasty PROVE CalmOK(p, r, o, t, f)
      BY DEF CalmOK, Same
    <2>1. ASSUME NEW x \in r.chains, x.step = "upload"
          PROVE  /\ x \in q.chains
                 /\ \A y \in r.chains : y.step # "read" /\ y.button = x.button => y = x
                 /\ \A y \in r.chains : y.step = "upload" => y = x
      BY <2>1 DEF PageOK, CalmOK
    <2>2. ASSUME NEW x \in r.chains, x.step \in {"flash", "boot"}, o = p, t = x.target
          PROVE  f = x.file
      BY <2>2 DEF PageOK, CalmOK
    <2> QED
      BY <2>1, <2>2 DEF PageOK, CalmOK, Same
  <1> QED
    BY <1>2, <1>3 DEF PageOK, Same

\* The phrase says what is to be written, except that an image uploaded for a RAM
\* boot takes the phrase of firmware for this device.
LEMMA PhraseFits ==
  ASSUME NEW c, ChainOK(c), PhraseOK(c), c.step = "flash", PartInv, FlashAccepted(c.phrase)
  PROVE  \/ part = c.target
         \/ /\ part = "ram" /\ c.target = "firmware"
            /\ c.file \in Files["firmware"] /\ c.file.kind = "openwrt"
  <1>1. part # "none" /\ c.phrase = ExpectedConfirmation(part, image)
    BY DEF FlashAccepted
  <1>2. CASE c.button = "firmware"
    <2>1. /\ c.target = "firmware" /\ c.file \in Files["firmware"]
          /\ c.phrase = ExpectedConfirmation("firmware", c.file)
      BY <1>2 DEF ChainOK, PhraseOK
    <2>2. c.file.kind \in {"openwrt", "openwrt-other", "foreign"}
      BY <2>1, PageAssumption
    <2> QED
      BY <1>1, <2>1, <2>2 DEF ExpectedConfirmation, PartInv, Raws
  <1>3. CASE c.button = "raw"
    <2>1. c.target \in Raws /\ c.phrase = RawPhrase(c.target)
      BY <1>3 DEF ChainOK, PhraseOK
    <2> QED
      BY <1>1, <2>1 DEF ExpectedConfirmation, RawPhrase, PartInv, Raws
  <1>4. CASE c.button = "eeprom"
    <2>1. c.target = "eeprom" /\ c.phrase = "WRITE-EEPROM"
      BY <1>4 DEF ChainOK, PhraseOK
    <2> QED
      BY <1>1, <2>1 DEF ExpectedConfirmation, PartInv, Raws
  <1> QED
    BY <1>2, <1>3, <1>4 DEF ChainOK

\* Requests that the server accepts, but for uploads.
LEMMA ServedInv ==
  ASSUME PageInv, NEW p \in Pages, NEW c \in page[p].chains,
         Flash(p, c) \/ BootRam(p, c) \/ Read(p, c)
  PROVE  PageInv'
  <1> DEFINE q == page[p]
  <1>1. /\ PageOK(p, q, origin, part, image) /\ DOMAIN q = DOMAIN FreshPage
        /\ ChainOK(c) /\ PhraseOK(c) /\ PartInv /\ JobAsShown /\ BootAsShown
    BY PageFacts DEF PageInv, PageOK
  <1>2. /\ c.step \in {"flash", "boot", "read"} /\ UNCHANGED <<origin, part, image>>
        /\ \E a, f : Served(p, c, a, f) /\ (c.step # "read" => f = c.file)
    BY DEF Flash, BootRam, Read, Waiting, ServerFlash, ServerBoot, server
  <1>3. PICK a, f : Served(p, c, a, f) /\ (c.step # "read" => f = c.file)
    BY <1>2
  <1> DEFINE d == [c EXCEPT !.answer = a, !.file = f]
             r == [q EXCEPT !.chains = (@ \ {c}) \cup {d}]
  <1>4. page' = [page EXCEPT ![p] = r]
    BY <1>3 DEF Served, Goes
  <1>5. /\ DOMAIN d = DOMAIN c /\ d.step = c.step /\ d.button = c.button /\ d.target = c.target
        /\ d.phrase = c.phrase /\ d.file = f
    BY <1>1 DEF ChainOK
  <1>6. Same(q, r) /\ r.chains = (q.chains \ {c}) \cup {d}
    BY <1>1, WithChains
  <1>7. PageOK(p, r, origin', part', image')
    <2> HIDE DEF d, r, q
    <2>1. c \in q.chains
      BY DEF q
    <2>2. PageOK(p, r, origin, part, image)
      BY <1>1, <1>2, <1>3, <1>5, <1>6, <2>1, ChainServed
    <2> QED
      BY <1>2, <2>2
  <1>8. PartInv'
    BY <1>1, <1>2 DEF PartInv
  <1> HIDE DEF d, r
  <1>9. CASE Flash(p, c)
    <2>1. /\ c.step = "flash" /\ FlashAccepted(c.phrase) /\ boot' = boot
          /\ job' = [phase |-> "active", part |-> part, file |-> image, named |-> c.target,
                     shown |-> c.file, own |-> origin = p, hasty |-> q.hasty, before |-> factory]
      BY <1>9 DEF Flash, ServerFlash, Waiting
    <2>2. /\ part = c.target => (origin = p /\ ~q.hasty => image = c.file)
          /\ \/ part = c.target
             \/ /\ part = "ram" /\ image \in Files["ram"] /\ c.target = "firmware"
                /\ c.file \in Files["firmware"] /\ c.file.kind = "openwrt"
      <3>1. part = c.target => (origin = p /\ ~q.hasty => image = c.file)
        BY <1>1, <2>1 DEF PageOK, CalmOK
      <3> QED
        BY <1>1, <2>1, <3>1, PhraseFits DEF PartInv
    <2> HIDE DEF q
    <2>3. JobAsShown'
      BY <2>1, <2>2 DEF JobAsShown
    <2>4. BootAsShown'
      BY <1>1, <2>1 DEF BootAsShown
    <2> QED
      BY <1>2, <1>4, <1>7, <1>8, <2>3, <2>4, PageFrame
  <1>10. CASE BootRam(p, c)
    <2>1. /\ c.step = "boot" /\ part = "ram" /\ job' = job
          /\ boot' = [file |-> image, shown |-> c.file, own |-> origin = p, hasty |-> q.hasty]
      BY <1>10 DEF BootRam, ServerBoot, BootAccepted, Waiting
    <2>2. origin = p /\ ~q.hasty => image = c.file
      <3>1. c.target = "ram"
        BY <1>1, <2>1 DEF ChainOK
      <3> QED
        BY <1>1, <2>1, <3>1 DEF PageOK, CalmOK
    <2> HIDE DEF q
    <2>3. BootAsShown' /\ JobAsShown'
      BY <1>1, <2>1, <2>2 DEF BootAsShown, JobAsShown
    <2> QED
      BY <1>2, <1>4, <1>7, <1>8, <2>3, PageFrame
  <1>11. CASE Read(p, c)
    <2>1. job' = job /\ boot' = boot
      BY <1>11 DEF Read, server
    <2>2. BootAsShown' /\ JobAsShown'
      BY <1>1, <2>1 DEF BootAsShown, JobAsShown
    <2> QED
      BY <1>2, <1>4, <1>7, <1>8, <2>2, PageFrame
  <1> QED
    BY <1>9, <1>10, <1>11

\* POST /api/upload reaches the server: the buffer has the page's own file.
LEMMA UploadInv ==
  ASSUME PageInv, NEW p \in Pages, NEW c \in page[p].chains, Upload(p, c)
  PROVE  PageInv'
  <1> DEFINE q == page[p]
  <1>1. /\ PageOK(p, q, origin, part, image) /\ DOMAIN q = DOMAIN FreshPage
        /\ ChainOK(c) /\ BootAsShown
    BY PageFacts DEF PageInv, PageOK
  <1>2. /\ c.step = "upload" /\ c.answer = "none"
        /\ origin' = p /\ part' = c.target /\ image' = c.file /\ job' = NoJob /\ boot' = boot
        /\ \E a : a # "none" /\ Served(p, c, a, c.file)
    <2>1. /\ c.step = "upload" /\ c.answer = "none"
          /\ origin' = p /\ part' = c.target /\ image' = c.file /\ job' = NoJob /\ boot' = boot
          /\ Served(p, c, IF valid' THEN "good" ELSE "bad", c.file)
      BY DEF Upload, Waiting, ServerUpload
    <2>2. (IF valid' THEN "good" ELSE "bad") # "none"
      OBVIOUS
    <2> QED
      BY <2>1, <2>2
  <1>3. PICK a : a # "none" /\ Served(p, c, a, c.file)
    BY <1>2
  <1> DEFINE d == [c EXCEPT !.answer = a, !.file = c.file]
             r == [q EXCEPT !.chains = (@ \ {c}) \cup {d}]
  <1>4. page' = [page EXCEPT ![p] = r]
    BY <1>3 DEF Served, Goes
  <1>5. /\ DOMAIN d = DOMAIN c /\ d.step = "upload" /\ d.button = c.button /\ d.target = c.target
        /\ d.phrase = c.phrase /\ d.file = c.file /\ d.answer = a
    BY <1>1, <1>2 DEF ChainOK
  <1>6. Same(q, r) /\ r.chains = (q.chains \ {c}) \cup {d}
    BY <1>1, WithChains
  <1>7. c \in q.chains
    OBVIOUS
  <1>8. /\ part' \in {"firmware", "ram", "eeprom"} \cup Raws
        /\ part' = "ram" => image' \in Files["ram"]
    BY <1>1, <1>2 DEF ChainOK, Raws
  <1>9. PartInv' /\ JobAsShown' /\ BootAsShown'
    BY <1>1, <1>2, <1>8 DEF PartInv, JobAsShown, BootAsShown
  <1> HIDE DEF q, d, r
  <1>10. PageOK(p, r, p, c.target, c.file)
    <2>1. ChainOK(d) /\ PhraseOK(d)
      BY <1>1, <1>2, <1>5 DEF ChainOK, PhraseOK
    <2>2. ReadyOK(r) /\ \A x \in r.chains : ChainOK(x) /\ PhraseOK(x)
      BY <1>1, <1>6, <2>1 DEF PageOK, ReadyOK, Same
    <2>3. ASSUME ~q.hasty
          PROVE  CalmOK(p, r, p, c.target, c.file)
      <3>1. /\ \A y \in q.chains : y.step # "read" /\ y.button = c.button => y = c
            /\ \A y \in q.chains : y.step = "upload" => y = c
            /\ c.button = "firmware" => ~q.firmwareReady
            /\ c.button = "raw" => ~q.rawReady
        BY <1>1, <1>2, <1>7, <2>3 DEF PageOK, CalmOK
      <3>2. \A x \in r.chains : x.step = "upload" => x = d
        BY <1>6, <3>1
      <3>3. \A y \in r.chains : y.step # "read" /\ y.button = c.button => y = d
        BY <1>6, <3>1
      <3>4. ASSUME NEW x \in r.chains, x.step \in {"flash", "boot"}, c.target = x.target
            PROVE  FALSE
        <4>1. x \in q.chains /\ x.step # "upload" /\ x # c
          BY <1>2, <1>5, <1>6, <3>4
        <4>2. ChainOK(x) /\ x.button # c.button
          BY <1>1, <3>1, <3>4, <4>1 DEF PageOK
        <4> QED
          BY <1>1, <1>2, <3>4, <4>2 DEF ChainOK, Raws
      <3>5. c.target = "firmware" => ~r.firmwareReady
        BY <1>1, <1>2, <1>6, <3>1 DEF ChainOK, Raws, Same
      <3>6. c.target = r.rawTarget => ~r.rawReady
        <4>1. r.rawTarget \in Raws
          BY <2>2 DEF ReadyOK
        <4> QED
          BY <1>1, <1>2, <1>6, <3>1, <4>1 DEF ChainOK, Raws, Same
      <3>7. (c.button = "firmware" => ~r.firmwareReady) /\ (c.button = "raw" => ~r.rawReady)
        BY <1>6, <3>1 DEF Same
      <3> QED
        BY <1>5, <3>2, <3>3, <3>4, <3>5, <3>6, <3>7 DEF CalmOK
    <2>4. CASE q.hasty
      BY <1>6, <2>2, <2>4 DEF PageOK, CalmOK, Same
    <2> QED
      BY <1>6, <2>2, <2>3, <2>4 DEF PageOK, Same
  <1>11. PageOK(p, r, origin', part', image')
    BY <1>2, <1>10
  <1> QED
    BY <1>2, <1>4, <1>9, <1>11, PageFrame

\* The page gets a good answer.
LEMMA AnsweredInv ==
  ASSUME PageInv, NEW p \in Pages, NEW c \in page[p].chains, Answered(p, c)
  PROVE  PageInv'
  <1> DEFINE q    == page[p]
             kept == Resolved(p, c)
             S    == Continued(c)
             r    == [kept EXCEPT !.chains = (@ \ {c}) \cup S]
  <1>1. /\ PageOK(p, q, origin, part, image) /\ DOMAIN q = DOMAIN FreshPage
        /\ c \in q.chains /\ ChainOK(c) /\ c.answer = "good"
    BY PageFacts DEF PageInv, PageOK, Answered
  <1>2. page' = [page EXCEPT ![p] = r] /\ UNCHANGED server
    BY DEF Answered, Goes
  <1>3. SUFFICES PageOK(p, r, origin, part, image)
    <2> HIDE DEF r
    <2> QED
      BY <1>2, <1>3, QuietFrame
  <1>4. ASSUME ~q.hasty, c.step = "upload"
        PROVE  /\ \A x \in q.chains \ {c} : x.step # "upload"
               /\ origin = p => part = c.target /\ image = c.file
    BY <1>1, <1>4 DEF PageOK, CalmOK
  <1>5. CASE c.step = "upload" /\ c.button = "firmware"
    <2>1. kept = [page[p] EXCEPT !.firmwareReady = TRUE, !.firmwareShown = c.file,
                                 !.firmwareConfirm = ExpectedConfirmation("firmware", c.file)]
      BY <1>5 DEF Resolved
    <2>2. S = {}
      BY <1>5 DEF Continued
    <2>3. /\ DOMAIN kept = DOMAIN FreshPage /\ kept.hasty = q.hasty /\ kept.chains = q.chains
          /\ kept.firmwareReady /\ kept.firmwareShown = c.file
          /\ kept.firmwareConfirm = ExpectedConfirmation("firmware", c.file)
          /\ kept.rawTarget = q.rawTarget /\ kept.rawReady = q.rawReady /\ kept.rawShown = q.rawShown
      BY <1>1, <2>1, PageFields
    <2> HIDE DEF kept, q, S
    <2>4. Same(kept, r) /\ r.chains = q.chains \ {c}
      BY <2>2, <2>3, WithChains
    <2> HIDE DEF r
    <2>5. c.file \in Files["firmware"] /\ c.target = "firmware"
      BY <1>1, <1>5 DEF ChainOK
    <2>6. ReadyOK(r) /\ \A x \in r.chains : ChainOK(x) /\ PhraseOK(x)
      BY <1>1, <2>3, <2>4, <2>5 DEF PageOK, ReadyOK, Same
    <2>7. CalmOK(p, r, origin, part, image)
      BY <1>1, <1>4, <1>5, <2>3, <2>4, <2>5 DEF PageOK, CalmOK, Same
    <2> QED
      BY <2>4, <2>6, <2>7 DEF PageOK, Same
  <1>6. CASE c.step = "upload" /\ c.button = "raw"
    <2>1. kept = [page[p] EXCEPT !.rawReady = TRUE, !.rawShown = c.file]
      BY <1>6 DEF Resolved
    <2>2. S = {}
      BY <1>6 DEF Continued
    <2>3. /\ DOMAIN kept = DOMAIN FreshPage /\ kept.hasty = q.hasty /\ kept.chains = q.chains
          /\ kept.firmwareReady = q.firmwareReady /\ kept.firmwareShown = q.firmwareShown
          /\ kept.firmwareConfirm = q.firmwareConfirm
          /\ kept.rawTarget = q.rawTarget /\ kept.rawReady /\ kept.rawShown = c.file
      BY <1>1, <2>1, PageFields
    <2> HIDE DEF kept, q, S
    <2>4. Same(kept, r) /\ r.chains = q.chains \ {c}
      BY <2>2, <2>3, WithChains
    <2> HIDE DEF r
    <2>5. ReadyOK(r) /\ \A x \in r.chains : ChainOK(x) /\ PhraseOK(x)
      BY <1>1, <2>3, <2>4 DEF PageOK, ReadyOK, Same
    <2>6. CalmOK(p, r, origin, part, image)
      BY <1>1, <1>4, <1>6, <2>3, <2>4 DEF PageOK, CalmOK, Same
    <2> QED
      BY <2>4, <2>5, <2>6 DEF PageOK, Same
  <1>7. CASE c.step = "upload" /\ c.button \in {"eeprom", "ram"}
    <2>1. kept = q
      BY <1>7 DEF Resolved
    <2>2. PICK d : /\ S = {d} /\ DOMAIN d = DOMAIN c /\ d.button = c.button /\ d.target = c.target
                   /\ d.file = c.file
                   /\ \/ c.button = "eeprom" /\ d.step = "flash" /\ d.phrase = "WRITE-EEPROM"
                      \/ c.button = "ram" /\ d.step = "boot"
      <3>1. CASE c.button = "eeprom"
        <4> DEFINE d == [c EXCEPT !.step = "flash", !.phrase = "WRITE-EEPROM", !.answer = "none"]
        <4>1. S = {d}
          BY <1>7, <3>1 DEF Continued
        <4>2. /\ DOMAIN d = DOMAIN c /\ d.button = c.button /\ d.target = c.target
              /\ d.file = c.file /\ d.step = "flash" /\ d.phrase = "WRITE-EEPROM"
          BY <1>1 DEF ChainOK
        <4> HIDE DEF d, S
        <4> QED
          BY <3>1, <4>1, <4>2
      <3>2. CASE c.button = "ram"
        <4> DEFINE d == [c EXCEPT !.step = "boot", !.answer = "none"]
        <4>1. S = {d}
          BY <1>7, <3>2 DEF Continued
        <4>2. /\ DOMAIN d = DOMAIN c /\ d.button = c.button /\ d.target = c.target
              /\ d.file = c.file /\ d.step = "boot"
          BY <1>1 DEF ChainOK
        <4> HIDE DEF d, S
        <4> QED
          BY <3>2, <4>1, <4>2
      <3> QED
        BY <1>7, <3>1, <3>2
    <2> HIDE DEF kept, q, S
    <2>3. Same(q, r) /\ r.chains = (q.chains \ {c}) \cup {d}
      BY <1>1, <2>1, <2>2, WithChains
    <2> HIDE DEF r
    <2>4. ChainOK(d) /\ PhraseOK(d)
      BY <1>1, <1>7, <2>2 DEF ChainOK, PhraseOK
    <2>5. ReadyOK(r) /\ \A x \in r.chains : ChainOK(x) /\ PhraseOK(x)
      BY <1>1, <2>3, <2>4 DEF PageOK, ReadyOK, Same
    <2>6. CalmOK(p, r, origin, part, image)
      <3> SUFFICES ASSUME ~q.hasty PROVE CalmOK(p, r, origin, part, image)
        BY <2>3 DEF CalmOK, Same
      <3>1. \A x \in r.chains : x.step # "upload"
        BY <1>4, <1>7, <2>2, <2>3
      <3>2. origin = p => image = d.file
        BY <1>4, <1>7, <2>2
      <3> QED
        BY <1>1, <2>3, <3>1, <3>2 DEF PageOK, CalmOK, Same
    <2> QED
      BY <2>3, <2>5, <2>6 DEF PageOK, Same
  <1>8. CASE c.step # "upload"
    <2>1. S = {}
      BY <1>8 DEF Continued
    <2>2. Same(q, kept) /\ kept.chains = q.chains
      <3>1. \/ kept = [page[p] EXCEPT !.EB = c.file.data, !.eepromEnabled = TRUE]
            \/ kept = [page[p] EXCEPT !.view = "other"]
            \/ kept = page[p]
        BY <1>8 DEF Resolved
      <3> HIDE DEF kept
      <3> QED
        BY <1>1, <3>1, PageFields DEF Same
    <2> HIDE DEF kept, q, S
    <2>3. Same(kept, r) /\ r.chains = q.chains \ {c}
      BY <2>1, <2>2, WithChains DEF Same
    <2> HIDE DEF r
    <2>4. Same(q, r)
      BY <2>2, <2>3 DEF Same
    <2> QED
      BY <1>1, <2>3, <2>4, ChainEnds
  <1> QED
    BY <1>1, <1>5, <1>6, <1>7, <1>8 DEF ChainOK

\* A request or its answer is lost, or it is refused.
LEMMA FailedInv ==
  ASSUME PageInv, NEW p \in Pages, NEW c \in page[p].chains, Failed(p, c)
  PROVE  PageInv'
  <1> DEFINE q    == page[p]
             kept == [page[p] EXCEPT !.eepromEnabled = @ \/ c.button = "eeprom",
                                     !.ramEnabled = @ \/ c.button = "ram"]
             r    == [kept EXCEPT !.chains = (@ \ {c}) \cup {}]
  <1>1. PageOK(p, q, origin, part, image) /\ DOMAIN q = DOMAIN FreshPage
    BY PageFacts
  <1>2. page' = [page EXCEPT ![p] = r] /\ UNCHANGED server
    BY DEF Failed, Goes
  <1>3. Same(q, kept) /\ kept.chains = q.chains
    BY <1>1, PageFields DEF Same
  <1> HIDE DEF kept, q
  <1>4. Same(kept, r) /\ r.chains = q.chains \ {c}
    BY <1>3, WithChains DEF Same
  <1> HIDE DEF r
  <1>5. Same(q, r)
    BY <1>3, <1>4 DEF Same
  <1>6. PageOK(p, r, origin, part, image)
    BY <1>1, <1>4, <1>5, ChainEnds
  <1> QED
    BY <1>2, <1>6, QuietFrame

\* The job ends, the server stops or is started.
LEMMA ServerInv ==
  ASSUME PageInv, Server, UNCHANGED <<page, clicks>>
  PROVE  PageInv'
  <1>1. UNCHANGED <<origin, part, image>> \/ (part' = "none" /\ origin' = "nobody")
    BY DEF Server, JobDone, JobFails, Stop, Start
  <1>2. ASSUME NEW p \in Pages
        PROVE  PageOK(p, page'[p], origin', part', image')
    <2>1. PageOK(p, page[p], origin, part, image) /\ page'[p] = page[p]
      BY DEF PageInv
    <2>2. CASE UNCHANGED <<origin, part, image>>
      BY <2>1, <2>2
    <2>3. CASE origin' = "nobody"
      <3>1. origin' # p
        BY <2>3, PageAssumption
      <3> QED
        BY <2>1, <3>1, OtherPage
    <2> QED
      BY <1>1, <2>2, <2>3
  <1>3. BootAsShown'
    BY DEF PageInv, BootAsShown, Server, JobDone, JobFails, Stop, Start, NoBoot
  <1>4. JobAsShown'
    <2>1. CASE job' = job \/ job' = NoJob
      BY <2>1 DEF JobAsShown, PageInv
    <2>2. CASE JobDone \/ JobFails
      <3>1. job.phase = "active" /\ (\E ph \in {"done", "error"} : job' = [job EXCEPT !.phase = ph])
        BY <2>2 DEF JobDone, JobFails
      <3>2. job # NoJob
        BY <3>1 DEF NoJob
      <3> QED
        BY <3>1, <3>2 DEF PageInv, JobAsShown
    <2> QED
      BY <2>1, <2>2 DEF Server, Stop, Start
  <1>5. PartInv' /\ DOMAIN page' = Pages
    BY <1>1 DEF PageInv, PartInv
  <1> QED
    BY <1>2, <1>3, <1>4, <1>5 DEF PageInv

\* Every step.
LEMMA PageInvNext ==
  ASSUME PageInv, [PageNext]_pageVars
  PROVE  PageInv'
  <1>1. CASE UNCHANGED pageVars
    BY <1>1 DEF pageVars, server, PageInv, JobAsShown, BootAsShown, PartInv
  <1>2. ASSUME NEW p \in Pages, Clicks(p) PROVE PageInv'
    BY <1>2, UploadClicks, FlashClicks, OtherClicks DEF Clicks
  <1>3. ASSUME NEW p \in Pages, Requests(p) PROVE PageInv'
    BY <1>3, UploadInv, ServedInv, AnsweredInv, FailedInv DEF Requests
  <1> QED
    BY <1>1, <1>2, <1>3, ServerInv DEF PageNext

\* The pages are opened and the server has nothing.
LEMMA PageInvInit == PageInit => PageInv
  <1> SUFFICES ASSUME PageInit PROVE PageInv
    OBVIOUS
  <1>1. /\ DOMAIN page = Pages /\ \A p \in Pages : page[p] = FreshPage
        /\ part = "none" /\ job = NoJob /\ boot = NoBoot
    BY DEF PageInit
  <1>2. ASSUME NEW p \in Pages PROVE PageOK(p, page[p], origin, part, image)
    <2>1. /\ FreshPage.chains = {} /\ ~FreshPage.firmwareReady /\ ~FreshPage.rawReady
          /\ FreshPage.rawTarget = "factory"
      BY DEF FreshPage
    <2> QED
      BY <1>1, <2>1 DEF PageOK, ReadyOK, CalmOK, Raws
  <1>3. BootAsShown
    BY <1>1 DEF NoBoot, BootAsShown
  <1> QED
    BY <1>1, <1>2, <1>3 DEF PageInv, JobAsShown, PartInv

\* The invariant of the pages and the server.
THEOREM PageInvariant == PageSpec => []PageInv
  <1>1. PageInv /\ [PageNext]_pageVars => PageInv'
    BY PageInvNext
  <1> QED
    BY <1>1, PageInvInit, PTL DEF PageSpec

\* A button writes the partition it names, for every number of pages and clicks
\* and in whichever order requests and answers go; only an image for a RAM boot
\* gets the phrase of firmware for this device.
THEOREM ButtonWritesTargetAlways == PageSpec => []ButtonWritesTarget
  <1>1. PageInv => ButtonWritesTarget
    BY DEF PageInv, JobAsShown, ButtonWritesTarget
  <1> QED
    BY <1>1, PageInvariant, PTL

\* What is written or booted is what the page has shown, if the upload is the
\* page's own and its uploads have not overlapped its chains.
THEOREM WritesShownAlways == PageSpec => []WritesShown
  <1>1. PageInv => WritesShown
    BY DEF PageInv, JobAsShown, BootAsShown, WritesShown
  <1> QED
    BY <1>1, PageInvariant, PTL

-----------------------------------------------------------------------------
(* Requests: the stream and its parts.                                      *)

Stream(s) == s \in Seq({s[i] : i \in DOMAIN s})

\* Induction over the naturals, in its first-order form.
LEMMA LeastMember ==
  ASSUME NEW T, T \subseteq Nat, T # {}
  PROVE  Min(T) \in T /\ \A y \in T : Min(T) <= y
  <1>1. PICK x \in T : \A y \in T : <<y, x>> \notin OpToRel(<, Nat)
    BY WFMin, NatLessThanWellFounded
  <1>2. \A y \in T : ~(y < x)
    BY <1>1 DEF OpToRel
  <1>3. \E z \in T : \A y \in T : z <= y
    BY <1>2
  <1> QED
    BY <1>3 DEF Min

LEMMA StreamPart ==
  ASSUME NEW s, Stream(s), NEW m \in Nat \ {0}, NEW n \in Nat, n <= Len(s)
  PROVE  /\ Len(s) \in Nat /\ Stream(SubSeq(s, m, n))
         /\ SubSeq(s, m, n) \in Seq({s[i] : i \in DOMAIN s})
         /\ Len(SubSeq(s, m, n)) = (IF m <= n THEN n - m + 1 ELSE 0)
         /\ \A i \in 1 .. n - m + 1 : SubSeq(s, m, n)[i] = s[m + i - 1]
  <1> DEFINE S == {s[i] : i \in DOMAIN s}
             p == SubSeq(s, m, n)
  <1>1. s \in Seq(S) /\ Len(s) \in Nat
    BY LenProperties DEF Stream
  <1>2. \A i \in m .. n : s[i] \in S
    BY <1>1, LenProperties
  <1> HIDE DEF S
  <1>3. /\ p \in Seq(S) /\ Len(p) = (IF m <= n THEN n - m + 1 ELSE 0)
        /\ \A i \in 1 .. n - m + 1 : p[i] = s[m + i - 1]
    BY <1>2, SubSeqProperties
  <1>4. Stream(p)
    <2> DEFINE R == {p[i] : i \in DOMAIN p}
    <2>1. p \in [1 .. Len(p) -> R] /\ Len(p) \in Nat
      BY <1>3, LenProperties
    <2> HIDE DEF R
    <2>2. p \in Seq(R)
      BY <2>1, SeqDef
    <2> QED
      BY <2>2 DEF Stream, R
  <1> QED
    BY <1>1, <1>3, <1>4 DEF S

\* Parts that follow each other.
LEMMA Glue ==
  ASSUME NEW s, Stream(s), NEW m \in Nat \ {0}, NEW k \in Nat, NEW n \in Nat,
         m <= k + 1, k <= n, n <= Len(s)
  PROVE  SubSeq(s, m, k) \o SubSeq(s, k + 1, n) = SubSeq(s, m, n)
  <1>1. /\ Len(s) \in Nat /\ m \in 1 .. Len(s) + 1 /\ k \in m - 1 .. Len(s) /\ n \in k .. Len(s)
    BY LenProperties DEF Stream
  <1> QED
    BY <1>1, ConcatAdjacentSubSeq DEF Stream

\* A part of a part.
LEMMA Cut ==
  ASSUME NEW s, Stream(s), NEW k \in Nat, NEW m \in Nat, k + m <= Len(s),
         NEW a \in Nat \ {0}, NEW b \in Nat, b <= m
  PROVE  SubSeq(SubSeq(s, k + 1, k + m), a, b) = SubSeq(s, k + a, k + b)
  <1> DEFINE p == SubSeq(s, k + 1, k + m)
             S == {s[i] : i \in DOMAIN s}
             l == SubSeq(p, a, b)
             r == SubSeq(s, k + a, k + b)
  <1>0. Len(s) \in Nat
    BY LenProperties DEF Stream
  <1>1. /\ p \in Seq(S) /\ Stream(p) /\ Len(p) = m /\ \A i \in 1 .. m : p[i] = s[k + i]
    <2>1. /\ p \in Seq(S) /\ Stream(p) /\ Len(p) = (IF k + 1 <= k + m THEN k + m - (k + 1) + 1 ELSE 0)
          /\ \A i \in 1 .. k + m - (k + 1) + 1 : p[i] = s[k + 1 + i - 1]
      BY <1>0, StreamPart
    <2> QED
      BY <2>1
  <1>2. /\ r \in Seq(S) /\ Len(r) = (IF k + a <= k + b THEN k + b - (k + a) + 1 ELSE 0)
        /\ \A i \in 1 .. k + b - (k + a) + 1 : r[i] = s[k + a + i - 1]
    BY <1>0, StreamPart
  <1> HIDE DEF p, S, r
  <1>3. \A i \in a .. b : p[i] \in S
    BY <1>1, ElementOfSeq
  <1>4. /\ l \in Seq(S) /\ Len(l) = (IF a <= b THEN b - a + 1 ELSE 0)
        /\ \A i \in 1 .. b - a + 1 : l[i] = p[a + i - 1]
    BY <1>3, SubSeqProperties
  <1> HIDE DEF l
  <1>5. Len(l) = Len(r) /\ \A i \in 1 .. Len(l) : l[i] = r[i]
    <2>1. CASE a > b
      BY <1>2, <1>4, <2>1
    <2>2. CASE a <= b
      <3>1. Len(l) = b - a + 1 /\ Len(r) = b - a + 1
        BY <1>2, <1>4, <2>2
      <3>2. ASSUME NEW i \in 1 .. b - a + 1
            PROVE  l[i] = r[i]
        <4>1. i \in 1 .. k + b - (k + a) + 1 /\ a + i - 1 \in 1 .. m
          BY <2>2, <3>2
        <4>2. l[i] = p[a + i - 1] /\ r[i] = s[k + a + i - 1] /\ p[a + i - 1] = s[k + (a + i - 1)]
          BY <1>1, <1>2, <1>4, <3>2, <4>1
        <4>3. k + (a + i - 1) = k + a + i - 1
          BY <3>2
        <4> QED
          BY <4>2, <4>3
      <3> QED
        BY <3>1, <3>2
    <2> QED
      BY <2>1, <2>2
  <1>6. l = r
    BY <1>2, <1>4, <1>5, SeqEqual
  <1> QED
    BY <1>6 DEF l, r, p

\* The test for the empty line looks at the last four units.
LEMMA CompleteAt ==
  ASSUME NEW s, Stream(s), NEW n \in Nat, n <= Len(s)
  PROVE  Complete(SubSeq(s, 1, n)) <=> n \in HeaderEnds(s, n)
  <1>1. Len(s) \in Nat /\ Len(SubSeq(s, 1, n)) = n
    BY StreamPart
  <1>2. CASE n < 4
    BY <1>1, <1>2 DEF Complete, HeaderEnds
  <1>3. CASE n >= 4
    <2>1. SubSeq(SubSeq(s, 0 + 1, 0 + n), n - 3, n) = SubSeq(s, 0 + (n - 3), 0 + n)
      BY <1>3, Cut
    <2>2. SubSeq(SubSeq(s, 1, n), n - 3, n) = SubSeq(s, n - 3, n)
      BY <1>3, <2>1
    <2> QED
      BY <1>1, <1>3, <2>2 DEF Complete, HeaderEnds
  <1> QED
    BY <1>2, <1>3

-----------------------------------------------------------------------------
(* Requests: what webflash_consume() does with a part of the stream.        *)

\* The longest body of a request.
LEMMA MostNat == \A first : Most(first) \in Nat
  BY HttpRxAssumption DEF Most

LEMMA FitsNat ==
  ASSUME NEW first, NEW n, Fits(first, n)
  PROVE  n \in Nat /\ n > 0 /\ n <= Most(first)
  BY MostNat DEF Fits

IsCtx(c) == DOMAIN c = {"rx_state", "header", "length", "body", "reply"}

LEMMA AnswerFields ==
  ASSUME NEW c, IsCtx(c), NEW status
  PROVE  LET a == Answer(c, status)
         IN  /\ IsCtx(a) /\ a.rx_state = "replied" /\ a.reply = status
             /\ a.header = c.header /\ a.length = c.length /\ a.body = c.body
  BY DEF Answer, IsCtx

\* More of the stream does not change an answer.
LEMMA AnsweredLater ==
  ASSUME NEW c, NEW s, NEW dev, NEW k \in Nat, NEW n \in Nat, k <= n,
         Finished(c, s, k, dev) \/ Settled(c, s, k, dev)
  PROVE  Finished(c, s, n, dev) \/ Settled(c, s, n, dev)
  <1>1. HasHeader(c, s, k) => HasHeader(c, s, n) /\ Len(c.header) \in Nat
    BY DEF HasHeader
  <1>2. CASE Finished(c, s, k, dev)
    <2> DEFINE h == Len(c.header)
               b == Len(c.body)
    <2>1. c.length \in Int /\ b \in Int /\ h \in Nat /\ h + b <= k
      <3>1. /\ h \in Nat /\ Fits(c.header[1], c.length) /\ b \in 0 .. c.length
            /\ h + b <= k
        BY <1>1, <1>2 DEF Finished, Admitted
      <3> HIDE DEF b, h
      <3>2. c.length \in Nat
        BY <3>1, FitsNat
      <3> QED
        BY <3>1, <3>2
    <2>2. k > h + c.length => n > h + c.length
      <3> HIDE DEF h
      <3> QED
        BY <2>1
    <2>3. h + b <= n
      <3> HIDE DEF h, b
      <3> QED
        BY <2>1
    <2>4. Admitted(c, s, n, dev)
      BY <1>1, <1>2, <2>3 DEF Finished, Admitted
    <2> QED
      BY <1>2, <2>2, <2>4 DEF Finished
  <1>3. CASE Settled(c, s, k, dev)
    <2>1. k >= HeaderSize => n >= HeaderSize
      BY HttpRxAssumption
    <2> QED
      BY <1>1, <1>3, <2>1 DEF Settled
  <1> QED
    BY <1>2, <1>3

\* webflash_store_upload() and webflash_store_body()
LEMMA StoreAfter ==
  ASSUME NEW s, Stream(s), NEW k \in Nat, NEW m \in Nat \ {0}, k + m <= Len(s),
         NEW c, NEW dev, IsCtx(c), Taking(c, s, k, dev)
  PROVE  LET d == Store(c, SubSeq(s, k + 1, k + m), dev)
         IN  IsCtx(d) /\ (Taking(d, s, k + m, dev) \/ Finished(d, s, k + m, dev))
  <1> DEFINE data == SubSeq(s, k + 1, k + m)
             e    == Len(c.header)
             have == Len(c.body)
             put  == [c EXCEPT !.body = Placed(c, data)]
  <1>1. Len(s) \in Nat /\ Len(data) = m
    BY StreamPart
  <1>2. /\ e \in Nat /\ e <= k /\ HasHeader(c, s, k + m)
    BY DEF Taking, Admitted, HasHeader
  <1>3. /\ c.length \in Nat /\ have \in Nat /\ have < c.length /\ e + have = k
        /\ c.body = SubSeq(s, e + 1, k)
    <2>1. /\ have < c.length /\ e + have = k /\ have \in 0 .. c.length
          /\ Fits(c.header[1], c.length)
          /\ c.body = SubSeq(s, e + 1, e + have)
      BY DEF Taking, Admitted
    <2>2. c.length \in Nat /\ have \in Nat
      BY <2>1, FitsNat
    <2> QED
      BY <2>1, <2>2
  <1>4. c.body \o data = SubSeq(s, e + 1, k + m) /\ Len(SubSeq(s, e + 1, k + m)) = k + m - e
    <2> HIDE DEF e
    <2>1. /\ e + 1 \in Nat \ {0} /\ e + 1 <= k + 1 /\ k + m \in Nat /\ k <= k + m
          /\ e + 1 <= k + m /\ k + m - (e + 1) + 1 = k + m - e
      BY <1>2
    <2>2. Len(SubSeq(s, e + 1, k + m)) = (IF e + 1 <= k + m THEN k + m - (e + 1) + 1 ELSE 0)
      BY <2>1, StreamPart
    <2>3. SubSeq(s, e + 1, k) \o SubSeq(s, k + 1, k + m) = SubSeq(s, e + 1, k + m)
      BY <2>1, Glue
    <2> QED
      BY <1>3, <2>1, <2>2, <2>3
  <1>5. /\ IsCtx(put) /\ put.body = SubSeq(s, e + 1, k + m) /\ put.header = c.header
        /\ put.length = c.length /\ put.reply = c.reply /\ put.rx_state = c.rx_state
    BY <1>4 DEF IsCtx, Placed
  <1> HIDE DEF data, put
  <1>6. CASE m > c.length - have
    <2> DEFINE d == Answer(c, TooLong(c.header[1]))
    <2>1. Store(c, data, dev) = d
      BY <1>1, <1>6 DEF Store, Surplus
    <2>2. /\ IsCtx(d) /\ d.rx_state = "replied" /\ d.header = c.header /\ d.length = c.length
          /\ d.body = c.body /\ d.reply = TooLong(c.header[1])
      BY AnswerFields
    <2> HIDE DEF d
    <2>3. d.reply = TooLong(d.header[1])
      BY <2>2
    <2>4. e + have <= k + m /\ k + m > e + c.length
      <3> HIDE DEF e, have
      <3> QED
        BY <1>2, <1>3, <1>6
    <2>5. Admitted(d, s, k + m, dev)
      <3>1. HasHeader(d, s, k + m)
        BY <1>2, <2>2 DEF HasHeader
      <3> QED
        BY <2>2, <2>4, <3>1 DEF Taking, Admitted
    <2>6. Finished(d, s, k + m, dev)
      BY <2>2, <2>3, <2>4, <2>5 DEF Finished
    <2> QED
      BY <2>1, <2>2, <2>6 DEF data
  <1>7. CASE ~(m > c.length - have)
    <2>1. Store(c, data, dev) = IF Len(put.body) = put.length
                                  THEN Answer(put, Verdict(put.header[1], put.body, dev)) ELSE put
      BY <1>1, <1>7 DEF Store, Surplus, put
    <2>2. /\ Len(put.body) = k + m - e /\ k + m - e <= c.length /\ k + m - e \in 0 .. c.length
          /\ e + (k + m - e) = k + m
      <3>1. Len(put.body) = k + m - e
        BY <1>4, <1>5
      <3> HIDE DEF e, have
      <3> QED
        BY <1>2, <1>3, <1>7, <3>1
    <2>3. ASSUME NEW d, d.header = c.header, d.length = c.length, d.body = put.body
          PROVE  Admitted(d, s, k + m, dev)
      <3>1. HasHeader(d, s, k + m)
        BY <1>2, <2>3 DEF HasHeader
      <3> QED
        <4>1. /\ c.header[1] \in WithBody /\ dev # "busy" /\ c.length = ContentLength(c.header)
              /\ Fits(c.header[1], c.length) /\ (dev = "no_room" => c.header[1] = "env")
          BY DEF Taking, Admitted
        <4>2. /\ Len(d.body) \in 0 .. d.length /\ Len(d.header) + Len(d.body) <= k + m
              /\ d.body = SubSeq(s, Len(d.header) + 1, Len(d.header) + Len(d.body))
          <5>1. /\ Len(d.header) = e /\ Len(d.body) = k + m - e /\ d.length = c.length
                /\ d.body = SubSeq(s, e + 1, k + m)
            BY <1>5, <2>2, <2>3
          <5>2. k + m - e \in 0 .. c.length /\ e + (k + m - e) = k + m
            BY <2>2
          <5>3. k + m <= k + m
            OBVIOUS
          <5> QED
            BY <5>1, <5>2, <5>3
        <4> QED
          BY <2>3, <3>1, <4>1, <4>2 DEF Admitted
    <2>4. CASE Len(put.body) = put.length
      <3> DEFINE d == Answer(put, Verdict(put.header[1], put.body, dev))
      <3>1. /\ IsCtx(d) /\ d.rx_state = "replied" /\ d.header = c.header /\ d.length = c.length
            /\ d.body = put.body /\ d.reply = Verdict(c.header[1], put.body, dev)
        <4> DEFINE status == Verdict(put.header[1], put.body, dev)
        <4>1. status = Verdict(c.header[1], put.body, dev)
          BY <1>5
        <4> HIDE DEF status
        <4>2. /\ IsCtx(d) /\ d.rx_state = "replied" /\ d.reply = status
              /\ d.header = put.header /\ d.length = put.length /\ d.body = put.body
          BY <1>5, AnswerFields DEF status
        <4> QED
          BY <1>5, <4>1, <4>2
      <3> HIDE DEF d
      <3>2. Finished(d, s, k + m, dev)
        BY <1>5, <2>3, <2>4, <3>1 DEF Finished
      <3> QED
        BY <2>1, <2>4, <3>1, <3>2 DEF data, d
    <2>5. CASE Len(put.body) # put.length
      <3>1. Taking(put, s, k + m, dev)
        <4>1. Admitted(put, s, k + m, dev)
          BY <1>5, <2>3
        <4>2. Len(put.body) < put.length
          <5> DEFINE l == k + m - e
          <5> HIDE DEF l
          <5>1. l \in 0 .. c.length /\ l # c.length
            BY <1>5, <2>2, <2>5 DEF l
          <5>2. l < c.length
            BY <1>3, <5>1
          <5> QED
            BY <1>5, <2>2, <5>2 DEF l
        <4> QED
          BY <1>5, <2>2, <4>1, <4>2 DEF Taking
      <3> QED
        BY <1>5, <2>1, <2>5, <3>1 DEF data
    <2> QED
      BY <2>4, <2>5
  <1> QED
    BY <1>1, <1>3, <1>6, <1>7

\* What webflash_handle_headers() makes of a header that is complete.
LEMMA HandleAfter ==
  ASSUME NEW s, NEW c, NEW dev, IsCtx(c), NEW k \in Nat, Len(c.header) = k, HasHeader(c, s, k),
         c.length = 0, c.body = <<>>, c.reply = "none", c.rx_state = "headers"
  PROVE  LET d == HandleHeaders(c, dev)
         IN  IsCtx(d) /\ (Taking(d, s, k, dev) \/ Settled(d, s, k, dev))
  <1> DEFINE d     == HandleHeaders(c, dev)
             first == c.header[1]
             n     == ContentLength(c.header)
  <1>1. ASSUME NEW a, NEW status, a = Answer(c, status), RefusedAtOnce(first, n, dev, status)
        PROVE  IsCtx(a) /\ Settled(a, s, k, dev)
    <2>1. /\ IsCtx(a) /\ a.rx_state = "replied" /\ a.reply = status /\ a.header = c.header
          /\ a.length = 0
      BY <1>1, AnswerFields
    <2>2. HasHeader(a, s, k)
      BY <2>1 DEF HasHeader
    <2> QED
      BY <1>1, <2>1, <2>2 DEF Settled
  <1>2. CASE first \in WithBody
    <2> DEFINE state == IF first = "env" THEN "body" ELSE "upload"
    <2>1. d = Prepare(c, dev)
      BY <1>2 DEF HandleHeaders, WithBody
    <2>2. CASE dev = "busy" \/ n = NoLine \/ ~Fits(first, n) \/ (dev = "no_room" /\ first # "env")
      <3>1. PICK status : d = Answer(c, status) /\
                          \/ dev = "busy" /\ status = "409"
                          \/ dev # "busy" /\ n = NoLine /\ status = "411"
                          \/ dev # "busy" /\ n # NoLine /\ ~Fits(first, n) /\ status = "413"
                          \/ /\ dev = "no_room" /\ n # NoLine /\ Fits(first, n) /\ first # "env"
                             /\ status = "409"
        BY <2>1, <2>2 DEF Prepare
      <3>2. RefusedAtOnce(first, n, dev, status)
        BY <1>2, <3>1 DEF RefusedAtOnce
      <3> QED
        BY <1>1, <3>1, <3>2
    <2>3. CASE ~(dev = "busy" \/ n = NoLine \/ ~Fits(first, n) \/ (dev = "no_room" /\ first # "env"))
      <3>1. d = [c EXCEPT !.length = n, !.body = <<>>, !.rx_state = state]
        BY <2>1, <2>3 DEF Prepare
      <3>2. /\ IsCtx(d) /\ d.rx_state = state /\ d.header = c.header /\ d.length = n
            /\ d.body = <<>> /\ d.reply = "none"
        BY <3>1 DEF IsCtx
      <3> HIDE DEF d
      <3>3. Len(d.body) = 0 /\ n \in Nat /\ n > 0
        <4>2. n \in Nat /\ n > 0
          BY <2>3, FitsNat
        <4> QED
          BY <3>2, <4>2
      <3>4. HasHeader(d, s, k)
        BY <3>2 DEF HasHeader
      <3>5. d.body = SubSeq(s, k + 1, k)
        BY <3>2, SubSeqEmpty
      <3>6. Admitted(d, s, k, dev)
        <4>1. 0 \in 0 .. n /\ k + 0 <= k /\ k + 0 = k
          <5> HIDE DEF n
          <5> QED
            BY <3>3
        <4> QED
          BY <1>2, <2>3, <3>2, <3>3, <3>4, <3>5, <4>1 DEF Admitted
      <3>7. Taking(d, s, k, dev)
        BY <1>2, <3>2, <3>3, <3>6 DEF Taking
      <3> QED
        BY <3>2, <3>7 DEF d
    <2> QED
      BY <2>2, <2>3
  <1>3. CASE first = "get"
    <2>1. d = Answer(c, "200")
      BY <1>3 DEF HandleHeaders, WithBody
    <2> QED
      BY <1>1, <1>3, <2>1 DEF RefusedAtOnce
  <1>4. CASE first \notin WithBody \cup {"get"}
    <2>1. d = Answer(c, "404")
      BY <1>4 DEF HandleHeaders
    <2> QED
      BY <1>1, <1>4, <2>1 DEF RefusedAtOnce
  <1> QED
    BY <1>2, <1>3, <1>4

\* The places where the header may end in the next part of the stream.
LEMMA EndsAfter ==
  ASSUME NEW s, Stream(s), NEW k \in Nat, NEW m \in Nat \ {0}, k + m <= Len(s),
         NEW c, c.header = SubSeq(s, 1, k)
  PROVE  LET data == SubSeq(s, k + 1, k + m)
         IN  /\ Len(data) = m /\ Len(c.header) = k
             /\ \A j \in 0 .. m : c.header \o SubSeq(data, 1, j) = SubSeq(s, 1, k + j)
             /\ \A i : i \in Ends(c, data) <=> i \in 1 .. m /\ k + i \in HeaderEnds(s, k + i)
  <1> DEFINE data == SubSeq(s, k + 1, k + m)
  <1>1. Len(s) \in Nat /\ Len(data) = m /\ Len(c.header) = k
    <2>1. Len(s) \in Nat /\ Len(data) = (IF k + 1 <= k + m THEN k + m - (k + 1) + 1 ELSE 0)
      BY StreamPart
    <2>2. Len(c.header) = (IF 1 <= k THEN k - 1 + 1 ELSE 0)
      BY <2>1, StreamPart
    <2> QED
      BY <2>1, <2>2
  <1>2. ASSUME NEW j \in 0 .. m
        PROVE  c.header \o SubSeq(data, 1, j) = SubSeq(s, 1, k + j)
    <2>1. SubSeq(data, 1, j) = SubSeq(s, k + 1, k + j)
      BY <1>2, Cut
    <2>2. SubSeq(s, 1, k) \o SubSeq(s, k + 1, k + j) = SubSeq(s, 1, k + j)
      BY <1>1, <1>2, Glue
    <2> QED
      BY <2>1, <2>2
  <1>3. ASSUME NEW j \in 1 .. m
        PROVE  Complete(c.header \o SubSeq(data, 1, j)) <=> k + j \in HeaderEnds(s, k + j)
    <2>1. k + j \in Nat /\ k + j <= Len(s) /\ j \in 0 .. m
      BY <1>1, <1>3
    <2>2. Complete(SubSeq(s, 1, k + j)) <=> k + j \in HeaderEnds(s, k + j)
      BY <2>1, CompleteAt
    <2> QED
      BY <1>2, <2>1, <2>2
  <1>4. \A i : i \in Ends(c, data) <=> i \in 1 .. m /\ k + i \in HeaderEnds(s, k + i)
    <2> HIDE DEF data
    <2> QED
      BY <1>1, <1>3 DEF Ends
  <1> QED
    BY <1>1, <1>2, <1>4

\* A place where a header ends is one whatever follows.
LEMMA HeaderEndsUpTo ==
  ASSUME NEW s, Len(s) \in Nat, NEW n \in Nat
  PROVE  HeaderEnds(s, n) = {e \in 4 .. n : e \in HeaderEnds(s, e)}
  BY DEF HeaderEnds

\* webflash_consume() in the state that collects a header
LEMMA CollectAfter ==
  ASSUME NEW s, Stream(s), NEW k \in Nat, NEW m \in Nat \ {0}, k + m <= Len(s),
         NEW c, IsCtx(c), Collecting(c, s, k), NEW dev
  PROVE  LET d == CollectHeader(c, SubSeq(s, k + 1, k + m), dev)
         IN  IsCtx(d) /\ After(d, s, k + m, dev)
  <1> DEFINE data == SubSeq(s, k + 1, k + m)
             E    == Ends(c, data)
             j    == Min(E)
             full == [c EXCEPT !.header = @ \o SubSeq(data, 1, j)]
             rest == SubSeq(data, j + 1, Len(data))
             next == HandleHeaders(full, dev)
             d    == CollectHeader(c, data, dev)
  <1>1. /\ c.rx_state = "headers" /\ c.header = SubSeq(s, 1, k) /\ k < HeaderSize
        /\ HeaderEnds(s, k) = {} /\ c.length = 0 /\ c.body = <<>> /\ c.reply = "none"
    BY DEF Collecting
  <1>2. /\ Len(data) = m /\ Len(c.header) = k /\ Len(s) \in Nat
        /\ \A i \in 0 .. m : c.header \o SubSeq(data, 1, i) = SubSeq(s, 1, k + i)
        /\ \A i : i \in E <=> i \in 1 .. m /\ k + i \in HeaderEnds(s, k + i)
    <2>1. Len(s) \in Nat
      BY LenProperties DEF Stream
    <2>2. Len(data) = m /\ Len(c.header) = k
      BY <1>1, EndsAfter
    <2>3. \A i \in 0 .. m : c.header \o SubSeq(data, 1, i) = SubSeq(s, 1, k + i)
      BY <1>1, EndsAfter
    <2>4. \A i : i \in E <=> i \in 1 .. m /\ k + i \in HeaderEnds(s, k + i)
      BY <1>1, EndsAfter
    <2> QED
      BY <2>1, <2>2, <2>3, <2>4
  <1>3. HeaderSize \in Nat /\ Room(c) = HeaderSize - 1 - k /\ Room(c) \in Nat
    BY <1>1, <1>2, HttpRxAssumption DEF Room
  <1>4. E # {} => /\ j \in 1 .. m /\ k + j \in HeaderEnds(s, k + j)
                  /\ \A i \in E : j <= i
    BY <1>2, LeastMember
  <1>5. ASSUME NEW n \in Nat, n >= k, n <= k + m, \A i \in E : ~(k + i <= n)
        PROVE  HeaderEnds(s, n) = {}
    <2>1. ASSUME NEW f \in HeaderEnds(s, n)
          PROVE  FALSE
      <3>1. f \in 4 .. n /\ f \in HeaderEnds(s, f)
        BY <1>2, <1>5, <2>1, HeaderEndsUpTo
      <3>2. CASE f <= k
        BY <1>1, <1>2, <3>1, <3>2, HeaderEndsUpTo
      <3>3. CASE f > k
        <4>1. f - k \in 1 .. m /\ k + (f - k) = f
          BY <1>5, <3>1, <3>3
        <4>2. f - k \in E
          BY <1>2, <3>1, <4>1
        <4> QED
          BY <1>5, <3>1, <4>1, <4>2
      <3> QED
        BY <3>1, <3>2, <3>3
    <2> QED
      BY <2>1
  <1> HIDE DEF data, E, j
  <1>6. CASE E # {} /\ j <= Room(c)
    <2> DEFINE e == k + j
    <2>1. j \in 1 .. m /\ j \in 0 .. m /\ e \in Nat /\ e < HeaderSize /\ e <= k + m
      BY <1>3, <1>4, <1>6
    <2>2. /\ IsCtx(full) /\ full.header = SubSeq(s, 1, e) /\ full.length = 0 /\ full.body = <<>>
          /\ full.reply = "none" /\ full.rx_state = "headers"
      BY <1>1, <1>2, <2>1 DEF IsCtx
    <2>3. HeaderEnds(s, e) = {e} /\ e \in 4 .. e
      <3>1. e \in HeaderEnds(s, e)
        BY <1>4, <1>6
      <3>2. ASSUME NEW f \in HeaderEnds(s, e), f # e
            PROVE  FALSE
        <4>1. f \in 4 .. e /\ f \in HeaderEnds(s, f)
          BY <1>2, <2>1, <3>2, HeaderEndsUpTo
        <4>2. e - 1 \in Nat /\ e - 1 >= k /\ e - 1 <= k + m /\ f \in 4 .. e - 1
          BY <2>1, <3>2, <4>1
        <4>3. \A i \in E : ~(k + i <= e - 1)
          <5>1. ASSUME NEW i \in E
                PROVE  ~(k + i <= e - 1)
            <6>1. i \in 1 .. m /\ j <= i /\ j \in 1 .. m
              BY <1>2, <1>4, <5>1
            <6> QED
              BY <6>1
          <5> QED
            BY <5>1
        <4>4. f \in HeaderEnds(s, e - 1)
          BY <1>2, <4>1, <4>2, HeaderEndsUpTo
        <4> QED
          BY <1>5, <4>2, <4>3, <4>4
      <3> QED
        BY <3>1, <3>2 DEF HeaderEnds
    <2>4. Len(full.header) = e
      <3>1. Len(SubSeq(s, 1, e)) = (IF 1 <= e THEN e - 1 + 1 ELSE 0)
        BY <1>2, <2>1, StreamPart
      <3> QED
        BY <2>1, <2>2, <3>1
    <2> HIDE DEF full, e
    <2>5. HasHeader(full, s, e)
      BY <2>1, <2>2, <2>3, <2>4 DEF HasHeader
    <2>6. IsCtx(next) /\ (Taking(next, s, e, dev) \/ Settled(next, s, e, dev))
      BY <2>1, <2>2, <2>4, <2>5, HandleAfter
    <2>7. d = IF next.rx_state = "replied" \/ rest = <<>> THEN next ELSE Store(next, rest, dev)
      BY <1>6 DEF CollectHeader, E, j, full
    <2>8. rest = SubSeq(s, e + 1, k + m)
      <3>1. SubSeq(data, j + 1, m) = SubSeq(s, k + (j + 1), k + m)
        BY <2>1, Cut DEF data
      <3> QED
        BY <1>2, <2>1, <3>1 DEF e
    <2> HIDE DEF next, d, rest
    <2>9. CASE next.rx_state = "replied"
      <3>1. Settled(next, s, e, dev)
        BY <2>6, <2>9 DEF Taking
      <3>2. k + m \in Nat
        OBVIOUS
      <3> QED
        BY <2>1, <2>6, <2>7, <2>9, <3>1, <3>2, AnsweredLater DEF After, d, data
    <2>10. CASE next.rx_state # "replied"
      <3>1. Taking(next, s, e, dev)
        BY <2>6, <2>10 DEF Settled
      <3>2. CASE e = k + m
        <4>1. rest = <<>>
          BY <2>8, <3>2, SubSeqEmpty
        <4> QED
          BY <2>6, <2>7, <3>1, <3>2, <4>1 DEF After, d, data
      <3>3. CASE e < k + m
        <4> DEFINE r == k + m - e
        <4>1. r \in Nat \ {0} /\ e + r = k + m
          BY <2>1, <3>3
        <4> HIDE DEF r
        <4>2. rest # <<>>
          <5>1. Len(SubSeq(s, e + 1, k + m)) = (IF e + 1 <= k + m THEN k + m - (e + 1) + 1 ELSE 0)
            BY <2>1, StreamPart
          <5>2. Len(rest) > 0
            BY <2>1, <2>8, <3>3, <5>1
          <5>3. Len(<<>>) = 0
            OBVIOUS
          <5> QED
            BY <5>2, <5>3
        <4>3. d = Store(next, SubSeq(s, e + 1, e + r), dev)
          BY <2>7, <2>8, <2>10, <4>1, <4>2
        <4>4. IsCtx(d) /\ (Taking(d, s, e + r, dev) \/ Finished(d, s, e + r, dev))
          BY <2>1, <2>6, <3>1, <4>1, <4>3, StoreAfter
        <4> QED
          BY <4>1, <4>4 DEF After, d, data
      <3> QED
        BY <2>1, <3>2, <3>3
    <2> QED
      BY <2>9, <2>10
  <1>7. CASE ~(E # {} /\ j <= Room(c)) /\ m > Room(c)
    <2> DEFINE cut == [c EXCEPT !.header = @ \o SubSeq(data, 1, Room(c))]
    <2>1. d = Answer(cut, "431")
      BY <1>2, <1>7 DEF CollectHeader, E, j
    <2>2. IsCtx(cut) /\ cut.length = 0
      BY <1>1 DEF IsCtx
    <2>3. IsCtx(d) /\ d.rx_state = "replied" /\ d.reply = "431" /\ d.length = 0
      <3> HIDE DEF d, cut
      <3>1. d.length = cut.length
        BY <2>1, <2>2, AnswerFields
      <3> QED
        BY <2>1, <2>2, <3>1, AnswerFields
    <2>4. ASSUME NEW i \in E
          PROVE  ~(k + i <= HeaderSize - 1)
      <3>1. i \in 1 .. m /\ j <= i /\ j \in 1 .. m /\ ~(j <= Room(c))
        BY <1>2, <1>4, <1>7, <2>4
      <3> QED
        BY <1>3, <3>1
    <2>5. HeaderEnds(s, HeaderSize - 1) = {}
      BY <1>1, <1>3, <1>5, <1>7, <2>4
    <2>6. k + m >= HeaderSize
      BY <1>3, <1>7
    <2> QED
      BY <2>3, <2>5, <2>6 DEF After, Settled, data
  <1>8. CASE ~(E # {} /\ j <= Room(c)) /\ ~(m > Room(c))
    <2>1. d = [c EXCEPT !.header = @ \o data]
      BY <1>2, <1>8 DEF CollectHeader, E, j
    <2>2. data = SubSeq(data, 1, m)
      <3>1. SubSeq(data, 1, m) = SubSeq(s, k + 1, k + m)
        BY Cut DEF data
      <3> QED
        BY <3>1 DEF data
    <2>3. m \in 0 .. m
      OBVIOUS
    <2>4. c.header \o data = SubSeq(s, 1, k + m)
      BY <1>2, <2>2, <2>3
    <2>5. /\ IsCtx(d) /\ d.header = SubSeq(s, 1, k + m) /\ d.rx_state = "headers"
          /\ d.length = 0 /\ d.body = <<>> /\ d.reply = "none"
      BY <1>1, <2>1, <2>4 DEF IsCtx
    <2>6. E = {}
      BY <1>3, <1>4, <1>8
    <2>7. k + m \in Nat /\ k + m >= k /\ k + m <= k + m /\ k + m < HeaderSize
      BY <1>3, <1>8
    <2>8. HeaderEnds(s, k + m) = {}
      BY <1>5, <2>6, <2>7
    <2> QED
      BY <2>5, <2>7, <2>8 DEF After, Collecting, data
  <1> QED
    BY <1>6, <1>7, <1>8

\* webflash_consume()
LEMMA ConsumeAfter ==
  ASSUME NEW s, Stream(s), NEW k \in Nat, NEW m \in Nat \ {0}, k + m <= Len(s),
         NEW c, NEW dev, IsCtx(c), After(c, s, k, dev)
  PROVE  LET d == Consume(c, SubSeq(s, k + 1, k + m), dev)
         IN  IsCtx(d) /\ After(d, s, k + m, dev)
  <1> DEFINE data == SubSeq(s, k + 1, k + m)
             d    == Consume(c, data, dev)
  <1> HIDE DEF data
  <1>1. CASE Collecting(c, s, k)
    <2>1. d = CollectHeader(c, data, dev)
      BY <1>1 DEF Collecting, Consume
    <2> HIDE DEF d
    <2>2. IsCtx(d) /\ After(d, s, k + m, dev)
      BY <1>1, <2>1, CollectAfter DEF data
    <2> QED
      BY <2>2 DEF d, data
  <1>2. CASE Taking(c, s, k, dev)
    <2>1. d = Store(c, data, dev)
      BY <1>2 DEF Taking, Consume
    <2> HIDE DEF d
    <2>2. IsCtx(d) /\ (Taking(d, s, k + m, dev) \/ Finished(d, s, k + m, dev))
      BY <1>2, <2>1, StoreAfter DEF data
    <2> QED
      BY <2>2 DEF After, d, data
  <1>3. CASE Finished(c, s, k, dev) \/ Settled(c, s, k, dev)
    <2>1. d = c
      BY <1>3 DEF Finished, Settled, Consume
    <2>2. k + m \in Nat /\ k <= k + m
      OBVIOUS
    <2>3. Finished(c, s, k + m, dev) \/ Settled(c, s, k + m, dev)
      BY <1>3, <2>2, AnsweredLater
    <2> QED
      BY <2>1, <2>3 DEF After, data
  <1> QED
    BY <1>1, <1>2, <1>3 DEF After

\* webflash_recv() with the next units of the stream that the context is made of.
LEMMA ChainAfter ==
  ASSUME NEW p \in Conns, NEW n \in Nat, NEW i \in 1 .. n, IsCtx(ctx),
         peers[p].sent \in Streams, peers[p].arrived \in Nat,
         peers[p].arrived + n <= Len(peers[p].sent),
         After(ctx, peers[p].sent, peers[p].arrived, device)
  PROVE  LET c == ConsumeChain(p, n, i)
         IN  IsCtx(c) /\ After(c, peers[p].sent, peers[p].arrived + n, device)
  <1> DEFINE s     == peers[p].sent
             a     == peers[p].arrived
             dev   == device
             first == Consume(ctx, SubSeq(s, a + 1, a + i), dev)
             c     == ConsumeChain(p, n, i)
  <1>1. Stream(s) /\ Len(s) \in Nat
    BY HttpRxAssumption, LenProperties DEF Stream
  <1>2. i \in Nat \ {0} /\ a + i \in Nat /\ a + i <= Len(s) /\ a \in Nat
    BY <1>1
  <1>3. IsCtx(first) /\ After(first, s, a + i, dev)
    BY <1>1, <1>2, ConsumeAfter
  <1>4. CASE i = n
    <2>1. c = first
      BY <1>4 DEF ConsumeChain
    <2> QED
      BY <1>3, <1>4, <2>1
  <1>5. CASE i # n
    <2> DEFINE k == a + i
               m == n - i
               g == Consume(first, SubSeq(s, k + 1, k + m), dev)
    <2>1. k \in Nat /\ m \in Nat \ {0} /\ k + m = a + n /\ k + 1 = a + (i + 1)
      BY <1>2, <1>5
    <2>2. c = g
      BY <1>5, <2>1 DEF ConsumeChain
    <2>3. IsCtx(first) /\ After(first, s, k, dev) /\ k + m <= Len(s)
      BY <1>3, <2>1
    <2> HIDE DEF k, m, first, s, a, dev, c
    <2>4. IsCtx(g) /\ After(g, s, k + m, dev)
      BY <1>1, <2>1, <2>3, ConsumeAfter
    <2> QED
      BY <2>1, <2>2, <2>4 DEF s, a, dev, c
  <1> QED
    BY <1>4, <1>5

\* A connection comes, sends something, ends or fails.
LEMMA RxInvNext ==
  ASSUME RxInv, [RxNext]_rxVars
  PROVE  RxInv'
  <1>0. /\ DOMAIN peers = Conns /\ NoConn \notin Conns
        /\ client # NoConn => client \in Conns /\ peers[client].state = "open"
        /\ ~orphaned => ~foreign /\ \A q \in Conns : peers[q].state = "open" => q = client
    BY HttpRxAssumption DEF RxInv
  <1>1. ASSUME NEW p \in Conns, NEW s \in Streams, NEW dev \in Devices, Accept(p, s, dev)
        PROVE  RxInv'
    <2>1. /\ client = NoConn /\ client' = p /\ ctx' = Fresh /\ device' = dev /\ foreign' = FALSE
          /\ peers' = [peers EXCEPT ![p] = [state |-> "open", sent |-> s, arrived |-> 0]]
          /\ orphaned' = orphaned
      BY <1>1 DEF Accept
    <2>2. /\ Fresh.rx_state = "headers" /\ Fresh.header = <<>> /\ Fresh.length = 0
          /\ Fresh.body = <<>> /\ Fresh.reply = "none"
      BY DEF Fresh
    <2>3. SubSeq(s, 1, 0) = <<>> /\ HeaderEnds(s, 0) = {} /\ 0 < HeaderSize /\ 0 \in 0 .. Len(s)
      BY SubSeqEmpty, HttpRxAssumption DEF HeaderEnds
    <2>4. After(Fresh, s, 0, dev)
      BY <2>2, <2>3 DEF Collecting, After
    <2>5. /\ DOMAIN peers' = Conns /\ peers'[p].state = "open" /\ peers'[p].sent = s
          /\ peers'[p].arrived = 0 /\ \A q \in Conns \ {p} : peers'[q] = peers[q]
      BY <1>0, <2>1
    <2>6. ~orphaned => \A q \in Conns : peers'[q].state = "open" => q = p
      BY <1>0, <2>1, <2>5
    <2> QED
      BY <2>1, <2>3, <2>4, <2>5, <2>6 DEF RxInv
  <1>2. ASSUME NEW p \in Conns, NEW n \in 1 .. Deliverable(p), NEW i \in 1 .. n,
               NEW lost \in BOOLEAN, Recv(p, n, i, lost)
        PROVE  RxInv'
    <2>1. /\ client \in Conns /\ peers[client].state = "open" /\ peers[p].state = "open"
          /\ ctx' = ConsumeChain(p, n, i) /\ device' = device /\ orphaned' = orphaned
          /\ client' = IF lost THEN NoConn ELSE client
          /\ peers' = [peers EXCEPT ![p].arrived = @ + n, ![client] = IF lost THEN Over("gone") ELSE @]
          /\ foreign' = (foreign \/ (p # client /\ ctx.rx_state # "replied"))
      BY <1>0, <1>2 DEF Recv, Deliverable
    <2>2. /\ DOMAIN peers' = Conns
          /\ \A q \in Conns : peers'[q].state = "open" => peers[q].state = "open"
          /\ ~lost => \A q \in Conns : peers'[q].state = peers[q].state /\ peers'[q].sent = peers[q].sent
          /\ ~lost => peers'[p].arrived = peers[p].arrived + n
          /\ ~lost => \A q \in Conns \ {p} : peers'[q] = peers[q]
      <3>1. CASE lost
        <4>1. /\ DOMAIN peers' = Conns /\ peers'[client] = Over("gone")
              /\ \A q \in Conns \ {client, p} : peers'[q] = peers[q]
          BY <1>0, <2>1, <3>1
        <4>2. Over("gone").state # "open"
          BY DEF Over
        <4> QED
          BY <2>1, <3>1, <4>1, <4>2
      <3>2. CASE ~lost
        <4> DEFINE r == [peers[p] EXCEPT !.arrived = @ + n]
        <4>1. r.state = peers[p].state /\ r.sent = peers[p].sent /\ r.arrived = peers[p].arrived + n
          BY <1>0
        <4>2. DOMAIN peers' = Conns /\ peers'[p] = r /\ \A q \in Conns \ {p} : peers'[q] = peers[q]
          <5>1. CASE p = client
            BY <1>0, <2>1, <3>2, <5>1
          <5>2. CASE p # client
            BY <1>0, <2>1, <3>2, <5>2
          <5> QED
            BY <5>1, <5>2
        <4> HIDE DEF r
        <4> QED
          BY <3>2, <4>1, <4>2
      <3> QED
        BY <3>1, <3>2
    <2>3. ~orphaned => p = client
      BY <1>0, <2>1
    <2>4. ~orphaned' => ~foreign' /\ \A q \in Conns : peers'[q].state = "open" => q = client'
      <3>1. CASE lost
        <4>1. peers'[client].state = "gone"
          BY <1>0, <2>1, <3>1 DEF Over
        <4> QED
          BY <1>0, <2>1, <2>2, <2>3, <4>1
      <3>2. CASE ~lost
        BY <1>0, <2>1, <2>2, <2>3, <3>2
      <3> QED
        BY <3>1, <3>2
    <2>5. CASE lost \/ foreign'
      <3>1. client' # NoConn => client' \in Conns /\ peers'[client'].state = "open"
        BY <2>1, <2>2
      <3> QED
        BY <2>1, <2>2, <2>4, <2>5, <3>1 DEF RxInv
    <2>6. CASE ~lost /\ ~foreign'
      <3> DEFINE s == peers[client].sent
                 k == peers[client].arrived
      <3>1. /\ s \in Streams /\ k \in 0 .. Len(s) /\ Len(s) \in Nat /\ DOMAIN ctx = DOMAIN Fresh
            /\ After(ctx, s, k, device)
        <4>1. s \in Streams /\ k \in 0 .. Len(s) /\ DOMAIN ctx = DOMAIN Fresh /\ After(ctx, s, k, device)
          BY <1>0, <2>1, <2>6 DEF RxInv
        <4> QED
          BY <4>1, HttpRxAssumption, LenProperties
      <3>2. CASE p = client
        <4>1. n \in Nat /\ i \in 1 .. n /\ k \in Nat /\ k + n <= Len(s) /\ k + n \in 0 .. Len(s)
          BY <1>2, <2>1, <3>1, <3>2 DEF Deliverable
        <4>2. IsCtx(ctx)
          BY <3>1 DEF IsCtx, Fresh
        <4>3. IsCtx(ctx') /\ After(ctx', s, k + n, device)
          BY <2>1, <3>1, <3>2, <4>1, <4>2, ChainAfter
        <4>4. DOMAIN ctx' = DOMAIN Fresh
          BY <4>3 DEF IsCtx, Fresh
        <4>5. client' = p /\ peers'[p].sent = s /\ peers'[p].arrived = k + n /\ peers'[p].state = "open"
          BY <2>1, <2>2, <2>6, <3>2
        <4> QED
          BY <2>1, <2>2, <2>4, <3>1, <4>1, <4>3, <4>4, <4>5 DEF RxInv
      <3>3. CASE p # client
        <4>1. ctx.rx_state = "replied"
          BY <2>1, <2>6, <3>3
        <4>2. ctx' = ctx
          BY <2>1, <4>1 DEF ConsumeChain, Consume
        <4>3. client' = client /\ peers'[client] = peers[client]
          BY <2>1, <2>2, <2>6, <3>3
        <4> QED
          BY <2>1, <2>2, <2>4, <3>1, <4>2, <4>3 DEF RxInv
      <3> QED
        BY <3>2, <3>3
    <2> QED
      BY <2>5, <2>6
  <1>3. ASSUME client' = NoConn, DOMAIN peers' = Conns,
               ~orphaned' => /\ ~orphaned /\ ~foreign'
                             /\ \A q \in Conns : peers'[q].state # "open"
        PROVE  RxInv'
    BY <1>3 DEF RxInv
  <1>4. ASSUME NEW p \in Conns, NEW n \in 1 .. Deliverable(p), RecvDropped(p, n)
        PROVE  RxInv'
    <2>1. /\ client' = NoConn /\ client = NoConn /\ foreign' = foreign /\ orphaned' = orphaned
          /\ peers' = [peers EXCEPT ![p].arrived = @ + n]
      BY <1>4 DEF RecvDropped
    <2>2. DOMAIN peers' = Conns /\ \A q \in Conns : peers'[q].state = peers[q].state
      BY <1>0, <2>1
    <2> QED
      BY <1>0, <1>3, <2>1, <2>2
  <1>5. ASSUME NEW Q, CloseClient(Q)
        PROVE  RxInv'
    <2>1. /\ client' = NoConn /\ foreign' = foreign /\ orphaned' = orphaned
          /\ peers' = [q \in Conns |-> IF q \in Q \cup {client} THEN Over("closed") ELSE peers[q]]
      BY <1>5 DEF CloseClient
    <2>2. /\ DOMAIN peers' = Conns
          /\ \A q \in Conns : peers'[q].state = "open" => q # client /\ peers[q].state = "open"
      BY <2>1 DEF Over
    <2> QED
      BY <1>0, <1>3, <2>1, <2>2
  <1>6. ASSUME NEW p \in Conns, TcpError(p)
        PROVE  RxInv'
    <2>1. /\ client' = NoConn /\ foreign' = foreign
          /\ orphaned' = (orphaned \/ client \notin {NoConn, p})
          /\ peers' = [peers EXCEPT ![p] = Over("gone")]
      BY <1>6 DEF TcpError
    <2>2. /\ DOMAIN peers' = Conns
          /\ \A q \in Conns : peers'[q].state = "open" => q # p /\ peers[q].state = "open"
      BY <1>0, <2>1 DEF Over
    <2> QED
      BY <1>0, <1>3, <2>1, <2>2
  <1>7. CASE Abort
    <2>1. /\ client \in Conns /\ client' = NoConn /\ foreign' = foreign /\ orphaned' = orphaned
          /\ peers' = [peers EXCEPT ![client] = Over("gone")]
      BY <1>0, <1>7 DEF Abort
    <2>2. /\ DOMAIN peers' = Conns
          /\ \A q \in Conns : peers'[q].state = "open" => q # client /\ peers[q].state = "open"
      BY <1>0, <2>1 DEF Over
    <2> QED
      BY <1>0, <1>3, <2>1, <2>2
  <1>8. CASE UNCHANGED rxVars
    BY <1>8 DEF rxVars, RxInv
  <1> QED
    BY <1>1, <1>2, <1>4, <1>5, <1>6, <1>7, <1>8 DEF RxNext, RecvEnd, Sent

\* What the context is does not depend on how TCP has cut its client's stream, for
\* every stream and every size of the buffers, unless it has taken bytes of an
\* open connection that is not its client.
THEOREM RequestInvariant == RxSpec => []RxInv
  <1>1. RxInit => RxInv
    BY HttpRxAssumption DEF RxInit, RxInv, Over
  <1>2. RxInv /\ [RxNext]_rxVars => RxInv'
    BY RxInvNext
  <1> QED
    BY <1>1, <1>2, PTL DEF RxSpec

\* Bytes of another connection are taken only after a late error of a closed one.
THEOREM ForeignNeedsOrphanAlways == RxSpec => []ForeignNeedsOrphan
  <1>1. RxInv => ForeignNeedsOrphan
    BY DEF RxInv, ForeignNeedsOrphan
  <1> QED
    BY <1>1, RequestInvariant, PTL

\* A body is what follows the header, for every stream, however it is cut.
THEOREM BodyFromBytesAlways == RxSpec => []BodyFromBytes
  <1>1. ASSUME RxInv, client # NoConn, ~foreign, ctx.length > 0
        PROVE  LET h == Len(ctx.header)
                   b == Len(ctx.body)
               IN  /\ ctx.body = SubSeq(peers[client].sent, h + 1, h + b)
                   /\ ctx.reply \notin {"none", TooLong(ctx.header[1])} => b = ctx.length
                   /\ ctx.reply = "none" => h + b = peers[client].arrived
    <2> DEFINE s == peers[client].sent
               k == peers[client].arrived
    <2>1. Taking(ctx, s, k, device) \/ Finished(ctx, s, k, device)
      BY <1>1 DEF RxInv, After, Collecting, Settled
    <2>2. ctx.body = SubSeq(s, Len(ctx.header) + 1, Len(ctx.header) + Len(ctx.body))
      BY <2>1 DEF Taking, Finished, Admitted
    <2>3. ctx.reply \notin {"none", TooLong(ctx.header[1])} => Len(ctx.body) = ctx.length
      BY <2>1 DEF Taking, Finished
    <2>4. ctx.reply = "none" => Len(ctx.header) + Len(ctx.body) = k
      BY <2>1 DEF Taking, Finished, Verdict, TooLong
    <2> QED
      BY <2>2, <2>3, <2>4
  <1>2. RxInv => BodyFromBytes
    BY <1>1 DEF BodyFromBytes
  <1> QED
    BY <1>2, RequestInvariant, PTL

\* What has arrived of a stream.
LEMMA PrefixEnds ==
  ASSUME NEW s, Stream(s), NEW k \in 0 .. Len(s)
  PROVE  LET r == SubSeq(s, 1, k)
         IN  /\ Len(r) = k /\ (\A i \in 1 .. k : r[i] = s[i])
             /\ \A n \in Nat : \A f : f \in HeaderEnds(r, n) <=>
                                      f \in 4 .. n /\ f <= k /\ f \in HeaderEnds(s, f)
  <1> DEFINE r == SubSeq(s, 1, k)
  <1>1. Len(s) \in Nat /\ k \in Nat
    BY LenProperties DEF Stream
  <1>2. Len(r) = k /\ \A i \in 1 .. k : r[i] = s[i]
    <2>1. Len(r) = (IF 1 <= k THEN k - 1 + 1 ELSE 0) /\ \A i \in 1 .. k - 1 + 1 : r[i] = s[1 + i - 1]
      BY <1>1, StreamPart
    <2> QED
      BY <1>1, <2>1
  <1>3. ASSUME NEW n \in Nat, NEW f
        PROVE  f \in HeaderEnds(r, n) <=> f \in 4 .. n /\ f <= k /\ f \in HeaderEnds(s, f)
    <2>1. CASE f \in 4 .. n /\ f <= k
      <3>1. SubSeq(SubSeq(s, 0 + 1, 0 + k), f - 3, f) = SubSeq(s, 0 + (f - 3), 0 + f)
        BY <1>1, <2>1, Cut
      <3>2. SubSeq(r, f - 3, f) = SubSeq(s, f - 3, f)
        BY <1>1, <2>1, <3>1
      <3> HIDE DEF r
      <3> QED
        BY <1>1, <1>2, <2>1, <3>2 DEF HeaderEnds
    <2>2. CASE ~(f \in 4 .. n /\ f <= k)
      <3> HIDE DEF r
      <3> QED
        BY <1>2, <2>2 DEF HeaderEnds
    <2> QED
      BY <2>1, <2>2
  <1> QED
    BY <1>2, <1>3

\* The answers to a request whose header has arrived: its first line, the length
\* it states, how much there is behind it, and the verdict on that.
Answers(first, dev, n, there, verdict) ==
  IF first = "get" THEN {"200"}
  ELSE IF first \notin WithBody THEN {"404"}
  ELSE IF dev = "busy" THEN {"409"}
  ELSE IF n = NoLine THEN {"411"}
  ELSE IF ~Fits(first, n) THEN {"413"}
  ELSE IF dev = "no_room" /\ first # "env" THEN {"409"}
  ELSE IF there < n THEN {"none"}
  ELSE IF there = n THEN {verdict}
  ELSE {verdict, TooLong(first)}

LEMMA ExpectedWithHeader ==
  ASSUME NEW s, Stream(s), NEW k \in 0 .. Len(s), NEW c, HasHeader(c, s, k), NEW dev
  PROVE  LET r == SubSeq(s, 1, k)
             e == Len(c.header)
             n == ContentLength(c.header)
         IN  Expected(r, dev) =
               Answers(c.header[1], dev, n, k - e,
                       Verdict(c.header[1], SubSeq(r, e + 1, e + n), dev))
  <1> DEFINE r    == SubSeq(s, 1, k)
             e    == Len(c.header)
             h    == c.header
             said == {i \in 1 .. HeaderEnd(r) : r[i] \in DOMAIN Lengths \cup Malformed}
  <1>1. /\ Len(s) \in Nat /\ k \in Nat /\ e \in 4 .. k /\ e < HeaderSize /\ h = SubSeq(s, 1, e)
        /\ HeaderEnds(s, e) = {e} /\ HeaderSize \in Nat /\ e \in Nat
    BY LenProperties, HttpRxAssumption DEF Stream, HasHeader
  <1>2. /\ Len(r) = k /\ (\A i \in 1 .. k : r[i] = s[i])
        /\ \A n \in Nat : \A f : f \in HeaderEnds(r, n) <=>
                                 f \in 4 .. n /\ f <= k /\ f \in HeaderEnds(s, f)
    BY PrefixEnds
  <1>3. \A i \in 1 .. e : h[i] = s[i]
    BY <1>1, PrefixEnds
  <1> HIDE DEF r, e, h
  <1>4. \A i \in 1 .. e : h[i] = r[i]
    BY <1>1, <1>2, <1>3
  <1>5. e \in HeaderEnds(r, HeaderSize - 1) /\ HeaderEnds(r, HeaderSize - 1) # {}
    BY <1>1, <1>2
  <1>6. HeaderEnd(r) = e
    <2>1. e \in HeaderEnds(r, Len(r))
      BY <1>1, <1>2
    <2>2. ASSUME NEW f \in HeaderEnds(r, Len(r))
          PROVE  e <= f /\ f \in Nat
      <3>1. f \in 4 .. k /\ f \in HeaderEnds(s, f)
        BY <1>1, <1>2, <2>2
      <3>2. ASSUME f < e
            PROVE  FALSE
        <4>1. f \in HeaderEnds(s, e)
          BY <1>1, <3>1, <3>2 DEF HeaderEnds
        <4> QED
          BY <1>1, <3>1, <3>2, <4>1
      <3> QED
        BY <1>1, <3>1, <3>2
    <2>3. ASSUME NEW x \in HeaderEnds(r, Len(r)), \A f \in HeaderEnds(r, Len(r)) : x <= f
          PROVE  x = e
      <3>1. x <= e /\ e <= x /\ x \in Nat
        BY <2>1, <2>2, <2>3
      <3> QED
        BY <1>1, <3>1
    <2> QED
      BY <2>1, <2>2, <2>3 DEF HeaderEnd
  <1>7. said = LengthLines(h) /\ r[1] = h[1]
    <2>1. Len(h) = e /\ 1 \in 1 .. e
      BY <1>1 DEF e, h
    <2>2. \A i : i \in said <=> i \in LengthLines(h)
      BY <1>4, <1>6, <2>1 DEF LengthLines
    <2>3. said = LengthLines(h)
      <3> HIDE DEF said
      <3> QED
        BY <2>2
    <2> QED
      BY <1>4, <2>1, <2>3
  <1> DEFINE line == r[Min(said)]
             len  == Lengths[line] % UlongLimit
             n    == ContentLength(h)
  <1>8. /\ n = NoLine <=> said = {}
        /\ said # {} => /\ (line \in Malformed \/ ~Fits(h[1], len)) <=> ~Fits(h[1], n)
                        /\ line \notin Malformed => n = len
    <2>1. CASE said = {}
      BY <1>7, <2>1 DEF ContentLength
    <2>2. CASE said # {}
      <3>1. Min(said) \in said
        <4>1. said \subseteq Nat
          BY <1>1, <1>6
        <4> HIDE DEF said
        <4> QED
          BY <2>2, <4>1, LeastMember
      <3>2. line \in DOMAIN Lengths \cup Malformed /\ Min(said) \in 1 .. e
        BY <1>6, <3>1
      <3>3. n = LengthOf(line)
        <4>1. h[Min(said)] = line
          BY <1>4, <3>2
        <4> HIDE DEF said, line
        <4> QED
          BY <1>7, <2>2, <4>1 DEF ContentLength
      <3> HIDE DEF line, said, n
      <3>4. CASE line \in Malformed
        <4>1. n = -2
          BY <3>3, <3>4 DEF LengthOf, NoNumber
        <4>2. ~Fits(h[1], -2) /\ -2 # -1
          BY MostNat DEF Fits
        <4> QED
          BY <2>2, <3>4, <4>1, <4>2 DEF NoLine
      <3>5. CASE line \notin Malformed
        <4>1. n = len
          BY <3>3, <3>5 DEF LengthOf
        <4>2. len \in Nat
          BY <3>2, <3>5, HttpRxAssumption
        <4>3. len # -1
          <5> HIDE DEF len
          <5> QED
            BY <4>2
        <4> QED
          BY <2>2, <3>5, <4>1, <4>3 DEF NoLine
      <3> QED
        BY <3>4, <3>5
    <2> QED
      BY <2>1, <2>2
  <1>9. Expected(r, dev) =
          IF r[1] = "get" THEN {"200"}
          ELSE IF r[1] \notin WithBody THEN {"404"}
          ELSE IF dev = "busy" THEN {"409"}
          ELSE IF said = {} THEN {"411"}
          ELSE IF line \in Malformed \/ ~Fits(r[1], len) THEN {"413"}
          ELSE IF dev = "no_room" /\ r[1] # "env" THEN {"409"}
          ELSE IF Len(r) - HeaderEnd(r) < len THEN {"none"}
          ELSE IF Len(r) - HeaderEnd(r) = len
            THEN {Verdict(r[1], SubSeq(r, HeaderEnd(r) + 1, HeaderEnd(r) + len), dev)}
          ELSE {Verdict(r[1], SubSeq(r, HeaderEnd(r) + 1, HeaderEnd(r) + len), dev), TooLong(r[1])}
    BY <1>5, Zenon DEF Expected
  <1>10. Len(r) - HeaderEnd(r) = k - e
    BY <1>2, <1>6
  <1> HIDE DEF said, line, len, n
  <1>11. Expected(r, dev) = Answers(h[1], dev, n, k - e, Verdict(h[1], SubSeq(r, e + 1, e + n), dev))
    <2>1. CASE said # {} /\ ~(line \in Malformed \/ ~Fits(h[1], len))
      <3>1. n = len /\ n # NoLine /\ Fits(h[1], n)
        BY <1>8, <2>1
      <3> QED
        BY <1>6, <1>7, <1>9, <1>10, <2>1, <3>1 DEF Answers
    <2>2. CASE said = {} \/ line \in Malformed \/ ~Fits(h[1], len)
      BY <1>7, <1>8, <1>9, <2>2 DEF Answers
    <2> QED
      BY <2>1, <2>2
  <1> QED
    BY <1>11 DEF r, e, h, n

\* What the server has answered is one of the answers expected.
LEMMA AnswerExpected ==
  ASSUME NEW s, Stream(s), NEW k \in 0 .. Len(s), NEW c, NEW dev, After(c, s, k, dev)
  PROVE  c.reply \in Expected(SubSeq(s, 1, k), dev)
  <1> DEFINE r     == SubSeq(s, 1, k)
             first == c.header[1]
             n     == ContentLength(c.header)
             e     == Len(c.header)
             b     == Len(c.body)
             v     == Verdict(first, SubSeq(r, e + 1, e + n), dev)
  <1>1. Len(s) \in Nat /\ k \in Nat /\ HeaderSize \in Nat
    BY LenProperties, HttpRxAssumption DEF Stream
  <1>2. /\ Len(r) = k
        /\ \A m \in Nat : \A f : f \in HeaderEnds(r, m) <=>
                                 f \in 4 .. m /\ f <= k /\ f \in HeaderEnds(s, f)
    BY PrefixEnds
  <1>3. ASSUME NEW m \in Nat, m = HeaderSize - 1, \A f \in 4 .. m : f <= k => f \notin HeaderEnds(s, f)
        PROVE  Expected(r, dev) = {IF k > m THEN "431" ELSE "none"}
    <2>1. HeaderEnds(r, HeaderSize - 1) = {}
      BY <1>2, <1>3
    <2> HIDE DEF r
    <2> QED
      BY <1>2, <1>3, <2>1, Zenon DEF Expected
  <1>4. HeaderSize - 1 \in Nat
    BY <1>1, HttpRxAssumption
  <1>5. CASE Collecting(c, s, k)
    <2>1. \A f \in 4 .. HeaderSize - 1 : f <= k => f \notin HeaderEnds(s, f)
      BY <1>1, <1>5 DEF Collecting, HeaderEnds
    <2>2. Expected(r, dev) = {IF k > HeaderSize - 1 THEN "431" ELSE "none"}
      BY <1>3, <1>4, <2>1
    <2>3. ~(k > HeaderSize - 1) /\ c.reply = "none"
      BY <1>1, <1>5 DEF Collecting
    <2> QED
      BY <2>2, <2>3
  <1>6. CASE c.reply = "431" /\ k >= HeaderSize /\ HeaderEnds(s, HeaderSize - 1) = {}
    <2>1. \A f \in 4 .. HeaderSize - 1 : f <= k => f \notin HeaderEnds(s, f)
      BY <1>1, <1>6 DEF HeaderEnds
    <2>2. Expected(r, dev) = {IF k > HeaderSize - 1 THEN "431" ELSE "none"}
      BY <1>3, <1>4, <2>1
    <2>3. k > HeaderSize - 1
      BY <1>1, <1>6
    <2> QED
      BY <1>6, <2>2, <2>3
  <1>7. ASSUME HasHeader(c, s, k)
        PROVE  e \in Nat /\ Expected(r, dev) = Answers(first, dev, n, k - e, v)
    <2>1. e \in 4 .. k
      BY <1>7 DEF HasHeader
    <2>2. e \in Nat
      <3> HIDE DEF e
      <3> QED
        BY <1>1, <2>1
    <2>3. Expected(r, dev) = Answers(first, dev, n, k - e, v)
      BY <1>7, ExpectedWithHeader
    <2> HIDE DEF r, e, n, first, v
    <2> QED
      BY <2>2, <2>3
  <1> HIDE DEF r
  <1>8. CASE Settled(c, s, k, dev) /\ HasHeader(c, s, k) /\ c.reply # "431"
    <2>1. RefusedAtOnce(first, n, dev, c.reply)
      BY <1>8 DEF Settled
    <2> HIDE DEF first, n, e, v
    <2>2. c.reply \in Answers(first, dev, n, k - e, v)
      <3>1. CASE first \notin WithBody
        BY <2>1, <3>1 DEF Answers, RefusedAtOnce, WithBody
      <3>2. CASE first \in WithBody
        <4>1. first # "get"
          BY <3>2 DEF WithBody
        <4>2. CASE dev = "busy"
          BY <2>1, <3>2, <4>1, <4>2 DEF Answers, RefusedAtOnce
        <4>3. CASE dev # "busy"
          BY <2>1, <3>2, <4>1, <4>3 DEF Answers, RefusedAtOnce
        <4> QED
          BY <4>2, <4>3
      <3> QED
        BY <3>1, <3>2
    <2> QED
      BY <1>7, <1>8, <2>2 DEF r
  <1>9. CASE Taking(c, s, k, dev) \/ Finished(c, s, k, dev)
    <2>1. Admitted(c, s, k, dev)
      BY <1>9 DEF Taking, Finished
    <2>2. /\ HasHeader(c, s, k) /\ first \in WithBody /\ dev # "busy" /\ c.length = n
          /\ (dev = "no_room" => first = "env")
          /\ Fits(first, n) /\ b \in 0 .. n /\ e + b <= k
          /\ c.body = SubSeq(s, e + 1, e + b)
      BY <2>1 DEF Admitted
    <2>3. e \in Nat /\ n \in Nat /\ n # NoLine /\ b \in Nat
      <3>1. e \in Nat
        BY <1>7, <2>2
      <3>2. n \in Nat
        BY <2>2, FitsNat
      <3> HIDE DEF e, n, b
      <3>3. n # -1 /\ b \in Nat
        BY <2>2, <3>2
      <3> QED
        BY <3>1, <3>2, <3>3 DEF NoLine
    <2>4. Expected(r, dev) =
            IF k - e < n THEN {"none"}
            ELSE IF k - e = n THEN {v}
            ELSE {v, TooLong(first)}
      <3>1. first # "get"
        BY <2>2 DEF WithBody
      <3>2. Expected(r, dev) = Answers(first, dev, n, k - e, v)
        BY <1>7, <2>2
      <3> HIDE DEF first, n, e, v
      <3> QED
        BY <2>2, <2>3, <3>1, <3>2 DEF Answers
    <2>5. CASE Taking(c, s, k, dev)
      <3>1. c.reply = "none" /\ b < n /\ e + b = k
        BY <2>2, <2>5 DEF Taking
      <3>2. k - e < n
        <4> HIDE DEF e, n, b
        <4> QED
          BY <2>3, <3>1
      <3> QED
        BY <2>4, <3>1, <3>2 DEF r
    <2>6. CASE Finished(c, s, k, dev)
      <3>1. CASE c.reply = Verdict(first, c.body, dev) /\ b = n
        <4>1. ~(k - e < n) /\ e + n <= k /\ e + 1 \in Nat \ {0} /\ e + n \in Nat
          <5> HIDE DEF e, n, b
          <5> QED
            BY <1>1, <2>2, <2>3, <3>1
        <4>2. SubSeq(r, e + 1, e + n) = SubSeq(s, e + 1, e + n)
          <5> HIDE DEF e, n, b
          <5>1. /\ SubSeq(SubSeq(s, 0 + 1, 0 + k), e + 1, e + n) = SubSeq(s, 0 + (e + 1), 0 + (e + n))
            BY <1>1, <4>1, Cut
          <5>2. 0 + 1 = 1 /\ 0 + k = k /\ 0 + (e + 1) = e + 1 /\ 0 + (e + n) = e + n
            BY <1>1, <2>3
          <5> QED
            BY <5>1, <5>2 DEF r
        <4>3. c.reply = v
          BY <2>2, <3>1, <4>2
        <4> HIDE DEF v, e, n
        <4> QED
          BY <2>4, <4>1, <4>3 DEF r
      <3>2. CASE c.reply = TooLong(first) /\ k > e + n
        <4>1. ~(k - e < n) /\ ~(k - e = n)
          <5> HIDE DEF e, n
          <5> QED
            BY <1>1, <2>3, <3>2
        <4> HIDE DEF v, e, n
        <4> QED
          BY <2>4, <3>2, <4>1 DEF r
      <3> QED
        BY <2>2, <2>6, <3>1, <3>2 DEF Finished
    <2> QED
      BY <1>9, <2>5, <2>6
  <1>10. CASE Settled(c, s, k, dev)
    <2>1. CASE c.reply = "431" /\ k >= HeaderSize /\ HeaderEnds(s, HeaderSize - 1) = {}
      BY <1>6, <2>1 DEF r
    <2>2. CASE HasHeader(c, s, k) /\ RefusedAtOnce(first, n, dev, c.reply)
      <3>1. c.reply # "431"
        BY <2>2 DEF RefusedAtOnce
      <3> QED
        BY <1>8, <1>10, <2>2, <3>1 DEF r
    <2> QED
      BY <1>10, <2>1, <2>2 DEF Settled
  <1>11. Collecting(c, s, k) \/ Taking(c, s, k, dev) \/ Finished(c, s, k, dev) \/ Settled(c, s, k, dev)
    BY DEF After
  <1> QED
    BY <1>5, <1>9, <1>10, <1>11 DEF r

\* The answer depends on the bytes and on what the rest of the server says, for
\* every stream, however it is cut.
THEOREM AnswerFromBytesAlways == RxSpec => []AnswerFromBytes
  <1>1. ASSUME RxInv, client # NoConn, ~foreign
        PROVE  ctx.reply \in Expected(Received(client), device)
    <2> DEFINE s == peers[client].sent
               k == peers[client].arrived
    <2>1. s \in Streams /\ k \in 0 .. Len(s) /\ After(ctx, s, k, device)
      BY <1>1 DEF RxInv
    <2>2. Stream(s)
      BY <2>1, HttpRxAssumption DEF Stream
    <2> HIDE DEF s, k
    <2>3. ctx.reply \in Expected(SubSeq(s, 1, k), device)
      BY <2>1, <2>2, AnswerExpected
    <2> QED
      BY <2>3 DEF Received, s, k
  <1>2. RxInv => AnswerFromBytes
    BY <1>1 DEF AnswerFromBytes
  <1> QED
    BY <1>2, RequestInvariant, PTL
-----------------------------------------------------------------------------
(* Requests: what there is room for, whoever sends it.                      *)

LEMMA WiderSeq ==
  ASSUME NEW S, NEW T, S \subseteq T, NEW s \in Seq(S)
  PROVE  s \in Seq(T)
  OBVIOUS

LEMMA RestOfSeq ==
  ASSUME NEW S, NEW s \in Seq(S), NEW m \in Nat \ {0}
  PROVE  SubSeq(s, m, Len(s)) \in Seq(S)
  BY LenProperties, SubSeqProperties

LEMMA StoreBounded ==
  ASSUME NEW c, Bounded(c), c.rx_state \in {"upload", "body"}, NEW data \in Seq(Units), NEW dev
  PROVE  Bounded(Store(c, data, dev))
  <1>0. IsCtx(c)
    BY DEF Bounded, IsCtx, Fresh
  <1>1. ASSUME NEW d, IsCtx(d), Bounded(d), NEW status
        PROVE  Bounded(Answer(d, status))
    BY <1>1, AnswerFields DEF Bounded, IsCtx, Fresh
  <1>2. CASE Surplus(c, data)
    <2>1. Store(c, data, dev) = Answer(c, TooLong(c.header[1]))
      BY <1>2 DEF Store
    <2> QED
      BY <1>0, <1>1, <2>1
  <1>3. CASE ~Surplus(c, data)
    <2> DEFINE d == [c EXCEPT !.body = Placed(c, data)]
    <2>1. /\ IsCtx(d) /\ d.rx_state = c.rx_state /\ d.header = c.header /\ d.length = c.length
          /\ d.body = c.body \o data
      BY <1>0 DEF IsCtx, Placed
    <2>2. Store(c, data, dev) = d \/ \E status : Store(c, data, dev) = Answer(d, status)
      BY <1>3 DEF Store
    <2> HIDE DEF d
    <2>3. CASE c.length = 0
      BY <1>1, <2>1, <2>2, <2>3 DEF Bounded, IsCtx, Fresh
    <2>4. CASE c.length # 0
      <3>1. Fits(c.header[1], c.length) /\ c.body \in Seq(Units) /\ Len(c.body) <= c.length
        BY <2>4 DEF Bounded
      <3>2. c.length \in Nat /\ Len(c.body) \in Nat /\ Len(data) \in Nat
        BY <3>1, FitsNat, LenProperties
      <3>3. d.body \in Seq(Units) /\ Len(d.body) = Len(c.body) + Len(data)
        BY <2>1, <3>1, ConcatProperties
      <3>4. Len(data) <= c.length - Len(c.body)
        BY <1>3, <3>2 DEF Surplus
      <3>5. Len(d.body) <= d.length
        BY <2>1, <3>2, <3>3, <3>4
      <3>6. Bounded(d)
        BY <2>1, <3>1, <3>3, <3>5 DEF Bounded, IsCtx, Fresh
      <3> QED
        BY <1>1, <2>1, <2>2, <3>6
    <2> QED
      BY <2>3, <2>4
  <1> QED
    BY <1>2, <1>3

LEMMA HandleBounded ==
  ASSUME NEW c, IsCtx(c), c.length = 0, c.rx_state = "headers", NEW dev
  PROVE  LET d == HandleHeaders(c, dev)
         IN  Bounded(d) /\ (d.rx_state = "replied" \/ d.rx_state \in {"upload", "body"})
  <1>1. ASSUME NEW status
        PROVE  Bounded(Answer(c, status)) /\ Answer(c, status).rx_state = "replied"
    BY AnswerFields DEF Bounded, IsCtx, Fresh
  <1>2. CASE c.header[1] \in WithBody
    <2> DEFINE n == ContentLength(c.header)
               d == [c EXCEPT !.length = n, !.body = <<>>,
                              !.rx_state = IF c.header[1] = "env" THEN "body" ELSE "upload"]
    <2>1. HandleHeaders(c, dev) = Prepare(c, dev)
      BY <1>2 DEF HandleHeaders, WithBody
    <2>2. CASE \E status : Prepare(c, dev) = Answer(c, status)
      BY <1>1, <2>1, <2>2
    <2>3. CASE Fits(c.header[1], n) /\ Prepare(c, dev) = d
      <3>1. /\ IsCtx(d) /\ d.header = c.header /\ d.length = n /\ d.body = <<>>
            /\ d.rx_state \in {"upload", "body"}
        BY DEF IsCtx
      <3>2. <<>> \in Seq(Units) /\ Len(<<>>) = 0 /\ n \in Nat
        BY <2>3, FitsNat
      <3> HIDE DEF d, n
      <3>3. Bounded(d)
        BY <2>3, <3>1, <3>2 DEF Bounded, IsCtx, Fresh
      <3> QED
        BY <2>1, <2>3, <3>1, <3>3
    <2>4. (\E status : Prepare(c, dev) = Answer(c, status)) \/ (Fits(c.header[1], n) /\ Prepare(c, dev) = d)
      BY DEF Prepare
    <2> QED
      BY <2>2, <2>3, <2>4
  <1>3. CASE c.header[1] = "get"
    BY <1>1, <1>3 DEF HandleHeaders, WithBody
  <1>4. CASE c.header[1] \notin WithBody \cup {"get"}
    BY <1>1, <1>4 DEF HandleHeaders, WithBody
  <1> QED
    BY <1>2, <1>3, <1>4

LEMMA PartOfUnits ==
  ASSUME NEW s \in Streams, NEW m \in Nat \ {0}, NEW n \in Nat, n <= Len(s)
  PROVE  SubSeq(s, m, n) \in Seq(Units)
  <1>1. SubSeq(s, m, n) \in Seq({s[i] : i \in DOMAIN s})
    BY StreamPart, HttpRxAssumption DEF Stream
  <1>2. {s[i] : i \in DOMAIN s} \subseteq Units
    BY DEF Units
  <1> HIDE DEF Units
  <1> QED
    BY <1>1, <1>2, WiderSeq

LEMMA ConsumeBounded ==
  ASSUME NEW c, Bounded(c), NEW data \in Seq(Units), NEW dev
  PROVE  Bounded(Consume(c, data, dev))
  <1>0. IsCtx(c)
    BY DEF Bounded, IsCtx, Fresh
  <1>1. CASE c.rx_state = "headers"
    <2> DEFINE k    == Min(Ends(c, data))
               full == [c EXCEPT !.header = @ \o SubSeq(data, 1, k)]
               rest == SubSeq(data, k + 1, Len(data))
               next == HandleHeaders(full, dev)
               head == [c EXCEPT !.header = @ \o SubSeq(data, 1, Room(c))]
               all  == [c EXCEPT !.header = @ \o data]
    <2>1. c.length = 0
      BY <1>1 DEF Bounded
    <2>2. ASSUME NEW h, NEW d, d = [c EXCEPT !.header = h]
          PROVE  IsCtx(d) /\ d.length = 0 /\ d.rx_state = "headers" /\ Bounded(d)
      <3>1. IsCtx(d) /\ d.length = 0 /\ d.rx_state = "headers"
        BY <1>0, <1>1, <2>1, <2>2 DEF IsCtx
      <3> QED
        BY <3>1 DEF Bounded, IsCtx, Fresh
    <2>3. Consume(c, data, dev) = CollectHeader(c, data, dev)
      BY <1>1 DEF Consume
    <2>4. CASE Ends(c, data) # {} /\ k <= Room(c)
      <3>1. Bounded(next) /\ (next.rx_state = "replied" \/ next.rx_state \in {"upload", "body"})
        <4>1. IsCtx(full) /\ full.length = 0 /\ full.rx_state = "headers"
          BY <2>2
        <4> HIDE DEF full
        <4> QED
          BY <4>1, HandleBounded
      <3>2. rest \in Seq(Units)
        <4>1. Ends(c, data) \subseteq Nat
          BY DEF Ends
        <4>2. k \in Nat /\ k + 1 \in Nat \ {0} /\ Len(data) \in Nat
          <5>1. k \in Ends(c, data)
            BY <2>4, <4>1, LeastMember
          <5> HIDE DEF k
          <5> QED
            BY <4>1, <5>1, LenProperties
        <4> HIDE DEF k, Units
        <4> QED
          BY <4>2, RestOfSeq
      <3>3. CollectHeader(c, data, dev) =
              IF next.rx_state = "replied" \/ rest = <<>> THEN next ELSE Store(next, rest, dev)
        BY <2>4 DEF CollectHeader
      <3> HIDE DEF next, rest
      <3> QED
        BY <2>3, <3>1, <3>2, <3>3, StoreBounded
    <2>5. CASE ~(Ends(c, data) # {} /\ k <= Room(c)) /\ Len(data) > Room(c)
      <3>1. CollectHeader(c, data, dev) = Answer(head, "431")
        BY <2>5 DEF CollectHeader
      <3>2. IsCtx(head) /\ head.length = 0
        BY <2>2
      <3> HIDE DEF head
      <3> QED
        BY <2>3, <3>1, <3>2, AnswerFields DEF Bounded, IsCtx, Fresh
    <2>6. CASE ~(Ends(c, data) # {} /\ k <= Room(c)) /\ ~(Len(data) > Room(c))
      <3>1. CollectHeader(c, data, dev) = all
        BY <2>6 DEF CollectHeader
      <3>2. Bounded(all)
        BY <2>2
      <3> QED
        BY <2>3, <3>1, <3>2
    <2> QED
      BY <2>4, <2>5, <2>6
  <1>2. CASE c.rx_state \in {"upload", "body"}
    BY <1>2, StoreBounded DEF Consume
  <1>3. CASE c.rx_state = "replied"
    BY <1>3 DEF Consume
  <1> QED
    BY <1>1, <1>2, <1>3 DEF Bounded

LEMMA BufferInvNext ==
  ASSUME BufferInv, [RxNext]_rxVars
  PROVE  BufferInv'
  <1>0. /\ DOMAIN peers = Conns /\ Bounded(ctx) /\ (client # NoConn => client \in Conns)
        /\ \A p \in Conns : peers[p].state = "open" =>
             peers[p].sent \in Streams /\ peers[p].arrived \in 0 .. Len(peers[p].sent)
        /\ \A s \in Streams : Len(s) \in Nat
    BY HttpRxAssumption, LenProperties DEF BufferInv
  <1>1. ASSUME NEW p \in Conns, NEW s \in Streams, NEW dev \in Devices, Accept(p, s, dev)
        PROVE  BufferInv'
    <2>1. /\ client' = p /\ ctx' = Fresh
          /\ peers' = [peers EXCEPT ![p] = [state |-> "open", sent |-> s, arrived |-> 0]]
      BY <1>1 DEF Accept
    <2>2. Bounded(Fresh)
      BY DEF Bounded, Fresh
    <2>3. /\ DOMAIN peers' = Conns /\ peers'[p].sent = s /\ peers'[p].arrived = 0
          /\ \A q \in Conns \ {p} : peers'[q] = peers[q]
      BY <1>0, <2>1
    <2>4. 0 \in 0 .. Len(s)
      BY <1>0
    <2> QED
      BY <1>0, <2>1, <2>2, <2>3, <2>4 DEF BufferInv
  <1>2. ASSUME NEW p \in Conns, NEW n \in 1 .. Deliverable(p), peers[p].state = "open"
        PROVE  /\ n \in Nat \ {0} /\ peers[p].arrived \in Nat /\ peers[p].sent \in Streams
               /\ peers[p].arrived + n \in 0 .. Len(peers[p].sent)
    BY <1>0, <1>2 DEF Deliverable
  <1>3. ASSUME NEW p \in Conns, NEW n \in 1 .. Deliverable(p), NEW i \in 1 .. n,
               NEW lost \in BOOLEAN, Recv(p, n, i, lost)
        PROVE  BufferInv'
    <2>1. /\ client \in Conns /\ peers[p].state = "open" /\ ctx' = ConsumeChain(p, n, i)
          /\ client' = IF lost THEN NoConn ELSE client
          /\ peers' = [peers EXCEPT ![p].arrived = @ + n, ![client] = IF lost THEN Over("gone") ELSE @]
      BY <1>0, <1>3 DEF Recv, Deliverable
    <2>2. /\ n \in Nat \ {0} /\ peers[p].arrived \in Nat /\ peers[p].sent \in Streams
          /\ peers[p].arrived + n \in 0 .. Len(peers[p].sent)
      BY <1>2, <2>1
    <2>3. Bounded(ctx')
      <3> DEFINE s     == peers[p].sent
                 a     == peers[p].arrived
                 first == Consume(ctx, SubSeq(s, a + 1, a + i), device)
                 last  == SubSeq(s, a + (i + 1), a + n)
      <3>1. /\ SubSeq(s, a + 1, a + i) \in Seq(Units) /\ last \in Seq(Units)
        <4>1. /\ a + 1 \in Nat \ {0} /\ a + i \in Nat /\ a + i <= Len(s)
              /\ a + (i + 1) \in Nat \ {0} /\ a + n \in Nat /\ a + n <= Len(s)
          <5>1. Len(s) \in Nat /\ a \in Nat /\ a + n \in 0 .. Len(s) /\ n \in Nat /\ i \in 1 .. n
            BY <1>0, <2>2
          <5> HIDE DEF s, a
          <5> QED
            BY <5>1
        <4> HIDE DEF a
        <4> QED
          BY <2>2, <4>1, PartOfUnits
      <3>2. Bounded(first)
        BY <1>0, <3>1, ConsumeBounded
      <3>3. ctx' = IF i = n THEN first ELSE Consume(first, last, device)
        BY <2>1 DEF ConsumeChain
      <3> HIDE DEF first, last
      <3> QED
        BY <3>1, <3>2, <3>3, ConsumeBounded
    <2>4. /\ DOMAIN peers' = Conns
          /\ \A q \in Conns : peers'[q].state = "open" =>
               /\ peers[q].state = "open" /\ peers'[q].sent = peers[q].sent
               /\ peers'[q].arrived = IF q = p THEN peers[q].arrived + n ELSE peers[q].arrived
      <3> DEFINE r == [peers[p] EXCEPT !.arrived = @ + n]
      <3>1. r.state = peers[p].state /\ r.sent = peers[p].sent /\ r.arrived = peers[p].arrived + n
        BY <1>0
      <3>2. Over("gone").state # "open"
        BY DEF Over
      <3>3. /\ DOMAIN peers' = Conns /\ \A q \in Conns \ {p, client} : peers'[q] = peers[q]
            /\ client # p => peers'[p] = r
            /\ lost => peers'[client] = Over("gone")
            /\ ~lost => peers'[client] = IF client = p THEN r ELSE peers[client]
        <4>1. CASE p = client
          BY <1>0, <2>1, <4>1
        <4>2. CASE p # client
          BY <1>0, <2>1, <4>2
        <4> QED
          BY <4>1, <4>2
      <3> HIDE DEF r
      <3> QED
        BY <2>1, <3>1, <3>2, <3>3
    <2> QED
      BY <1>0, <2>1, <2>2, <2>3, <2>4 DEF BufferInv
  <1>4. ASSUME NEW p \in Conns, NEW n \in 1 .. Deliverable(p), RecvDropped(p, n)
        PROVE  BufferInv'
    <2>1. /\ client' = client /\ ctx' = ctx /\ peers[p].state = "open"
          /\ peers' = [peers EXCEPT ![p].arrived = @ + n]
      BY <1>4 DEF RecvDropped, Deliverable
    <2>2. peers[p].sent \in Streams /\ peers[p].arrived + n \in 0 .. Len(peers[p].sent)
      BY <1>2, <2>1
    <2>3. /\ DOMAIN peers' = Conns /\ \A q \in Conns \ {p} : peers'[q] = peers[q]
          /\ peers'[p].sent = peers[p].sent /\ peers'[p].arrived = peers[p].arrived + n
      BY <1>0, <2>1
    <2> QED
      BY <1>0, <2>1, <2>2, <2>3 DEF BufferInv
  <1>5. ASSUME client' = NoConn, ctx' = ctx, DOMAIN peers' = Conns,
               \A q \in Conns : peers'[q].state = "open" => peers'[q] = peers[q]
        PROVE  BufferInv'
    BY <1>0, <1>5 DEF BufferInv
  <1>6. ASSUME NEW Q, CloseClient(Q)
        PROVE  BufferInv'
    <2>1. /\ client' = NoConn /\ ctx' = ctx
          /\ peers' = [q \in Conns |-> IF q \in Q \cup {client} THEN Over("closed") ELSE peers[q]]
      BY <1>6 DEF CloseClient
    <2>2. DOMAIN peers' = Conns /\ \A q \in Conns : peers'[q].state = "open" => peers'[q] = peers[q]
      BY <2>1 DEF Over
    <2> QED
      BY <1>5, <2>1, <2>2
  <1>7. ASSUME NEW p \in Conns, client' = NoConn, ctx' = ctx, peers' = [peers EXCEPT ![p] = Over("gone")]
        PROVE  BufferInv'
    <2>1. DOMAIN peers' = Conns /\ \A q \in Conns : peers'[q].state = "open" => peers'[q] = peers[q]
      BY <1>0, <1>7 DEF Over
    <2> QED
      BY <1>5, <1>7, <2>1
  <1>8. ASSUME NEW p \in Conns, TcpError(p)
        PROVE  BufferInv'
    BY <1>7, <1>8 DEF TcpError
  <1>9. CASE Abort
    BY <1>0, <1>7, <1>9 DEF Abort
  <1>10. CASE UNCHANGED rxVars
    BY <1>10 DEF rxVars, BufferInv
  <1> QED
    BY <1>1, <1>3, <1>4, <1>6, <1>8, <1>9, <1>10 DEF RxNext, RecvEnd, Sent

\* A body stays within the length it was admitted with, and that within its
\* buffer, for every number of connections that feed the one context.
THEOREM BodyInBufferAlways == RxSpec => []BodyInBuffer
  <1>1. RxInit => BufferInv
    BY HttpRxAssumption DEF RxInit, BufferInv, Bounded, Fresh, Over
  <1>2. BufferInv /\ [RxNext]_rxVars => BufferInv'
    BY BufferInvNext
  <1>3. BufferInv => BodyInBuffer
    BY DEF BufferInv, Bounded, BodyInBuffer
  <1> QED
    BY <1>1, <1>2, <1>3, PTL DEF RxSpec
=============================================================================
