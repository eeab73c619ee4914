----------------------------- MODULE Boot_proofs -----------------------------
(***************************************************************************)
(* Theorems about what the board comes up with: the environment it stores  *)
(* and loads (module EnvSf), and what it decides to run (module BootFlow). *)
(***************************************************************************)
EXTENDS EnvSf, BootFlow, TLAPS

-----------------------------------------------------------------------------
(* What a boot loads, as a function of the copies.                          *)

\* One copy: that copy, unless it is bad.
LEMMA LoadSingle ==
  ASSUME ~redundant, NEW cp
  PROVE  /\ LoadedEnv(cp, {}) = IF cp[1] = Bad THEN Default ELSE cp[1].env
         /\ CheckRedund(cp, {}) = "valid"
  BY DEF LoadedEnv, CheckRedund, Copies

\* Two copies, of which one is t: the good one, or the one that is not obsolete.
LEMMA LoadRedundant ==
  ASSUME redundant, NEW cp \in [{1, 2} -> {Bad} \cup Good], NEW t \in {1, 2}
  PROVE  /\ cp[t] = Bad /\ cp[3 - t] = Bad => LoadedEnv(cp, {}) = Default
         /\ cp[t] = Bad /\ cp[3 - t] # Bad => LoadedEnv(cp, {}) = cp[3 - t].env
         /\ cp[t] # Bad /\ cp[3 - t] = Bad => LoadedEnv(cp, {}) = cp[t].env
         /\ cp[t] # Bad /\ cp[3 - t] # Bad =>
              /\ LoadedEnv(cp, {}) \in {cp[t].env, cp[3 - t].env}
              /\ cp[t].flags = Active /\ cp[3 - t].flags = Obsolete
                   => LoadedEnv(cp, {}) = cp[t].env
  <1>1. {} # Copies
    BY DEF Copies
  <1>2. CASE t = 1
    BY <1>1, <1>2 DEF LoadedEnv, CheckRedund, Active, Obsolete
  <1>3. CASE t = 2
    BY <1>1, <1>3 DEF LoadedEnv, CheckRedund, Active, Obsolete
  <1> QED
    BY <1>2, <1>3

\* What is loaded is an environment.
LEMMA LoadType ==
  ASSUME redundant \in BOOLEAN, NEW cp \in [Copies -> {Bad} \cup Good], NEW failed \in SUBSET Copies
  PROVE  /\ LoadedEnv(cp, failed) \in Envs
         /\ CheckRedund(cp, failed) \in {"invalid", "valid", "redund"}
  <1>1. CheckRedund(cp, failed) \in {"invalid", "valid", "redund"}
    <2>1. CASE redundant
      BY <2>1 DEF CheckRedund
    <2>2. CASE ~redundant
      BY <2>2 DEF CheckRedund
    <2> QED
      BY <2>1, <2>2
  <1>2. CASE LoadedEnv(cp, failed) = Default
    BY <1>1, <1>2, EnvAssumption
  <1>3. CASE LoadedEnv(cp, failed) # Default
    <2>1. PICK c \in {1, 2} : /\ c = (IF CheckRedund(cp, failed) = "redund" THEN 2 ELSE 1)
                             /\ cp[c] # Bad /\ LoadedEnv(cp, failed) = cp[c].env
      BY <1>3 DEF LoadedEnv
    <2>2. c \in Copies
      BY <2>1 DEF CheckRedund, Copies
    <2>3. cp[c] \in Good
      BY <2>1, <2>2
    <2> QED
      BY <1>1, <2>1, <2>3 DEF Good
  <1> QED
    BY <1>2, <1>3

\* The copies a save works on.
LEMMA TargetCopies ==
  ASSUME redundant \in BOOLEAN
  PROVE  /\ Target \in Copies
         /\ redundant => Copies = {1, 2} /\ Other \in Copies /\ Other # Target /\ Target = 3 - Other
         /\ ~redundant => Copies = {1} /\ Target = 1
  BY DEF Target, Other, Copies

\* A copy holding a checked environment is not a bad one.
LEMMA GoodIsNotBad ==
  ASSUME NEW e \in Envs, NEW f \in {Active, Obsolete}
  PROVE  [env |-> e, flags |-> f] \in Good /\ [env |-> e, flags |-> f] # Bad
  BY DEF Good, Bad, Active, Obsolete

-----------------------------------------------------------------------------
(* What the SPI operations leave, whether they finish or not.               *)

\* The copy that is not written to still has what was saved last.
Kept(cp) ==
  redundant /\ ~suspect =>
    /\ copy[Other] = Bad => cp[Other] = Bad
    /\ copy[Other] # Bad => cp[Other] # Bad /\ cp[Other].env = copy[Other].env

\* A content of the copies that a boot may find.
Sound(cp) ==
  /\ cp \in [Copies -> {Bad} \cup Good]
  /\ suspect \/ LoadedEnv(cp, {}) \in {acked} \cup tried
  /\ Kept(cp)

\* The copy is erased: the other one is loaded, or the default environment.
LEMMA ErasedSound ==
  ASSUME EnvInv, step = "erase"
  PROVE  Sound([copy EXCEPT ![Target] = Bad])
  <1> DEFINE cp == [copy EXCEPT ![Target] = Bad]
  <1>1. /\ redundant \in BOOLEAN /\ copy \in [Copies -> {Bad} \cup Good]
        /\ redundant \/ Default \in tried
    BY DEF EnvInv, EnvTypeOK, ProgressInv, SaveSteps
  <1>2. cp \in [Copies -> {Bad} \cup Good] /\ cp[Target] = Bad
    BY <1>1, TargetCopies
  <1>3. redundant => Other \in Copies /\ cp[Other] = copy[Other]
    BY <1>1, TargetCopies
  <1>4. suspect \/ LoadedEnv(cp, {}) \in {acked} \cup tried
    <2>1. CASE ~redundant
      BY <1>1, <1>2, <2>1, LoadSingle, TargetCopies
    <2>2. CASE redundant /\ ~suspect
      <3>1. /\ cp \in [{1, 2} -> {Bad} \cup Good] /\ Target \in {1, 2} /\ Other = 3 - Target
        BY <1>1, <1>2, <2>2, TargetCopies DEF Other
      <3>2. /\ cp[Other] = Bad => LoadedEnv(cp, {}) = Default
            /\ cp[Other] # Bad => LoadedEnv(cp, {}) = cp[Other].env
        BY <1>2, <2>2, <3>1, LoadRedundant
      <3>3. IF env_valid = "invalid" THEN copy[Other] = Bad /\ acked = Default
            ELSE copy[Other] # Bad /\ copy[Other].env = acked
        BY <2>2 DEF EnvInv, SpareInv
      <3> QED
        BY <1>3, <2>2, <3>2, <3>3
    <2> QED
      BY <2>1, <2>2
  <1>5. Kept(cp)
    BY <1>3 DEF Kept
  <1> QED
    BY <1>2, <1>4, <1>5 DEF Sound

\* The environment is in the copy: it is loaded, or the one saved before.
LEMMA WrittenSound ==
  ASSUME EnvInv, step = "write"
  PROVE  Sound([copy EXCEPT ![Target] = [env |-> ram, flags |-> Active]])
  <1> DEFINE new == [env |-> ram, flags |-> Active]
             cp  == [copy EXCEPT ![Target] = new]
  <1>1. /\ redundant \in BOOLEAN /\ copy \in [Copies -> {Bad} \cup Good]
        /\ ram \in Envs /\ ram \in tried
    BY DEF EnvInv, EnvTypeOK, ProgressInv, SaveSteps
  <1>2. new \in Good /\ new # Bad /\ new.env = ram
    BY <1>1, GoodIsNotBad
  <1>3. cp \in [Copies -> {Bad} \cup Good] /\ cp[Target] = new
    BY <1>1, <1>2, TargetCopies
  <1>4. redundant => Other \in Copies /\ cp[Other] = copy[Other]
    BY <1>1, TargetCopies
  <1>5. suspect \/ LoadedEnv(cp, {}) \in {acked} \cup tried
    <2>1. CASE ~redundant
      BY <1>1, <1>2, <1>3, <2>1, LoadSingle, TargetCopies
    <2>2. CASE redundant /\ ~suspect
      <3>1. /\ cp \in [{1, 2} -> {Bad} \cup Good] /\ Target \in {1, 2} /\ Other = 3 - Target
        BY <1>1, <1>3, <2>2, TargetCopies DEF Other
      <3>2. /\ cp[Other] = Bad => LoadedEnv(cp, {}) = cp[Target].env
            /\ cp[Other] # Bad => LoadedEnv(cp, {}) \in {cp[Target].env, cp[Other].env}
        BY <1>2, <1>3, <2>2, <3>1, LoadRedundant
      <3>3. copy[Other] # Bad => copy[Other].env = acked
        BY <2>2 DEF EnvInv, SpareInv
      <3> QED
        BY <1>1, <1>2, <1>3, <1>4, <2>2, <3>2, <3>3
    <2> QED
      BY <2>1, <2>2
  <1>6. Kept(cp)
    BY <1>4 DEF Kept
  <1> QED
    BY <1>3, <1>5, <1>6 DEF Sound

\* The other copy is marked obsolete: what was just written is loaded.
LEMMA FlaggedSound ==
  ASSUME EnvInv, step = "flag"
  PROVE  /\ Sound([copy EXCEPT ![Other] = Retired(Other)])
         /\ LoadedEnv([copy EXCEPT ![Other] = Retired(Other)], {}) = ram
         /\ [copy EXCEPT ![Other] = Retired(Other)][Target] = [env |-> ram, flags |-> Active]
  <1> DEFINE new == [env |-> ram, flags |-> Active]
             old == Retired(Other)
             cp  == [copy EXCEPT ![Other] = old]
  <1>1. /\ redundant /\ redundant \in BOOLEAN /\ copy \in [Copies -> {Bad} \cup Good]
        /\ ram \in Envs /\ ram \in tried /\ copy[Target] = new
    BY DEF EnvInv, EnvTypeOK, ProgressInv, SaveSteps
  <1>2. /\ Copies = {1, 2} /\ Target \in {1, 2} /\ Other \in {1, 2}
        /\ Other # Target /\ Other = 3 - Target
    BY <1>1, TargetCopies DEF Other
  <1>3. new # Bad /\ new.env = ram /\ new.flags = Active
    BY <1>1, GoodIsNotBad
  <1>4. /\ copy[Other] = Bad => old = Bad
        /\ copy[Other] # Bad => old # Bad /\ old \in Good /\ old.env = copy[Other].env
                                /\ old.flags = Obsolete
    <2>1. CASE copy[Other] = Bad
      BY <2>1 DEF Retired
    <2>2. CASE copy[Other] # Bad
      <3>1. copy[Other] \in Good
        BY <1>1, <1>2, <2>2
      <3>2. PICK e \in Envs : copy[Other].env = e /\ old = [env |-> e, flags |-> Obsolete]
        BY <2>2, <3>1 DEF Good, Retired
      <3> QED
        <4>1. old \in Good /\ old # Bad
          BY <3>2, GoodIsNotBad
        <4>2. old.env = e /\ old.flags = Obsolete
          BY <3>2
        <4> QED
          BY <2>2, <3>2, <4>1, <4>2
    <2> QED
      BY <2>1, <2>2
  <1>5. /\ cp \in [{1, 2} -> {Bad} \cup Good] /\ cp[Target] = new /\ cp[Other] = old
    <2>1. old \in {Bad} \cup Good
      BY <1>4
    <2> QED
      BY <1>1, <1>2, <2>1
  <1>6. LoadedEnv(cp, {}) = ram
    <2>1. CASE old = Bad
      <3>1. cp[Target] # Bad /\ cp[3 - Target] = Bad
        BY <1>2, <1>3, <1>5, <2>1
      <3>2. LoadedEnv(cp, {}) = cp[Target].env
        BY <1>1, <1>2, <1>5, <3>1, LoadRedundant
      <3> QED
        BY <1>3, <1>5, <3>2
    <2>2. CASE old # Bad
      BY <1>1, <1>2, <1>3, <1>4, <1>5, <2>2, LoadRedundant
    <2> QED
      BY <2>1, <2>2
  <1>7. Kept(cp)
    BY <1>4, <1>5 DEF Kept
  <1> QED
    BY <1>1, <1>2, <1>5, <1>6, <1>7 DEF Sound

\* While the copies are wiped nothing is promised of what they hold.
LEMMA ZeroedSound ==
  ASSUME EnvInv, NEW c \in Copies, step \in {"zero1", "zero2"}
  PROVE  Sound([copy EXCEPT ![c] = Bad])
  BY DEF EnvInv, EnvTypeOK, ProgressInv, Sound, Kept

\* As long as nothing is written, the copies stay sound.
LEMMA SameSound == EnvInv => Sound(copy)
  BY DEF EnvInv, EnvTypeOK, Sound, Kept, Stored

\* Wherever an SPI operation stops, the copies are sound.
LEMMA PartialSound ==
  ASSUME EnvInv, Partial
  PROVE  Sound(copy')
  <1>1. redundant \in BOOLEAN /\ (step = "zero2" => redundant) /\ 1 \in Copies
        /\ (redundant => 2 \in Copies)
    BY DEF EnvInv, EnvTypeOK, ProgressInv, Copies
  <1>2. CASE copy' = copy
    BY <1>2, SameSound
  <1>3. CASE step = "erase" /\ copy' = [copy EXCEPT ![Target] = Bad]
    BY <1>3, ErasedSound
  <1>4. CASE step = "write" /\ copy' = [copy EXCEPT ![Target] = [env |-> ram, flags |-> Active]]
    BY <1>4, WrittenSound
  <1>5. CASE step = "flag" /\ copy' = [copy EXCEPT ![Other] = Retired(Other)]
    BY <1>5, FlaggedSound
  <1>6. CASE step = "zero1" /\ copy' = [copy EXCEPT ![1] = Bad]
    BY <1>1, <1>6, ZeroedSound
  <1>7. CASE step = "zero2" /\ copy' = [copy EXCEPT ![2] = Bad]
    BY <1>1, <1>7, ZeroedSound
  <1> QED
    BY <1>2, <1>3, <1>4, <1>5, <1>6, <1>7 DEF Partial

-----------------------------------------------------------------------------
(* Every step preserves the invariant and is a step of EnvAtomic.           *)

AtomicStep == [Atomic!AtomicNext]_Atomic!atomicVars

\* The number of copies is a matter of the build.
LEMMA SameBuild ==
  ASSUME UNCHANGED redundant
  PROVE  /\ Stored' = LoadedEnv(copy', {}) /\ Copies' = Copies
         /\ env_valid' = env_valid => Target' = Target /\ Other' = Other
  BY DEF Stored, LoadedEnv, CheckRedund, Copies, Target, Other

\* env_set() and the failed probe only change the environment in RAM.
LEMMA EditStep ==
  ASSUME EnvInv, UNCHANGED redundant, SetEnv \/ ProbeFails
  PROVE  EnvInv' /\ AtomicStep
  <1>1. /\ step = "idle" /\ ram' \in Envs
        /\ UNCHANGED <<redundant, copy, env_valid, step, acked, tried, suspect>>
    BY EnvAssumption DEF SetEnv, ProbeFails, history
  <1>2. UNCHANGED <<Stored, Copies, Target, Other>>
    BY <1>1, SameBuild DEF Stored
  <1>3. EnvInv'
    BY <1>1, <1>2 DEF EnvInv, EnvTypeOK, ProgressInv, SpareInv, SaveSteps
  <1>4. Atomic!Edit
    BY <1>1, <1>2 DEF Atomic!Edit
  <1> QED
    BY <1>3, <1>4 DEF AtomicStep, Atomic!AtomicNext

\* A save begins.
LEMMA TryStep ==
  ASSUME EnvInv, UNCHANGED redundant, BeginSave
  PROVE  EnvInv' /\ AtomicStep
  <1>1. /\ step' = "erase" /\ tried' = tried \cup {ram} \cup (IF redundant THEN {} ELSE {Default})
        /\ UNCHANGED <<redundant, copy, env_valid, ram, acked, suspect>>
    BY DEF BeginSave
  <1>2. UNCHANGED <<Stored, Copies, Target, Other>>
    BY <1>1, SameBuild DEF Stored
  <1>3. EnvTypeOK' /\ ProgressInv'
    BY <1>1, <1>2, EnvAssumption DEF EnvInv, EnvTypeOK, ProgressInv
  <1>4. SpareInv' /\ (suspect' \/ Stored' \in {acked'} \cup tried')
    BY <1>1, <1>2 DEF EnvInv, SpareInv
  <1>5. Atomic!Try
    BY <1>1, <1>2 DEF Atomic!Try
  <1> QED
    BY <1>3, <1>4, <1>5 DEF EnvInv, AtomicStep, Atomic!AtomicNext

\* The medium changes and nothing else: an SPI operation has ended, or failed.
LEMMA DriftStep ==
  ASSUME EnvInv, UNCHANGED <<redundant, env_valid, ram, acked, tried, suspect>>,
         Partial, EnvTypeOK', ProgressInv'
  PROVE  EnvInv' /\ AtomicStep
  <1>1. Sound(copy')
    BY PartialSound
  <1>2. Stored' = LoadedEnv(copy', {}) /\ UNCHANGED <<Copies, Target, Other>>
    BY SameBuild
  <1>3. SpareInv' /\ (suspect' \/ Stored' \in {acked'} \cup tried')
    BY <1>1, <1>2 DEF EnvInv, SpareInv, Sound, Kept
  <1>4. Stored' \in Envs
    BY <1>1, <1>2, LoadType DEF Sound, EnvInv, EnvTypeOK
  <1>5. Atomic!Drift
    BY <1>1, <1>2, <1>4 DEF Atomic!Drift, Atomic!Allowed, Sound
  <1> QED
    BY <1>3, <1>5 DEF EnvInv, AtomicStep, Atomic!AtomicNext

\* The steps of env_sf_save() and env_sf_erase() that change the medium.
LEMMA MediumStep ==
  ASSUME EnvInv, UNCHANGED redundant,
         EraseCopy \/ WriteCopy \/ WriteTail \/ (\E c \in Copies : ZeroCopy(c)) \/ StepFails
  PROVE  EnvInv' /\ AtomicStep
  <1>1. /\ redundant \in BOOLEAN /\ ProgressInv /\ EnvTypeOK
        /\ Copies' = Copies /\ (redundant => Copies = {1, 2}) /\ (~redundant => Copies = {1})
    BY SameBuild, TargetCopies DEF EnvInv, EnvTypeOK
  <1>2. UNCHANGED <<redundant, env_valid, ram, acked, tried, suspect>>
    BY DEF EraseCopy, WriteCopy, WriteTail, ZeroCopy, StepFails, history
  <1>3. Partial
    <2>1. CASE EraseCopy
      BY <2>1 DEF EraseCopy, Partial
    <2>2. CASE WriteCopy
      BY <2>2 DEF WriteCopy, Partial
    <2>3. CASE WriteTail
      BY <2>3 DEF WriteTail, Partial
    <2>4. ASSUME NEW c \in Copies, ZeroCopy(c) PROVE Partial
      BY <1>1, <2>4 DEF ZeroCopy, Partial
    <2>5. CASE StepFails
      BY <2>5 DEF StepFails
    <2> QED
      BY <2>1, <2>2, <2>3, <2>4, <2>5
  <1>4. copy' \in [Copies -> {Bad} \cup Good] /\ Target' = Target
    BY <1>2, <1>3, PartialSound, SameBuild DEF Sound
  <1>5. step' \in {"idle", "write", "tail", "flag", "done", "zero2"}
    BY DEF EraseCopy, WriteCopy, WriteTail, ZeroCopy, StepFails, AfterWrite, AfterTail
  <1>6. EnvTypeOK'
    BY <1>1, <1>2, <1>4, <1>5 DEF EnvTypeOK
  <1>7. ProgressInv'
    <2>1. CASE EraseCopy
      BY <1>1, <1>2, <2>1 DEF EraseCopy, ProgressInv, SaveSteps
    <2>2. CASE WriteCopy
      <3>1. copy'[Target] = [env |-> ram, flags |-> Active]
        BY <1>1, <2>2, TargetCopies DEF WriteCopy, EnvTypeOK
      <3>2. step = "write" /\ step' = AfterWrite
        BY <2>2 DEF WriteCopy
      <3> QED
        BY <1>1, <1>2, <1>4, <3>1, <3>2 DEF ProgressInv, SaveSteps, AfterWrite, AfterTail
    <2>3. CASE WriteTail
      BY <1>1, <1>2, <1>4, <2>3 DEF WriteTail, ProgressInv, SaveSteps, AfterTail
    <2>4. ASSUME NEW c \in Copies, ZeroCopy(c) PROVE ProgressInv'
      BY <1>1, <1>2, <2>4 DEF ZeroCopy, ProgressInv, SaveSteps
    <2>5. CASE StepFails
      BY <2>5 DEF StepFails, ProgressInv, SaveSteps
    <2> QED
      BY <2>1, <2>2, <2>3, <2>4, <2>5
  <1> QED
    BY <1>2, <1>3, <1>6, <1>7, DriftStep

\* A save reports success: what it saved is what a boot would find.
LEMMA AckStep ==
  ASSUME EnvInv, UNCHANGED redundant, WriteFlag \/ SingleDone
  PROVE  EnvInv' /\ AtomicStep
  <1>1. /\ EnvTypeOK /\ redundant \in BOOLEAN /\ ram \in Envs /\ Copies' = Copies
        /\ Stored' = LoadedEnv(copy', {})
    BY SameBuild DEF EnvInv, EnvTypeOK
  <1>2. /\ step' = "idle" /\ acked' = ram /\ tried' = {} /\ suspect' = FALSE
        /\ UNCHANGED <<redundant, ram>>
    BY DEF WriteFlag, SingleDone, SaveDone
  <1>3. CASE WriteFlag
    <2>1. /\ copy' = [copy EXCEPT ![Other] = Retired(Other)] /\ step = "flag" /\ redundant
          /\ env_valid' = IF env_valid = "valid" THEN "redund" ELSE "valid"
      BY <1>3 DEF WriteFlag, EnvInv, ProgressInv
    <2>2. /\ Sound(copy') /\ Stored' = ram /\ copy'[Target] = [env |-> ram, flags |-> Active]
      BY <1>1, <2>1, FlaggedSound
    <2>3. Other' = Target
      BY <1>2, <2>1 DEF Other, Target
    <2>4. copy'[Other'] # Bad /\ copy'[Other'].env = acked' /\ env_valid' # "invalid"
      <3>1. [env |-> ram, flags |-> Active] # Bad
        BY <1>1, GoodIsNotBad
      <3> QED
        BY <1>2, <2>1, <2>2, <2>3, <3>1
    <2>5. EnvTypeOK' /\ ProgressInv'
      BY <1>1, <1>2, <2>1, <2>2 DEF EnvTypeOK, ProgressInv, Sound, SaveSteps
    <2> QED
      BY <1>2, <2>2, <2>4, <2>5 DEF EnvInv, SpareInv, AtomicStep, Atomic!AtomicNext, Atomic!Ack
  <1>4. CASE SingleDone
    <2>1. /\ ~redundant /\ copy' = copy /\ env_valid' = env_valid
          /\ copy[Target] = [env |-> ram, flags |-> Active] /\ Target = 1
      BY <1>1, <1>4, TargetCopies DEF SingleDone, EnvInv, ProgressInv
    <2>2. Stored' = ram
      <3>1. [env |-> ram, flags |-> Active] # Bad
        BY <1>1, GoodIsNotBad
      <3>2. LoadedEnv(copy, {}) = copy[1].env
        BY <2>1, <3>1, LoadSingle
      <3> QED
        BY <1>1, <2>1, <3>2
    <2>3. EnvTypeOK' /\ ProgressInv'
      BY <1>1, <1>2, <2>1 DEF EnvTypeOK, ProgressInv, SaveSteps
    <2> QED
      BY <1>2, <2>1, <2>2, <2>3 DEF EnvInv, SpareInv, AtomicStep, Atomic!AtomicNext, Atomic!Ack
  <1> QED
    BY <1>3, <1>4

\* A wipe begins: nothing is promised from here on.
LEMMA WipeStep ==
  ASSUME EnvInv, UNCHANGED redundant, BeginWipe
  PROVE  EnvInv' /\ AtomicStep
  <1>1. /\ step' = "zero1" /\ suspect' = TRUE
        /\ UNCHANGED <<redundant, copy, env_valid, ram, acked, tried>>
    BY DEF BeginWipe
  <1>2. UNCHANGED <<Stored, Copies, Target, Other>>
    BY <1>1, SameBuild DEF Stored
  <1>3. EnvInv'
    BY <1>1, <1>2 DEF EnvInv, EnvTypeOK, ProgressInv, SpareInv, SaveSteps
  <1>4. Atomic!Wipe
    BY <1>1, <1>2 DEF Atomic!Wipe
  <1> QED
    BY <1>3, <1>4 DEF AtomicStep, Atomic!AtomicNext

\* What the check of the copies finds is what is loaded.
LEMMA CheckedCopy ==
  ASSUME redundant, NEW cp \in [{1, 2} -> {Bad} \cup Good]
  PROVE  CASE CheckRedund(cp, {}) = "invalid" ->
                cp[1] = Bad /\ cp[2] = Bad /\ LoadedEnv(cp, {}) = Default
           [] CheckRedund(cp, {}) = "valid" -> cp[1] # Bad /\ LoadedEnv(cp, {}) = cp[1].env
           [] CheckRedund(cp, {}) = "redund" -> cp[2] # Bad /\ LoadedEnv(cp, {}) = cp[2].env
  <1>1. {} # Copies
    BY DEF Copies
  <1>2. CheckRedund(cp, {}) \in {"invalid", "valid", "redund"}
    BY <1>1 DEF CheckRedund
  <1>3. CheckRedund(cp, {}) = "invalid" => cp[1] = Bad /\ cp[2] = Bad
    BY <1>1 DEF CheckRedund
  <1>4. CheckRedund(cp, {}) = "valid" => cp[1] # Bad
    BY <1>1 DEF CheckRedund
  <1>5. CheckRedund(cp, {}) = "redund" => cp[2] # Bad
    BY <1>1 DEF CheckRedund
  <1> QED
    BY <1>1, <1>2, <1>3, <1>4, <1>5 DEF LoadedEnv

\* The board restarts, in the middle of a save or not, and can read every copy.
LEMMA RebootStep ==
  ASSUME EnvInv, UNCHANGED redundant, Boot({})
  PROVE  EnvInv' /\ AtomicStep
  <1>1. /\ EnvTypeOK /\ redundant \in BOOLEAN /\ Copies' = Copies
        /\ Stored' = LoadedEnv(copy', {}) /\ Sound(copy')
    BY SameBuild, PartialSound DEF EnvInv, EnvTypeOK, Boot
  <1>2. /\ step' = "idle" /\ env_valid' = CheckRedund(copy', {}) /\ ram' = Stored'
        /\ acked' = ram' /\ tried' = {} /\ suspect' = FALSE
    BY <1>1 DEF Boot
  <1>3. copy' \in [Copies -> {Bad} \cup Good]
    BY <1>1 DEF Sound
  <1>4. Stored' \in Envs /\ env_valid' \in {"invalid", "valid", "redund"}
    BY <1>1, <1>2, <1>3, LoadType
  <1>5. EnvTypeOK' /\ ProgressInv'
    BY <1>1, <1>2, <1>3, <1>4 DEF EnvTypeOK, ProgressInv, SaveSteps
  <1>6. SpareInv'
    <2> SUFFICES ASSUME redundant
                 PROVE  IF env_valid' = "invalid" THEN copy'[Other'] = Bad /\ acked' = Default
                        ELSE copy'[Other'] # Bad /\ copy'[Other'].env = acked'
      BY DEF SpareInv
    <2>1. copy' \in [{1, 2} -> {Bad} \cup Good]
      BY <1>3 DEF Copies
    <2>2. Other' = IF env_valid' = "valid" THEN 1 ELSE 2
      BY DEF Other, Target
    <2> QED
      BY <1>1, <1>2, <1>4, <2>1, <2>2, CheckedCopy
  <1>7. Atomic!Reboot
    BY <1>1, <1>2, <1>4 DEF Atomic!Reboot, Atomic!Allowed, Sound
  <1> QED
    BY <1>2, <1>5, <1>6, <1>7 DEF EnvInv, AtomicStep, Atomic!AtomicNext

\* The same, but copies cannot be read.
LEMMA BlindStep ==
  ASSUME EnvInv, UNCHANGED redundant, NEW failed \in SUBSET Copies, failed # {}, Boot(failed)
  PROVE  EnvInv' /\ AtomicStep
  <1>1. /\ EnvTypeOK /\ redundant \in BOOLEAN /\ Copies' = Copies
        /\ Stored' = LoadedEnv(copy', {}) /\ Sound(copy')
    BY SameBuild, PartialSound DEF EnvInv, EnvTypeOK, Boot
  <1>2. /\ step' = "idle" /\ env_valid' = CheckRedund(copy', failed)
        /\ ram' = LoadedEnv(copy', failed)
        /\ suspect' = TRUE /\ UNCHANGED <<acked, tried>>
    BY DEF Boot
  <1>3. copy' \in [Copies -> {Bad} \cup Good]
    BY <1>1 DEF Sound
  <1>4. ram' \in Envs /\ env_valid' \in {"invalid", "valid", "redund"} /\ Stored' \in Envs
    BY <1>1, <1>2, <1>3, LoadType
  <1>5. EnvTypeOK' /\ ProgressInv' /\ SpareInv'
    BY <1>1, <1>2, <1>3, <1>4 DEF EnvTypeOK, ProgressInv, SpareInv, SaveSteps
  <1>6. Atomic!BlindReboot
    BY <1>1, <1>2, <1>4 DEF Atomic!BlindReboot, Atomic!Allowed, Sound
  <1> QED
    BY <1>2, <1>5, <1>6 DEF EnvInv, AtomicStep, Atomic!AtomicNext

\* The first boot.
LEMMA EnvInitial == EnvInit => EnvInv /\ Atomic!AtomicInit
  <1> SUFFICES ASSUME EnvInit PROVE EnvInv /\ Atomic!AtomicInit
    OBVIOUS
  <1>1. /\ redundant \in BOOLEAN /\ copy \in [Copies -> {Bad} \cup Good]
        /\ env_valid = CheckRedund(copy, {}) /\ ram = Stored
        /\ step = "idle" /\ acked = ram /\ tried = {} /\ suspect = FALSE
    BY DEF EnvInit, Stored
  <1>2. Stored \in Envs /\ env_valid \in {"invalid", "valid", "redund"}
    BY <1>1, LoadType DEF Stored
  <1>3. EnvTypeOK /\ ProgressInv
    BY <1>1, <1>2 DEF EnvTypeOK, ProgressInv, SaveSteps
  <1>4. SpareInv
    <2> SUFFICES ASSUME redundant
                 PROVE  IF env_valid = "invalid" THEN copy[Other] = Bad /\ acked = Default
                        ELSE copy[Other] # Bad /\ copy[Other].env = acked
      BY DEF SpareInv
    <2>1. copy \in [{1, 2} -> {Bad} \cup Good]
      BY <1>1 DEF Copies
    <2>2. Other = IF env_valid = "valid" THEN 1 ELSE 2
      BY DEF Other, Target
    <2> QED
      BY <1>1, <1>2, <2>1, <2>2, CheckedCopy DEF Stored
  <1> QED
    BY <1>1, <1>2, <1>3, <1>4 DEF EnvInv, Atomic!AtomicInit

\* Every step.
LEMMA EnvStep ==
  ASSUME EnvInv, [EnvNext]_envVars
  PROVE  EnvInv' /\ AtomicStep
  <1>1. CASE UNCHANGED envVars
    <2>1. UNCHANGED <<Stored, Copies, Target, Other>>
      BY <1>1, SameBuild DEF envVars, Stored
    <2>2. EnvInv'
      BY <1>1, <2>1 DEF envVars, EnvInv, EnvTypeOK, ProgressInv, SpareInv
    <2>3. UNCHANGED Atomic!atomicVars
      BY <1>1, <2>1 DEF envVars, Atomic!atomicVars
    <2> QED
      BY <2>2, <2>3 DEF AtomicStep
  <1>2. CASE EnvNext
    <2>1. UNCHANGED redundant
      BY <1>2 DEF EnvNext
    <2>2. ASSUME NEW failed \in SUBSET Copies, Boot(failed) PROVE EnvInv' /\ AtomicStep
      BY <2>1, <2>2, RebootStep, BlindStep
    <2> QED
      BY <1>2, <2>1, <2>2, EditStep, TryStep, MediumStep, AckStep, WipeStep DEF EnvNext
  <1> QED
    BY <1>1, <1>2

\* The invariant of the stored environment.
THEOREM EnvInvariant == EnvSpec => []EnvInv
  <1>1. EnvInv /\ [EnvNext]_envVars => EnvInv'
    BY EnvStep
  <1> QED
    BY <1>1, EnvInitial, PTL DEF EnvSpec

\* env_sf_save() and env_sf_load() implement the promise of EnvAtomic.
THEOREM StoresAtomicallyAlways == EnvSpec => StoresAtomically
  <1>1. EnvInv /\ [EnvNext]_envVars => [Atomic!AtomicNext]_Atomic!atomicVars
    BY EnvStep DEF AtomicStep
  <1> QED
    BY <1>1, EnvInitial, EnvInvariant, PTL DEF EnvSpec, StoresAtomically, Atomic!AtomicSpec

-----------------------------------------------------------------------------
(* The boot decision.                                                       *)

\* The environment the board came up with.
LEMMA EnvFacts ==
  ASSUME env \in Environments
  PROVE  /\ env.bootdelay \in Int /\ env.default \in Int /\ Len(env.entries) \in Nat
         /\ DOMAIN env.entries = 1 .. Len(env.entries) /\ Count \in Nat \ {0}
         /\ DefaultEntry \in 0 .. Count - 1
  BY BootAssumption DEF Count, DefaultEntry

\* The command of the default entry, if it is not Exit.
LEMMA DefaultCommand ==
  ASSUME env \in Environments, env.bootdelay # 0, Command(DefaultEntry) # NoCommand
  PROVE  Command(DefaultEntry) =
           env.entries[IF env.bootdelay = 0 \/ env.default + 1 \notin DOMAIN env.entries
                         THEN 1 ELSE env.default + 1]
  <1>1. /\ env.default \in Int /\ Len(env.entries) \in Nat /\ Count = Len(env.entries) + 1
        /\ DOMAIN env.entries = 1 .. Len(env.entries)
    BY EnvFacts DEF Count
  <1>2. DefaultEntry # Count - 1 /\ Command(DefaultEntry) = env.entries[DefaultEntry + 1]
    BY DEF Command
  <1>3. CASE env.default \in 0 .. Count - 1
    <2>1. DefaultEntry = env.default /\ env.default + 1 \in DOMAIN env.entries
      BY <1>1, <1>2, <1>3 DEF DefaultEntry
    <2> QED
      BY <1>2, <2>1
  <1>4. CASE env.default \notin 0 .. Count - 1
    <2>1. DefaultEntry = 0 /\ env.default + 1 \notin DOMAIN env.entries
      BY <1>1, <1>4 DEF DefaultEntry
    <2> QED
      BY <1>2, <2>1
  <1> QED
    BY <1>3, <1>4

\* What running a command, or finding none, does to the phase.
LEMMA RunPhase ==
  ASSUME NEW c, NEW next \in {"bootdelay", "autoboot", "cli"}, Run(c, next)
  PROVE  \/ phase' = next /\ back' = back /\ cmd' = cmd
         \/ phase' = "command" /\ back' = next /\ cmd' = c /\ c # NoCommand
  BY DEF Run

\* The places that are neither the menu nor a command promise nothing more.
LEMMA ElsewhereInv ==
  ASSUME env' \in Environments, delay' \in Int, stored_bootdelay' \in Int,
         pressed' \in BOOLEAN, touched' \in BOOLEAN,
         back' \in {"bootdelay", "autoboot", "cli"},
         phase' \in {"buttons", "bootdelay", "autoboot", "cli", "system"}
  PROVE  BootInv'
  BY DEF BootInv, BootTypeOK, UntouchedMenu, UnattendedChoice

\* So does a command that was run elsewhere than by the menu.
LEMMA CommandInv ==
  ASSUME env' \in Environments, delay' \in Int, stored_bootdelay' \in Int,
         pressed' \in BOOLEAN, touched' \in BOOLEAN,
         phase' = "command", back' \in {"bootdelay", "autoboot", "cli"},
         back' # "autoboot" \/ touched'
  PROVE  BootInv'
  BY DEF BootInv, BootTypeOK, UntouchedMenu, UnattendedChoice

\* A menu is shown, before autoboot or from the command line.
LEMMA ShowMenuInv ==
  ASSUME BootInv, NEW d \in Int, NEW from \in {"autoboot", "cli"},
         ShowMenu(d, from), from = "autoboot" => d = env.bootdelay,
         UNCHANGED <<env, pressed, touched>>, stored_bootdelay' \in Int
  PROVE  BootInv'
  <1>1. /\ env' \in Environments /\ pressed' \in BOOLEAN /\ touched' \in BOOLEAN
        /\ env \in Environments /\ back \in {"bootdelay", "autoboot", "cli"} /\ delay \in Int
    BY DEF BootInv, BootTypeOK
  <1>2. CASE d = 0 /\ Run(Command(0), from) /\ UNCHANGED <<delay, active>>
    <2>1. CASE phase' = from /\ back' = back
      BY <1>1, <1>2, <2>1, ElsewhereInv
    <2>2. CASE phase' = "command" /\ back' = from /\ cmd' = Command(0) /\ Command(0) # NoCommand
      <3>1. CASE from = "cli"
        BY <1>1, <1>2, <2>2, <3>1, CommandInv
      <3>2. CASE from = "autoboot"
        <4>1. cmd' = env.entries[1] /\ env.bootdelay = 0
          BY <1>2, <2>2, <3>2 DEF Command
        <4>2. UnattendedChoice' /\ UntouchedMenu'
          BY <1>1, <2>2, <4>1 DEF UnattendedChoice, UntouchedMenu
        <4>3. BootTypeOK'
          BY <1>1, <1>2, <2>2 DEF BootTypeOK
        <4> QED
          BY <1>1, <4>2, <4>3 DEF BootInv
      <3> QED
        BY <3>1, <3>2
    <2> QED
      BY <1>2, <2>1, <2>2, RunPhase
  <1>3. CASE /\ d # 0 /\ phase' = "menu" /\ back' = from
             /\ delay' = d /\ active' = DefaultEntry
    <2>1. DefaultEntry' = DefaultEntry /\ Count' = Count /\ DefaultEntry \in 0 .. Count - 1
      BY <1>1, EnvFacts DEF DefaultEntry, Count
    <2>2. BootTypeOK'
      BY <1>1, <1>3, <2>1 DEF BootTypeOK
    <2>3. UntouchedMenu' /\ UnattendedChoice'
      BY <1>3, <2>1 DEF UntouchedMenu, UnattendedChoice
    <2> QED
      BY <1>1, <2>2, <2>3 DEF BootInv
  <1>4. CASE d # 0 /\ phase' = from /\ UNCHANGED <<delay, active, cmd, back, ran>>
    BY <1>1, <1>4, ElsewhereInv
  <1> QED
    BY <1>2, <1>3, <1>4 DEF ShowMenu

\* The menu counts down, and runs its entry at the end.
LEMMA MenuTickInv ==
  ASSUME BootInv, MenuTick
  PROVE  BootInv'
  <1>1. /\ env' \in Environments /\ pressed' \in BOOLEAN /\ touched' = touched /\ env' = env
        /\ touched \in BOOLEAN /\ stored_bootdelay' \in Int /\ active' = active
        /\ env \in Environments /\ back \in {"bootdelay", "autoboot", "cli"} /\ delay \in Int
        /\ phase = "menu" /\ delay > 0 /\ delay' = delay - 1 /\ active \in 0 .. Count - 1
    BY DEF BootInv, BootTypeOK, MenuTick
  <1>2. delay' \in Int
    BY <1>1
  <1>3. CASE delay' # 0
    <2>1. UNCHANGED <<phase, cmd, back>>
      BY <1>3 DEF MenuTick
    <2>2. DefaultEntry' = DefaultEntry /\ Count' = Count
      BY <1>1 DEF DefaultEntry, Count
    <2>3. BootTypeOK'
      BY <1>1, <1>2, <2>1, <2>2 DEF BootTypeOK
    <2>4. UntouchedMenu' /\ UnattendedChoice'
      BY <1>1, <2>1, <2>2 DEF BootInv, UntouchedMenu, UnattendedChoice
    <2> QED
      BY <1>1, <2>3, <2>4 DEF BootInv
  <1>4. CASE delay' = 0
    <2>1. Run(Command(active), back)
      BY <1>4 DEF MenuTick, Choose
    <2>2. CASE phase' = back /\ back' = back
      BY <1>1, <1>2, <2>2, ElsewhereInv
    <2>3. CASE /\ phase' = "command" /\ back' = back /\ cmd' = Command(active)
               /\ Command(active) # NoCommand
      <3>1. CASE back # "autoboot" \/ touched
        BY <1>1, <1>2, <2>3, <3>1, CommandInv
      <3>2. CASE back = "autoboot" /\ ~touched
        <4>1. active = DefaultEntry /\ env.bootdelay # 0 /\ env.bootdelay > 0
          BY <1>1, <3>2 DEF BootInv, UntouchedMenu
        <4>2. cmd' = env.entries[IF env.bootdelay = 0 \/ env.default + 1 \notin DOMAIN env.entries
                                   THEN 1 ELSE env.default + 1]
          BY <1>1, <2>3, <4>1, DefaultCommand
        <4>3. env.bootdelay >= 0
          BY <1>1, <4>1, EnvFacts
        <4>4. UnattendedChoice'
          BY <1>1, <4>2, <4>3, Zenon DEF UnattendedChoice
        <4> QED
          BY <1>1, <1>2, <2>3, <4>4 DEF BootInv, BootTypeOK, UntouchedMenu
      <3> QED
        BY <3>1, <3>2
    <2> QED
      BY <1>1, <2>1, <2>2, <2>3, RunPhase
  <1> QED
    BY <1>3, <1>4

\* After a key nothing is left to be promised but that the menu stays in its list.
LEMMA MenuKeyInv ==
  ASSUME BootInv, MenuKey
  PROVE  BootInv'
  <1>1. /\ env \in Environments /\ pressed \in BOOLEAN /\ touched \in BOOLEAN
        /\ stored_bootdelay \in Int /\ delay \in Int
        /\ back \in {"bootdelay", "autoboot", "cli"} /\ Count \in Nat \ {0}
    BY EnvFacts DEF BootInv, BootTypeOK
  <1>2. CASE \E k \in Keys : PressKey(k)
    <2>1. UNCHANGED <<env, phase, delay, active, cmd, back, stored_bootdelay, pressed, touched>>
      BY <1>2 DEF PressKey
    <2> QED
      BY <2>1 DEF BootInv, BootTypeOK, UntouchedMenu, UnattendedChoice, Count, DefaultEntry
  <1>3. CASE EscTimeout
    <2>1. Choose(Count - 1) /\ UNCHANGED <<env, delay, active, stored_bootdelay, pressed, touched>>
      BY <1>3 DEF EscTimeout
    <2>2. phase' = back /\ back' = back
      BY <2>1 DEF Choose, Command, Run
    <2> QED
      BY <1>1, <2>1, <2>2, ElsewhereInv
  <1>4. CASE ReadChar
    <2>1. PICK c : Act(c)
      BY <1>4 DEF ReadChar
    <2>2. /\ env' = env /\ pressed' = pressed /\ touched' = TRUE /\ stored_bootdelay' = stored_bootdelay
          /\ phase = "menu" /\ active \in 0 .. Count - 1
      BY <1>4 DEF ReadChar, Typing, BootInv, BootTypeOK
    <2>3. delay' \in Int
      BY <1>1, <1>4 DEF ReadChar
    <2>4. ASSUME NEW i, Choose(i) PROVE BootInv'
      <3>1. CASE phase' = back /\ back' = back
        BY <1>1, <2>2, <2>3, <3>1, ElsewhereInv
      <3>2. CASE phase' = "command" /\ back' = back
        BY <1>1, <2>2, <2>3, <3>2, CommandInv
      <3> QED
        BY <1>1, <2>4, <3>1, <3>2, RunPhase DEF Choose
    <2>5. ASSUME active' \in 0 .. Count - 1, StayInMenu PROVE BootInv'
      <3>1. Count' = Count /\ UNCHANGED <<phase, back>>
        BY <2>2, <2>5 DEF Count, StayInMenu
      <3> QED
        BY <1>1, <2>2, <2>3, <2>5, <3>1 DEF BootInv, BootTypeOK, UntouchedMenu, UnattendedChoice
    <2>6. \/ active' \in 0 .. Count - 1 /\ StayInMenu
          \/ \E i : Choose(i)
      BY <1>1, <2>1, <2>2 DEF Act
    <2> QED
      BY <2>4, <2>5, <2>6
  <1> QED
    BY <1>2, <1>3, <1>4 DEF MenuKey

\* Every step.
LEMMA BootInvNext ==
  ASSUME BootInv, [BootNext]_bootVars
  PROVE  BootInv'
  <1>1. /\ env \in Environments /\ delay \in Int /\ stored_bootdelay \in Int
        /\ pressed \in BOOLEAN /\ touched \in BOOLEAN
        /\ back \in {"bootdelay", "autoboot", "cli"} /\ env.bootdelay \in Int
    BY EnvFacts DEF BootInv, BootTypeOK
  <1>2. CASE ProcessButtons
    <2>1. PICK c : Run(c, "bootdelay")
      BY <1>2 DEF ProcessButtons
    <2>2. /\ pressed' \in BOOLEAN
          /\ UNCHANGED <<env, delay, active, stored_bootdelay, touched>>
      BY <1>2 DEF ProcessButtons
    <2> QED
      BY <1>1, <2>1, <2>2, RunPhase, ElsewhereInv, CommandInv
  <1>3. CASE BootdelayProcess
    <2>1. CASE env.menu_show
      BY <1>1, <1>3, <2>1, ShowMenuInv DEF BootdelayProcess
    <2>2. CASE ~env.menu_show
      BY <1>1, <1>3, <2>2, ElsewhereInv DEF BootdelayProcess
    <2> QED
      BY <2>1, <2>2
  <1>4. CASE AutobootTick
    BY <1>1, <1>4, ElsewhereInv DEF AutobootTick
  <1>5. CASE AutobootOff \/ AutobootKey
    BY <1>1, <1>5, ElsewhereInv DEF AutobootOff, AutobootKey
  <1>6. CASE AutobootRuns \/ CliWebflash
    <2>1. PICK c : Run(c, "cli")
      BY <1>6 DEF AutobootRuns, CliWebflash
    <2>2. UNCHANGED <<env, delay, active, stored_bootdelay, pressed, touched>>
      BY <1>6 DEF AutobootRuns, CliWebflash
    <2> QED
      BY <1>1, <2>1, <2>2, RunPhase, ElsewhereInv, CommandInv
  <1>7. CASE CommandReturns \/ CommandBoots
    BY <1>1, <1>7, ElsewhereInv DEF CommandReturns, CommandBoots
  <1>8. CASE CliBootmenu
    <2>1. PICK d \in CliDelays : ShowMenu(d, "cli")
      BY <1>8 DEF CliBootmenu
    <2>2. d \in Int
      BY BootAssumption
    <2> QED
      BY <1>1, <1>8, <2>1, <2>2, ShowMenuInv DEF CliBootmenu
  <1>9. CASE Reset
    <2>1. env' = env /\ phase' = "buttons" /\ delay' = 0 /\ stored_bootdelay' = 0 /\ back' = "cli"
      BY <1>9 DEF Reset
    <2>2. pressed' \in BOOLEAN /\ touched' \in BOOLEAN
      BY <1>9, Zenon DEF Reset
    <2> QED
      BY <1>1, <2>1, <2>2, ElsewhereInv
  <1>10. CASE UNCHANGED bootVars
    BY <1>10 DEF bootVars, BootInv, BootTypeOK, UntouchedMenu, UnattendedChoice, Count, DefaultEntry
  <1> QED
    BY <1>2, <1>3, <1>4, <1>5, <1>6, <1>7, <1>8, <1>9, <1>10, MenuTickInv, MenuKeyInv
    DEF BootNext, BootStep

\* Power-on.
LEMMA BootInvInit == BootInit => BootInv
  <1> SUFFICES ASSUME BootInit PROVE BootInv
    OBVIOUS
  <1>1. /\ env \in Environments /\ phase = "buttons" /\ delay = 0 /\ stored_bootdelay = 0
        /\ back = "cli"
    BY DEF BootInit
  <1>2. pressed \in BOOLEAN /\ touched \in BOOLEAN
    BY Zenon DEF BootInit
  <1> QED
    BY <1>1, <1>2 DEF BootInv, BootTypeOK, UntouchedMenu, UnattendedChoice

\* The invariant of main_loop().
THEOREM BootInvariant == BootSpec => []BootInv
  <1>1. BootInv /\ [BootNext]_bootVars => BootInv'
    BY BootInvNext
  <1> QED
    BY <1>1, BootInvInit, PTL DEF BootSpec

\* The entry highlighted is one of the menu's, whatever the environment says.
THEOREM BootTypeCorrect == BootSpec => []BootTypeOK
  BY BootInvariant, PTL DEF BootInv

\* What a board runs that nobody touches.
THEOREM UnattendedChoiceAlways == BootSpec => []UnattendedChoice
  BY BootInvariant, PTL DEF BootInv

-----------------------------------------------------------------------------
(* Keys and the characters they send.                                       *)

\* The characters of the keys that send several.
LEMMA LongKeys ==
  /\ \A k \in {CursorUp, CursorDown, Home, PageUp} :
       /\ k # <<>> /\ Head(k) = "esc" /\ Tail(k) # <<>> /\ Head(Tail(k)) = "["
       /\ Tail(Tail(k)) # <<>>
  /\ Tail(Tail(CursorUp)) = <<"A">> /\ Tail(Tail(CursorDown)) = <<"B">>
  /\ Tail(Tail(Home)) = <<"1", "~">> /\ Tail(Tail(PageUp)) = <<"5", "~">>
  BY DEF CursorUp, CursorDown, Home, PageUp

\* The other keys send one character.
LEMMA ShortKeys ==
  ASSUME NEW k \in Keys, k \notin {CursorUp, CursorDown, Home, PageUp}
  PROVE  /\ k # <<>> /\ Tail(k) = <<>>
         /\ Head(k) \in {"esc", "enter", "^C", "^P", "^N"} \cup DOMAIN ShortcutKey \cup OtherChars
         /\ k = <<Head(k)>>
  <1>1. PICK c \in {"esc", "enter", "^C", "^P", "^N"} \cup DOMAIN ShortcutKey \cup OtherChars : k = <<c>>
    BY DEF Keys
  <1>2. Head(<<c>>) = c /\ Tail(<<c>>) = <<>> /\ <<c>> # <<>>
    OBVIOUS
  <1> QED
    BY <1>1, <1>2

\* cli_ch_process() with the sequence e so far and the character c.
Reads(e, c, next, out) == CliChProcess(e, c).esc = next /\ CliChProcess(e, c).out = out

\* What it does about the characters the menu may see.
LEMMA CharBetweenKeys ==
  ASSUME NEW e \in {<<>>, <<"esc">>}, NEW c,
         c \in {"esc", "enter", "^C", "^P", "^N"} \cup DOMAIN ShortcutKey \cup OtherChars
  PROVE  /\ c = "esc" => Reads(e, c, <<"esc">>, "none")
         /\ c = "enter" => Reads(e, c, e, "enter")
         /\ c \notin {"esc", "enter"} => Reads(e, c, <<>>, c)
  <1>1. c # "["
    BY BootAssumption
  <1>2. Len(e) = 0 \/ Len(e) = 1
    OBVIOUS
  <1>3. CASE c \in {"esc", "enter"}
    BY <1>2, <1>3 DEF CliChProcess, Reads
  <1>4. CASE c \notin {"esc", "enter"}
    <2>1. CASE Len(e) = 0
      BY <1>1, <1>4, <2>1 DEF CliChProcess, Reads
    <2>2. CASE Len(e) = 1
      BY <1>1, <1>4, <2>2 DEF CliChProcess, Reads
    <2> QED
      BY <1>2, <2>1, <2>2
  <1> QED
    BY <1>3, <1>4

LEMMA CharWithinKey ==
  /\ Reads(<<"esc">>, "[", <<"esc", "[">>, "none")
  /\ Reads(<<"esc", "[">>, "A", <<>>, "^P")
  /\ Reads(<<"esc", "[">>, "B", <<>>, "^N")
  /\ Reads(<<"esc", "[">>, "1", <<"esc", "[", "1">>, "none")
  /\ Reads(<<"esc", "[">>, "5", <<>>, "esc")
  /\ Reads(<<"esc", "[", "1">>, "~", <<>>, "none")
  BY DEF CliChProcess, Reads

\* What the property says of a step that reads the last character of a key.
CursorMoved ==
  typed' = <<>> /\ last.key \in {CursorUp, CursorDown} =>
    /\ phase' = "menu"
    /\ active' = IF last.key = CursorUp
                   THEN (IF last.from > 0 THEN last.from - 1 ELSE 0)
                   ELSE (IF last.from < Count - 1 THEN last.from + 1 ELSE Count - 1)

\* A character that completes nothing leaves everything but the sequence alone.
LEMMA ActNone ==
  ASSUME Act("none")
  PROVE  UNCHANGED <<active, phase>>
  <1>1. "none" \notin DOMAIN ShortcutKey
    BY BootAssumption
  <1> QED
    BY <1>1 DEF Act, StayInMenu

\* A character is read: the key goes on, or has done what it stands for.
LEMMA ReadCharInv ==
  ASSUME BootInv, KeyInv, ReadChar
  PROVE  KeyInv' /\ CursorMoved
  <1> DEFINE r == CliChProcess(esc, Head(typed))
  <1> HIDE DEF r
  <1>1. /\ phase = "menu" /\ typed # <<>> /\ delay \in Int /\ delay # 0
        /\ active \in 0 .. Count - 1 /\ Count \in Nat \ {0} /\ KeyProgress
        /\ (esc # <<>> => delay < 0)
    BY EnvFacts DEF ReadChar, Typing, KeyInv, BootInv, BootTypeOK
  <1>2. Act(r.out) /\ delay' < 0
    BY <1>1 DEF ReadChar, r
  <1>3. /\ phase' # "menu" => LeaveMenu
        /\ phase' = "menu" => /\ esc' = r.esc /\ typed' = Tail(typed)
                              /\ last' = IF typed' = <<>> THEN NoKey ELSE last
    BY DEF ReadChar, r
  <1>4. ASSUME phase' = "menu" => KeyProgress' PROVE KeyInv'
    BY <1>2, <1>3, <1>4 DEF KeyInv, LeaveMenu
  <1>5. CASE typed \in Keys /\ last.key = typed /\ esc \in {<<>>, <<"esc">>} /\ last.from = active
    <2>1. CASE typed \in {CursorUp, CursorDown, Home, PageUp}
      <3>1. r.esc = <<"esc">> /\ r.out = "none"
        <4>1. Head(typed) = "esc"
          BY <2>1, LongKeys
        <4> QED
          BY <1>5, <4>1, CharBetweenKeys DEF r, Reads
      <3>2. UNCHANGED <<active, phase>>
        BY <1>2, <3>1, ActNone
      <3>3. esc' = <<"esc">> /\ typed' = Tail(last.key) /\ typed' # <<>> /\ last' = last
        BY <1>1, <1>3, <1>5, <2>1, <3>1, <3>2, LongKeys
      <3>4. KeyProgress'
        BY <1>5, <2>1, <3>2, <3>3 DEF KeyProgress
      <3> QED
        BY <1>4, <3>3, <3>4 DEF CursorMoved
    <2>2. CASE typed \notin {CursorUp, CursorDown, Home, PageUp}
      <3>1. r.esc \in {<<>>, <<"esc">>} /\ Tail(typed) = <<>>
        BY <1>5, <2>2, ShortKeys, CharBetweenKeys DEF r, Reads
      <3>2. phase' = "menu" => KeyProgress'
        BY <1>3, <3>1 DEF KeyProgress
      <3> QED
        BY <1>4, <1>5, <2>2, <3>2 DEF CursorMoved
    <2> QED
      BY <2>1, <2>2
  <1>6. CASE /\ last.key \in {CursorUp, CursorDown, Home, PageUp} /\ last.from = active
             /\ typed = Tail(last.key) /\ esc = <<"esc">>
    <2>1. r.esc = <<"esc", "[">> /\ r.out = "none"
      BY <1>6, LongKeys, CharWithinKey DEF r, Reads
    <2>2. UNCHANGED <<active, phase>>
      BY <1>2, <2>1, ActNone
    <2>3. esc' = <<"esc", "[">> /\ typed' = Tail(Tail(last.key)) /\ typed' # <<>> /\ last' = last
      BY <1>1, <1>3, <1>6, <2>1, <2>2, LongKeys
    <2>4. KeyProgress'
      BY <1>6, <2>2, <2>3 DEF KeyProgress
    <2> QED
      BY <1>4, <2>3, <2>4 DEF CursorMoved
  <1>7. CASE /\ last.key \in {CursorUp, CursorDown, Home, PageUp} /\ last.from = active
             /\ typed = Tail(Tail(last.key)) /\ esc = <<"esc", "[">>
    <2>1. delay < 0
      BY <1>1, <1>7
    <2>2. CASE last.key = CursorUp
      <3>1. r.esc = <<>> /\ r.out = "^P" /\ Tail(typed) = <<>>
        <4>1. typed = <<"A">>
          BY <1>7, <2>2, LongKeys
        <4>2. Head(typed) = "A" /\ Tail(typed) = <<>>
          BY <4>1
        <4> QED
          BY <1>7, <4>2, CharWithinKey DEF r, Reads
      <3>2. phase' = "menu" /\ active' = IF active > 0 THEN active - 1 ELSE active
        BY <1>1, <1>2, <2>1, <3>1, BootAssumption DEF Act, StayInMenu
      <3>3. KeyProgress'
        BY <1>3, <3>1, <3>2 DEF KeyProgress
      <3> QED
        BY <1>1, <1>4, <1>7, <2>2, <3>2, <3>3 DEF CursorMoved
    <2>3. CASE last.key = CursorDown
      <3>1. r.esc = <<>> /\ r.out = "^N" /\ Tail(typed) = <<>> /\ last.key # CursorUp
        BY <1>7, <2>3, LongKeys, CharWithinKey DEF CursorUp, CursorDown, r, Reads
      <3>2. phase' = "menu" /\ active' = IF active < Count - 1 THEN active + 1 ELSE active
        BY <1>1, <1>2, <2>1, <3>1, BootAssumption DEF Act, StayInMenu
      <3>3. KeyProgress'
        BY <1>3, <3>1, <3>2 DEF KeyProgress
      <3>4. active >= Count - 1 => active = Count - 1
        BY <1>1
      <3> QED
        BY <1>1, <1>4, <1>7, <2>3, <3>1, <3>2, <3>3, <3>4 DEF CursorMoved
    <2>4. CASE last.key \in {Home, PageUp}
      <3>1. last.key \notin {CursorUp, CursorDown}
        BY <2>4 DEF Home, PageUp, CursorUp, CursorDown
      <3>2. CASE last.key = Home
        <4>1. /\ r.esc = <<"esc", "[", "1">> /\ r.out = "none"
              /\ Tail(typed) = <<"~">> /\ <<"~">> # <<>>
          <5>1. typed = <<"1", "~">>
            BY <1>7, <3>2, LongKeys
          <5>2. Head(typed) = "1" /\ Tail(typed) = <<"~">>
            BY <5>1
          <5> QED
            BY <1>7, <5>2, CharWithinKey DEF r, Reads
        <4>2. UNCHANGED <<active, phase>>
          BY <1>2, <4>1, ActNone
        <4>3. esc' = <<"esc", "[", "1">> /\ typed' = <<"~">> /\ last' = last
          BY <1>1, <1>3, <4>1, <4>2
        <4>4. KeyProgress'
          BY <1>7, <3>2, <4>2, <4>3 DEF KeyProgress
        <4> QED
          BY <1>4, <3>1, <4>4 DEF CursorMoved
      <3>3. CASE last.key = PageUp
        <4>1. r.esc = <<>> /\ r.out = "esc"
          <5>1. typed = <<"5", "~">>
            BY <1>7, <3>3, LongKeys
          <5>2. Head(typed) = "5"
            BY <5>1
          <5> QED
            BY <1>7, <5>2, CharWithinKey DEF r, Reads
        <4>2. Choose(Count - 1)
          BY <1>1, <1>2, <2>1, <4>1, BootAssumption DEF Act
        <4>3. phase' # "menu"
          BY <4>2, RunPhase DEF Choose, BootInv, BootTypeOK
        <4> QED
          BY <1>4, <3>1, <4>3 DEF CursorMoved
      <3> QED
        BY <2>4, <3>2, <3>3
    <2> QED
      BY <1>7, <2>2, <2>3, <2>4
  <1>8. CASE last.key = Home /\ typed = <<"~">> /\ esc = <<"esc", "[", "1">>
    <2>1. r.esc = <<>> /\ r.out = "none" /\ Tail(typed) = <<>>
      BY <1>8, CharWithinKey DEF r, Reads
    <2>2. UNCHANGED <<active, phase>>
      BY <1>2, <2>1, ActNone
    <2>3. KeyProgress' /\ last.key \notin {CursorUp, CursorDown}
      BY <1>1, <1>3, <1>8, <2>1, <2>2 DEF KeyProgress, Home, CursorUp, CursorDown
    <2> QED
      BY <1>4, <2>3 DEF CursorMoved
  <1> QED
    BY <1>1, <1>5, <1>6, <1>7, <1>8 DEF KeyProgress

\* The keys of the menu in every step.
LEMMA KeyInvNext ==
  ASSUME BootInv, KeyInv, [BootNext]_bootVars
  PROVE  KeyInv'
  <1>1. back \in {"bootdelay", "autoboot", "cli"} /\ delay \in Int /\ env.bootdelay \in Int
    BY EnvFacts DEF BootInv, BootTypeOK
  <1>2. ASSUME phase # "menu", UNCHANGED <<typed, esc>>, phase' # "menu" PROVE KeyInv'
    BY <1>2 DEF KeyInv
  <1>3. ASSUME phase # "menu", UNCHANGED <<typed, esc>>, NEW d \in Int,
               NEW from \in {"autoboot", "cli"}, ShowMenu(d, from)
        PROVE  KeyInv'
    <2>1. CASE phase' # "menu"
      BY <1>2, <1>3, <2>1
    <2>2. CASE phase' = "menu"
      <3>1. delay' # 0
        BY <1>3, <2>2 DEF ShowMenu, Run
      <3> QED
        BY <1>3, <2>2, <3>1 DEF KeyInv, KeyProgress
    <2> QED
      BY <2>1, <2>2
  <1>4. ASSUME LeaveMenu, NEW i, Choose(i) PROVE KeyInv'
    <2>1. phase' # "menu"
      BY <1>1, <1>4 DEF Choose, Run
    <2> QED
      BY <1>4, <2>1 DEF KeyInv, LeaveMenu
  <1>5. CASE ProcessButtons \/ AutobootRuns \/ CliWebflash
    BY <1>2, <1>5 DEF ProcessButtons, AutobootRuns, CliWebflash, Run, keyVars
  <1>6. CASE AutobootTick \/ AutobootOff \/ AutobootKey \/ CommandReturns \/ CommandBoots
    BY <1>1, <1>2, <1>6 DEF AutobootTick, AutobootOff, AutobootKey, CommandReturns,
       CommandBoots, keyVars
  <1>7. CASE BootdelayProcess
    <2>1. CASE env.menu_show
      BY <1>1, <1>3, <1>7, <2>1 DEF BootdelayProcess, keyVars
    <2>2. CASE ~env.menu_show
      BY <1>2, <1>7, <2>2 DEF BootdelayProcess, keyVars
    <2> QED
      BY <2>1, <2>2
  <1>8. CASE CliBootmenu
    BY <1>3, <1>8, BootAssumption DEF CliBootmenu, keyVars
  <1>9. CASE Reset
    BY <1>9 DEF Reset, LeaveMenu, KeyInv
  <1>10. CASE MenuTick
    <2>1. CASE delay' = 0
      BY <1>4, <1>10, <2>1 DEF MenuTick
    <2>2. CASE delay' # 0
      <3>1. /\ phase = "menu" /\ delay > 0 /\ delay' = delay - 1 /\ active' = active
            /\ UNCHANGED <<phase, typed, esc, last>>
        BY <1>10, <2>2 DEF MenuTick, keyVars
      <3>2. esc = <<>> /\ KeyProgress
        BY <1>1, <3>1 DEF KeyInv
      <3>3. KeyProgress'
        BY <3>1, <3>2 DEF KeyProgress
      <3> QED
        BY <2>2, <3>1, <3>2, <3>3 DEF KeyInv
    <2> QED
      BY <2>1, <2>2
  <1>11. ASSUME NEW k \in Keys, PressKey(k) PROVE KeyInv'
    <2>1. /\ phase = "menu" /\ typed = <<>> /\ typed' = k /\ UNCHANGED <<phase, delay, active, esc>>
          /\ last'.key = k /\ last'.from = active
      BY <1>11 DEF PressKey
    <2>2. esc \in {<<>>, <<"esc">>}
      BY <2>1, LongKeys, ShortKeys DEF KeyInv, KeyProgress
    <2>3. KeyProgress'
      BY <2>1, <2>2 DEF KeyProgress
    <2> QED
      BY <2>1, <2>3 DEF KeyInv
  <1>12. CASE EscTimeout
    BY <1>4, <1>12 DEF EscTimeout
  <1>13. CASE UNCHANGED bootVars
    BY <1>13 DEF bootVars, keyVars, KeyInv, KeyProgress
  <1> QED
    BY <1>5, <1>6, <1>7, <1>8, <1>9, <1>10, <1>11, <1>12, <1>13, ReadCharInv
    DEF BootNext, BootStep, MenuKey

\* The menu keeps track of the key it is reading.
THEOREM KeyInvariant == BootSpec => []KeyInv
  <1>1. BootInit => KeyInv
    BY DEF BootInit, KeyInv
  <1>2. BootInv /\ KeyInv /\ [BootNext]_bootVars => KeyInv'
    BY KeyInvNext
  <1> QED
    BY <1>1, <1>2, BootInvariant, PTL DEF BootSpec

\* A cursor key moves the highlight by one, however its characters are read.
THEOREM CursorKeyMovesAlways == BootSpec => CursorKeyMoves
  <1>1. BootInv /\ KeyInv /\ [BootNext]_bootVars =>
          [ReadChar /\ typed' = <<>> /\ last.key \in {CursorUp, CursorDown} =>
             /\ phase' = "menu"
             /\ active' = IF last.key = CursorUp
                            THEN (IF last.from > 0 THEN last.from - 1 ELSE 0)
                            ELSE (IF last.from < Count - 1 THEN last.from + 1
                                                           ELSE Count - 1)]_bootVars
    BY ReadCharInv DEF CursorMoved
  <1> QED
    BY <1>1, BootInvariant, KeyInvariant, PTL DEF BootSpec, CursorKeyMoves
=============================================================================
