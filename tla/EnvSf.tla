-------------------------------- MODULE EnvSf --------------------------------
(***************************************************************************)
(* The U-Boot environment in SPI flash: env/sf.c and the parts of          *)
(* env/common.c and env/env.c it works with.  A save erases the sector of  *)
(* a copy, writes the environment, writes the rest of the sector back and, *)
(* where there are two copies, marks the other one obsolete.  Every SPI    *)
(* operation may fail half way, power may go at any point, and a copy may  *)
(* be unreadable at boot.                                                  *)
(*                                                                         *)
(* There are two versions of env/sf.c, for one copy and for two.  The      *)
(* HLK-7621A has one copy, and a sector larger than the environment.       *)
(***************************************************************************)
EXTENDS Integers

CONSTANTS
  Envs,        \* environments
  Default,     \* default_environment
  HasTail      \* the sector is larger than CONFIG_ENV_SIZE

ASSUME EnvAssumption ==
  Default \in Envs /\ HasTail \in BOOLEAN

VARIABLES
  redundant,   \* CONFIG_ENV_OFFSET_REDUND is defined; it never changes
  copy,        \* what each copy in flash holds
  env_valid,   \* gd->env_valid
  ram,         \* env_htab
  step,        \* where env_sf_save() or env_sf_erase() is
  acked,       \* history: the environment last saved with success, or loaded
  tried,       \* history: what saves begun since may have left
  suspect      \* history: a copy was unreadable, or wiped, since then

envVars == <<redundant, copy, env_valid, ram, step, acked, tried, suspect>>

Copies == IF redundant THEN {1, 2} ELSE {1}

\* ENV_REDUND_ACTIVE, ENV_REDUND_OBSOLETE
Active   == 1
Obsolete == 0

\* A copy whose checksum is wrong: erased, half written, or zeroed.
Bad == [env |-> Default, flags |-> 255]

Good == [env : Envs, flags : {Active, Obsolete}]

-----------------------------------------------------------------------------
(* Loading.                                                                 *)

\* env_check_redund(): which copy is the valid one. With one copy, and if
\* none can be read, gd->env_valid stays what env_init() has set.
CheckRedund(cp, failed) ==
  LET ok(c) == c \notin failed /\ cp[c] # Bad
  IN  IF failed = Copies THEN "valid"
      ELSE IF ~redundant THEN "valid"
      ELSE CASE ~ok(1) /\ ~ok(2) -> "invalid"
             [] ok(1) /\ ~ok(2)  -> "valid"
             [] ~ok(1) /\ ok(2)  -> "redund"
             [] ok(1) /\ ok(2)   ->
                  IF cp[2].flags > cp[1].flags THEN "redund" ELSE "valid"

\* env_sf_load(): the environment imported, the default one if there is none.
LoadedEnv(cp, failed) ==
  LET valid == CheckRedund(cp, failed)
      c     == IF valid = "redund" THEN 2 ELSE 1
  IN  IF failed = Copies \/ valid = "invalid" \/ cp[c] = Bad THEN Default
      ELSE cp[c].env

-----------------------------------------------------------------------------
(* env_sf_save(). The steps are named for what is done next.                *)

\* Mutant of Target: a save always goes to the first copy.
TargetFirst == 1

\* env_new_offset and env_offset
Target == IF redundant /\ env_valid = "valid" THEN 2 ELSE 1
Other  == 3 - Target

history == <<acked, tried, suspect>>

\* Up to the erase: the environment is exported and the rest of the sector
\* read. If that fails nothing has happened.
BeginSave ==
  /\ step = "idle"
  /\ step' = "erase"
  /\ tried' = tried \cup {ram} \cup (IF redundant THEN {} ELSE {Default})
  /\ UNCHANGED <<copy, env_valid, ram, acked, suspect>>

\* setup_flash_device() fails, which also puts the default environment in RAM.
ProbeFails ==
  /\ step = "idle"
  /\ ram' = Default
  /\ UNCHANGED <<copy, env_valid, step, history>>

EraseCopy ==
  /\ step = "erase"
  /\ copy' = [copy EXCEPT ![Target] = Bad]
  /\ step' = "write"
  /\ UNCHANGED <<env_valid, ram, history>>

\* The save returns 0.
SaveDone ==
  /\ step' = "idle"
  /\ acked' = ram /\ tried' = {} /\ suspect' = FALSE

\* What follows the write of the environment, and the write of the tail.
AfterTail  == IF redundant THEN "flag" ELSE "done"
AfterWrite == IF HasTail THEN "tail" ELSE AfterTail

WriteCopy ==
  /\ step = "write"
  /\ copy' = [copy EXCEPT ![Target] = [env |-> ram, flags |-> Active]]
  /\ step' = AfterWrite
  /\ UNCHANGED <<env_valid, ram, history>>

WriteTail ==
  /\ step = "tail"
  /\ step' = AfterTail
  /\ UNCHANGED <<copy, env_valid, ram, history>>

\* The flag of a copy with a wrong checksum has no meaning.
Retired(c) == IF copy[c] = Bad THEN Bad ELSE [copy[c] EXCEPT !.flags = Obsolete]

WriteFlag ==
  /\ step = "flag"
  /\ copy' = [copy EXCEPT ![Other] = Retired(Other)]
  /\ env_valid' = IF env_valid = "valid" THEN "redund" ELSE "valid"
  /\ SaveDone
  /\ UNCHANGED ram

\* The end of the version with one copy.
SingleDone ==
  /\ step = "done"
  /\ SaveDone
  /\ UNCHANGED <<copy, env_valid, ram>>

-----------------------------------------------------------------------------
(* env_sf_erase(): zeros are written over the copies, without an erase.     *)

BeginWipe ==
  /\ step = "idle"
  /\ step' = "zero1"
  /\ suspect' = TRUE
  /\ UNCHANGED <<copy, env_valid, ram, acked, tried>>

ZeroCopy(c) ==
  /\ step = (IF c = 1 THEN "zero1" ELSE "zero2")
  /\ copy' = [copy EXCEPT ![c] = Bad]
  /\ step' = IF c = 1 /\ redundant THEN "zero2" ELSE "idle"
  /\ UNCHANGED <<env_valid, ram, history>>

-----------------------------------------------------------------------------
(* Failures and restarts.                                                   *)

\* What the SPI operation at hand leaves when it does not finish.
Partial ==
  CASE step = "erase" -> copy' \in {copy, [copy EXCEPT ![Target] = Bad]}
    [] step = "write" -> copy' \in {copy, [copy EXCEPT ![Target] = [env |-> ram, flags |-> Active]]}
    [] step = "flag"  -> copy' \in {copy, [copy EXCEPT ![Other] = Retired(Other)]}
    [] step = "zero1" -> copy' \in {copy, [copy EXCEPT ![1] = Bad]}
    [] step = "zero2" -> copy' \in {copy, [copy EXCEPT ![2] = Bad]}
    [] OTHER          -> copy' = copy

\* The operation returns an error, and so does the function.
StepFails ==
  /\ step \notin {"idle", "done"}
  /\ Partial
  /\ step' = "idle"
  /\ UNCHANGED <<env_valid, ram, history>>

\* The board restarts: env_init() and env_load(), with the copies in failed
\* unreadable.
Boot(failed) ==
  /\ Partial
  /\ step' = "idle"
  /\ env_valid' = CheckRedund(copy', failed)
  /\ ram' = LoadedEnv(copy', failed)
  /\ IF failed = {}
       THEN acked' = ram' /\ tried' = {} /\ suspect' = FALSE
       ELSE suspect' = TRUE /\ UNCHANGED <<acked, tried>>

\* env_set(), env_set_default()
SetEnv ==
  /\ step = "idle"
  /\ ram' \in Envs
  /\ UNCHANGED <<copy, env_valid, step, history>>

-----------------------------------------------------------------------------
EnvInit ==
  /\ redundant \in BOOLEAN
  /\ copy \in [Copies -> {Bad} \cup Good]
  /\ env_valid = CheckRedund(copy, {})
  /\ ram = LoadedEnv(copy, {})
  /\ step = "idle"
  /\ acked = ram /\ tried = {} /\ suspect = FALSE

EnvNext ==
  /\ \/ SetEnv
     \/ BeginSave \/ ProbeFails
     \/ EraseCopy \/ WriteCopy \/ WriteTail \/ WriteFlag \/ SingleDone
     \/ BeginWipe \/ \E c \in Copies : ZeroCopy(c)
     \/ StepFails
     \/ \E failed \in SUBSET Copies : Boot(failed)
  /\ UNCHANGED redundant

EnvSpec == EnvInit /\ [][EnvNext]_envVars

-----------------------------------------------------------------------------
\* A copy is bad or carries one of the two flags env_check_redund() compares,
\* never the serial number of other media.
EnvTypeOK ==
  /\ redundant \in BOOLEAN
  /\ copy \in [Copies -> {Bad} \cup Good]
  /\ env_valid \in {"invalid", "valid", "redund"}
  /\ ram \in Envs /\ acked \in Envs /\ tried \subseteq Envs
  /\ step \in {"idle", "erase", "write", "tail", "flag", "done", "zero1", "zero2"}
  /\ suspect \in BOOLEAN

\* What a boot that can read every copy would load.
Stored == LoadedEnv(copy, {})

\* env_sf_save() and env_sf_load() implement the promise of EnvAtomic. With two
\* copies, whatever fails and wherever power goes, a boot finds the last saved
\* environment or one being saved; with one copy it may also find the default,
\* but only if a save did not finish.
Atomic == INSTANCE EnvAtomic WITH
            stored <- Stored

StoresAtomically == Atomic!AtomicSpec

-----------------------------------------------------------------------------
(* The inductive invariant behind it.                                       *)

SaveSteps == {"erase", "write", "tail", "flag", "done"}

\* Where env_sf_save() and env_sf_erase() are and what they have done so far.
ProgressInv ==
  /\ step \in SaveSteps => ram \in tried /\ (redundant \/ Default \in tried)
  /\ step \in {"tail", "flag", "done"} => copy[Target] = [env |-> ram, flags |-> Active]
  /\ step = "done" => ~redundant
  /\ step \in {"flag", "zero2"} => redundant
  /\ step \in {"zero1", "zero2"} => suspect

\* The copy a save does not write to is the one that was saved or loaded last,
\* whatever the saves since then have done to the other one.
SpareInv ==
  redundant /\ ~suspect =>
    IF env_valid = "invalid" THEN copy[Other] = Bad /\ acked = Default
    ELSE copy[Other] # Bad /\ copy[Other].env = acked

EnvInv ==
  /\ EnvTypeOK /\ ProgressInv /\ SpareInv
  /\ suspect \/ Stored \in {acked} \cup tried
=============================================================================
