------------------------------ MODULE EnvAtomic ------------------------------
(***************************************************************************)
(* What storing the U-Boot environment promises, whatever the medium does  *)
(* in between: a boot finds the environment of the last save that reported *)
(* success, or one that was being saved since; and once a save has         *)
(* reported success it finds that one.  A save that did not finish may     *)
(* leave the default environment instead, but only if there is no second   *)
(* copy.                                                                   *)
(***************************************************************************)
CONSTANTS
  Envs,     \* environments
  Default   \* the built-in one among them

VARIABLES
  redundant, \* there is a second copy
  ram,       \* the environment in RAM
  stored,    \* the environment a boot would find
  acked,     \* the one last saved with success, or found by a boot
  tried,     \* what saves that have not succeeded since may have left
  suspect    \* the medium could not be read at boot, or was wiped: there is
             \* no promise until the next save succeeds or a boot can read it

atomicVars == <<redundant, ram, stored, acked, tried, suspect>>

Allowed == IF suspect THEN Envs ELSE {acked} \cup tried

\* The environment in RAM is edited.
Edit ==
  /\ ram' \in Envs
  /\ UNCHANGED <<redundant, stored, acked, tried, suspect>>

\* A save begins.
Try ==
  /\ tried' = tried \cup {ram} \cup (IF redundant THEN {} ELSE {Default})
  /\ UNCHANGED <<redundant, ram, stored, acked, suspect>>

\* The medium changes under a save, or is left as it is by one that fails.
Drift ==
  /\ stored' \in Allowed
  /\ UNCHANGED <<redundant, ram, acked, tried, suspect>>

\* A save reports success.
Ack ==
  /\ stored' = ram /\ acked' = ram
  /\ tried' = {} /\ suspect' = FALSE
  /\ UNCHANGED <<redundant, ram>>

\* The board restarts, in the middle of a save or not, or reads again.
Reboot ==
  /\ stored' \in Allowed
  /\ ram' = stored' /\ acked' = stored'
  /\ tried' = {} /\ suspect' = FALSE
  /\ UNCHANGED redundant

\* The same, but the medium cannot be read.
BlindReboot ==
  /\ stored' \in Allowed
  /\ ram' \in Envs
  /\ suspect' = TRUE
  /\ UNCHANGED <<redundant, acked, tried>>

\* The environment is wiped from the medium.
Wipe ==
  /\ suspect' = TRUE
  /\ UNCHANGED <<redundant, ram, stored, acked, tried>>

AtomicInit ==
  /\ redundant \in BOOLEAN
  /\ stored \in Envs
  /\ ram = stored /\ acked = stored
  /\ tried = {} /\ suspect = FALSE

AtomicNext == Edit \/ Try \/ Drift \/ Ack \/ Reboot \/ BlindReboot \/ Wipe

AtomicSpec == AtomicInit /\ [][AtomicNext]_atomicVars
=============================================================================
