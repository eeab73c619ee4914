----------------------------- MODULE MCFlashJob -----------------------------
(* A small instance of FlashJob for TLC. The number of jobs a behaviour may  *)
(* start is bounded by MaxJobs.                                              *)
EXTENDS FlashJob

CONSTANTS MaxJobs, OldData, NewData

VARIABLE budget     \* jobs that may still be started

\* An intact flash, and what a failed or interrupted job may have left.
MCFlashImages ==
  {[a \in Addr |-> OldData],
   [a \in Addr |-> CASE a % 3 = 0 -> OldData [] a % 3 = 1 -> Erased [] OTHER -> Junk]}

\* A uniform image, and an image with an all-ones unit.
MCRamImages ==
  {[i \in 0 .. FirmwareSize - 1 |-> NewData],
   [i \in 0 .. FirmwareSize - 1 |-> IF i = 1 THEN Erased ELSE NewData]}

\* A saved environment, and what a failed save may leave.
MCEnvImages == {[a \in Area("environment") |-> NewData],
                [a \in Area("environment") |->
                   IF a = EnvOffset THEN NewData ELSE Erased]}

mcVars == <<jobVars, budget>>

Start == StartAnyFlashJob \/ StartAnyEraseSettings

MCInit == JobInit /\ budget = MaxJobs

MCNext ==
  \/ budget > 0 /\ budget' = budget - 1 /\ Start
  \/ /\ UNCHANGED budget
     /\ JobStep \/ DropJob \/ Load \/ EnvWrite \/ ScheduleReboot \/ Restart

\* The main loop of do_webflash() calls webflash_job_step() on every turn while
\* a job is active. A step that fails ends the job, so only those that succeed
\* need fairness; one that changes nothing gets none.
MCSpec == MCInit /\ [][MCNext]_mcVars /\ WF_mcVars(StepSucceeds /\ UNCHANGED budget)

\* A job that was started ends, in success or in an error: no chunk is empty
\* and no phase waits for something that does not come.
JobEnds == JobActive ~> ~JobActive
=============================================================================
