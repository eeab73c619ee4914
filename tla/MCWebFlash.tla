----------------------------- MODULE MCWebFlash -----------------------------
(* Small instances of WebFlash for TLC. MaxJobs bounds the jobs and saves of *)
(* the environment a behaviour may start.                                    *)
EXTENDS WebFlash

CONSTANTS MaxJobs, OldData, NewData

VARIABLE budget

MCFlashImages == {[a \in Addr |-> OldData]}
MCRamImages   == [0 .. FirmwareSize - 1 -> UploadData]
MCEnvImages   == [Area("environment") -> {NewData}]

\* Validation looks at the first unit, as the magic numbers of the image
\* formats do; a firmware image is always accepted, and classified by its end.
MCAccepts(p, c) == p = "firmware" \/ c[0] = NewData
MCKindOf(c) ==
  IF c[0] # NewData THEN "foreign"
  ELSE IF \A i \in DOMAIN c : c[i] = NewData THEN "openwrt" ELSE "openwrt-other"

mcVars == <<webVars, budget>>

MCInit == Init /\ budget = MaxJobs

\* No client comes any more once the last job has come to nothing.
SessionOver == budget = 0 /\ job = NoJob

MCNext ==
  \/ budget > 0 /\ (StartJob \/ SaveEnv)
       /\ budget' = IF UNCHANGED <<job, flash>> THEN budget ELSE budget - 1
  \/ (Upload \/ Other) /\ UNCHANGED budget
       /\ (client' => client \/ ~SessionOver)

Same(A) == A /\ UNCHANGED budget

MCSpec == MCInit /\ [][MCNext]_mcVars /\ WF_mcVars(Same(StepSucceeds /\ RunJob))
                 /\ WF_mcVars(Same(ResetCpu)) /\ WF_mcVars(Same(BootNow))
=============================================================================
