----------------------------- MODULE MCSettings -----------------------------
(* A system with settings, and images whose root file system ends in the     *)
(* middle of a sector, on a sector boundary or before the end of the image.  *)
EXTENDS Settings

CONSTANT MaxJobs

VARIABLE budget     \* jobs that may still be started

\* Superblocks are named after their bytes_used field; "v3" is of another version.
MCSuperblocks == {"s1", "s2", "s3", "s5", "s9", "v3"}
MCData        == MCSuperblocks \cup {"code", "setting"}
MCVersion     == [s \in MCSuperblocks |-> IF s = "v3" THEN "3.1" ELSE "4.0"]
MCBytesUsed   ==
  [s \in MCSuperblocks |->
     CASE s = "s1" -> 1 [] s = "s2" -> 2 [] s = "s3" -> 3 [] s = "s5" -> 5 [] s = "s9" -> 9 [] s = "v3" -> 3]

MCImages == {<<"code", "s2", "code">>, <<"s3", "code", "code", "code", "code">>,
             <<"code", "s5", "code", "code", "code", "code">>}

\* The installed system: an image, and settings from its overlay to the end.
Installed(img, start) ==
  [x \in Addr |->
     IF x < FirmwareOffset THEN "code"
     ELSE IF x < FirmwareOffset + Len(img) THEN img[x - FirmwareOffset + 1]
     ELSE IF x < start THEN Erased ELSE Setting]

\* The last ones have superblocks that are refused, one after another, and then
\* one across the first two windows, one in the last window, or none.
MCFlashImages ==
  {Installed(<<"code", "s2", "code">>, FirmwareOffset + 4),
   Installed(<<"code", "s5", "code", "code", "code", "code">>, FirmwareOffset + 6),
   Installed(<<"s1", "v3", "s9", "code", "s2", "code">>, FirmwareOffset + 6),
   Installed(<<"code", "code", "code", "code", "s5", "s2", "code">>, FirmwareOffset + 8),
   Installed(<<"code", "s9", "s1", "code", "code", "s5">>, FirmwareOffset + 8)}

\* What uploads of up to three images leave in the buffer.
Over(r, img) == [i \in 0 .. FirmwareSize - 1 |-> IF i < Len(img) THEN img[i + 1] ELSE r[i]]
Blanks       == [i \in 0 .. FirmwareSize - 1 |-> Erased]
Uploaded(R)  == R \cup {Over(r, img) : r \in R, img \in Images}
MCRamImages  == Uploaded(Uploaded(Uploaded({Blanks})))

MCEnvImages == {}

MCInit == SettingsInit /\ budget = MaxJobs /\ ram = Blanks

MCNext ==
  \/ /\ budget > 0 /\ budget' = budget - 1
     /\ (\E keep \in BOOLEAN : Flash(keep)) \/ BeginReset
  \/ /\ UNCHANGED budget
     /\ \/ BeginUpload \/ (\E img \in Images : EndUpload(img))
        \/ Search \/ EndReset \/ Turn \/ RestartServer

mcVars == <<settingsVars, budget>>

MCSpec == MCInit /\ [][MCNext]_mcVars
=============================================================================
