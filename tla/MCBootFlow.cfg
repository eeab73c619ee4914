SPECIFICATION FairBootSpec
CONSTANTS
  Environments <- MCEnvironments
  ShortcutKey <- MCShortcutKey
  OtherChars = {" "}
  CliDelays <- MCCliDelays
  NoCommand = NoCommand
INVARIANTS UnattendedChoice
PROPERTIES CursorKeyMoves BootProceeds
