SPECIFICATION MCSpec
CONSTANTS
  SectorSize = 2
  IoSize = 5
  FlashSize = 16
  UbootOffset = 0
  UbootSize = 2
  EnvOffset = 2
  EnvSize = 2
  FactoryOffset = 4
  FactorySize = 4
  FirmwareOffset = 8
  FirmwareSize = 8
  EepromOffset = 1
  EepromSize = 2
  Data = {old, new}
  OldData = old
  NewData = new
  Erased = erased
  Junk = junk
  FlashImages <- MCFlashImages
  RamImages <- MCRamImages
  EnvImages <- MCEnvImages
  MaxJobs = 1
INVARIANTS
  ProgramsErasedOnly
  DoneMeansWritten
  Confined
  EepromMerge
  EraseAligned
PROPERTIES
  JobEnds
