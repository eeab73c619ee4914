SPECIFICATION MCSpec
CONSTANTS
  SectorSize = 1
  IoSize = 1
  FlashSize = 6
  UbootOffset = 0
  UbootSize = 1
  EnvOffset = 1
  EnvSize = 1
  FactoryOffset = 2
  FactorySize = 2
  FirmwareOffset = 4
  FirmwareSize = 2
  EepromOffset = 1
  EepromSize = 1
  Data = {old, new}
  OldData = old
  NewData = new
  Erased = erased
  Junk = junk
  FlashImages <- MCFlashImages
  RamImages <- MCRamImages
  EnvImages <- MCEnvImages
  UploadTargets = {"uboot", "environment", "factory", "firmware", "eeprom", "ram"}
  UploadData = {new, erased}
  ChunkSizes = {1, 2}
  Accepts <- MCAccepts
  KindOf <- MCKindOf
  MaxJobs = 1
INVARIANTS
  ValidatedImageInBuffer
  ActivitiesExclusive
  DoneImageAccepted
  BootsValidatedImage
  RestoreNeedsPhrase
PROPERTIES
  JobSpec
  JobLeadsToRestart
