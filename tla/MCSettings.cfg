SPECIFICATION MCSpec
CONSTANTS
  SectorSize = 2
  IoSize = 5
  SbSize = 2
  FlashSize = 16
  UbootOffset = 0
  UbootSize = 2
  EnvOffset = 2
  EnvSize = 2
  FactoryOffset = 4
  FactorySize = 2
  FirmwareOffset = 6
  FirmwareSize = 10
  EepromOffset = 0
  EepromSize = 1
  Erased = "erased"
  Junk = "junk"
  Setting = "setting"
  U64 = 64
  MaxJobs = 1
  Data <- MCData
  Superblocks <- MCSuperblocks
  Version <- MCVersion
  BytesUsed <- MCBytesUsed
  Images <- MCImages
  FlashImages <- MCFlashImages
  RamImages <- MCRamImages
  EnvImages <- MCEnvImages
INVARIANTS
  FindsFirst
  OverlayInFirmware
  ResetKeepsSystem
  FreshSettings
  KeepsSettings
