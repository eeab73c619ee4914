SPECIFICATION CheckSpec
CONSTANTS
  Blank <- MCBlank
  BufferSize = 12
  EnvUnits = 3
  Uploads <- MCUploads
  MaxUploads = 2
INVARIANTS KindRight VerdictFromUpload
CHECK_DEADLOCK FALSE
