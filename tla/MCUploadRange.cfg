SPECIFICATION RangeSpec
CONSTANTS
  W = 14
  MemBase = 7
  MemSize = 6
  UbootBase = 12
  None = "none"
  NoOverwrite = "nooverwrite"
  Free = "free"
  InitialSize = 2
  Reservations <- MCReservations
  Allocations <- MCAllocations
  Releases <- MCReleases
  MallocFails = FALSE
  LoadAddrs <- MCLoadAddrs
  Lengths <- MCLengths
INVARIANTS UploadInside
PROPERTIES StaysPossible KeepsMap
