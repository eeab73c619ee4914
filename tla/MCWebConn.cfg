SPECIFICATION MCSpec
CONSTANTS
  Conns = {c1, c2, c3}
  NULL = NULL
  HeaderLen = 1
  BodyLens = {0, 1, 3}
  SndBuf = 2
  MaxData = 2
INVARIANTS
  ClientAlive
  ReplyAccounted
  NoInheritedStream
PROPERTIES
  SlotFreed
CHECK_DEADLOCK FALSE
