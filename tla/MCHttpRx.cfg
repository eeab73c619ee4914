SPECIFICATION RxSpec
CONSTANTS
  HeaderSize = 9
  BodySize = 3
  UploadSize = 3
  UlongLimit = 32
  Lengths <- MCLengths
  Malformed = {"len_x"}
  Valid <- MCValid
  Streams <- MCStreams
  Conns = {c1, c2, c3}
  NoConn = NoConn
SYMMETRY AnyConn
CONSTRAINT FewOrphans
INVARIANTS
  BodyFromBytes
  AnswerFromBytes
  BodyInBuffer
  ForeignNeedsOrphan
CHECK_DEADLOCK FALSE
