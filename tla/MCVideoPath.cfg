SPECIFICATION Spec
CONSTANTS
  DataLen = 5
  BufferSize = 12
  TsLen = 2
  DbcRange = 16
  Dbcs = 16
  SubHeader = 4
  Wrap = 64
  TransitTime = 1
  CvfStreams <- Streams
  IecStreams <- Packets
  FaultKinds <- AnyFault
  MaxLost = 2
  MaxFaults = 1
INVARIANTS
  TypeOK
  PiecesTrue
  EndsForCause
  PresentedWhole
PROPERTIES
  DbcBlamesEveryLoss
  TalkerEnds
