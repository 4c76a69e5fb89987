CONSTANTS
  NumFrames = 2
  IndexMod = 4
  MaxBatch = 1
  Packets <- PacketType
  Buffer = 5
  Threshold = 3
  PduFrames = 2
  Wrap = 24
  StartTime = 21
  Tolerance = 1
  Offset = 2
  TransitTime = 1
  MaxLate = 1
  Delay = 4
  StreamOdd = "bit_depth"
  StrayOdds = {"format"}
  FaultKinds <- AllFaultKinds
  MaxFaults = 2
  MaxPdus = 3
SPECIFICATION Spec
INVARIANTS
  TypeOK
  RedirectsRead
  NothingLeftBehind
  UnderrunNeedsLoss
  CutBounded
PROPERTIES
  QueueSpec
  GateExact
CHECK_DEADLOCK FALSE
