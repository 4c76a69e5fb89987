SPECIFICATION Spec
CONSTANTS
  Wrap = 5
  TransitTime = 3
  MaxLate = 1
  FaultKinds = {"loss"}
  MaxFaults = 2
  Delay = 2
  MaxSends = 4
  LastSend = 6
PROPERTIES
  LineSpec
