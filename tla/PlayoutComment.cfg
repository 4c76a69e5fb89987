SPECIFICATION Spec
CONSTANTS
  Wrap = 5
  TransitTime = 3
  MaxLate = 1
  FaultKinds = {"delay"}
  MaxFaults = 1
  Delay = 2
  MaxSends = 2
  LastSend = 4
INVARIANTS
  TimeRecovered
