SPECIFICATION Spec
CONSTANTS
  Wrap = 5
  TransitTime = 2
  MaxLate = 1
  FaultKinds <- AllFaultKinds
  MaxFaults = 2
  Delay = 2
  MaxSends = 3
  LastSend = 3
INVARIANTS
  TypeOK
  TimerServesHead
  NeverEarly
  LateAtMostOneWrap
PROPERTIES
  EverySamplePlayed
