SPECIFICATION Spec
CONSTANTS
  PerCrf = 2
  Wrap = 7
  AafTransit = 1
  Start = 10
  CrfTransit = 2
  MaxLate = 1
  FaultKinds <- AllFaultKinds
  MaxFaults = 2
  Delay = 3
  MaxNow = 20
INVARIANTS
  TypeOK
  ListsIncrease
  StampLead
  LatenessHarmless
PROPERTIES
  MediaClockAdvances
