SPECIFICATION Spec
CONSTANTS
  TsPerPdu = 2
  SeqNumMod = 3
  Period = 3
  Phase = 1
  ReArmAttempts = 2
  SelectPeriods = 2
  SettlePeriods = 1
  EdgeCap = 5
  WaitPeriods = 2
  FaultKinds <- AllFaultKinds
  MaxFaults = 3
  MaxBurst = 3
  MaxTransit = 1
  MaxTime = 14
INVARIANTS
  TypeOK
  SequenceAccounting
  NoPduAcrossStall
  ResyncWithinTwoPdus
PROPERTIES
  ServoSamplesTrue
