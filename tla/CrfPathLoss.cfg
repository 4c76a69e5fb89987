SPECIFICATION Spec
CONSTANTS
  TsPerPdu = 2
  SeqNumMod = 3
  Period = 3
  Phase = 1
  ReArmAttempts = 3
  SelectPeriods = 2
  SettlePeriods = 1
  EdgeCap = 7
  WaitPeriods = 2
  FaultKinds = {"loss"}
  MaxFaults = 4
  MaxBurst = 2
  MaxTransit = 1
  MaxTime = 18
INVARIANTS
  DropsAreExact
  OutageFits
PROPERTIES
  LossKeepsSync
