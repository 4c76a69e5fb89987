SPECIFICATION Spec
CONSTANTS
  PerCrf = 2
  Wrap = 7
  AafTransit = 1
  Start = 10
  CrfTransit = 2
  MaxLate = 1
  FaultKinds = {"aaf_loss"}
  MaxFaults = 1
  Delay = 0
  MaxNow = 20
INVARIANTS
  VerdictTrue
