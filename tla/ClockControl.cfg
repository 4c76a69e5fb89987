CONSTANTS
  Kp = 8
  Ki = 1
  KiFast = 2
  SlewKp = 16
  SlewThresh = 2
  StepThreshold = 7
  MaxPpb = 80
  FastKiSamples = 3
  EstInterval = 4000
  Giga = 32000
  SampleTime = 1000
  PhaseUnit = 32
  Tolerance = 6
  Codes = 100
  Sub = 5
  Nominal = 8250
  Lsb = 4
  MaxCodes = 100
  Below = 40
  Above = 40
  Drifts = {0, 40}
  Phases = {0, 160}
  Jumps = {4, 9}
  MaxDisturbances = 1
  Oddities = {"nothing", "stream_id", "pull", "base_freq"}
SPECIFICATION FairSpec
INVARIANTS
  TypeOK
  CorrectionCarried
  NothingLeft
  PllConfigured
  MismatchReported
PROPERTIES
  SeedIsSlope
  PhaseCaptured
CHECK_DEADLOCK FALSE
