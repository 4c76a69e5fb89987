------------------------------ MODULE PiServo ------------------------------
(***************************************************************************)
(* pi-servo.c: from a phase error to a frequency correction.  A first      *)
(* stretch of samples measures the frequency error, then a PI controller   *)
(* follows the phase; a large phase error is slewed with the integrator    *)
(* held.                                                                   *)
(*                                                                         *)
(* Frequencies are integers in a unit that makes every gain an integer.    *)
(* Of local timestamps the servo uses differences only, and so does the    *)
(* model: a sample comes with the time since the one before.               *)
(***************************************************************************)
EXTENDS Integers

CONSTANTS
  Kp, Ki, KiFast, SlewKp,   \* the gains, frequency per unit of phase
  SlewThresh,               \* slew_thresh_ns
  StepThreshold,            \* step_threshold_ns, 0 for none
  MaxPpb,                   \* max_ppb
  FastKiSamples,            \* fast_ki_samples
  EstInterval,              \* freq_est_interval_s, in units of local time
  Giga                      \* 1e9: a phase as long as the time it took

ASSUME ServoAssumption ==
  /\ {Kp, Ki, KiFast, SlewKp, SlewThresh, StepThreshold} \subseteq Nat
  /\ {MaxPpb, EstInterval, Giga} \subseteq Nat \ {0}
  /\ FastKiSamples \in Nat

VARIABLES
  count,       \* 0 or 1, acquiring; 2, tracking
  offset0,     \* offset[0]
  age,         \* the time from local[0] to the last sample
  drift,
  last_freq,
  tracking     \* tracking_samples, up to fast_ki_samples

servoVars == <<count, offset0, age, drift, last_freq, tracking>>

ServoInit ==
  /\ count = 0
  /\ offset0 = 0
  /\ age = 0
  /\ drift = 0
  /\ last_freq = 0
  /\ tracking = 0

-----------------------------------------------------------------------------

Magnitude(n) == IF n < 0 THEN -n ELSE n

Clamped(ppb) ==
  IF ppb < -MaxPpb THEN -MaxPpb ELSE IF ppb > MaxPpb THEN MaxPpb ELSE ppb

\* A defect the model can be run with: the phase it began at is not kept.
FirstSampleUnseen(offset) ==
  /\ count = 0
  /\ age' = 0
  /\ count' = 1
  /\ UNCHANGED <<offset0, drift, last_freq, tracking>>

\* The first sample of the acquisition window.
FirstSample(offset) ==
  /\ count = 0
  /\ offset0' = offset
  /\ age' = 0
  /\ count' = 1
  /\ UNCHANGED <<drift, last_freq, tracking>>

\* The window, with its margin of a thousandth, has not elapsed.
TooSoon(elapsed) == 1001 * elapsed < 1000 * EstInterval

\* A sample within the window; one that is not after the first begins anew.
WatchSample(dt) ==
  /\ count = 1
  /\ IF age + dt <= 0
     THEN count' = 0 /\ age' = 0
     ELSE TooSoon(age + dt) /\ count' = 1 /\ age' = age + dt
  /\ UNCHANGED <<offset0, drift, last_freq, tracking>>

\* The slope of the phase error is the frequency error.
Estimate(offset, elapsed) ==
  drift + ((Giga - drift) * (offset - offset0)) \div elapsed

\* The sample that ends the window.
AcquiringSample(offset, dt) ==
  /\ count = 1
  /\ age + dt > 0
  /\ ~TooSoon(age + dt)
  /\ drift' = Clamped(Estimate(offset, age + dt))
  /\ last_freq' = drift'
  /\ count' = 2
  /\ age' = 0
  /\ UNCHANGED <<offset0, tracking>>

-----------------------------------------------------------------------------

Steps(offset) == StepThreshold # 0 /\ Magnitude(offset) > StepThreshold

Slews(offset) == Magnitude(offset) > SlewThresh

\* A step: acquisition starts over, with the drift and correction there are.
StepSample(offset) ==
  /\ count = 2
  /\ Steps(offset)
  /\ count' = 0
  /\ UNCHANGED <<offset0, age, drift, last_freq, tracking>>

\* A defect the model can be run with: it slews with the gain of small errors.
WeakSlewSample(offset) ==
  /\ count = 2
  /\ ~Steps(offset)
  /\ Slews(offset)
  /\ last_freq' = Clamped(Kp * offset + drift)
  /\ tracking' = 0
  /\ UNCHANGED <<count, offset0, age, drift>>

\* A large error: the integrator is held.
SlewSample(offset) ==
  /\ count = 2
  /\ ~Steps(offset)
  /\ Slews(offset)
  /\ last_freq' = Clamped(SlewKp * offset + drift)
  /\ tracking' = 0
  /\ UNCHANGED <<count, offset0, age, drift>>

KiActive == IF tracking < FastKiSamples THEN KiFast ELSE Ki

KiTerm(offset) == KiActive * offset

PiCorrection(offset) == Kp * offset + drift + KiTerm(offset)

\* The correction was not clamped.
Integrates(offset) ==
  -MaxPpb <= PiCorrection(offset) /\ PiCorrection(offset) <= MaxPpb

PiSample(offset) ==
  /\ count = 2
  /\ ~Steps(offset)
  /\ ~Slews(offset)
  /\ last_freq' = Clamped(PiCorrection(offset))
  /\ drift' = IF Integrates(offset) THEN drift + KiTerm(offset) ELSE drift
  /\ tracking' = IF tracking < FastKiSamples THEN tracking + 1 ELSE tracking
  /\ UNCHANGED <<count, offset0, age>>

\* pi_servo_sample()
Sample(offset, dt) ==
  \/ FirstSample(offset)
  \/ WatchSample(dt)
  \/ AcquiringSample(offset, dt)
  \/ StepSample(offset)
  \/ SlewSample(offset)
  \/ PiSample(offset)

\* The state pi_servo_sample() reports after that.
Locked == count = 2

\* pi_servo_reset()
Reset ==
  /\ count' = 0
  /\ UNCHANGED <<offset0, age, drift, last_freq, tracking>>

ServoTypeOK ==
  /\ count \in 0 .. 2
  /\ offset0 \in Int
  /\ age \in Nat
  /\ drift \in Int
  /\ last_freq \in Int
  /\ tracking \in 0 .. FastKiSamples

\* Neither the correction nor the estimate behind it is ever out of bounds.
CorrectionBounded ==
  /\ -MaxPpb <= drift /\ drift <= MaxPpb
  /\ -MaxPpb <= last_freq /\ last_freq <= MaxPpb

\* Any caller: samples in any order, and resets.
ServoNext == Reset \/ \E offset, dt \in Int : Sample(offset, dt)

ServoSpec == ServoInit /\ [][ServoNext]_servoVars
=============================================================================
