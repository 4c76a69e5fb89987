-------------------------- MODULE ClockControl_proofs --------------------------
(***************************************************************************)
(* Theorems about the control loop of the listener, for every gain, every  *)
(* clock and every disturbance.                                            *)
(***************************************************************************)
EXTENDS ClockControl, ModuloLemmas

\* What the named assumptions say of numbers, in one place.
LEMMA Constants ==
  /\ {Kp, Ki, KiFast, SlewKp, SlewThresh, StepThreshold} \subseteq Nat
  /\ MaxPpb \in Nat /\ MaxPpb > 0
  /\ Giga \in Nat /\ EstInterval \in Nat
  /\ FastKiSamples \in Nat
  /\ Codes \in Nat /\ Codes > 0
  /\ Sub \in Nat /\ Sub > 0 /\ Sub % 2 = 1
  /\ Nominal \in Nat
  /\ Whole \in Nat \ {0}
  /\ Lsb \in Nat /\ Lsb > 0
  /\ MaxCodes \in Nat /\ Below \in Nat /\ Above \in Nat
  /\ SampleTime \in Nat /\ SampleTime > 0
  /\ PhaseUnit \in Nat /\ PhaseUnit > 0
  /\ Tolerance \in Nat
  /\ Phases \subseteq Nat /\ Drifts \subseteq Nat /\ Jumps \subseteq Nat
<1>1. /\ Codes \in Nat /\ Codes > 0
      /\ Sub \in Nat /\ Sub > 0 /\ Sub % 2 = 1
  BY PwmAssumption, DividerAssumption
<1>2. Whole \in Nat \ {0}
  BY <1>1 DEF Whole
<1> QED
  BY <1>1, <1>2, ServoAssumption, PwmAssumption, Rp1Assumption, ControlAssumption

-----------------------------------------------------------------------------
\* The arithmetic of the servo.

\* Clamping bounds an integer.
LEMMA ClampedBounds ==
  ASSUME NEW n \in Int
  PROVE  /\ Clamped(n) \in Int
         /\ -MaxPpb <= Clamped(n) /\ Clamped(n) <= MaxPpb
  BY Constants DEF Clamped

\* A product with a gain has the sign of the other factor.
LEMMA GainSign ==
  ASSUME NEW k \in Nat, NEW n \in Int
  PROVE  /\ k * n \in Int
         /\ n >= 0 => k * n >= 0
         /\ n <= 0 => k * n <= 0
<1>1. CASE n >= 0
  BY <1>1
<1>2. CASE n <= 0
  <2>1. -n \in Nat /\ k * (-n) \in Nat
    BY <1>2
  <2>2. k * n = -(k * (-n))
    OBVIOUS
  <2> QED BY <2>1, <2>2
<1> QED BY <1>1, <1>2

\* An integrator that only follows corrections that were not clamped stays in
\* the bounds of the correction.
LEMMA IntegratorBounded ==
  ASSUME NEW offset \in Int, drift \in Int, -MaxPpb <= drift, drift <= MaxPpb,
         Integrates(offset)
  PROVE  /\ drift + KiTerm(offset) \in Int
         /\ -MaxPpb <= drift + KiTerm(offset)
         /\ drift + KiTerm(offset) <= MaxPpb
<1> DEFINE p == Kp * offset
           i == KiActive * offset
<1>1. KiActive \in Nat /\ Kp \in Nat /\ MaxPpb \in Nat
  BY Constants DEF KiActive
<1>2. /\ p \in Int /\ i \in Int
      /\ offset >= 0 => p >= 0 /\ i >= 0
      /\ offset <= 0 => p <= 0 /\ i <= 0
  BY <1>1, GainSign
<1>3. -MaxPpb <= p + drift + i /\ p + drift + i <= MaxPpb
  BY DEF Integrates, PiCorrection, KiTerm
<1>4. KiTerm(offset) = i
  BY DEF KiTerm
<1> HIDE DEF p, i
<1> QED BY <1>1, <1>2, <1>3, <1>4

\* Every sample of a clock whose integrator is in bounds leaves it in bounds,
\* and asks for a correction that is.
LEMMA SampleBounded ==
  ASSUME NEW offset \in Int, NEW dt \in Nat,
         ServoTypeOK, CorrectionBounded, Sample(offset, dt)
  PROVE  ServoTypeOK' /\ CorrectionBounded'
<1> USE DEF ServoTypeOK, CorrectionBounded
<1>1. CASE FirstSample(offset)
  BY <1>1 DEF FirstSample
<1>2. CASE WatchSample(dt)
  BY <1>2 DEF WatchSample
<1>3. CASE AcquiringSample(offset, dt)
  <2> DEFINE elapsed == age + dt
             n == (Giga - drift) * (offset - offset0)
  <2>1. elapsed \in Nat \ {0} /\ n \in Int
    BY <1>3, Constants DEF AcquiringSample
  <2>2. n \div elapsed \in Int
    BY <2>1, DivMod
  <2>3. Estimate(offset, elapsed) = drift + n \div elapsed
    BY DEF Estimate
  <2> HIDE DEF n
  <2>4. Estimate(offset, elapsed) \in Int
    BY <2>2, <2>3
  <2>5. drift' = Clamped(Estimate(offset, elapsed)) /\ last_freq' = drift'
    BY <1>3 DEF AcquiringSample
  <2> QED BY <1>3, <2>4, <2>5, ClampedBounds DEF AcquiringSample
<1>4. CASE StepSample(offset)
  BY <1>4 DEF StepSample
<1>5. CASE SlewSample(offset)
  <2>1. SlewKp * offset + drift \in Int
    BY Constants, GainSign
  <2> QED BY <1>5, <2>1, ClampedBounds, Constants DEF SlewSample
<1>6. CASE PiSample(offset)
  <2>1. PiCorrection(offset) \in Int
    <3>1. KiActive \in Nat /\ Kp \in Nat
      BY Constants DEF KiActive
    <3> QED BY <3>1, GainSign DEF PiCorrection, KiTerm
  <2>2. /\ last_freq' \in Int
        /\ -MaxPpb <= last_freq' /\ last_freq' <= MaxPpb
    BY <1>6, <2>1, ClampedBounds DEF PiSample
  <2>3. /\ drift' \in Int
        /\ -MaxPpb <= drift' /\ drift' <= MaxPpb
    BY <1>6, IntegratorBounded DEF PiSample
  <2>4. tracking' \in 0 .. FastKiSamples
    BY <1>6, Constants DEF PiSample
  <2> QED BY <1>6, <2>2, <2>3, <2>4 DEF PiSample
<1> QED BY <1>1, <1>2, <1>3, <1>4, <1>5, <1>6 DEF Sample

-----------------------------------------------------------------------------
\* The arithmetic of the dividers.

\* The nearest multiple of an odd number is less than half of it away.
LEMMA NearestCode ==
  ASSUME NEW S \in Nat, S > 0, S % 2 = 1, NEW q \in Int, NEW k \in Int,
         k = (2 * q + S) \div (2 * S)
  PROVE  -S < 2 * (q - k * S) /\ 2 * (q - k * S) < S
<1> DEFINE r == (2 * q + S) % (2 * S)
           m == k * S
           h == S \div 2
<1>1. /\ r \in 0 .. 2 * S - 1
      /\ 2 * q + S = (2 * S) * k + r
  <2> DEFINE M == 2 * S
             x == 2 * q + S
  <2>1. M \in Nat \ {0} /\ x \in Int
    OBVIOUS
  <2>2. k = x \div M /\ r = x % M
    OBVIOUS
  <2> HIDE DEF M, x, r
  <2>3. r \in 0 .. M - 1 /\ x = M * k + r
    BY <2>1, <2>2, DivMod
  <2> QED BY <2>3 DEF M, x
<1>2. m \in Int /\ (2 * S) * k = 2 * m
  OBVIOUS
<1>3. h \in Int /\ S = 2 * h + 1
  BY DivMod
<1> HIDE DEF m, r, h
<1>4. 2 * (q - m) = r - S
  BY <1>1, <1>2
<1>5. r # 0
  BY <1>1, <1>2, <1>3
<1> QED BY <1>1, <1>2, <1>4, <1>5 DEF m

\* The accumulator that has less than half a code never has more, and the code
\* is one there is.
LEMMA DividerRests ==
  ASSUME NEW ppb \in Int, InReach(ppb),
         divf_err \in Int, -Sub < 2 * divf_err, 2 * divf_err < Sub
  PROVE  /\ Code(Q(ppb)) \in 0 .. Codes - 1
         /\ Residue(ppb) \in Int
         /\ -Sub < 2 * Residue(ppb) /\ 2 * Residue(ppb) < Sub
         /\ Code(Q(ppb)) * Sub = (Wanted(ppb) % Whole) + divf_err - Residue(ppb)
<1> DEFINE f == Wanted(ppb) % Whole
           q == f + divf_err
           k == (2 * q + Sub) \div (2 * Sub)
           r == (2 * q + Sub) % (2 * Sub)
           top == (Codes - 1) * Sub
<1>1. /\ Sub \in Nat /\ Sub > 0 /\ Sub % 2 = 1
      /\ Codes \in Nat /\ Codes > 0
      /\ Whole \in Nat \ {0} /\ Nominal \in Nat
  BY Constants
<1>2. Wanted(ppb) \in Int
  BY <1>1 DEF Wanted
<1>3. f \in Nat /\ top \in Int /\ f <= top
  BY <1>1, <1>2, DivMod DEF InReach
<1>4. Q(ppb) = q /\ q \in Int
  BY <1>3 DEF Q
<1>5. /\ k \in Int /\ r \in 0 .. 2 * Sub - 1
      /\ 2 * q + Sub = (2 * Sub) * k + r
  <2> DEFINE M == 2 * Sub
             x == 2 * q + Sub
  <2>1. M \in Nat \ {0} /\ x \in Int
    BY <1>1, <1>4
  <2>2. k = x \div M /\ r = x % M
    OBVIOUS
  <2> HIDE DEF M, x, k, r
  <2>3. k \in Int /\ r \in 0 .. M - 1 /\ x = M * k + r
    BY <2>1, <2>2, DivMod
  <2> QED BY <2>3 DEF M, x
<1> HIDE DEF f, k, r, q
<1>6. k \in 0 .. Codes - 1
  <2>1. 2 * q + Sub > 0 /\ 2 * q < 2 * top + Sub
    BY <1>1, <1>3, <1>4 DEF q
  <2>2. k >= 0
    <3>1. SUFFICES ASSUME k <= -1 PROVE FALSE
      BY <1>5
    <3>2. (2 * Sub) * k <= -(2 * Sub)
      BY <1>1, <1>5, <3>1
    <3> QED BY <1>1, <1>5, <2>1, <3>2
  <2>3. k <= Codes - 1
    <3>1. SUFFICES ASSUME k >= Codes PROVE FALSE
      BY <1>1, <1>5
    <3>2. (2 * Sub) * k >= (2 * Sub) * Codes
      BY <1>1, <1>5, <3>1
    <3>3. (2 * Sub) * Codes = 2 * top + 2 * Sub
      BY <1>1
    <3> QED BY <1>1, <1>3, <1>4, <1>5, <2>1, <3>2, <3>3
  <2> QED BY <1>1, <1>5, <2>2, <2>3
<1>7. Code(q) = k
  <2>1. CASE q >= 0
    BY <1>6, <2>1 DEF Code, Lround, k
  <2>2. CASE q < 0
    <3>1. (Sub - 2 * q) \in 0 .. 2 * Sub - 1
      BY <1>1, <1>3, <1>4, <2>2 DEF q
    <3>2. (Sub - 2 * q) \div (2 * Sub) = 0
      BY <1>1, <3>1
    <3>3. (2 * q + Sub) \in 0 .. 2 * Sub - 1
      BY <1>1, <1>3, <1>4, <2>2 DEF q
    <3>4. k = 0
      BY <1>1, <3>3 DEF k
    <3>5. ~(q >= 0)
      BY <1>4, <2>2
    <3>6. Lround(q) = 0
      BY <3>2, <3>5 DEF Lround
    <3> QED BY <1>6, <3>4, <3>6 DEF Code
  <2> QED BY <1>4, <2>1, <2>2
<1>8. -Sub < 2 * (q - k * Sub) /\ 2 * (q - k * Sub) < Sub
  BY <1>1, <1>4, <1>5, NearestCode DEF k
<1>9. Residue(ppb) = q - k * Sub /\ k * Sub \in Int
  BY <1>1, <1>4, <1>5, <1>7 DEF Residue
<1>10. q = f + divf_err
  BY DEF q
<1>11. Code(Q(ppb)) = k
  BY <1>4, <1>7
<1> QED BY <1>3, <1>4, <1>6, <1>8, <1>9, <1>10, <1>11 DEF f

\* What rounding to a code of the PLL changes is at most half a code.
LEMMA NearestPllCode ==
  ASSUME NEW ppb \in Int
  PROVE  /\ CodesFor(ppb) \in Int
         /\ -Lsb <= 2 * (CodesFor(ppb) * Lsb - ppb)
         /\ 2 * (CodesFor(ppb) * Lsb - ppb) <= Lsb
<1> DEFINE M == 2 * Lsb
<1>1. Lsb \in Nat /\ Lsb > 0 /\ M \in Nat \ {0}
  BY Constants
<1>2. CASE ppb >= 0
  <2> DEFINE x == 2 * ppb + Lsb
             k == x \div M
             r == x % M
  <2>1. /\ k \in Int /\ r \in 0 .. M - 1
        /\ x = M * k + r
    <3>1. x \in Int
      BY <1>1
    <3> HIDE DEF M, x
    <3> QED BY <1>1, <3>1, DivMod
  <2>2. CodesFor(ppb) = k
    BY <1>2 DEF CodesFor
  <2> HIDE DEF k, r
  <2>3. k * Lsb \in Int /\ M * k = 2 * (k * Lsb)
    BY <1>1, <2>1
  <2> QED BY <1>1, <2>1, <2>2, <2>3
<1>3. CASE ppb < 0
  <2> DEFINE x == Lsb - 2 * ppb
             k == x \div M
             r == x % M
  <2>1. /\ k \in Int /\ r \in 0 .. M - 1
        /\ x = M * k + r
    <3>1. x \in Int
      BY <1>1
    <3> HIDE DEF M, x
    <3> QED BY <1>1, <3>1, DivMod
  <2>2. CodesFor(ppb) = -k
    BY <1>3 DEF CodesFor
  <2> HIDE DEF k, r
  <2>3. k * Lsb \in Int /\ M * k = 2 * (k * Lsb) /\ (-k) * Lsb = -(k * Lsb)
    BY <1>1, <2>1
  <2> QED BY <1>1, <2>1, <2>2, <2>3
<1> QED BY <1>2, <1>3

-----------------------------------------------------------------------------
\* What the divider has been told, for what the servo asked.

\* A correction in bounds is one either divider can follow.
LEMMA CorrectionFollowed ==
  ASSUME NEW ppb \in Int, -MaxPpb <= ppb, ppb <= MaxPpb
  PROVE  InReach(ppb) /\ ~OutOfRange(ppb) /\ InCodes(ppb)
<1>1. ppb \in -MaxPpb .. MaxPpb
  BY Constants
<1> QED BY <1>1, DividerAssumption

\* The dithered divider is off by the difference of two rests.
LEMMA PwmFollows ==
  ASSUME NEW ppb \in Int, -MaxPpb <= ppb, ppb <= MaxPpb,
         divf_err \in Int, -Sub < 2 * divf_err, 2 * divf_err < Sub,
         AdjustPwm(ppb)
  PROVE  /\ divf_err' \in Int /\ word' \in Int
         /\ -Sub < 2 * divf_err' /\ 2 * divf_err' < Sub
         /\ Nominal - word' = ppb - divf_err + divf_err'
<1> DEFINE f == Wanted(ppb) % Whole
           c == Code(Q(ppb)) * Sub
<1>1. InReach(ppb) /\ ~OutOfRange(ppb)
  BY CorrectionFollowed
<1>2. /\ word' = Wanted(ppb) - f + c
      /\ divf_err' = Residue(ppb)
  BY <1>1 DEF AdjustPwm
<1>3. /\ Residue(ppb) \in Int
      /\ -Sub < 2 * Residue(ppb) /\ 2 * Residue(ppb) < Sub
      /\ c = f + divf_err - Residue(ppb)
  BY <1>1, DividerRests
<1>4. Wanted(ppb) = Nominal - ppb /\ Nominal \in Nat
  BY Constants DEF Wanted
<1>5. f \in Int
  BY <1>4, Constants, DivMod
<1> HIDE DEF f, c
<1> QED BY <1>2, <1>3, <1>4, <1>5

\* The PLL is off by half a code.
LEMMA PllFollows ==
  ASSUME NEW ppb \in Int, -MaxPpb <= ppb, ppb <= MaxPpb, AdjustPll(ppb)
  PROVE  /\ frac' \in Int
         /\ -Lsb <= 2 * (frac' * Lsb - ppb)
         /\ 2 * (frac' * Lsb - ppb) <= Lsb
<1>1. InCodes(ppb)
  BY CorrectionFollowed
<1>2. /\ CodesFor(ppb) \in Int
      /\ -MaxCodes <= CodesFor(ppb) /\ CodesFor(ppb) <= MaxCodes
      /\ -Below <= CodesFor(ppb) /\ CodesFor(ppb) <= Above
  BY <1>1, Constants DEF InCodes
<1>3. Within(-MaxCodes, MaxCodes, CodesFor(ppb)) = CodesFor(ppb)
  BY <1>2, Constants DEF Within
<1>4. Within(-Below, Above, CodesFor(ppb)) = CodesFor(ppb)
  BY <1>2, Constants DEF Within
<1>5. frac' = CodesFor(ppb)
  BY <1>3, <1>4 DEF AdjustPll
<1> QED BY <1>2, <1>5, NearestPllCode

-----------------------------------------------------------------------------
\* The inductive invariant.

\* The loop's numbers are integers, and time goes on.
LoopNumbers ==
  /\ backend \in {"cm4", "rpi5"}
  /\ phase \in Int
  /\ slow \in Int
  /\ missed \in Nat
  /\ word \in Int
  /\ frac \in Int

\* What is owed is what the accumulator remembers.
Owed ==
  /\ owed \in Int
  /\ divf_err \in Int
  /\ owed + divf_err = 0
  /\ 0 < 2 * divf_err + Sub /\ 2 * divf_err < Sub

\* What is applied, for what was asked last.
Followed ==
  Tracking =>
    /\ backend = "cm4" => -Sub < Applied - last_freq /\ Applied - last_freq < Sub
    /\ backend = "rpi5" => /\ -Lsb <= 2 * (Applied - last_freq)
                           /\ 2 * (Applied - last_freq) <= Lsb

\* The servo has not begun while the clock is being opened.
Fresh == clock_state \in {"opening", "asleep"} => count = 0

ControlInv ==
  /\ ServoTypeOK
  /\ CorrectionBounded
  /\ LoopNumbers
  /\ Owed
  /\ Followed
  /\ Fresh

LEMMA ControlInvInit == Init => ControlInv
<1> SUFFICES ASSUME Init PROVE ControlInv
  OBVIOUS
<1>1. ServoTypeOK /\ CorrectionBounded
  BY Constants DEF Init, ServoInit, ServoTypeOK, CorrectionBounded
<1>2. LoopNumbers
  BY Constants DEF Init, BackendInit, PwmInit, Rp1Init, LoopNumbers
<1>3. Owed
  <2>1. owed = 0 /\ divf_err = 0
    BY DEF Init, BackendInit, PwmInit
  <2>2. Sub \in Nat /\ Sub > 0
    BY Constants
  <2> QED BY <2>1, <2>2 DEF Owed
<1>4. Followed /\ Fresh
  BY DEF Init, BackendInit, ServoInit, Followed, Fresh, Tracking
<1> QED BY <1>1, <1>2, <1>3, <1>4 DEF ControlInv

\* A phase error of the pair at hand is an integer, and so is what is applied.
LEMMA LoopIntegers ==
  ASSUME LoopNumbers
  PROVE  /\ Offset \in Int
         /\ Elapsed \in Nat
         /\ Applied \in Int
         /\ Later \in Int
<1> USE Constants DEF LoopNumbers
<1>1. Offset \in Int
  <2>1. PhaseUnit \in Nat \ {0}
    OBVIOUS
  <2> QED BY <2>1, DivMod DEF Offset
<1>2. Elapsed \in Nat
  BY DEF Elapsed
<1>3. Applied \in Int
  BY DEF Applied
<1> QED BY <1>1, <1>2, <1>3 DEF Later

\* Numbers either way are integers.
LEMMA EitherWayIntegers ==
  ASSUME NEW S, S \subseteq Nat
  PROVE  EitherWay(S) \subseteq Int
<1>1. \A n \in S : -n \in Int
  OBVIOUS
<1>2. {-n : n \in S} \subseteq Int
  BY <1>1, Zenon
<1>3. S \subseteq Int
  OBVIOUS
<1> QED BY <1>2, <1>3, Zenon DEF EitherWay

\* A step that neither hears of the clock nor of the servo.
LEMMA Untouched ==
  ASSUME ControlInv, UNCHANGED <<clockVars, servoVars, owed>>,
         LoopNumbers'
  PROVE  ControlInv'
<1> USE DEF ControlInv, clockVars, backendVars, pwmVars, multiplierVars, rp1Vars,
            servoVars
<1>1. ServoTypeOK' /\ CorrectionBounded'
  BY DEF ServoTypeOK, CorrectionBounded
<1>2. Owed'
  BY DEF Owed
<1>3. Followed'
  BY DEF Followed, Tracking, Applied
<1>4. Fresh'
  BY DEF Fresh
<1> QED BY <1>1, <1>2, <1>3, <1>4

\* A step outside the loop: nothing is followed.
LEMMA Outside ==
  ASSUME ControlInv, UNCHANGED <<servoVars, owed, divf_err>>,
         LoopNumbers',
         clock_state \in {"opening", "asleep"} \/ clock_state' = "closed"
  PROVE  ControlInv'
<1> USE DEF ControlInv, servoVars
<1>1. ServoTypeOK' /\ CorrectionBounded'
  BY DEF ServoTypeOK, CorrectionBounded
<1>2. Owed'
  BY DEF Owed
<1>3. Followed' /\ Fresh'
  BY DEF Followed, Fresh, Tracking
<1> QED BY <1>1, <1>2, <1>3

\* What pairs of calls do to the numbers of the hardware.
LEMMA PwmNumbers ==
  ASSUME NEW call, LoopNumbers, Pwm(call) \/ PwmFails(call) \/ StopClock
  PROVE  word' \in Int /\ divf_err' = divf_err
<1>1. Nominal - (Nominal % Sub) \in Int
  <2>1. Sub \in Nat \ {0} /\ Nominal \in Int
    BY Constants
  <2> QED BY <2>1, DivMod
<1>2. word \in Int
  BY DEF LoopNumbers
<1>3. CASE Pwm(call)
  BY <1>1, <1>2, <1>3 DEF Pwm, RoutePin, Prepare, EnableOutput, pwmVars
<1>4. CASE PwmFails(call)
  BY <1>1, <1>2, <1>4 DEF PwmFails, PrepareFails, StopClock, pwmVars
<1>5. CASE StopClock
  BY <1>2, <1>5 DEF StopClock
<1> QED BY <1>3, <1>4, <1>5

LEMMA PllNumbers ==
  ASSUME NEW call, LoopNumbers, Rp1(call) \/ Rp1Fails(call) \/ CleanUpClocks
  PROVE  frac' \in Int
<1>1. frac \in Int
  BY DEF LoopNumbers
<1>2. CASE Rp1(call)
  BY <1>1, <1>2 DEF Rp1, ProgramPll, EnableClocks, rp1Vars
<1>3. CASE Rp1Fails(call)
  BY <1>1, <1>3 DEF Rp1Fails, PllFails, EnableFails, rp1Vars
<1>4. CASE CleanUpClocks
  BY <1>4 DEF CleanUpClocks
<1> QED BY <1>2, <1>3, <1>4

-----------------------------------------------------------------------------
\* Every step keeps it.

\* A sample whose answer goes to the divider.
LEMMA TrackStep == ControlInv /\ Track => ControlInv'
<1> SUFFICES ASSUME ControlInv, Track PROVE ControlInv'
  OBVIOUS
<1>1. /\ Sample(Offset, Elapsed)
      /\ clock_state = "open"
      /\ IF Locked'
           THEN /\ Adjust(last_freq')
                /\ owed' = IF backend = "cm4" THEN owed + last_freq' - Applied' ELSE owed
           ELSE UNCHANGED <<clockVars, owed>>
      /\ phase' = Later /\ missed' = 0 /\ slow' = slow
  BY DEF Track, Accept, Receives, InLoop
<1>2. /\ ServoTypeOK /\ CorrectionBounded /\ LoopNumbers /\ Owed /\ Followed /\ Fresh
  BY DEF ControlInv
<1>3. Offset \in Int /\ Elapsed \in Nat /\ Later \in Int /\ Applied \in Int
  BY <1>2, LoopIntegers
<1>4. ServoTypeOK' /\ CorrectionBounded'
  BY <1>1, <1>2, <1>3, SampleBounded
<1>5. CASE ~Locked'
  <2>1. UNCHANGED <<clockVars, owed>>
    BY <1>1, <1>5
  <2>2. LoopNumbers' /\ Owed' /\ Fresh'
    BY <1>1, <1>2, <1>3, <2>1
       DEF clockVars, backendVars, pwmVars, rp1Vars, LoopNumbers, Owed, Fresh
  <2>3. Followed'
    BY <1>5 DEF Followed, Tracking, Locked
  <2> QED BY <1>4, <2>2, <2>3 DEF ControlInv
<1>6. CASE Locked'
  <2>1. /\ last_freq' \in Int /\ -MaxPpb <= last_freq' /\ last_freq' <= MaxPpb
    BY <1>4 DEF ServoTypeOK, CorrectionBounded
  <2>2. /\ Adjust(last_freq')
        /\ owed' = IF backend = "cm4" THEN owed + last_freq' - Applied' ELSE owed
    BY <1>1, <1>6
  <2>3. backend' = backend /\ clock_state' = clock_state
    BY <2>2 DEF Adjust, backendVars
  <2>4. Fresh'
    BY <1>1, <2>3 DEF Fresh
  <2>5. CASE backend = "cm4"
    <3>1. AdjustPwm(last_freq') /\ frac' = frac
      BY <2>2, <2>5 DEF Adjust, rp1Vars
    <3>0. Sub \in Nat
      BY Constants
    <3>2. /\ divf_err' \in Int /\ word' \in Int
          /\ 0 < 2 * divf_err' + Sub /\ 2 * divf_err' < Sub
          /\ Nominal - word' = last_freq' - divf_err + divf_err'
      <4>1. divf_err \in Int /\ -Sub < 2 * divf_err /\ 2 * divf_err < Sub
        BY <1>2, Constants DEF Owed
      <4>2. /\ divf_err' \in Int /\ word' \in Int
            /\ -Sub < 2 * divf_err' /\ 2 * divf_err' < Sub
            /\ Nominal - word' = last_freq' - divf_err + divf_err'
        BY <2>1, <3>1, <4>1, PwmFollows
      <4>3. \A n \in Int : -Sub < n => 0 < n + Sub
        BY <3>0
      <4>4. 2 * divf_err' \in Int
        BY <4>2
      <4> QED BY <4>2, <4>3, <4>4
    <3>3. Applied' = Nominal - word' /\ owed' = owed + last_freq' - Applied'
      BY <2>2, <2>3, <2>5 DEF Applied
    <3>4. /\ owed \in Int /\ divf_err \in Int /\ owed + divf_err = 0
          /\ 0 < 2 * divf_err + Sub /\ 2 * divf_err < Sub
      BY <1>2 DEF Owed
    <3>5. Owed'
      <4>1. owed' + divf_err' = 0 /\ owed' \in Int
        BY <2>1, <3>2, <3>3, <3>4
      <4> QED BY <3>2, <4>1 DEF Owed
    <3>6. LoopNumbers'
      BY <1>1, <1>2, <1>3, <2>3, <3>1, <3>2 DEF LoopNumbers
    <3>7. -Sub < Applied' - last_freq' /\ Applied' - last_freq' < Sub
      <4>1. Applied' - last_freq' = divf_err' - divf_err
        BY <2>1, <3>2, <3>3, <3>4
      <4>2. -Sub < divf_err' - divf_err /\ divf_err' - divf_err < Sub
        <5>1. \A x, y \in Int : /\ 0 < 2 * x + Sub /\ 2 * x < Sub
                                /\ 0 < 2 * y + Sub /\ 2 * y < Sub
                                => -Sub < x - y /\ x - y < Sub
          BY <3>0
        <5> QED BY <3>2, <3>4, <5>1
      <4> QED BY <4>1, <4>2
    <3>8. Followed'
      BY <2>3, <2>5, <3>7 DEF Followed
    <3> QED BY <1>4, <2>4, <3>5, <3>6, <3>8 DEF ControlInv
  <2>6. CASE backend = "rpi5"
    <3>1. AdjustPll(last_freq') /\ UNCHANGED pwmVars /\ owed' = owed
      BY <2>2, <2>6 DEF Adjust
    <3>2. /\ frac' \in Int
          /\ -Lsb <= 2 * (frac' * Lsb - last_freq')
          /\ 2 * (frac' * Lsb - last_freq') <= Lsb
      BY <2>1, <3>1, PllFollows
    <3>3. Applied' = frac' * Lsb
      BY <2>3, <2>6 DEF Applied
    <3>4. Owed'
      BY <1>2, <3>1 DEF Owed, pwmVars
    <3>5. LoopNumbers'
      BY <1>1, <1>2, <1>3, <2>3, <3>1, <3>2 DEF LoopNumbers, pwmVars
    <3>6. Followed'
      BY <2>3, <2>6, <3>2, <3>3 DEF Followed
    <3> QED BY <1>4, <2>4, <3>4, <3>5, <3>6 DEF ControlInv
  <2> QED BY <1>2, <2>5, <2>6 DEF LoopNumbers
<1> QED BY <1>5, <1>6

\* The steps of open() and close().
LEMMA ClockStep ==
  ASSUME ControlInv, OpenNext \/ OpenFails \/ OpenSleeps \/ Signal \/ Stop
  PROVE  ControlInv'
<1>1. LoopNumbers /\ Fresh
  BY DEF ControlInv
<1>2. UNCHANGED <<servoVars, owed, missed>>
  BY DEF OpenNext, OpenFails, OpenSleeps, Signal, Stop, loopVars
<1>3. CASE OpenNext
  <2>1. /\ Succeeds
        /\ phase' \in Int /\ slow' \in Int
    <3>1. EitherWay(Phases) \subseteq Int /\ EitherWay(Drifts) \subseteq Int
      BY Constants, EitherWayIntegers
    <3> QED BY <1>1, <1>3, <3>1 DEF OpenNext, LoopNumbers
  <2>2. /\ clock_state = "opening" /\ backend' = backend
        /\ word' \in Int /\ divf_err' = divf_err /\ frac' \in Int
    BY <1>1, <2>1, PwmNumbers, PllNumbers DEF Succeeds
  <2> QED BY <1>1, <1>2, <2>1, <2>2, Outside DEF LoopNumbers
<1>4. CASE OpenFails
  <2>1. /\ clock_state = "opening" /\ backend' = backend
        /\ word' \in Int /\ divf_err' = divf_err /\ frac' \in Int
    BY <1>1, <1>4, PwmNumbers, PllNumbers DEF OpenFails, Fails
  <2>2. phase' = phase /\ slow' = slow
    BY <1>4 DEF OpenFails, loopVars
  <2> QED BY <1>1, <1>2, <2>1, <2>2, Outside DEF LoopNumbers
<1>5. CASE OpenSleeps
  <2>1. /\ clock_state = "opening" /\ backend' = backend
        /\ word' = word /\ divf_err' = divf_err /\ frac' = frac
    BY <1>5 DEF OpenSleeps, Oversleeps, pwmVars, rp1Vars
  <2>2. phase' = phase /\ slow' = slow
    BY <1>5 DEF OpenSleeps, loopVars
  <2> QED BY <1>1, <1>2, <2>1, <2>2, Outside DEF LoopNumbers
<1>6. CASE Signal
  <2>1. /\ clock_state \in {"opening", "asleep"} /\ backend' = backend
        /\ word' = word /\ divf_err' = divf_err /\ frac' = frac
    BY <1>6 DEF Signal, Awakes, EnableOutput, clockVars, backendVars, pwmVars, rp1Vars
  <2>2. phase' = phase /\ slow' = slow
    BY <1>6 DEF Signal, loopVars
  <2> QED BY <1>1, <1>2, <2>1, <2>2, Outside DEF LoopNumbers
<1>7. CASE Stop
  <2>1. /\ clock_state' = "closed" /\ backend' = backend
    BY <1>7 DEF Stop, Close
  <2>2. word' \in Int /\ divf_err' = divf_err
    <3>1. CASE "pwm_clock" \in owned
      BY <1>1, <1>7, <3>1, PwmNumbers DEF Stop, Close
    <3>2. CASE "pwm_clock" \notin owned
      BY <1>1, <1>7, <3>2 DEF Stop, Close, pwmVars, LoopNumbers
    <3> QED BY <3>1, <3>2
  <2>3. frac' \in Int
    <3>1. CASE "rp1_clock" \in owned
      BY <1>1, <1>7, <3>1, PllNumbers DEF Stop, Close
    <3>2. CASE "rp1_clock" \notin owned
      BY <1>1, <1>7, <3>2 DEF Stop, Close, rp1Vars, LoopNumbers
    <3> QED BY <3>1, <3>2
  <2>4. phase' = phase /\ slow' = slow
    BY <1>7 DEF Stop, loopVars
  <2> QED BY <1>1, <1>2, <2>1, <2>2, <2>3, <2>4, Outside DEF LoopNumbers
<1> QED BY <1>3, <1>4, <1>5, <1>6, <1>7

\* The steps that bring no sample.
LEMMA NoSampleStep ==
  ASSUME ControlInv,
         \/ TurnAway \/ Stray \/ LoseSync \/ Synchronize \/ Miss \/ Jump
         \/ UNCHANGED vars
  PROVE  ControlInv'
<1>1. LoopNumbers
  BY DEF ControlInv
<1>2. Offset \in Int /\ Later \in Int /\ Applied \in Int
  BY <1>1, LoopIntegers
<1>3. phase \in Int /\ slow \in Int /\ missed \in Nat
  BY <1>1 DEF LoopNumbers
<1>4. UNCHANGED <<clockVars, servoVars, owed>>
  BY DEF TurnAway, Stray, LoseSync, Synchronize, Miss, Jump, NoSample, vars, loopVars
<1>5. phase' \in Int
  <2>1. CASE TurnAway \/ Stray \/ UNCHANGED vars
    BY <1>3, <2>1 DEF TurnAway, Stray, vars, loopVars
  <2>2. CASE LoseSync \/ Miss
    BY <1>2, <2>2 DEF LoseSync, Miss, NoSample
  <2>3. CASE Synchronize
    <3>1. Tolerance * PhaseUnit \in Int /\ Period * PhaseUnit \in Nat \ {0}
      BY Constants DEF Period
    <3>2. Nearest(phase) \in Int
      BY <1>3, <3>1, DivMod DEF Nearest
    <3> QED BY <1>2, <1>3, <2>3, <3>2 DEF Synchronize, NoSample
  <2>4. CASE Jump
    <3>1. EitherWay(Jumps) \subseteq Int
      BY Constants, EitherWayIntegers
    <3>2. PICK j \in EitherWay(Jumps) : phase' = phase + j * PhaseUnit
      BY <2>4 DEF Jump, NoSample
    <3>3. j * PhaseUnit \in Int
      BY <3>1, Constants
    <3> QED BY <1>3, <3>2, <3>3
  <2> QED BY <2>1, <2>2, <2>3, <2>4
<1>6. slow' = slow /\ missed' \in Nat
  BY <1>3 DEF TurnAway, Stray, LoseSync, Synchronize, Miss, Jump, NoSample, vars, loopVars
<1>7. LoopNumbers'
  BY <1>1, <1>4, <1>5, <1>6 DEF LoopNumbers, clockVars, backendVars, pwmVars, rp1Vars
<1> QED BY <1>4, <1>7, Untouched

LEMMA ControlInvStep == ControlInv /\ [Next]_vars => ControlInv'
<1> SUFFICES ASSUME ControlInv, [Next]_vars PROVE ControlInv'
  OBVIOUS
<1> QED BY TrackStep, ClockStep, NoSampleStep DEF Next

LEMMA ControlInvHolds == Spec => []ControlInv
  BY ControlInvInit, ControlInvStep, PTL DEF Spec

-----------------------------------------------------------------------------
\* The theorems.

\* The servo's state is of its types, whatever it is given.
THEOREM ServoTyped == Spec => []ServoTypeOK
<1>1. ControlInv => ServoTypeOK
  BY DEF ControlInv
<1> QED BY <1>1, ControlInvHolds, PTL

\* The correction and the estimate behind it stay in their bounds, either
\* divider follows a correction to a code, and of all corrections together the
\* dithered one owes less than half a code.
THEOREM CorrectionsCarried == Spec => []CorrectionCarried
<1>1. ControlInv => CorrectionCarried
  <2> SUFFICES ASSUME ControlInv PROVE CorrectionCarried
    OBVIOUS
  <2>1. /\ CorrectionBounded /\ last_freq \in Int /\ Applied \in Int
    BY LoopIntegers DEF ControlInv, ServoTypeOK
  <2>2. 2 * Magnitude(owed) < Sub
    <3>1. /\ owed \in Int /\ divf_err \in Int /\ owed + divf_err = 0
          /\ 0 < 2 * divf_err + Sub /\ 2 * divf_err < Sub
      BY DEF ControlInv, Owed
    <3>2. Sub \in Nat
      BY Constants
    <3> QED BY <3>1, <3>2 DEF Magnitude
  <2>3. Tracking /\ backend = "cm4" => Magnitude(Applied - last_freq) < Sub
    BY <2>1, Constants DEF ControlInv, Followed, Magnitude
  <2>4. Tracking /\ backend = "rpi5" => 2 * Magnitude(Applied - last_freq) <= Lsb
    BY <2>1, Constants DEF ControlInv, Followed, Magnitude
  <2> QED BY <2>1, <2>2, <2>3, <2>4 DEF CorrectionCarried
<1> QED BY <1>1, ControlInvHolds, PTL

-----------------------------------------------------------------------------
\* The frequency estimate.

\* While the phase window is no wider than a step, tracking lasts: what the
\* listener hands to the servo is never a step.  So the one estimate of a run
\* is measured with an integrator that is still zero.
LEMMA TrackingLasts ==
  ASSUME ControlInv, [Next]_vars, count = 2
  PROVE  count' = 2
<1>1. CASE Track
  <2>1. Sample(Offset, Elapsed) /\ Magnitude(Offset) <= Tolerance
    BY <1>1 DEF Track, InWindow
  <2>2. Magnitude(Offset) \in Nat
    BY LoopIntegers DEF ControlInv, Magnitude
  <2>3. ~Steps(Offset)
    BY <2>1, <2>2, WindowAssumption, Constants DEF Steps
  <2> QED BY <2>1, <2>3
        DEF Sample, FirstSample, WatchSample, AcquiringSample, StepSample,
            SlewSample, PiSample
<1>2. CASE ~Track
  <2>1. UNCHANGED servoVars
    BY <1>2 DEF Next, OpenNext, OpenFails, OpenSleeps, Signal, Stop, TurnAway, Stray,
                LoseSync, Synchronize, Miss, Jump, NoSample, vars
  <2> QED BY <2>1 DEF servoVars
<1> QED BY <1>1, <1>2

\* What is left of the phase when the first offset, the slope over the n periods
\* since, and all that moved it are taken away.
Rest(n) == phase - n * (slow - Applied) - displaced - offset0 * PhaseUnit

\* While the servo acquires, that is what the first offset was rounded by.
OnSlope ==
  \E n \in Nat \ {0} :
    /\ age + Elapsed = n * SampleTime
    /\ 0 <= Rest(n) /\ Rest(n) < PhaseUnit

SeedInv ==
  /\ displaced \in Int
  /\ count # 1 => displaced = 0
  /\ count # 2 => drift = 0
  /\ clock_state = "open" /\ count = 1 => OnSlope

LEMMA SeedInvInit == Init => SeedInv
  BY DEF Init, ServoInit, SeedInv

\* A period more on the slope.
LEMMA PeriodMore ==
  ASSUME NEW n \in Nat \ {0}, NEW p \in Int, NEW x \in Int, NEW d \in Int, NEW o \in Int
  PROVE  /\ n + 1 \in Nat \ {0}
         /\ (p + x) - (n + 1) * x - d - o = p - n * x - d - o
         /\ n * SampleTime + SampleTime = (n + 1) * SampleTime
<1>1. SampleTime \in Nat
  BY Constants
<1>2. \A a \in Nat \ {0}, y \in Int : (a + 1) * y = a * y + y /\ a * y \in Int
  OBVIOUS
<1>3. (n + 1) * x = n * x + x /\ (n + 1) * SampleTime = n * SampleTime + SampleTime
  BY <1>1, <1>2
<1>4. n * x \in Int
  BY <1>2
<1> DEFINE y == n * x
<1> HIDE DEF y
<1>5. (p + x) - (y + x) - d - o = p - y - d - o
  BY <1>4 DEF y
<1> QED BY <1>3, <1>5 DEF y

\* The numbers of a loop whose clock is open.
LEMMA SlopeNumbers ==
  ASSUME ControlInv, SeedInv
  PROVE  /\ phase \in Int /\ slow \in Int /\ Applied \in Int /\ slow - Applied \in Int
         /\ displaced \in Int /\ offset0 \in Int /\ offset0 * PhaseUnit \in Int
         /\ age \in Nat /\ missed \in Nat /\ Elapsed \in Nat \ {0}
         /\ Nearest(phase) \in Int
<1>1. /\ phase \in Int /\ slow \in Int /\ Applied \in Int /\ displaced \in Int
      /\ offset0 \in Int /\ age \in Nat /\ missed \in Nat
  BY LoopIntegers DEF ControlInv, LoopNumbers, ServoTypeOK, SeedInv
<1>2. Tolerance * PhaseUnit \in Int /\ Period * PhaseUnit \in Nat \ {0}
  BY Constants DEF Period
<1>3. Nearest(phase) \in Int
  BY <1>1, <1>2, DivMod DEF Nearest
<1>4. \A m \in Nat, t \in Nat : t > 0 => (m + 1) * t \in Nat \ {0}
  OBVIOUS
<1>5. Elapsed \in Nat \ {0}
  BY <1>1, <1>4, Constants DEF Elapsed
<1>6. offset0 * PhaseUnit \in Int
  BY <1>1, Constants
<1> QED BY <1>1, <1>3, <1>5, <1>6

\* An open clock stays open and applies what it did, but for a sample of a servo
\* that tracks.
LEMMA ClockKept ==
  ASSUME ControlInv, Next, count # 2, count' = 1, clock_state' = "open"
  PROVE  /\ clock_state = "open"
         /\ Applied' = Applied /\ slow' = slow
<1>1. CASE OpenNext \/ OpenFails \/ OpenSleeps \/ Signal \/ Stop
  <2>1. count' = count
    BY <1>1 DEF OpenNext, OpenFails, OpenSleeps, Signal, Stop, servoVars
  <2>2. clock_state \in {"opening", "asleep"} \/ clock_state' = "closed"
    BY <1>1 DEF OpenNext, OpenFails, OpenSleeps, Signal, Stop, Succeeds, Fails, Oversleeps,
                Awakes, Close
  <2> QED BY <2>1, <2>2 DEF ControlInv, Fresh
<1>2. CASE TurnAway \/ Stray \/ LoseSync \/ Synchronize \/ Miss \/ Jump
  <2>1. UNCHANGED <<clockVars, slow>>
    BY <1>2 DEF TurnAway, Stray, LoseSync, Synchronize, Miss, Jump, NoSample, loopVars
  <2> QED BY <2>1 DEF clockVars, backendVars, pwmVars, rp1Vars, Applied
<1>3. CASE Track
  <2>1. UNCHANGED <<clockVars, slow>>
    BY <1>3 DEF Track, Locked
  <2> QED BY <2>1 DEF clockVars, backendVars, pwmVars, rp1Vars, Applied
<1> QED BY <1>1, <1>2, <1>3 DEF Next

\* A first sample is one period away from the next pair.
LEMMA FirstOnSlope ==
  ASSUME ControlInv, SeedInv, Track, count = 0, count' = 1, Applied' = Applied
  PROVE  OnSlope'
<1> DEFINE x == slow - Applied
           o == Offset * PhaseUnit
<1>1. /\ phase' = phase + x /\ slow' = slow /\ displaced' = 0 /\ missed' = 0
      /\ offset0' = Offset /\ age' = 0
  <2>1. FirstSample(Offset)
    BY DEF Track, Sample, FirstSample, WatchSample, AcquiringSample, StepSample, SlewSample,
           PiSample
  <2>2. displaced' = displaced /\ displaced = 0
    BY DEF Track, SeedInv
  <2>3. phase' = phase + slow - Applied
    BY DEF Track, Later
  <2>4. phase' = phase + x
    BY <2>3, SlopeNumbers
  <2> QED BY <2>1, <2>2, <2>4 DEF Track, FirstSample
<1>2. phase = o + (phase % PhaseUnit) /\ phase % PhaseUnit \in 0 .. PhaseUnit - 1 /\ o \in Int
  <2>1. PhaseUnit \in Nat \ {0} /\ phase \in Int
    BY Constants, SlopeNumbers
  <2>2. /\ phase = PhaseUnit * Offset + (phase % PhaseUnit)
        /\ phase % PhaseUnit \in 0 .. PhaseUnit - 1 /\ Offset \in Int
    BY <2>1, DivMod DEF Offset
  <2>3. o = PhaseUnit * Offset /\ o \in Int
    BY <2>1, <2>2
  <2> QED BY <2>2, <2>3
<1>3. x \in Int /\ phase \in Int /\ SampleTime \in Int /\ PhaseUnit \in Int
  BY SlopeNumbers, Constants
<1>4. age' + Elapsed' = 1 * SampleTime
  BY <1>1, <1>3 DEF Elapsed
<1>5. Rest(1)' = phase' - 1 * (slow' - Applied') - displaced' - offset0' * PhaseUnit
  BY DEF Rest
<1>6. Rest(1)' = phase' - x - 0 - o
  <2>1. 1 * x = x
    BY <1>3
  <2> QED BY <1>1, <1>5, <2>1
<1> HIDE DEF x, o
<1>7. Rest(1)' = phase % PhaseUnit
  BY <1>1, <1>2, <1>3, <1>6
<1>8. 0 <= Rest(1)' /\ Rest(1)' < PhaseUnit
  BY <1>2, <1>3, <1>7
<1> QED BY <1>4, <1>8 DEF OnSlope

\* A period passes while the servo acquires.  What does not follow from the
\* slope is displaced.
LEMMA PeriodOnSlope ==
  ASSUME ControlInv, SeedInv, OnSlope, NEW jump \in Int,
         phase' = phase + jump + slow - Applied, displaced' = displaced + jump,
         age' + Elapsed' = age + Elapsed + SampleTime,
         UNCHANGED <<offset0, slow>>, Applied' = Applied
  PROVE  OnSlope'
<1>1. PICK n \in Nat \ {0} :
        /\ age + Elapsed = n * SampleTime
        /\ 0 <= Rest(n) /\ Rest(n) < PhaseUnit
  BY DEF OnSlope
<1> DEFINE x == slow - Applied
           o == offset0 * PhaseUnit
<1>2. /\ phase \in Int /\ slow \in Int /\ Applied \in Int /\ x \in Int /\ displaced \in Int
      /\ o \in Int /\ age \in Nat /\ Elapsed \in Nat /\ phase + jump \in Int
      /\ displaced + jump \in Int
  BY SlopeNumbers
<1>3. /\ n + 1 \in Nat \ {0}
      /\ ((phase + jump) + x) - (n + 1) * x - (displaced + jump) - o
           = (phase + jump) - n * x - (displaced + jump) - o
      /\ n * SampleTime + SampleTime = (n + 1) * SampleTime
  BY <1>2, PeriodMore
<1>4. phase' = (phase + jump) + x
  BY <1>2
<1>5. Rest(n + 1)' = phase' - (n + 1) * (slow' - Applied') - displaced' - offset0' * PhaseUnit
  BY DEF Rest
<1>6. Rest(n + 1)' = ((phase + jump) + x) - (n + 1) * x - (displaced + jump) - o
  BY <1>4, <1>5
<1>7. Rest(n) = phase - n * x - displaced - o
  BY DEF Rest
<1>8. n * x \in Int
  BY <1>2
<1>9. age' + Elapsed' = (n + 1) * SampleTime
  BY <1>1, <1>3
<1> DEFINE y == n * x
<1>10. Rest(n + 1)' = (phase + jump) - y - (displaced + jump) - o
  BY <1>3, <1>6
<1>11. Rest(n) = phase - y - displaced - o /\ y \in Int
  BY <1>7, <1>8
<1> HIDE DEF x, o, y
<1>12. Rest(n + 1)' = Rest(n)
  BY <1>2, <1>10, <1>11
<1> QED BY <1>1, <1>3, <1>9, <1>12 DEF OnSlope

\* The two samples of a servo that acquires.
LEMMA WatchOnSlope ==
  ASSUME ControlInv, SeedInv, OnSlope, Track, count = 1, count' = 1, Applied' = Applied
  PROVE  OnSlope'
<1>1. /\ phase \in Int /\ slow \in Int /\ Applied \in Int /\ displaced \in Int
      /\ age \in Nat /\ Elapsed \in Nat \ {0}
  BY SlopeNumbers
<1>2. WatchSample(Elapsed)
  BY DEF Track, Sample, FirstSample, WatchSample, AcquiringSample, StepSample, SlewSample,
         PiSample
<1>3. age' = age + Elapsed /\ offset0' = offset0
  BY <1>1, <1>2 DEF WatchSample
<1>4. /\ phase' = phase + slow - Applied /\ slow' = slow /\ missed' = 0
      /\ displaced' = displaced
  BY DEF Track, Later
<1>5. Elapsed' = SampleTime
  BY <1>4, Constants DEF Elapsed
<1>6. phase' = phase + 0 + slow - Applied /\ displaced' = displaced + 0
  BY <1>1, <1>4
<1>7. age' + Elapsed' = age + Elapsed + SampleTime
  BY <1>3, <1>5
<1> QED BY <1>3, <1>4, <1>6, <1>7, PeriodOnSlope

\* A period without a sample, and a phase that is moved.
LEMMA MissOnSlope ==
  ASSUME ControlInv, SeedInv, OnSlope, count = 1, Applied' = Applied,
         LoseSync \/ Synchronize \/ Miss
  PROVE  OnSlope'
<1>1. /\ phase \in Int /\ slow \in Int /\ Applied \in Int /\ displaced \in Int
      /\ age \in Nat /\ missed \in Nat /\ Nearest(phase) \in Int
  BY SlopeNumbers
<1>2. /\ UNCHANGED <<offset0, age, slow>> /\ missed' = missed + 1
  BY DEF LoseSync, Synchronize, Miss, NoSample, servoVars
<1>3. age' + Elapsed' = age + Elapsed + SampleTime
  <2>1. \A m, t \in Nat : (m + 1 + 1) * t = (m + 1) * t + t /\ (m + 1) * t \in Nat
    OBVIOUS
  <2>2. Elapsed' = Elapsed + SampleTime /\ Elapsed \in Nat /\ SampleTime \in Nat
    BY <1>1, <1>2, <2>1, Constants DEF Elapsed
  <2> QED BY <1>1, <1>2, <2>2
<1>4. CASE Synchronize
  <2> DEFINE jump == Nearest(phase) - phase
  <2>1. /\ phase' = Nearest(phase) + slow - Applied
        /\ displaced' = displaced + Nearest(phase) - phase
    BY <1>4 DEF Synchronize, NoSample
  <2>2. /\ jump \in Int
        /\ phase' = phase + jump + slow - Applied
        /\ displaced' = displaced + jump
    BY <1>1, <2>1
  <2> HIDE DEF jump
  <2> QED BY <1>2, <1>3, <2>2, PeriodOnSlope
<1>5. CASE LoseSync \/ Miss
  <2>1. phase' = phase + slow - Applied /\ displaced' = displaced
    BY <1>5 DEF LoseSync, Miss, NoSample, Later
  <2>2. phase' = phase + 0 + slow - Applied /\ displaced' = displaced + 0
    BY <1>1, <2>1
  <2> QED BY <1>2, <1>3, <2>2, PeriodOnSlope
<1> QED BY <1>4, <1>5

\* The media clock restarts: no time passes.
LEMMA JumpOnSlope ==
  ASSUME ControlInv, SeedInv, OnSlope, count = 1, Jump, Applied' = Applied
  PROVE  OnSlope'
<1>1. PICK n \in Nat \ {0} :
        /\ age + Elapsed = n * SampleTime
        /\ 0 <= Rest(n) /\ Rest(n) < PhaseUnit
  BY DEF OnSlope
<1>2. PICK j \in EitherWay(Jumps) :
        phase' = phase + j * PhaseUnit /\ displaced' = displaced + j * PhaseUnit
  BY DEF Jump, NoSample
<1>3. UNCHANGED <<offset0, age, missed, slow>>
  BY DEF Jump, NoSample, servoVars
<1>4. j \in Int /\ j * PhaseUnit \in Int
  <2>1. EitherWay(Jumps) \subseteq Int
    BY Constants, EitherWayIntegers
  <2>2. j \in Int
    BY <2>1
  <2> QED BY <2>2, Constants
<1>5. /\ phase \in Int /\ slow - Applied \in Int /\ displaced \in Int
      /\ offset0 * PhaseUnit \in Int
  BY SlopeNumbers
<1>6. n * (slow - Applied) \in Int
  BY <1>5
<1> DEFINE x == n * (slow - Applied)
           o == offset0 * PhaseUnit
           m == j * PhaseUnit
<1>7. /\ Rest(n)' = phase' - x - displaced' - o
      /\ Rest(n) = phase - x - displaced - o
  BY <1>3 DEF Rest
<1>8. phase' = phase + m /\ displaced' = displaced + m /\ m \in Int /\ x \in Int /\ o \in Int
  BY <1>2, <1>4, <1>5, <1>6
<1> HIDE DEF x, o, m
<1>9. Rest(n)' = Rest(n)
  BY <1>5, <1>7, <1>8
<1>10. age' + Elapsed' = n * SampleTime
  BY <1>1, <1>3 DEF Elapsed
<1> QED BY <1>1, <1>9, <1>10 DEF OnSlope

\* Every step.
LEMMA SeedInvStep ==
  ASSUME ControlInv, SeedInv, [Next]_vars
  PROVE  SeedInv'
<1>1. /\ displaced \in Int /\ phase \in Int /\ Nearest(phase) \in Int
      /\ count # 1 => displaced = 0
      /\ count # 2 => drift = 0
  BY SlopeNumbers DEF SeedInv
<1>2. count \in {0, 1, 2}
  BY DEF ControlInv, ServoTypeOK
<1>3. CASE UNCHANGED vars
  BY <1>3 DEF vars, servoVars, loopVars, clockVars, backendVars, pwmVars, rp1Vars,
              SeedInv, OnSlope, Rest, Elapsed, Applied
<1>4. CASE Next /\ Track
  <2>1. Sample(Offset, Elapsed) /\ displaced' = IF count' = 1 THEN displaced ELSE 0
    BY <1>4 DEF Track
  <2>2. displaced' \in Int /\ (count' # 1 => displaced' = 0)
    BY <1>1, <2>1
  <2>3. count = 2 => count' = 2
    BY TrackingLasts
  <2>4. count' # 2 => drift' = 0
    BY <1>1, <2>1, <2>3
       DEF Sample, FirstSample, WatchSample, AcquiringSample, StepSample, SlewSample, PiSample
  <2>5. ASSUME clock_state' = "open", count' = 1 PROVE OnSlope'
    <3>1. count # 2
      BY <2>3, <2>5
    <3>2. clock_state = "open" /\ Applied' = Applied
      BY <1>4, <2>5, <3>1, ClockKept
    <3>3. CASE count = 0
      BY <1>4, <2>5, <3>2, <3>3, FirstOnSlope
    <3>4. CASE count = 1
      BY <1>4, <2>5, <3>2, <3>4, WatchOnSlope DEF SeedInv
    <3> QED BY <1>2, <3>1, <3>3, <3>4
  <2> QED BY <2>2, <2>4, <2>5 DEF SeedInv
<1>5. CASE Next /\ ~Track
  <2>1. UNCHANGED servoVars
    BY <1>5 DEF Next, OpenNext, OpenFails, OpenSleeps, Signal, Stop, TurnAway, Stray,
                LoseSync, Synchronize, Miss, Jump, NoSample
  <2>2. displaced' \in Int /\ (count # 1 => displaced' = displaced)
    <3>1. CASE ~Synchronize /\ ~Jump
      BY <1>1, <1>5, <3>1 DEF Next, OpenNext, OpenFails, OpenSleeps, Signal, Stop, TurnAway,
                              Stray, LoseSync, Miss, loopVars
    <3>2. CASE Synchronize
      BY <1>1, <3>2 DEF Synchronize
    <3>3. CASE Jump
      <4>1. EitherWay(Jumps) \subseteq Int
        BY Constants, EitherWayIntegers
      <4>2. PICK j \in EitherWay(Jumps) :
              displaced' = IF count = 1 THEN displaced + j * PhaseUnit ELSE displaced
        BY <3>3 DEF Jump
      <4>3. j * PhaseUnit \in Int
        BY <4>1, Constants
      <4> QED BY <1>1, <4>2, <4>3
    <3> QED BY <3>1, <3>2, <3>3
  <2>3. ASSUME clock_state' = "open", count' = 1 PROVE OnSlope'
    <3>1. count = 1
      BY <2>1, <2>3 DEF servoVars
    <3>2. clock_state = "open" /\ Applied' = Applied /\ slow' = slow
      BY <1>5, <2>3, <3>1, ClockKept
    <3>3. OnSlope
      BY <3>1, <3>2 DEF SeedInv
    <3>4. CASE LoseSync \/ Synchronize \/ Miss
      BY <3>1, <3>2, <3>3, <3>4, MissOnSlope
    <3>5. CASE Jump
      BY <3>1, <3>2, <3>3, <3>5, JumpOnSlope
    <3>6. CASE TurnAway \/ Stray
      <4>1. UNCHANGED <<phase, displaced, missed>>
        BY <3>6 DEF TurnAway, Stray, loopVars
      <4> QED BY <2>1, <3>2, <3>3, <4>1 DEF servoVars, OnSlope, Rest, Elapsed
    <3>7. CASE OpenNext \/ OpenFails \/ OpenSleeps \/ Signal \/ Stop
      <4>1. clock_state \in {"opening", "asleep"} \/ clock_state' = "closed"
        BY <3>7 DEF OpenNext, OpenFails, OpenSleeps, Signal, Stop, Succeeds, Fails,
                    Oversleeps, Awakes, Close
      <4> QED BY <2>3, <3>2, <4>1
    <3> QED BY <1>5, <3>4, <3>5, <3>6, <3>7 DEF Next
  <2> QED BY <1>1, <2>1, <2>2, <2>3 DEF SeedInv, servoVars
<1> QED BY <1>3, <1>4, <1>5

LEMMA SeedInvHolds == Spec => []SeedInv
  BY SeedInvInit, SeedInvStep, ControlInvHolds, PTL DEF Spec

\* Dividing a multiple of a by a multiple of a is dividing what they are multiples of.
LEMMA ScaledDivision ==
  ASSUME NEW a \in Nat \ {0}, NEW n \in Nat \ {0}, NEW b \in Int
  PROVE  /\ (a * b) \div (n * a) \in Int
         /\ 0 <= b - n * ((a * b) \div (n * a))
         /\ b - n * ((a * b) \div (n * a)) < n
<1> DEFINE q == (a * b) \div (n * a)
           r == (a * b) % (n * a)
<1>1. n * a \in Nat \ {0} /\ a * b \in Int
  OBVIOUS
<1>2. q \in Int /\ r \in 0 .. n * a - 1 /\ a * b = (n * a) * q + r
  BY <1>1, DivMod
<1> HIDE DEF q, r
<1>3. PICK w \in Int : w = b - n * q
  BY <1>2
<1>4. a * w = r
  BY <1>2, <1>3
<1>5. 0 <= a * w /\ a * w < a * n
  BY <1>1, <1>2, <1>4
<1>6. 0 <= w /\ w < n
  <2>1. CASE w < 0
    <3>1. -w \in Nat \ {0}
      BY <1>3, <2>1
    <3>2. a * (-w) > 0
      BY <3>1
    <3>3. a * (-w) = -(a * w)
      BY <1>3
    <3> QED BY <1>5, <3>2, <3>3, <1>3
  <2>2. CASE w >= n
    <3>1. w - n \in Nat
      BY <1>3, <2>2
    <3>2. a * (w - n) >= 0
      BY <3>1
    <3>3. a * (w - n) = a * w - a * n
      BY <1>3
    <3> QED BY <1>5, <3>2, <3>3, <1>3
  <2> QED BY <1>3, <2>1, <2>2
<1> QED BY <1>2, <1>3, <1>6 DEF q

\* Clamping brings two numbers no further apart.
LEMMA ClampedCloser ==
  ASSUME NEW a \in Int, NEW b \in Int
  PROVE  /\ Magnitude(Clamped(a) - Clamped(b)) \in Nat
         /\ Magnitude(a - b) \in Nat
         /\ Magnitude(Clamped(a) - Clamped(b)) <= Magnitude(a - b)
  BY Constants DEF Clamped, Magnitude

\* The sample that ends the window sees the slope: the integrator is seeded with
\* the frequency error and what was displaced, whatever was missed in between.
THEOREM SeedsAreSlopes == Spec => SeedIsSlope
<1> DEFINE Seeded ==
      count = 1 /\ count' = 2 =>
        LET periods == (age + Elapsed) \div SampleTime
            slope == slow - Applied + displaced \div periods
        IN periods * Magnitude(drift' - Clamped(slope)) < PhaseUnit + periods
<1>1. ControlInv /\ SeedInv /\ [Next]_vars => [Seeded]_vars
  <2> SUFFICES ASSUME ControlInv, SeedInv, Next, count = 1, count' = 2
               PROVE  LET periods == (age + Elapsed) \div SampleTime
                          slope == slow - Applied + displaced \div periods
                      IN periods * Magnitude(drift' - Clamped(slope)) < PhaseUnit + periods
    OBVIOUS
  <2>1. Track
    BY DEF Next, OpenNext, OpenFails, OpenSleeps, Signal, Stop, TurnAway, Stray,
           LoseSync, Synchronize, Miss, Jump, NoSample, servoVars
  <2>2. InLoop /\ Sample(Offset, Elapsed)
    BY <2>1 DEF Track, Accept, Receives
  <2>3. drift = 0 /\ OnSlope
    BY <2>2 DEF SeedInv, InLoop
  <2>4. drift' = Clamped(Estimate(Offset, age + Elapsed))
    BY <2>2 DEF Sample, FirstSample, WatchSample, AcquiringSample, StepSample, SlewSample,
                PiSample
  <2>5. PICK n \in Nat \ {0} :
          /\ age + Elapsed = n * SampleTime
          /\ 0 <= Rest(n) /\ Rest(n) < PhaseUnit
    BY <2>3 DEF OnSlope
  <2>6. /\ SampleTime \in Nat \ {0} /\ PhaseUnit \in Nat \ {0}
        /\ SampleTime * PhaseUnit = Giga /\ Giga \in Nat
    BY Constants, ControlAssumption
  <2>7. /\ phase \in Int /\ slow - Applied \in Int /\ displaced \in Int
        /\ offset0 \in Int /\ offset0 * PhaseUnit \in Int
    BY SlopeNumbers
  <2>8. (age + Elapsed) \div SampleTime = n
    <3> DEFINE k == (SampleTime * n) \div (1 * SampleTime)
    <3>1. k \in Int /\ 0 <= n - 1 * k /\ n - 1 * k < 1
      BY <2>5, <2>6, ScaledDivision
    <3>2. SampleTime * n = n * SampleTime /\ 1 * SampleTime = SampleTime
      BY <2>6
    <3>3. k = (age + Elapsed) \div SampleTime
      BY <2>5, <3>2
    <3> HIDE DEF k
    <3>4. k = n
      BY <3>1
    <3> QED BY <3>3, <3>4
  <2>9. Offset \in Int /\ phase % PhaseUnit \in 0 .. PhaseUnit - 1
        /\ phase = PhaseUnit * Offset + (phase % PhaseUnit)
    BY <2>6, <2>7, DivMod DEF Offset
  <2> DEFINE d == Offset - offset0
             b == PhaseUnit * d
             q == (SampleTime * b) \div (n * SampleTime)
             x == slow - Applied
             e == displaced \div n
             f == displaced % n
  <2>10. d \in Int /\ b \in Int
    BY <2>6, <2>7, <2>9
  <2>11. q \in Int /\ 0 <= b - n * q /\ b - n * q < n
    BY <2>6, <2>10, ScaledDivision
  <2>12. Estimate(Offset, age + Elapsed) = q
    <3>1. Estimate(Offset, n * SampleTime) = 0 + ((Giga - 0) * d) \div (n * SampleTime)
      BY <2>3 DEF Estimate
    <3>2. (Giga - 0) * d = SampleTime * b
      BY <2>6, <2>10
    <3> HIDE DEF b, d
    <3> QED BY <2>5, <2>11, <3>1, <3>2
  <2>13. e \in Int /\ f \in 0 .. n - 1 /\ displaced = n * e + f
    BY <2>7, DivMod
  <2>14. b - n * x = f + n * e + Rest(n) - (phase % PhaseUnit)
    <3>1. Rest(n) = phase - n * x - displaced - offset0 * PhaseUnit
      BY DEF Rest
    <3>2. b = PhaseUnit * Offset - offset0 * PhaseUnit
      BY <2>6, <2>7, <2>9
    <3>3. n * x \in Int /\ n * e \in Int
      BY <2>7, <2>13
    <3> DEFINE nx == n * x
               ne == n * e
               o == offset0 * PhaseUnit
               s == phase % PhaseUnit
               po == PhaseUnit * Offset
    <3>4. /\ Rest(n) = phase - nx - displaced - o /\ b = po - o /\ phase = po + s
          /\ displaced = ne + f /\ nx \in Int /\ ne \in Int /\ o \in Int /\ s \in Int
          /\ po \in Int
      BY <2>6, <2>7, <2>9, <2>13, <3>1, <3>2, <3>3
    <3> HIDE DEF nx, ne, o, s, po, b, f, e, x
    <3>5. b - nx = f + ne + Rest(n) - s
      BY <2>7, <2>13, <3>4
    <3> QED BY <3>5 DEF nx, ne, s
  <2> HIDE DEF b, d, q, e, f, x
  <2>15. x \in Int /\ n * (q - (x + e)) = n * q - n * x - n * e /\ n * q \in Int
         /\ n * x \in Int /\ n * e \in Int
    BY <2>7, <2>11, <2>13 DEF x
  <2>16. /\ n * (q - (x + e)) < PhaseUnit + n /\ -(PhaseUnit + n) < n * (q - (x + e))
    <3> DEFINE nx == n * x
               ne == n * e
               nq == n * q
               s == phase % PhaseUnit
               z == n * (q - (x + e))
    <3>1. /\ z = nq - nx - ne /\ b - nx = f + ne + Rest(n) - s
          /\ 0 <= b - nq /\ b - nq < n /\ f \in 0 .. n - 1
          /\ s \in 0 .. PhaseUnit - 1 /\ 0 <= Rest(n) /\ Rest(n) < PhaseUnit
          /\ nx \in Int /\ ne \in Int /\ nq \in Int /\ b \in Int
      BY <2>5, <2>9, <2>10, <2>11, <2>13, <2>14, <2>15
    <3>2. Rest(n) \in Int
      BY <2>7 DEF Rest
    <3>3. PhaseUnit \in Nat
      BY <2>6
    <3> HIDE DEF nx, ne, nq, s, z
    <3>4. z < PhaseUnit + n /\ -(PhaseUnit + n) < z
      BY <3>1, <3>2, <3>3
    <3> QED BY <3>4 DEF z
  <2>17. n * Magnitude(q - (x + e)) < PhaseUnit + n
    <3> DEFINE y == q - (x + e)
    <3>1. y \in Int
      BY <2>11, <2>13, <2>15
    <3>2. n * (-y) = -(n * y) /\ n * y \in Int
      BY <3>1
    <3>3. n * y < PhaseUnit + n /\ -(PhaseUnit + n) < n * y
      BY <2>16
    <3> HIDE DEF y
    <3>4. n * Magnitude(y) < PhaseUnit + n
      BY <2>6, <3>1, <3>2, <3>3 DEF Magnitude
    <3> QED BY <3>4 DEF y
  <2>18. n * Magnitude(Clamped(q) - Clamped(x + e)) <= n * Magnitude(q - (x + e))
    <3>1. x + e \in Int
      BY <2>13, <2>15
    <3>2. \A v, w \in Nat : v <= w => n * v <= n * w
      OBVIOUS
    <3> QED BY <2>11, <3>1, <3>2, ClampedCloser
  <2>19. n * Magnitude(drift' - Clamped(x + e)) < PhaseUnit + n
    <3>1. drift' = Clamped(q)
      BY <2>4, <2>12
    <3>2. /\ Magnitude(Clamped(q) - Clamped(x + e)) \in Nat
          /\ Magnitude(q - (x + e)) \in Nat
      <4>1. x + e \in Int
        BY <2>13, <2>15
      <4> QED BY <2>11, <4>1, ClampedCloser
    <3>3. \A v \in Nat : n * v \in Nat
      OBVIOUS
    <3> QED BY <2>6, <2>17, <2>18, <3>1, <3>2, <3>3
  <2> QED BY <2>8, <2>19 DEF x, e
<1> QED BY <1>1, ControlInvHolds, SeedInvHolds, PTL DEF Spec, SeedIsSlope

-----------------------------------------------------------------------------
\* open() and close().

\* The calls of open(), one by one.
LEMMA Cm4Order ==
  /\ Len(Cm4Calls) = 26 /\ DOMAIN Cm4Calls = 1 .. 26
  /\ Cm4Calls[1] = "calloc"       /\ Cm4Calls[2] = "phc_open"
  /\ Cm4Calls[3] = "pwm_calloc"   /\ Cm4Calls[4] = "devmem"
  /\ Cm4Calls[5] = "GPIO"         /\ Cm4Calls[6] = "PWM"
  /\ Cm4Calls[7] = "CLK"          /\ Cm4Calls[8] = "pwm_clock"
  /\ Cm4Calls[9] = "prepare"      /\ Cm4Calls[10] = "on_second"
  /\ Cm4Calls[11] = "cs2600_open" /\ Cm4Calls[12] = "check_id"
  /\ Cm4Calls[13] = "reset"       /\ Cm4Calls[14] = "mode"
  /\ Cm4Calls[15] = "ratio_high"  /\ Cm4Calls[16] = "ratio_low"
  /\ Cm4Calls[17] = "reference"   /\ Cm4Calls[18] = "bandwidth"
  /\ Cm4Calls[19] = "dividers"    /\ Cm4Calls[20] = "outputs"
  /\ Cm4Calls[21] = "alignment"   /\ Cm4Calls[22] = "PLL_EN1"
  /\ Cm4Calls[23] = "PLL_EN2"     /\ Cm4Calls[24] = "wait_lock"
  /\ Cm4Calls[25] = "pin_setfunc" /\ Cm4Calls[26] = "extts_enable"
  BY DEF Cm4Calls, Registers

LEMMA Rp1Order ==
  /\ Len(Rp1Calls) = 9 /\ DOMAIN Rp1Calls = 1 .. 9
  /\ Rp1Calls[1] = "calloc"     /\ Rp1Calls[2] = "tai_offset"
  /\ Rp1Calls[3] = "chip"       /\ Rp1Calls[4] = "line"
  /\ Rp1Calls[5] = "rp1_calloc" /\ Rp1Calls[6] = "devmem"
  /\ Rp1Calls[7] = "clocks_main" /\ Rp1Calls[8] = "rp1_clock"
  /\ Rp1Calls[9] = "enable"
  BY DEF Rp1Calls

\* Each is made at one place, as far as it matters which.
LEMMA Cm4Call ==
  ASSUME backend = "cm4", at \in DOMAIN Calls
  PROVE  /\ Len(Calls) = 26 /\ at \in 1 .. 26
         /\ Place("phc_open") = 2 /\ Place("pwm_clock") = 8
         /\ Call = "phc_open" <=> at = 2
         /\ Call = "pwm_calloc" <=> at = 3
         /\ Call \in Maps <=> at \in 4 .. 7
         /\ Call = "pwm_clock" <=> at = 8
         /\ Call = "prepare" <=> at = 9
         /\ Call = "on_second" <=> at = 10
         /\ Call = "reset" <=> at = 13
         /\ at \in 14 .. 23 => Call = Registers[at - 13]
         /\ Call \in {Registers[i] : i \in DOMAIN Registers} <=> at \in 14 .. 23
         /\ Call = "pin_setfunc" <=> at = 25
         /\ Call = "extts_enable" <=> at = 26
         /\ Call \notin {"chip", "line", "rp1_calloc", "rp1_clock", "enable"}
<1>1. Calls = Cm4Calls
  BY DEF Calls
<1>2. /\ \A i \in 1 .. 26 : Calls[i] = "phc_open" <=> i = 2
      /\ \A i \in 1 .. 26 : Calls[i] = "pwm_clock" <=> i = 8
  BY <1>1, Cm4Order
<1>3. Place("phc_open") = 2 /\ Place("pwm_clock") = 8
  BY <1>1, <1>2, Cm4Order DEF Place
<1>4. DOMAIN Registers = 1 .. 10
  BY DEF Registers
<1>5. \A i \in 1 .. 10 : Calls[13 + i] = Registers[i]
  BY <1>1, Cm4Order DEF Registers
<1>6. at \in 14 .. 23 => at - 13 \in 1 .. 10 /\ at = 13 + (at - 13)
  OBVIOUS
<1>7. at \in 14 .. 23 => Call = Registers[at - 13]
  BY <1>5, <1>6 DEF Call
<1>8. at \in 1 .. 26
  BY <1>1, Cm4Order
<1>9. Call \in {Registers[i] : i \in DOMAIN Registers} <=> at \in 14 .. 23
  <2>1. at \in 14 .. 23 => Call \in {Registers[i] : i \in DOMAIN Registers}
    BY <1>4, <1>6, <1>7
  <2>2. ASSUME NEW i \in 1 .. 10, Call = Registers[i]
        PROVE  at \in 14 .. 23
    BY <1>1, <1>8, <2>2, Cm4Order DEF Call, Registers
  <2> QED BY <1>4, <2>1, <2>2
<1>10. /\ Call = "phc_open" <=> at = 2
       /\ Call = "pwm_calloc" <=> at = 3
       /\ Call = "pwm_clock" <=> at = 8
       /\ Call = "prepare" <=> at = 9
       /\ Call = "on_second" <=> at = 10
       /\ Call = "reset" <=> at = 13
       /\ Call = "pin_setfunc" <=> at = 25
       /\ Call = "extts_enable" <=> at = 26
       /\ Call \notin {"chip", "line", "rp1_calloc", "rp1_clock", "enable"}
  BY <1>1, <1>8, Cm4Order DEF Call
<1>11. Call \in Maps <=> at \in 4 .. 7
  BY <1>1, <1>8, Cm4Order DEF Call, Maps
<1> QED BY <1>1, <1>3, <1>7, <1>8, <1>9, <1>10, <1>11, Cm4Order

LEMMA Rp1Call ==
  ASSUME backend = "rpi5", at \in DOMAIN Calls
  PROVE  /\ Len(Calls) = 9 /\ at \in 1 .. 9
         /\ Place("rp1_clock") = 8
         /\ Call = "chip" <=> at = 3
         /\ Call = "line" <=> at = 4
         /\ Call = "rp1_calloc" <=> at = 5
         /\ Call \in Maps <=> at \in 6 .. 7
         /\ Call = "rp1_clock" <=> at = 8
         /\ Call = "enable" <=> at = 9
         /\ Call \notin {"phc_open", "pwm_calloc", "pwm_clock", "prepare", "on_second",
                         "reset", "pin_setfunc", "extts_enable"}
         /\ Call \notin {Registers[i] : i \in DOMAIN Registers}
<1>1. Calls = Rp1Calls
  BY DEF Calls
<1>2. \A i \in 1 .. 9 : Calls[i] = "rp1_clock" <=> i = 8
  BY <1>1, Rp1Order
<1>3. Place("rp1_clock") = 8
  BY <1>1, <1>2, Rp1Order DEF Place
<1>4. at \in 1 .. 9
  BY <1>1, Rp1Order
<1>5. /\ Call = "chip" <=> at = 3
      /\ Call = "line" <=> at = 4
      /\ Call = "rp1_calloc" <=> at = 5
      /\ Call = "rp1_clock" <=> at = 8
      /\ Call = "enable" <=> at = 9
      /\ Call \notin {"phc_open", "pwm_calloc", "pwm_clock", "prepare", "on_second",
                      "reset", "pin_setfunc", "extts_enable"}
  BY <1>1, <1>4, Rp1Order DEF Call
<1>6. Call \in Maps <=> at \in 6 .. 7
  BY <1>1, <1>4, Rp1Order DEF Call, Maps
<1>7. Call \notin {Registers[i] : i \in DOMAIN Registers}
  <2>1. ASSUME NEW i \in 1 .. 10 PROVE Call # Registers[i]
    BY <1>1, <1>4, Rp1Order DEF Call, Registers
  <2>2. DOMAIN Registers = 1 .. 10
    BY DEF Registers
  <2> QED BY <2>1, <2>2
<1> QED BY <1>1, <1>3, <1>4, <1>5, <1>6, <1>7, Rp1Order

\* What the process is with its clock.
OpenInv ==
  /\ backend \in {"cm4", "rpi5"}
  /\ clock_state \in {"opening", "asleep", "open", "closed"}
  /\ at \in DOMAIN Calls
  /\ clock_state = "asleep" => Call = "on_second"
  /\ clock_state = "open" => at = Len(Calls)
  /\ armed \in BOOLEAN /\ unheard \in BOOLEAN
  /\ owned \subseteq Resources

\* What it holds follows from the calls it has made, until the clock is closed.
HeldInv ==
  clock_state # "closed" =>
    /\ "phc_open" \in owned <=> backend = "cm4" /\ at > 2
    /\ "pwm_clock" \in owned <=> backend = "cm4" /\ at > 8
    /\ "rp1_clock" \in owned <=> backend = "rpi5" /\ at > 8
    /\ "chip" \in owned => backend = "rpi5" /\ at = 4
    /\ "pwm_calloc" \in owned => backend = "cm4" /\ at > 3
    /\ "rp1_calloc" \in owned => backend = "rpi5" /\ at > 5
    /\ owned \cap Maps # {} => (backend = "cm4" /\ at > 4) \/ at > 6

\* And so does what the multiplier was told.
ChipInv ==
  /\ MultiplierTypeOK
  /\ clock_state # "closed" =>
       /\ known <=> backend = "cm4" /\ at > 13
       /\ known =>
            /\ \A i \in DOMAIN Registers : at > 13 + i => Registers[i] \in programmed
            /\ "PLL_EN1" \in enabled <=> at > 22
            /\ "PLL_EN2" \in enabled <=> at > 23
  /\ known /\ enabled # {} => Configuration \subseteq programmed

\* And the outputs.
OutputInv ==
  /\ clock_state # "closed" /\ backend = "cm4" =>
       /\ at > 9 => clock = "running"
       /\ at > 10 => output
  /\ clock_state = "open" =>
       IF backend = "cm4" THEN armed ELSE oe /\ gp0 = "ours" /\ pll # "off"

BackendInv == OpenInv /\ HeldInv /\ ChipInv /\ OutputInv /\ NothingLeft

LEMMA BackendInvInit == Init => BackendInv
<1> SUFFICES ASSUME BackendInit PROVE BackendInv
  BY DEF Init
<1>1. OpenInv
  <2>1. at \in DOMAIN Calls
    BY Cm4Order, Rp1Order DEF BackendInit, Calls
  <2> QED BY <2>1 DEF BackendInit, OpenInv
<1>2. HeldInv /\ OutputInv /\ NothingLeft
  BY DEF BackendInit, HeldInv, OutputInv, NothingLeft
<1>3. ChipInv
  <2>1. known = FALSE /\ programmed = {} /\ enabled \in {{}, Enables} /\ at = 1
    BY DEF BackendInit, MultiplierInit
  <2>2. MultiplierTypeOK
    BY <2>1 DEF MultiplierTypeOK
  <2> QED BY <2>1, <2>2 DEF ChipInv
<1> QED BY <1>1, <1>2, <1>3 DEF BackendInv

\* What a step may do to the clock.
LEMMA ClockMoves ==
  ASSUME [Next]_vars
  PROVE  \/ Succeeds \/ Fails \/ Oversleeps \/ Awakes \/ Close
         \/ Adjust(last_freq')
         \/ UNCHANGED clockVars
  BY DEF Next, OpenNext, OpenFails, OpenSleeps, Signal, Stop, TurnAway, Stray, Track,
         LoseSync, Synchronize, Miss, Jump, NoSample, vars

\* A register written in its turn.
LEMMA RegisterWritten ==
  ASSUME ChipInv, backend = "cm4", clock_state = "opening", at \in 14 .. 23,
         WriteRegister(Registers[at - 13])
  PROVE  /\ MultiplierTypeOK' /\ known'
         /\ \A j \in DOMAIN Registers : at + 1 > 13 + j => Registers[j] \in programmed'
         /\ "PLL_EN1" \in enabled' <=> at + 1 > 22
         /\ "PLL_EN2" \in enabled' <=> at + 1 > 23
         /\ enabled' # {} => Configuration \subseteq programmed'
<1> DEFINE i == at - 13
           r == Registers[i]
<1>1. /\ i \in 1 .. 10 /\ DOMAIN Registers = 1 .. 10
      /\ r \in Configuration \cup Enables
      /\ r = "mode" <=> i = 1
      /\ r = "PLL_EN1" <=> i = 9
      /\ r = "PLL_EN2" <=> i = 10
  BY DEF Registers, Configuration, Enables
<1>2. /\ programmed' = programmed \cup {r} /\ known' = known
      /\ i = 1 => enabled' = enabled \ {"PLL_EN2"}
      /\ i \in 2 .. 8 => enabled' = enabled
      /\ i \in 9 .. 10 => enabled' = enabled \cup {r}
  BY <1>1 DEF WriteRegister, Enables
<1>3. /\ known /\ MultiplierTypeOK
      /\ \A j \in 1 .. 10 : at > 13 + j => Registers[j] \in programmed
      /\ "PLL_EN1" \in enabled <=> at > 22
      /\ "PLL_EN2" \in enabled <=> at > 23
  BY <1>1 DEF ChipInv
<1>4. \A j \in 1 .. 10 : at + 1 > 13 + j => Registers[j] \in programmed'
  <2> SUFFICES ASSUME NEW j \in 1 .. 10, at + 1 > 13 + j PROVE Registers[j] \in programmed'
    OBVIOUS
  <2>1. CASE j = i
    BY <1>2, <2>1
  <2>2. CASE j # i
    BY <1>2, <1>3, <2>2
  <2> QED BY <2>1, <2>2
<1>5. MultiplierTypeOK'
  <2>1. known' \in BOOLEAN /\ programmed' \subseteq Configuration \cup Enables
    BY <1>1, <1>2, <1>3 DEF MultiplierTypeOK
  <2>2. i \in 9 .. 10 => r \in Enables
    BY <1>1 DEF Enables
  <2>3. i = 1 \/ i \in 2 .. 8 \/ i \in 9 .. 10
    BY <1>1
  <2>4. enabled' \subseteq Enables
    BY <1>2, <1>3, <2>2, <2>3 DEF MultiplierTypeOK
  <2> QED BY <2>1, <2>4 DEF MultiplierTypeOK
<1>6. /\ "PLL_EN1" \in enabled' <=> at + 1 > 22
      /\ "PLL_EN2" \in enabled' <=> at + 1 > 23
  BY <1>1, <1>2, <1>3
<1>7. enabled' # {} => Configuration \subseteq programmed'
  <2>0. enabled' \subseteq {"PLL_EN1", "PLL_EN2"}
    BY <1>5 DEF MultiplierTypeOK, Enables
  <2>1. enabled' # {} => at + 1 > 22
    <3>1. "PLL_EN2" \in enabled' => at + 1 > 22
      BY <1>6
    <3> QED BY <1>6, <2>0, <3>1
  <2>2. ASSUME NEW c \in Configuration, at + 1 > 22 PROVE c \in programmed'
    <3>1. PICK j \in 1 .. 10 : c = Registers[j]
      BY <1>1 DEF Configuration
    <3>2. Registers[9] \in Enables /\ Registers[10] \in Enables /\ c \notin Enables
      BY DEF Configuration, Registers, Enables
    <3>3. j <= 8
      BY <3>1, <3>2
    <3> QED BY <1>4, <2>2, <3>1, <3>3
  <2> QED BY <2>1, <2>2
<1> HIDE DEF i, r
<1> QED BY <1>1, <1>2, <1>3, <1>4, <1>5, <1>6, <1>7

LEMMA SucceedsStep ==
  ASSUME BackendInv, Succeeds
  PROVE  BackendInv'
<1> USE DEF BackendInv
<1>1. /\ clock_state = "opening" /\ backend' = backend /\ unheard' = unheard
      /\ Calls' = Calls /\ at \in DOMAIN Calls
      /\ \/ at = Len(Calls) /\ clock_state' = "open" /\ at' = at
         \/ at # Len(Calls) /\ clock_state' = "opening" /\ at' = at + 1
  BY DEF Succeeds, Calls, OpenInv
<1>2. owned' = Gained(Call)
  BY DEF Succeeds
<1>3. CASE backend = "cm4"
  <2>1. OpenInv'
    <3>1. owned' \subseteq Resources
      BY <1>2 DEF Gained, OpenInv, Resources
    <3>2. at' \in DOMAIN Calls'
      BY <1>1, <1>3, Cm4Order DEF Calls
    <3>3. armed' \in BOOLEAN
      BY DEF Succeeds, OpenInv
    <3>4. clock_state' = "open" => at' = Len(Calls')
      BY <1>1
    <3> QED BY <1>1, <3>1, <3>2, <3>3, <3>4 DEF OpenInv
  <2>2. HeldInv'
    BY <1>1, <1>2, <1>3, Cm4Call DEF Gained, HeldInv, Resources
  <2>3. ChipInv'
    <3>1. at \in 1 .. 26 /\ (Call = "reset" <=> at = 13)
      BY <1>1, <1>3, Cm4Call
    <3>2. Multiplier(Call)
      BY DEF Succeeds
    <3>3. CASE at <= 12 \/ at >= 24
      <4>1. UNCHANGED multiplierVars
        BY <1>1, <1>3, <3>1, <3>2, <3>3, Cm4Call DEF Multiplier
      <4>2. clock_state' # "closed" /\ at' \in Int /\ at' >= at /\ (at <= 12 => at' <= 13)
        BY <1>1, <1>3, <3>1, Cm4Call
      <4>3. MultiplierTypeOK' /\ UNCHANGED <<known, programmed, enabled>>
        BY <4>1 DEF multiplierVars, ChipInv, MultiplierTypeOK
      <4>4. CASE at <= 12
        <5>1. ~known
          BY <1>1, <3>1, <4>4 DEF ChipInv
        <5> QED BY <3>1, <4>2, <4>3, <4>4, <5>1 DEF ChipInv
      <4>5. CASE at >= 24
        <5>1. \A i \in DOMAIN Registers : at > 13 + i
          BY <3>1, <4>5 DEF Registers
        <5>2. /\ known /\ \A i \in DOMAIN Registers : Registers[i] \in programmed
              /\ "PLL_EN1" \in enabled /\ "PLL_EN2" \in enabled
              /\ enabled # {} => Configuration \subseteq programmed
          <6>1. known
            BY <1>1, <1>3, <3>1, <4>5 DEF ChipInv
          <6>2. "PLL_EN1" \in enabled /\ "PLL_EN2" \in enabled
            BY <1>1, <3>1, <4>5, <6>1 DEF ChipInv
          <6>3. \A i \in DOMAIN Registers : Registers[i] \in programmed
            BY <1>1, <5>1, <6>1 DEF ChipInv
          <6>4. enabled # {} => Configuration \subseteq programmed
            BY <6>1 DEF ChipInv
          <6> QED BY <6>1, <6>2, <6>3, <6>4
        <5>3. at' > 23
          BY <3>1, <4>2, <4>5
        <5>4. backend' = "cm4"
          BY <1>1, <1>3
        <5> QED BY <4>2, <4>3, <5>2, <5>3, <5>4 DEF ChipInv
      <4> QED BY <3>3, <4>4, <4>5
    <3>4. CASE at = 13
      <4>1. ResetMultiplier /\ at' = 14
        BY <1>1, <1>3, <3>1, <3>2, <3>4, Cm4Call DEF Multiplier
      <4> QED BY <1>1, <1>3, <4>1
              DEF ResetMultiplier, AfterReset, ChipInv, MultiplierTypeOK, Registers
    <3>5. CASE at \in 14 .. 23
      <4>1. WriteRegister(Registers[at - 13]) /\ at' = at + 1
        BY <1>1, <1>3, <3>1, <3>2, <3>5, Cm4Call DEF Multiplier
      <4>2. /\ MultiplierTypeOK' /\ known'
            /\ \A j \in DOMAIN Registers : at' > 13 + j => Registers[j] \in programmed'
            /\ "PLL_EN1" \in enabled' <=> at' > 22
            /\ "PLL_EN2" \in enabled' <=> at' > 23
            /\ enabled' # {} => Configuration \subseteq programmed'
        BY <1>1, <1>3, <3>5, <4>1, RegisterWritten
      <4>3. backend' = "cm4" /\ at' > 13
        BY <1>1, <1>3, <3>5, <4>1
      <4> QED BY <4>2, <4>3 DEF ChipInv
    <3> QED BY <3>1, <3>3, <3>4, <3>5
  <2>4. OutputInv'
    <3>1. Pwm(Call) /\ (Call = "extts_enable" => armed' = TRUE)
      BY DEF Succeeds
    <3>2. /\ at \in 1 .. 26 /\ Len(Calls) = 26
          /\ Call = "pwm_clock" <=> at = 8
          /\ Call = "prepare" <=> at = 9
          /\ Call = "on_second" <=> at = 10
          /\ Call = "extts_enable" <=> at = 26
      BY <1>1, <1>3, Cm4Call
    <3>3. /\ at = 9 => clock' = "running"
          /\ at > 9 => clock' = clock
          /\ at = 10 => output' = TRUE
          /\ at > 10 => output' = output
      BY <3>1, <3>2 DEF Pwm, RoutePin, Prepare, EnableOutput, pwmVars
    <3> QED BY <1>1, <1>3, <3>1, <3>2, <3>3 DEF OutputInv
  <2>5. NothingLeft'
    BY <1>1 DEF NothingLeft
  <2> QED BY <2>1, <2>2, <2>3, <2>4, <2>5
<1>4. CASE backend = "rpi5"
  <2>1. OpenInv'
    <3>1. owned' \subseteq Resources
      BY <1>2 DEF Gained, OpenInv, Resources
    <3>2. at' \in DOMAIN Calls'
      BY <1>1, <1>4, Rp1Order DEF Calls
    <3>3. armed' \in BOOLEAN
      BY DEF Succeeds, OpenInv
    <3>4. clock_state' = "open" => at' = Len(Calls')
      BY <1>1
    <3> QED BY <1>1, <3>1, <3>2, <3>3, <3>4 DEF OpenInv
  <2>2. HeldInv'
    BY <1>1, <1>2, <1>4, Rp1Call DEF Gained, HeldInv, Resources
  <2>3. ChipInv'
    <3>1. UNCHANGED multiplierVars
      BY <1>4, <1>1, Rp1Call DEF Succeeds, Multiplier
    <3> QED BY <1>1, <1>4, <3>1 DEF ChipInv, multiplierVars, MultiplierTypeOK
  <2>4. OutputInv'
    BY <1>1, <1>4, Rp1Call DEF Succeeds, Rp1, EnableClocks, OutputInv
  <2>5. NothingLeft'
    BY <1>1 DEF NothingLeft
  <2> QED BY <2>1, <2>2, <2>3, <2>4, <2>5
<1> QED BY <1>3, <1>4 DEF OpenInv

\* The other steps of open(), and adjust().
LEMMA SleepStep ==
  ASSUME BackendInv,
         Oversleeps \/ Awakes \/ Adjust(last_freq') \/ UNCHANGED clockVars
  PROVE  BackendInv'
<1> USE DEF BackendInv
<1>1. CASE Oversleeps
  <2>1. /\ clock_state = "opening" /\ Call = "on_second" /\ clock_state' = "asleep"
        /\ UNCHANGED <<backend, at, owned, armed, unheard, pwmVars, multiplierVars, rp1Vars>>
    BY <1>1 DEF Oversleeps
  <2> QED BY <2>1 DEF OpenInv, HeldInv, ChipInv, MultiplierTypeOK, OutputInv, NothingLeft,
                      Calls, Call, pwmVars, multiplierVars, rp1Vars
<1>2. CASE Awakes
  <2>1. /\ clock_state = "asleep" /\ clock_state' = "opening" /\ at' = at + 1
        /\ output' = TRUE /\ clock' = clock
        /\ UNCHANGED <<backend, owned, armed, unheard, known, programmed, enabled>>
    BY <1>2 DEF Awakes, EnableOutput, multiplierVars
  <2>2. backend = "cm4" /\ at = 10 /\ DOMAIN Calls = 1 .. 26 /\ Calls' = Calls
    BY <2>1, Cm4Call, Rp1Call, Cm4Order DEF OpenInv, Calls
  <2>3. OpenInv' /\ HeldInv' /\ OutputInv' /\ NothingLeft'
    BY <2>1, <2>2 DEF OpenInv, HeldInv, OutputInv, NothingLeft
  <2>4. ChipInv'
    BY <2>1, <2>2 DEF ChipInv, MultiplierTypeOK, Registers
  <2> QED BY <2>3, <2>4
<1>3. CASE Adjust(last_freq')
  <2>1. /\ clock_state = "open"
        /\ UNCHANGED <<backendVars, multiplierVars, output, clock, pll, gp0, oe>>
    BY <1>3 DEF Adjust, AdjustPwm, AdjustPll, OpenInv, pwmVars, rp1Vars
  <2> QED BY <2>1 DEF OpenInv, HeldInv, ChipInv, MultiplierTypeOK, OutputInv, NothingLeft,
                      Calls, Call, backendVars, multiplierVars
<1>4. CASE UNCHANGED clockVars
  <2>1. UNCHANGED <<backend, clock_state, at, owned, armed, unheard, known, programmed,
                    enabled, output, clock, frac, pll, gp0, oe>>
    BY <1>4 DEF clockVars, backendVars, pwmVars, multiplierVars, rp1Vars
  <2>2. OpenInv' /\ HeldInv'
    BY <2>1 DEF OpenInv, HeldInv, Calls, Call
  <2>3. ChipInv'
    BY <2>1 DEF ChipInv, MultiplierTypeOK
  <2>4. OutputInv' /\ NothingLeft'
    BY <2>1 DEF OutputInv, NothingLeft, Place, Calls
  <2> QED BY <2>2, <2>3, <2>4
<1> QED BY <1>1, <1>2, <1>3, <1>4

\* What ends the use of the clock leaves the facts of an open one aside.
LEMMA ClosedStep ==
  ASSUME BackendInv, clock_state' = "closed", UNCHANGED <<backend, at>>,
         Disarm, owned' = {}, NothingLeft',
         MultiplierTypeOK', known' /\ enabled' # {} => Configuration \subseteq programmed'
  PROVE  BackendInv'
<1>1. armed' \in BOOLEAN /\ unheard' \in BOOLEAN
  BY DEF Disarm, BackendInv, OpenInv
<1> QED BY <1>1 DEF BackendInv, OpenInv, HeldInv, ChipInv, OutputInv, Calls

\* close()
LEMMA CloseStep ==
  ASSUME BackendInv, Close
  PROVE  BackendInv'
<1> USE DEF BackendInv
<1>1. /\ clock_state = "open" /\ at = Len(Calls) /\ clock_state' = "closed"
      /\ UNCHANGED <<backend, at, multiplierVars>>
      /\ Disarm
      /\ owned' = owned \ ReleasedByClose
  BY DEF Close, OpenInv
<1>2. MultiplierTypeOK' /\ (known' /\ enabled' # {} => Configuration \subseteq programmed')
  BY <1>1 DEF ChipInv, MultiplierTypeOK, multiplierVars
<1>3. CASE backend = "cm4"
  <2>0. at = 26
    BY <1>1, <1>3, Cm4Call DEF OpenInv
  <2>1. /\ "pwm_clock" \in owned /\ "phc_open" \in owned
        /\ "rp1_clock" \notin owned /\ "chip" \notin owned /\ "rp1_calloc" \notin owned
    BY <1>1, <1>3, <2>0 DEF HeldInv
  <2>2. owned' = {}
    BY <1>1, <2>1 DEF OpenInv, ReleasedByClose, Resources
  <2>3. NothingLeft'
    BY <1>1, <1>3, <2>1, <2>2 DEF NothingLeft, Close, StopClock, Disarm
  <2> QED BY <1>1, <1>2, <2>2, <2>3, ClosedStep
<1>4. CASE backend = "rpi5"
  <2>0. at = 9
    BY <1>1, <1>4, Rp1Call DEF OpenInv
  <2>1. /\ "rp1_clock" \in owned
        /\ "pwm_clock" \notin owned /\ "chip" \notin owned /\ "pwm_calloc" \notin owned
    BY <1>1, <1>4, <2>0 DEF HeldInv
  <2>2. owned' = {}
    BY <1>1, <2>1 DEF OpenInv, ReleasedByClose, Resources
  <2>3. NothingLeft'
    BY <1>1, <1>4, <2>1, <2>2 DEF NothingLeft, Close, CleanUpClocks
  <2> QED BY <1>1, <1>2, <2>2, <2>3, ClosedStep
<1> QED BY <1>3, <1>4 DEF OpenInv

\* open() that fails
LEMMA FailsStep ==
  ASSUME BackendInv, Fails
  PROVE  BackendInv'
<1> USE DEF BackendInv
<1>1. /\ clock_state = "opening" /\ clock_state' = "closed"
      /\ UNCHANGED <<backend, at>>
      /\ Call \notin {"pwm_clock", "on_second"}
      /\ PwmFails(Call) /\ MultiplierFails(Call) /\ Rp1Fails(Call)
      /\ Disarm
      /\ owned' = (owned \ ReleasedByCall(Call)) \ ReleasedByClose
      /\ at \in DOMAIN Calls /\ owned \subseteq Resources
  BY DEF Fails, OpenInv
<1>2. CASE backend = "cm4"
  <2>1. owned' = {}
    BY <1>1, <1>2, Cm4Call DEF HeldInv, ReleasedByCall, ReleasedByClose, Resources
  <2>2. NothingLeft'
    <3>1. at > 2 => ~armed' \/ unheard'
      BY <1>1, <1>2, Cm4Call DEF HeldInv, Disarm
    <3>2. at > 8 => ~output' /\ clock' = "stopped"
      BY <1>1, <1>2, Cm4Call DEF HeldInv, PwmFails, PrepareFails, StopClock
    <3>3. Place("phc_open") = 2 /\ Place("pwm_clock") = 8
      BY <1>1, <1>2, Cm4Call
    <3>4. Place("phc_open")' = 2 /\ Place("pwm_clock")' = 8
      BY <1>1, <3>3 DEF Place, Calls
    <3> QED BY <1>1, <1>2, <2>1, <3>1, <3>2, <3>4 DEF NothingLeft
  <2>3. MultiplierTypeOK' /\ (known' /\ enabled' # {} => Configuration \subseteq programmed')
    <3>1. Multiplier(Call) \/ UNCHANGED multiplierVars
      BY <1>1 DEF MultiplierFails
    <3>2. CASE UNCHANGED multiplierVars
      BY <3>2 DEF ChipInv, MultiplierTypeOK, multiplierVars
    <3>3. CASE Call = "reset" /\ ResetMultiplier
      BY <3>3 DEF ResetMultiplier, AfterReset, MultiplierTypeOK
    <3>4. CASE at \in 14 .. 23 /\ WriteRegister(Registers[at - 13])
      BY <1>1, <1>2, <3>4, RegisterWritten
    <3> QED BY <1>1, <1>2, <3>1, <3>2, <3>3, <3>4, Cm4Call DEF Multiplier
  <2> QED BY <1>1, <2>1, <2>2, <2>3, ClosedStep
<1>3. CASE backend = "rpi5"
  <2>1. owned' = {}
    BY <1>1, <1>3, Rp1Call DEF HeldInv, ReleasedByCall, ReleasedByClose, Resources
  <2>2. NothingLeft'
    <3>1. at > 8 => frac' = 0 /\ ~oe' /\ gp0' = "off"
      BY <1>1, <1>3, Rp1Call DEF Rp1Fails, EnableFails
    <3>2. Place("rp1_clock")' = 8
      BY <1>1, <1>3, Rp1Call DEF Place, Calls
    <3> QED BY <1>1, <1>3, <2>1, <3>1, <3>2 DEF NothingLeft
  <2>3. UNCHANGED multiplierVars
    BY <1>1, <1>3, Rp1Call DEF MultiplierFails, Multiplier
  <2>4. MultiplierTypeOK' /\ (known' /\ enabled' # {} => Configuration \subseteq programmed')
    BY <2>3 DEF ChipInv, MultiplierTypeOK, multiplierVars
  <2> QED BY <1>1, <2>1, <2>2, <2>4, ClosedStep
<1> QED BY <1>2, <1>3 DEF OpenInv

LEMMA BackendInvHolds == Spec => []BackendInv
<1>1. BackendInv /\ [Next]_vars => BackendInv'
  BY ClockMoves, SucceedsStep, FailsStep, SleepStep, CloseStep
<1> QED BY <1>1, BackendInvInit, PTL DEF Spec

\* open() that failed, and close(), leave nothing behind, whatever failed.
THEOREM NothingIsLeft == Spec => []NothingLeft
<1>1. BackendInv => NothingLeft
  BY DEF BackendInv
<1> QED BY <1>1, BackendInvHolds, PTL

\* No half of the PLL runs before the configuration is complete, and a clock that is
\* open has been configured to its last call.
THEOREM PllIsConfigured == Spec => []PllConfigured
<1>1. BackendInv => PllConfigured
  <2> SUFFICES ASSUME BackendInv PROVE PllConfigured
    OBVIOUS
  <2>1. ASSUME clock_state = "open", backend = "cm4"
        PROVE  enabled = Enables /\ output /\ clock = "running"
    <3>1. at = 26
      BY <2>1, Cm4Call DEF BackendInv, OpenInv
    <3>2. "PLL_EN1" \in enabled /\ "PLL_EN2" \in enabled /\ enabled \subseteq Enables
      BY <2>1, <3>1 DEF BackendInv, ChipInv, MultiplierTypeOK
    <3>3. enabled = Enables
      BY <3>2 DEF Enables
    <3>4. output
      BY <2>1, <3>1 DEF BackendInv, OutputInv
    <3>5. clock = "running"
      BY <2>1, <3>1 DEF BackendInv, OutputInv
    <3> QED BY <3>3, <3>4, <3>5
  <2>2. known /\ enabled # {} => Configuration \subseteq programmed
    BY DEF BackendInv, ChipInv
  <2>3. /\ clock_state = "open" /\ backend = "cm4" => armed
        /\ clock_state = "open" /\ backend = "rpi5" => oe /\ gp0 = "ours" /\ pll # "off"
    BY DEF BackendInv, OutputInv
  <2> QED BY <2>1, <2>2, <2>3 DEF PllConfigured
<1> QED BY <1>1, BackendInvHolds, PTL

-----------------------------------------------------------------------------
\* The one report of a mismatch.

\* What is not a field of the profile, for report_mismatch().
Unreported == {"nothing", "length", "subtype", "stream_id"}

\* A datagram in which one field disagrees is reported for that field, the
\* first time, and no other datagram is.
LEMMA OneReport ==
  ASSUME NEW odd \in Oddities, NEW r, NEW mode
  PROVE  Reported(r, Datagram(odd), CrfChecks, mode) =
           IF r = "nothing" /\ odd \notin Unreported THEN odd ELSE r
<1> DEFINE d == Datagram(odd)
<1>1. /\ d.odd = {odd} \ Unreported
      /\ d.length = (odd # "length") /\ d.subtype = (odd # "subtype")
      /\ d.stream_id = (odd # "stream_id")
  BY DEF Datagram, Unreported
<1> HIDE DEF d
<1>2. CASE odd \in Unreported
  <2>1. Noted(d, CrfChecks, mode) = {}
    BY <1>1, <1>2 DEF Noted, Found
  <2> QED BY <1>2, <2>1 DEF Reported, d
<1>3. CASE odd \notin Unreported
  <2>1. PICK i \in DOMAIN CrfChecks : CrfChecks[i].field = odd
    BY <1>3, ControlAssumption DEF Unreported
  <2>2. \A j \in DOMAIN CrfChecks : CrfChecks[j].field = CrfChecks[i].field => j = i
    BY DEF CrfChecks
  <2>3. Found(d, CrfChecks) = {i} /\ i \in Int
    <3>1. i \in Int
      BY DEF CrfChecks
    <3> QED BY <1>1, <1>3, <2>1, <2>2, <3>1 DEF Found
  <2>4. Noted(d, CrfChecks, mode) = {i}
    BY <2>3 DEF Noted
  <2>5. LastNoted(d, CrfChecks, mode) = CrfChecks[i]
    BY <2>3, <2>4 DEF LastNoted
  <2>6. Verdict(d, CrfChecks, mode) \in {"PROFILE", "OK"}
    <3>1. d.length /\ d.subtype /\ d.stream_id
      BY <1>1, <1>3 DEF Unreported
    <3> QED BY <3>1 DEF Verdict
  <2> QED BY <1>3, <2>1, <2>4, <2>5, <2>6 DEF Reported, d
<1> QED BY <1>2, <1>3

ReportInv ==
  /\ strict \in BOOLEAN
  /\ oddity \in Oddities
  /\ seen \subseteq Oddities
  /\ reported \in Oddities \cup {"nothing"}
  /\ MismatchReported

LEMMA ReportInvHolds == Spec => []ReportInv
<1>1. Init => ReportInv
  BY DEF Init, ReportInv, MismatchReported
<1>2. ReportInv /\ [Next]_vars => ReportInv'
  <2> SUFFICES ASSUME ReportInv, [Next]_vars PROVE ReportInv'
    OBVIOUS
  <2>1. CASE UNCHANGED parseVars
    BY <2>1 DEF ReportInv, MismatchReported, parseVars
  <2>2. ASSUME NEW odd \in Oddities, Receives(odd)
        PROVE  ReportInv'
    <3>1. /\ reported' = IF reported = "nothing" /\ odd \notin Unreported THEN odd ELSE reported
          /\ seen' = seen \cup {odd} /\ strict' = strict /\ oddity' = oddity
      BY <2>2, OneReport DEF Receives
    <3>2. (seen \ Unreported = {} => reported = "nothing")
          /\ (seen \ Unreported # {} => reported \in seen \ Unreported)
      BY DEF ReportInv, MismatchReported, Unreported
    <3>3. (seen' \ Unreported = {} => reported' = "nothing")
          /\ (seen' \ Unreported # {} => reported' \in seen' \ Unreported)
      BY <3>1, <3>2 DEF Unreported
    <3>4. MismatchReported'
      BY <3>3 DEF MismatchReported, Unreported
    <3> QED BY <3>1, <3>4 DEF ReportInv
  <2>3. UNCHANGED parseVars \/ \E odd \in Oddities : Receives(odd)
    BY DEF Next, OpenNext, OpenFails, OpenSleeps, Signal, Stop, TurnAway, Stray, Track,
           LoseSync, Synchronize, Miss, Jump, NoSample, vars, Accept, ReportInv
  <2> QED BY <2>1, <2>2, <2>3
<1> QED BY <1>1, <1>2, PTL DEF Spec

\* A receiver names a field of its stream just when one has disagreed, whether
\* the PDU was accepted or turned away, and never one of another stream.
THEOREM MismatchIsReported == Spec => []MismatchReported
<1>1. ReportInv => MismatchReported
  BY DEF ReportInv
<1> QED BY <1>1, ReportInvHolds, PTL

-----------------------------------------------------------------------------
\* Types.

\* The registers of either clock hold what they can.
DividersTyped ==
  /\ pin \in {"other", "pwm"}
  /\ output \in BOOLEAN
  /\ clock \in {"stopped", "running"}
  /\ word \in Nat
  /\ Rp1TypeOK

\* What is taken off a natural number to make it a multiple leaves one.
LEMMA Multiple ==
  ASSUME NEW n \in Nat, NEW M \in Nat \ {0}
  PROVE  n - (n % M) \in Nat
<1>1. /\ n % M \in 0 .. M - 1 /\ n \div M \in Int
      /\ n = M * (n \div M) + (n % M)
  BY DivMod
<1>2. n \div M >= 0
  <2> DEFINE q == n \div M
             r == n % M
  <2> HIDE DEF q, r
  <2>1. SUFFICES ASSUME q <= -1 PROVE FALSE
    BY <1>1 DEF q
  <2>2. M * q <= -M
    BY <1>1, <2>1 DEF q
  <2> QED BY <1>1, <2>2 DEF q, r
<1>3. M * (n \div M) >= 0
  BY <1>1, <1>2
<1> QED BY <1>1, <1>3

LEMMA AdjustTyped ==
  ASSUME DividersTyped, NEW ppb \in Int, Adjust(ppb), backend \in {"cm4", "rpi5"}
  PROVE  DividersTyped'
<1>1. CASE backend = "cm4"
  <2>1. AdjustPwm(ppb) /\ UNCHANGED rp1Vars
    BY <1>1 DEF Adjust
  <2>2. word' \in Nat
    <3>1. CASE OutOfRange(ppb)
      BY <2>1, <3>1 DEF AdjustPwm, DividersTyped
    <3>2. CASE ~OutOfRange(ppb)
      <4>1. Wanted(ppb) \in Nat
        BY <3>2, Constants DEF OutOfRange, Wanted
      <4>2. Wanted(ppb) - (Wanted(ppb) % Whole) \in Nat
        BY <4>1, Multiple, Constants
      <4>3. Code(Q(ppb)) \in Nat
        BY Constants DEF Code
      <4>4. Code(Q(ppb)) * Sub \in Nat
        <5>1. \A a, b \in Nat : a * b \in Nat
          OBVIOUS
        <5> QED BY <4>3, <5>1, Constants
      <4>5. word' = Wanted(ppb) - (Wanted(ppb) % Whole) + Code(Q(ppb)) * Sub
        BY <2>1, <3>2 DEF AdjustPwm
      <4> QED BY <4>2, <4>4, <4>5
    <3> QED BY <3>1, <3>2
  <2> QED BY <2>1, <2>2 DEF AdjustPwm, DividersTyped, Rp1TypeOK, rp1Vars
<1>2. CASE backend = "rpi5"
  <2>1. AdjustPll(ppb) /\ UNCHANGED pwmVars
    BY <1>2 DEF Adjust
  <2>2. CodesFor(ppb) \in Int
    BY NearestPllCode
  <2>3. frac' \in -Below .. Above
    BY <2>1, <2>2, Constants DEF AdjustPll, Within
  <2> QED BY <2>1, <2>3 DEF AdjustPll, DividersTyped, Rp1TypeOK, pwmVars
<1> QED BY <1>1, <1>2

\* The steps of open() and close() write constants.
LEMMA CallTyped ==
  ASSUME DividersTyped, NEW call,
         \/ Pwm(call) \/ PwmFails(call) \/ StopClock \/ EnableOutput \/ UNCHANGED pwmVars,
         \/ Rp1(call) \/ Rp1Fails(call) \/ CleanUpClocks \/ UNCHANGED rp1Vars
  PROVE  DividersTyped'
<1>1. Nominal - (Nominal % Sub) \in Nat
  BY Multiple, Constants
<1>2. /\ pin' \in {"other", "pwm"} /\ output' \in BOOLEAN
      /\ clock' \in {"stopped", "running"} /\ word' \in Nat
  BY <1>1 DEF DividersTyped, Pwm, PwmFails, RoutePin, Prepare, PrepareFails, EnableOutput,
              StopClock, pwmVars
<1>3. Rp1TypeOK'
  <2>1. 0 \in -Below .. Above
    BY Constants
  <2> QED BY <2>1 DEF DividersTyped, Rp1TypeOK, Rp1, Rp1Fails, ProgramPll, PllFails,
                      EnableClocks, EnableFails, CleanUpClocks, rp1Vars
<1> QED BY <1>2, <1>3 DEF DividersTyped

\* What the loop keeps of its own.
LoopTyped ==
  /\ running \in BOOLEAN
  /\ synchronized \in BOOLEAN
  /\ disturbances \in 0 .. MaxDisturbances
  /\ in_reach \in BOOLEAN

LEMMA LoopTypedStep ==
  ASSUME LoopTyped, [Next]_vars
  PROVE  LoopTyped'
<1>1. MaxDisturbances \in Nat
  BY ControlAssumption
<1> USE DEF LoopTyped
<1>2. CASE OpenNext \/ OpenFails \/ OpenSleeps \/ Signal \/ Stop \/ TurnAway \/ UNCHANGED vars
  BY <1>2 DEF OpenNext, OpenFails, OpenSleeps, Signal, Stop, TurnAway, Receives, vars, loopVars
<1>3. CASE Stray \/ Miss \/ Jump
  <2>1. disturbances' \in 0 .. MaxDisturbances
    BY <1>1, <1>3 DEF Stray, Miss, Jump
  <2>2. running' = running /\ synchronized' = synchronized
    BY <1>3 DEF Stray, Miss, Jump, NoSample, Receives
  <2>3. in_reach' \in BOOLEAN
    BY <1>3 DEF Stray, Miss, Jump, NoSample
  <2> QED BY <2>1, <2>2, <2>3
<1>4. CASE Track \/ LoseSync \/ Synchronize
  <2>1. in_reach' \in BOOLEAN
    <3>1. Reaches(drift') \in BOOLEAN
      BY DEF Reaches
    <3> QED BY <1>4, <3>1 DEF Track, LoseSync, Synchronize, NoSample
  <2> QED BY <1>4, <2>1 DEF Track, LoseSync, Synchronize, NoSample, Accept, Receives
<1> QED BY <1>2, <1>3, <1>4 DEF Next

\* The state is of its types, whatever fails.
THEOREM Typed == Spec => []TypeOK
<1>1. Init => DividersTyped /\ LoopTyped
  <2> SUFFICES ASSUME Init PROVE DividersTyped /\ LoopTyped
    OBVIOUS
  <2>1. 0 \in -Below .. Above /\ Above \in -Below .. Above /\ 0 \in 0 .. MaxDisturbances
    BY Constants, ControlAssumption
  <2>2. i2s \in BOOLEAN /\ oe \in BOOLEAN
    BY DEF Init, BackendInit, Rp1Init
  <2>3. Rp1TypeOK
    BY <2>1, <2>2 DEF Init, BackendInit, Rp1Init, Rp1TypeOK
  <2> QED BY <2>1, <2>3, Constants DEF Init, BackendInit, PwmInit, DividersTyped, LoopTyped
<1>2. ControlInv /\ ControlInv' /\ DividersTyped /\ [Next]_vars => DividersTyped'
  <2> SUFFICES ASSUME ControlInv, ControlInv', DividersTyped, [Next]_vars
               PROVE  DividersTyped'
    OBVIOUS
  <2>1. last_freq' \in Int /\ backend \in {"cm4", "rpi5"}
    BY DEF ControlInv, ServoTypeOK, LoopNumbers
  <2>2. CASE Adjust(last_freq')
    BY <2>1, <2>2, AdjustTyped
  <2>3. CASE Succeeds
    BY <2>3, CallTyped DEF Succeeds
  <2>4. CASE Fails
    BY <2>4, CallTyped DEF Fails
  <2>5. CASE Oversleeps \/ Awakes \/ UNCHANGED clockVars
    BY <2>5, CallTyped DEF Oversleeps, Awakes, clockVars
  <2>6. CASE Close
    BY <2>6, CallTyped DEF Close
  <2> QED BY <2>2, <2>3, <2>4, <2>5, <2>6, ClockMoves
<1>3. ControlInv /\ SeedInv /\ BackendInv /\ ReportInv /\ DividersTyped /\ LoopTyped => TypeOK
  <2> SUFFICES ASSUME ControlInv, SeedInv, BackendInv, ReportInv, DividersTyped, LoopTyped
               PROVE  TypeOK
    OBVIOUS
  <2>1. divf_err \in -Sub .. Sub /\ owed \in Int
    BY Constants DEF ControlInv, Owed
  <2>2. BackendTypeOK
    BY <2>1 DEF BackendInv, OpenInv, ChipInv, DividersTyped, BackendTypeOK, PwmTypeOK
  <2> QED BY <2>1, <2>2 DEF ControlInv, LoopNumbers, SeedInv, ReportInv, LoopTyped, TypeOK
<1> QED BY <1>1, <1>2, <1>3, LoopTypedStep, ControlInvHolds, SeedInvHolds, BackendInvHolds, ReportInvHolds,
           PTL DEF Spec

=============================================================================
