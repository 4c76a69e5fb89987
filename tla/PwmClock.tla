------------------------------ MODULE PwmClock ------------------------------
(***************************************************************************)
(* bcm2711-pwm-clock.c: the PWM output, its clock, and the divider of that *)
(* clock, whose fraction is dithered to reach between its codes.           *)
(*                                                                         *)
(* A divider is counted in units of which Sub make one code and Sub *      *)
(* Codes a whole; the unit is the frequency unit of the servo, near enough *)
(* for the one per cent the divider may change.                            *)
(***************************************************************************)
EXTENDS Integers

CONSTANTS
  Codes,      \* the codes of the fraction: 2^12
  Sub,        \* units to a code
  Nominal     \* nominal_divider

ASSUME PwmAssumption ==
  /\ Codes \in Nat \ {0}
  /\ Sub \in Nat \ {0}
  /\ Nominal \in Nat \ {0}

VARIABLES
  pin,         \* the function of the GPIO pin: "other" or "pwm"
  output,      \* the PWM is enabled
  clock,       \* its clock: "stopped", "running"
  word,        \* what was last written to the divider, in units
  divf_err     \* the accumulator

pwmVars == <<pin, output, clock, word, divf_err>>

Whole == Codes * Sub

\* Whatever ran before may have left the hardware as it liked.
PwmInit ==
  /\ pin \in {"other", "pwm"}
  /\ output \in BOOLEAN
  /\ clock \in {"stopped", "running"}
  /\ word = Nominal
  /\ divf_err = 0

-----------------------------------------------------------------------------

\* bcm2711_pwm_clock_init(), its registers mapped.
RoutePin ==
  /\ pin' = "pwm"
  /\ UNCHANGED <<output, clock, word, divf_err>>

\* bcm2711_pwm_clock_prepare(): the output off, the clock killed and started
\* again with the nominal divider, cut to a code.  Whether the old clock stops
\* in time is not waited for.
Prepare ==
  /\ output' = FALSE
  /\ clock' = "running"
  /\ word' = Nominal - (Nominal % Sub)
  /\ UNCHANGED <<pin, divf_err>>

\* The clock does not report itself enabled.
PrepareFails ==
  /\ output' = FALSE
  /\ clock' = "stopped"
  /\ word' = Nominal - (Nominal % Sub)
  /\ UNCHANGED <<pin, divf_err>>

\* bcm2711_pwm_clock_enable()
EnableOutput ==
  /\ output' = TRUE
  /\ UNCHANGED <<pin, clock, word, divf_err>>

\* bcm2711_pwm_clock_stop(), for bcm2711_pwm_clock_cleanup()
StopClock ==
  /\ output' = FALSE
  /\ clock' = "stopped"
  /\ UNCHANGED <<pin, word, divf_err>>

-----------------------------------------------------------------------------

\* What a correction asks of the divider: a faster clock is divided by less.
Wanted(ppb) == Nominal - ppb

\* Turned down.
OutOfRange(ppb) ==
  \/ 100 * Wanted(ppb) < 99 * Nominal
  \/ 100 * Wanted(ppb) > 101 * Nominal

\* The fraction wanted and what earlier codes were short of theirs.
Q(ppb) == (Wanted(ppb) % Whole) + divf_err

\* lround(): to the nearest code, and away from zero when there are two.
Lround(q) ==
  IF q >= 0 THEN (2 * q + Sub) \div (2 * Sub)
            ELSE -((Sub - 2 * q) \div (2 * Sub))

\* The code, an unsigned int: a negative one is huge, and a huge one cut.
Code(q) ==
  IF Lround(q) \in 0 .. Codes - 1 THEN Lround(q) ELSE Codes - 1

\* A defect the model can be run with: the rest is forgotten.
Forgets(ppb) == 0

\* Another: it is added to the rest before, which Q() has counted.
CountsTwice(ppb) == divf_err + Q(ppb) - Code(Q(ppb)) * Sub

\* What this code is short of the fraction wanted.
Residue(ppb) == Q(ppb) - Code(Q(ppb)) * Sub

\* bcm2711_pwm_clock_adjust_freq()
AdjustPwm(ppb) ==
  /\ IF OutOfRange(ppb)
       THEN UNCHANGED <<word, divf_err>>
       ELSE /\ word' = Wanted(ppb) - (Wanted(ppb) % Whole) + Code(Q(ppb)) * Sub
            /\ divf_err' = Residue(ppb)
  /\ UNCHANGED <<pin, output, clock>>

PwmTypeOK ==
  /\ pin \in {"other", "pwm"}
  /\ output \in BOOLEAN
  /\ clock \in {"stopped", "running"}
  /\ word \in Nat
  /\ divf_err \in -Sub .. Sub

\* A fraction in reach of its code: the last half of the last code is not.
InReach(ppb) == Wanted(ppb) % Whole <= (Codes - 1) * Sub
=============================================================================
