------------------------------ MODULE Rp1Clock ------------------------------
(***************************************************************************)
(* rp1-clock.c: pll_audio, whose fractional feedback divider steers the    *)
(* clock, the clocks below it, and the output on GPIO4.                    *)
(*                                                                         *)
(* The divider is counted in codes from the one of the nominal frequency;  *)
(* the integer part is that of the fraction.  Whether the selectors of     *)
(* clk_i2s and clk_gp0 follow is only logged, and left out.                *)
(***************************************************************************)
EXTENDS Integers

CONSTANTS
  Lsb,          \* ppb_per_lsb, in units of the servo
  MaxCodes,     \* max_codes
  Below, Above  \* the codes below frac_center and above it

ASSUME Rp1Assumption ==
  /\ Lsb \in Nat \ {0}
  /\ MaxCodes \in Nat
  /\ Below \in Nat
  /\ Above \in Nat

VARIABLES
  frac,       \* FBDIV_FRAC less frac_center
  pll,        \* pll_audio: "off", "unlocked" or "locked"
  i2s,        \* clk_i2s is enabled
  gp0,        \* clk_gp0: "off", or on with a divider, "stale" or "ours"
  oe          \* GP0_OE_BIT

rp1Vars == <<frac, pll, i2s, gp0, oe>>

\* The kernel, or a process that was killed, left it so.
Rp1Init ==
  /\ frac \in {0, Above}
  /\ pll \in {"off", "locked"}
  /\ gp0 \in {"off", "stale"}
  /\ i2s = (gp0 = "stale")
  /\ oe = (gp0 = "stale")

-----------------------------------------------------------------------------

\* rp1_clock_init(): a divider that is off target is set, and the lock waited
\* for, which a PLL without power does not give.
ProgramPll ==
  /\ frac # 0 => pll # "off"
  /\ frac' = 0
  /\ pll' = IF frac # 0 THEN "locked" ELSE pll
  /\ UNCHANGED <<i2s, gp0, oe>>

PllFails ==
  /\ frac # 0
  /\ frac' = 0
  /\ pll' = IF pll = "off" THEN "off" ELSE "unlocked"
  /\ UNCHANGED <<i2s, gp0, oe>>

\* rp1_clock_enable(): a PLL that has power is not waited for.  The divider of
\* clk_gp0 is written also when the clock is running.
EnableClocks ==
  /\ pll' = IF pll = "off" THEN "locked" ELSE pll
  /\ i2s' = TRUE
  /\ gp0' = "ours"
  /\ oe' = TRUE
  /\ UNCHANGED frac

Within(low, high, n) == IF n < low THEN low ELSE IF n > high THEN high ELSE n

\* lround(ppb / ppb_per_lsb)
CodesFor(ppb) ==
  IF ppb >= 0 THEN (2 * ppb + Lsb) \div (2 * Lsb)
              ELSE -((Lsb - 2 * ppb) \div (2 * Lsb))

\* A correction neither limit cuts.
InCodes(ppb) ==
  CodesFor(ppb) \in (-MaxCodes .. MaxCodes) \cap (-Below .. Above)

\* rp1_clock_adjust()
AdjustPll(ppb) ==
  /\ frac' = Within(-Below, Above, Within(-MaxCodes, MaxCodes, CodesFor(ppb)))
  /\ UNCHANGED <<pll, i2s, gp0, oe>>

\* rp1_clock_cleanup(): clk_i2s and pll_audio go on.
CleanUpClocks ==
  /\ frac' = 0
  /\ oe' = FALSE
  /\ gp0' = "off"
  /\ UNCHANGED <<pll, i2s>>

\* rp1_clock_enable() gives a PLL power, which does not lock: it gives up, and
\* its caller cleans up.
EnableFails ==
  /\ pll = "off"
  /\ pll' = "unlocked"
  /\ frac' = 0
  /\ oe' = FALSE
  /\ gp0' = "off"
  /\ UNCHANGED i2s

Rp1TypeOK ==
  /\ frac \in -Below .. Above
  /\ pll \in {"off", "unlocked", "locked"}
  /\ i2s \in BOOLEAN
  /\ gp0 \in {"off", "stale", "ours"}
  /\ oe \in BOOLEAN
=============================================================================
