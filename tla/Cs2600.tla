------------------------------- MODULE Cs2600 -------------------------------
(***************************************************************************)
(* cs2600.c: the clock multiplier inside the control loop, as far as       *)
(* mc-bcm2711.c uses it: reset, an ordered sequence of register writes,    *)
(* and the wait for its lock.  Any transfer on the bus may fail, and the   *)
(* chip may or may not have taken a write that is reported as failed.      *)
(***************************************************************************)
EXTENDS Sequences

VARIABLES
  known,        \* it was reset since the process began to use it
  programmed,   \* the registers written since its reset
  enabled       \* the halves of its PLL that are on

multiplierVars == <<known, programmed, enabled>>

\* The sequence of cs2600_init_mult().  The last two enable the PLL.
Registers == <<"mode", "ratio_high", "ratio_low", "reference", "bandwidth",
               "dividers", "outputs", "alignment", "PLL_EN1", "PLL_EN2">>

Enables == {"PLL_EN1", "PLL_EN2"}

Configuration == {Registers[i] : i \in DOMAIN Registers} \ Enables

\* An earlier process left it running with a ratio of its own, or nobody
\* has touched it.
MultiplierInit ==
  /\ known = FALSE
  /\ programmed = {}
  /\ enabled \in {{}, Enables}

\* A defect the model can be run with: the PLL goes on as it was.
KeepsRunning == enabled

\* What a reset leaves of the PLL.
AfterReset == {}

\* cs2600_reset(): the write of SW_RESET has reached the chip.
ResetMultiplier ==
  /\ known' = TRUE
  /\ programmed' = {}
  /\ enabled' = AfterReset

\* One write of cs2600_apply() has.  PLL_CFG2 holds the mode and one of the
\* two enable bits.
WriteRegister(name) ==
  /\ programmed' = programmed \cup {name}
  /\ enabled' = CASE name = "mode"   -> enabled \ {"PLL_EN2"}
                  [] name \in Enables -> enabled \cup {name}
                  [] OTHER           -> enabled
  /\ UNCHANGED known

MultiplierTypeOK ==
  /\ known \in BOOLEAN
  /\ programmed \subseteq Configuration \cup Enables
  /\ enabled \subseteq Enables
=============================================================================
