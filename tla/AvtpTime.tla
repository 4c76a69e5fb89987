------------------------------ MODULE AvtpTime ------------------------------
(***************************************************************************)
(* examples/common.c: the presentation time of a sample and the avtp_time  *)
(* that stands for it in a PDU, its 32 less significant bits.              *)
(***************************************************************************)
EXTENDS Integers

CONSTANT Wrap     \* 2^32 nanoseconds, 4.29 s

ASSUME WrapAssumption == Wrap \in Nat \ {0}

-----------------------------------------------------------------------------

\* A defect the model can be run with: the time is not cut to 32 bits.
Uncut(ptime) == ptime

\* calculate_avtp_time(): ptime % (1ULL << 32)
ToAvtpTime(ptime) == ptime % Wrap

\* A defect the model can be run with: the high part is never incremented.
NoCarry(avtp_time, now) == now - (now % Wrap) + avtp_time

\* Another: it always is.
AlwaysCarry(avtp_time, now) == NoCarry(avtp_time, now) + Wrap

\* get_presentation_time(): the high part of the listener's clock with the low
\* part of the PDU, one Wrap later when that has already passed.
PresentationTime(avtp_time, now) ==
  LET ptime == now - (now % Wrap) + avtp_time
  IN IF ptime < now THEN ptime + Wrap ELSE ptime
=============================================================================
