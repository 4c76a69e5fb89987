------------------------------- MODULE AlsaPcm -------------------------------
(***************************************************************************)
(* The playback device of the Raspberry Pi listener, as alsa-util.c sets   *)
(* it up and aaf-listener-rpi.c uses it.  The device itself is external.   *)
(* Its state is a record: phase is "prepared", "running", "xrun" or        *)
(* "closed", and fill is the number of frames it has yet to play.          *)
(***************************************************************************)
EXTENDS Integers

CONSTANTS
  Buffer,       \* BUFFER_FRAMES, 4096
  Threshold,    \* start_threshold
  PduFrames     \* frames_per_pdu, 6

ASSUME PcmAssumption ==
  /\ PduFrames \in Nat \ {0}
  /\ Buffer \in Nat
  /\ Buffer > PduFrames
  /\ Threshold \in 1 .. Buffer

\* The device as alsa_open() leaves it, and as snd_pcm_recover() does.
Prepared == [phase |-> "prepared", fill |-> 0]

\* And as snd_pcm_close() does.
Closed == [phase |-> "closed", fill |-> 0]

\* snd_pcm_writei() of n frames, in a buffer that has room for some of them:
\* it starts the device once the threshold is reached.
Written(pcm, n) ==
  LET fill == IF pcm.fill + n > Buffer THEN Buffer ELSE pcm.fill + n
  IN [fill  |-> fill,
      phase |-> IF fill >= Threshold THEN "running" ELSE pcm.phase]

\* Defects the model can be run with: half of the buffer, or all of it.
HalfBuffer == Buffer \div 2
WholeBuffer == Buffer

\* The silence process_pdu() asks for: all of the buffer but a PDU's place.
PrefillFrames == Buffer - PduFrames

\* alsa_prefill_silence(), chunk by chunk until it is all written or a write
\* fails: in a device that has run dry, the first one.
Prefilled(pcm) ==
  IF pcm.phase = "xrun" THEN pcm ELSE Written(pcm, PrefillFrames)

\* The device plays a frame and stops when that was its last.
Played(pcm) ==
  IF pcm.phase # "running" THEN pcm
  ELSE [fill  |-> pcm.fill - 1,
        phase |-> IF pcm.fill = 1 THEN "xrun" ELSE "running"]

PcmStates == [phase : {"prepared", "running", "xrun", "closed"}, fill : 0 .. Buffer]
=============================================================================
