----------------------------- MODULE MclkListener -----------------------------
(***************************************************************************)
(* crf-listener.c as an AAF listener: it recovers the media clock and      *)
(* checks each AAF PDU against the next timestamp of it.                   *)
(***************************************************************************)
EXTENDS MediaClock

VARIABLES
  heard,      \* its media clock
  aligned,    \* prev_state: the verdict on the last AAF PDU
  searching   \* TRUE when a look-up has no end

listenerVars == <<heard, aligned, searching>>

MclkListenerInit ==
  /\ heard = FreshClock
  /\ aligned = FALSE
  /\ searching = FALSE

\* handle_crf_pdu()
HandleCrf(ts_crf) ==
  /\ ~searching
  /\ heard' = Recovered(heard, ts_crf, 0)
  /\ UNCHANGED <<aligned, searching>>

\* No timestamp has been recovered yet: the clock counts from 0.
Blind == heard = FreshClock

\* A defect: once out of step, always looked up.
NeverLooksUp(avtp_time) == 1

\* The calls of get_next_mclk_timestamp() for an AAF PDU.
Calls(avtp_time) ==
  IF heard.need_lookup THEN LookupCalls(heard, avtp_time) ELSE 1

\* handle_aaf_pdu(); is_ts_aligned() allows a quarter of a sample, and two
\* timestamps of one clock are equal or a period apart.
HandleAaf(avtp_time) ==
  /\ ~searching
  /\ LET after == Advanced(heard, Calls(avtp_time))
     IN /\ heard' = [after EXCEPT !.need_lookup =
                                     ~heard.need_lookup /\ after.need_lookup]
        /\ aligned' = (after.prev % Wrap = avtp_time)
  /\ UNCHANGED searching

\* A look-up in a clock that counts from 0 meets the low part of a PTP time
\* or, when that is not on its grid, searches for ever.
SearchForEver ==
  /\ ~searching
  /\ Blind
  /\ searching' = TRUE
  /\ UNCHANGED <<heard, aligned>>
=============================================================================
