------------------------------ MODULE MediaClock ------------------------------
(***************************************************************************)
(* The media clock that crf-listener.c recovers from a CRF stream: a list  *)
(* of timestamps, one per period of the clock, and how it goes on when the *)
(* list runs dry.  The unit of time is MCLK_PERIOD: the maximum transit    *)
(* times are whole milliseconds, so every timestamp is a whole number of   *)
(* periods from the first.  An avtp_time is a timestamp modulo Wrap.       *)
(***************************************************************************)
EXTENDS Integers, SequencesExt, FiniteSetsExt

CONSTANTS
  PerCrf,     \* MCLKLIST_TS_PER_CRF, the periods from one CRF PDU to the next
  Wrap        \* how many periods it takes a low part to return

ASSUME MediaClockAssumption ==
  /\ PerCrf \in Nat \ {0}
  /\ Wrap \in Nat \ {0, 1}

\* mclk_timestamps, prev_mclk_timestamp and need_mclk_lookup
Clock == [list : Seq(Nat), prev : Nat, need_lookup : BOOLEAN]

FreshClock == [list |-> <<>>, prev |-> 0, need_lookup |-> TRUE]

\* The timestamp that the n-th call of get_next_mclk_timestamp() returns: from
\* the list while there is one, one period after the last one from then on.
NthTimestamp(clock, n) ==
  LET listed == Len(clock.list)
  IN IF n <= listed THEN clock.list[n]
     ELSE (IF listed = 0 THEN clock.prev ELSE Last(clock.list)) + (n - listed)

\* A defect: the freewheeled timestamp is not remembered.
Forgetful(clock, n) ==
  [list |-> SubSeq(clock.list, n + 1, Len(clock.list)),
   prev |-> IF n > Len(clock.list) THEN clock.prev ELSE NthTimestamp(clock, n),
   need_lookup |-> clock.need_lookup \/ n > Len(clock.list)]

\* The clock after n calls.
Advanced(clock, n) ==
  [list |-> SubSeq(clock.list, n + 1, Len(clock.list)),
   prev |-> NthTimestamp(clock, n),
   need_lookup |-> clock.need_lookup \/ n > Len(clock.list)]

\* The calls mclk_lookup() makes: until the low part is the one it looks for.
LookupCalls(clock, avtp_time) ==
  Min({n \in 1 .. Len(clock.list) + Wrap :
         NthTimestamp(clock, n) % Wrap = avtp_time})

\* The timestamps of one CRF PDU from `first' on.
From(first, ts) == [i \in 1 .. ts + PerCrf - first |-> first + i - 1]

\* A defect: late timestamps are queued behind newer ones.
RecoveredAll(clock, ts_crf, rounded_mtt) ==
  [clock EXCEPT !.list = @ \o From(ts_crf + rounded_mtt, ts_crf + rounded_mtt)]

\* recover_mclk(): the timestamps of one CRF PDU are queued, without those at
\* or before the last one used.
Recovered(clock, ts_crf, rounded_mtt) ==
  LET ts == ts_crf + rounded_mtt
      first == IF ts > clock.prev THEN ts ELSE clock.prev + 1
  IN [clock EXCEPT !.list = @ \o From(first, ts)]
=============================================================================
