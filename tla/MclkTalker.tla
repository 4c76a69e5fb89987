------------------------------ MODULE MclkTalker ------------------------------
(***************************************************************************)
(* crf-listener.c as an AAF talker: it recovers the media clock and sends  *)
(* an AAF PDU per period, stamped with the next timestamp of that clock.   *)
(***************************************************************************)
EXTENDS MediaClock

CONSTANT AafTransit   \* mtt

ASSUME MclkTalkerAssumption == AafTransit \in Nat

VARIABLES
  clock,      \* its media clock
  timer,      \* when fd_timer expires next, NotArmed before the first CRF PDU
  running     \* FALSE once the process has died

talkerVars == <<clock, timer, running>>

NotArmed == 0

MclkTalkerInit ==
  /\ clock = FreshClock
  /\ timer = NotArmed
  /\ running = TRUE

\* The first datagram of a CRF PDU's size arms the timer for the head of the
\* list and takes it off.
Armed(recovered) ==
  /\ timer' = Head(recovered.list)
  /\ clock' = [recovered EXCEPT !.list = Tail(@)]

\* aaf_talker_recv_pdu() with a CRF PDU
RecvCrf(ts_crf) ==
  /\ running
  /\ LET recovered == Recovered(clock, ts_crf, AafTransit)
     IN IF timer = NotArmed THEN Armed(recovered)
        ELSE clock' = recovered /\ UNCHANGED timer
  /\ UNCHANGED running

\* aaf_talker_recv_pdu() with another datagram of that size: the first one
\* makes it take the head of an empty list, and that is a null pointer.
RecvInvalid ==
  /\ running
  /\ running' = (timer # NotArmed)
  /\ UNCHANGED <<clock, timer>>

\* A defect: one PDU however many periods have passed.
OneExpiration(time) == 1

\* What the timer reports: its first expiration and one per period since.
Expirations(time) == time - timer + 1

\* A defect: the stamp is not cut to its width.
Whole(timestamp) == timestamp

\* The timestamp field of a PDU.
Truncated(timestamp) == timestamp % Wrap

\* What aaf_talker_tx_timeout() sends: a PDU per expiration.  Its whole
\* timestamp and the expiration it is sent for are for the properties.
Sent(time) ==
  [i \in 1 .. Expirations(time) |->
     [avtp_time |-> Truncated(NthTimestamp(clock, i)),
      stamp     |-> NthTimestamp(clock, i),
      expired   |-> timer + i - 1,
      due       |-> time + AafTransit]]

TxTimeout(time) ==
  /\ running
  /\ timer # NotArmed /\ timer <= time
  /\ clock' = Advanced(clock, Expirations(time))
  /\ timer' = time + 1
  /\ UNCHANGED running
=============================================================================
