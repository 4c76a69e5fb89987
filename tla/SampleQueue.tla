---------------------------- MODULE SampleQueue ----------------------------
(***************************************************************************)
(* aaf-listener.c: the poll loop over the stream's socket and one timerfd, *)
(* the queue of samples waiting for their presentation time, and the       *)
(* timer, armed for the sample at its head.  cvf-listener.c and            *)
(* ieciidc-listener.c have the same loop, queue and timer.                 *)
(*                                                                         *)
(* expected_seq is left out: it decides a log line and nothing else.       *)
(***************************************************************************)
EXTENDS AvtpTime, Sequences

VARIABLES
  running,        \* the process has not left its loop
  ready,          \* descriptors poll() found readable, yet to be handled
  samples,        \* the STAILQ, oldest first
  timer           \* the absolute time the timerfd is armed for

queueVars == <<running, ready, samples, timer>>

NoTimer == -1

QueueInit ==
  /\ running = TRUE
  /\ ready = {}
  /\ samples = <<>>
  /\ timer = NoTimer

-----------------------------------------------------------------------------

\* The timerfd has expired and has not been read.
Expired(now) == timer # NoTimer /\ timer <= now

\* poll() returns: what it found is acted on later, when more has happened.
Poll(received, now) ==
  /\ running
  /\ ready = {}
  /\ ready' = (IF received THEN {"sk"} ELSE {})
                \cup (IF Expired(now) THEN {"timer"} ELSE {})
  /\ ready' # {}
  /\ UNCHANGED <<running, samples, timer>>

\* A defect the model can be run with: every sample arms the timer.
ArmsAlways == TRUE

\* schedule_sample() arms the timer for the first entry of the queue only.
Arms == samples = <<>>

\* schedule_sample()
ScheduleSample(entry) ==
  /\ samples' = Append(samples, entry)
  /\ timer' = IF Arms THEN entry.tspec ELSE timer

\* new_packet() on a PDU of the stream.
NewPacket(pdu, now) ==
  /\ running
  /\ "sk" \in ready
  /\ ready' = ready \ {"sk"}
  /\ ScheduleSample([id    |-> pdu.id,
                     ptime |-> pdu.ptime,
                     tspec |-> PresentationTime(pdu.avtp_time, now)])
  /\ UNCHANGED running

\* new_packet() on a PDU is_valid_packet() turns away.
DropPacket ==
  /\ running
  /\ "sk" \in ready
  /\ ready' = ready \ {"sk"}
  /\ UNCHANGED <<running, samples, timer>>

\* new_packet() or timeout() fails: a datagram of another size, no memory, no
\* timer, nobody to present the sample to.  The process leaves the loop.
Leave ==
  /\ running
  /\ ready # {}
  /\ running' = FALSE
  /\ ready' = {}
  /\ samples' = <<>>
  /\ timer' = NoTimer

\* A defect the model can be run with: the timer is not armed again.
NeverRearmed == NoTimer

\* What timeout() arms the timer for once the head of the queue is presented.
Rearmed == IF Len(samples) > 1 THEN samples[2].tspec ELSE NoTimer

\* timeout(): poll() found the timer expired, and the socket has been handled.
Timeout ==
  /\ running
  /\ ready = {"timer"}
  /\ ready' = {}
  /\ samples' = Tail(samples)
  /\ timer' = Rearmed
  /\ UNCHANGED running

QueueTypeOK ==
  /\ running \in BOOLEAN
  /\ ready \subseteq {"sk", "timer"}
  /\ samples \in Seq([id : Nat, ptime : Nat, tspec : Nat])
  /\ timer \in Nat \cup {NoTimer}
=============================================================================
