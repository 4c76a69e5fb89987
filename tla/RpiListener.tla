---------------------------- MODULE RpiListener ----------------------------
(***************************************************************************)
(* aaf-listener-rpi.c: main() with a playback device, from the choice of   *)
(* a receive path to the end of the process, and process_pdu().            *)
(*                                                                         *)
(* The options -q and -X are choices of the model.  Left out: printing     *)
(* instead of playing, the packet limit, the sequence numbers and the      *)
(* report of a mismatch, which decide a log line and nothing else.         *)
(***************************************************************************)
EXTENDS XskContext, AlsaPcm, AvtpTime, PduParse

CONSTANTS
  MaxBatch,       \* packets looked at per poll(), 32
  Tolerance       \* ptime_tolerance_us

ASSUME ListenerAssumption ==
  /\ MaxBatch \in Nat \ {0}
  /\ Tolerance \in Nat

VARIABLES
  main,         \* where main() is
  on_queue,     \* the NIC puts the stream on the queue of the program
  use_xdp,      \* which of the two receive paths it reads
  sk,           \* the AF_PACKET socket is open
  socket,       \* the datagrams it holds
  rcvd,         \* packets of this batch
  next,         \* the first of them not yet processed
  running,      \* no signal has been handled
  started,      \* the device was prefilled
  pcm,          \* the device
  late_count    \* PDUs dropped by the gate

listenerVars == <<main, on_queue, use_xdp, sk, socket, rcvd, next, running,
                  started, pcm, late_count>>
pathVars == <<on_queue, use_xdp>>
playVars == <<started, pcm, late_count>>

\* main() is in its poll loop from "poll" to "batch".
InLoop == main \in {"poll", "batch"}

ListenerInit ==
  /\ main = "start"
  /\ on_queue = FALSE
  /\ use_xdp = FALSE
  /\ sk = FALSE
  /\ socket = <<>>
  /\ rcvd = 0
  /\ next = 0
  /\ running = TRUE
  /\ started = FALSE
  /\ pcm = Prepared
  /\ late_count = 0

-----------------------------------------------------------------------------

\* A defect the model can be run with: what was rebuilt is taken as it is.
Rebuilt(ptime, now) == ptime

\* process_pdu() moves a time it rebuilt to within half a wrap of its clock.
Corrected(ptime, now) ==
  CASE ptime - now > Wrap \div 2    -> ptime - Wrap
    [] ptime - now < -(Wrap \div 2) -> ptime + Wrap
    [] OTHER                        -> ptime

\* The gate of process_pdu(), which reads the clock twice.
Late(pdu, read, now) ==
  Corrected(PresentationTime(pdu.avtp_time, read), now) - now < -Tolerance

\* The device when the PDU is about to be written.
Ready == IF started THEN pcm ELSE Prefilled(pcm)

\* aaf_mode, which nothing sets to AAF_STRICT.
aaf_mode == FALSE

\* A PDU is named for the field in which it is not the profile's.
Accepted(pdu) == Verdict(Datagram(pdu.odd), AafChecks, aaf_mode) = "OK"

\* process_pdu(): turned away,
Rejected(pdu) ==
  /\ ~Accepted(pdu)
  /\ UNCHANGED playVars

\* too late,
Dropped(pdu, read, now) ==
  /\ Accepted(pdu)
  /\ Late(pdu, read, now)
  /\ late_count' = late_count + 1
  /\ UNCHANGED <<started, pcm>>

\* written, in part if there is not the place, and not at all if there is none,
Queued(pdu, read, now) ==
  /\ Accepted(pdu)
  /\ ~Late(pdu, read, now)
  /\ Ready.phase # "xrun"
  /\ pcm' = Written(Ready, PduFrames)
  /\ started' = TRUE
  /\ UNCHANGED late_count

\* or lost on a device that has run dry, which is recovered if it can be.
Recovered(pdu, read, now) ==
  /\ Accepted(pdu)
  /\ ~Late(pdu, read, now)
  /\ Ready.phase = "xrun"
  /\ pcm' \in {Prepared, pcm}
  /\ started' = FALSE
  /\ UNCHANGED late_count

\* The two readings of the clock are a tick apart at most.
ProcessPdu(pdu, now) ==
  \E read \in {now - 1, now} \cap Nat :
    \/ Rejected(pdu)
    \/ Dropped(pdu, read, now)
    \/ Queued(pdu, read, now)
    \/ Recovered(pdu, read, now)

-----------------------------------------------------------------------------

\* A queue was asked for: xsk_configure_flow_steering() inserts a rule, or
\* fails and leaves the stream where the NIC spreads it, which is accepted.
Steer ==
  /\ main = "start"
  /\ on_queue' \in BOOLEAN
  /\ main' = "xsk"
  /\ BeginCreate
  /\ UNCHANGED <<use_xdp, sk, socket, rcvd, next, running, playVars>>

\* None was.
NoQueue ==
  /\ main = "start"
  /\ main' = "packet"
  /\ UNCHANGED <<contextVars, ringVars, pathVars, sk, socket, rcvd, next, running,
                 playVars>>

\* xsk_ctx_create() has returned a context,
Opened ==
  /\ main = "xsk"
  /\ context = "open"
  /\ use_xdp' = TRUE
  /\ main' = "poll"
  /\ UNCHANGED <<contextVars, ringVars, on_queue, sk, socket, rcvd, next, running,
                 playVars>>

\* or NULL: the end if the queue was required, or the other path.
NotOpened ==
  /\ main = "xsk"
  /\ context = "none"
  /\ main' \in {"exit", "packet"}
  /\ UNCHANGED <<contextVars, ringVars, pathVars, sk, socket, rcvd, next, running,
                 playVars>>

\* create_listener_socket()
OpenSocket ==
  /\ main = "packet"
  /\ \/ sk' = TRUE /\ main' = "poll"
     \/ main' = "exit" /\ UNCHANGED sk
  /\ UNCHANGED <<contextVars, ringVars, pathVars, socket, rcvd, next, running,
                 playVars>>

\* poll() returns with packets in the rings,
PollRings ==
  /\ main = "poll"
  /\ running
  /\ use_xdp
  /\ recycled = 0
  /\ Count(rx) > 0
  /\ rcvd' = Peek(MaxBatch)
  /\ next' = 0
  /\ main' = "batch"
  /\ UNCHANGED <<contextVars, ringVars, pathVars, sk, socket, running, playVars>>

\* the packets it found are processed one by one,
ProcessNext(now) ==
  /\ main = "batch"
  /\ next < rcvd
  /\ ProcessPdu(RxPacket(next), now)
  /\ next' = next + 1
  /\ UNCHANGED <<contextVars, ringVars, main, pathVars, sk, socket, rcvd, running>>

\* and xsk_ctx_rx_release() is called, in two steps.
ReleaseBatch ==
  /\ main = "batch"
  /\ next = rcvd
  /\ Recycle(rcvd)
  /\ main' = "poll"
  /\ rcvd' = 0
  /\ next' = 0
  /\ UNCHANGED <<contextVars, pathVars, sk, socket, running, playVars>>
ReleaseRx ==
  /\ AdvanceConsumer
  /\ UNCHANGED <<contextVars, listenerVars>>

\* poll() and recv() on the AF_PACKET socket.
ReceiveDatagram(now) ==
  /\ main = "poll"
  /\ running
  /\ sk
  /\ socket # <<>>
  /\ ProcessPdu(Head(socket), now)
  /\ socket' = Tail(socket)
  /\ UNCHANGED <<contextVars, ringVars, main, pathVars, sk, rcvd, next, running>>

\* SIGINT or SIGTERM, which the handler notes,
Signal ==
  /\ InLoop
  /\ running
  /\ running' = FALSE
  /\ UNCHANGED <<contextVars, ringVars, main, pathVars, sk, socket, rcvd, next,
                 playVars>>

\* once it is installed, which is after the path is.
EarlySignal ==
  /\ main \in {"start", "xsk", "packet"}
  /\ main' = "exit"
  /\ Die
  /\ UNCHANGED <<pathVars, sk, socket, rcvd, next, running, playVars>>

\* The loop ends: poll() was interrupted or failed, or running is no longer
\* set.  The device is closed first.
LeaveLoop ==
  /\ main = "poll"
  /\ recycled = 0
  /\ main' = "close"
  /\ pcm' = Closed
  /\ IF use_xdp THEN BeginDestroy ELSE UNCHANGED <<contextVars, ringVars>>
  /\ UNCHANGED <<pathVars, sk, socket, rcvd, next, running, started, late_count>>

\* The context is gone; so is the process, after its socket.
Finish ==
  /\ main = "close"
  /\ context = "none"
  /\ sk' = FALSE
  /\ socket' = <<>>
  /\ main' = "exit"
  /\ UNCHANGED <<contextVars, ringVars, pathVars, rcvd, next, running, playVars>>
=============================================================================
