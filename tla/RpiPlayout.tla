----------------------------- MODULE RpiPlayout -----------------------------
(***************************************************************************)
(* An audio stream between two Raspberry Pis: aaf-talker-rpi.c captures    *)
(* and stamps it, the network carries it, the kernel hands it to           *)
(* aaf-listener-rpi.c by AF_XDP or AF_PACKET, and a device plays it.       *)
(*                                                                         *)
(* A tick is the time of one frame.  The two devices run at one rate:      *)
(* what the CRF stream is for.                                             *)
(***************************************************************************)
EXTENDS RpiListener

CONSTANTS
  StartTime,      \* the time the run starts at
  Offset,         \* ptime_offset_us of the talker
  TransitTime,    \* the longest a PDU takes to the listener's NIC
  MaxLate,        \* how late the listener's process may be
  Delay,          \* how much longer a delayed PDU takes
  StreamOdd,      \* the field in which the talker's PDUs are not the profile's
  StrayOdds,      \* those of packets of other senders
  FaultKinds,     \* the faults that may happen, a subset of AllFaultKinds
  MaxFaults,      \* how many of them, over the whole run
  MaxPdus         \* PDUs the talker captures in the run

AllFaultKinds == {"overrun", "loss", "delay", "stray"}

ASSUME PlayoutAssumption ==
  /\ StartTime \in Nat
  /\ Offset \in Nat
  /\ TransitTime \in Nat
  /\ MaxLate \in Nat
  /\ Delay \in Nat
  /\ FaultKinds \subseteq AllFaultKinds
  /\ MaxFaults \in Nat
  /\ MaxPdus \in Nat
  \* The listener takes the talker's PDUs, and no others.
  /\ Verdict(Datagram(StreamOdd), AafChecks, aaf_mode) = "OK"
  /\ \A odd \in StrayOdds : Verdict(Datagram(odd), AafChecks, aaf_mode) # "OK"
  \* Presentation times stay within half a wrap of the listener's clock.
  /\ Offset < Wrap \div 2
  /\ TransitTime + MaxLate + Delay * MaxFaults + 1 < Wrap \div 2

VARIABLES
  now,          \* CLOCK_REALTIME, the same at both ends
  captured,     \* PDUs' worth of frames the talker has read or lost
  net,          \* PDUs in the network, in order
  faults,       \* faults so far
  missing,      \* frames captured since the device was prefilled that never
                \* reached it
  cut           \* of these, the ones there was no place for

vars == <<contextVars, ringVars, listenerVars, now, captured, net, faults,
          missing, cut>>
streamVars == <<now, captured, net, faults>>

\* A packet, which must have been processed by due.
Pdu(odd, due) ==
  [odd |-> odd, ptime |-> now + Offset, avtp_time |-> ToAvtpTime(now + Offset),
   due |-> due]

Init ==
  /\ now = StartTime
  /\ ContextInit
  /\ fq = [desc |-> [s \in Frames |-> 0], producer |-> 0, consumer |-> 0]
  /\ rx = [desc |-> [s \in Frames |-> 0], producer |-> 0, consumer |-> 0]
  /\ nic = {}
  /\ umem = [f \in Frames |-> Pdu("length", now)]
  /\ recycled = 0
  /\ ListenerInit
  /\ captured = 0
  /\ net = <<>>
  /\ faults = 0
  /\ missing = 0
  /\ cut = 0

-----------------------------------------------------------------------------

\* A fault of this kind happens in this step, once the listener is in its loop:
\* a bound of the model, before that it does not see the stream.
Fault(kind) ==
  /\ InLoop
  /\ kind \in FaultKinds
  /\ faults < MaxFaults
  /\ faults' = faults + 1

\* When the talker has its next frames.
Due == StartTime + PduFrames * captured

\* A packet the listener does not get takes a PDU's frames with it.
MissingWith(pdu) ==
  missing' = missing + (IF InLoop /\ Accepted(pdu) THEN PduFrames ELSE 0)

\* Packets the listener's kernel holds for it, of which no two are the same.
Waiting == {umem[Entry(rx, i)] : i \in recycled + next .. Count(rx) - 1}
             \cup {socket[i] : i \in DOMAIN socket}

\* The listener is in its loop, and it, the talker and the network keep up.
Tick ==
  /\ InLoop
  /\ running
  /\ now < Due
  /\ \A i \in DOMAIN net : now < net[i].due - MaxLate
  /\ \A pdu \in Waiting : now < pdu.due
  /\ now' = now + 1
  /\ pcm' = Played(pcm)
  /\ UNCHANGED <<contextVars, ringVars, main, pathVars, sk, socket, rcvd, next,
                 running, started, late_count, captured, net, faults, missing, cut>>

\* The talker reads a PDU's worth of frames, stamps and sends it.
Send ==
  /\ captured < MaxPdus
  /\ now = Due
  /\ captured' = captured + 1
  /\ net' = Append(net, Pdu(StreamOdd, now + TransitTime + MaxLate))
  /\ UNCHANGED <<contextVars, ringVars, listenerVars, now, faults, missing, cut>>

\* It finds an overrun, or fewer frames, and goes on without them.
Skip ==
  /\ captured < MaxPdus
  /\ now = Due
  /\ Fault("overrun")
  /\ captured' = captured + 1
  /\ missing' = missing + PduFrames
  /\ UNCHANGED <<contextVars, ringVars, listenerVars, now, net, cut>>

\* The network loses a PDU,
Lose ==
  /\ net # <<>>
  /\ Fault("loss")
  /\ net' = Tail(net)
  /\ MissingWith(Head(net))
  /\ UNCHANGED <<contextVars, ringVars, listenerVars, now, captured, cut>>

\* delays it and what is behind it,
Hold ==
  /\ net # <<>>
  /\ Fault("delay")
  /\ net' = [i \in DOMAIN net |-> [net[i] EXCEPT !.due = @ + Delay]]
  /\ UNCHANGED <<contextVars, ringVars, listenerVars, now, captured, missing, cut>>

\* or carries a packet of another sender to the listener.
Stray(odd) ==
  /\ Fault("stray")
  /\ net' = Append(net, Pdu(odd, now + TransitTime + MaxLate))
  /\ UNCHANGED <<contextVars, ringVars, listenerVars, now, captured, missing, cut>>

-----------------------------------------------------------------------------

\* The driver takes frames once the socket is bound.
TakeFrame ==
  /\ "bound" \in held
  /\ Take
  /\ UNCHANGED <<contextVars, listenerVars, streamVars, missing, cut>>

\* The kernel's program hands the next packet to the socket in its map.
Redirected == Redirects /\ on_queue

\* A packet gets to the rings,
ArriveInRing ==
  /\ net # <<>>
  /\ Redirected
  /\ Deliver(Head(net))
  /\ net' = Tail(net)
  /\ UNCHANGED <<contextVars, listenerVars, now, captured, faults, missing, cut>>

\* to rings that have no place for it,
NoPlace ==
  /\ net # <<>>
  /\ Redirected
  /\ ~Room
  /\ Count(fq) = 0 \/ Count(rx) >= NumFrames
  /\ net' = Tail(net)
  /\ MissingWith(Head(net))
  /\ UNCHANGED <<contextVars, ringVars, listenerVars, now, captured, faults, cut>>

\* or by way of the kernel's stack to the AF_PACKET socket, if there is one.
ArriveInStack ==
  /\ net # <<>>
  /\ ~Redirected
  /\ socket' = IF sk THEN Append(socket, Head(net)) ELSE socket
  /\ IF sk THEN UNCHANGED missing ELSE MissingWith(Head(net))
  /\ net' = Tail(net)
  /\ UNCHANGED <<contextVars, ringVars, main, pathVars, sk, rcvd, next, running,
                 playVars, now, captured, faults, cut>>

-----------------------------------------------------------------------------

\* process_pdu() and the account of what the device never got: all of a PDU
\* that is late or finds the device dry, and what there is no place for of one
\* that is written.  A device that is prefilled starts a new account.
Account(pdu) ==
  LET written == Accepted(pdu) /\ started' /\ late_count' = late_count
      short == PduFrames - (pcm'.fill - Ready.fill)
      new == ~started /\ started'
  IN /\ missing' = (IF new THEN 0 ELSE missing)
                     + (IF written THEN short
                        ELSE IF Accepted(pdu) THEN PduFrames ELSE 0)
     /\ cut' = (IF new THEN 0 ELSE cut) + (IF written THEN short ELSE 0)

Process ==
  \/ ProcessNext(now) /\ Account(RxPacket(next))
  \/ ReceiveDatagram(now) /\ Account(Head(socket))

Setup == Steer \/ NoQueue \/ Opened \/ NotOpened \/ OpenSocket

Bring == main = "xsk" /\ (Create \/ CreateFails \/ AnswerLost)

TearDown == main \in {"xsk", "close"} /\ (Destroy \/ Destroyed)

Next ==
  \/ (Bring \/ TearDown) /\ UNCHANGED <<listenerVars, streamVars, missing, cut>>
  \/ /\ \/ Setup \/ PollRings \/ ReleaseBatch \/ ReleaseRx \/ Finish
        \/ Signal \/ EarlySignal
     /\ UNCHANGED <<streamVars, missing, cut>>
  \/ LeaveLoop /\ missing' = 0 /\ cut' = 0 /\ UNCHANGED streamVars
  \/ Process /\ UNCHANGED streamVars
  \/ Tick \/ Send \/ Skip \/ Lose \/ Hold
  \/ \E odd \in StrayOdds : Stray(odd)
  \/ TakeFrame \/ ArriveInRing \/ NoPlace \/ ArriveInStack

Spec == Init /\ [][Next]_vars

-----------------------------------------------------------------------------

PacketType == [odd : {StreamOdd, "length"} \cup StrayOdds, ptime : Nat,
               avtp_time : 0 .. Wrap - 1, due : Nat]

\* Every variable holds a value of its type.
TypeOK ==
  /\ ContextTypeOK
  /\ RingsTypeOK
  /\ umem \in [Frames -> PacketType]
  /\ main \in {"start", "xsk", "packet", "poll", "batch", "close", "exit"}
  /\ on_queue \in BOOLEAN /\ use_xdp \in BOOLEAN /\ sk \in BOOLEAN
  /\ running \in BOOLEAN /\ started \in BOOLEAN
  /\ socket \in Seq(PacketType) /\ net \in Seq(PacketType)
  /\ rcvd \in 0 .. MaxBatch /\ next \in 0 .. rcvd
  /\ pcm \in PcmStates
  /\ late_count \in 0 .. MaxPdus
  /\ now \in Nat /\ captured \in 0 .. MaxPdus /\ faults \in 0 .. MaxFaults
  /\ missing \in Nat /\ cut \in Nat

\* The receive path of xsk-util.c as its user sees it: no packet the listener
\* has yet to look at is overwritten, lost or seen twice, the kernel never gets
\* a frame the listener still reads, and none leaks, whatever the two do
\* between the stores of a release and from bring-up to tear-down.
Pool == INSTANCE FramePool WITH
          Packets <- PacketType,
          queue <- Received,
          free <- IF {"rx", "socket"} \subseteq held THEN Free ELSE Frames

QueueSpec == Pool!Spec

\* xsk_ctx_create() and xsk_ctx_destroy(): whenever the kernel diverts packets
\* to the socket, or its driver holds frames, the memory they are put in is
\* mapped; and while the listener is in its loop, that is where it reads.  So
\* a listener that fell back to AF_PACKET has its stream.
RedirectsRead ==
  /\ Redirects \/ nic # {} => {"umem", "fill", "rx", "socket"} \subseteq held
  /\ Redirects /\ InLoop => use_xdp
  /\ InLoop => use_xdp # sk

\* A context that is gone, destroyed or never opened, has left nothing behind:
\* the program stays on the interface only if the kernel's answer to the attach
\* or detach request was lost, or the process was killed before its handler
\* was installed.
NothingLeftBehind ==
  context = "none" => held = {} /\ (xdp => lost # {})

\* The gate of process_pdu(): a PDU is dropped exactly if its presentation time
\* is more than the tolerance in the past, although the PDU carries its 32 low
\* bits only and the clock may wrap between the two readings.
InHand == IF use_xdp THEN RxPacket(next) ELSE Head(socket)
GateExact ==
  [][Process => (late_count' # late_count
                   <=> Accepted(InHand) /\ InHand.ptime < now - Tolerance)]_vars

\* The prefill of process_pdu() is a reserve: the device runs dry only if at
\* least as many frames are under way or never got to it.
UnderWay ==
  PduFrames * Cardinality({pdu \in Waiting \cup {net[i] : i \in DOMAIN net} :
                             Accepted(pdu)})
UnderrunNeedsLoss ==
  InLoop /\ pcm.phase = "xrun" => missing + UnderWay >= Buffer - PduFrames

\* What is written short or not at all for want of a place, which nothing
\* counts, does not grow with the length of the stream: it is bounded by the
\* age of the PDU that started the playback, and that by the gate.
CutBounded ==
  started => cut <= Offset + Tolerance
=============================================================================
