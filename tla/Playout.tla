------------------------------ MODULE Playout ------------------------------
(***************************************************************************)
(* An audio stream end to end: aaf-talker.c stamps samples with their      *)
(* presentation time, the network carries them, and aaf-listener.c         *)
(* presents each one when its time comes.                                  *)
(***************************************************************************)
EXTENDS SampleQueue

CONSTANTS
  TransitTime,   \* max_transit_time
  MaxLate,       \* how late the listener's process may be
  FaultKinds,    \* the faults that may happen, a subset of AllFaultKinds
  MaxFaults,     \* how many of them, over the whole run
  Delay,         \* how much longer a delayed PDU may take
  MaxSends,      \* PDUs in the run
  LastSend       \* when the talker's input ends

AllFaultKinds == {"loss", "delay", "reorder", "foreign", "short", "pipe"}

ASSUME PlayoutAssumption ==
  /\ TransitTime \in Nat
  /\ MaxLate \in Nat
  /\ FaultKinds \subseteq AllFaultKinds
  /\ MaxFaults \in Nat
  /\ Delay \in Nat
  /\ MaxSends \in Nat
  /\ LastSend \in Nat

VARIABLES
  now,          \* CLOCK_REALTIME, the same at both ends
  sent,         \* PDUs sent so far
  net,          \* PDUs in the network, in order
  socket,       \* datagrams the listener's socket holds
  faults,       \* faults so far
  presented,    \* the number of the last sample presented
  slip          \* how late it was: the time it was presented less its own

vars == <<queueVars, now, sent, net, socket, faults, presented, slip>>

\* A datagram: what it is, the number and the presentation time of its sample,
\* its avtp_timestamp, and the time it must have been received by.
Pdu == [kind : {"sample", "foreign", "short"}, id : Nat, ptime : Nat,
        avtp_time : 0 .. Wrap - 1, due : Nat]

Init ==
  /\ QueueInit
  /\ now = 0
  /\ sent = 0
  /\ net = <<>>
  /\ socket = <<>>
  /\ faults = 0
  /\ presented = -1
  /\ slip = 0

-----------------------------------------------------------------------------

\* A fault of this kind happens in this step.
Fault(kind) ==
  /\ kind \in FaultKinds
  /\ faults < MaxFaults
  /\ faults' = faults + 1

\* The network and the listener's process keep up: every PDU is received
\* within the transit time, and the timer is served MaxLate after it expires.
OnTime ==
  /\ \A i \in DOMAIN net : now < net[i].due
  /\ running => /\ \A i \in DOMAIN socket : now < socket[i].due
                /\ timer # NoTimer => now < timer + MaxLate

\* A bound of the model, beyond the time the last sample is presented.
Horizon == LastSend + TransitTime + Delay + Wrap + MaxLate

\* Time passes, as long as there is something left to happen.
Tick ==
  /\ OnTime
  /\ now < Horizon
  /\ now <= LastSend \/ samples # <<>> \/ net # <<>>
  /\ now' = now + 1
  /\ UNCHANGED <<queueVars, sent, net, socket, faults, presented, slip>>

\* One turn of aaf-talker's loop.
Send ==
  /\ now <= LastSend
  /\ sent < MaxSends
  /\ net' = Append(net, [kind      |-> "sample",
                         id        |-> sent,
                         ptime     |-> now + TransitTime,
                         avtp_time |-> ToAvtpTime(now + TransitTime),
                         due       |-> now + TransitTime])
  /\ sent' = sent + 1
  /\ UNCHANGED <<queueVars, now, socket, faults, presented, slip>>

\* A PDU reaches the listener's socket.
Arrive ==
  /\ net # <<>>
  /\ socket' = Append(socket, Head(net))
  /\ net' = Tail(net)
  /\ UNCHANGED <<queueVars, now, sent, faults, presented, slip>>

\* The listener's poll() returns.
PollReturns ==
  /\ Poll(socket # <<>>, now)
  /\ UNCHANGED <<now, sent, net, socket, faults, presented, slip>>

\* The listener's recv(), and what new_packet() makes of the datagram.
Receive ==
  /\ socket # <<>>
  /\ LET pdu == Head(socket)
     IN \/ pdu.kind = "sample" /\ NewPacket(pdu, now)
        \/ pdu.kind = "foreign" /\ DropPacket
        \/ pdu.kind = "short" /\ "sk" \in ready /\ Leave
  /\ socket' = Tail(socket)
  /\ UNCHANGED <<now, sent, net, faults, presented, slip>>

\* The listener presents the sample at the head of its queue.
Play ==
  /\ Timeout
  /\ presented' = Head(samples).id
  /\ slip' = now - Head(samples).ptime
  /\ UNCHANGED <<now, sent, net, socket, faults>>

\* It cannot: standard output has gone.
PlayFails ==
  /\ ready = {"timer"}
  /\ Leave
  /\ Fault("pipe")
  /\ UNCHANGED <<now, sent, net, socket, presented, slip>>

-----------------------------------------------------------------------------

\* The network loses a PDU.
Lose ==
  /\ net # <<>>
  /\ Fault("loss")
  /\ net' = Tail(net)
  /\ UNCHANGED <<queueVars, now, sent, socket, presented, slip>>

\* It holds one back beyond its presentation time.
Hold ==
  /\ net # <<>>
  /\ Fault("delay")
  /\ net' = [net EXCEPT ![1].due = net[1].ptime + Delay]
  /\ UNCHANGED <<queueVars, now, sent, socket, presented, slip>>

\* It lets the second PDU overtake the first.
Overtake ==
  /\ Len(net) > 1
  /\ Fault("reorder")
  /\ socket' = Append(socket, net[2])
  /\ net' = <<net[1]>> \o SubSeq(net, 3, Len(net))
  /\ UNCHANGED <<queueVars, now, sent, presented, slip>>

\* A datagram that is not of the stream reaches the socket, of the stream's
\* size or another.
Stray(kind) ==
  /\ now <= LastSend
  /\ Fault(kind)
  /\ socket' = Append(socket, [kind |-> kind, id |-> sent, ptime |-> now,
                               avtp_time |-> 0, due |-> now + TransitTime])
  /\ UNCHANGED <<queueVars, now, sent, net, presented, slip>>

\* The end of the run: nothing is left to happen, or the listener has stopped.
Finished ==
  /\ \/ ~running
     \/ samples = <<>> /\ net = <<>> /\ socket = <<>> /\ now > LastSend
  /\ UNCHANGED vars

Next ==
  \/ Tick
  \/ Send
  \/ Arrive
  \/ PollReturns
  \/ Receive
  \/ Play
  \/ PlayFails
  \/ Lose
  \/ Hold
  \/ Overtake
  \/ Stray("foreign")
  \/ Stray("short")
  \/ Finished

\* Time passes, the network delivers, and the listener's loop turns.
Fairness ==
  /\ WF_vars(Tick)
  /\ WF_vars(Arrive)
  /\ WF_vars(PollReturns)
  /\ WF_vars(Receive)
  /\ WF_vars(Play)

Spec == Init /\ [][Next]_vars /\ Fairness

-----------------------------------------------------------------------------

\* Every variable has its type.
TypeOK ==
  /\ QueueTypeOK
  /\ now \in Nat
  /\ sent \in 0 .. MaxSends
  /\ net \in Seq(Pdu)
  /\ socket \in Seq(Pdu)
  /\ faults \in 0 .. MaxFaults
  /\ presented \in Nat \cup {-1}
  /\ slip \in Int

\* The timer is armed exactly when the queue holds something, and for its head,
\* also between a poll() and the calls it leads to: timeout() finds one
\* expiration and an entry to present, as aaf-listener.c:349 and :352 assert.
TimerServesHead ==
  /\ timer = IF samples = <<>> THEN NoTimer ELSE Head(samples).tspec
  /\ "timer" \in ready => Expired(now)

\* No sample is presented before the talker's time for it, whatever was held
\* back or overtook what.
NeverEarly == slip >= 0

\* How late one can be: a PDU received after its time is taken for one of the
\* next 4.29 s, and those behind it in the queue wait as long.
LateAtMostOneWrap == slip <= Wrap + MaxLate

\* Every sample the listener has queued is presented in the end.
EverySamplePlayed ==
  \A n \in 0 .. MaxSends - 1 :
    (\E i \in DOMAIN samples : samples[i].id = n)
      ~> (~running \/ presented = n)

\* get_presentation_time() "recover[s] the presentation time set by the talker"
\* (common.c:85-87).
TimeRecovered ==
  \A i \in DOMAIN samples : samples[i].tspec = samples[i].ptime

\* On a network that only loses PDUs the stream is the delay line DelayLine.
Stamp(s) == [id |-> s.id, ptime |-> s.ptime]

Stamps(seq) == {Stamp(seq[i]) : i \in DOMAIN seq}

Pending == Stamps(samples) \cup Stamps(socket) \cup Stamps(net)

Line == INSTANCE DelayLine WITH pending <- Pending

LineSafety == Line!Safety
LineSpec == Line!Spec
=============================================================================
