----------------------------- MODULE VideoPath -----------------------------
(***************************************************************************)
(* A video stream end to end: cvf-talker.c and cvf-listener.c, or          *)
(* ieciidc-talker.c and ieciidc-listener.c, and the network between them.  *)
(***************************************************************************)
EXTENDS CvfTalker, IecTalker, VideoListener

CONSTANTS
  CvfStreams,    \* what may be on the talkers' standard input
  IecStreams,
  TransitTime,   \* max_transit_time
  MaxLost,       \* how many PDUs the network may lose
  FaultKinds,    \* what else may happen, a subset of AllFaultKinds
  MaxFaults      \* how often, over the whole run

AllFaultKinds == {"read", "send", "foreign", "socket", "pipe"}

\* CIP_HEADER_LEN and the source packet header.
CipHeaders == 12

\* What a PDU carries has a length of 16 bits (1404 and 200 in the code).
ASSUME VideoAssumption ==
  /\ DataLen + SubHeader < DataLens
  /\ TsLen + CipHeaders < DataLens
  /\ CvfStreams \subseteq Seq(Byte)
  /\ IecStreams \subseteq Seq(Byte)
  /\ DbcRange = Dbcs
  /\ TransitTime \in Nat
  /\ MaxLost \in Nat
  /\ FaultKinds \subseteq AllFaultKinds
  /\ MaxFaults \in Nat

VARIABLES
  format,       \* "cvf" or "iec", which two programs run
  now,          \* CLOCK_REALTIME, the same at both ends
  net,          \* PDUs in the network or the listener's socket, in order
  lost,         \* PDUs the network has lost
  faults,       \* the faults there have been
  presented     \* what the listener has written to standard output

talkerVars == <<sourceVars, cvfVars, dbc>>
vars == <<talkerVars, listenerVars, format, now, net, lost, faults, presented>>

Init ==
  /\ \/ format = "cvf" /\ SourceInit(CvfStreams)
     \/ format = "iec" /\ SourceInit(IecStreams)
  /\ CvfInit
  /\ IecInit
  /\ ListenerInit
  /\ now = 0
  /\ net = <<>>
  /\ lost = 0
  /\ faults = <<>>
  /\ presented = <<>>

-----------------------------------------------------------------------------

\* A fault of this kind happens in this step.
Fault(kind) ==
  /\ kind \in FaultKinds
  /\ Len(faults) < MaxFaults
  /\ faults' = Append(faults, kind)

Happened(kind) == \E i \in DOMAIN faults : faults[i] = kind

\* prepare_packet(), or the body of ieciidc-talker's loop: the headers of the
\* PDU that carries the last piece cut off the input.
PduFor(piece) ==
  [id        |-> Len(carried) + 1,
   odd       |-> "none",
   len       |-> IF format = "cvf" THEN Len(piece) + SubHeader
                                   ELSE TsLen + CipHeaders,
   room      |-> IF format = "cvf" THEN Len(piece) ELSE TsLen,
   dbc       |-> dbc,
   ptime     |-> now + TransitTime,
   avtp_time |-> ToAvtpTime(now + TransitTime),
   due       |-> now + TransitTime]

\* The PDU of the piece this step cuts off goes out.
Sends == net' = Append(net, PduFor(Last(carried')))

\* The talker's process, when all goes well.
CvfTalks ==
  /\ format = "cvf"
  /\ \/ (FillBuffer \/ Break \/ Die \/ NalTooLong) /\ UNCHANGED net
     \/ SendNal /\ Sends
  /\ UNCHANGED <<dbc, listenerVars, format, now, lost, faults, presented>>

IecTalks ==
  /\ format = "iec"
  /\ \/ SendPacket /\ Sends
     \/ StopTalking /\ UNCHANGED net
  /\ UNCHANGED <<cvfVars, listenerVars, format, now, lost, faults, presented>>

\* read() fails, in either.
ReadFails ==
  /\ Fault("read")
  /\ \/ format = "cvf" /\ FillFails /\ UNCHANGED <<dbc, net>>
     \/ format = "iec" /\ SendNothing /\ Sends /\ UNCHANGED cvfVars
  /\ UNCHANGED <<listenerVars, format, now, lost, presented>>

\* sendto() fails, in either.
SendToFails ==
  /\ Fault("send")
  /\ \/ format = "cvf" /\ SendFails /\ UNCHANGED dbc
     \/ format = "iec" /\ PacketFails /\ UNCHANGED cvfVars
  /\ UNCHANGED <<listenerVars, format, now, net, lost, presented>>

-----------------------------------------------------------------------------

\* Time passes while something waits for it, and nobody is late.
Tick ==
  /\ samples # <<>> \/ net # <<>>
  /\ \A i \in DOMAIN net : now < net[i].due
  /\ running /\ timer # NoTimer => now < timer
  /\ now' = now + 1
  /\ UNCHANGED <<talkerVars, listenerVars, format, net, lost, faults, presented>>

\* The listener's poll() returns.
PollReturns ==
  /\ \E received \in BOOLEAN :
       /\ received => net # <<>>
       /\ \/ format = "cvf" /\ CvfPoll(received, now)
          \/ format = "iec" /\ IecPoll(received, now)
  /\ UNCHANGED <<talkerVars, format, now, net, lost, faults, presented>>

\* The listener's recv(), and what new_packet() makes of the datagram.
Receive ==
  /\ net # <<>>
  /\ \/ format = "cvf" /\ CvfNewPacket(Head(net), now)
     \/ format = "iec" /\ IecNewPacket(Head(net), now)
  /\ net' = Tail(net)
  /\ UNCHANGED <<talkerVars, format, now, lost, faults, presented>>

\* The listener writes what is at the head of its queue.
Present ==
  /\ \/ format = "cvf" /\ CvfTimeout
     \/ format = "iec" /\ IecTimeout
  /\ presented' = Append(presented, [id |-> Head(samples).id,
                                     len |-> Head(samples).len])
  /\ UNCHANGED <<talkerVars, format, now, net, lost, faults>>

\* recv() fails, or brings ieciidc-listener a datagram of another size.
SocketFails ==
  /\ "sk" \in ready
  /\ LeaveLoop
  /\ Fault("socket")
  /\ UNCHANGED <<talkerVars, format, now, net, lost, presented>>

\* Standard output has gone.
PipeFails ==
  /\ ready = {"timer"}
  /\ LeaveLoop
  /\ Fault("pipe")
  /\ UNCHANGED <<talkerVars, format, now, net, lost, presented>>

\* The network loses a PDU, as long as poll() has not seen it.
Lose ==
  /\ net # <<>>
  /\ Head(net).odd = "none"
  /\ "sk" \notin ready
  /\ lost < MaxLost
  /\ net' = Tail(net)
  /\ lost' = lost + 1
  /\ UNCHANGED <<talkerVars, listenerVars, format, now, faults, presented>>

\* A PDU of something else reaches the socket.
Stray ==
  /\ ~Ended
  /\ Fault("foreign")
  /\ \E field \in {"stream_id"} \cup
                  (IF format = "cvf" THEN {"format"} ELSE {"tsf"}) :
       net' = Append(net, [id |-> 0, odd |-> field, len |-> 0, room |-> 0,
                           dbc |-> 0, ptime |-> now, avtp_time |-> 0,
                           due |-> now + TransitTime])
  /\ UNCHANGED <<talkerVars, listenerVars, format, now, lost, presented>>

\* The talker has stopped, and so has the listener or it has nothing to do.
Finished ==
  /\ Ended
  /\ ~running \/ (net = <<>> /\ samples = <<>>)
  /\ UNCHANGED vars

Next ==
  \/ CvfTalks
  \/ IecTalks
  \/ ReadFails
  \/ SendToFails
  \/ Tick
  \/ PollReturns
  \/ Receive
  \/ Present
  \/ SocketFails
  \/ PipeFails
  \/ Lose
  \/ Stray
  \/ Finished

\* Both processes run, their input comes, and time passes.
Fairness ==
  /\ WF_vars(CvfTalks)
  /\ WF_vars(IecTalks)
  /\ WF_vars(Tick)
  /\ WF_vars(PollReturns)
  /\ WF_vars(Receive)
  /\ WF_vars(Present)

Spec == Init /\ [][Next]_vars /\ Fairness

-----------------------------------------------------------------------------

Pdu == [id : Nat, odd : {"none"} \cup CvfChecked \cup IecChecked, len : Nat,
        room : Nat, dbc : Nat, ptime : Nat, avtp_time : Nat, due : Nat]

\* Every variable has its type, and cvf-talker's buffer_level stays within the
\* buffer.
TypeOK ==
  /\ SourceTypeOK
  /\ CvfTypeOK
  /\ IecTypeOK
  /\ running \in BOOLEAN
  /\ ready \subseteq {"sk", "timer"}
  /\ samples \in Seq([id : Nat, ptime : Nat, tspec : Nat, len : 0 .. DataLens - 1])
  /\ timer \in Nat \cup {NoTimer}
  /\ expected_dbc \in 0 .. Dbcs - 1
  /\ complaint \in BOOLEAN
  /\ format \in {"cvf", "iec"}
  /\ now \in Nat
  /\ net \in Seq(Pdu)
  /\ lost \in Nat
  /\ faults \in Seq(FaultKinds)
  /\ presented \in Seq([id : Nat, len : Nat])

\* No failed read() has taken a byte off the buffer, and what comes before the
\* first start code leaves room for a whole NAL unit and the next start code.
CleanInput ==
  ~Happened("read") /\ Preamble(stream) + DataLen + 3 <= BufferSize

\* However read() cuts up the input, also in the middle of a start code,
\* cvf-talker sends whole NAL units, in order and none twice; ieciidc-talker
\* sends every byte it reads once and in order, even when a read() comes short.
PiecesTrue ==
  IF format = "cvf"
  THEN CleanInput => IsPrefix(carried, UnitsOf(stream))
  ELSE FlattenSeq(carried) \o input = stream \/ stage = "exit 1"

\* A cvf-talker that says it is done has sent every unit, and one that gives up
\* without a failed sendto() was about to send one that is longer than a PDU
\* holds.  The process dies only of a first read() of one byte.
EndsForCause ==
  format = "cvf" /\ CleanInput =>
    /\ stage = "exit 0" => carried = UnitsOf(stream)
    /\ stage = "exit 1" /\ ~Happened("send") =>
         Len(UnitsOf(stream)[Len(carried) + 1]) > DataLen
    /\ stage = "dead" => carried = <<>> /\ Len(buffer) = 1

\* What the listener writes are the pieces the talker sent, each whole and none
\* before one sent earlier; packets of ieciidc are filled up to their size.
PresentedWhole ==
  \A i \in DOMAIN presented :
    /\ presented[i].id \in DOMAIN carried
    /\ presented[i].len = IF format = "cvf" THEN Len(carried[presented[i].id])
                                            ELSE TsLen
    /\ i > 1 => presented[i - 1].id < presented[i].id

\* ieciidc-listener never catches up with the counter of its talker: it objects
\* to every packet once PDUs are lost, until their blocks have wrapped it round.
DbcBlamesEveryLoss ==
  [][expected_dbc' # expected_dbc =>
       complaint' = ((lost * BlocksPerPacket) % Dbcs # 0)]_vars

\* A talker always comes to an end of its input, also when its buffer is full
\* and the next read() asks for nothing.
TalkerEnds == <>Ended
=============================================================================
