----------------------------- MODULE IecTalker -----------------------------
(***************************************************************************)
(* ieciidc-talker.c: one MPEG-TS packet per read() and per PDU.            *)
(***************************************************************************)
EXTENDS StdinTalker

CONSTANTS
  TsLen,        \* MPEG_TS_PACKET_LEN
  DbcRange      \* the values of the data block counter: 2^8

ASSUME IecAssumption ==
  /\ TsLen \in Nat \ {0}
  /\ DbcRange \in Nat \ {0}

VARIABLE dbc    \* the data block counter of the next PDU

IecInit == dbc = 0

\* One MPEG-TS packet is so many data blocks (DBS 6, FN 3).
BlocksPerPacket == 8

\* One turn of the loop.  A read() of less than a packet is logged and sent all
\* the same, with zeros behind it.
SendPacket ==
  /\ stage = "fill"
  /\ \E n \in ReadLengths(TsLen) \ {0} :
       /\ carried' = Append(carried, SubSeq(input, 1, n))
       /\ input' = SubSeq(input, n + 1, Len(input))
  /\ dbc' = (dbc + BlocksPerPacket) % DbcRange
  /\ UNCHANGED <<stream, stage>>

\* A read() that fails is logged too, and a packet of zeros is sent.
SendNothing ==
  /\ stage = "fill"
  /\ carried' = Append(carried, <<>>)
  /\ dbc' = (dbc + BlocksPerPacket) % DbcRange
  /\ UNCHANGED <<stream, input, stage>>

\* The end of the input.
StopTalking ==
  /\ stage = "fill"
  /\ input = <<>>
  /\ stage' = "exit 0"
  /\ UNCHANGED <<stream, input, carried, dbc>>

\* sendto() fails: what was read is lost with the process.
PacketFails ==
  /\ stage = "fill"
  /\ input # <<>>
  /\ stage' = "exit 1"
  /\ UNCHANGED <<stream, input, carried, dbc>>

IecTypeOK == dbc \in 0 .. DbcRange - 1
=============================================================================
