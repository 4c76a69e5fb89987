--------------------------- MODULE VideoListener ---------------------------
(***************************************************************************)
(* cvf-listener.c and ieciidc-listener.c: the queue and timer of           *)
(* SampleQueue behind the checks and the payload of their own formats.     *)
(*                                                                         *)
(* A PDU is a record of odd, the first field that is not what both sides   *)
(* agreed on; len, its stream_data_len; dbc; avtp_time; and for the        *)
(* properties id, ptime and room, the length of its payload.               *)
(***************************************************************************)
EXTENDS SampleQueue

CONSTANTS
  SubHeader,    \* AVTP_H264_HEADER_LEN
  Dbcs          \* the values of dbc: 2^8

ASSUME ListenerAssumption == SubHeader \in Nat \ {0} /\ Dbcs \in Nat \ {0}

VARIABLES
  expected_dbc,   \* of ieciidc-listener
  complaint       \* the last packet accepted had another

listenerVars == <<queueVars, expected_dbc, complaint>>

ListenerInit ==
  /\ QueueInit
  /\ expected_dbc = 0
  /\ complaint = FALSE

-----------------------------------------------------------------------------

\* is_valid_packet() of cvf-listener
CvfChecked ==
  {"subtype", "version", "tv", "stream_id", "format", "format_subtype"}

CvfAccepts(pdu) == pdu.odd \notin CvfChecked

\* A defect the model can be run with: the sub-header counts as payload.
WholeLength(pdu) == pdu.len

\* The values of a uint16_t, as stream_data_len is one.
DataLens == 65536

\* get_h264_data_len(), a uint16_t
H264DataLen(pdu) == (pdu.len - SubHeader) % DataLens

\* schedule_nal(): an entry holds as many bytes as the PDU says it carries.
ScheduleNal(pdu, now) ==
  ScheduleSample([id    |-> pdu.id,
                  ptime |-> pdu.ptime,
                  len   |-> H264DataLen(pdu),
                  tspec |-> PresentationTime(pdu.avtp_time, now)])

\* new_packet() of cvf-listener
CvfNewPacket(pdu, now) ==
  \/ /\ CvfAccepts(pdu)
     /\ running
     /\ "sk" \in ready
     /\ ready' = ready \ {"sk"}
     /\ ScheduleNal(pdu, now)
     /\ UNCHANGED <<running, expected_dbc, complaint>>
  \/ /\ ~CvfAccepts(pdu)
     /\ DropPacket
     /\ UNCHANGED <<expected_dbc, complaint>>

-----------------------------------------------------------------------------

\* is_valid_packet() of ieciidc-listener: the fields that decide.
IecChecked ==
  {"subtype", "version", "tv", "stream_id", "stream_data_len", "tag",
   "channel", "sid", "dbs", "fn", "qpc", "sph", "fmt", "tsf"}

IecAccepts(pdu) == pdu.odd \notin IecChecked

\* A defect the model can be run with: the counter is taken from the packet.
ResyncedDbc(pdu) == (pdu.dbc + 8) % Dbcs

\* Its end: a dbc that is not the expected one is logged, and the expected one
\* counts on by itself.
NextDbc(pdu) == (expected_dbc + 8) % Dbcs

\* schedule_packet()
SchedulePacket(pdu, now) ==
  ScheduleSample([id    |-> pdu.id,
                  ptime |-> pdu.ptime,
                  len   |-> pdu.room,
                  tspec |-> PresentationTime(pdu.avtp_time, now)])

\* new_packet() of ieciidc-listener
IecNewPacket(pdu, now) ==
  \/ /\ IecAccepts(pdu)
     /\ running
     /\ "sk" \in ready
     /\ ready' = ready \ {"sk"}
     /\ complaint' = (pdu.dbc # expected_dbc)
     /\ expected_dbc' = NextDbc(pdu)
     /\ SchedulePacket(pdu, now)
     /\ UNCHANGED running
  \/ /\ ~IecAccepts(pdu)
     /\ DropPacket
     /\ UNCHANGED <<expected_dbc, complaint>>

-----------------------------------------------------------------------------

\* The two programs' poll loops, timeout() and the ways out of them differ in
\* nothing that matters here.
CvfPoll(received, now) ==
  Poll(received, now) /\ UNCHANGED <<expected_dbc, complaint>>

IecPoll(received, now) == CvfPoll(received, now)

CvfTimeout == Timeout /\ UNCHANGED <<expected_dbc, complaint>>

IecTimeout == CvfTimeout

LeaveLoop == Leave /\ UNCHANGED <<expected_dbc, complaint>>
=============================================================================
