----------------------------- MODULE MCPduAccess -----------------------------
(***************************************************************************)
(* PduAccess for TLC: memory that is clear or full of ones before init.   *)
(***************************************************************************)
EXTENDS PduAccess

Words32 == {"subtype_data", "avtp_time", "format_specific", "cip_1", "cip_2", "h264_header"}
Words64 == {"stream_id", "packet_info", "raw_header"}

ClearOrFull == {{}, (Words32 \X (0 .. 31)) \cup (Words64 \X (0 .. 63))}

\* Every bit, and every other bit, of the 64 a setter is given.
Patterns == {0 .. 63, {b \in 0 .. 63 : b % 2 = 1}}
=============================================================================
