------------------------------ MODULE PduParse ------------------------------
(***************************************************************************)
(* crf_pdu_parse() and aaf_pdu_parse(): the verdict on a datagram, and the *)
(* one report a receiver makes of a stream that disagrees with its         *)
(* profile.  Of a datagram the model keeps what the verdict depends on:    *)
(* whether length, subtype and stream are the profile's, and the set of    *)
(* the fields that are not.                                                *)
(***************************************************************************)
EXTENDS Sequences, Naturals

\* The comparisons crf_pdu_parse() makes, in order.  A legacy one turns the
\* PDU away in the lenient mode, too.  "data_len_short" and "data_len_long"
\* are one field, which cannot be both.
CrfChecks == <<
  [field |-> "version", legacy |-> TRUE],
  [field |-> "sv", legacy |-> TRUE],
  [field |-> "type", legacy |-> TRUE],
  [field |-> "base_freq", legacy |-> TRUE],
  [field |-> "fs", legacy |-> FALSE],
  [field |-> "pull", legacy |-> FALSE],
  [field |-> "timestamp_interval", legacy |-> FALSE],
  [field |-> "data_len_short", legacy |-> TRUE],
  [field |-> "data_len_long", legacy |-> FALSE]>>

\* Those of aaf_pdu_parse().
AafChecks == <<
  [field |-> "version", legacy |-> TRUE],
  [field |-> "tv", legacy |-> TRUE],
  [field |-> "format", legacy |-> TRUE],
  [field |-> "nsr", legacy |-> TRUE],
  [field |-> "chan_per_frame", legacy |-> TRUE],
  [field |-> "stream_data_len", legacy |-> TRUE],
  [field |-> "bit_depth", legacy |-> FALSE],
  [field |-> "sp", legacy |-> FALSE]>>

\* A datagram in which just one thing is not the profile's, or nothing.
Datagram(odd) ==
  [length    |-> odd # "length",
   subtype   |-> odd # "subtype",
   stream_id |-> odd # "stream_id",
   odd       |-> {odd} \ {"length", "subtype", "stream_id", "nothing"}]

\* note_mismatch() rejects.
Rejects(check, strict) == check.legacy \/ strict

\* The checks that find a disagreement.
Found(datagram, checks) == {i \in DOMAIN checks : checks[i].field \in datagram.odd}

\* Those that are made: up to the first that rejects.
Noted(datagram, checks, strict) ==
  {i \in Found(datagram, checks) :
     \A j \in Found(datagram, checks) : j < i => ~Rejects(checks[j], strict)}

\* The last of them that noted something.
LastNoted(datagram, checks, strict) ==
  checks[CHOOSE i \in Noted(datagram, checks, strict) :
           \A j \in Noted(datagram, checks, strict) : j <= i]

Verdict(datagram, checks, strict) ==
  CASE ~datagram.length    -> "MALFORMED"
    [] datagram.length /\ ~datagram.subtype -> "NOT_OURS"
    [] datagram.length /\ datagram.subtype /\ ~datagram.stream_id -> "OTHER_STREAM"
    [] OTHER -> IF /\ Noted(datagram, checks, strict) # {}
                   /\ Rejects(LastNoted(datagram, checks, strict), strict)
                  THEN "PROFILE" ELSE "OK"

\* A defect the model can be run with: what is accepted is not looked at.
ReportedRejects(reported, datagram, checks, strict) ==
  IF /\ reported = "nothing"
     /\ Verdict(datagram, checks, strict) = "PROFILE"
    THEN LastNoted(datagram, checks, strict).field
    ELSE reported

\* report_mismatch(): the last field noted, the first time there is one.
Reported(reported, datagram, checks, strict) ==
  IF /\ reported = "nothing"
     /\ Verdict(datagram, checks, strict) \in {"PROFILE", "OK"}
     /\ Noted(datagram, checks, strict) # {}
    THEN LastNoted(datagram, checks, strict).field
    ELSE reported
=============================================================================
