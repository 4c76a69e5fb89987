------------------------------- MODULE PduAccess -------------------------------
(***************************************************************************)
(* The accessors of libavtp at work on one PDU: init, get and set of every *)
(* format, over the tables of where each field is kept.  A call with a field   *)
(* of another format, or with an argument init does not know, returns      *)
(* -EINVAL and changes nothing: it is not a step.                          *)
(***************************************************************************)
EXTENDS PduTables

CONSTANTS
  Memory,          \* what the memory of a PDU may hold before init
  Values,          \* the values written, each a set of bits
  MaxCalls         \* calls in the run

VARIABLES
  format,  \* the format the PDU was initialised for
  pdu,     \* its memory, the headers in the payload included
  calls

vars == <<format, pdu, calls>>

ASSUME AccessAssumption == MaxCalls \in Nat

Getter == AvtpGetter
Setter == AvtpSetter

Formats == DOMAIN Getter

\* The parts of IEC 61883 whose fields differ.
Iec61883 == DOMAIN DependentFields

\* The fields that init sets itself.
SetByInit(fmt) ==
  {"SUBTYPE", "SV"}
    \cup (IF fmt = "CVF" THEN {"FORMAT", "FORMAT_SUBTYPE"}
          ELSE IF fmt \in Iec61883 THEN {"TCODE", "TAG"}
          ELSE {})

\* The words of the headers that are part of the payload.
PayloadWords == {"cip_1", "cip_2", "h264_header", "raw_header"}

\* Getters and setters agree on the places of every field, and the fields of a
\* format share none.
TablesAgree ==
  \A fmt \in Formats :
    /\ DOMAIN Setter[fmt] = DOMAIN Getter[fmt]
    /\ \A f \in DOMAIN Getter[fmt] :
         /\ Setter[fmt][f] = Getter[fmt][f]
         /\ \A b, c \in DOMAIN Getter[fmt][f] :
              Getter[fmt][f][b] = Getter[fmt][f][c] => b = c
         /\ \A g \in DOMAIN Getter[fmt] \ {f} :
              Places(Getter[fmt][f]) \cap Places(Getter[fmt][g]) = {}

\* AVTP_SUBTYPE_*, bit by bit
Subtype(fmt) ==
  CASE fmt = "AAF" -> {1}
    [] fmt = "CVF" -> {0, 1}
    [] fmt = "CRF" -> {2}
    [] fmt = "RVF" -> {0, 1, 2}
    [] fmt = "VSF" -> {0, 1, 2, 3, 5, 6}
    [] OTHER -> {}

\* The arguments init accepts: a CVF format subtype, an IEC 61883 tag.
Arguments(fmt) ==
  IF fmt = "CVF" THEN {{}, {0}, {1}}
  ELSE IF fmt \in Iec61883 THEN {{}, {0}}
  ELSE {{}}

\* The values a field has after init, as the headers in include/ document them.
Default(fmt, arg, f) ==
  IF f = "SUBTYPE" THEN Subtype(fmt)
  ELSE IF f = "SV" THEN {0}
  ELSE IF f = "FORMAT" /\ fmt = "CVF" THEN {1}
  ELSE IF f = "FORMAT_SUBTYPE" /\ fmt = "CVF" THEN arg
  ELSE IF f = "TCODE" /\ fmt \in Iec61883 THEN {1, 3}
  ELSE IF f = "TAG" /\ fmt \in Iec61883 THEN arg
  ELSE {}

\* All that the theorems use of the tables of libavtp.
ASSUME TablesAssumption ==
  /\ TablesAgree
  /\ DOMAIN Setter = Formats /\ "none" \notin Formats
  /\ \A fmt \in Formats : SetByInit(fmt) \subseteq DOMAIN Getter[fmt]
  /\ \A fmt \in Formats : \A arg \in Arguments(fmt) : \A f \in SetByInit(fmt) :
       Default(fmt, arg, f) \subseteq DOMAIN Getter[fmt][f]

-----------------------------------------------------------------------------

Get(memory, fmt, f) == GetValue(memory, Getter[fmt][f])

Set(memory, fmt, f, val) == SetValue(memory, Setter[fmt][f], val)

\* memset() of struct avtp_stream_pdu or struct avtp_crf_pdu
Zeroed(memory) == {place \in memory : place[1] \in PayloadWords}

\* What every init does first.
Begun(memory, fmt) ==
  Set(Set(Zeroed(memory), fmt, "SUBTYPE", Subtype(fmt)), fmt, "SV", {0})

CvfBegun(memory, fmt, arg) ==
  Set(Set(Begun(memory, fmt), fmt, "FORMAT", {1}), fmt, "FORMAT_SUBTYPE", arg)

IecBegun(memory, fmt, arg) ==
  Set(Set(Begun(memory, fmt), fmt, "TCODE", {1, 3}), fmt, "TAG", arg)

Initialised(memory, fmt, arg) ==
  IF fmt = "CVF" THEN CvfBegun(memory, fmt, arg)
  ELSE IF fmt \in Iec61883 THEN IecBegun(memory, fmt, arg)
  ELSE Begun(memory, fmt)

-----------------------------------------------------------------------------

Init ==
  /\ format = "none"
  /\ pdu \in Memory
  /\ calls = 0

InitPdu(fmt, arg) ==
  /\ calls < MaxCalls
  /\ calls' = calls + 1
  /\ format' = fmt
  /\ pdu' = Initialised(pdu, fmt, arg)

SetPdu(f, val) ==
  /\ calls < MaxCalls
  /\ calls' = calls + 1
  /\ pdu' = Set(pdu, format, f, val)
  /\ UNCHANGED format

Next ==
  \/ \E fmt \in Formats : \E arg \in Arguments(fmt) : InitPdu(fmt, arg)
  \/ format # "none" /\ \E f \in DOMAIN Setter[format], val \in Values : SetPdu(f, val)

Spec == Init /\ [][Next]_vars

-----------------------------------------------------------------------------

HeaderFields(fmt) ==
  {f \in DOMAIN Getter[fmt] : \A place \in Places(Getter[fmt][f]) :
                                place[1] \notin PayloadWords}

\* What the getters return, field by field.
FieldValues ==
  IF format = "none" THEN <<>>
  ELSE [f \in DOMAIN Getter[format] |-> Get(pdu, format, f)]

Calls == {<<fmt, arg>> : fmt \in Formats, arg \in {{}, {0}, {1}}}

Store == INSTANCE FieldStore WITH
  values <- FieldValues,
  FieldsOf <- [fmt \in Formats |-> DOMAIN Getter[fmt]],
  WidthOf <- [fmt \in Formats |-> [f \in DOMAIN Getter[fmt] |-> DOMAIN Getter[fmt][f]]],
  Defaults <- [c \in {c \in Calls : c[2] \in Arguments(c[1])} |->
                 [f \in HeaderFields(c[1]) |-> Default(c[1], c[2], f)]]

\* The accessors implement a record of independent fields: each getter returns
\* what the setter of the same field was last given, cut to its width, whatever
\* was written to the other fields of the format, and init gives the header
\* fields their documented values (src/avtp*.c, include/avtp*.h).
StoreSpec == Store!Spec
=============================================================================
