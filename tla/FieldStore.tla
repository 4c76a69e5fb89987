------------------------------ MODULE FieldStore ------------------------------
(***************************************************************************)
(* What the accessors of libavtp promise: a PDU is a record of fields.  A  *)
(* field keeps what was last written to it, as far as it is wide, whatever *)
(* is written to the others; init gives each header field its default.     *)
(***************************************************************************)
CONSTANTS
  FieldsOf,   \* the fields of a format
  WidthOf,    \* the bits of a field of a format
  Defaults,   \* format and argument to the values that init documents
  Values      \* the values written

VARIABLES format, values

vars == <<format, values>>

Init == format = "none" /\ values = <<>>

InitPdu(fmt, arg) ==
  /\ format' = fmt
  /\ DOMAIN values' = FieldsOf[fmt]
  /\ \A f \in DOMAIN Defaults[<<fmt, arg>>] : values'[f] = Defaults[<<fmt, arg>>][f]

SetPdu(f, val) ==
  /\ values'[f] = val \cap WidthOf[format][f]
  /\ DOMAIN values' = DOMAIN values
  /\ \A g \in DOMAIN values \ {f} : values'[g] = values[g]
  /\ UNCHANGED format

Next ==
  \/ \E init \in DOMAIN Defaults : InitPdu(init[1], init[2])
  \/ format # "none" /\ \E f \in FieldsOf[format], val \in Values : SetPdu(f, val)

Spec == Init /\ [][Next]_vars
=============================================================================
