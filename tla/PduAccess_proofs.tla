--------------------------- MODULE PduAccess_proofs ---------------------------
(***************************************************************************)
(* Theorems about the accessors of libavtp, for any PDU memory, any values *)
(* and any number of calls, over the tables of PduTables.  All they use of *)
(* the tables is TablesAssumption, which TLC evaluates.                    *)
(***************************************************************************)
EXTENDS PduAccess, TLAPS

\* Getters and setters agree on the place of each bit of a field.
LEMMA SameTables ==
  ASSUME NEW fmt \in Formats, NEW f \in DOMAIN Getter[fmt]
  PROVE  /\ Setter[fmt][f] = Getter[fmt][f]
         /\ DOMAIN Setter[fmt] = DOMAIN Getter[fmt]
BY TablesAssumption DEF TablesAgree

\* A set field reads back what was written, as far as it is wide.
LEMMA GetAfterSet ==
  ASSUME NEW memory, NEW val, NEW fmt \in Formats, NEW f \in DOMAIN Getter[fmt]
  PROVE  Get(Set(memory, fmt, f, val), fmt, f) = val \cap DOMAIN Getter[fmt][f]
<1> DEFINE field == Getter[fmt][f]
<1>1. \A b, c \in DOMAIN field : field[b] = field[c] => b = c
  BY TablesAssumption DEF TablesAgree
<1>2. Set(memory, fmt, f, val) = SetValue(memory, field, val)
  BY SameTables DEF Set
<1>3. GetValue(SetValue(memory, field, val), field) = val \cap DOMAIN field
  <2> HIDE DEF field
  <2> QED BY <1>1 DEF GetValue, SetValue, Places
<1> QED BY <1>2, <1>3 DEF Get

\* A set field disturbs no other.
LEMMA GetAfterOther ==
  ASSUME NEW memory, NEW val, NEW fmt \in Formats,
         NEW f \in DOMAIN Getter[fmt], NEW g \in DOMAIN Getter[fmt], f # g
  PROVE  Get(Set(memory, fmt, f, val), fmt, g) = Get(memory, fmt, g)
<1> DEFINE field == Getter[fmt][f]
           other == Getter[fmt][g]
<1>1. Places(field) \cap Places(other) = {}
  BY TablesAssumption DEF TablesAgree
<1>2. Set(memory, fmt, f, val) = SetValue(memory, field, val)
  BY SameTables DEF Set
<1>3. GetValue(SetValue(memory, field, val), other) = GetValue(memory, other)
  <2> HIDE DEF field, other
  <2> QED BY <1>1 DEF GetValue, SetValue, Places
<1> QED BY <1>2, <1>3 DEF Get

\* memset() clears every field of the header.
LEMMA HeaderZeroed ==
  ASSUME NEW memory, NEW fmt \in Formats, NEW f \in HeaderFields(fmt)
  PROVE  Get(Zeroed(memory), fmt, f) = {}
BY DEF Get, GetValue, Zeroed, HeaderFields, Places

-----------------------------------------------------------------------------

\* What every init does first gives the two fields all formats have their
\* values, and leaves the rest of the header clear.
LEMMA BegunValues ==
  ASSUME NEW memory, NEW fmt \in Formats, NEW f \in HeaderFields(fmt)
  PROVE  Get(Begun(memory, fmt), fmt, f) =
           IF f = "SV" THEN {0} \cap DOMAIN Getter[fmt][f]
           ELSE IF f = "SUBTYPE" THEN Subtype(fmt) \cap DOMAIN Getter[fmt][f]
           ELSE {}
<1> DEFINE zeroed == Zeroed(memory)
           typed == Set(zeroed, fmt, "SUBTYPE", Subtype(fmt))
<1>1. f \in DOMAIN Getter[fmt]
  BY DEF HeaderFields
<1>2. {"SUBTYPE", "SV"} \subseteq DOMAIN Getter[fmt]
  BY TablesAssumption DEF SetByInit
<1>3. Get(zeroed, fmt, f) = {}
  BY HeaderZeroed
<1>4. Get(typed, fmt, f) =
        IF f = "SUBTYPE" THEN Subtype(fmt) \cap DOMAIN Getter[fmt][f] ELSE {}
  <2> HIDE DEF zeroed
  <2>1. CASE f = "SUBTYPE"
    BY <2>1, <1>2, GetAfterSet
  <2>2. CASE f # "SUBTYPE"
    BY <2>2, <1>1, <1>2, <1>3, GetAfterOther
  <2> QED BY <2>1, <2>2
<1>5. Begun(memory, fmt) = Set(typed, fmt, "SV", {0})
  BY DEF Begun
<1> HIDE DEF typed
<1>6. CASE f = "SV"
  BY <1>6, <1>2, <1>5, GetAfterSet
<1>7. CASE f # "SV"
  BY <1>7, <1>1, <1>2, <1>4, <1>5, GetAfterOther
<1> QED BY <1>6, <1>7

\* A value cut to the width of a field.
Cut(fmt, f, val) == val \cap DOMAIN Getter[fmt][f]

\* A field after a set of any field.
LEMMA GetSet ==
  ASSUME NEW memory, NEW fmt \in Formats, NEW g \in DOMAIN Getter[fmt], NEW v,
         NEW f \in DOMAIN Getter[fmt]
  PROVE  Get(Set(memory, fmt, g, v), fmt, f) =
           IF f = g THEN Cut(fmt, f, v) ELSE Get(memory, fmt, f)
BY GetAfterSet, GetAfterOther DEF Cut

\* Init gives every field of the header its documented value.
LEMMA InitDefaults ==
  ASSUME NEW memory, NEW fmt \in Formats, NEW arg \in Arguments(fmt),
         NEW f \in HeaderFields(fmt)
  PROVE  Get(Initialised(memory, fmt, arg), fmt, f) = Default(fmt, arg, f)
<1> DEFINE width == DOMAIN Getter[fmt][f]
           begun == Begun(memory, fmt)
<1>1. f \in DOMAIN Getter[fmt]
  BY DEF HeaderFields
<1>2. SetByInit(fmt) \subseteq DOMAIN Getter[fmt]
  BY TablesAssumption
<1>3. f \in SetByInit(fmt) => Default(fmt, arg, f) \cap width = Default(fmt, arg, f)
  BY TablesAssumption
<1>4. Get(begun, fmt, f) = IF f = "SV" THEN {0} \cap width
                           ELSE IF f = "SUBTYPE" THEN Subtype(fmt) \cap width
                           ELSE {}
  BY BegunValues
<1>5. "CVF" \notin Iec61883
  BY DEF Iec61883, DependentFields
<1>6. CASE fmt = "CVF"
  <2>1. Initialised(memory, fmt, arg) =
          Set(Set(begun, fmt, "FORMAT", {1}), fmt, "FORMAT_SUBTYPE", arg)
    BY <1>6 DEF Initialised, CvfBegun
  <2>2. SetByInit(fmt) = {"SUBTYPE", "SV", "FORMAT", "FORMAT_SUBTYPE"}
    BY <1>5, <1>6 DEF SetByInit
  <2> HIDE DEF begun, width
  <2>3. Get(Initialised(memory, fmt, arg), fmt, f) =
          IF f = "FORMAT_SUBTYPE" THEN arg \cap width
          ELSE IF f = "FORMAT" THEN {1} \cap width
          ELSE Get(begun, fmt, f)
    <3> DEFINE g == "FORMAT"
               h == "FORMAT_SUBTYPE"
               v == {1}
    <3>1. {g, h} \subseteq DOMAIN Getter[fmt]
      BY <1>2, <2>2
    <3>2. Get(Set(Set(begun, fmt, g, v), fmt, h, arg), fmt, f) =
            IF f = h THEN Cut(fmt, f, arg)
            ELSE IF f = g THEN Cut(fmt, f, v)
            ELSE Get(begun, fmt, f)
      <4> HIDE DEF g, h, v
      <4> QED BY <1>1, <3>1, GetSet
    <3> QED BY <2>1, <3>2 DEF Cut, width
  <2> QED BY <1>3, <1>4, <1>5, <1>6, <2>2, <2>3 DEF Default
<1>7. CASE fmt \in Iec61883
  <2>1. Initialised(memory, fmt, arg) =
          Set(Set(begun, fmt, "TCODE", {1, 3}), fmt, "TAG", arg)
    BY <1>5, <1>7 DEF Initialised, IecBegun
  <2>2. SetByInit(fmt) = {"SUBTYPE", "SV", "TCODE", "TAG"}
    BY <1>5, <1>7 DEF SetByInit
  <2> HIDE DEF begun, width
  <2>3. Get(Initialised(memory, fmt, arg), fmt, f) =
          IF f = "TAG" THEN arg \cap width
          ELSE IF f = "TCODE" THEN {1, 3} \cap width
          ELSE Get(begun, fmt, f)
    <3> DEFINE g == "TCODE"
               h == "TAG"
               v == {1, 3}
    <3>1. {g, h} \subseteq DOMAIN Getter[fmt]
      BY <1>2, <2>2
    <3>2. Get(Set(Set(begun, fmt, g, v), fmt, h, arg), fmt, f) =
            IF f = h THEN Cut(fmt, f, arg)
            ELSE IF f = g THEN Cut(fmt, f, v)
            ELSE Get(begun, fmt, f)
      <4> HIDE DEF g, h, v
      <4> QED BY <1>1, <3>1, GetSet
    <3> QED BY <2>1, <3>2 DEF Cut, width
  <2> QED BY <1>3, <1>4, <1>5, <1>7, <2>2, <2>3 DEF Default
<1>8. CASE fmt # "CVF" /\ fmt \notin Iec61883
  <2>1. Initialised(memory, fmt, arg) = begun
    BY <1>8 DEF Initialised
  <2>2. SetByInit(fmt) = {"SUBTYPE", "SV"}
    BY <1>8 DEF SetByInit
  <2> HIDE DEF begun, width
  <2> QED BY <1>3, <1>4, <1>8, <2>1, <2>2 DEF Default
<1> QED BY <1>6, <1>7, <1>8

-----------------------------------------------------------------------------

FormatOK == format \in Formats \cup {"none"}

\* Every step of the accessors is a step of the record of fields.
LEMMA StoreStep ==
  ASSUME FormatOK, [Next]_vars
  PROVE  FormatOK' /\ [Store!Next]_Store!vars
<1>1. ASSUME NEW fmt \in Formats, NEW arg \in Arguments(fmt), InitPdu(fmt, arg)
      PROVE  FormatOK' /\ Store!Next
  <2>1. format' = fmt /\ fmt # "none"
    BY <1>1, TablesAssumption DEF InitPdu
  <2>2. FieldValues' = [f \in DOMAIN Getter[fmt] |-> Get(pdu', fmt, f)]
    BY <2>1 DEF FieldValues
  <2>3. \A f \in HeaderFields(fmt) : Get(pdu', fmt, f) = Default(fmt, arg, f)
    BY <1>1, InitDefaults DEF InitPdu
  <2>4. HeaderFields(fmt) \subseteq DOMAIN Getter[fmt]
    BY DEF HeaderFields
  <2>5. <<fmt, arg>> \in {c \in Calls : c[2] \in Arguments(c[1])}
    BY DEF Calls, Arguments
  <2>6. Store!InitPdu(fmt, arg)
    BY <2>1, <2>2, <2>3, <2>4, <2>5 DEF Store!InitPdu
  <2> QED BY <2>1, <2>5, <2>6 DEF Store!Next, FormatOK
<1>2. ASSUME format # "none", NEW f \in DOMAIN Setter[format], NEW val \in Values,
             SetPdu(f, val)
      PROVE  FormatOK' /\ Store!Next
  <2>1. format \in Formats /\ format' = format
    BY <1>2 DEF FormatOK, SetPdu
  <2>2. DOMAIN Setter[format] = DOMAIN Getter[format]
    BY <2>1, TablesAssumption DEF TablesAgree
  <2>3. FieldValues = [g \in DOMAIN Getter[format] |-> Get(pdu, format, g)]
    BY <1>2 DEF FieldValues
  <2>4. FieldValues' = [g \in DOMAIN Getter[format] |-> Get(pdu', format, g)]
    BY <1>2, <2>1 DEF FieldValues
  <2>5. Get(pdu', format, f) = val \cap DOMAIN Getter[format][f]
    BY <1>2, <2>1, <2>2, GetAfterSet DEF SetPdu
  <2>6. \A g \in DOMAIN Getter[format] \ {f} : Get(pdu', format, g) = Get(pdu, format, g)
    BY <1>2, <2>1, <2>2, GetAfterOther DEF SetPdu
  <2>7. Store!SetPdu(f, val)
    BY <2>1, <2>2, <2>3, <2>4, <2>5, <2>6, <1>2 DEF Store!SetPdu
  <2> QED BY <1>2, <2>1, <2>2, <2>7 DEF Store!Next, FormatOK
<1>3. CASE UNCHANGED vars
  <2>1. UNCHANGED <<format, FieldValues>>
    BY <1>3 DEF vars, FieldValues, Get
  <2> QED BY <2>1 DEF Store!vars, FormatOK
<1> QED BY <1>1, <1>2, <1>3 DEF Next

\* For any memory, values and number of calls: init, getters and setters of
\* every format implement a record of independent fields.
THEOREM FieldsAreIndependent == Spec => StoreSpec
<1>1. Init => FormatOK /\ Store!Init
  BY DEF Init, FormatOK, Store!Init, FieldValues
<1>2. FormatOK /\ [Next]_vars => FormatOK' /\ [Store!Next]_Store!vars
  BY StoreStep
<1> QED BY <1>1, <1>2, PTL DEF Spec, StoreSpec, Store!Spec
=============================================================================
