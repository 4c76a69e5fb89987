------------------------------ MODULE PduTables ------------------------------
(***************************************************************************)
(* Where each format of libavtp keeps each field: the shifts and masks of  *)
(* src/avtp*.c.  The getters and the setters have tables of their own, as  *)
(* each has a switch of its own in the code.                               *)
(***************************************************************************)
EXTENDS Bitmap, Functions, TLC

CommonGetter ==
  [SUBTYPE |-> Field("subtype_data", 8, 31 - 7), VERSION |-> Field("subtype_data", 3, 31 - 11)]

CommonSetter ==
  [SUBTYPE |-> Field("subtype_data", 8, 31 - 7), VERSION |-> Field("subtype_data", 3, 31 - 11)]

StreamGetter == CommonGetter @@
  [SV |-> Field("subtype_data", 1, 31 - 8),
   MR |-> Field("subtype_data", 1, 31 - 12),
   TV |-> Field("subtype_data", 1, 31 - 15),
   SEQ_NUM |-> Field("subtype_data", 8, 31 - 23),
   TU |-> Field("subtype_data", 1, 0),
   STREAM_DATA_LEN |-> Field("packet_info", 16, 31 - 15),
   TIMESTAMP |-> Field("avtp_time", 32, 0),
   STREAM_ID |-> Field("stream_id", 64, 0)]

StreamSetter == CommonSetter @@
  [SV |-> Field("subtype_data", 1, 31 - 8),
   MR |-> Field("subtype_data", 1, 31 - 12),
   TV |-> Field("subtype_data", 1, 31 - 15),
   SEQ_NUM |-> Field("subtype_data", 8, 31 - 23),
   TU |-> Field("subtype_data", 1, 0),
   STREAM_DATA_LEN |-> Field("packet_info", 16, 31 - 15),
   TIMESTAMP |-> Field("avtp_time", 32, 0),
   STREAM_ID |-> Field("stream_id", 64, 0)]

AafGetter == StreamGetter @@
  [FORMAT |-> Field("format_specific", 8, 31 - 7),
   NSR |-> Field("format_specific", 4, 31 - 11),
   CHAN_PER_FRAME |-> Field("format_specific", 10, 31 - 23),
   BIT_DEPTH |-> Field("format_specific", 8, 0),
   SP |-> Field("packet_info", 1, 31 - 19),
   EVT |-> Field("packet_info", 4, 31 - 23)]

AafSetter == StreamSetter @@
  [FORMAT |-> Field("format_specific", 8, 31 - 7),
   NSR |-> Field("format_specific", 4, 31 - 11),
   CHAN_PER_FRAME |-> Field("format_specific", 10, 31 - 23),
   BIT_DEPTH |-> Field("format_specific", 8, 0),
   SP |-> Field("packet_info", 1, 31 - 19),
   EVT |-> Field("packet_info", 4, 31 - 23)]

CvfGetter == StreamGetter @@
  [FORMAT |-> Field("format_specific", 8, 31 - 7),
   FORMAT_SUBTYPE |-> Field("format_specific", 8, 31 - 15),
   M |-> Field("packet_info", 1, 31 - 19),
   EVT |-> Field("packet_info", 4, 31 - 23),
   H264_PTV |-> Field("packet_info", 1, 31 - 18),
   H264_TIMESTAMP |-> Field("h264_header", 32, 0)]

CvfSetter == StreamSetter @@
  [FORMAT |-> Field("format_specific", 8, 31 - 7),
   FORMAT_SUBTYPE |-> Field("format_specific", 8, 31 - 15),
   M |-> Field("packet_info", 1, 31 - 19),
   EVT |-> Field("packet_info", 4, 31 - 23),
   H264_PTV |-> Field("packet_info", 1, 31 - 18),
   H264_TIMESTAMP |-> Field("h264_header", 32, 0)]

CrfGetter == CommonGetter @@
  [SV |-> Field("subtype_data", 1, 31 - 8),
   MR |-> Field("subtype_data", 1, 31 - 12),
   FS |-> Field("subtype_data", 1, 31 - 14),
   TU |-> Field("subtype_data", 1, 31 - 15),
   SEQ_NUM |-> Field("subtype_data", 8, 31 - 23),
   TYPE |-> Field("subtype_data", 8, 0),
   PULL |-> Field("packet_info", 3, 63 - 2),
   BASE_FREQ |-> Field("packet_info", 29, 63 - 31),
   CRF_DATA_LEN |-> Field("packet_info", 16, 63 - 47),
   TIMESTAMP_INTERVAL |-> Field("packet_info", 16, 0),
   STREAM_ID |-> Field("stream_id", 64, 0)]

\* set_field_value_32
CrfWordSetter == CommonSetter @@
  [SV |-> Field("subtype_data", 1, 31 - 8),
   MR |-> Field("subtype_data", 1, 31 - 12),
   FS |-> Field("subtype_data", 1, 31 - 14),
   TU |-> Field("subtype_data", 1, 31 - 15),
   SEQ_NUM |-> Field("subtype_data", 8, 31 - 23),
   TYPE |-> Field("subtype_data", 8, 0)]

\* set_field_value_64 and the stream identifier
CrfSetter == CrfWordSetter @@
  [PULL |-> Field("packet_info", 3, 63 - 2),
   BASE_FREQ |-> Field("packet_info", 29, 63 - 31),
   CRF_DATA_LEN |-> Field("packet_info", 16, 63 - 47),
   TIMESTAMP_INTERVAL |-> Field("packet_info", 16, 0),
   STREAM_ID |-> Field("stream_id", 64, 0)]

RvfHeaderGetter == StreamGetter @@
  [ACTIVE_PIXELS |-> Field("format_specific", 16, 31 - 15),
   TOTAL_LINES |-> Field("format_specific", 16, 31 - 31),
   AP |-> Field("packet_info", 1, 31 - 16),
   F |-> Field("packet_info", 1, 31 - 18),
   EF |-> Field("packet_info", 1, 31 - 19),
   EVT |-> Field("packet_info", 4, 31 - 23),
   PD |-> Field("packet_info", 1, 31 - 24),
   I |-> Field("packet_info", 1, 31 - 25)]

RvfGetter == RvfHeaderGetter @@
  [RAW_PIXEL_DEPTH |-> Field("raw_header", 4, 63 - 11),
   RAW_PIXEL_FORMAT |-> Field("raw_header", 4, 63 - 15),
   RAW_FRAME_RATE |-> Field("raw_header", 8, 63 - 23),
   RAW_COLORSPACE |-> Field("raw_header", 4, 63 - 27),
   RAW_NUM_LINES |-> Field("raw_header", 4, 63 - 31),
   RAW_I_SEQ_NUM |-> Field("raw_header", 8, 63 - 47),
   RAW_LINE_NUMBER |-> Field("raw_header", 16, 63 - 63)]

RvfHeaderSetter == StreamSetter @@
  [ACTIVE_PIXELS |-> Field("format_specific", 16, 31 - 15),
   TOTAL_LINES |-> Field("format_specific", 16, 31 - 31),
   AP |-> Field("packet_info", 1, 31 - 16),
   F |-> Field("packet_info", 1, 31 - 18),
   EF |-> Field("packet_info", 1, 31 - 19),
   EVT |-> Field("packet_info", 4, 31 - 23),
   PD |-> Field("packet_info", 1, 31 - 24),
   I |-> Field("packet_info", 1, 31 - 25)]

RvfSetter == RvfHeaderSetter @@
  [RAW_PIXEL_DEPTH |-> Field("raw_header", 4, 63 - 11),
   RAW_PIXEL_FORMAT |-> Field("raw_header", 4, 63 - 15),
   RAW_FRAME_RATE |-> Field("raw_header", 8, 63 - 23),
   RAW_COLORSPACE |-> Field("raw_header", 4, 63 - 27),
   RAW_NUM_LINES |-> Field("raw_header", 4, 63 - 31),
   RAW_I_SEQ_NUM |-> Field("raw_header", 8, 63 - 47),
   RAW_LINE_NUMBER |-> Field("raw_header", 16, 63 - 63)]

\* A value in two words: get_vendor_id() and set_vendor_id().
VendorGetter == StreamGetter @@
  [VENDOR_ID |-> [b \in 0 .. 47 |-> IF b < 16 THEN <<"packet_info", b>>
                                    ELSE <<"format_specific", b - 16>>]]

VendorSetter == StreamSetter @@
  [VENDOR_ID |-> [b \in 0 .. 47 |-> IF b < 16 THEN <<"packet_info", b>>
                                    ELSE <<"format_specific", b - 16>>]]

IecHeaderGetter == StreamGetter @@
  [GV |-> Field("subtype_data", 1, 31 - 14),
   TAG |-> Field("packet_info", 2, 31 - 17),
   CHANNEL |-> Field("packet_info", 6, 31 - 23),
   TCODE |-> Field("packet_info", 4, 31 - 27),
   SY |-> Field("packet_info", 4, 0),
   GATEWAY_INFO |-> Field("format_specific", 32, 0)]

IecGetter == IecHeaderGetter @@
  [CIP_QI_1 |-> Field("cip_1", 2, 31 - 1),
   CIP_QI_2 |-> Field("cip_2", 2, 31 - 1),
   CIP_SID |-> Field("cip_1", 6, 31 - 7),
   CIP_DBS |-> Field("cip_1", 8, 31 - 15),
   CIP_FN |-> Field("cip_1", 2, 31 - 17),
   CIP_QPC |-> Field("cip_1", 3, 31 - 20),
   CIP_SPH |-> Field("cip_1", 1, 31 - 21),
   CIP_DBC |-> Field("cip_1", 8, 0),
   CIP_FMT |-> Field("cip_2", 6, 31 - 7),
   CIP_TSF |-> Field("cip_2", 1, 31 - 8),
   CIP_EVT |-> Field("cip_2", 2, 31 - 11),
   CIP_SFC |-> Field("cip_2", 3, 31 - 15),
   CIP_N |-> Field("cip_2", 1, 31 - 12),
   CIP_ND |-> Field("cip_2", 1, 31 - 8),
   CIP_NO_DATA |-> Field("cip_2", 8, 31 - 15),
   CIP_SYT |-> Field("cip_2", 16, 0)]

IecHeaderSetter == StreamSetter @@
  [GV |-> Field("subtype_data", 1, 31 - 14),
   TAG |-> Field("packet_info", 2, 31 - 17),
   CHANNEL |-> Field("packet_info", 6, 31 - 23),
   TCODE |-> Field("packet_info", 4, 31 - 27),
   SY |-> Field("packet_info", 4, 0),
   GATEWAY_INFO |-> Field("format_specific", 32, 0)]

IecSetter == IecHeaderSetter @@
  [CIP_QI_1 |-> Field("cip_1", 2, 31 - 1),
   CIP_QI_2 |-> Field("cip_2", 2, 31 - 1),
   CIP_SID |-> Field("cip_1", 6, 31 - 7),
   CIP_DBS |-> Field("cip_1", 8, 31 - 15),
   CIP_FN |-> Field("cip_1", 2, 31 - 17),
   CIP_QPC |-> Field("cip_1", 3, 31 - 20),
   CIP_SPH |-> Field("cip_1", 1, 31 - 21),
   CIP_DBC |-> Field("cip_1", 8, 0),
   CIP_FMT |-> Field("cip_2", 6, 31 - 7),
   CIP_TSF |-> Field("cip_2", 1, 31 - 8),
   CIP_EVT |-> Field("cip_2", 2, 31 - 11),
   CIP_SFC |-> Field("cip_2", 3, 31 - 15),
   CIP_N |-> Field("cip_2", 1, 31 - 12),
   CIP_ND |-> Field("cip_2", 1, 31 - 8),
   CIP_NO_DATA |-> Field("cip_2", 8, 31 - 15),
   CIP_SYT |-> Field("cip_2", 16, 0)]

\* The format dependent fields share one octet of the second CIP word: each
\* part of IEC 61883 has its own (avtp_ieciidc.h).
DependentFields ==
  [IEC4 |-> {"CIP_TSF"},
   IEC6 |-> {"CIP_EVT", "CIP_SFC", "CIP_N"},
   IEC6_EMPTY |-> {"CIP_NO_DATA"},
   IEC8 |-> {"CIP_ND"}]

\* The fields of a part: those of the other parts are left out of its table.
Part(table, part) ==
  Restrict(table, DOMAIN table \ UNION {DependentFields[p] \ DependentFields[part] :
                                          p \in DOMAIN DependentFields})

AvtpGetter ==
  [AAF |-> AafGetter, CVF |-> CvfGetter, CRF |-> CrfGetter, RVF |-> RvfGetter,
   VSF |-> VendorGetter]
  @@ [part \in DOMAIN DependentFields |-> Part(IecGetter, part)]

AvtpSetter ==
  [AAF |-> AafSetter, CVF |-> CvfSetter, CRF |-> CrfSetter, RVF |-> RvfSetter,
   VSF |-> VendorSetter]
  @@ [part \in DOMAIN DependentFields |-> Part(IecSetter, part)]
=============================================================================
