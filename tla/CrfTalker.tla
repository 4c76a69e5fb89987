------------------------------ MODULE CrfTalker ------------------------------
(***************************************************************************)
(* The hardware-timestamping CRF talker, crf-talker-rpi.c: the main loop   *)
(* that turns extts events of the NIC into CRF PDUs, and its stall         *)
(* recovery (two re-arms of the channels, then a link bounce).             *)
(***************************************************************************)
EXTENDS CrfStream

CONSTANTS
  ReArmAttempts,   \* REARM_ATTEMPTS_BEFORE_RESET: 3
  SelectPeriods,   \* edge periods in the loop's one-second select timeout
  SettlePeriods    \* edge periods in LINK_RESET_SETTLE_MS

ASSUME TalkerAssumption ==
  /\ ReArmAttempts \in Nat \ {0}
  /\ SelectPeriods \in Nat \ {0}
  /\ SettlePeriods \in Nat

VARIABLES
  armed,         \* extts channel 1 captures edges (igc hardware)
  txq,           \* extts events the PTP device holds for the talker
  quiet,         \* edge periods spent in the present select with no event;
                 \* negative while the loop sleeps after a link bounce
  crf_data,      \* pdu->crf_data[0 .. ts_idx - 1]; ts_idx is its length
  seq_num,       \* sequence number of the next PDU
  stall_count,   \* select timeouts since the last recovery
  next_id        \* PDUs sent so far (not in the code: identifies PDUs)

talkerVars == <<armed, txq, quiet, crf_data, seq_num, stall_count, next_id>>

TalkerInit ==
  /\ armed = TRUE
  /\ txq = <<>>
  /\ quiet = 0
  /\ crf_data = <<>>
  /\ seq_num = 0
  /\ stall_count = 0
  /\ next_id = 0

-----------------------------------------------------------------------------

\* One edge period at the talker: the NIC captures edge k or it does not, and
\* a select that has waited its whole second returns before the next period.
TalkerCapture(k, captured) ==
  /\ quiet < SelectPeriods \/ txq # <<>>
  /\ captured => armed /\ quiet >= 0
  /\ txq' = IF captured THEN Append(txq, k) ELSE txq
  /\ quiet' = IF txq' = <<>> THEN quiet + 1 ELSE quiet
  /\ UNCHANGED <<armed, crf_data, seq_num, stall_count, next_id>>

\* The NIC stops capturing on channel 1 until something re-arms it.
ChannelDies ==
  /\ armed
  /\ armed' = FALSE
  /\ UNCHANGED <<txq, quiet, crf_data, seq_num, stall_count, next_id>>

\* A defect the model can be run with: the PDU is sent one timestamp late.
FillsLate == Len(crf_data) = TsPerPdu

\* The event at the head of the queue is the last one the PDU has room for.
Fills == Len(crf_data) + 1 = TsPerPdu

\* The PDU sendto() hands to the network in ReadEdge, none while it has room.
Sent ==
  IF Fills
    THEN <<[id         |-> next_id,
            seq_num    |-> seq_num,
            timestamps |-> Append(crf_data, Head(txq))]>>
    ELSE <<>>

\* select() returns and the event is for channel 1: store it, and once the PDU
\* is full number it, send it and start over.
ReadEdge ==
  /\ txq # <<>>
  /\ quiet >= 0
  /\ txq' = Tail(txq)
  /\ crf_data' = IF Fills THEN <<>> ELSE Append(crf_data, Head(txq))
  /\ seq_num' = IF Fills THEN (seq_num + 1) % SeqNumMod ELSE seq_num
  /\ next_id' = IF Fills THEN next_id + 1 ELSE next_id
  /\ stall_count' = IF crf_data = <<>> THEN 0 ELSE stall_count
  /\ quiet' = 0
  /\ UNCHANGED armed

\* A defect the model can be run with: a stall keeps the half-filled PDU.
KeepPartialPdu == crf_data

\* What a stall leaves of the half-filled PDU: ts_idx = 0.
PartialPduAfterStall == <<>>

\* select() returns for an event of another channel, which read() takes off the
\* queue: the edge channel has said nothing, and select() starts a new second.
SkipEvent ==
  /\ quiet >= 0
  /\ quiet' = 0
  /\ UNCHANGED <<armed, txq, crf_data, seq_num, stall_count, next_id>>

\* The process ends and is started again, which opens the device anew and arms
\* the channel.
TalkerRestart ==
  /\ armed' = TRUE
  /\ txq' = <<>>
  /\ quiet' = 0
  /\ crf_data' = <<>>
  /\ seq_num' = 0
  /\ stall_count' = 0
  /\ UNCHANGED next_id

\* select() times out.  Two times out of three the channels are disabled and
\* enabled again, whatever the result; every ReArmAttempts-th time the link is
\* bounced, which may fail, at worst with the link down, or be followed by a
\* settling sleep before the channels are enabled again.  The three outcomes
\* give up the partial PDU and keep seq_num.
SelectTimeout ==
  /\ txq = <<>>
  /\ quiet = SelectPeriods
  /\ stall_count' = stall_count + 1
  /\ \/ /\ stall_count' % ReArmAttempts # 0
        /\ armed' \in BOOLEAN
        /\ quiet' = 0
     \/ /\ stall_count' % ReArmAttempts = 0
        /\ armed' \in {armed, FALSE}
        /\ quiet' = 0
     \/ /\ stall_count' % ReArmAttempts = 0
        /\ armed' \in BOOLEAN
        /\ quiet' = -SettlePeriods
  /\ crf_data' = PartialPduAfterStall
  /\ UNCHANGED <<txq, seq_num, next_id>>

TalkerTypeOK ==
  /\ armed \in BOOLEAN
  /\ txq \in Seq(Nat)
  /\ quiet \in -SettlePeriods .. SelectPeriods
  /\ crf_data \in Seq(Nat)
  /\ Len(crf_data) < TsPerPdu
  /\ seq_num \in 0 .. SeqNumMod - 1
  /\ stall_count \in Nat
  /\ next_id \in Nat
=============================================================================
