---------------------------- MODULE CrfPath_proofs ----------------------------
(***************************************************************************)
(* Theorems about the media clock path, for every stream profile, sequence *)
(* number width, FIFO capacity, number of faults and length of the run.    *)
(***************************************************************************)
EXTENDS CrfPath, SequenceTheorems, ModuloLemmas

\* Under the assumptions on the constants, what the proofs need of their types.
LEMMA Constants ==
  /\ TsPerPdu \in Nat \ {0}
  /\ SeqNumMod \in Nat \ {0}
  /\ EdgeCap \in Nat \ {0}
  /\ WaitPeriods \in Nat \ {0}
  /\ SelectPeriods \in Nat \ {0}
  /\ SettlePeriods \in Nat
  /\ MaxTime \in Nat
  /\ MaxBurst \in Nat
  /\ MaxFaults \in Nat
  /\ MaxTransit \in Nat
BY StreamAssumption, TalkerAssumption, ListenerAssumption, PathAssumption

\* What is left of a sequence when its first n elements are taken off it.
LEMMA Remainder ==
  ASSUME NEW S, NEW s \in Seq(S), NEW n \in Nat
  PROVE  /\ SubSeq(s, n + 1, Len(s)) \in Seq(S)
         /\ Len(SubSeq(s, n + 1, Len(s))) = IF n <= Len(s) THEN Len(s) - n ELSE 0
         /\ \A i \in 1 .. Len(SubSeq(s, n + 1, Len(s))) :
              SubSeq(s, n + 1, Len(s))[i] = s[n + i]
<1>1. \A i \in n + 1 .. Len(s) : s[i] \in S
  BY LenProperties, ElementOfSeq
<1>2. Len(s) \in Nat
  BY LenProperties
<1>3. QED
  BY <1>1, <1>2, SubSeqProperties

\* What is left of the FIFO fits in it.
LEMMA RemainderType ==
  ASSUME NEW s \in Seq(Nat), Len(s) <= EdgeCap, NEW n \in Nat
  PROVE  /\ SubSeq(s, n + 1, Len(s)) \in Seq(Nat)
         /\ Len(SubSeq(s, n + 1, Len(s))) <= EdgeCap
<1>1. Len(s) \in Nat
  BY LenProperties
<1>2. /\ SubSeq(s, n + 1, Len(s)) \in Seq(Nat)
      /\ Len(SubSeq(s, n + 1, Len(s))) = IF n <= Len(s) THEN Len(s) - n ELSE 0
  BY Remainder, Zenon
<1>3. QED
  BY <1>1, <1>2, Constants

-----------------------------------------------------------------------------

\* The receiver's state has its type.
LEMMA ProcessType ==
  ASSUME ReceiverTypeOK, NEW pdu \in Pdu, Process(pdu)
  PROVE  ReceiverTypeOK' /\ Gap(pdu.seq_num) \in 0 .. SeqNumMod - 1
<1>1. pdu.seq_num \in 0 .. SeqNumMod - 1
  BY DEF Pdu
<1>2. Gap(pdu.seq_num) \in 0 .. SeqNumMod - 1
  <2>1. pdu.seq_num - expected_seq_num \in Int
    BY <1>1, Constants DEF ReceiverTypeOK
  <2>2. (pdu.seq_num - expected_seq_num) % SeqNumMod \in 0 .. SeqNumMod - 1
    BY <2>1, Constants, DivMod
  <2>3. QED
    BY <2>2, Constants DEF Gap
<1>3. (pdu.seq_num + 1) % SeqNumMod \in 0 .. SeqNumMod - 1
  BY <1>1, Constants, DivMod
<1>4. drop_count' \in Nat
  <2>1. drop_count' = drop_count + Gap(pdu.seq_num)
    BY DEF Process
  <2>2. QED
    BY <1>2, <2>1, Constants DEF ReceiverTypeOK
<1>5. first_packet' \in BOOLEAN
  BY DEF Process
<1>6. pkt_count' \in Nat
  BY DEF ReceiverTypeOK, Process
<1>7. expected_seq_num' \in 0 .. SeqNumMod - 1
  BY <1>3 DEF Process
<1>8. QED
  BY <1>2, <1>4, <1>5, <1>6, <1>7, Zenon DEF ReceiverTypeOK

\* So has the listener's, over the reception of a PDU ...
LEMMA ReceiveType ==
  ASSUME ListenerTypeOK, NEW pdu \in Pdu, Receive(pdu)
  PROVE  ListenerTypeOK'
<1>1. ReceiverTypeOK' /\ Gap(pdu.seq_num) \in 0 .. SeqNumMod - 1
  BY ProcessType DEF ListenerTypeOK, Receive
<1>2. Gap(pdu.seq_num) * TsPerPdu \in Nat
  BY <1>1, Constants
<1>3. edges' \in Seq(Nat) /\ Len(edges') <= EdgeCap
  <2>1. edges' = SubSeq(edges, Gap(pdu.seq_num) * TsPerPdu + 1, Len(edges))
    BY DEF Receive, Drained
  <2>2. QED
    BY <1>2, <2>1, RemainderType DEF ListenerTypeOK
<1>4. timestamps' \in Seq(Nat)
  BY DEF Receive, Pdu
<1>5. QED
  BY <1>1, <1>3, <1>4, Constants DEF Receive, ListenerTypeOK

\* ... over each turn of its loop ...
LEMMA ListenerStepType ==
  ASSUME ListenerTypeOK, Synchronize \/ Pair \/ EdgeTimeout
  PROVE  ListenerTypeOK'
<1>1. timestamps # <<>> /\ timestamps' = Tail(timestamps)
  BY DEF Synchronize, Pair, EdgeTimeout, Blocked
<1>2. timestamps' \in Seq(Nat) /\ Head(timestamps) \in Nat
  BY <1>1, HeadTailProperties DEF ListenerTypeOK
<1>3. UNCHANGED receiverVars => (ReceiverTypeOK <=> ReceiverTypeOK')
  BY DEF receiverVars, ReceiverTypeOK
<1>4. CASE Synchronize
  <2>1. PICK n \in 0 .. Len(edges) :
          /\ synchronized' = (n > 0 /\ WithinTolerance(edges[n], Head(timestamps)))
          /\ edges' = SubSeq(edges, n + 1, Len(edges))
    BY <1>4 DEF Synchronize
  <2>2. edges' \in Seq(Nat) /\ Len(edges') <= EdgeCap
    <3>1. n \in Nat
      BY LenProperties
    <3>2. QED
      BY <2>1, <3>1, RemainderType DEF ListenerTypeOK
  <2>3. synchronized' \in BOOLEAN
    BY <2>1
  <2>4. overwritten' \in BOOLEAN
    BY <1>4 DEF Synchronize
  <2>5. QED
    BY <1>2, <1>3, <1>4, <2>2, <2>3, <2>4 DEF Synchronize, ListenerTypeOK
<1>5. CASE Pair
  <2>1. edges' \in Seq(Nat) /\ Len(edges') = Len(edges) - 1 /\ Head(edges) \in Nat
    BY <1>5, HeadTailProperties DEF Pair, ListenerTypeOK
  <2>2. Len(edges') <= EdgeCap
    BY <2>1, LenProperties, Constants DEF ListenerTypeOK
  <2>3. synchronized' \in BOOLEAN
    BY <1>5 DEF Pair, ListenerTypeOK
  <2>4. sample' \in [edge : Nat, timestamp : Nat] \cup {NoSample}
    <3>1. \/ sample' = [edge |-> Head(edges), timestamp |-> Head(timestamps)]
          \/ sample' = sample
      BY <1>5 DEF Pair
    <3>2. QED
      BY <1>2, <2>1, <3>1 DEF ListenerTypeOK
  <2>5. QED
    BY <1>2, <1>3, <1>5, <2>1, <2>2, <2>3, <2>4, Constants
       DEF Pair, ListenerTypeOK
<1>6. CASE EdgeTimeout
  BY <1>2, <1>3, <1>6, Constants DEF EdgeTimeout, ListenerTypeOK
<1>7. QED
  BY <1>4, <1>5, <1>6

\* ... and over an edge period.
LEMMA CaptureType ==
  ASSUME ListenerTypeOK, NEW k \in Nat, NEW c \in BOOLEAN, ListenerCapture(k, c)
  PROVE  ListenerTypeOK'
<1>1. UNCHANGED receiverVars => (ReceiverTypeOK <=> ReceiverTypeOK')
  BY DEF receiverVars, ReceiverTypeOK
<1>2. waited' \in 0 .. WaitPeriods
  BY Constants DEF ListenerCapture, ListenerTypeOK
<1>3. edges' \in Seq(Nat) /\ Len(edges') <= EdgeCap
  <2>1. CASE ~c
    BY <2>1 DEF ListenerCapture, ListenerTypeOK
  <2>2. CASE c /\ Len(edges) < EdgeCap
    BY <2>2, AppendProperties, LenProperties, Constants
       DEF ListenerCapture, ListenerTypeOK
  <2>3. CASE c /\ Len(edges) = EdgeCap
    <3>1. edges # <<>>
      BY <2>3, Constants, EmptySeq
    <3>2. Tail(edges) \in Seq(Nat) /\ Len(Tail(edges)) = Len(edges) - 1
      BY <3>1, HeadTailProperties DEF ListenerTypeOK
    <3>3. edges' = Append(Tail(edges), k)
      BY <2>3 DEF ListenerCapture
    <3>4. QED
      BY <2>3, <3>2, <3>3, AppendProperties, Constants
  <2>4. QED
    BY <2>1, <2>2, <2>3, Constants, LenProperties DEF ListenerTypeOK
<1>4. overwritten' \in BOOLEAN
  BY DEF ListenerCapture
<1>5. QED
  BY <1>1, <1>2, <1>3, <1>4 DEF ListenerCapture, ListenerTypeOK

-----------------------------------------------------------------------------

\* The talker's state keeps its type over an edge period ...
LEMMA TalkerCaptureType ==
  ASSUME TalkerTypeOK, NEW k \in Nat, NEW c \in BOOLEAN, TalkerCapture(k, c)
  PROVE  TalkerTypeOK'
<1>1. txq' \in Seq(Nat)
  BY AppendProperties DEF TalkerCapture, TalkerTypeOK
<1>2. txq' = <<>> => txq = <<>>
  <2>1. Append(txq, k) # <<>>
    BY AppendProperties DEF TalkerTypeOK
  <2>2. QED
    BY <2>1 DEF TalkerCapture
<1>3. quiet' \in -SettlePeriods .. SelectPeriods
  BY <1>2, Constants DEF TalkerCapture, TalkerTypeOK
<1>4. QED
  BY <1>1, <1>3 DEF TalkerCapture, TalkerTypeOK

\* ... and over the handling of an event, whose PDU, if any, is well formed ...
LEMMA ReadEdgeType ==
  ASSUME TalkerTypeOK, ReadEdge
  PROVE  TalkerTypeOK' /\ Sent \in Seq(Pdu)
<1>1. txq' \in Seq(Nat) /\ Head(txq) \in Nat
  BY HeadTailProperties DEF ReadEdge, TalkerTypeOK
<1>2. /\ Append(crf_data, Head(txq)) \in Seq(Nat)
      /\ Len(Append(crf_data, Head(txq))) = Len(crf_data) + 1
  BY <1>1, AppendProperties DEF TalkerTypeOK
<1>3. crf_data' \in Seq(Nat) /\ Len(crf_data') < TsPerPdu
  <2>1. CASE Fills
    <3>1. crf_data' = <<>>
      BY <2>1 DEF ReadEdge
    <3>2. QED
      BY <3>1, Constants, EmptySeq
  <2>2. CASE ~Fills
    <3>1. crf_data' = Append(crf_data, Head(txq))
      BY <2>2 DEF ReadEdge
    <3>2. Len(crf_data) \in Nat
      BY LenProperties DEF TalkerTypeOK
    <3>3. QED
      BY <1>2, <2>2, <3>1, <3>2, Constants DEF Fills, TalkerTypeOK
  <2>3. QED
    BY <2>1, <2>2
<1>4. seq_num' \in 0 .. SeqNumMod - 1
  <2>1. seq_num + 1 \in Int
    BY Constants DEF TalkerTypeOK
  <2>2. (seq_num + 1) % SeqNumMod \in 0 .. SeqNumMod - 1
    BY <2>1, Constants, DivMod
  <2>3. QED
    BY <2>2 DEF ReadEdge, TalkerTypeOK
<1>5. next_id' \in Nat /\ stall_count' \in Nat /\ quiet' = 0 /\ armed' = armed
  BY DEF ReadEdge, TalkerTypeOK
<1>6. TalkerTypeOK'
  BY <1>1, <1>3, <1>4, <1>5, Constants DEF TalkerTypeOK
<1>7. Sent \in Seq(Pdu)
  <2>1. [id |-> next_id, seq_num |-> seq_num,
         timestamps |-> Append(crf_data, Head(txq))] \in Pdu
    BY <1>2 DEF TalkerTypeOK, Pdu
  <2>2. CASE Fills
    BY <2>1, <2>2 DEF Sent
  <2>3. CASE ~Fills
    BY <2>3, EmptySeq DEF Sent
  <2>4. QED
    BY <2>2, <2>3
<1>8. QED
  BY <1>6, <1>7

\* ... over a new start ...
LEMMA RestartType ==
  ASSUME TalkerTypeOK, TalkerRestart
  PROVE  TalkerTypeOK'
<1>1. txq' \in Seq(Nat) /\ crf_data' \in Seq(Nat) /\ Len(crf_data') < TsPerPdu
  BY EmptySeq, Constants DEF TalkerRestart
<1>2. quiet' \in -SettlePeriods .. SelectPeriods /\ seq_num' \in 0 .. SeqNumMod - 1
  BY Constants DEF TalkerRestart
<1>3. QED
  BY <1>1, <1>2 DEF TalkerRestart, TalkerTypeOK

\* ... and over a stall.
LEMMA SelectTimeoutType ==
  ASSUME TalkerTypeOK, SelectTimeout
  PROVE  TalkerTypeOK'
<1>1. crf_data' \in Seq(Nat) /\ Len(crf_data') < TsPerPdu
  BY EmptySeq, Constants DEF SelectTimeout, PartialPduAfterStall
<1>2. quiet' \in -SettlePeriods .. SelectPeriods
  <2>1. quiet' = 0 \/ quiet' = -SettlePeriods
    BY Zenon DEF SelectTimeout
  <2>2. QED
    BY <2>1, Constants
<1>3. armed' \in BOOLEAN
  BY DEF SelectTimeout, TalkerTypeOK
<1>4. QED
  BY <1>1, <1>2, <1>3 DEF SelectTimeout, TalkerTypeOK

-----------------------------------------------------------------------------

LEMMA InitType == Init => TypeOK
<1>1. SUFFICES ASSUME Init PROVE TypeOK
  OBVIOUS
<1>2. TalkerTypeOK
  BY <1>1, Constants, EmptySeq DEF Init, TalkerInit, TalkerTypeOK
<1>3. ReceiverTypeOK
  BY <1>1, Constants DEF Init, ListenerInit, ReceiverInit, ReceiverTypeOK
<1>4. ListenerTypeOK
  <2>1. edges = <<>> /\ timestamps = <<>> /\ waited = 0 /\ sample = NoSample
        /\ synchronized = FALSE /\ overwritten = FALSE
    BY <1>1 DEF Init, ListenerInit
  <2>2. edges \in Seq(Nat) /\ Len(edges) <= EdgeCap /\ timestamps \in Seq(Nat)
    BY <2>1, Constants, EmptySeq
  <2>3. waited \in 0 .. WaitPeriods
    BY <2>1, Constants
  <2>4. QED
    BY <1>3, <2>1, <2>2, <2>3, Zenon DEF ListenerTypeOK
<1>5. QED
  BY <1>1, <1>2, <1>4, Constants, EmptySeq DEF Init, TypeOK

\* A PDU handed to the listener keeps the types of what Accept changes.
LEMMA AcceptType ==
  ASSUME TypeOK, NEW pdu \in Pdu, Accept(pdu)
  PROVE  /\ TalkerTypeOK' /\ ListenerTypeOK'
         /\ now' = now /\ edge_now' = edge_now /\ skipped' = skipped
         /\ burst' \in 0 .. MaxBurst
         /\ first' \in [id : Nat, seq_num : 0 .. SeqNumMod - 1] \cup {NoPdu}
         /\ last_id' \in Nat \cup {-1}
<1>1. ListenerTypeOK'
  BY ReceiveType DEF Accept, TypeOK
<1>2. TalkerTypeOK'
  BY DEF Accept, TypeOK, TalkerTypeOK, talkerVars
<1>3. pdu.id \in Nat /\ pdu.seq_num \in 0 .. SeqNumMod - 1
  BY DEF Pdu
<1>4. first' \in [id : Nat, seq_num : 0 .. SeqNumMod - 1] \cup {NoPdu}
  <2>1. \/ first' = [id |-> pdu.id, seq_num |-> pdu.seq_num]
        \/ first' = first
    BY DEF Accept
  <2>2. QED
    BY <1>3, <2>1 DEF TypeOK
<1>5. burst' \in 0 .. MaxBurst /\ last_id' \in Nat \cup {-1}
  BY <1>3, Constants DEF Accept
<1>6. QED
  BY <1>1, <1>2, <1>4, <1>5 DEF Accept

LEMMA FaultType ==
  ASSUME TypeOK, NEW kind, Fault(kind)
  PROVE  faults' \in 0 .. MaxFaults /\ disturbed' \in 0 .. MaxTime /\ clean' \in Nat
BY Constants DEF TypeOK, Fault

LEMMA NoFaultType ==
  ASSUME TypeOK, NoFault
  PROVE  faults' \in 0 .. MaxFaults /\ disturbed' \in 0 .. MaxTime /\ clean' \in Nat
BY DEF TypeOK, NoFault

LEMMA StepType == TypeOK /\ [Next]_vars => TypeOK'
<1> SUFFICES ASSUME TypeOK, [Next]_vars PROVE TypeOK'
  OBVIOUS
<1> USE DEF TypeOK
<1>1. CASE TalkerTick
  <2>1. PICK c \in BOOLEAN : TalkerCapture(now, c)
    <3>1. (armed /\ quiet >= 0) \in BOOLEAN
      OBVIOUS
    <3>2. QED
      BY <1>1, <3>1, Zenon DEF TalkerTick
  <2>2. TalkerTypeOK'
    BY <2>1, TalkerCaptureType
  <2>3. ListenerTypeOK'
    BY <1>1 DEF TalkerTick, listenerVars, receiverVars, ListenerTypeOK, ReceiverTypeOK
  <2>4. faults' \in 0 .. MaxFaults /\ disturbed' \in 0 .. MaxTime /\ clean' \in Nat
    BY <1>1, FaultType, NoFaultType DEF TalkerTick
  <2>5. now < MaxTime /\ now' = now + 1
    BY <1>1 DEF TalkerTick
  <2>6. UNCHANGED <<edge_now, net, burst, skipped, first, last_id>>
    BY <1>1 DEF TalkerTick
  <2>7. QED
    BY <2>2, <2>3, <2>4, <2>5, <2>6, Constants
<1>2. CASE ListenerTick
  <2>1. PICK c \in BOOLEAN : ListenerCapture(edge_now, c)
    BY <1>2 DEF ListenerTick
  <2>2. ListenerTypeOK'
    BY <2>1, CaptureType
  <2>3. TalkerTypeOK'
    BY <1>2 DEF ListenerTick, talkerVars, TalkerTypeOK
  <2>4. faults' \in 0 .. MaxFaults /\ disturbed' \in 0 .. MaxTime /\ clean' \in Nat
    BY <1>2, FaultType, NoFaultType DEF ListenerTick
  <2>5. edge_now < MaxTime /\ edge_now' = edge_now + 1
    BY <1>2 DEF ListenerTick
  <2>6. UNCHANGED <<now, net, burst, skipped, first, last_id>>
    BY <1>2 DEF ListenerTick
  <2>7. QED
    BY <2>2, <2>3, <2>4, <2>5, <2>6, Constants
<1>3. CASE TalkerStep
  <2>1. TalkerTypeOK' /\ Sent \in Seq(Pdu)
    BY <1>3, ReadEdgeType DEF TalkerStep
  <2>2. net' \in Seq(Pdu)
    BY <1>3, <2>1, ConcatProperties DEF TalkerStep
  <2>3. ListenerTypeOK'
    BY <1>3 DEF TalkerStep, listenerVars, receiverVars, ListenerTypeOK, ReceiverTypeOK
  <2>4. QED
    BY <1>3, <2>1, <2>2, <2>3, NoFaultType DEF TalkerStep
<1>4. CASE TalkerTimeout
  <2>1. TalkerTypeOK'
    BY <1>4, SelectTimeoutType DEF TalkerTimeout
  <2>2. ListenerTypeOK'
    BY <1>4 DEF TalkerTimeout, listenerVars, receiverVars, ListenerTypeOK, ReceiverTypeOK
  <2>3. QED
    BY <1>4, <2>1, <2>2, NoFaultType DEF TalkerTimeout
<1>5. CASE Deliver
  <2>1. Head(net) \in Pdu /\ net' \in Seq(Pdu)
    BY <1>5, HeadTailProperties DEF Deliver
  <2>2. QED
    BY <1>5, <2>1, AcceptType, NoFaultType DEF Deliver
<1>6. CASE ListenerStep
  <2>1. ListenerTypeOK'
    BY <1>6, ListenerStepType DEF ListenerStep
  <2>2. TalkerTypeOK'
    BY <1>6 DEF ListenerStep, talkerVars, TalkerTypeOK
  <2>3. QED
    BY <1>6, <2>1, <2>2 DEF ListenerStep
<1>7. CASE Lose
  <2>1. net' \in Seq(Pdu)
    BY <1>7, HeadTailProperties DEF Lose
  <2>2. TalkerTypeOK' /\ ListenerTypeOK'
    BY <1>7 DEF Lose, talkerVars, TalkerTypeOK,
                listenerVars, receiverVars, ListenerTypeOK, ReceiverTypeOK
  <2>3. burst' \in 0 .. MaxBurst
    BY <1>7, Constants DEF Lose
  <2>4. QED
    BY <1>7, <2>1, <2>2, <2>3, FaultType DEF Lose
<1>8. CASE Duplicate
  <2>1. Head(net) \in Pdu
    BY <1>8, HeadTailProperties DEF Duplicate
  <2>2. QED
    BY <1>8, <2>1, AcceptType, FaultType DEF Duplicate
<1>9. CASE Reorder
  <2>1. Len(net) \in Nat /\ Len(net) > 1
    BY <1>9, LenProperties DEF Reorder
  <2>2. net[1] \in Pdu /\ net[2] \in Pdu
    BY <2>1, ElementOfSeq
  <2>3. SubSeq(net, 3, Len(net)) \in Seq(Pdu)
    BY <2>1, ElementOfSeq, SubSeqProperties
  <2>4. <<net[1]>> \in Seq(Pdu)
    BY <2>2
  <2>5. net' \in Seq(Pdu)
    BY <1>9, <2>3, <2>4, ConcatProperties DEF Reorder
  <2>6. QED
    BY <1>9, <2>2, <2>5, AcceptType, FaultType DEF Reorder
<1>10. CASE Stall
  <2>1. TalkerTypeOK'
    BY <1>10 DEF Stall, ChannelDies, TalkerTypeOK
  <2>2. ListenerTypeOK'
    BY <1>10 DEF Stall, listenerVars, receiverVars, ListenerTypeOK, ReceiverTypeOK
  <2>3. QED
    BY <1>10, <2>1, <2>2, FaultType DEF Stall
<1>11. CASE Restart
  <2>1. TalkerTypeOK'
    BY <1>11, RestartType DEF Restart
  <2>2. ListenerTypeOK'
    BY <1>11 DEF Restart, listenerVars, receiverVars, ListenerTypeOK, ReceiverTypeOK
  <2>3. QED
    BY <1>11, <2>1, <2>2, FaultType DEF Restart
<1>12. CASE OtherChannel
  <2>1. TalkerTypeOK'
    <3>1. 0 \in -SettlePeriods .. SelectPeriods
      BY Constants
    <3>2. quiet' = 0 /\ UNCHANGED <<armed, txq, crf_data, seq_num, stall_count, next_id>>
      BY <1>12 DEF OtherChannel, SkipEvent
    <3>3. QED
      BY <3>1, <3>2 DEF TalkerTypeOK
  <2>2. ListenerTypeOK'
    BY <1>12 DEF OtherChannel, listenerVars, receiverVars, ListenerTypeOK, ReceiverTypeOK
  <2>3. skipped' = skipped + 1 /\ UNCHANGED <<now, edge_now, net, burst, first, last_id>>
    BY <1>12 DEF OtherChannel
  <2>4. faults' \in 0 .. MaxFaults /\ disturbed' \in 0 .. MaxTime /\ clean' \in Nat
    BY <1>12, FaultType DEF OtherChannel
  <2>5. QED
    BY <2>1, <2>2, <2>3, <2>4
<1>13. CASE Finished \/ UNCHANGED vars
  BY <1>13 DEF Finished, vars, talkerVars, listenerVars, receiverVars, pathVars,
               TalkerTypeOK, ListenerTypeOK, ReceiverTypeOK
<1>14. QED
  BY <1>1, <1>2, <1>3, <1>4, <1>5, <1>6, <1>7, <1>8, <1>9, <1>10, <1>11, <1>12, <1>13
     DEF Next

\* Every variable keeps its type: in particular the talker never stores a
\* timestamp beyond its PDU, and the FIFO never holds more than its capacity.
THEOREM TypeCorrect == Spec => []TypeOK
<1>1. QED
  BY InitType, StepType, PTL DEF Spec

-----------------------------------------------------------------------------

\* SequenceAccounting is about the PDUs since the first: before it, nothing is
\* counted, and it has a sequence number.
SequenceInv ==
  /\ first_packet => pkt_count = 0 /\ drop_count = 0
  /\ ~first_packet => first.seq_num \in 0 .. SeqNumMod - 1
  /\ SequenceAccounting

\* Accepting a PDU counts it and the gap before it, and the two together lead to
\* the sequence number after it, also from a gap that is too long to be seen.
LEMMA AcceptAccounts ==
  ASSUME TypeOK, SequenceInv, NEW pdu \in Pdu, Accept(pdu)
  PROVE  SequenceInv'
<1> DEFINE before == first.seq_num + pkt_count + drop_count
<1>1. pdu.seq_num \in 0 .. SeqNumMod - 1
  BY DEF Pdu
<1>2. /\ first_packet' = FALSE
      /\ expected_seq_num' = (pdu.seq_num + 1) % SeqNumMod
      /\ pkt_count' = pkt_count + 1
      /\ drop_count' = drop_count + Gap(pdu.seq_num)
  BY DEF Accept, Receive, Process
<1>3. pkt_count \in Nat /\ drop_count \in Nat
  BY DEF TypeOK, ListenerTypeOK, ReceiverTypeOK
<1>4. CASE first_packet
  <2>1. first'.seq_num = pdu.seq_num
    BY <1>4 DEF Accept
  <2>2. pkt_count' = 1 /\ drop_count' = 0
    BY <1>2, <1>3, <1>4 DEF SequenceInv, Gap
  <2>3. first'.seq_num + pkt_count' + drop_count' = pdu.seq_num + 1
    BY <1>1, <2>1, <2>2, Constants
  <2>4. QED
    BY <1>1, <1>2, <2>1, <2>3 DEF SequenceInv, SequenceAccounting
<1>5. CASE ~first_packet
  <2>1. first' = first
    BY <1>5 DEF Accept
  <2>2. first.seq_num \in 0 .. SeqNumMod - 1 /\ expected_seq_num = before % SeqNumMod
    BY <1>5 DEF SequenceInv, SequenceAccounting
  <2>3. before \in Int
    BY <1>3, <2>2, Constants
  <2>4. Gap(pdu.seq_num) = (pdu.seq_num - (before % SeqNumMod)) % SeqNumMod
    BY <1>5, <2>2 DEF Gap
  <2>5. pdu.seq_num - expected_seq_num \in Int
    BY <1>1, Constants DEF TypeOK, ListenerTypeOK, ReceiverTypeOK
  <2>6. Gap(pdu.seq_num) \in Int
    <3>1. (pdu.seq_num - expected_seq_num) % SeqNumMod \in Int
      BY <2>5, Constants, DivMod
    <3>2. QED
      BY <1>5, <3>1 DEF Gap
  <2>7. (pdu.seq_num + 1) % SeqNumMod = (before + Gap(pdu.seq_num) + 1) % SeqNumMod
    <3> HIDE DEF before
    <3> QED
      BY <1>1, <2>3, <2>4, Constants, ModStep
  <2>8. first'.seq_num + pkt_count' + drop_count' = before + Gap(pdu.seq_num) + 1
    BY <1>2, <1>3, <2>1, <2>2, <2>6, Constants
  <2>9. expected_seq_num' = (first'.seq_num + pkt_count' + drop_count') % SeqNumMod
    BY <1>2, <2>7, <2>8
  <2>10. QED
    BY <1>2, <2>1, <2>2, <2>9 DEF SequenceInv, SequenceAccounting
<1>6. QED
  BY <1>4, <1>5

\* No other step touches the accounts.
LEMMA SequenceStep == TypeOK /\ SequenceInv /\ [Next]_vars => SequenceInv'
<1> SUFFICES ASSUME TypeOK, SequenceInv, [Next]_vars PROVE SequenceInv'
  OBVIOUS
<1>1. CASE \E pdu \in Pdu : Accept(pdu)
  BY <1>1, AcceptAccounts
<1>2. CASE UNCHANGED <<receiverVars, first>>
  BY <1>2 DEF receiverVars, SequenceInv, SequenceAccounting
<1>3. Deliver => Head(net) \in Pdu /\ Accept(Head(net))
  BY HeadTailProperties DEF TypeOK, Deliver
<1>4. Duplicate => Head(net) \in Pdu /\ Accept(Head(net))
  BY HeadTailProperties DEF TypeOK, Duplicate
<1>5. Reorder => net[2] \in Pdu /\ Accept(net[2])
  <2>1. Reorder => 2 \in 1 .. Len(net)
    BY LenProperties DEF TypeOK, Reorder
  <2>2. QED
    BY <2>1, ElementOfSeq DEF TypeOK, Reorder
<1>6. TalkerTick \/ TalkerStep \/ TalkerTimeout \/ Lose \/ Stall \/ Restart
        \/ OtherChannel \/ Finished \/ UNCHANGED vars
        => UNCHANGED <<receiverVars, first>>
  BY DEF TalkerTick, TalkerStep, TalkerTimeout, Lose, Stall, Restart, OtherChannel,
         Finished, vars, listenerVars, pathVars
<1>7. ListenerTick => UNCHANGED <<receiverVars, first>>
  BY DEF ListenerTick, ListenerCapture
<1>8. ListenerStep => UNCHANGED <<receiverVars, first>>
  BY DEF ListenerStep, Synchronize, Pair, EdgeTimeout
<1>9. QED
  BY <1>1, <1>2, <1>3, <1>4, <1>5, <1>6, <1>7, <1>8 DEF Next

\* The receiver's counters and its expected sequence number agree, whatever the
\* network and the talker do and for sequence numbers of every width.
THEOREM SequenceAccounted == Spec => []SequenceAccounting
<1>1. Init => SequenceInv
  BY DEF Init, ListenerInit, ReceiverInit, SequenceInv, SequenceAccounting
<1>2. SequenceInv => SequenceAccounting
  BY DEF SequenceInv
<1>3. QED
  BY <1>1, <1>2, SequenceStep, TypeCorrect, PTL DEF Spec

-----------------------------------------------------------------------------

\* Because the window is narrower than a period, an edge is within tolerance of
\* exactly the timestamp of its twin, and older than every later one.
LEMMA ToleranceExact ==
  ASSUME NEW e \in Int, NEW t \in Int
  PROVE  /\ WithinTolerance(e, t) <=> e = t
         /\ Older(e, t) <=> e < t
<1> DEFINE d == e - t
<1>1. Tolerance \in Int /\ Period \in Nat \ {0} /\ Phase \in Int
      /\ 2 * Tolerance < Period /\ -Tolerance <= Phase /\ Phase <= Tolerance
  <2>1. Tolerance \in Int
    BY StreamAssumption, DivMod DEF Tolerance
  <2>2. QED
    BY <2>1, StreamAssumption
<1>2. PhaseError(e, t) = Period * d + Phase
  BY DEF PhaseError
<1>3. d \in Int
  OBVIOUS
<1>4. CASE d = 0
  <2>1. PhaseError(e, t) = Phase
    BY <1>1, <1>2, <1>4
  <2>2. e = t
    BY <1>4
  <2>3. QED
    BY <1>1, <2>1, <2>2 DEF WithinTolerance, Older
<1>5. CASE d > 0
  <2>1. Period * d = Period + Period * (d - 1) /\ Period * (d - 1) \in Nat
    <3>1. d - 1 \in Nat
      BY <1>3, <1>5
    <3>2. QED
      BY <1>1, <1>3, <3>1
  <2>2. PhaseError(e, t) > Tolerance /\ PhaseError(e, t) \in Int
    <3> HIDE DEF d
    <3> QED BY <1>1, <1>2, <1>3, <2>1
  <2>3. e > t
    BY <1>5
  <2>4. QED
    BY <1>1, <2>2, <2>3 DEF WithinTolerance, Older
<1>6. CASE d < 0
  <2>1. Period * d = -Period - Period * (-d - 1) /\ Period * (-d - 1) \in Nat
    <3>1. -d - 1 \in Nat
      BY <1>3, <1>6
    <3>2. QED
      BY <1>1, <1>3, <3>1
  <2>2. PhaseError(e, t) < -Tolerance /\ PhaseError(e, t) \in Int
    <3> HIDE DEF d
    <3> QED BY <1>1, <1>2, <1>3, <2>1
  <2>3. e < t
    BY <1>6
  <2>4. QED
    BY <1>1, <2>2, <2>3 DEF WithinTolerance, Older
<1>7. QED
  BY <1>3, <1>4, <1>5, <1>6

\* The FIFO is in the order of the edges, all of them later than the last one
\* the servo was given.
EdgesInOrder ==
  /\ \A i \in 1 .. Len(edges) : sample.edge < edges[i] /\ edges[i] < edge_now
  /\ \A i, j \in 1 .. Len(edges) : i < j => edges[i] < edges[j]
  /\ sample.edge < edge_now

\* Taking edges off its front keeps it so.
LEMMA DiscardInOrder ==
  ASSUME edges \in Seq(Nat), EdgesInOrder, NEW n \in Nat,
         edges' = SubSeq(edges, n + 1, Len(edges)),
         UNCHANGED <<sample, edge_now>>
  PROVE  EdgesInOrder'
<1>1. Len(edges) \in Nat
  BY LenProperties
<1>2. /\ Len(edges') = IF n <= Len(edges) THEN Len(edges) - n ELSE 0
      /\ \A i \in 1 .. Len(edges') : edges'[i] = edges[n + i]
  BY Remainder, Zenon
<1>3. \A i \in 1 .. Len(edges') : n + i \in 1 .. Len(edges)
  BY <1>1, <1>2
<1>4. \A i, j \in 1 .. Len(edges') : i < j => n + i < n + j
  BY <1>1, <1>2
<1>5. QED
  BY <1>2, <1>3, <1>4 DEF EdgesInOrder

\* So does handling an edge, and what it gives the servo is that edge with the
\* timestamp of its twin.
LEMMA PairInOrder ==
  ASSUME ListenerTypeOK, EdgesInOrder, Pair, UNCHANGED edge_now
  PROVE  /\ EdgesInOrder'
         /\ sample' # sample => /\ sample'.edge = sample'.timestamp
                                /\ sample'.edge > sample.edge
<1>1. edges \in Seq(Nat) /\ edges # <<>> /\ Len(edges) \in Nat
  BY LenProperties DEF ListenerTypeOK, Pair
<1>2. /\ Head(edges) = edges[1]
      /\ edges' \in Seq(Nat)
      /\ Len(edges') = Len(edges) - 1
      /\ \A i \in 1 .. Len(edges') : edges'[i] = edges[i + 1]
  BY <1>1, HeadTailProperties DEF Pair
<1>3. edges[1] \in Nat /\ Head(timestamps) \in Nat
  BY <1>1, <1>2, HeadTailProperties DEF ListenerTypeOK, Pair
<1>4. Len(edges') \in Nat /\ Len(edges) >= 1
  BY <1>1, <1>2, LenProperties
<1>5. sample.edge < edges[1] /\ edges[1] < edge_now
  BY <1>1, <1>4 DEF EdgesInOrder
<1>6. \A i \in 1 .. Len(edges') : i + 1 \in 1 .. Len(edges) /\ edges[1] < edges[i + 1]
  BY <1>1, <1>2, <1>4 DEF EdgesInOrder
<1>7. \/ sample' = sample
      \/ /\ sample' = [edge |-> edges[1], timestamp |-> Head(timestamps)]
         /\ WithinTolerance(edges[1], Head(timestamps))
  BY <1>2 DEF Pair
<1>8. CASE sample' = sample
  <2>1. \A i, j \in 1 .. Len(edges') : i < j => i + 1 < j + 1
    BY <1>4
  <2>2. QED
    BY <1>2, <1>6, <1>8, <2>1 DEF EdgesInOrder
<1>9. CASE /\ sample' = [edge |-> edges[1], timestamp |-> Head(timestamps)]
           /\ WithinTolerance(edges[1], Head(timestamps))
  <2>1. edges[1] = Head(timestamps)
    BY <1>3, <1>9, ToleranceExact
  <2>2. sample'.edge = edges[1] /\ sample'.timestamp = Head(timestamps)
    BY <1>9
  <2>3. \A i, j \in 1 .. Len(edges') : i < j => i + 1 < j + 1
    BY <1>4
  <2>4. EdgesInOrder'
    BY <1>2, <1>5, <1>6, <2>2, <2>3 DEF EdgesInOrder
  <2>5. QED
    BY <1>5, <2>1, <2>2, <2>4
<1>10. QED
  BY <1>7, <1>8, <1>9

\* So does the edge the hardware captures, also when it costs the oldest one.
LEMMA CaptureInOrder ==
  ASSUME TypeOK, EdgesInOrder, ListenerTick
  PROVE  EdgesInOrder'
<1>1. PICK c \in BOOLEAN : ListenerCapture(edge_now, c)
  BY DEF ListenerTick
<1>2. edges \in Seq(Nat) /\ Len(edges) \in Nat /\ Len(edges) <= EdgeCap
  BY LenProperties DEF TypeOK, ListenerTypeOK
<1>3. edge_now \in Nat /\ sample.edge \in Int
  BY Constants DEF TypeOK, ListenerTypeOK, NoSample
<1>4. edge_now' = edge_now + 1 /\ sample' = sample
  BY <1>1 DEF ListenerTick, ListenerCapture
<1>5. \A i \in 1 .. Len(edges) : edges[i] \in Nat
  BY <1>2, ElementOfSeq
<1>6. CASE edges' = edges
  BY <1>3, <1>4, <1>5, <1>6 DEF EdgesInOrder
<1>7. CASE edges' = Append(edges, edge_now)
  <2>1. /\ Len(edges') = Len(edges) + 1
        /\ \A i \in 1 .. Len(edges) : edges'[i] = edges[i]
        /\ edges'[Len(edges) + 1] = edge_now
    BY <1>2, <1>3, <1>7, AppendProperties
  <2>2. \A i \in 1 .. Len(edges') : i \in 1 .. Len(edges) \/ i = Len(edges) + 1
    BY <1>2, <2>1
  <2>3. \A i \in 1 .. Len(edges') : sample.edge < edges'[i] /\ edges'[i] < edge_now + 1
    BY <1>3, <1>5, <2>1, <2>2 DEF EdgesInOrder
  <2>4. \A i, j \in 1 .. Len(edges') : i < j => i \in 1 .. Len(edges)
    BY <1>2, <2>1
  <2>5. \A i, j \in 1 .. Len(edges') : i < j => edges'[i] < edges'[j]
    BY <2>1, <2>2, <2>4 DEF EdgesInOrder
  <2>6. sample.edge < edge_now + 1
    BY <1>3 DEF EdgesInOrder
  <2>7. QED
    BY <1>4, <2>3, <2>5, <2>6 DEF EdgesInOrder
<1>8. CASE edges' = Append(Tail(edges), edge_now) /\ Len(edges) = EdgeCap
  <2>1. edges # <<>>
    BY <1>8, Constants, EmptySeq
  <2>2. /\ Tail(edges) \in Seq(Nat)
        /\ Len(Tail(edges)) = Len(edges) - 1
        /\ \A i \in 1 .. Len(edges) - 1 : Tail(edges)[i] = edges[i + 1]
    BY <1>2, <2>1, HeadTailProperties
  <2>3. /\ Len(edges') = Len(edges)
        /\ \A i \in 1 .. Len(edges) - 1 : edges'[i] = edges[i + 1]
        /\ edges'[Len(edges)] = edge_now
    BY <1>2, <1>3, <1>8, <2>2, AppendProperties
  <2>4. \A i \in 1 .. Len(edges) - 1 : i + 1 \in 1 .. Len(edges)
    BY <1>2
  <2>5. \A i \in 1 .. Len(edges') : i \in 1 .. Len(edges) - 1 \/ i = Len(edges)
    BY <1>2, <2>3
  <2>6. \A i \in 1 .. Len(edges') : sample.edge < edges'[i] /\ edges'[i] < edge_now + 1
    BY <1>3, <1>5, <2>3, <2>4, <2>5 DEF EdgesInOrder
  <2>7. \A i, j \in 1 .. Len(edges') : i < j => i \in 1 .. Len(edges) - 1 /\ i + 1 < j + 1
    BY <1>2, <2>3
  <2>8. \A i, j \in 1 .. Len(edges') : i < j => edges'[i] < edges'[j]
    BY <2>3, <2>4, <2>5, <2>7 DEF EdgesInOrder
  <2>9. sample.edge < edge_now + 1
    BY <1>3 DEF EdgesInOrder
  <2>10. QED
    BY <1>4, <2>6, <2>8, <2>9 DEF EdgesInOrder
<1>9. \/ edges' = edges
      \/ edges' = Append(edges, edge_now)
      \/ edges' = Append(Tail(edges), edge_now) /\ Len(edges) = EdgeCap
  <2>1. \/ Len(edges) < EdgeCap
        \/ Len(edges) = EdgeCap
    BY <1>2, Constants
  <2>2. CASE ~c
    BY <1>1, <2>2 DEF ListenerCapture
  <2>3. CASE c /\ Len(edges) < EdgeCap
    BY <1>1, <2>3 DEF ListenerCapture
  <2>4. CASE c /\ Len(edges) = EdgeCap
    BY <1>1, <1>2, <2>4, Constants DEF ListenerCapture
  <2>5. QED
    BY <2>1, <2>2, <2>3, <2>4
<1>10. QED
  BY <1>6, <1>7, <1>8, <1>9

\* What a step may do to the servo's last sample.
SampleStep == sample' # sample => /\ sample'.edge = sample'.timestamp
                                  /\ sample'.edge > sample.edge

\* Handling a PDU, up to its first timestamp, discards edges at most.
LEMMA AcceptInOrder ==
  ASSUME TypeOK, EdgesInOrder, NEW pdu \in Pdu, Accept(pdu)
  PROVE  EdgesInOrder' /\ sample' = sample
<1>1. Gap(pdu.seq_num) \in 0 .. SeqNumMod - 1
  BY ProcessType DEF TypeOK, ListenerTypeOK, Accept, Receive
<1>2. Gap(pdu.seq_num) * TsPerPdu \in Nat
  BY <1>1, Constants
<1>3. /\ edges' = SubSeq(edges, Gap(pdu.seq_num) * TsPerPdu + 1, Len(edges))
      /\ sample' = sample /\ edge_now' = edge_now
  BY DEF Accept, Receive, Drained
<1>4. QED
  BY <1>2, <1>3, DiscardInOrder DEF TypeOK, ListenerTypeOK

LEMMA OrderStep ==
  TypeOK /\ EdgesInOrder /\ [Next]_vars => EdgesInOrder' /\ SampleStep
<1> SUFFICES ASSUME TypeOK, EdgesInOrder, [Next]_vars
             PROVE  EdgesInOrder' /\ SampleStep
  OBVIOUS
<1>1. CASE UNCHANGED <<edges, sample, edge_now>>
  BY <1>1 DEF EdgesInOrder, SampleStep
<1>2. CASE \E pdu \in Pdu : Accept(pdu)
  BY <1>2, AcceptInOrder DEF SampleStep
<1>3. CASE ListenerTick
  <2>1. sample' = sample
    BY <1>3 DEF ListenerTick, ListenerCapture
  <2>2. QED
    BY <1>3, <2>1, CaptureInOrder DEF SampleStep
<1>4. CASE ListenerStep
  <2>1. edge_now' = edge_now
    BY <1>4 DEF ListenerStep
  <2>2. CASE Synchronize
    <3>1. PICK n \in 0 .. Len(edges) : edges' = SubSeq(edges, n + 1, Len(edges))
      BY <2>2 DEF Synchronize
    <3>2. n \in Nat /\ sample' = sample
      BY <2>2, LenProperties DEF Synchronize
    <3>3. EdgesInOrder'
      BY <2>1, <3>1, <3>2, DiscardInOrder DEF TypeOK, ListenerTypeOK
    <3>4. QED
      BY <3>2, <3>3 DEF SampleStep
  <2>3. CASE Pair
    BY <2>1, <2>3, PairInOrder DEF TypeOK, SampleStep
  <2>4. CASE EdgeTimeout
    BY <1>1, <2>1, <2>4 DEF EdgeTimeout
  <2>5. QED
    BY <1>4, <2>2, <2>3, <2>4 DEF ListenerStep
<1>5. Deliver => Head(net) \in Pdu /\ Accept(Head(net))
  BY HeadTailProperties DEF TypeOK, Deliver
<1>6. Duplicate => Head(net) \in Pdu /\ Accept(Head(net))
  BY HeadTailProperties DEF TypeOK, Duplicate
<1>7. Reorder => net[2] \in Pdu /\ Accept(net[2])
  <2>1. Reorder => 2 \in 1 .. Len(net)
    BY LenProperties DEF TypeOK, Reorder
  <2>2. QED
    BY <2>1, ElementOfSeq DEF TypeOK, Reorder
<1>8. TalkerTick \/ TalkerStep \/ TalkerTimeout \/ Lose \/ Stall \/ Restart
        \/ OtherChannel \/ Finished \/ UNCHANGED vars
        => UNCHANGED <<edges, sample, edge_now>>
  BY DEF TalkerTick, TalkerStep, TalkerTimeout, Lose, Stall, Restart, OtherChannel,
         Finished, vars, listenerVars, pathVars
<1>9. QED
  BY <1>1, <1>2, <1>3, <1>4, <1>5, <1>6, <1>7, <1>8 DEF Next

\* The servo is never given an edge with another edge's timestamp, an edge twice
\* or an earlier edge, under every fault and for every phase inside the window.
THEOREM ServoSamplesAreTrue == Spec => ServoSamplesTrue
<1>1. Init => EdgesInOrder
  <2>1. Init => edges = <<>> /\ sample = NoSample /\ edge_now = 0
    BY DEF Init, ListenerInit
  <2>2. QED
    BY <2>1, EmptySeq DEF EdgesInOrder, NoSample
<1>2. TypeOK /\ EdgesInOrder /\ [Next]_vars
        => [sample' # sample => /\ sample'.edge = sample'.timestamp
                                /\ sample'.edge > sample.edge]_vars
  BY OrderStep DEF SampleStep
<1>3. QED
  BY <1>1, <1>2, OrderStep, TypeCorrect, PTL DEF Spec, ServoSamplesTrue

-----------------------------------------------------------------------------
(***************************************************************************)
(* What packet loss does to the media clock path: theorems for every       *)
(* profile, FIFO capacity, number of losses and length of the run, when    *)
(* losing PDUs is all that goes wrong and the bursts are shorter than the  *)
(* sequence numbers can tell.                                              *)
(***************************************************************************)

\* The scope of the theorems.
OnlyLosses == FaultKinds \subseteq {"loss"} /\ MaxBurst < SeqNumMod

\* s counts up from k.
Run(s, k) == \A i \in 1 .. Len(s) : s[i] = k + i - 1

\* The talker stores the edges one after the other and misses none.
TalkerInOrder ==
  /\ armed = TRUE
  /\ quiet = 0
  /\ Run(txq, now - Len(txq))
  /\ Run(crf_data, next_id * TsPerPdu)
  /\ next_id * TsPerPdu + Len(crf_data) = now - Len(txq)
  /\ seq_num = next_id % SeqNumMod

\* What PDU n of such a talker is.
IsPdu(pdu, n) ==
  /\ pdu.id = n
  /\ pdu.seq_num = n % SeqNumMod
  /\ Len(pdu.timestamps) = TsPerPdu
  /\ Run(pdu.timestamps, n * TsPerPdu)

\* The network holds the last PDUs, in order.
NetInOrder ==
  /\ Len(net) <= next_id
  /\ \A j \in 1 .. Len(net) : IsPdu(net[j], next_id - Len(net) + j - 1)

\* The receiver expects the PDU after the last one, and what it misses before
\* the first PDU in the network is the burst.
ReceiverInOrder ==
  /\ first_packet =>
       timestamps = <<>> /\ ~synchronized /\ pkt_count = 0 /\ drop_count = 0
  /\ ~first_packet =>
       /\ last_id \in Nat
       /\ next_id - Len(net) = last_id + 1 + burst
       /\ expected_seq_num = (last_id + 1) % SeqNumMod
       /\ first.id \in Nat
       /\ pkt_count + drop_count = last_id - first.id + 1

\* The FIFO holds the last edges, in order, and the loop the last timestamps of
\* the PDU it works on.
FifoInOrder ==
  /\ edge_now \in now - 1 .. now + 1
  /\ Len(edges) <= edge_now
  /\ Run(edges, edge_now - Len(edges))
  /\ Len(timestamps) <= TsPerPdu
  /\ Run(timestamps, (last_id + 1) * TsPerPdu - Len(timestamps))
  /\ waited > 0 => synchronized /\ edges # <<>>

\* What being synchronised means: the oldest edge in the FIFO is the twin of the
\* next timestamp to be paired, now or in the next PDU of an unbroken stream.
Aligned ==
  (synchronized /\ ~overwritten) =>
    edge_now - Len(edges) = (last_id + 1) * TsPerPdu - Len(timestamps)

LossInv ==
  TalkerInOrder /\ NetInOrder /\ ReceiverInOrder /\ FifoInOrder /\ Aligned

-----------------------------------------------------------------------------

\* Runs at the two ends of a queue.
LEMMA RunAppend ==
  ASSUME NEW s \in Seq(Nat), NEW k \in Int, NEW v \in Nat, Run(s, k), v = k + Len(s)
  PROVE  /\ Append(s, v) \in Seq(Nat)
         /\ Append(s, v) # <<>>
         /\ Len(Append(s, v)) = Len(s) + 1
         /\ Run(Append(s, v), k)
<1>1. Len(s) \in Nat
  BY LenProperties
<1>2. /\ Append(s, v) \in Seq(Nat)
      /\ Append(s, v) # <<>>
      /\ Len(Append(s, v)) = Len(s) + 1
      /\ \A i \in 1 .. Len(s) : Append(s, v)[i] = s[i]
      /\ Append(s, v)[Len(s) + 1] = v
  BY AppendProperties
<1>3. \A i \in 1 .. Len(s) + 1 : i \in 1 .. Len(s) \/ i = Len(s) + 1
  BY <1>1
<1>4. QED
  BY <1>1, <1>2, <1>3 DEF Run

LEMMA RunTail ==
  ASSUME NEW s \in Seq(Nat), NEW k \in Int, Run(s, k), s # <<>>
  PROVE  /\ Head(s) = k
         /\ Tail(s) \in Seq(Nat)
         /\ Len(s) \in Nat \ {0}
         /\ Len(Tail(s)) = Len(s) - 1
         /\ Run(Tail(s), k + 1)
<1>1. Len(s) \in Nat \ {0}
  BY EmptySeq
<1>2. /\ Tail(s) \in Seq(Nat)
      /\ Len(Tail(s)) = Len(s) - 1
      /\ \A i \in 1 .. Len(Tail(s)) : Tail(s)[i] = s[i + 1]
  BY HeadTailProperties
<1>3. Head(s) = s[1] /\ s[1] = k
  BY <1>1 DEF Run
<1>4. \A i \in 1 .. Len(Tail(s)) : i + 1 \in 1 .. Len(s)
  BY <1>1, <1>2
<1>5. QED
  BY <1>1, <1>2, <1>3, <1>4 DEF Run

LEMMA RunDiscard ==
  ASSUME NEW s \in Seq(Nat), NEW k \in Int, Run(s, k), NEW n \in 0 .. Len(s)
  PROVE  /\ SubSeq(s, n + 1, Len(s)) \in Seq(Nat)
         /\ Len(SubSeq(s, n + 1, Len(s))) = Len(s) - n
         /\ Run(SubSeq(s, n + 1, Len(s)), k + n)
<1>1. Len(s) \in Nat /\ n \in Nat
  BY LenProperties
<1>2. /\ SubSeq(s, n + 1, Len(s)) \in Seq(Nat)
      /\ Len(SubSeq(s, n + 1, Len(s))) = IF n <= Len(s) THEN Len(s) - n ELSE 0
      /\ \A i \in 1 .. Len(SubSeq(s, n + 1, Len(s))) :
           SubSeq(s, n + 1, Len(s))[i] = s[n + i]
  BY <1>1, Remainder, Zenon
<1>3. Len(SubSeq(s, n + 1, Len(s))) = Len(s) - n
  BY <1>1, <1>2
<1>4. \A i \in 1 .. Len(s) - n : n + i \in 1 .. Len(s)
  BY <1>1
<1>5. QED
  BY <1>1, <1>2, <1>3, <1>4 DEF Run

\* A run of no elements starts anywhere.
LEMMA RunEmpty == \A k : Run(<<>>, k)
  BY EmptySeq DEF Run

-----------------------------------------------------------------------------

\* The types the proofs below need.
Types ==
  /\ txq \in Seq(Nat) /\ Len(txq) \in Nat
  /\ crf_data \in Seq(Nat) /\ Len(crf_data) \in Nat /\ Len(crf_data) < TsPerPdu
  /\ net \in Seq(Pdu) /\ Len(net) \in Nat
  /\ edges \in Seq(Nat) /\ Len(edges) \in Nat /\ Len(edges) <= EdgeCap
  /\ timestamps \in Seq(Nat) /\ Len(timestamps) \in Nat
  /\ now \in Nat /\ edge_now \in Nat /\ next_id \in Nat /\ waited \in Nat
  /\ burst \in Nat /\ burst <= MaxBurst /\ last_id \in Int
  /\ synchronized \in BOOLEAN /\ overwritten \in BOOLEAN

LEMMA TypesHold == TypeOK => Types
<1> SUFFICES ASSUME TypeOK PROVE Types
  OBVIOUS
<1>1. /\ txq \in Seq(Nat) /\ crf_data \in Seq(Nat) /\ net \in Seq(Pdu)
      /\ edges \in Seq(Nat) /\ timestamps \in Seq(Nat)
      /\ Len(crf_data) < TsPerPdu /\ Len(edges) <= EdgeCap
  BY DEF TypeOK, TalkerTypeOK, ListenerTypeOK
<1>2. /\ Len(txq) \in Nat /\ Len(crf_data) \in Nat /\ Len(net) \in Nat
      /\ Len(edges) \in Nat /\ Len(timestamps) \in Nat
  BY <1>1, LenProperties
<1>3. /\ now \in Nat /\ edge_now \in Nat /\ next_id \in Nat /\ waited \in Nat
      /\ burst \in Nat /\ burst <= MaxBurst /\ last_id \in Int
  BY Constants DEF TypeOK, TalkerTypeOK, ListenerTypeOK
<1>4. synchronized \in BOOLEAN /\ overwritten \in BOOLEAN
  BY DEF TypeOK, ListenerTypeOK
<1>5. QED
  BY <1>1, <1>2, <1>3, <1>4 DEF Types

\* The steps that are left when only losses happen.
LEMMA StepsUnderLoss ==
  ASSUME OnlyLosses, TypeOK, LossInv, [Next]_vars
  PROVE  \/ TalkerTick /\ TalkerCapture(now, TRUE)
         \/ ListenerTick /\ ListenerCapture(edge_now, TRUE)
         \/ TalkerStep
         \/ Deliver
         \/ ListenerStep
         \/ Lose
         \/ UNCHANGED vars
<1>1. \A kind : kind # "loss" => ~Fault(kind)
  BY DEF OnlyLosses, Fault
<1>2. ~Duplicate /\ ~Reorder /\ ~Stall /\ ~Restart /\ ~OtherChannel
  BY <1>1 DEF Duplicate, Reorder, Stall, Restart, OtherChannel
<1>3. ~TalkerTimeout
  BY Constants DEF LossInv, TalkerInOrder, TalkerTimeout, SelectTimeout
<1>4. TalkerTick => TalkerCapture(now, TRUE)
  <2>1. ~Fault("talker edge")
    BY <1>1
  <2>2. (armed /\ quiet >= 0) = TRUE
    BY DEF LossInv, TalkerInOrder
  <2>3. QED
    BY <2>1, <2>2 DEF TalkerTick
<1>5. ListenerTick => ListenerCapture(edge_now, TRUE)
  <2>1. ~Fault("listener edge")
    BY <1>1
  <2>2. QED
    BY <2>1 DEF ListenerTick
<1>6. Finished => UNCHANGED vars
  BY DEF Finished
<1>7. QED
  BY <1>2, <1>3, <1>4, <1>5, <1>6 DEF Next

-----------------------------------------------------------------------------

\* An edge at the talker joins its queue.
LEMMA TalkerTickKeeps ==
  ASSUME Types, LossInv, TalkerTick, TalkerCapture(now, TRUE)
  PROVE  LossInv'
<1>1. /\ txq' = Append(txq, now) /\ now' = now + 1 /\ now <= edge_now
      /\ UNCHANGED <<armed, crf_data, seq_num, next_id, listenerVars, edge_now, net,
                     burst, first, last_id>>
  BY DEF TalkerTick, TalkerCapture
<1>2. /\ Len(txq') = Len(txq) + 1
      /\ txq' # <<>>
      /\ Run(txq', now - Len(txq))
  <2>1. /\ txq \in Seq(Nat) /\ now \in Nat /\ now - Len(txq) \in Int
        /\ now = now - Len(txq) + Len(txq) /\ Run(txq, now - Len(txq))
    BY DEF Types, LossInv, TalkerInOrder
  <2>2. QED
    BY <1>1, <2>1, RunAppend
<1>3. quiet' = quiet
  BY <1>2 DEF TalkerCapture
<1>4. now' - Len(txq') = now - Len(txq)
  BY <1>1, <1>2 DEF Types
<1>5. TalkerInOrder'
  BY <1>1, <1>2, <1>3, <1>4 DEF LossInv, TalkerInOrder
<1>6. NetInOrder' /\ ReceiverInOrder'
  BY <1>1 DEF LossInv, NetInOrder, ReceiverInOrder, listenerVars, receiverVars
<1>7. edge_now' \in now' - 1 .. now' + 1
  BY <1>1 DEF LossInv, FifoInOrder, Types
<1>8. FifoInOrder' /\ Aligned'
  BY <1>1, <1>7 DEF LossInv, FifoInOrder, Aligned, listenerVars
<1>9. QED
  BY <1>5, <1>6, <1>8 DEF LossInv

\* An edge at the listener joins the FIFO, which keeps being a run when it loses
\* its oldest edge, but is no longer aligned.
LEMMA ListenerTickKeeps ==
  ASSUME Types, LossInv, ListenerTick, ListenerCapture(edge_now, TRUE)
  PROVE  LossInv'
<1>1. /\ edge_now' = edge_now + 1 /\ edge_now <= now
      /\ UNCHANGED <<talkerVars, now, net, burst, first, last_id, receiverVars,
                     synchronized, timestamps>>
  BY DEF ListenerTick, ListenerCapture
<1>2. TalkerInOrder' /\ NetInOrder' /\ ReceiverInOrder'
  BY <1>1 DEF LossInv, TalkerInOrder, NetInOrder, ReceiverInOrder, talkerVars, receiverVars
<1>3. /\ edges \in Seq(Nat) /\ Len(edges) \in Nat /\ Run(edges, edge_now - Len(edges))
      /\ edge_now \in Nat /\ edge_now - Len(edges) \in Int
      /\ edge_now = edge_now - Len(edges) + Len(edges)
  BY DEF Types, LossInv, FifoInOrder
<1>4. /\ Run(edges', edge_now' - Len(edges'))
      /\ Len(edges') <= edge_now'
      /\ edges' # <<>>
      /\ overwritten' \/ (~overwritten /\ Len(edges') = Len(edges) + 1)
      /\ overwritten => overwritten'
  <2>1. CASE Len(edges) < EdgeCap
    <3>1. edges' = Append(edges, edge_now) /\ overwritten' = overwritten
      <4>1. Len(edges) # EdgeCap
        BY <1>3, <2>1, Constants
      <4>2. edges' = Append(edges, edge_now)
        BY <2>1 DEF ListenerCapture
      <4>3. overwritten' = overwritten
        BY <4>1 DEF ListenerCapture, Types
      <4>4. QED
        BY <4>2, <4>3
    <3>2. /\ edges' # <<>>
          /\ Len(edges') = Len(edges) + 1
          /\ Run(edges', edge_now - Len(edges))
      BY <1>3, <3>1, RunAppend
    <3>3. edge_now' - Len(edges') = edge_now - Len(edges) /\ Len(edges') <= edge_now'
      BY <1>1, <1>3, <3>2 DEF LossInv, FifoInOrder
    <3>4. QED
      BY <3>1, <3>2, <3>3 DEF Types
  <2>2. CASE Len(edges) = EdgeCap
    <3>1. edges' = Append(Tail(edges), edge_now) /\ overwritten' = TRUE
      <4>1. ~(Len(edges) < EdgeCap)
        BY <1>3, <2>2, Constants
      <4>2. edges' = Append(Tail(edges), edge_now)
        BY <2>2, <4>1 DEF ListenerCapture
      <4>3. overwritten' = TRUE
        BY <2>2 DEF ListenerCapture
      <4>4. QED
        BY <4>2, <4>3
    <3>2. edges # <<>>
      BY <2>2, Constants, EmptySeq
    <3>3. /\ Tail(edges) \in Seq(Nat) /\ Len(Tail(edges)) = Len(edges) - 1
          /\ Run(Tail(edges), edge_now - Len(edges) + 1)
      BY <1>3, <3>2, RunTail
    <3>4. edge_now = edge_now - Len(edges) + 1 + Len(Tail(edges))
      BY <1>3, <3>3
    <3>5. /\ edges' # <<>>
          /\ Len(edges') = Len(Tail(edges)) + 1
          /\ Run(edges', edge_now - Len(edges) + 1)
      <4>1. edge_now - Len(edges) + 1 \in Int
        BY <1>3
      <4>2. QED
        BY <1>3, <3>1, <3>3, <3>4, <4>1, RunAppend
    <3>6. edge_now' - Len(edges') = edge_now - Len(edges) + 1 /\ Len(edges') <= edge_now'
      BY <1>1, <1>3, <3>3, <3>5 DEF LossInv, FifoInOrder
    <3>7. QED
      BY <3>1, <3>5, <3>6
  <2>3. QED
    BY <1>3, <2>1, <2>2, Constants DEF Types
<1>5. waited' > 0 => synchronized'
  BY <1>1, Constants DEF ListenerCapture, Blocked
<1>6. FifoInOrder'
  BY <1>1, <1>4, <1>5 DEF LossInv, FifoInOrder, Types
<1>7. Aligned'
  <2>1. CASE overwritten'
    BY <2>1 DEF Aligned
  <2>2. CASE ~overwritten /\ Len(edges') = Len(edges) + 1
    <3>1. edge_now' - Len(edges') = edge_now - Len(edges)
      BY <1>1, <1>3, <2>2
    <3>2. QED
      BY <1>1, <2>2, <3>1 DEF LossInv, Aligned
  <2>3. QED
    BY <1>4, <2>1, <2>2
<1>8. QED
  BY <1>2, <1>6, <1>7 DEF LossInv

\* The talker stores the edge, or sends a PDU of one edge after the other.
LEMMA TalkerStepKeeps ==
  ASSUME TypeOK, LossInv, TalkerStep
  PROVE  LossInv'
<1> DEFINE base == next_id * TsPerPdu
<1>1. Types
  BY TypesHold
<1>2. /\ UNCHANGED <<armed, listenerVars, now, edge_now, burst, first, last_id>>
      /\ quiet' = 0 /\ txq # <<>> /\ txq' = Tail(txq) /\ net' = net \o Sent
  BY DEF TalkerStep, ReadEdge
<1>3. /\ base \in Int /\ Run(crf_data, base) /\ base + Len(crf_data) = now - Len(txq)
      /\ Run(txq, now - Len(txq)) /\ now - Len(txq) \in Int
  BY <1>1, Constants DEF Types, LossInv, TalkerInOrder
<1>4. /\ Head(txq) = now - Len(txq) /\ Len(txq') = Len(txq) - 1
      /\ Run(txq', now - Len(txq) + 1) /\ Len(txq) \in Nat /\ Head(txq) \in Nat
  <2>1. Head(txq) \in Nat
    BY <1>1, <1>2, HeadTailProperties DEF Types
  <2>2. QED
    BY <1>1, <1>2, <1>3, <2>1, RunTail DEF Types
<1>5. Run(txq', now' - Len(txq'))
  <2>1. now' - Len(txq') = now - Len(txq) + 1
    BY <1>1, <1>2, <1>4 DEF Types
  <2>2. QED
    BY <1>4, <2>1
<1>6. /\ Len(Append(crf_data, Head(txq))) = Len(crf_data) + 1
      /\ Run(Append(crf_data, Head(txq)), base)
  <2>1. Head(txq) = base + Len(crf_data)
    BY <1>3, <1>4
  <2>2. crf_data \in Seq(Nat)
    BY <1>1 DEF Types
  <2> HIDE DEF base
  <2>3. QED
    BY <1>3, <1>4, <2>1, <2>2, RunAppend
<1>7. FifoInOrder' /\ Aligned'
  BY <1>2 DEF LossInv, FifoInOrder, Aligned, listenerVars
<1>8. CASE ~Fills
  <2>1. /\ crf_data' = Append(crf_data, Head(txq)) /\ seq_num' = seq_num
        /\ next_id' = next_id /\ Sent = <<>>
    BY <1>8 DEF TalkerStep, ReadEdge, Sent
  <2>2. net' = net
    BY <1>1, <1>2, <2>1, ConcatEmptySeq DEF Types
  <2>3. next_id' * TsPerPdu + Len(crf_data') = now' - Len(txq')
    <3>1. next_id' * TsPerPdu = base /\ Len(crf_data') = Len(crf_data) + 1
      BY <1>6, <2>1
    <3>2. now' = now /\ Len(txq') = Len(txq) - 1
      BY <1>2, <1>4
    <3>3. base + (Len(crf_data) + 1) = now - (Len(txq) - 1)
      <4> HIDE DEF base
      <4> QED BY <1>1, <1>3 DEF Types
    <3> QED BY <3>1, <3>2, <3>3
  <2>4. TalkerInOrder'
    BY <1>2, <1>5, <1>6, <2>1, <2>3 DEF LossInv, TalkerInOrder
  <2>5. NetInOrder' /\ ReceiverInOrder'
    BY <1>2, <2>1, <2>2 DEF LossInv, NetInOrder, ReceiverInOrder, listenerVars, receiverVars
  <2>6. QED
    BY <1>7, <2>4, <2>5 DEF LossInv
<1>9. CASE Fills
  <2> DEFINE pdu == [id |-> next_id, seq_num |-> seq_num,
                     timestamps |-> Append(crf_data, Head(txq))]
  <2>1. /\ crf_data' = <<>> /\ seq_num' = (seq_num + 1) % SeqNumMod
        /\ next_id' = next_id + 1 /\ Sent = <<pdu>> /\ Len(crf_data) + 1 = TsPerPdu
    BY <1>9 DEF TalkerStep, ReadEdge, Sent, Fills
  <2>2. IsPdu(pdu, next_id)
    <3>1. pdu.timestamps = Append(crf_data, Head(txq)) /\ pdu.id = next_id
          /\ pdu.seq_num = seq_num
      OBVIOUS
    <3>2. Len(pdu.timestamps) = TsPerPdu
      BY <1>6, <2>1, <3>1
    <3> HIDE DEF pdu
    <3>3. QED
      BY <1>6, <3>1, <3>2 DEF IsPdu, LossInv, TalkerInOrder
  <2>3. pdu \in Pdu
    <3>1. Sent \in Seq(Pdu)
      BY ReadEdgeType DEF TalkerStep, TypeOK
    <3>2. <<pdu>> \in Seq(Pdu)
      BY <2>1, <3>1
    <3> HIDE DEF pdu
    <3>3. QED
      BY <3>2
  <2>4. /\ Len(net') = Len(net) + 1
        /\ \A j \in 1 .. Len(net) : net'[j] = net[j]
        /\ net'[Len(net) + 1] = pdu
    <3> HIDE DEF pdu
    <3>1. net' = Append(net, pdu)
      BY <1>1, <1>2, <2>1, <2>3, AppendIsConcat DEF Types
    <3>2. QED
      BY <1>1, <2>3, <3>1, AppendProperties DEF Types
  <2> HIDE DEF pdu
  <2>5. NetInOrder'
    <3>1. next_id' - Len(net') = next_id - Len(net) /\ Len(net') <= next_id'
      BY <1>1, <2>1, <2>4 DEF Types, LossInv, NetInOrder
    <3>2. \A j \in 1 .. Len(net) : IsPdu(net'[j], next_id' - Len(net') + j - 1)
      BY <2>4, <3>1 DEF LossInv, NetInOrder
    <3>3. next_id' - Len(net') + (Len(net) + 1) - 1 = next_id
      BY <1>1, <3>1 DEF Types
    <3>4. \A j \in 1 .. Len(net') : j \in 1 .. Len(net) \/ j = Len(net) + 1
      <4>1. Len(net) \in Nat /\ Len(net') = Len(net) + 1
        BY <1>1, <2>4 DEF Types
      <4> QED BY <4>1
    <3>5. IsPdu(net'[Len(net) + 1], next_id' - Len(net') + (Len(net) + 1) - 1)
      BY <2>2, <2>4, <3>3
    <3>6. QED
      BY <3>1, <3>2, <3>4, <3>5 DEF NetInOrder
  <2>6. seq_num' = next_id' % SeqNumMod
    <3>1. (seq_num + 1) % SeqNumMod = (next_id + 1) % SeqNumMod
      <4>1. next_id \in Int /\ seq_num = next_id % SeqNumMod
        BY <1>1 DEF Types, LossInv, TalkerInOrder
      <4>2. next_id \div SeqNumMod \in Int /\ seq_num \in Int
            /\ next_id = SeqNumMod * (next_id \div SeqNumMod) + seq_num
        BY <4>1, Constants, DivMod
      <4>3. next_id + 1 = (seq_num + 1) + SeqNumMod * (next_id \div SeqNumMod)
        BY <4>1, <4>2, Constants
      <4>4. ((seq_num + 1) + SeqNumMod * (next_id \div SeqNumMod)) % SeqNumMod
              = (seq_num + 1) % SeqNumMod
        <5>1. seq_num + 1 \in Int
          BY <4>2
        <5>2. QED
          BY <4>2, <5>1, Constants, ModShift
      <4>5. QED
        BY <4>3, <4>4
    <3>2. QED
      BY <2>1, <3>1
  <2>7. next_id' * TsPerPdu + Len(crf_data') = now' - Len(txq')
    <3>1. next_id' * TsPerPdu = base + TsPerPdu
      BY <1>1, <2>1, Constants DEF Types
    <3>2. Len(crf_data') = 0
      BY <2>1, EmptySeq
    <3>3. Len(crf_data) + 1 = TsPerPdu /\ now' = now
      BY <1>2, <2>1
    <3>4. base + TsPerPdu = now - Len(txq')
      <4>1. now \in Nat /\ Len(crf_data) \in Nat
        BY <1>1 DEF Types
      <4>2. Len(txq') = Len(txq) - 1 /\ Len(txq) \in Nat
        BY <1>4
      <4>3. base + Len(crf_data) = now - Len(txq) /\ base \in Int
        BY <1>3
      <4> HIDE DEF base
      <4>4. QED
        BY <3>3, <4>1, <4>2, <4>3, Constants
    <3> HIDE DEF base
    <3>5. QED
      BY <1>3, <3>1, <3>2, <3>3, <3>4, Constants
  <2>8. TalkerInOrder'
    BY <1>2, <1>5, <2>1, <2>6, <2>7, RunEmpty DEF LossInv, TalkerInOrder
  <2>9. ReceiverInOrder'
    <3>1. next_id' - Len(net') = next_id - Len(net)
      BY <1>1, <2>1, <2>4 DEF Types
    <3>2. QED
      BY <1>2, <3>1 DEF LossInv, ReceiverInOrder, listenerVars, receiverVars
  <2>10. QED
    BY <1>7, <2>5, <2>8, <2>9 DEF LossInv
<1>10. QED
  BY <1>8, <1>9

\* The gap the receiver sees is the number of PDUs lost since the last one, so
\* what it discards are the twins of the lost timestamps.
LEMMA DeliverKeeps ==
  ASSUME OnlyLosses, TypeOK, LossInv, Deliver
  PROVE  LossInv' /\ synchronized' = synchronized /\ overwritten' = overwritten
<1> DEFINE pdu == Head(net)
           n == next_id - Len(net)
           gap == Gap(pdu.seq_num)
<1>1. Types
  BY TypesHold
<1>2. /\ net # <<>> /\ net' = Tail(net) /\ timestamps = <<>> /\ burst' = 0
      /\ last_id' = pdu.id /\ timestamps' = pdu.timestamps /\ waited' = 0
      /\ first' = IF first_packet THEN [id |-> pdu.id, seq_num |-> pdu.seq_num] ELSE first
      /\ first_packet' = FALSE /\ expected_seq_num' = (pdu.seq_num + 1) % SeqNumMod
      /\ pkt_count' = pkt_count + 1 /\ drop_count' = drop_count + gap
      /\ edges' = SubSeq(edges, gap * TsPerPdu + 1, Len(edges))
      /\ UNCHANGED <<talkerVars, now, edge_now, synchronized, overwritten>>
  BY DEF Deliver, Accept, Receive, Process, Drained, Idle
<1>3. /\ Len(net) \in Nat \ {0} /\ Len(net') = Len(net) - 1 /\ pdu = net[1]
      /\ \A j \in 1 .. Len(net') : net'[j] = net[j + 1]
      /\ net \in Seq(Pdu) /\ pdu \in Pdu
  <2>1. net \in Seq(Pdu)
    BY <1>1 DEF Types
  <2>2. QED
    BY <1>2, <2>1, EmptySeq, HeadTailProperties
<1>4. n \in Nat /\ IsPdu(pdu, n)
  BY <1>1, <1>3 DEF Types, LossInv, NetInOrder
<1>5. /\ pdu.id = n /\ pdu.seq_num = n % SeqNumMod /\ Len(pdu.timestamps) = TsPerPdu
      /\ Run(pdu.timestamps, n * TsPerPdu)
  BY <1>4 DEF IsPdu
<1>6. next_id' = next_id
  BY <1>2 DEF talkerVars
<1>7. TalkerInOrder'
  BY <1>2 DEF LossInv, TalkerInOrder, talkerVars
<1>8. NetInOrder'
  <2>1. next_id' - Len(net') = n + 1 /\ Len(net') <= next_id'
    BY <1>1, <1>3, <1>6 DEF Types, LossInv, NetInOrder
  <2>2. \A j \in 1 .. Len(net') : j + 1 \in 1 .. Len(net)
    BY <1>3
  <2>3. \A j \in 1 .. Len(net') : IsPdu(net'[j], n + (j + 1) - 1)
    BY <1>3, <2>2 DEF LossInv, NetInOrder
  <2>4. \A j \in 1 .. Len(net') : n + (j + 1) - 1 = next_id' - Len(net') + j - 1
    BY <1>1, <1>4, <2>1 DEF Types
  <2>5. QED
    BY <2>1, <2>3, <2>4 DEF NetInOrder
<1>9. next_id' - Len(net') = last_id' + 1 + burst'
  BY <1>1, <1>2, <1>3, <1>4, <1>5, <1>6 DEF Types
<1>10. expected_seq_num' = (last_id' + 1) % SeqNumMod
  <2>1. n \div SeqNumMod \in Int /\ n % SeqNumMod \in Int
        /\ n = SeqNumMod * (n \div SeqNumMod) + (n % SeqNumMod)
    <3>1. n \in Int
      BY <1>4
    <3> HIDE DEF n
    <3>2. QED
      BY <3>1, Constants, DivMod
  <2> HIDE DEF n
  <2>2. n + 1 = ((n % SeqNumMod) + 1) + SeqNumMod * (n \div SeqNumMod)
    BY <1>4, <2>1, Constants
  <2>3. (n % SeqNumMod) + 1 \in Int
    BY <2>1
  <2>4. (((n % SeqNumMod) + 1) + SeqNumMod * (n \div SeqNumMod)) % SeqNumMod
          = ((n % SeqNumMod) + 1) % SeqNumMod
    BY <2>1, <2>3, Constants, ModShift
  <2>5. QED
    BY <1>2, <1>5, <2>2, <2>4
<1>11. /\ timestamps' # <<>> /\ Len(timestamps') = TsPerPdu
       /\ Run(timestamps', (last_id' + 1) * TsPerPdu - Len(timestamps'))
  <2>1. (n + 1) * TsPerPdu - TsPerPdu = n * TsPerPdu
    BY <1>4, Constants
  <2>2. Len(timestamps') = TsPerPdu /\ last_id' = n
    BY <1>2, <1>5
  <2>3. timestamps' # <<>>
    BY <2>2, Constants, EmptySeq
  <2> HIDE DEF n, pdu
  <2>4. QED
    BY <1>2, <1>5, <2>1, <2>2, <2>3
<1>12. CASE first_packet
  <2>1. gap = 0 /\ ~synchronized /\ pkt_count = 0 /\ drop_count = 0
    BY <1>12 DEF Gap, LossInv, ReceiverInOrder
  <2>2. first'.id = n /\ pkt_count' = 1 /\ drop_count' = 0
    BY <1>2, <1>5, <1>12, <2>1
  <2>3. ReceiverInOrder'
    <3>1. pkt_count' + drop_count' = last_id' - first'.id + 1
      BY <1>2, <1>4, <1>5, <2>2
    <3> HIDE DEF n, pdu, gap
    <3>2. QED
      BY <1>2, <1>4, <1>5, <1>9, <1>10, <2>2, <3>1 DEF ReceiverInOrder
  <2>4. Len(edges') = Len(edges) /\ Run(edges', edge_now - Len(edges))
    <3>1. edges' = SubSeq(edges, 0 + 1, Len(edges))
      BY <1>2, <2>1, Constants
    <3>2. edge_now - Len(edges) + 0 = edge_now - Len(edges) /\ 0 \in 0 .. Len(edges)
          /\ edge_now - Len(edges) \in Int /\ Len(edges) - 0 = Len(edges)
          /\ edges \in Seq(Nat) /\ Run(edges, edge_now - Len(edges))
      BY <1>1 DEF Types, LossInv, FifoInOrder
    <3>3. /\ Len(SubSeq(edges, 0 + 1, Len(edges))) = Len(edges) - 0
          /\ Run(SubSeq(edges, 0 + 1, Len(edges)), edge_now - Len(edges) + 0)
      BY <3>2, RunDiscard
    <3>4. QED
      BY <3>1, <3>2, <3>3
  <2>5. FifoInOrder'
    <3>1. edge_now' = edge_now /\ now' = now /\ ~(waited' > 0)
      BY <1>2
    <3>2. Run(edges', edge_now' - Len(edges')) /\ Len(edges') <= edge_now'
          /\ edge_now' \in now' - 1 .. now' + 1
      BY <2>4, <3>1 DEF LossInv, FifoInOrder
    <3>3. Len(timestamps') <= TsPerPdu
      BY <1>11, Constants
    <3>4. QED
      BY <1>11, <3>1, <3>2, <3>3 DEF FifoInOrder
  <2>6. QED
    BY <1>2, <1>7, <1>8, <2>1, <2>3, <2>5 DEF LossInv, Aligned
<1>13. CASE ~first_packet
  <2>1. /\ last_id \in Nat /\ n = last_id + 1 + burst
        /\ expected_seq_num = (last_id + 1) % SeqNumMod /\ first' = first
        /\ first.id \in Nat /\ pkt_count + drop_count = last_id - first.id + 1
    BY <1>2, <1>13 DEF LossInv, ReceiverInOrder
  <2>2. burst \in 0 .. SeqNumMod - 1
    BY <1>1, Constants DEF Types, OnlyLosses
  <2>3. gap = burst
    <3>1. gap = (((last_id + 1 + burst) % SeqNumMod) - ((last_id + 1) % SeqNumMod))
                  % SeqNumMod
      BY <1>5, <1>13, <2>1 DEF Gap
    <3>2. last_id + 1 \in Int
      BY <2>1
    <3>3. QED
      BY <2>2, <3>1, <3>2, Constants, ModGap
  <2>4. ReceiverInOrder'
    <3>1. pkt_count \in Nat /\ drop_count \in Nat
      BY DEF TypeOK, ListenerTypeOK, ReceiverTypeOK
    <3>2. pkt_count' + drop_count' = last_id' - first'.id + 1
      <4>1. last_id' = last_id + 1 + burst /\ burst \in Nat
        BY <1>1, <1>2, <1>5, <2>1 DEF Types
      <4>2. pkt_count' = pkt_count + 1 /\ drop_count' = drop_count + burst
        BY <1>2, <2>3
      <4>3. QED
        BY <2>1, <3>1, <4>1, <4>2
    <3> HIDE DEF n, pdu, gap
    <3>3. QED
      BY <1>2, <1>4, <1>5, <1>9, <1>10, <2>1, <3>2 DEF ReceiverInOrder
  <2>5. burst * TsPerPdu \in Nat /\ edges' = SubSeq(edges, burst * TsPerPdu + 1, Len(edges))
    <3>1. burst * TsPerPdu \in Nat
      BY <1>1, Constants DEF Types
    <3>2. edges' = SubSeq(edges, burst * TsPerPdu + 1, Len(edges))
      BY <1>2, <2>3
    <3>3. QED
      BY <3>1, <3>2
  <2>6. Len(edges') = IF burst * TsPerPdu <= Len(edges) THEN Len(edges) - burst * TsPerPdu
                      ELSE 0
    BY <1>1, <2>5, Remainder, Zenon DEF Types
  <2>7. Run(edges', edge_now' - Len(edges')) /\ Len(edges') <= edge_now'
    <3>1. edge_now' = edge_now
      BY <1>2
    <3>2. CASE burst * TsPerPdu <= Len(edges)
      <4> DEFINE k == burst * TsPerPdu
      <4>1. k \in 0 .. Len(edges) /\ edges' = SubSeq(edges, k + 1, Len(edges))
        BY <1>1, <2>5, <3>2 DEF Types
      <4> HIDE DEF k
      <4>2. edge_now - Len(edges) \in Int /\ edges \in Seq(Nat)
            /\ Run(edges, edge_now - Len(edges)) /\ Len(edges) <= edge_now
            /\ Len(edges) \in Nat /\ edge_now \in Nat
        BY <1>1 DEF Types, LossInv, FifoInOrder
      <4>3. Len(edges') = Len(edges) - k /\ Run(edges', edge_now - Len(edges) + k)
        <5>1. /\ Len(SubSeq(edges, k + 1, Len(edges))) = Len(edges) - k
              /\ Run(SubSeq(edges, k + 1, Len(edges)), edge_now - Len(edges) + k)
          BY <4>1, <4>2, RunDiscard
        <5>2. QED
          BY <4>1, <5>1
      <4>4. edge_now - Len(edges') = edge_now - Len(edges) + k /\ Len(edges') <= edge_now
        <5>1. Len(edges) \in Nat /\ edge_now \in Nat /\ Len(edges) <= edge_now
          BY <4>2
        <5>2. k \in Nat /\ Len(edges') = Len(edges) - k
          BY <4>1, <4>3, <5>1
        <5>3. QED
          BY <5>1, <5>2
      <4>5. QED
        BY <3>1, <4>3, <4>4
    <3>3. CASE ~(burst * TsPerPdu <= Len(edges))
      <4>1. Len(edges') = 0
        BY <2>6, <3>3
      <4>2. QED
        BY <1>1, <3>1, <4>1 DEF Types, Run
    <3>4. QED
      BY <3>2, <3>3
  <2>8. FifoInOrder'
    <3>1. edge_now' = edge_now /\ now' = now /\ ~(waited' > 0)
      BY <1>2
    <3>2. edge_now' \in now' - 1 .. now' + 1
      BY <3>1 DEF LossInv, FifoInOrder
    <3>3. Len(timestamps') <= TsPerPdu
      BY <1>11, Constants
    <3>4. QED
      BY <1>11, <2>7, <3>1, <3>2, <3>3 DEF FifoInOrder
  <2>9. Aligned'
    <3> SUFFICES ASSUME synchronized, ~overwritten
                 PROVE  edge_now - Len(edges') = (n + 1) * TsPerPdu - TsPerPdu
      BY <1>2, <1>5, <1>11 DEF Aligned
    <3> DEFINE before == (last_id + 1) * TsPerPdu
               lost == burst * TsPerPdu
    <3>1. edge_now - Len(edges) = before
      <4>1. Len(timestamps) = 0
        BY <1>2, EmptySeq
      <4>2. before \in Int /\ edge_now - Len(edges) = before - Len(timestamps)
        BY <1>1, Constants DEF LossInv, Aligned, Types
      <4> HIDE DEF before
      <4>3. QED
        BY <4>1, <4>2
    <3>2. (n + 1) * TsPerPdu - TsPerPdu = before + lost /\ before \in Int /\ lost \in Nat
      BY <1>1, <2>1, Constants DEF Types
    <3>3. (n + 1) * TsPerPdu <= now
      <4>1. next_id * TsPerPdu <= now
        <5>1. next_id * TsPerPdu \in Int
          BY <1>1, Constants DEF Types
        <5>2. QED
          BY <1>1, <5>1 DEF Types, LossInv, TalkerInOrder
      <4>2. n + 1 <= next_id /\ n + 1 \in Int
        BY <1>1, <1>3, <1>4 DEF Types
      <4> HIDE DEF n
      <4>3. (next_id - (n + 1)) * TsPerPdu \in Nat
        BY <1>1, <4>2, Constants DEF Types
      <4>4. next_id * TsPerPdu = (n + 1) * TsPerPdu + (next_id - (n + 1)) * TsPerPdu
        BY <1>1, <4>2, Constants DEF Types
      <4>5. (n + 1) * TsPerPdu \in Int
        BY <4>2, Constants
      <4>6. QED
        BY <1>1, <4>1, <4>3, <4>4, <4>5 DEF Types
    <3>4. edge_now >= now - 1 /\ now \in Nat /\ edge_now \in Nat /\ Len(edges) \in Nat
      BY <1>1 DEF Types, LossInv, FifoInOrder
    <3>5. (n + 1) * TsPerPdu \in Int
      BY <1>4, Constants
    <3>6. lost <= Len(edges)
      <4> HIDE DEF before, lost, n
      <4> QED BY <3>1, <3>2, <3>3, <3>4, <3>5, Constants
    <3>7. Len(edges') = Len(edges) - lost
      BY <2>6, <3>6
    <3> HIDE DEF before, lost, n
    <3>8. QED
      BY <3>1, <3>2, <3>4, <3>7
  <2>10. QED
    BY <1>2, <1>7, <1>8, <2>4, <2>8, <2>9 DEF LossInv
<1>14. QED
  BY <1>12, <1>13

\* While the listener searches it may lose edges, but what it finds is the twin;
\* while it is aligned each timestamp meets its twin, and it never waits long.
LEMMA ListenerStepKeeps ==
  ASSUME Types, LossInv, ListenerStep
  PROVE  /\ LossInv'
         /\ synchronized /\ ~overwritten' => synchronized'
         /\ synchronized' /\ overwritten' => synchronized /\ overwritten
<1> DEFINE base == edge_now - Len(edges)
           t == (last_id + 1) * TsPerPdu - Len(timestamps)
<1>1. /\ timestamps # <<>> /\ timestamps' = Tail(timestamps)
      /\ UNCHANGED <<talkerVars, receiverVars, now, edge_now, net, burst, first, last_id>>
  BY DEF ListenerStep, Synchronize, Pair, EdgeTimeout, Blocked
<1>2. /\ base \in Int /\ t \in Int /\ Run(edges, base) /\ Run(timestamps, t)
      /\ edges \in Seq(Nat) /\ timestamps \in Seq(Nat)
      /\ Len(edges) \in Nat /\ Len(timestamps) \in Nat /\ edge_now \in Nat
      /\ Len(edges) <= edge_now /\ Len(timestamps) <= TsPerPdu
  BY Constants DEF Types, LossInv, FifoInOrder
<1>3. /\ Head(timestamps) = t /\ Len(timestamps') = Len(timestamps) - 1
      /\ Len(timestamps) \in Nat \ {0} /\ Run(timestamps', t + 1)
  <2> HIDE DEF t
  <2> QED BY <1>1, <1>2, RunTail
<1>4. (last_id' + 1) * TsPerPdu - Len(timestamps') = t + 1
  <2>1. last_id' = last_id /\ (last_id + 1) * TsPerPdu \in Int
    BY <1>1, Constants DEF Types
  <2>2. QED
    BY <1>2, <1>3, <2>1
<1>5. TalkerInOrder' /\ NetInOrder'
  BY <1>1 DEF LossInv, TalkerInOrder, NetInOrder, talkerVars
<1>6. ~first_packet /\ ReceiverInOrder'
  <2>1. ~first_packet
    BY <1>1 DEF LossInv, ReceiverInOrder
  <2>2. QED
    BY <1>1, <2>1 DEF LossInv, ReceiverInOrder, receiverVars, talkerVars
<1>7. Len(timestamps') <= TsPerPdu
  BY <1>2, <1>3, Constants
<1>8. edge_now' \in now' - 1 .. now' + 1
  BY <1>1 DEF LossInv, FifoInOrder
<1>9. ASSUME Len(edges') <= edge_now', Run(edges', edge_now' - Len(edges')),
             waited' > 0 => synchronized' /\ edges' # <<>>
      PROVE  FifoInOrder'
  BY <1>3, <1>4, <1>7, <1>8, <1>9 DEF FifoInOrder
<1>10. CASE Synchronize
  <2>1. PICK n \in 0 .. Len(edges) :
          /\ synchronized' = (n > 0 /\ WithinTolerance(edges[n], Head(timestamps)))
          /\ edges' = SubSeq(edges, n + 1, Len(edges))
    BY <1>10 DEF Synchronize
  <2>2. ~synchronized /\ waited' = waited /\ overwritten' = (overwritten /\ ~synchronized')
    BY <1>10 DEF Synchronize
  <2>3. n \in Nat /\ n <= Len(edges)
    BY <1>2
  <2>4. Len(edges') = Len(edges) - n /\ Run(edges', base + n)
    <3>1. /\ Len(SubSeq(edges, n + 1, Len(edges))) = Len(edges) - n
          /\ Run(SubSeq(edges, n + 1, Len(edges)), base + n)
      <4> HIDE DEF base
      <4> QED BY <1>2, RunDiscard
    <3>2. QED
      BY <2>1, <3>1
  <2>5. edge_now' - Len(edges') = base + n /\ Len(edges') <= edge_now'
    <3>1. edge_now' = edge_now
      BY <1>1
    <3>2. Len(edges') = Len(edges) - n
      BY <2>4
    <3>3. QED
      BY <1>2, <2>3, <3>1, <3>2
  <2>6. ~(waited' > 0)
    BY <2>2 DEF LossInv, FifoInOrder, Types
  <2>7. FifoInOrder'
    BY <1>9, <2>4, <2>5, <2>6
  <2>8. synchronized' => base + n = t + 1
    <3>1. SUFFICES ASSUME synchronized' PROVE base + n = t + 1
      OBVIOUS
    <3>2. n \in 1 .. Len(edges) /\ WithinTolerance(edges[n], t)
      <4>1. n > 0 /\ WithinTolerance(edges[n], Head(timestamps))
        BY <2>1, <3>1
      <4> HIDE DEF t
      <4>2. QED
        BY <1>2, <1>3, <2>3, <4>1
    <3>3. edges[n] = base + n - 1
      BY <1>2, <3>2 DEF Run
    <3>4. edges[n] = t
      <4>1. edges[n] \in Int
        BY <1>2, <2>3, <3>3
      <4> HIDE DEF t
      <4>2. QED
        BY <1>2, <3>2, <4>1, ToleranceExact
    <3> HIDE DEF base, t
    <3>5. QED
      BY <1>2, <2>3, <3>3, <3>4
  <2>9. Aligned'
    BY <1>4, <2>5, <2>8 DEF Aligned
  <2>10. QED
    BY <1>5, <1>6, <2>2, <2>7, <2>9 DEF LossInv
<1>11. CASE Pair
  <2>1. /\ edges # <<>> /\ edges' = Tail(edges) /\ synchronized /\ waited' = 0
        /\ overwritten' = overwritten
        /\ synchronized' = IF WithinTolerance(Head(edges), Head(timestamps))
                           THEN synchronized ELSE FALSE
    BY <1>11 DEF Pair
  <2>2. /\ Head(edges) = base /\ Len(edges') = Len(edges) - 1
        /\ Len(edges) \in Nat \ {0} /\ Run(edges', base + 1)
    <3> HIDE DEF base
    <3> QED BY <1>2, <2>1, RunTail
  <2>3. edge_now' - Len(edges') = base + 1 /\ Len(edges') <= edge_now'
    <3>1. edge_now' = edge_now
      BY <1>1
    <3>2. QED
      BY <1>2, <2>2, <3>1
  <2>4. FifoInOrder'
    BY <1>9, <2>1, <2>2, <2>3
  <2>5. ~overwritten => base = t /\ synchronized'
    <3>1. ~overwritten => base = t
      BY <2>1 DEF LossInv, Aligned
    <3>2. base = t => WithinTolerance(Head(edges), Head(timestamps))
      <4> HIDE DEF base, t
      <4> QED BY <1>2, <1>3, <2>2, ToleranceExact
    <3>3. QED
      BY <2>1, <3>1, <3>2
  <2>6. Aligned'
    <3>1. ~overwritten => edge_now' - Len(edges') = (last_id' + 1) * TsPerPdu - Len(timestamps')
      BY <1>4, <2>3, <2>5
    <3>2. QED
      BY <2>1, <3>1 DEF Aligned
  <2>7. QED
    BY <1>5, <1>6, <2>1, <2>4, <2>5, <2>6 DEF LossInv
<1>12. ~EdgeTimeout
  <2>1. EdgeTimeout => waited > 0 /\ edges = <<>>
    BY Constants DEF EdgeTimeout, Blocked
  <2>2. QED
    BY <2>1 DEF LossInv, FifoInOrder
<1>13. QED
  BY <1>10, <1>11, <1>12 DEF ListenerStep

\* A loss makes the burst longer.
LEMMA LoseKeeps ==
  ASSUME Types, LossInv, Lose
  PROVE  LossInv'
<1>1. /\ net # <<>> /\ net' = Tail(net) /\ burst' = burst + 1
      /\ UNCHANGED <<talkerVars, listenerVars, now, edge_now, first, last_id>>
  BY DEF Lose
<1>2. /\ Len(net) \in Nat \ {0} /\ Len(net') = Len(net) - 1
      /\ \A j \in 1 .. Len(net') : net'[j] = net[j + 1]
  <2>1. net \in Seq(Pdu)
    BY DEF Types
  <2>2. QED
    BY <1>1, <2>1, EmptySeq, HeadTailProperties
<1>3. next_id' = next_id
  BY <1>1 DEF talkerVars
<1>4. next_id' - Len(net') = next_id - Len(net) + 1 /\ Len(net') <= next_id'
  BY <1>2, <1>3 DEF Types, LossInv, NetInOrder
<1>5. NetInOrder'
  <2>1. \A j \in 1 .. Len(net') : j + 1 \in 1 .. Len(net)
    BY <1>2
  <2>2. \A j \in 1 .. Len(net') : IsPdu(net'[j], next_id - Len(net) + (j + 1) - 1)
    BY <1>2, <2>1 DEF LossInv, NetInOrder
  <2>3. \A j \in 1 .. Len(net') :
          next_id - Len(net) + (j + 1) - 1 = next_id' - Len(net') + j - 1
    BY <1>2, <1>4 DEF Types
  <2>4. QED
    BY <1>4, <2>2, <2>3 DEF NetInOrder
<1>6. TalkerInOrder' /\ FifoInOrder' /\ Aligned'
  BY <1>1 DEF LossInv, TalkerInOrder, FifoInOrder, Aligned, talkerVars, listenerVars
<1>7. ReceiverInOrder'
  <2>1. ~first_packet => next_id' - Len(net') = last_id + 1 + (burst + 1)
    BY <1>2, <1>4 DEF Types, LossInv, ReceiverInOrder
  <2>2. QED
    BY <1>1, <2>1 DEF LossInv, ReceiverInOrder, listenerVars, receiverVars
<1>8. QED
  BY <1>5, <1>6, <1>7 DEF LossInv

-----------------------------------------------------------------------------

\* The longest outage fits: a synchronised listener's FIFO overflows only when
\* some process is later than it may be.
LEMMA OverflowNeedsOutage ==
  ASSUME Types, LossInv, ListenerTick, synchronized, ~overwritten,
         EdgeCap >= (MaxBurst + 1) * TsPerPdu + MaxTransit
  PROVE  Len(edges) < EdgeCap
<1> DEFINE done == (last_id + 1) * TsPerPdu
           lost == burst * TsPerPdu
           room == MaxBurst * TsPerPdu
           sent == next_id * TsPerPdu
<1>1. /\ ~first_packet
      /\ last_id \in Nat /\ next_id - Len(net) = last_id + 1 + burst
  BY DEF LossInv, ReceiverInOrder
<1>2. /\ done \in Nat /\ lost \in Nat /\ room \in Nat /\ sent \in Nat
      /\ (MaxBurst + 1) * TsPerPdu = room + TsPerPdu
  BY <1>1, Constants DEF Types
<1>3. lost <= room
  <2>1. (MaxBurst - burst) * TsPerPdu \in Nat
    <3>1. MaxBurst - burst \in Nat
      BY Constants DEF Types
    <3>2. QED
      BY <3>1, Constants
  <2>2. room = lost + (MaxBurst - burst) * TsPerPdu
    BY Constants DEF Types
  <2> HIDE DEF room, lost
  <2>3. QED
    BY <1>2, <2>1, <2>2
<1>4. EdgeCap >= room + TsPerPdu + MaxTransit
  BY <1>2
<1>5. edge_now - Len(edges) = done - Len(timestamps)
  BY DEF LossInv, Aligned
<1>6. /\ edge_now \in Nat /\ Len(edges) \in Nat /\ Len(timestamps) \in Nat
      /\ now \in Nat /\ edge_now <= now
  BY DEF Types, ListenerTick
<1>7. OnTime(edge_now)
  BY DEF ListenerTick
<1>8. Len(timestamps) <= TsPerPdu
  BY DEF LossInv, FifoInOrder
<1>9. CASE Blocked
  <2>1. Len(edges) = 0
    BY <1>9, EmptySeq DEF Blocked
  <2>2. QED
    BY <2>1, Constants
<1>10. CASE ~Blocked /\ ~Idle
  <2>1. edge_now - timestamps[Len(timestamps)] <= MaxTransit
    BY <1>7, <1>10 DEF OnTime
  <2>2. Len(timestamps) \in 1 .. Len(timestamps)
    <3>1. timestamps \in Seq(Nat) /\ timestamps # <<>>
      BY <1>10 DEF Types, Idle
    <3>2. Len(timestamps) \in Nat \ {0}
      BY <3>1, EmptySeq
    <3>3. QED
      BY <3>2
  <2>3. timestamps[Len(timestamps)] = done - 1
    <3>1. timestamps[Len(timestamps)]
            = done - Len(timestamps) + Len(timestamps) - 1
      BY <2>2 DEF LossInv, FifoInOrder, Run
    <3> HIDE DEF done
    <3>2. QED
      BY <1>2, <1>6, <3>1
  <2> HIDE DEF done, lost, room
  <2>4. QED
    BY <1>2, <1>4, <1>5, <1>6, <1>8, <2>1, <2>3, Constants
<1>11. CASE ~Blocked /\ Idle /\ net # <<>>
  <2> DEFINE n == next_id - Len(net)
             last == net[1].timestamps[TsPerPdu]
  <2>1. 1 \in DOMAIN net
    <3>1. net \in Seq(Pdu)
      BY DEF Types
    <3>2. Len(net) \in Nat \ {0} /\ DOMAIN net = 1 .. Len(net)
      BY <1>11, <3>1, EmptySeq, LenProperties
    <3>3. QED
      BY <3>2
  <2>2. edge_now - last <= MaxTransit
    BY <1>7, <1>11, <2>1 DEF OnTime
  <2>3. IsPdu(net[1], n)
    <3>1. net \in Seq(Pdu) /\ n \in Int /\ n + 1 - 1 = n
      BY DEF Types
    <3>2. 1 \in 1 .. Len(net)
      BY <2>1, <3>1, LenProperties
    <3>3. IsPdu(net[1], next_id - Len(net) + 1 - 1)
      BY <3>2 DEF LossInv, NetInOrder
    <3>4. QED
      BY <3>1, <3>3
  <2>4. last = n * TsPerPdu + TsPerPdu - 1
    <3>1. Len(net[1].timestamps) = TsPerPdu /\ Run(net[1].timestamps, n * TsPerPdu)
      BY <2>3 DEF IsPdu
    <3>2. TsPerPdu \in 1 .. Len(net[1].timestamps)
      BY <3>1, Constants
    <3>3. QED
      BY <3>1, <3>2 DEF Run
  <2>5. n * TsPerPdu = done + lost
    BY <1>1, Constants DEF Types
  <2>6. Len(timestamps) = 0
    BY <1>11, EmptySeq DEF Idle
  <2> HIDE DEF done, lost, room, n, last
  <2>7. last = done + lost + TsPerPdu - 1
    BY <2>4, <2>5
  <2>8. QED
    BY <1>2, <1>3, <1>4, <1>5, <1>6, <2>2, <2>6, <2>7, Constants
<1>12. CASE Idle /\ net = <<>>
  <2>1. Len(net) = 0 /\ Len(timestamps) = 0
    BY <1>12, EmptySeq DEF Idle
  <2>2. sent = done + lost
    <3>1. next_id = last_id + 1 + burst
      BY <1>1, <2>1 DEF Types
    <3>2. QED
      BY <1>1, <3>1, Constants DEF Types
  <2>3. /\ sent + Len(crf_data) = now - Len(txq) /\ Len(crf_data) \in Nat
        /\ Len(crf_data) < TsPerPdu /\ Run(txq, now - Len(txq))
        /\ txq \in Seq(Nat) /\ Len(txq) \in Nat
    BY DEF LossInv, TalkerInOrder, Types
  <2>4. edge_now <= sent + Len(crf_data) + MaxTransit
    <3>1. CASE Len(txq) = 0
      <4> HIDE DEF sent
      <4> QED BY <1>2, <1>6, <2>3, <3>1, Constants
    <3>2. CASE Len(txq) # 0
      <4>1. 1 \in 1 .. Len(txq) /\ 1 \in DOMAIN txq
        BY <2>3, <3>2, LenProperties
      <4>2. edge_now - txq[1] <= MaxTransit
        BY <1>7, <4>1 DEF OnTime
      <4>3. txq[1] = now - Len(txq) + 1 - 1
        BY <2>3, <4>1 DEF Run
      <4> HIDE DEF sent
      <4>4. QED
        BY <1>2, <1>6, <2>3, <4>2, <4>3, Constants
    <3>3. QED
      BY <3>1, <3>2
  <2> HIDE DEF done, lost, room, sent
  <2>5. QED
    BY <1>2, <1>3, <1>4, <1>5, <1>6, <2>1, <2>2, <2>3, <2>4, Constants
<1>13. QED
  BY <1>9, <1>10, <1>11, <1>12

\* What a step may do to synchronisation when only losses happen.
SyncStep ==
  /\ synchronized /\ ~overwritten' => synchronized'
  /\ OutageFits => OutageFits'

LEMMA LossStep ==
  ASSUME OnlyLosses
  PROVE  TypeOK /\ LossInv /\ [Next]_vars => LossInv' /\ SyncStep
<1> SUFFICES ASSUME TypeOK, LossInv, [Next]_vars
             PROVE  LossInv' /\ SyncStep
  OBVIOUS
<1>1. Types
  BY TypesHold
<1>2. UNCHANGED <<synchronized, overwritten>> => SyncStep
  BY DEF SyncStep, OutageFits
<1>3. CASE TalkerTick /\ TalkerCapture(now, TRUE)
  <2>1. UNCHANGED <<synchronized, overwritten>>
    BY <1>3 DEF TalkerTick, listenerVars
  <2>2. QED
    BY <1>1, <1>2, <1>3, <2>1, TalkerTickKeeps
<1>4. CASE ListenerTick /\ ListenerCapture(edge_now, TRUE)
  <2>1. synchronized' = synchronized
    BY <1>4 DEF ListenerCapture
  <2>2. ASSUME EdgeCap >= (MaxBurst + 1) * TsPerPdu + MaxTransit,
               synchronized, ~overwritten
        PROVE  ~overwritten'
    <3>1. Len(edges) < EdgeCap
      BY <1>1, <1>4, <2>2, OverflowNeedsOutage
    <3>2. Len(edges) # EdgeCap
      BY <1>1, <3>1, Constants DEF Types
    <3>3. QED
      BY <1>4, <2>2, <3>2 DEF ListenerCapture
  <2>3. SyncStep
    BY <2>1, <2>2 DEF SyncStep, OutageFits
  <2>4. QED
    BY <1>1, <1>4, <2>3, ListenerTickKeeps
<1>5. CASE TalkerStep
  <2>1. UNCHANGED <<synchronized, overwritten>>
    BY <1>5 DEF TalkerStep, listenerVars
  <2>2. QED
    BY <1>2, <1>5, <2>1, TalkerStepKeeps
<1>6. CASE Deliver
  BY <1>2, <1>6, DeliverKeeps
<1>7. CASE ListenerStep
  <2>1. /\ LossInv'
        /\ synchronized /\ ~overwritten' => synchronized'
        /\ synchronized' /\ overwritten' => synchronized /\ overwritten
    BY <1>1, <1>7, ListenerStepKeeps
  <2>2. QED
    BY <2>1 DEF SyncStep, OutageFits
<1>8. CASE Lose
  <2>1. UNCHANGED <<synchronized, overwritten>>
    BY <1>8 DEF Lose, listenerVars
  <2>2. QED
    BY <1>1, <1>2, <1>8, <2>1, LoseKeeps
<1>9. CASE UNCHANGED vars
  <2>1. LossInv'
    BY <1>9 DEF vars, talkerVars, listenerVars, receiverVars, pathVars, LossInv,
                TalkerInOrder, NetInOrder, ReceiverInOrder, FifoInOrder, Aligned
  <2>2. UNCHANGED <<synchronized, overwritten>>
    BY <1>9 DEF vars, listenerVars
  <2>3. QED
    BY <1>2, <2>1, <2>2
<1>10. QED
  BY <1>3, <1>4, <1>5, <1>6, <1>7, <1>8, <1>9, StepsUnderLoss

LEMMA LossInit == Init => LossInv
<1> SUFFICES ASSUME Init PROVE LossInv
  OBVIOUS
<1>1. /\ armed = TRUE /\ quiet = 0 /\ txq = <<>> /\ crf_data = <<>> /\ seq_num = 0
      /\ next_id = 0 /\ net = <<>> /\ now = 0 /\ edge_now = 0 /\ edges = <<>>
      /\ timestamps = <<>> /\ synchronized = FALSE /\ waited = 0 /\ first_packet = TRUE
      /\ pkt_count = 0 /\ drop_count = 0
  BY DEF Init, TalkerInit, ListenerInit, ReceiverInit
<1>2. Len(txq) = 0 /\ Len(crf_data) = 0 /\ Len(net) = 0 /\ Len(edges) = 0
      /\ Len(timestamps) = 0
  BY <1>1, EmptySeq
<1>3. 0 % SeqNumMod = 0
  <2>1. SeqNumMod * 0 + 0 = 0 /\ 0 \in 0 .. SeqNumMod - 1
    BY Constants
  <2>2. QED
    BY <2>1, Constants, ModUnique
<1>4. TalkerInOrder
  <2>1. next_id * TsPerPdu + Len(crf_data) = now - Len(txq)
    BY <1>1, <1>2, Constants
  <2>2. QED
    BY <1>1, <1>3, <2>1, RunEmpty DEF TalkerInOrder
<1>5. NetInOrder /\ ReceiverInOrder
  BY <1>1, <1>2 DEF NetInOrder, ReceiverInOrder
<1>6. FifoInOrder /\ Aligned
  BY <1>1, <1>2, RunEmpty, Constants DEF FifoInOrder, Aligned
<1>7. QED
  BY <1>4, <1>5, <1>6 DEF LossInv

\* Under losses alone the state is as LossInv says.
THEOREM LossInvHolds ==
  ASSUME OnlyLosses
  PROVE  Spec => []LossInv
<1>1. TypeOK /\ LossInv /\ [Next]_vars => LossInv'
  BY LossStep
<1>2. QED
  BY <1>1, LossInit, TypeCorrect, PTL DEF Spec

\* drop_count is the number of PDUs lost since the first one accepted.
THEOREM DropsExact ==
  ASSUME OnlyLosses
  PROVE  Spec => []DropsAreExact
<1>1. LossInv => DropsAreExact
  BY DEF LossInv, ReceiverInOrder, DropsAreExact
<1>2. QED
  BY <1>1, LossInvHolds, PTL

\* Losing PDUs never costs the listener its synchronisation.
THEOREM LossHarmless ==
  ASSUME OnlyLosses
  PROVE  Spec => LossKeepsSync
<1>1. TypeOK /\ LossInv /\ [Next]_vars
        => [synchronized /\ ~overwritten' => synchronized']_vars
  BY LossStep DEF SyncStep
<1>2. QED
  BY <1>1, LossInvHolds, TypeCorrect, PTL DEF Spec, LossKeepsSync

\* A FIFO of (MaxBurst + 1) * TsPerPdu + MaxTransit edges is large enough.
THEOREM OutagesFit ==
  ASSUME OnlyLosses
  PROVE  Spec => []OutageFits
<1>1. Init => OutageFits
  BY DEF Init, ListenerInit, OutageFits
<1>2. TypeOK /\ LossInv /\ OutageFits /\ [Next]_vars => OutageFits'
  BY LossStep DEF SyncStep
<1>3. QED
  BY <1>1, <1>2, LossInvHolds, TypeCorrect, PTL DEF Spec


-----------------------------------------------------------------------------
(* The gaps between the timestamps of a PDU.                               *)

\* How far two of them may be apart: a full select, the transit of an event,
\* and the same again for each event of the other channel.
Span == (SelectPeriods + MaxTransit) * (1 + skipped)

Close(s, span) == \A j \in 1 .. Len(s) - 1 : s[j + 1] - s[j] <= span

\* The newest timestamp of the PDU being filled.
Newest == crf_data[Len(crf_data)]

\* A PDU that spans no stall, and those on their way.
PduClose(pdu, span) == Len(pdu.timestamps) = TsPerPdu /\ Close(pdu.timestamps, span)
NetClose == \A i \in DOMAIN net : PduClose(net[i], Span)

\* Events wait for the talker no longer than MaxTransit, they and the timestamps
\* before them are close together, and while none waits the newest timestamp is
\* no older than the selects since then explain.
StallInv ==
  /\ \A i \in 1 .. Len(txq) : now - 1 - txq[i] <= MaxTransit
  /\ Close(txq, Span)
  /\ Close(crf_data, Span)
  /\ crf_data # <<>> =>
       /\ quiet >= 0
       /\ txq # <<>> => Head(txq) - Newest <= Span
       /\ txq = <<>> => now - 1 - Newest <= MaxTransit + quiet + SelectPeriods * skipped
  /\ NetClose

\* A span that has room for a select and the transit after it, and grows.
LEMMA SpanType ==
  ASSUME TypeOK
  PROVE  /\ Span \in Nat /\ SelectPeriods * skipped \in Nat /\ skipped \in Nat
         /\ SelectPeriods + MaxTransit + SelectPeriods * skipped <= Span
<1> DEFINE c == SelectPeriods + MaxTransit
           a == SelectPeriods * skipped
           b == MaxTransit * skipped
<1>1. skipped \in Nat /\ SelectPeriods \in Nat /\ MaxTransit \in Nat
  BY Constants DEF TypeOK
<1>2. a \in Nat /\ b \in Nat
  BY <1>1
<1>3. Span = c + a + b
  BY <1>1 DEF Span
<1> HIDE DEF a, b
<1>4. Span \in Nat /\ c + a <= Span
  BY <1>1, <1>2, <1>3
<1> QED BY <1>1, <1>2, <1>4 DEF a

\* Appending to such a sequence, and taking its first element off it.
LEMMA CloseAppend ==
  ASSUME NEW s \in Seq(Nat), NEW k \in Nat, NEW span \in Nat, Close(s, span),
         s # <<>> => k - s[Len(s)] <= span
  PROVE  Close(Append(s, k), span)
<1>1. /\ Len(s) \in Nat /\ Len(Append(s, k)) = Len(s) + 1
      /\ \A i \in 1 .. Len(s) : Append(s, k)[i] = s[i]
      /\ Append(s, k)[Len(s) + 1] = k
  BY AppendProperties, LenProperties
<1>2. ASSUME NEW j \in 1 .. Len(s)
      PROVE  Append(s, k)[j + 1] - Append(s, k)[j] <= span
  <2>1. CASE j = Len(s)
    <3>1. s # <<>>
      BY <1>1, <2>1
    <3> QED BY <1>1, <2>1, <3>1
  <2>2. CASE j # Len(s)
    <3>1. j \in 1 .. Len(s) - 1 /\ j \in 1 .. Len(s) /\ j + 1 \in 1 .. Len(s)
      BY <1>1, <2>2
    <3>2. Append(s, k)[j + 1] = s[j + 1] /\ Append(s, k)[j] = s[j]
      <4> DEFINE n == j + 1
      <4>1. n \in 1 .. Len(s)
        BY <3>1
      <4> HIDE DEF n
      <4>2. Append(s, k)[n] = s[n]
        BY <1>1, <4>1
      <4> QED BY <1>1, <3>1, <4>2 DEF n
    <3> QED BY <3>1, <3>2 DEF Close
  <2> QED BY <2>1, <2>2
<1> QED BY <1>1, <1>2 DEF Close

LEMMA CloseTail ==
  ASSUME NEW s \in Seq(Nat), s # <<>>, NEW span \in Nat, Close(s, span)
  PROVE  /\ Close(Tail(s), span)
         /\ Tail(s) # <<>> => Head(Tail(s)) - Head(s) <= span
<1>1. /\ Len(s) \in Nat \ {0} /\ Tail(s) \in Seq(Nat) /\ Len(Tail(s)) = Len(s) - 1
      /\ \A i \in 1 .. Len(s) - 1 : Tail(s)[i] = s[i + 1]
      /\ Head(s) = s[1]
  BY HeadTailProperties, LenProperties, EmptySeq
<1>2. ASSUME NEW j \in 1 .. Len(s) - 1 - 1
      PROVE  Tail(s)[j + 1] - Tail(s)[j] <= span
  <2> DEFINE n == j + 1
  <2>1. n \in 1 .. Len(s) - 1 /\ j \in 1 .. Len(s) - 1
    BY <1>1
  <2> HIDE DEF n
  <2>2. Tail(s)[n] = s[n + 1] /\ Tail(s)[j] = s[j + 1] /\ s[n + 1] - s[n] <= span
    BY <1>1, <2>1 DEF Close
  <2> QED BY <2>2 DEF n
<1>3. ASSUME Tail(s) # <<>>
      PROVE  Head(Tail(s)) - Head(s) <= span
  <2>1. Len(Tail(s)) \in Nat \ {0} /\ Head(Tail(s)) = Tail(s)[1]
    BY <1>1, <1>3
  <2>2. 1 \in 1 .. Len(s) - 1
    BY <1>1, <2>1
  <2>3. Tail(s)[1] = s[1 + 1] /\ s[1 + 1] - s[1] <= span
    BY <1>1, <2>2 DEF Close
  <2> QED BY <1>1, <2>1, <2>3
<1> QED BY <1>1, <1>2, <1>3 DEF Close

LEMMA CloseLonger ==
  ASSUME NEW s \in Seq(Nat), NEW span \in Nat, NEW longer \in Nat, Close(s, span),
         span <= longer
  PROVE  Close(s, longer)
<1> SUFFICES ASSUME NEW j \in 1 .. Len(s) - 1
             PROVE  s[j + 1] - s[j] <= longer
  BY DEF Close
<1>1. Len(s) \in Nat
  BY LenProperties
<1>2. j \in 1 .. Len(s) /\ j + 1 \in 1 .. Len(s)
  BY <1>1
<1>3. s[j] \in Nat /\ s[j + 1] \in Nat
  <2> DEFINE n == j + 1
  <2>1. n \in 1 .. Len(s)
    BY <1>2
  <2> HIDE DEF n
  <2>2. s[j] \in Nat /\ s[n] \in Nat
    BY <1>2, <2>1, ElementOfSeq
  <2> QED BY <2>2 DEF n
<1>4. s[j + 1] - s[j] <= span
  BY DEF Close
<1> QED BY <1>3, <1>4

LEMMA NetCloseNext ==
  ASSUME NetClose, Span' = Span,
         \A i \in DOMAIN net' : (\E j \in DOMAIN net : net'[i] = net[j])
                                   \/ PduClose(net'[i], Span)
  PROVE  NetClose'
<1>1. \A i \in DOMAIN net' : PduClose(net'[i], Span)
  BY DEF NetClose
<1>2. NetClose' <=> \A i \in DOMAIN net' : PduClose(net'[i], Span')
  BY DEF NetClose, PduClose
<1> QED BY <1>1, <1>2

\* What happens in the network and at the listener leaves the talker alone.
LEMMA NetMovesOnly ==
  ASSUME TypeOK, TypeOK', StallInv, UNCHANGED <<talkerVars, now, skipped>>,
         \A i \in DOMAIN net' : \E j \in DOMAIN net : net'[i] = net[j]
  PROVE  StallInv'
<1>1. Span' = Span
  BY DEF Span
<1>2. NetClose'
  BY <1>1, NetCloseNext DEF StallInv
<1>3. UNCHANGED <<txq, crf_data, quiet, now, skipped>>
  BY DEF talkerVars
<1> QED BY <1>1, <1>2, <1>3, Zenon DEF StallInv, Newest

\* What the talker has, and since when.
LEMMA TalkerSide ==
  ASSUME TypeOK
  PROVE  /\ now \in Nat /\ MaxTransit \in Nat /\ SelectPeriods \in Nat \ {0}
         /\ quiet \in Int /\ quiet <= SelectPeriods
         /\ txq \in Seq(Nat) /\ crf_data \in Seq(Nat) /\ Len(txq) \in Nat
<1>1. now \in 0 .. MaxTime /\ quiet \in -SettlePeriods .. SelectPeriods
  BY DEF TypeOK, TalkerTypeOK
<1>2. txq \in Seq(Nat) /\ crf_data \in Seq(Nat) /\ Len(txq) \in Nat
  BY LenProperties DEF TypeOK, TalkerTypeOK
<1>3. now \in Nat /\ quiet \in Int /\ quiet <= SelectPeriods
  BY <1>1, Constants
<1> QED BY <1>2, <1>3, Constants

LEMMA StallTick ==
  ASSUME TypeOK, TypeOK', StallInv, TalkerTick
  PROVE  StallInv'
<1>1. PICK c \in BOOLEAN : TalkerCapture(now, c)
  <2>1. (armed /\ quiet >= 0) \in BOOLEAN
    OBVIOUS
  <2> QED BY <2>1, Zenon DEF TalkerTick
<1>2. /\ now \in Nat /\ now' = now + 1 /\ MaxTransit \in Nat /\ SelectPeriods \in Nat \ {0}
      /\ quiet \in Int /\ quiet <= SelectPeriods
      /\ txq \in Seq(Nat) /\ crf_data \in Seq(Nat) /\ Len(txq) \in Nat
      /\ UNCHANGED <<skipped, net>>
  <2>1. now' = now + 1 /\ UNCHANGED <<skipped, net>>
    BY DEF TalkerTick
  <2> QED BY <2>1, TalkerSide
<1>3. /\ quiet < SelectPeriods \/ txq # <<>>
      /\ c => quiet >= 0
      /\ txq' = IF c THEN Append(txq, now) ELSE txq
      /\ quiet' = IF txq' = <<>> THEN quiet + 1 ELSE quiet
      /\ crf_data' = crf_data
  BY <1>1 DEF TalkerCapture
<1>4. Span' = Span /\ Newest' = Newest
  BY <1>2, <1>3 DEF Span, Newest
<1>5. NetClose'
  BY <1>2, <1>4, NetCloseNext DEF StallInv
<1>6. \A i \in 1 .. Len(txq) : txq[i] \in Nat /\ now - txq[i] <= MaxTransit
  <2>1. \A i \in DOMAIN txq : now - txq[i] <= MaxTransit
    BY DEF TalkerTick, OnTime
  <2>2. DOMAIN txq = 1 .. Len(txq)
    BY <1>2
  <2>3. \A i \in 1 .. Len(txq) : txq[i] \in Nat
    BY <1>2, ElementOfSeq
  <2> QED BY <2>1, <2>2, <2>3
<1>7. crf_data # <<>> => Newest \in Nat
  <2>1. crf_data # <<>> => Len(crf_data) \in 1 .. Len(crf_data)
    BY <1>2, LenProperties, EmptySeq
  <2> QED BY <1>2, <2>1, ElementOfSeq DEF Newest
<1>8. CASE c
  <2>1. txq' = Append(txq, now)
    BY <1>3, <1>8
  <2>2. /\ Len(txq') = Len(txq) + 1
        /\ \A i \in 1 .. Len(txq) : txq'[i] = txq[i]
        /\ txq'[Len(txq) + 1] = now
        /\ txq' # <<>> /\ Head(txq') = txq'[1]
    BY <1>2, <2>1, AppendProperties
  <2>3. \A i \in 1 .. Len(txq') : now' - 1 - txq'[i] <= MaxTransit
    <3>1. ASSUME NEW i \in 1 .. Len(txq)
          PROVE  now' - 1 - txq'[i] <= MaxTransit
      <4>1. txq'[i] = txq[i] /\ txq[i] \in Nat /\ now - txq[i] <= MaxTransit
        BY <1>6, <2>2
      <4> QED BY <1>2, <4>1
    <3>2. now' - 1 - txq'[Len(txq) + 1] <= MaxTransit
      BY <1>2, <2>2
    <3>3. \A i \in 1 .. Len(txq') : i \in 1 .. Len(txq) \/ i = Len(txq) + 1
      BY <1>2, <2>2
    <3> QED BY <3>1, <3>2, <3>3
  <2>4. Close(txq', Span')
    <3>1. txq # <<>> => now - txq[Len(txq)] <= Span
      <4>1. ASSUME txq # <<>> PROVE now - txq[Len(txq)] <= MaxTransit /\ txq[Len(txq)] \in Nat
        <5>1. Len(txq) \in 1 .. Len(txq)
          BY <1>2, <4>1, EmptySeq
        <5> QED BY <1>6, <5>1
      <4>2. MaxTransit <= Span /\ Span \in Nat
        BY <1>2, SpanType
      <4> QED BY <1>2, <4>1, <4>2
    <3> QED BY <1>2, <1>4, <2>1, <3>1, SpanType, CloseAppend DEF StallInv
  <2>5. ASSUME crf_data # <<>>
        PROVE  quiet' >= 0 /\ Head(txq') - Newest <= Span
    <3>1. quiet >= 0 /\ quiet' = quiet
      BY <1>3, <1>8, <2>2
    <3>2. CASE txq = <<>>
      <4>1. Head(txq') = now
        <5>1. Len(txq) = 0
          BY <3>2
        <5> QED BY <2>2, <5>1
      <4>2. now - 1 - Newest <= MaxTransit + quiet + SelectPeriods * skipped
        BY <2>5, <3>2 DEF StallInv
      <4>3. quiet < SelectPeriods
        BY <1>3, <3>2
      <4> DEFINE a == SelectPeriods * skipped
      <4>4. a \in Nat /\ SelectPeriods + MaxTransit + a <= Span /\ Span \in Nat
        BY SpanType
      <4> HIDE DEF a
      <4>5. now - 1 - Newest <= MaxTransit + quiet + a
        BY <4>2 DEF a
      <4> QED BY <1>2, <1>7, <2>5, <3>1, <4>1, <4>3, <4>4, <4>5
    <3>3. CASE txq # <<>>
      <4>1. Head(txq') = Head(txq)
        <5>1. 1 \in 1 .. Len(txq) /\ Head(txq) = txq[1]
          BY <1>2, <3>3, EmptySeq
        <5> QED BY <2>2, <5>1
      <4> QED BY <2>5, <3>1, <3>3, <4>1 DEF StallInv
    <3> QED BY <3>1, <3>2, <3>3
  <2> QED BY <1>3, <1>4, <1>5, <2>2, <2>3, <2>4, <2>5 DEF StallInv
<1>9. CASE ~c
  <2>1. txq' = txq
    BY <1>3, <1>9
  <2>2. \A i \in 1 .. Len(txq') : now' - 1 - txq'[i] <= MaxTransit
    <3> SUFFICES ASSUME NEW i \in 1 .. Len(txq)
                 PROVE  now' - 1 - txq[i] <= MaxTransit
      BY <2>1
    <3>1. txq[i] \in Nat /\ now - txq[i] <= MaxTransit
      BY <1>6
    <3> QED BY <1>2, <3>1
  <2>3. ASSUME crf_data # <<>>
        PROVE  /\ quiet' >= 0
               /\ txq' # <<>> => Head(txq') - Newest <= Span
               /\ txq' = <<>> => now' - 1 - Newest
                                   <= MaxTransit + quiet' + SelectPeriods * skipped
    <3>1. quiet >= 0
      BY <2>3 DEF StallInv
    <3>2. CASE txq = <<>>
      <4> DEFINE a == SelectPeriods * skipped
      <4>1. now - 1 - Newest <= MaxTransit + quiet + a
        BY <2>3, <3>2 DEF StallInv
      <4>2. a \in Nat
        BY SpanType
      <4>3. quiet' = quiet + 1
        BY <1>3, <2>1, <3>2
      <4> HIDE DEF a
      <4>4. now' - 1 - Newest <= MaxTransit + quiet' + a /\ quiet' >= 0
        BY <1>2, <1>7, <2>3, <3>1, <4>1, <4>2, <4>3
      <4> QED BY <2>1, <3>2, <4>4 DEF a
    <3>3. CASE txq # <<>>
      BY <1>3, <2>1, <2>3, <3>1, <3>3 DEF StallInv
    <3> QED BY <3>2, <3>3
  <2> QED BY <1>2, <1>3, <1>4, <1>5, <2>1, <2>2, <2>3 DEF StallInv
<1> QED BY <1>8, <1>9

LEMMA StallRead ==
  ASSUME TypeOK, TypeOK', StallInv, TalkerStep
  PROVE  StallInv'
<1> DEFINE k == Head(txq)
           filled == Append(crf_data, k)
<1>1. /\ txq # <<>> /\ txq' = Tail(txq) /\ quiet' = 0
      /\ crf_data' = (IF Fills THEN <<>> ELSE filled)
      /\ net' = net \o Sent /\ UNCHANGED <<now, skipped>>
  BY DEF TalkerStep, ReadEdge
<1>2. /\ Len(txq) \in Nat \ {0} /\ k = txq[1] /\ k \in Nat
      /\ Tail(txq) \in Seq(Nat) /\ Len(Tail(txq)) = Len(txq) - 1
      /\ \A i \in 1 .. Len(txq) - 1 : Tail(txq)[i] = txq[i + 1]
  <2>1. Len(txq) \in Nat \ {0}
    BY <1>1, TalkerSide, EmptySeq
  <2> QED BY <1>1, <2>1, TalkerSide, HeadTailProperties, LenProperties
<1>3. Span' = Span /\ Span \in Nat
  BY <1>1, SpanType DEF Span
<1>4. \A i \in 1 .. Len(txq') : now' - 1 - txq'[i] <= MaxTransit
  <2> SUFFICES ASSUME NEW i \in 1 .. Len(txq) - 1
               PROVE  now - 1 - Tail(txq)[i] <= MaxTransit
    BY <1>1, <1>2
  <2> DEFINE n == i + 1
  <2>1. n \in 1 .. Len(txq)
    BY <1>2
  <2> HIDE DEF n
  <2>2. now - 1 - txq[n] <= MaxTransit
    BY <2>1 DEF StallInv
  <2> QED BY <1>2, <2>2 DEF n
<1>5. /\ Close(txq', Span')
      /\ txq' # <<>> => Head(txq') - k <= Span
  BY <1>1, <1>3, TalkerSide, CloseTail DEF StallInv
<1>6. filled \in Seq(Nat) /\ Len(filled) = Len(crf_data) + 1 /\ filled[Len(filled)] = k
  BY <1>2, TalkerSide, AppendProperties
<1>7. Close(filled, Span)
  <2>1. crf_data # <<>> => k - crf_data[Len(crf_data)] <= Span
    BY <1>1 DEF StallInv, Newest
  <2> QED BY <1>2, <1>3, <2>1, TalkerSide, CloseAppend DEF StallInv
<1>8. Close(crf_data', Span')
  <2>1. Close(<<>>, Span)
    BY DEF Close
  <2> QED BY <1>1, <1>3, <1>7, <2>1
<1>9. ASSUME crf_data' # <<>>
      PROVE  /\ quiet' >= 0
             /\ txq' # <<>> => Head(txq') - Newest' <= Span'
             /\ txq' = <<>> => now' - 1 - Newest'
                                 <= MaxTransit + quiet' + SelectPeriods * skipped'
  <2>1. Newest' = k
    BY <1>1, <1>6, <1>9 DEF Newest
  <2>2. now - 1 - k <= MaxTransit
    <3>1. 1 \in 1 .. Len(txq)
      BY <1>2
    <3> QED BY <1>2, <3>1 DEF StallInv
  <2> DEFINE a == SelectPeriods * skipped
  <2>3. a \in Nat
    BY SpanType
  <2> HIDE DEF a
  <2>4. now - 1 - k <= MaxTransit + 0 + a
    BY <1>2, <2>2, <2>3, TalkerSide
  <2> HIDE DEF k
  <2> QED BY <1>1, <1>3, <1>5, <2>1, <2>4 DEF a
<1>10. NetClose'
  <2>1. PduClose([id |-> next_id, seq_num |-> seq_num, timestamps |-> filled], Span)
          \/ ~Fills
    <3>1. Fills => Len(filled) = TsPerPdu
      BY <1>6 DEF Fills
    <3> HIDE DEF filled
    <3> QED BY <1>7, <3>1 DEF PduClose
  <2>2. /\ Len(net) \in Nat /\ Sent \in Seq(Pdu) /\ net \in Seq(Pdu)
        /\ Len(Sent) \in Nat
        /\ \A i \in 1 .. Len(Sent) : PduClose(Sent[i], Span)
    <3>1. Sent \in Seq(Pdu)
      BY ReadEdgeType DEF TypeOK, TalkerStep
    <3>2. CASE Fills
      <4>1. Sent = <<[id |-> next_id, seq_num |-> seq_num, timestamps |-> filled]>>
        BY <3>2 DEF Sent
      <4> HIDE DEF filled
      <4>2. \A i \in 1 .. Len(Sent) :
              Sent[i] = [id |-> next_id, seq_num |-> seq_num, timestamps |-> filled]
        BY <4>1
      <4> QED BY <2>1, <3>1, <3>2, <4>2, LenProperties DEF TypeOK
    <3>3. CASE ~Fills
      <4>1. Sent = <<>>
        BY <3>3 DEF Sent
      <4> QED BY <3>1, <4>1, LenProperties DEF TypeOK
    <3> QED BY <3>2, <3>3
  <2>3. \A i \in DOMAIN net' : (\E j \in DOMAIN net : net'[i] = net[j])
                                  \/ PduClose(net'[i], Span)
    <3> SUFFICES ASSUME NEW i \in 1 .. Len(net) + Len(Sent)
                 PROVE  (\E j \in DOMAIN net : net'[i] = net[j])
                          \/ PduClose(net'[i], Span)
      BY <1>1, <2>2, ConcatProperties
    <3>1. CASE i <= Len(net)
      BY <1>1, <2>2, <3>1, ConcatProperties
    <3>2. CASE i > Len(net)
      <4> DEFINE n == i - Len(net)
      <4>1. n \in 1 .. Len(Sent)
        BY <2>2, <3>2
      <4>2. net'[i] = Sent[n]
        BY <1>1, <2>2, <3>2, ConcatProperties
      <4> HIDE DEF n
      <4> QED BY <2>2, <4>1, <4>2
    <3> QED BY <2>2, <3>1, <3>2
  <2> QED BY <1>3, <2>3, NetCloseNext DEF StallInv
<1> QED BY <1>4, <1>5, <1>8, <1>9, <1>10 DEF StallInv

\* A timeout and a new start give up the PDU that was being filled.
LEMMA StallEmpties ==
  ASSUME TypeOK, TypeOK', StallInv, crf_data' = <<>>, txq' = <<>>,
         UNCHANGED <<net, skipped>>
  PROVE  StallInv'
<1>1. Span' = Span
  BY DEF Span
<1>2. NetClose'
  BY <1>1, NetCloseNext DEF StallInv
<1>3. Len(txq') = 0 /\ Close(txq', Span') /\ Close(crf_data', Span')
  BY DEF Close
<1> QED BY <1>2, <1>3 DEF StallInv

LEMMA StallOther ==
  ASSUME TypeOK, TypeOK', StallInv, OtherChannel
  PROVE  StallInv'
<1>1. /\ quiet >= 0 /\ quiet' = 0 /\ skipped' = skipped + 1
      /\ UNCHANGED <<txq, crf_data, now, net>>
  BY DEF OtherChannel, SkipEvent
<1> DEFINE a == SelectPeriods * skipped
           a_2 == SelectPeriods * skipped'
<1>2. Span \in Nat /\ Span' \in Nat /\ Span <= Span' /\ a \in Nat /\ a_2 = a + SelectPeriods
  <2> DEFINE c == SelectPeriods + MaxTransit
  <2>1. skipped \in Nat /\ SelectPeriods \in Nat /\ MaxTransit \in Nat /\ c \in Nat
    BY Constants, SpanType
  <2>2. \A m, n \in Nat : m * n \in Nat /\ m * (n + 1) = m * n + m
    OBVIOUS
  <2> HIDE DEF c
  <2>3. a \in Nat /\ a_2 = a + SelectPeriods
    BY <1>1, <2>1, <2>2
  <2>4. Span = c * (1 + skipped) /\ Span' = c * (1 + skipped')
    BY DEF Span, c
  <2>5. 1 + skipped' = (1 + skipped) + 1 /\ 1 + skipped \in Nat
    BY <1>1, <2>1
  <2>6. Span' = Span + c /\ Span \in Nat
    BY <2>1, <2>2, <2>4, <2>5
  <2> QED BY <2>1, <2>3, <2>6
<1> HIDE DEF a, a_2
<1>3. Close(txq', Span') /\ Close(crf_data', Span')
  BY <1>1, <1>2, CloseLonger, TalkerSide DEF StallInv
<1>4. NetClose'
  <2>1. ASSUME NEW i \in DOMAIN net
        PROVE  PduClose(net[i], Span')
    <3>1. net[i] \in Pdu
      BY ElementOfSeq, LenProperties DEF TypeOK
    <3>2. net[i].timestamps \in Seq(Nat) /\ PduClose(net[i], Span)
      BY <3>1 DEF Pdu, StallInv, NetClose
    <3> QED BY <1>2, <3>2, CloseLonger DEF PduClose
  <2>2. NetClose' <=> \A i \in DOMAIN net' : PduClose(net'[i], Span')
    BY DEF NetClose, PduClose
  <2> QED BY <1>1, <2>1, <2>2
<1>5. ASSUME crf_data # <<>>
      PROVE  /\ txq # <<>> => Head(txq) - Newest <= Span'
             /\ txq = <<>> => now - 1 - Newest <= MaxTransit + 0 + a_2
  <2>1. Newest \in Nat
    <3>1. Len(crf_data) \in 1 .. Len(crf_data)
      BY <1>5, TalkerSide, LenProperties, EmptySeq
    <3> QED BY <3>1, TalkerSide, ElementOfSeq DEF Newest
  <2>2. ASSUME txq # <<>>
        PROVE  Head(txq) - Newest <= Span'
    <3>1. Head(txq) \in Nat
      BY <2>2, TalkerSide, HeadTailProperties
    <3>2. Head(txq) - Newest <= Span
      BY <1>5, <2>2 DEF StallInv
    <3> QED BY <1>2, <2>1, <3>1, <3>2
  <2>3. ASSUME txq = <<>>
        PROVE  now - 1 - Newest <= MaxTransit + 0 + a_2
    <3>1. now - 1 - Newest <= MaxTransit + quiet + a
      BY <1>5, <2>3 DEF StallInv, a
    <3>2. now \in Nat /\ MaxTransit \in Nat /\ quiet \in Nat /\ quiet <= SelectPeriods
            /\ SelectPeriods \in Nat
      BY <1>1, TalkerSide
    <3>3. \A t, n, m, q, b, c \in Nat :
            t - 1 - n <= m + q + b /\ q <= c => t - 1 - n <= m + 0 + (b + c)
      OBVIOUS
    <3> QED BY <1>2, <2>1, <3>1, <3>2, <3>3
  <2> QED BY <2>2, <2>3
<1>6. Newest' = Newest
  BY <1>1 DEF Newest
<1> QED BY <1>1, <1>3, <1>4, <1>5, <1>6 DEF StallInv, a_2

\* What is left of the network when a PDU has overtaken another.
LEMMA AfterTwo ==
  ASSUME NEW S, NEW s \in Seq(S), Len(s) > 1
  PROVE  /\ SubSeq(s, 3, Len(s)) \in Seq(S) /\ Len(SubSeq(s, 3, Len(s))) = Len(s) - 2
         /\ \A i \in 1 .. Len(SubSeq(s, 3, Len(s))) : SubSeq(s, 3, Len(s))[i] = s[2 + i]
<1> DEFINE rest == SubSeq(s, 2 + 1, Len(s))
<1>1. /\ rest \in Seq(S)
      /\ Len(rest) = IF 2 <= Len(s) THEN Len(s) - 2 ELSE 0
      /\ \A i \in 1 .. Len(rest) : rest[i] = s[2 + i]
  BY Remainder
<1>2. SubSeq(s, 3, Len(s)) = rest
  OBVIOUS
<1> HIDE DEF rest
<1>3. Len(rest) = Len(s) - 2
  BY <1>1, LenProperties
<1> QED BY <1>1, <1>2, <1>3

\* The network has no PDU it did not have, unless the talker sends one.
LEMMA NetMoves ==
  ASSUME net \in Seq(Pdu), [Next]_vars, ~TalkerStep
  PROVE  \A i \in 1 .. Len(net') : \E j \in 1 .. Len(net) : net'[i] = net[j]
<1>1. net \in Seq(Pdu) /\ Len(net) \in Nat
  BY LenProperties
<1>2. CASE Deliver \/ Lose
  <2>1. net # <<>> /\ net' = Tail(net)
    BY <1>2 DEF Deliver, Lose, Accept
  <2>2. /\ Len(net) > 0 /\ Len(net') = Len(net) - 1
        /\ \A i \in 1 .. Len(net) - 1 : net'[i] = net[i + 1]
    BY <1>1, <2>1, HeadTailProperties, EmptySeq
  <2> QED BY <1>1, <2>2
<1>3. CASE Reorder
  <2>1. Len(net) > 1 /\ net' = <<net[1]>> \o SubSeq(net, 3, Len(net))
    BY <1>3 DEF Reorder, Accept
  <2> DEFINE rest == SubSeq(net, 3, Len(net))
  <2>2. /\ rest \in Seq(Pdu) /\ Len(rest) = Len(net) - 2
        /\ \A i \in 1 .. Len(rest) : rest[i] = net[2 + i]
    <3>1. Len(net) > 1
      BY <2>1
    <3> QED BY <1>1, <3>1, AfterTwo
  <2>3. <<net[1]>> \in Seq(Pdu)
    BY <1>1, <2>1, ElementOfSeq
  <2> HIDE DEF rest
  <2>4. /\ Len(net') = Len(rest) + 1
        /\ net'[1] = net[1]
        /\ \A i \in 2 .. Len(rest) + 1 : net'[i] = rest[i - 1]
    BY <2>1, <2>2, <2>3, ConcatProperties DEF rest
  <2>5. Len(rest) \in Nat /\ Len(net) = Len(rest) + 2
    <3>1. Len(net) > 1
      BY <2>1
    <3> QED BY <1>1, <2>2, <3>1
  <2> SUFFICES ASSUME NEW i \in 1 .. Len(rest) + 1
               PROVE  \E j \in 1 .. Len(net) : net'[i] = net[j]
    BY <2>4
  <2>6. CASE i = 1
    <3>1. 1 \in 1 .. Len(net)
      BY <2>5
    <3> QED BY <2>4, <2>6, <3>1
  <2>7. CASE i # 1
    <3> DEFINE n == i - 1
    <3>1. n \in 1 .. Len(rest) /\ i \in 2 .. Len(rest) + 1
      BY <2>5, <2>7
    <3>2. net'[i] = rest[n]
      BY <2>4, <3>1
    <3> HIDE DEF n
    <3>3. 2 + n \in 1 .. Len(net)
      BY <2>5, <3>1
    <3>4. rest[n] = net[2 + n]
      BY <2>2, <3>1
    <3> QED BY <3>2, <3>3, <3>4
  <2> QED BY <2>6, <2>7
<1>4. CASE net' = net
  BY <1>4
<1>5. \/ Deliver \/ Lose \/ Reorder \/ net' = net
  BY DEF Next, TalkerTick, ListenerTick, TalkerTimeout, ListenerStep, Duplicate, Stall,
         Restart, OtherChannel, Finished, vars, pathVars
<1> QED BY <1>2, <1>3, <1>4, <1>5

\* The talker takes an event off its queue whenever it handles one.
LEMMA StepReads ==
  ASSUME txq \in Seq(Nat), txq' = txq
  PROVE  ~TalkerStep
<1>1. TalkerStep => txq # <<>> /\ txq' = Tail(txq)
  BY DEF TalkerStep, ReadEdge
<1>2. txq # <<>> => Len(Tail(txq)) = Len(txq) - 1 /\ Len(txq) \in Nat
  BY HeadTailProperties, LenProperties
<1>3. txq # <<>> => Tail(txq) # txq
  BY <1>2
<1> QED BY <1>1, <1>3

LEMMA StallNext == TypeOK /\ TypeOK' /\ StallInv /\ [Next]_vars => StallInv'
<1> SUFFICES ASSUME TypeOK, TypeOK', StallInv, [Next]_vars
             PROVE  StallInv'
  OBVIOUS
<1>1. /\ net \in Seq(Pdu) /\ DOMAIN net = 1 .. Len(net)
      /\ DOMAIN net' = 1 .. Len(net') /\ txq \in Seq(Nat)
  BY LenProperties DEF TypeOK, TalkerTypeOK
<1>2. CASE \/ Deliver \/ Lose \/ Reorder \/ Duplicate \/ ListenerTick \/ ListenerStep
           \/ Finished \/ UNCHANGED vars
  <2>1. UNCHANGED <<talkerVars, now, skipped>>
    BY <1>2 DEF Deliver, Lose, Reorder, Duplicate, Accept, ListenerTick, ListenerStep, Finished,
                vars, pathVars
  <2>2. ~TalkerStep
    <3>1. txq' = txq
      BY <2>1 DEF talkerVars
    <3> QED BY <1>1, <3>1, StepReads
  <2>3. \A i \in DOMAIN net' : \E j \in DOMAIN net : net'[i] = net[j]
    BY <1>1, <2>2, NetMoves
  <2> QED BY <2>1, <2>3, NetMovesOnly
<1>3. CASE Stall
  <2>1. UNCHANGED <<txq, crf_data, quiet, now, skipped, net>>
    BY <1>3 DEF Stall, ChannelDies
  <2>2. Span' = Span /\ Newest' = Newest
    BY <2>1 DEF Span, Newest
  <2>3. NetClose'
    BY <2>1, <2>2, NetCloseNext DEF StallInv
  <2> QED BY <2>1, <2>2, <2>3, Zenon DEF StallInv
<1>4. CASE TalkerTimeout
  BY <1>4, StallEmpties DEF TalkerTimeout, SelectTimeout, PartialPduAfterStall
<1>5. CASE Restart
  BY <1>5, StallEmpties DEF Restart, TalkerRestart
<1> QED BY <1>2, <1>3, <1>4, <1>5, StallTick, StallRead, StallOther DEF Next

\* No PDU spans a stall of the talker, for every timeout of its select and every
\* transit: what it had of a PDU when the select ran out is never sent.
THEOREM StallsSplit == Spec => []NoPduAcrossStall
<1>1. Init => StallInv
  <2> SUFFICES ASSUME Init PROVE StallInv
    OBVIOUS
  <2>1. txq = <<>> /\ crf_data = <<>> /\ net = <<>>
    BY DEF Init, TalkerInit
  <2>2. Len(txq) = 0 /\ Len(crf_data) = 0 /\ DOMAIN net = {}
    BY <2>1
  <2> QED BY <2>1, <2>2 DEF StallInv, Close, NetClose
<1>2. StallInv => NoPduAcrossStall
  <2> SUFFICES ASSUME StallInv, NEW i \in DOMAIN net, NEW j \in 1 .. TsPerPdu - 1
               PROVE  net[i].timestamps[j + 1] - net[i].timestamps[j] <= Span
    BY DEF NoPduAcrossStall, Span
  <2> QED BY DEF StallInv, NetClose, PduClose, Close
<1> QED BY <1>1, <1>2, StallNext, TypeCorrect, PTL DEF Spec

-----------------------------------------------------------------------------
(***************************************************************************)
(* Recovery.  What came before the last fault is anything; what came after *)
(* it is one run of edges on either side, and two PDUs of it are enough.   *)
(***************************************************************************)

\* The scope of the theorem: a PDU with room for more than one timestamp, and a
\* FIFO with room for the edges of a PDU.  The code has 6 and 128.
RoomForPdu == TsPerPdu > 1 /\ EdgeCap >= TsPerPdu

\* All of s is from before k; none of it is later than d.
Before(s, k) == \A i \in 1 .. Len(s) : s[i] < k

Old(s, d) == \A i \in 1 .. Len(s) : s[i] <= d

\* Edges k, k + 1, ... but for those no later than d, which may be others.
Fits(s, k, d) ==
  \A i \in 1 .. Len(s) : s[i] = k + i - 1 \/ (s[i] <= d /\ k + i - 1 <= d)

\* The newest timestamp of a PDU.
LastTs(pdu) == pdu.timestamps[TsPerPdu]

\* A whole PDU, all of it from before k.
PduShape(pdu, k) == Len(pdu.timestamps) = TsPerPdu /\ Before(pdu.timestamps, k)

\* Nothing is from the future, and the two clocks are together, whatever happens.
Shape ==
  /\ Before(txq, now) /\ Before(crf_data, now)
  /\ quiet < 0 => txq = <<>> /\ crf_data = <<>>
  /\ \A i \in 1 .. Len(net) : PduShape(net[i], now)
  /\ Len(timestamps) <= TsPerPdu
  /\ Before(timestamps, now)
  /\ Before(edges, edge_now)
  /\ now <= edge_now + 1
  /\ waited > 0 => synchronized

-----------------------------------------------------------------------------

\* The two ends of sequences that fit, and of sequences that end before k.
LEMMA FitsAppend ==
  ASSUME NEW s \in Seq(Nat), NEW k \in Int, NEW d \in Nat, NEW v \in Nat, Fits(s, k, d),
         v = k + Len(s) \/ (v <= d /\ k + Len(s) <= d)
  PROVE  /\ Append(s, v) \in Seq(Nat)
         /\ Append(s, v) # <<>>
         /\ Len(Append(s, v)) = Len(s) + 1
         /\ Fits(Append(s, v), k, d)
<1>1. Len(s) \in Nat
  BY LenProperties
<1>2. /\ Append(s, v) \in Seq(Nat)
      /\ Append(s, v) # <<>>
      /\ Len(Append(s, v)) = Len(s) + 1
      /\ \A i \in 1 .. Len(s) : Append(s, v)[i] = s[i]
      /\ Append(s, v)[Len(s) + 1] = v
  BY AppendProperties
<1>3. \A i \in 1 .. Len(s) + 1 : i \in 1 .. Len(s) \/ i = Len(s) + 1
  BY <1>1
<1>4. QED
  BY <1>1, <1>2, <1>3 DEF Fits

LEMMA BeforeAppend ==
  ASSUME NEW s \in Seq(Nat), NEW k \in Int, NEW v \in Nat, Before(s, k), v < k
  PROVE  Before(Append(s, v), k)
<1>1. Len(s) \in Nat
  BY LenProperties
<1>2. /\ Len(Append(s, v)) = Len(s) + 1
      /\ \A i \in 1 .. Len(s) : Append(s, v)[i] = s[i]
      /\ Append(s, v)[Len(s) + 1] = v
  BY AppendProperties
<1>3. \A i \in 1 .. Len(s) + 1 : i \in 1 .. Len(s) \/ i = Len(s) + 1
  BY <1>1
<1>4. QED
  BY <1>1, <1>2, <1>3 DEF Before

LEMMA BeforeTail ==
  ASSUME NEW s \in Seq(Nat), NEW k \in Int, Before(s, k), s # <<>>
  PROVE  Before(Tail(s), k) /\ Head(s) < k /\ Head(s) \in Nat
<1>1. Len(s) \in Nat \ {0}
  BY EmptySeq
<1>2. /\ Len(Tail(s)) = Len(s) - 1 /\ Head(s) \in Nat
      /\ \A i \in 1 .. Len(Tail(s)) : Tail(s)[i] = s[i + 1]
  BY HeadTailProperties
<1>3. \A i \in 1 .. Len(Tail(s)) : i + 1 \in 1 .. Len(s)
  BY <1>1, <1>2
<1>4. Head(s) = s[1]
  OBVIOUS
<1>5. QED
  BY <1>1, <1>2, <1>3, <1>4 DEF Before

LEMMA BeforeDiscard ==
  ASSUME NEW s \in Seq(Nat), NEW k \in Int, Before(s, k), NEW n \in Nat
  PROVE  Before(SubSeq(s, n + 1, Len(s)), k)
<1> DEFINE rest == SubSeq(s, n + 1, Len(s))
<1>1. Len(s) \in Nat
  BY LenProperties
<1>2. /\ Len(rest) = IF n <= Len(s) THEN Len(s) - n ELSE 0
      /\ \A i \in 1 .. Len(rest) : rest[i] = s[n + i]
  BY Remainder
<1> HIDE DEF rest
<1>3. \A i \in 1 .. Len(rest) : n + i \in 1 .. Len(s)
  BY <1>1, <1>2
<1>4. Before(rest, k)
  BY <1>2, <1>3 DEF Before
<1>5. QED
  BY <1>4 DEF rest

LEMMA FitsTail ==
  ASSUME NEW s \in Seq(Nat), NEW k \in Int, NEW d \in Nat, Fits(s, k, d), s # <<>>
  PROVE  /\ Head(s) = k \/ (Head(s) <= d /\ k <= d)
         /\ Head(s) \in Nat
         /\ Tail(s) \in Seq(Nat)
         /\ Len(s) \in Nat \ {0}
         /\ Len(Tail(s)) = Len(s) - 1
         /\ Fits(Tail(s), k + 1, d)
<1>1. Len(s) \in Nat \ {0}
  BY EmptySeq
<1>2. /\ Tail(s) \in Seq(Nat) /\ Head(s) \in Nat
      /\ Len(Tail(s)) = Len(s) - 1
      /\ \A i \in 1 .. Len(Tail(s)) : Tail(s)[i] = s[i + 1]
  BY HeadTailProperties
<1>3. Head(s) = s[1] /\ (s[1] = k \/ (s[1] <= d /\ k <= d))
  <2>1. s[1] = k + 1 - 1 \/ (s[1] <= d /\ k + 1 - 1 <= d)
    BY <1>1 DEF Fits
  <2> QED BY <2>1
<1>4. \A i \in 1 .. Len(Tail(s)) : i + 1 \in 1 .. Len(s) /\ k + (i + 1) - 1 = k + 1 + i - 1
  BY <1>1, <1>2
<1>5. Fits(Tail(s), k + 1, d)
  <2> SUFFICES ASSUME NEW i \in 1 .. Len(Tail(s))
               PROVE  Tail(s)[i] = k + 1 + i - 1
                        \/ (Tail(s)[i] <= d /\ k + 1 + i - 1 <= d)
    BY DEF Fits
  <2> DEFINE j == i + 1
  <2>1. j \in 1 .. Len(s) /\ k + j - 1 = k + 1 + i - 1 /\ Tail(s)[i] = s[j]
    BY <1>2, <1>4
  <2> HIDE DEF j
  <2>2. s[j] = k + j - 1 \/ (s[j] <= d /\ k + j - 1 <= d)
    BY <2>1 DEF Fits
  <2> QED BY <2>1, <2>2
<1>6. QED
  BY <1>1, <1>2, <1>3, <1>5

LEMMA FitsDiscard ==
  ASSUME NEW s \in Seq(Nat), NEW k \in Int, NEW d \in Nat, Fits(s, k, d),
         NEW n \in 0 .. Len(s)
  PROVE  /\ Len(SubSeq(s, n + 1, Len(s))) = Len(s) - n
         /\ Fits(SubSeq(s, n + 1, Len(s)), k + n, d)
<1> DEFINE rest == SubSeq(s, n + 1, Len(s))
<1>1. Len(s) \in Nat /\ n \in Nat /\ n <= Len(s)
  BY LenProperties
<1>2. /\ Len(rest) = IF n <= Len(s) THEN Len(s) - n ELSE 0
      /\ \A i \in 1 .. Len(rest) : rest[i] = s[n + i]
  BY <1>1, Remainder
<1> HIDE DEF rest
<1>3. Len(rest) = Len(s) - n
  BY <1>1, <1>2
<1>4. Fits(rest, k + n, d)
  <2> SUFFICES ASSUME NEW i \in 1 .. Len(rest)
               PROVE  rest[i] = k + n + i - 1 \/ (rest[i] <= d /\ k + n + i - 1 <= d)
    BY DEF Fits
  <2> DEFINE j == n + i
  <2>1. j \in 1 .. Len(s) /\ k + j - 1 = k + n + i - 1 /\ rest[i] = s[j]
    <3>1. rest[i] = s[j]
      BY <1>2
    <3>2. i \in Nat /\ 1 <= i /\ i <= Len(s) - n
      BY <1>1, <1>3
    <3>3. j \in Nat /\ 1 <= j /\ j <= Len(s)
      BY <1>1, <3>2
    <3>4. k + j - 1 = k + n + i - 1
      BY <1>1, <3>2
    <3> QED BY <1>1, <3>1, <3>3, <3>4
  <2> HIDE DEF j
  <2>2. s[j] = k + j - 1 \/ (s[j] <= d /\ k + j - 1 <= d)
    BY <2>1 DEF Fits
  <2> QED BY <2>1, <2>2
<1>5. QED
  BY <1>3, <1>4 DEF rest

\* What is no later than d fits wherever it ends no later than d.
LEMMA OldFits ==
  ASSUME NEW s \in Seq(Nat), NEW k \in Int, NEW d \in Nat, NEW m \in Int, Before(s, m),
         m - 1 <= d, k + Len(s) - 1 <= d
  PROVE  Fits(s, k, d) /\ Old(s, d)
<1>1. Len(s) \in Nat
  BY LenProperties
<1>2. \A i \in 1 .. Len(s) : s[i] \in Nat
  BY ElementOfSeq
<1>3. \A i \in 1 .. Len(s) : s[i] < m
  BY DEF Before
<1>4. \A i \in 1 .. Len(s) : s[i] <= d /\ k + i - 1 <= d
  BY <1>1, <1>2, <1>3
<1> QED BY <1>4 DEF Fits, Old

-----------------------------------------------------------------------------

\* The PDU a listener takes is one of the network's.
LEMMA Takes ==
  ASSUME net \in Seq(Pdu), Deliver \/ Duplicate \/ Reorder
  PROVE  \E j \in 1 .. Len(net) : Accept(net[j])
<1>1. Len(net) \in Nat
  BY LenProperties
<1>2. CASE Deliver \/ Duplicate
  <2>1. net # <<>> /\ Accept(Head(net))
    BY <1>2 DEF Deliver, Duplicate
  <2>2. 1 \in 1 .. Len(net) /\ Head(net) = net[1]
    BY <1>1, <2>1, EmptySeq
  <2> QED BY <2>1, <2>2
<1>3. CASE Reorder
  <2>1. Len(net) > 1 /\ Accept(net[2])
    BY <1>3 DEF Reorder
  <2>2. 2 \in 1 .. Len(net)
    BY <1>1, <2>1
  <2> QED BY <2>1, <2>2
<1> QED BY <1>2, <1>3

\* The PDU the talker sends has what it had of it and the event it handles.
LEMMA SentShape ==
  ASSUME Types, Shape, TalkerStep
  PROVE  /\ Before(txq', now) /\ Before(crf_data', now)
         /\ \A i \in 1 .. Len(net') : PduShape(net'[i], now)
<1>1. txq # <<>> /\ txq' = Tail(txq) /\ net' = net \o Sent
  BY DEF TalkerStep, ReadEdge
<1>2. Before(txq', now) /\ Head(txq) < now /\ Head(txq) \in Nat
  <2>1. txq \in Seq(Nat) /\ now \in Int /\ Before(txq, now)
    BY DEF Types, Shape
  <2> QED BY <1>1, <2>1, BeforeTail
<1> DEFINE filled == Append(crf_data, Head(txq))
<1>3. filled \in Seq(Nat) /\ Before(filled, now) /\ Len(filled) = Len(crf_data) + 1
  <2>1. crf_data \in Seq(Nat) /\ now \in Int /\ Before(crf_data, now)
    BY DEF Types, Shape
  <2> QED BY <1>2, <2>1, BeforeAppend, AppendProperties
<1>4. CASE ~Fills
  <2>1. crf_data' = filled /\ Sent = <<>>
    BY <1>4 DEF TalkerStep, ReadEdge, Sent
  <2>2. net' = net
    BY <1>1, <2>1, ConcatEmptySeq DEF Types
  <2> HIDE DEF filled
  <2> QED BY <1>2, <1>3, <2>1, <2>2 DEF Shape
<1>5. CASE Fills
  <2> DEFINE pdu == [id |-> next_id, seq_num |-> seq_num, timestamps |-> filled]
  <2>1. crf_data' = <<>> /\ Sent = <<pdu>> /\ Len(crf_data) + 1 = TsPerPdu
    BY <1>5 DEF TalkerStep, ReadEdge, Sent, Fills
  <2>2. PduShape(pdu, now)
    <3>1. pdu.timestamps = filled
      OBVIOUS
    <3> HIDE DEF pdu, filled
    <3> QED BY <1>3, <2>1, <3>1 DEF PduShape
  <2>3. net' = net \o <<pdu>> /\ net \in Seq(Pdu) /\ Len(net) \in Nat
    BY <1>1, <2>1 DEF Types
  <2> HIDE DEF pdu, filled
  <2>4. /\ Len(net') = Len(net) + 1
        /\ \A i \in 1 .. Len(net) : net'[i] = net[i]
        /\ net'[Len(net) + 1] = pdu
    BY <2>3
  <2>5. \A i \in 1 .. Len(net') : i \in 1 .. Len(net) \/ i = Len(net) + 1
    BY <2>3, <2>4
  <2>6. Before(crf_data', now)
    BY <2>1, EmptySeq DEF Before
  <2>7. \A i \in 1 .. Len(net) : PduShape(net'[i], now)
    BY <2>4 DEF Shape
  <2> QED BY <1>2, <2>2, <2>4, <2>5, <2>6, <2>7
<1> QED BY <1>4, <1>5

\* The later the clock, the more is before it.
LEMMA BeforeLater ==
  ASSUME NEW s \in Seq(Nat), NEW k \in Nat, Before(s, k)
  PROVE  Before(s, k + 1)
<1>1. \A i \in 1 .. Len(s) : s[i] \in Nat /\ s[i] < k
  BY ElementOfSeq DEF Before
<1> QED BY <1>1 DEF Before

\* What is true of the network's PDUs is true of those that are left of it.
LEMMA NetShapeMoves ==
  ASSUME Types, Shape, [Next]_vars, ~TalkerStep, now' = now
  PROVE  \A i \in 1 .. Len(net') : PduShape(net'[i], now')
<1>1. \A i \in 1 .. Len(net') : \E j \in 1 .. Len(net) : net'[i] = net[j]
  BY NetMoves DEF Types
<1>2. \A j \in 1 .. Len(net) : PduShape(net[j], now)
  BY DEF Shape
<1> QED BY <1>1, <1>2

\* An edge that passes is the newest, at the talker ...
LEMMA ShapeTalkerTick ==
  ASSUME TypeOK, Types, Shape, TalkerTick
  PROVE  Shape'
<1>1. PICK c \in BOOLEAN : TalkerCapture(now, c)
  BY DEF TalkerTick
<1>2. /\ now' = now + 1 /\ now <= edge_now /\ now \in Nat /\ edge_now \in Nat
      /\ UNCHANGED <<listenerVars, edge_now, net, crf_data>>
      /\ txq' = (IF c THEN Append(txq, now) ELSE txq)
  BY <1>1 DEF TalkerTick, TalkerCapture, Types
<1>3. txq \in Seq(Nat) /\ crf_data \in Seq(Nat) /\ timestamps \in Seq(Nat)
  BY DEF Types
<1>4. Before(txq, now + 1) /\ Before(crf_data, now + 1) /\ Before(timestamps, now + 1)
  BY <1>2, <1>3, BeforeLater DEF Shape
<1>5. Before(txq', now')
  <2>1. Before(Append(txq, now), now + 1)
    BY <1>2, <1>3, <1>4, BeforeAppend
  <2> QED BY <1>2, <1>4, <2>1
<1>6. \A i \in 1 .. Len(net') : PduShape(net'[i], now')
  <2> SUFFICES ASSUME NEW i \in 1 .. Len(net) PROVE PduShape(net[i], now + 1)
    BY <1>2
  <2>1. net[i].timestamps \in Seq(Nat)
    <3>1. net[i] \in Pdu
      BY ElementOfSeq DEF Types
    <3> QED BY <3>1 DEF Pdu
  <2>2. PduShape(net[i], now)
    BY DEF Shape
  <2> QED BY <1>2, <2>1, <2>2, BeforeLater DEF PduShape
<1>7. quiet' < 0 => txq' = <<>> /\ crf_data' = <<>>
  <2>1. quiet \in Int
    BY Constants DEF TypeOK, TalkerTypeOK
  <2>2. c => quiet >= 0
    BY <1>1 DEF TalkerCapture
  <2>3. quiet' = quiet \/ quiet' = quiet + 1
    BY <1>1 DEF TalkerCapture
  <2>4. quiet' < 0 => quiet < 0 /\ ~c
    BY <2>1, <2>2, <2>3
  <2> QED BY <1>2, <2>4 DEF Shape
<1>8. /\ Len(timestamps') <= TsPerPdu /\ Before(timestamps', now')
      /\ Before(edges', edge_now') /\ (waited' > 0 => synchronized')
  BY <1>2, <1>4 DEF Shape, listenerVars
<1>9. now' <= edge_now' + 1 /\ Before(crf_data', now')
  BY <1>2, <1>4
<1> QED BY <1>5, <1>6, <1>7, <1>8, <1>9 DEF Shape

\* ... and at the listener.
LEMMA ShapeListenerTick ==
  ASSUME Types, Shape, ListenerTick
  PROVE  Shape'
<1>1. PICK c \in BOOLEAN : ListenerCapture(edge_now, c)
  BY DEF ListenerTick
<1>2. /\ edge_now' = edge_now + 1 /\ now \in Nat /\ edge_now \in Nat
      /\ UNCHANGED <<talkerVars, now, net, synchronized, timestamps>>
  BY <1>1 DEF ListenerTick, ListenerCapture, Types
<1>9. \/ edges' = edges
      \/ edges' = Append(edges, edge_now)
      \/ edges # <<>> /\ edges' = Append(Tail(edges), edge_now)
  <2>1. edges = <<>> => Len(edges) < EdgeCap
    <3>1. edges = <<>> => Len(edges) = 0
      BY EmptySeq
    <3>2. 0 < EdgeCap
      BY Constants
    <3> QED BY <3>1, <3>2
  <2>2. Len(edges) < EdgeCap \/ Len(edges) = EdgeCap
    <3>1. Len(edges) \in Nat /\ Len(edges) <= EdgeCap /\ EdgeCap \in Nat
      BY Constants DEF Types
    <3> QED BY <3>1
  <2>3. CASE c /\ Len(edges) < EdgeCap
    <3>1. Len(edges) # EdgeCap
      <4>1. Len(edges) \in Nat /\ EdgeCap \in Nat
        BY Constants DEF Types
      <4> QED BY <2>3, <4>1
    <3>2. edges' = Append(edges, edge_now)
      BY <1>1, <2>3, <3>1 DEF ListenerCapture
    <3> QED BY <3>2
  <2>4. CASE c /\ Len(edges) = EdgeCap
    <3>1. ~(Len(edges) < EdgeCap)
      BY <2>4, Constants
    <3>2. edges' = Append(Tail(edges), edge_now)
      BY <1>1, <2>4, <3>1 DEF ListenerCapture
    <3> QED BY <2>1, <3>1, <3>2
  <2>5. CASE ~c
    BY <1>1, <2>5 DEF ListenerCapture
  <2> QED BY <2>2, <2>3, <2>4, <2>5
<1>3. edges \in Seq(Nat) /\ Before(edges, edge_now + 1)
  BY <1>2, BeforeLater DEF Types, Shape
<1>4. Before(edges', edge_now')
  <2>1. Before(Append(edges, edge_now), edge_now + 1)
    BY <1>2, <1>3, BeforeAppend
  <2>2. ASSUME edges # <<>> PROVE Before(Append(Tail(edges), edge_now), edge_now + 1)
    <3>1. edge_now + 1 \in Int /\ edge_now < edge_now + 1
      BY <1>2
    <3>2. Tail(edges) \in Seq(Nat)
      BY <1>3, <2>2, HeadTailProperties
    <3>3. Before(Tail(edges), edge_now + 1)
      BY <1>3, <2>2, <3>1, BeforeTail
    <3> QED BY <1>2, <3>1, <3>2, <3>3, BeforeAppend
  <2> QED BY <1>2, <1>3, <1>9, <2>1, <2>2
<1>5. now' <= edge_now' + 1
  BY <1>2 DEF Shape
<1>6. waited' > 0 => synchronized'
  BY <1>1, Constants DEF ListenerCapture, Blocked
<1>7. \A i \in 1 .. Len(net') : PduShape(net'[i], now')
  BY <1>2 DEF Shape
<1>8. /\ Before(txq', now') /\ Before(crf_data', now')
      /\ (quiet' < 0 => txq' = <<>> /\ crf_data' = <<>>)
      /\ Len(timestamps') <= TsPerPdu /\ Before(timestamps', now')
  BY <1>2 DEF Shape, talkerVars
<1> QED BY <1>4, <1>5, <1>6, <1>7, <1>8 DEF Shape

\* The listener takes what was sent before, whichever PDU it is ...
LEMMA ShapeTake ==
  ASSUME TypeOK, Types, Shape, [Next]_vars, Deliver \/ Duplicate \/ Reorder
  PROVE  Shape'
<1>1. PICK j \in 1 .. Len(net) : Accept(net[j])
  BY Takes DEF Types
<1> DEFINE pdu == net[j]
<1>2. /\ UNCHANGED <<talkerVars, now, edge_now>> /\ timestamps' = pdu.timestamps
      /\ waited' = 0 /\ Process(pdu)
      /\ edges' = SubSeq(edges, Gap(pdu.seq_num) * TsPerPdu + 1, Len(edges))
  BY <1>1 DEF Accept, Receive, Drained
<1>3. PduShape(pdu, now) /\ pdu \in Pdu
  BY ElementOfSeq DEF Shape, Types
<1> HIDE DEF pdu
<1>4. Gap(pdu.seq_num) * TsPerPdu \in Nat
  <2>1. Gap(pdu.seq_num) \in 0 .. SeqNumMod - 1
    BY <1>2, <1>3, ProcessType DEF TypeOK, ListenerTypeOK
  <2> QED BY <2>1, Constants
<1>5. Before(edges', edge_now')
  BY <1>2, <1>4, BeforeDiscard DEF Types, Shape
<1>6. \A i \in 1 .. Len(net') : PduShape(net'[i], now')
  <2>1. ~TalkerStep
    <3>1. txq' = txq
      BY <1>2 DEF talkerVars
    <3> QED BY <3>1, StepReads DEF Types
  <2> QED BY <1>2, <2>1, NetShapeMoves
<1>7. /\ Len(timestamps') <= TsPerPdu /\ Before(timestamps', now')
      /\ ~(waited' > 0)
  BY <1>2, <1>3, Constants DEF PduShape
<1>8. /\ Before(txq', now') /\ Before(crf_data', now')
      /\ (quiet' < 0 => txq' = <<>> /\ crf_data' = <<>>)
      /\ now' <= edge_now' + 1
  BY <1>2 DEF Shape, talkerVars
<1> QED BY <1>5, <1>6, <1>7, <1>8 DEF Shape

\* ... and a turn of its loop only takes away from what it has.
LEMMA ShapeListenerStep ==
  ASSUME Types, Shape, ListenerStep
  PROVE  Shape'
<1>1. /\ timestamps # <<>> /\ timestamps' = Tail(timestamps)
      /\ UNCHANGED <<talkerVars, now, edge_now, net>>
  BY DEF ListenerStep, Synchronize, Pair, EdgeTimeout, Blocked
<1>2. Len(timestamps') <= TsPerPdu /\ Before(timestamps', now')
  <2>1. Len(Tail(timestamps)) = Len(timestamps) - 1
    BY <1>1, HeadTailProperties DEF Types
  <2>2. Before(Tail(timestamps), now)
    BY <1>1, BeforeTail DEF Types, Shape
  <2> QED BY <1>1, <2>1, <2>2, Constants DEF Types, Shape
<1>3. Before(edges', edge_now') /\ (waited' > 0 => synchronized')
  <2>1. CASE Synchronize
    <3>1. PICK n \in 0 .. Len(edges) : edges' = SubSeq(edges, n + 1, Len(edges))
      BY <2>1 DEF Synchronize
    <3>2. n \in Nat
      BY DEF Types
    <3>3. Before(edges', edge_now')
      BY <1>1, <3>1, <3>2, BeforeDiscard DEF Types, Shape
    <3> QED BY <2>1, <3>3 DEF Synchronize, Shape
  <2>2. CASE Pair
    <3>1. edges' = Tail(edges) /\ edges # <<>> /\ waited' = 0
      BY <2>2 DEF Pair
    <3>2. Before(Tail(edges), edge_now)
      BY <3>1, BeforeTail DEF Types, Shape
    <3> QED BY <1>1, <3>1, <3>2
  <2>3. CASE EdgeTimeout
    BY <1>1, <2>3 DEF EdgeTimeout, Shape
  <2> QED BY <2>1, <2>2, <2>3 DEF ListenerStep
<1>4. /\ \A i \in 1 .. Len(net') : PduShape(net'[i], now')
      /\ Before(txq', now') /\ Before(crf_data', now')
      /\ (quiet' < 0 => txq' = <<>> /\ crf_data' = <<>>)
      /\ now' <= edge_now' + 1
  BY <1>1 DEF Shape, talkerVars
<1> QED BY <1>2, <1>3, <1>4 DEF Shape

\* Nothing is ever from the future.
LEMMA ShapeNext == TypeOK /\ Shape /\ [Next]_vars => Shape'
<1> SUFFICES ASSUME TypeOK, Shape, [Next]_vars PROVE Shape'
  OBVIOUS
<1>1. Types
  BY TypesHold
<1>2. CASE TalkerStep
  <2>1. /\ Before(txq', now) /\ Before(crf_data', now)
        /\ \A i \in 1 .. Len(net') : PduShape(net'[i], now)
    BY <1>1, <1>2, SentShape
  <2>2. quiet' = 0 /\ now' = now /\ UNCHANGED <<listenerVars, edge_now>>
    BY <1>2 DEF TalkerStep, ReadEdge
  <2> QED BY <2>1, <2>2 DEF Shape, listenerVars
<1>3. CASE TalkerTimeout \/ Restart
  <2>1. /\ txq' = <<>> /\ crf_data' = <<>>
        /\ UNCHANGED <<listenerVars, now, edge_now, net>>
    BY <1>3 DEF TalkerTimeout, SelectTimeout, PartialPduAfterStall, Restart, TalkerRestart
  <2>2. Before(<<>>, now)
    BY EmptySeq DEF Before
  <2> QED BY <2>1, <2>2 DEF Shape, listenerVars
<1>4. CASE Stall \/ OtherChannel
  <2>1. UNCHANGED <<listenerVars, now, edge_now, net, txq, crf_data>>
    BY <1>4 DEF Stall, ChannelDies, OtherChannel, SkipEvent
  <2>2. quiet' = quiet \/ quiet' = 0
    BY <1>4 DEF Stall, ChannelDies, OtherChannel, SkipEvent
  <2> QED BY <2>1, <2>2 DEF Shape, listenerVars
<1>5. CASE Lose
  <2>1. UNCHANGED <<talkerVars, listenerVars, now, edge_now>> /\ net' = Tail(net) /\ net # <<>>
    BY <1>5 DEF Lose
  <2>2. ~TalkerStep
    <3>1. txq' = txq
      BY <2>1 DEF talkerVars
    <3> QED BY <1>1, <3>1, StepReads DEF Types
  <2>3. \A i \in 1 .. Len(net') : PduShape(net'[i], now')
    BY <1>1, <2>1, <2>2, NetShapeMoves
  <2> QED BY <2>1, <2>3 DEF Shape, talkerVars, listenerVars
<1>6. CASE Finished \/ UNCHANGED vars
  <2>1. UNCHANGED <<talkerVars, listenerVars, now, edge_now, net>>
    BY <1>6 DEF Finished, vars, pathVars
  <2> QED BY <2>1 DEF Shape, talkerVars, listenerVars
<1> QED BY <1>1, <1>2, <1>3, <1>4, <1>5, <1>6, ShapeTalkerTick, ShapeListenerTick, ShapeTake,
           ShapeListenerStep DEF Next

LEMMA ShapeHolds == Spec => []Shape
<1>1. Init => Shape
  <2> SUFFICES ASSUME Init PROVE Shape
    OBVIOUS
  <2>1. /\ txq = <<>> /\ crf_data = <<>> /\ net = <<>> /\ timestamps = <<>> /\ edges = <<>>
        /\ now = 0 /\ edge_now = 0 /\ waited = 0 /\ quiet = 0
    BY DEF Init, TalkerInit, ListenerInit
  <2> QED BY <2>1, Constants DEF Shape, Before
<1> QED BY <1>1, ShapeNext, TypeCorrect, PTL DEF Spec

-----------------------------------------------------------------------------

\* The talker captures every edge, and select() never waits for its second.
Steady == armed /\ quiet >= 0 /\ (txq = <<>> => quiet = 0)

\* The first timestamp of the PDU the talker fills, when it is steady.
Begin == now - Len(txq) - Len(crf_data)

\* A talker that captures edges misses none; one that was not steady since the
\* fault has nothing newer.
TalkerRuns ==
  /\ armed /\ quiet >= 0 =>
       /\ Fits(txq, now - Len(txq), disturbed)
       /\ Fits(crf_data, Begin, disturbed)
  /\ ~Steady => Old(txq, disturbed) /\ Old(crf_data, disturbed)

\* What the PDU at position i of the network begins with and is numbered, the one
\* behind the last being the talker's.
BeginAt(i) == IF i > Len(net) THEN Begin ELSE LastTs(net[i]) - TsPerPdu + 1
SeqAt(i) == IF i > Len(net) THEN seq_num ELSE net[i].seq_num

\* A PDU of edges generated after the last fault.
Fresh(pdu) == LastTs(pdu) >= disturbed + TsPerPdu

\* What such a PDU is, and the one after it.
Linked(i) ==
  /\ Steady
  /\ \A j \in 1 .. TsPerPdu : net[i].timestamps[j] = LastTs(net[i]) - TsPerPdu + j
  /\ BeginAt(i + 1) = LastTs(net[i]) + 1
  /\ SeqAt(i + 1) = (net[i].seq_num + 1) % SeqNumMod

\* The fresh PDUs of the network follow one another.
NetRuns == \A i \in 1 .. Len(net) : Fresh(net[i]) => Linked(i)

\* The listener has a timestamp of a fresh PDU to pair, or has paired them.
Pairing == timestamps # <<>> /\ timestamps[Len(timestamps)] >= disturbed + TsPerPdu
Following == clean >= 1 \/ Pairing

\* The timestamp that comes next, and the first edge in the FIFO.
NextTs == BeginAt(1) - Len(timestamps)
FirstEdge == edge_now - Len(edges)

\* From its first fresh PDU on, the listener hears of every edge in turn.
FollowsOn ==
  /\ Steady
  /\ ~first_packet
  /\ expected_seq_num = SeqAt(1)
  /\ BeginAt(1) > disturbed + TsPerPdu
  /\ \A j \in 1 .. Len(timestamps) : timestamps[j] = NextTs + j - 1

ListenerRuns ==
  /\ Fits(edges, FirstEdge, disturbed)
  /\ Blocked /\ waited > 0 => Head(timestamps) <= disturbed
  /\ Following => FollowsOn

\* It is not too late for the PDU at hand to be handled promptly.
InTime == edge_now <= IF Idle THEN BeginAt(1) + TsPerPdu ELSE BeginAt(1)

\* Once a timestamp of such a PDU has been paired, a listener that is synchronised
\* has the edge of the next one at the head of the FIFO; one that is not has not
\* read it yet.
Meets ==
  InTime =>
    /\ (clean >= 1 \/ (Pairing /\ Len(timestamps) < TsPerPdu)) /\ synchronized =>
         FirstEdge = NextTs
    /\ clean >= 1 /\ ~synchronized => FirstEdge <= NextTs
    /\ clean >= 1 /\ ~Idle /\ Len(timestamps) < TsPerPdu => synchronized

\* And so it is synchronised once it has handled two of them.
Recovered == clean >= 2 /\ (Idle \/ Len(timestamps) = TsPerPdu) => synchronized

SettleInv == TalkerRuns /\ NetRuns /\ ListenerRuns /\ Meets /\ Recovered

-----------------------------------------------------------------------------

\* The last timestamp of a PDU is a time that has passed.
LastType ==
  /\ \A i \in 1 .. Len(net) : net[i] \in Pdu /\ LastTs(net[i]) \in Nat /\ LastTs(net[i]) < now
  /\ timestamps # <<>> => /\ timestamps[Len(timestamps)] \in Nat
                          /\ timestamps[Len(timestamps)] < now

LEMMA LastTypeHolds == Types /\ Shape => LastType
<1> SUFFICES ASSUME Types, Shape PROVE LastType
  OBVIOUS
<1>1. ASSUME NEW i \in 1 .. Len(net)
      PROVE  net[i] \in Pdu /\ LastTs(net[i]) \in Nat /\ LastTs(net[i]) < now
  <2>1. net[i] \in Pdu /\ net[i].timestamps \in Seq(Nat)
    <3>1. net[i] \in Pdu
      BY ElementOfSeq DEF Types
    <3> QED BY <3>1 DEF Pdu
  <2>2. Len(net[i].timestamps) = TsPerPdu /\ Before(net[i].timestamps, now)
    BY DEF Shape, PduShape
  <2>3. TsPerPdu \in 1 .. Len(net[i].timestamps)
    BY <2>2, Constants
  <2> QED BY <2>1, <2>2, <2>3, ElementOfSeq DEF LastTs, Before
<1>2. timestamps # <<>> => /\ timestamps[Len(timestamps)] \in Nat
                           /\ timestamps[Len(timestamps)] < now
  <2> SUFFICES ASSUME timestamps # <<>>
               PROVE  timestamps[Len(timestamps)] \in Nat /\ timestamps[Len(timestamps)] < now
    OBVIOUS
  <2>1. timestamps \in Seq(Nat) /\ Len(timestamps) \in 1 .. Len(timestamps)
    BY EmptySeq DEF Types
  <2> QED BY <2>1, ElementOfSeq DEF Shape, Before
<1> QED BY <1>1, <1>2 DEF LastType

\* Right after a fault nothing is fresh.
AllBefore ==
  /\ now - 1 <= disturbed
  /\ edge_now - 1 <= disturbed
  /\ clean = 0

\* So whatever the fault has left meets the invariant.
LEMMA NothingFresh == TypeOK /\ Shape /\ AllBefore => SettleInv
<1> SUFFICES ASSUME TypeOK, Shape, AllBefore PROVE SettleInv
  OBVIOUS
<1>1. Types /\ LastType /\ disturbed \in Nat
  BY TypesHold, LastTypeHolds DEF TypeOK
<1>2. /\ now - 1 <= disturbed /\ edge_now - 1 <= disturbed /\ clean = 0
      /\ now \in Nat /\ edge_now \in Nat /\ TsPerPdu \in Nat \ {0}
  BY <1>1, Constants DEF Types, AllBefore
<1>3. TalkerRuns
  <2>1. /\ txq \in Seq(Nat) /\ Before(txq, now) /\ now - Len(txq) \in Int
        /\ now - Len(txq) + Len(txq) - 1 <= disturbed
    BY <1>1, <1>2 DEF Types, Shape
  <2>2. Fits(txq, now - Len(txq), disturbed) /\ Old(txq, disturbed)
    BY <1>1, <1>2, <2>1, OldFits
  <2>3. /\ crf_data \in Seq(Nat) /\ Before(crf_data, now) /\ Begin \in Int
        /\ Begin + Len(crf_data) - 1 <= disturbed
    BY <1>1, <1>2 DEF Types, Shape, Begin
  <2>4. Fits(crf_data, Begin, disturbed) /\ Old(crf_data, disturbed)
    BY <1>1, <1>2, <2>3, OldFits
  <2> QED BY <2>2, <2>4 DEF TalkerRuns
<1>4. \A i \in 1 .. Len(net) : ~Fresh(net[i])
  BY <1>1, <1>2 DEF LastType, Fresh
<1>5. ~Pairing /\ ~Following
  BY <1>1, <1>2 DEF LastType, Pairing, Following
<1>6. Fits(edges, FirstEdge, disturbed)
  <2>1. /\ edges \in Seq(Nat) /\ Before(edges, edge_now) /\ FirstEdge \in Int
        /\ FirstEdge + Len(edges) - 1 <= disturbed
    BY <1>1, <1>2 DEF Types, Shape, FirstEdge
  <2> QED BY <1>1, <1>2, <2>1, OldFits
<1>7. Blocked => Head(timestamps) <= disturbed
  <2>1. ASSUME timestamps # <<>> PROVE Head(timestamps) < now /\ Head(timestamps) \in Nat
    BY <1>1, <2>1, BeforeTail DEF Types, Shape
  <2> QED BY <1>1, <1>2, <2>1 DEF Blocked
<1>8. ~(clean >= 1) /\ ~(clean >= 2)
  BY <1>2
<1> QED BY <1>3, <1>4, <1>5, <1>6, <1>7, <1>8
        DEF SettleInv, NetRuns, ListenerRuns, Meets, Recovered

\* A step without a fault: what the theorem has to follow.
OrderlyStep ==
  /\ NoFault \/ ListenerStep
  /\ disturbed' = disturbed
  /\ \/ TalkerTick /\ TalkerCapture(now, armed /\ quiet >= 0)
     \/ ListenerTick /\ ListenerCapture(edge_now, TRUE)
     \/ TalkerStep
     \/ TalkerTimeout
     \/ Deliver
     \/ ListenerStep
     \/ UNCHANGED vars

\* A fault leaves nothing fresh, and every other step is orderly.
LEMMA FaultOrNot ==
  ASSUME TypeOK, [Next]_vars
  PROVE  AllBefore' \/ OrderlyStep
<1>1. now \in Nat /\ edge_now \in Nat
  BY DEF TypeOK
<1>2. ASSUME NEW kind, Fault(kind),
             \/ now' = now /\ edge_now' = edge_now
             \/ now' = now + 1 /\ edge_now' = edge_now
             \/ now' = now /\ edge_now' = edge_now + 1 /\ edge_now <= now
      PROVE  AllBefore'
  BY <1>1, <1>2 DEF Fault, AllBefore
<1>3. CASE Lose \/ Duplicate \/ Reorder \/ Stall \/ Restart \/ OtherChannel
  <2>1. now' = now /\ edge_now' = edge_now
    BY <1>3 DEF Lose, Duplicate, Reorder, Stall, Restart, OtherChannel, Accept
  <2>2. \E kind : Fault(kind)
    BY <1>3 DEF Lose, Duplicate, Reorder, Stall, Restart, OtherChannel
  <2> QED BY <1>2, <2>1, <2>2
<1>4. CASE TalkerTick
  <2>1. now' = now + 1 /\ edge_now' = edge_now
    BY <1>4 DEF TalkerTick
  <2>2. CASE Fault("talker edge")
    BY <1>2, <2>1, <2>2
  <2>3. CASE TalkerCapture(now, armed /\ quiet >= 0) /\ NoFault
    BY <1>4, <2>3 DEF OrderlyStep, NoFault
  <2> QED BY <1>4, <2>2, <2>3 DEF TalkerTick
<1>5. CASE ListenerTick
  <2>1. now' = now /\ edge_now' = edge_now + 1 /\ edge_now <= now
    BY <1>5 DEF ListenerTick
  <2>2. CASE Fault("listener edge")
    BY <1>2, <2>1, <2>2
  <2>3. CASE ListenerCapture(edge_now, TRUE) /\ NoFault
    BY <1>5, <2>3 DEF OrderlyStep, NoFault
  <2> QED BY <1>5, <2>2, <2>3 DEF ListenerTick
<1>6. CASE TalkerStep \/ TalkerTimeout \/ Deliver \/ ListenerStep
  BY <1>6 DEF OrderlyStep, TalkerStep, TalkerTimeout, Deliver, ListenerStep, NoFault
<1>7. CASE Finished \/ UNCHANGED vars
  <2>1. UNCHANGED vars /\ NoFault
    BY <1>7 DEF Finished, vars, pathVars, NoFault
  <2> QED BY <2>1 DEF OrderlyStep, NoFault
<1> QED BY <1>3, <1>4, <1>5, <1>6, <1>7 DEF Next

\* The types of what the invariant speaks of.
SettleTypes ==
  /\ Types /\ Shape /\ LastType
  /\ disturbed \in Nat /\ clean \in Nat /\ quiet \in Int
  /\ TsPerPdu \in Nat \ {0}

LEMMA SettleTypesHold == TypeOK /\ Shape => SettleTypes
BY TypesHold, LastTypeHolds, Constants DEF TypeOK, TalkerTypeOK, SettleTypes

\* What follows the network's PDUs has a number.
LEMMA BeginType ==
  ASSUME SettleTypes, NEW i \in 1 .. Len(net) + 1
  PROVE  BeginAt(i) \in Int
<1>1. CASE i > Len(net)
  BY <1>1 DEF BeginAt, Begin, SettleTypes, Types
<1>2. CASE ~(i > Len(net))
  <2>1. i \in 1 .. Len(net)
    BY <1>2 DEF SettleTypes, Types
  <2> QED BY <1>2, <2>1 DEF BeginAt, SettleTypes, LastType
<1> QED BY <1>1, <1>2

\* Where nothing is fresh and no PDU of the kind was handled, there is nothing
\* to follow.
LEMMA NothingToFollow ==
  ASSUME SettleTypes, ~Steady, SettleInv
  PROVE  (\A i \in 1 .. Len(net) : ~Fresh(net[i])) /\ ~Following
BY DEF SettleInv, NetRuns, Linked, ListenerRuns, FollowsOn

-----------------------------------------------------------------------------

\* An edge passes at the talker.
LEMMA SettleTalkerTick ==
  ASSUME SettleTypes, SettleInv, OrderlyStep, TalkerTick,
         TalkerCapture(now, armed /\ quiet >= 0)
  PROVE  SettleInv'
<1>1. /\ now' = now + 1 /\ disturbed' = disturbed /\ clean' = clean
      /\ UNCHANGED <<listenerVars, edge_now, net, armed, crf_data, seq_num>>
  <2>1. clean' = clean
    <3>1. ListenerStep => edge_now' = edge_now /\ now' = now
      BY DEF ListenerStep
    <3>2. now' = now + 1 /\ now \in Nat
      BY DEF TalkerTick, SettleTypes, Types
    <3>3. now' # now
      BY <3>2
    <3> QED BY <3>1, <3>3 DEF OrderlyStep, NoFault
  <2> QED BY <2>1 DEF TalkerTick, TalkerCapture, OrderlyStep
<1>2. UNCHANGED <<edges, timestamps, waited, synchronized, first_packet, expected_seq_num>>
  BY <1>1 DEF listenerVars, receiverVars
<1>3. /\ \A i \in 1 .. Len(net) : Fresh(net[i])' = Fresh(net[i])
      /\ Following' = Following /\ Pairing' = Pairing /\ FirstEdge' = FirstEdge
      /\ Blocked' = Blocked /\ Idle' = Idle
  BY <1>1, <1>2 DEF Fresh, LastTs, Following, Pairing, FirstEdge, Blocked, Idle
<1>4. /\ Fits(edges', FirstEdge', disturbed')
      /\ Blocked' /\ waited' > 0 => Head(timestamps') <= disturbed'
  BY <1>1, <1>2, <1>3 DEF SettleInv, ListenerRuns
<1>5. CASE armed /\ quiet >= 0
  <2>1. txq' = Append(txq, now)
    BY <1>5 DEF TalkerCapture
  <2>2. /\ txq' # <<>> /\ Len(txq') = Len(txq) + 1 /\ Fits(txq', now - Len(txq), disturbed)
    <3>1. /\ txq \in Seq(Nat) /\ now - Len(txq) \in Int /\ now \in Nat /\ disturbed \in Nat
          /\ now = now - Len(txq) + Len(txq)
      BY DEF SettleTypes, Types
    <3>2. Fits(txq, now - Len(txq), disturbed)
      BY <1>5 DEF SettleInv, TalkerRuns
    <3> QED BY <2>1, <3>1, <3>2, FitsAppend
  <2>3. quiet' = quiet
    BY <2>2 DEF TalkerCapture
  <2>4. Begin' = Begin /\ now' - Len(txq') = now - Len(txq)
    BY <1>1, <2>2 DEF Begin, SettleTypes, Types
  <2>5. Steady'
    BY <1>1, <1>5, <2>2, <2>3 DEF Steady
  <2>6. TalkerRuns'
    BY <1>1, <1>5, <2>2, <2>4, <2>5 DEF TalkerRuns, SettleInv
  <2>7. /\ \A i : BeginAt(i)' = BeginAt(i) /\ SeqAt(i)' = SeqAt(i)
    BY <1>1, <2>4 DEF BeginAt, SeqAt, LastTs
  <2>8. NetRuns'
    BY <1>1, <1>3, <2>5, <2>7 DEF SettleInv, NetRuns, Linked, LastTs
  <2>9. NextTs' = NextTs /\ InTime' = InTime
    BY <1>1, <1>2, <1>3, <2>7 DEF NextTs, InTime
  <2>10. Following => FollowsOn'
    BY <1>1, <1>2, <2>5, <2>7, <2>9 DEF SettleInv, ListenerRuns, FollowsOn
  <2>11. ListenerRuns'
    BY <1>3, <1>4, <2>10 DEF ListenerRuns
  <2>12. Meets' /\ Recovered'
    BY <1>1, <1>2, <1>3, <2>9 DEF SettleInv, Meets, Recovered
  <2> QED BY <2>6, <2>8, <2>11, <2>12 DEF SettleInv
<1>6. CASE ~(armed /\ quiet >= 0)
  <2>1. ~Steady /\ txq' = txq
    BY <1>6 DEF Steady, TalkerCapture
  <2>2. (\A i \in 1 .. Len(net) : ~Fresh(net[i])) /\ ~Following
    BY <2>1, NothingToFollow
  <2>3. Old(txq', disturbed') /\ Old(crf_data', disturbed')
    BY <1>1, <2>1 DEF SettleInv, TalkerRuns
  <2>4. armed' /\ quiet' >= 0 => txq' = <<>> /\ crf_data' = <<>>
    <3>1. armed' => quiet < 0
      BY <1>1, <1>6 DEF SettleTypes
    <3>2. quiet < 0 => txq' = <<>> /\ crf_data' = <<>>
      BY <1>1, <2>1 DEF SettleTypes, Shape
    <3> QED BY <3>1, <3>2
  <2>5. TalkerRuns'
    <3>1. \A k, d : Fits(<<>>, k, d)
      BY EmptySeq DEF Fits
    <3> QED BY <2>3, <2>4, <3>1 DEF TalkerRuns
  <2>6. NetRuns'
    BY <1>1, <1>3, <2>2 DEF NetRuns
  <2>7. ~Following' /\ ~(clean' >= 1) /\ ~Pairing' /\ ~(clean' >= 2)
    <3>1. ~(clean >= 1) /\ ~Pairing
      BY <2>2 DEF Following
    <3>2. ~(clean >= 2)
      BY <3>1 DEF SettleTypes
    <3> QED BY <1>1, <1>3, <2>2, <3>1, <3>2
  <2>8. ListenerRuns'
    BY <1>4, <2>7 DEF ListenerRuns
  <2>9. Meets' /\ Recovered'
    BY <2>7 DEF Meets, Recovered
  <2> QED BY <2>5, <2>6, <2>8, <2>9 DEF SettleInv
<1> QED BY <1>5, <1>6

\* The talker's select() times out: it was not steady.
LEMMA SettleTimeout ==
  ASSUME SettleTypes, SettleInv, OrderlyStep, TalkerTimeout
  PROVE  SettleInv'
<1>1. /\ disturbed' = disturbed /\ txq' = <<>> /\ crf_data' = <<>>
      /\ clean' = clean
      /\ UNCHANGED <<listenerVars, now, edge_now, net>>
  BY DEF TalkerTimeout, SelectTimeout, PartialPduAfterStall, NoFault
<1>2. ~Steady
  <2>1. txq = <<>> /\ quiet = SelectPeriods
    BY DEF TalkerTimeout, SelectTimeout
  <2> QED BY <2>1, Constants DEF Steady
<1>3. (\A i \in 1 .. Len(net) : ~Fresh(net[i])) /\ ~Following
  BY <1>2, NothingToFollow
<1>4. UNCHANGED <<edges, timestamps, waited, synchronized>>
  BY <1>1 DEF listenerVars
<1>5. TalkerRuns'
  <2>1. \A k, d : Fits(<<>>, k, d) /\ Old(<<>>, d)
    BY EmptySeq DEF Fits, Old
  <2> QED BY <1>1, <2>1 DEF TalkerRuns
<1>6. NetRuns'
  BY <1>1, <1>3 DEF NetRuns, Fresh, LastTs
<1>7. ~Following' /\ ~(clean' >= 1) /\ ~Pairing' /\ ~(clean' >= 2)
  <2>1. ~(clean >= 1) /\ ~Pairing
    BY <1>3 DEF Following
  <2>2. ~(clean >= 2)
    BY <2>1 DEF SettleTypes
  <2> QED BY <1>1, <1>4, <2>1, <2>2 DEF Following, Pairing
<1>8. ListenerRuns'
  <2>1. FirstEdge' = FirstEdge /\ Blocked' = Blocked
    BY <1>1, <1>4 DEF FirstEdge, Blocked
  <2> QED BY <1>1, <1>4, <1>7, <2>1 DEF SettleInv, ListenerRuns
<1>9. Meets' /\ Recovered'
  BY <1>7 DEF Meets, Recovered
<1> QED BY <1>5, <1>6, <1>8, <1>9 DEF SettleInv

-----------------------------------------------------------------------------

\* An edge passes at the listener: the FIFO has its run of edges, and does not
\* overflow while the listener is in time.
LEMMA SettleListenerTick ==
  ASSUME SettleTypes, SettleInv, OrderlyStep, RoomForPdu,
         ListenerTick, ListenerCapture(edge_now, TRUE)
  PROVE  SettleInv'
<1>1. /\ edge_now' = edge_now + 1 /\ disturbed' = disturbed
      /\ UNCHANGED <<talkerVars, now, net, timestamps, synchronized, receiverVars>>
  BY DEF ListenerTick, ListenerCapture, OrderlyStep
<1>2. clean' = clean
  <2>1. ListenerStep => edge_now' = edge_now
    BY DEF ListenerStep
  <2>2. edge_now' # edge_now
    BY <1>1 DEF SettleTypes, Types
  <2> QED BY <2>1, <2>2 DEF OrderlyStep, NoFault
<1>3. UNCHANGED <<armed, quiet, txq, crf_data, seq_num, first_packet, expected_seq_num>>
  BY <1>1 DEF talkerVars, receiverVars
<1>4. /\ \A i : BeginAt(i)' = BeginAt(i) /\ SeqAt(i)' = SeqAt(i)
      /\ Steady' = Steady /\ Begin' = Begin /\ NextTs' = NextTs /\ Idle' = Idle
      /\ Pairing' = Pairing /\ Following' = Following
  <2>1. Steady' = Steady /\ Begin' = Begin /\ Idle' = Idle /\ Pairing' = Pairing
    BY <1>1, <1>3 DEF Steady, Begin, Idle, Pairing
  <2>2. \A i : BeginAt(i)' = BeginAt(i) /\ SeqAt(i)' = SeqAt(i)
    BY <1>1, <1>3, <2>1 DEF BeginAt, SeqAt, LastTs
  <2> QED BY <1>1, <1>2, <2>1, <2>2 DEF NextTs, Following
<1>5. TalkerRuns'
  BY <1>1, <1>3, <1>4 DEF SettleInv, TalkerRuns
<1>6. NetRuns'
  BY <1>1, <1>4 DEF SettleInv, NetRuns, Linked, LastTs, Fresh
<1>7. FollowsOn' = FollowsOn
  BY <1>1, <1>3, <1>4 DEF FollowsOn
<1>8. /\ edges \in Seq(Nat) /\ Len(edges) \in Nat /\ Len(edges) <= EdgeCap
      /\ edge_now \in Nat /\ FirstEdge \in Int /\ edge_now = FirstEdge + Len(edges)
      /\ disturbed \in Nat /\ Fits(edges, FirstEdge, disturbed)
  BY DEF SettleTypes, Types, SettleInv, ListenerRuns, FirstEdge
<1> DEFINE late == IF Idle THEN BeginAt(1) + TsPerPdu ELSE BeginAt(1)
<1>11. /\ BeginAt(1) \in Int /\ late \in Int /\ TsPerPdu \in Nat
       /\ (InTime <=> edge_now <= late) /\ (InTime' <=> edge_now + 1 <= late)
  <2>1. 1 \in 1 .. Len(net) + 1
    BY DEF SettleTypes, Types
  <2>2. BeginAt(1) \in Int /\ TsPerPdu \in Nat
    BY <2>1, BeginType DEF SettleTypes
  <2> QED BY <1>1, <1>4, <2>2 DEF InTime
<1>12. InTime' => InTime
  <2> HIDE DEF late
  <2> QED BY <1>8, <1>11
<1>9. CASE Len(edges) < EdgeCap
  <2>1. edges' = Append(edges, edge_now)
    BY <1>9 DEF ListenerCapture
  <2>2. edges' # <<>> /\ Len(edges') = Len(edges) + 1 /\ Fits(edges', FirstEdge, disturbed)
    BY <1>8, <2>1, FitsAppend
  <2>3. FirstEdge' = FirstEdge
    BY <1>1, <1>8, <2>2 DEF FirstEdge
  <2>4. ListenerRuns'
    BY <1>1, <1>4, <1>7, <2>2, <2>3 DEF SettleInv, ListenerRuns, Blocked
  <2>6. Meets' /\ Recovered'
    BY <1>1, <1>2, <1>4, <1>12, <2>3 DEF SettleInv, Meets, Recovered
  <2> QED BY <1>5, <1>6, <2>4, <2>6 DEF SettleInv
<1>10. CASE Len(edges) = EdgeCap
  <2>1. edges' = Append(Tail(edges), edge_now) /\ edges # <<>>
    <3>1. ~(Len(edges) < EdgeCap) /\ edges # <<>>
      BY <1>8, <1>10, Constants, EmptySeq
    <3> QED BY <1>10, <3>1 DEF ListenerCapture
  <2>2. /\ Tail(edges) \in Seq(Nat) /\ Len(Tail(edges)) = Len(edges) - 1
        /\ Fits(Tail(edges), FirstEdge + 1, disturbed)
    BY <1>8, <2>1, FitsTail
  <2>3. edges' # <<>> /\ Len(edges') = Len(edges) /\ Fits(edges', FirstEdge + 1, disturbed)
    <3>1. FirstEdge + 1 \in Int /\ edge_now = FirstEdge + 1 + Len(Tail(edges))
      BY <1>8, <2>2
    <3>2. /\ edges' # <<>> /\ Len(edges') = Len(Tail(edges)) + 1
          /\ Fits(edges', FirstEdge + 1, disturbed)
      BY <1>8, <2>1, <2>2, <3>1, FitsAppend
    <3> QED BY <1>8, <2>2, <3>2
  <2>4. FirstEdge' = FirstEdge + 1
    BY <1>1, <1>8, <2>3 DEF FirstEdge
  <2>5. ListenerRuns'
    BY <1>1, <1>4, <1>7, <2>3, <2>4 DEF SettleInv, ListenerRuns, Blocked
  <2>7. InTime' => FirstEdge # NextTs
    <3> SUFFICES ASSUME edge_now + 1 <= late PROVE FirstEdge # NextTs
      BY <1>11
    <3>1. /\ Len(timestamps) \in Nat /\ Len(timestamps) <= TsPerPdu /\ EdgeCap \in Nat
          /\ EdgeCap >= TsPerPdu
      BY Constants DEF SettleTypes, Types, Shape, RoomForPdu
    <3>2. CASE Idle
      <4>1. Len(timestamps) = 0 /\ edge_now + 1 <= BeginAt(1) + TsPerPdu
        BY <3>2, EmptySeq DEF Idle
      <4> QED BY <1>8, <1>10, <1>11, <3>1, <4>1 DEF NextTs
    <3>3. CASE ~Idle
      <4>1. edge_now + 1 <= BeginAt(1)
        BY <3>3
      <4> QED BY <1>8, <1>10, <1>11, <3>1, <4>1 DEF NextTs
    <3> QED BY <3>2, <3>3
  <2>8. Meets'
    <3> SUFFICES ASSUME InTime'
                 PROVE  /\ (clean >= 1 \/ (Pairing /\ Len(timestamps) < TsPerPdu)) => ~synchronized
                        /\ clean >= 1 /\ ~synchronized => FirstEdge + 1 <= NextTs
                        /\ clean >= 1 /\ ~Idle /\ Len(timestamps) < TsPerPdu => synchronized
      BY <1>1, <1>2, <1>4, <2>4 DEF Meets
    <3>1. InTime /\ FirstEdge # NextTs
      BY <1>12, <2>7
    <3>2. /\ (clean >= 1 \/ (Pairing /\ Len(timestamps) < TsPerPdu)) => ~synchronized
          /\ clean >= 1 /\ ~Idle /\ Len(timestamps) < TsPerPdu => synchronized
          /\ clean >= 1 /\ ~synchronized => FirstEdge <= NextTs
      BY <3>1 DEF SettleInv, Meets
    <3>3. FirstEdge <= NextTs => FirstEdge + 1 <= NextTs
      <4>1. NextTs \in Int
        BY <1>11 DEF NextTs, SettleTypes, Types
      <4> QED BY <1>8, <3>1, <4>1
    <3> QED BY <3>2, <3>3
  <2>9. Recovered'
    BY <1>1, <1>2, <1>4 DEF SettleInv, Recovered
  <2> QED BY <1>5, <1>6, <2>5, <2>8, <2>9 DEF SettleInv
<1> QED BY <1>8, <1>9, <1>10, Constants

-----------------------------------------------------------------------------

\* The PDU the talker fills, with the event it handles.
Filled == Append(crf_data, Head(txq))

\* An event moves from the queue to the PDU.
LEMMA TalkerReads ==
  ASSUME SettleTypes, SettleInv, TalkerStep
  PROVE  /\ Filled \in Seq(Nat) /\ Len(Filled) = Len(crf_data) + 1
         /\ Len(txq) \in Nat \ {0} /\ Len(txq') = Len(txq) - 1
         /\ armed' = armed /\ quiet' = 0 /\ quiet >= 0 /\ txq # <<>>
         /\ now' = now /\ disturbed' = disturbed
         /\ armed => Fits(Filled, Begin, disturbed) /\ Fits(txq', now - Len(txq'), disturbed)
         /\ ~armed => Old(Filled, disturbed) /\ Old(txq', disturbed)
<1>1. /\ txq # <<>> /\ txq' = Tail(txq) /\ armed' = armed /\ quiet' = 0 /\ quiet >= 0
      /\ now' = now /\ disturbed' = disturbed
  BY DEF TalkerStep, ReadEdge, NoFault
<1>2. /\ txq \in Seq(Nat) /\ crf_data \in Seq(Nat) /\ now \in Nat /\ disturbed \in Nat
      /\ Len(txq) \in Nat /\ Len(crf_data) \in Nat
  BY DEF SettleTypes, Types
<1>3. /\ Tail(txq) \in Seq(Nat) /\ Head(txq) \in Nat /\ Len(txq) > 0
      /\ Len(Tail(txq)) = Len(txq) - 1
  BY <1>1, <1>2, HeadTailProperties, EmptySeq
<1>4. Filled \in Seq(Nat) /\ Len(Filled) = Len(crf_data) + 1
  BY <1>2, <1>3, AppendProperties DEF Filled
<1>5. ASSUME armed
      PROVE  Fits(Filled, Begin, disturbed) /\ Fits(txq', now - Len(txq'), disturbed)
  <2>1. Fits(txq, now - Len(txq), disturbed) /\ Fits(crf_data, Begin, disturbed)
    BY <1>1, <1>5 DEF SettleInv, TalkerRuns
  <2>2. /\ Head(txq) = now - Len(txq) \/ (Head(txq) <= disturbed /\ now - Len(txq) <= disturbed)
        /\ Fits(Tail(txq), now - Len(txq) + 1, disturbed)
    <3>1. now - Len(txq) \in Int
      BY <1>2
    <3> QED BY <1>1, <1>2, <2>1, <3>1, FitsTail
  <2>3. now - Len(txq') = now - Len(txq) + 1
    BY <1>1, <1>2, <1>3
  <2>4. Begin \in Int /\ now - Len(txq) = Begin + Len(crf_data)
    BY <1>2 DEF Begin
  <2>5. Fits(Filled, Begin, disturbed)
    BY <1>2, <1>3, <2>1, <2>2, <2>4, FitsAppend DEF Filled
  <2> QED BY <1>1, <2>2, <2>3, <2>5
<1>6. ASSUME ~armed
      PROVE  Old(Filled, disturbed) /\ Old(txq', disturbed)
  <2>1. Old(txq, disturbed) /\ Old(crf_data, disturbed)
    BY <1>6 DEF SettleInv, TalkerRuns, Steady
  <2>2. Before(txq, disturbed + 1) /\ Before(crf_data, disturbed + 1)
    <3>1. \A i \in 1 .. Len(txq) : txq[i] \in Nat /\ txq[i] <= disturbed
      BY <1>2, <2>1, ElementOfSeq DEF Old
    <3>2. \A i \in 1 .. Len(crf_data) : crf_data[i] \in Nat /\ crf_data[i] <= disturbed
      BY <1>2, <2>1, ElementOfSeq DEF Old
    <3> QED BY <1>2, <3>1, <3>2 DEF Before
  <2>3. Before(Tail(txq), disturbed + 1) /\ Head(txq) < disturbed + 1
    <3>1. disturbed + 1 \in Int
      BY <1>2
    <3> QED BY <1>1, <1>2, <2>2, <3>1, BeforeTail
  <2>4. Before(Filled, disturbed + 1)
    <3>1. disturbed + 1 \in Int
      BY <1>2
    <3> QED BY <1>2, <1>3, <2>2, <2>3, <3>1, BeforeAppend DEF Filled
  <2>5. ASSUME NEW s \in Seq(Nat), Before(s, disturbed + 1) PROVE Old(s, disturbed)
    <3>1. \A i \in 1 .. Len(s) : s[i] \in Nat /\ s[i] < disturbed + 1
      BY <2>5, ElementOfSeq DEF Before
    <3> QED BY <1>2, <3>1 DEF Old
  <2> QED BY <1>1, <1>3, <1>4, <2>3, <2>4, <2>5
<1> QED BY <1>1, <1>2, <1>3, <1>4, <1>5, <1>6

\* The PDU goes to the end of the network, and nothing else of it changes.
LEMMA TalkerSends ==
  ASSUME SettleTypes, SettleInv, TalkerStep
  PROVE  /\ ~Fills => /\ crf_data' = Filled /\ seq_num' = seq_num /\ net' = net
         /\ Fills =>
              /\ crf_data' = <<>> /\ seq_num' = (seq_num + 1) % SeqNumMod
              /\ Len(Filled) = TsPerPdu
              /\ Len(net') = Len(net) + 1
              /\ \A i \in 1 .. Len(net) : net'[i] = net[i]
              /\ net'[Len(net) + 1].timestamps = Filled
              /\ net'[Len(net) + 1].seq_num = seq_num
<1>1. net' = net \o Sent /\ net \in Seq(Pdu) /\ Len(net) \in Nat
  BY DEF TalkerStep, SettleTypes, Types
<1>2. CASE ~Fills
  BY <1>1, <1>2, ConcatEmptySeq DEF TalkerStep, ReadEdge, Sent, Filled
<1>3. CASE Fills
  <2> DEFINE pdu == [id |-> next_id, seq_num |-> seq_num, timestamps |-> Filled]
  <2>1. /\ crf_data' = <<>> /\ seq_num' = (seq_num + 1) % SeqNumMod /\ Sent = <<pdu>>
        /\ Len(crf_data) + 1 = TsPerPdu
    BY <1>3 DEF TalkerStep, ReadEdge, Sent, Fills, Filled
  <2>2. pdu.timestamps = Filled /\ pdu.seq_num = seq_num
    OBVIOUS
  <2>3. Len(Filled) = TsPerPdu
    BY <2>1, TalkerReads
  <2> HIDE DEF pdu
  <2>4. /\ Len(net') = Len(net) + 1
        /\ \A i \in 1 .. Len(net) : net'[i] = net[i]
        /\ net'[Len(net) + 1] = pdu
    BY <1>1, <2>1
  <2> QED BY <1>3, <2>1, <2>2, <2>3, <2>4
<1> QED BY <1>2, <1>3

\* What a PDU of the talker's begins with once it is sent, if it is recent.
LEMMA TalkerKeepsBegin ==
  ASSUME SettleTypes, SettleInv, TalkerStep, NEW i \in 1 .. Len(net) + 1
  PROVE  /\ armed /\ BeginAt(i) > disturbed => BeginAt(i)' = BeginAt(i)
         /\ SeqAt(i)' = SeqAt(i)
<1>1. /\ Len(net) \in Nat /\ i \in Nat /\ now \in Nat /\ Len(crf_data) \in Nat
      /\ disturbed \in Nat /\ TsPerPdu \in Nat \ {0}
  BY DEF SettleTypes, Types
<1>2. /\ Len(Filled) = Len(crf_data) + 1 /\ Len(txq) \in Nat \ {0}
      /\ Len(txq') = Len(txq) - 1 /\ now' = now
      /\ armed => Fits(Filled, Begin, disturbed)
  BY TalkerReads
<1>3. CASE ~Fills
  <2>1. crf_data' = Filled /\ seq_num' = seq_num /\ net' = net
    BY <1>3, TalkerSends
  <2>2. Begin' = Begin
    BY <1>1, <1>2, <2>1 DEF Begin
  <2> QED BY <2>1, <2>2 DEF BeginAt, SeqAt
<1>4. CASE Fills
  <2>1. /\ Len(Filled) = TsPerPdu /\ Len(net') = Len(net) + 1
        /\ \A j \in 1 .. Len(net) : net'[j] = net[j]
        /\ net'[Len(net) + 1].timestamps = Filled
        /\ net'[Len(net) + 1].seq_num = seq_num
    BY <1>4, TalkerSends
  <2>2. ~(i > Len(net'))
    BY <1>1, <2>1
  <2>3. CASE i \in 1 .. Len(net)
    <3>1. ~(i > Len(net)) /\ net'[i] = net[i]
      BY <1>1, <2>1, <2>3
    <3> QED BY <2>2, <3>1 DEF BeginAt, SeqAt, LastTs
  <2>4. CASE i = Len(net) + 1
    <3>1. i > Len(net) /\ SeqAt(i) = seq_num /\ BeginAt(i) = Begin
      <4>1. i > Len(net)
        BY <1>1, <2>4
      <4> QED BY <4>1 DEF BeginAt, SeqAt
    <3>2. SeqAt(i)' = seq_num
      BY <2>1, <2>2, <2>4 DEF SeqAt
    <3>3. BeginAt(i)' = Filled[TsPerPdu] - TsPerPdu + 1
      BY <2>1, <2>2, <2>4 DEF BeginAt, LastTs
    <3>4. ASSUME armed, Begin > disturbed PROVE Filled[TsPerPdu] = Begin + TsPerPdu - 1
      <4>1. \/ Filled[TsPerPdu] = Begin + TsPerPdu - 1
            \/ (Filled[TsPerPdu] <= disturbed /\ Begin + TsPerPdu - 1 <= disturbed)
        <5>1. TsPerPdu \in 1 .. Len(Filled)
          BY <1>1, <2>1
        <5> QED BY <1>2, <3>4, <5>1 DEF Fits
      <4>2. Begin \in Int
        BY <1>1, <1>2 DEF Begin
      <4>3. ~(Begin + TsPerPdu - 1 <= disturbed)
        BY <1>1, <3>4, <4>2
      <4> QED BY <4>1, <4>3
    <3>5. Begin \in Int
      BY <1>1, <1>2 DEF Begin
    <3>6. ASSUME armed, Begin > disturbed PROVE BeginAt(i)' = Begin
      BY <1>1, <3>3, <3>4, <3>5, <3>6
    <3> QED BY <3>1, <3>2, <3>6
  <2> QED BY <1>1, <2>3, <2>4
<1> QED BY <1>3, <1>4

\* The PDU it sends, if it is fresh, is a run that leads to the next one.
LEMMA TalkerLinks ==
  ASSUME SettleTypes, SettleInv, TalkerStep, Fills, NEW i \in {Len(net) + 1},
         Fresh(net[i])'
  PROVE  armed /\ Linked(i)'
<1>1. /\ Len(net) \in Nat /\ now \in Nat /\ Len(crf_data) \in Nat
      /\ disturbed \in Nat /\ TsPerPdu \in Nat \ {0}
  BY DEF SettleTypes, Types
<1>2. /\ Filled \in Seq(Nat) /\ Len(Filled) = Len(crf_data) + 1 /\ Len(txq) \in Nat \ {0}
      /\ Len(txq') = Len(txq) - 1 /\ now' = now /\ disturbed' = disturbed
      /\ armed' = armed /\ quiet' = 0
      /\ armed => Fits(Filled, Begin, disturbed)
      /\ ~armed => Old(Filled, disturbed)
  BY TalkerReads
<1>3. /\ crf_data' = <<>> /\ seq_num' = (seq_num + 1) % SeqNumMod
      /\ Len(Filled) = TsPerPdu /\ Len(net') = Len(net) + 1
      /\ net'[i].timestamps = Filled
      /\ net'[i].seq_num = seq_num
  BY TalkerSends
<1> DEFINE last == Filled[TsPerPdu]
<1>4. last \in Nat /\ TsPerPdu \in 1 .. Len(Filled)
  <2>1. TsPerPdu \in 1 .. Len(Filled)
    BY <1>1, <1>3
  <2> QED BY <1>2, <2>1, ElementOfSeq
<1>5. LastTs(net[i])' = last
  BY <1>3 DEF LastTs
<1>6. last >= disturbed + TsPerPdu
  BY <1>2, <1>5 DEF Fresh, LastTs
<1>7. armed
  <2>1. ~Old(Filled, disturbed)
    BY <1>1, <1>4, <1>6 DEF Old
  <2> QED BY <1>2, <2>1
<1>8. Begin \in Int /\ last = Begin + TsPerPdu - 1 /\ Begin > disturbed
  <2>1. Begin \in Int
    BY <1>1, <1>2 DEF Begin
  <2>2. last = Begin + TsPerPdu - 1 \/ last <= disturbed
    BY <1>2, <1>4, <1>7 DEF Fits
  <2> HIDE DEF last
  <2> QED BY <1>1, <1>4, <1>6, <2>1, <2>2
<1>9. \A j \in 1 .. TsPerPdu : Filled[j] = last - TsPerPdu + j
  <2> SUFFICES ASSUME NEW j \in 1 .. TsPerPdu PROVE Filled[j] = last - TsPerPdu + j
    OBVIOUS
  <2>1. Filled[j] = Begin + j - 1 \/ Begin + j - 1 <= disturbed
    BY <1>2, <1>3, <1>7 DEF Fits
  <2> HIDE DEF last
  <2> QED BY <1>1, <1>8, <2>1
<1>10. BeginAt(i + 1)' = last + 1 /\ SeqAt(i + 1)' = seq_num'
  <2>1. i + 1 > Len(net')
    BY <1>1, <1>3
  <2>2. Begin' = last + 1
    <3>1. Len(crf_data') = 0 /\ Len(crf_data) + 1 = TsPerPdu
      BY <1>2, <1>3
    <3>2. Begin' = now - (Len(txq) - 1) - 0
      BY <1>2, <3>1 DEF Begin
    <3>3. last = (now - Len(txq) - Len(crf_data)) + TsPerPdu - 1
      BY <1>8 DEF Begin
    <3>4. \A n, q, f, z, b, T \in Int :
            z = (n - q - f) + T - 1 /\ b = n - (q - 1) - 0 /\ f + 1 = T => b = z + 1
      OBVIOUS
    <3>5. /\ now \in Int /\ Len(txq) \in Int /\ Len(crf_data) \in Int /\ TsPerPdu \in Int
          /\ last \in Int
      BY <1>1, <1>2, <1>4
    <3>6. Begin' \in Int
      BY <3>2, <3>5
    <3> HIDE DEF last
    <3> QED BY <3>1, <3>2, <3>3, <3>4, <3>5, <3>6
  <2> QED BY <2>1, <2>2 DEF BeginAt, SeqAt
<1>11. Steady'
  BY <1>2, <1>7 DEF Steady
<1>12. \A j \in 1 .. TsPerPdu : net'[i].timestamps[j] = LastTs(net[i])' - TsPerPdu + j
  <2> HIDE DEF last
  <2> QED BY <1>3, <1>5, <1>9 DEF last
<1>13. SeqAt(i + 1)' = (net'[i].seq_num + 1) % SeqNumMod
  BY <1>3, <1>10
<1>14. BeginAt(i + 1)' = LastTs(net[i])' + 1
  BY <1>5, <1>10
<1> QED BY <1>7, <1>11, <1>12, <1>13, <1>14 DEF Linked

\* The talker handles an event.
LEMMA SettleTalkerStep ==
  ASSUME SettleTypes, SettleInv, TalkerStep
  PROVE  SettleInv'
<1>1. /\ Len(net) \in Nat /\ now \in Nat /\ Len(crf_data) \in Nat
      /\ disturbed \in Nat /\ TsPerPdu \in Nat \ {0}
  BY DEF SettleTypes, Types
<1>2. /\ Filled \in Seq(Nat) /\ Len(Filled) = Len(crf_data) + 1 /\ Len(txq) \in Nat \ {0}
      /\ Len(txq') = Len(txq) - 1 /\ txq # <<>>
      /\ armed' = armed /\ quiet' = 0 /\ quiet >= 0
      /\ armed => Fits(Filled, Begin, disturbed) /\ Fits(txq', now - Len(txq'), disturbed)
      /\ ~armed => Old(Filled, disturbed) /\ Old(txq', disturbed)
  BY TalkerReads
<1>3. /\ now' = now /\ disturbed' = disturbed /\ clean' = clean
      /\ UNCHANGED <<edge_now, edges, timestamps, waited, synchronized, first_packet,
                     expected_seq_num>>
  BY DEF TalkerStep, NoFault, listenerVars, receiverVars
<1>4. (Steady <=> armed) /\ (Steady' <=> armed)
  BY <1>2 DEF Steady
<1>5. TalkerRuns'
  <2>1. CASE ~Fills
    <3>1. crf_data' = Filled
      BY <2>1, TalkerSends
    <3>2. Begin' = Begin
      BY <1>1, <1>2, <1>3, <3>1 DEF Begin
    <3> QED BY <1>2, <1>3, <1>4, <3>1, <3>2 DEF TalkerRuns
  <2>2. CASE Fills
    <3>1. crf_data' = <<>>
      BY <2>2, TalkerSends
    <3>2. \A k, d : Fits(<<>>, k, d) /\ Old(<<>>, d)
      BY EmptySeq DEF Fits, Old
    <3> QED BY <1>2, <1>3, <1>4, <3>1, <3>2 DEF TalkerRuns
  <2> QED BY <2>1, <2>2
<1>6. ASSUME NEW i \in 1 .. Len(net)
      PROVE  net'[i] = net[i] /\ LastTs(net[i])' = LastTs(net[i])
             /\ (Fresh(net[i])' <=> Fresh(net[i]))
  <2>1. net'[i] = net[i]
    BY TalkerSends
  <2> QED BY <1>3, <2>1 DEF LastTs, Fresh
<1>7. NetRuns'
  <2>1. ASSUME NEW i \in 1 .. Len(net), Fresh(net[i])' PROVE Linked(i)'
    <3>1. Linked(i)
      BY <1>6, <2>1 DEF SettleInv, NetRuns
    <3>2. i + 1 \in 1 .. Len(net) + 1
      BY <1>1
    <3>3. armed /\ BeginAt(i + 1) > disturbed
      <4>1. BeginAt(i + 1) = LastTs(net[i]) + 1 /\ LastTs(net[i]) >= disturbed + TsPerPdu
        BY <1>6, <2>1, <3>1 DEF Linked, Fresh
      <4>2. LastTs(net[i]) \in Nat
        BY DEF SettleTypes, LastType
      <4>3. armed
        BY <1>4, <3>1 DEF Linked
      <4> QED BY <1>1, <4>1, <4>2, <4>3
    <3>4. BeginAt(i + 1)' = BeginAt(i + 1) /\ SeqAt(i + 1)' = SeqAt(i + 1)
      BY <3>2, <3>3, TalkerKeepsBegin
    <3>5. net'[i] = net[i] /\ LastTs(net[i])' = LastTs(net[i])
      BY <1>6
    <3> QED BY <1>4, <3>1, <3>3, <3>4, <3>5 DEF Linked
  <2>2. CASE ~Fills
    <3>1. net' = net
      BY <2>2, TalkerSends
    <3> QED BY <2>1, <3>1 DEF NetRuns
  <2>3. CASE Fills
    <3>1. Len(net') = Len(net) + 1
      BY <2>3, TalkerSends
    <3>2. \A i \in 1 .. Len(net') : i \in 1 .. Len(net) \/ i \in {Len(net) + 1}
      BY <1>1, <3>1
    <3>3. ASSUME NEW i \in 1 .. Len(net'), Fresh(net[i])' PROVE Linked(i)'
      <4>1. CASE i \in 1 .. Len(net)
        BY <2>1, <3>3, <4>1
      <4>2. CASE i \in {Len(net) + 1}
        BY <2>3, <3>3, <4>2, TalkerLinks
      <4> QED BY <3>2, <4>1, <4>2
    <3> QED BY <3>3 DEF NetRuns
  <2> QED BY <2>2, <2>3
<1>8. Following' = Following /\ Pairing' = Pairing /\ FirstEdge' = FirstEdge
      /\ Blocked' = Blocked /\ Idle' = Idle
  BY <1>3 DEF Following, Pairing, FirstEdge, Blocked, Idle
<1>9. Following => /\ FollowsOn
                   /\ BeginAt(1)' = BeginAt(1) /\ SeqAt(1)' = SeqAt(1)
  <2> SUFFICES ASSUME Following
               PROVE  FollowsOn /\ BeginAt(1)' = BeginAt(1) /\ SeqAt(1)' = SeqAt(1)
    OBVIOUS
  <2>1. FollowsOn
    BY DEF SettleInv, ListenerRuns
  <2>2. 1 \in 1 .. Len(net) + 1
    BY <1>1
  <2>3. armed /\ BeginAt(1) > disturbed
    <3>1. BeginAt(1) \in Int /\ BeginAt(1) > disturbed + TsPerPdu
      BY <2>1, <2>2, BeginType DEF FollowsOn
    <3>2. armed
      BY <1>4, <2>1 DEF FollowsOn
    <3> QED BY <1>1, <3>1, <3>2
  <2> QED BY <2>1, <2>2, <2>3, TalkerKeepsBegin
<1>10. Following => NextTs' = NextTs /\ InTime' = InTime
  BY <1>3, <1>8, <1>9 DEF NextTs, InTime
<1>11. ListenerRuns'
  <2>1. Following => FollowsOn'
    BY <1>3, <1>4, <1>9, <1>10 DEF FollowsOn
  <2> QED BY <1>3, <1>8, <2>1 DEF SettleInv, ListenerRuns
<1>12. Meets'
  <2>1. CASE Following
    BY <1>3, <1>8, <1>10, <2>1 DEF SettleInv, Meets
  <2>2. CASE ~Following
    BY <1>3, <1>8, <2>2 DEF Meets, Following
  <2> QED BY <2>1, <2>2
<1>13. Recovered'
  BY <1>3, <1>8 DEF SettleInv, Recovered
<1> QED BY <1>5, <1>7, <1>11, <1>12, <1>13 DEF SettleInv

-----------------------------------------------------------------------------

\* What the receiver drains of the FIFO leaves a run of its last edges.
LEMMA DrainFits ==
  ASSUME NEW s \in Seq(Nat), NEW k \in Int, NEW d \in Nat, NEW e \in Int, Fits(s, k, d),
         k = e - Len(s), NEW n \in Nat
  PROVE  Fits(SubSeq(s, n + 1, Len(s)), e - Len(SubSeq(s, n + 1, Len(s))), d)
<1> DEFINE rest == SubSeq(s, n + 1, Len(s))
<1>1. Len(s) \in Nat
  BY LenProperties
<1>2. CASE n <= Len(s)
  <2>1. n \in 0 .. Len(s)
    BY <1>1, <1>2
  <2>2. Len(rest) = Len(s) - n /\ Fits(rest, k + n, d)
    BY <2>1, FitsDiscard
  <2> HIDE DEF rest
  <2>3. e - Len(rest) = k + n
    BY <1>1, <2>1, <2>2
  <2>4. Fits(rest, e - Len(rest), d)
    BY <2>2, <2>3
  <2> QED BY <2>4 DEF rest
<1>3. CASE ~(n <= Len(s))
  <2>1. Len(rest) = 0
    BY <1>3, Remainder
  <2> QED BY <2>1 DEF Fits
<1> QED BY <1>2, <1>3

\* The listener takes the first PDU of the network.
LEMMA SettleDeliver ==
  ASSUME TypeOK, SettleTypes, SettleInv, Deliver
  PROVE  SettleInv'
<1> DEFINE pdu == net[1]
<1>1. /\ Len(net) \in Nat \ {0} /\ now \in Nat /\ edge_now \in Nat
      /\ disturbed \in Nat /\ TsPerPdu \in Nat \ {0} /\ clean \in Nat
  <2>1. net # <<>> /\ net \in Seq(Pdu)
    BY DEF Deliver, SettleTypes, Types
  <2> QED BY <2>1, EmptySeq DEF SettleTypes, Types
<1>2. /\ net' = Tail(net) /\ Head(net) = pdu
      /\ Len(net') = Len(net) - 1
      /\ \A i \in 1 .. Len(net) - 1 : net'[i] = net[i + 1]
  BY HeadTailProperties DEF Deliver, SettleTypes, Types
<1>3. /\ Idle /\ timestamps' = pdu.timestamps /\ waited' = 0 /\ ~first_packet'
      /\ expected_seq_num' = (pdu.seq_num + 1) % SeqNumMod
      /\ edges' = SubSeq(edges, Gap(pdu.seq_num) * TsPerPdu + 1, Len(edges))
      /\ Process(pdu)
      /\ clean' = clean /\ disturbed' = disturbed
      /\ UNCHANGED <<talkerVars, now, edge_now, synchronized>>
  BY <1>2 DEF Deliver, Accept, Receive, Process, Drained, NoFault
<1>4. UNCHANGED <<armed, quiet, txq, crf_data, seq_num>> /\ Begin' = Begin
      /\ Steady' = Steady
  BY <1>3 DEF talkerVars, Begin, Steady
<1>5. pdu \in Pdu /\ LastTs(pdu) \in Nat /\ Len(pdu.timestamps) = TsPerPdu
  BY <1>1 DEF SettleTypes, LastType, Shape, PduShape
<1> HIDE DEF pdu
<1>6. TalkerRuns'
  BY <1>3, <1>4 DEF SettleInv, TalkerRuns
<1>7. \A i \in 1 .. Len(net) :
         BeginAt(i)' = BeginAt(i + 1) /\ SeqAt(i)' = SeqAt(i + 1)
  <2> SUFFICES ASSUME NEW i \in 1 .. Len(net)
               PROVE  BeginAt(i)' = BeginAt(i + 1) /\ SeqAt(i)' = SeqAt(i + 1)
    OBVIOUS
  <2>1. i > Len(net') <=> i + 1 > Len(net)
    BY <1>1, <1>2
  <2>2. ~(i > Len(net')) => net'[i] = net[i + 1]
    BY <1>1, <1>2
  <2> QED BY <1>4, <2>1, <2>2 DEF BeginAt, SeqAt, LastTs
<1>8. NetRuns'
  <2> SUFFICES ASSUME NEW i \in 1 .. Len(net'), Fresh(net[i])' PROVE Linked(i)'
    BY DEF NetRuns
  <2> DEFINE j == i + 1
  <2>1. j \in 1 .. Len(net) /\ net'[i] = net[j] /\ LastTs(net[i])' = LastTs(net[j])
    BY <1>1, <1>2 DEF LastTs
  <2>2. BeginAt(j)' = BeginAt(j + 1) /\ SeqAt(j)' = SeqAt(j + 1)
    BY <1>7, <2>1
  <2> HIDE DEF j
  <2>3. Fresh(net[j])
    BY <1>3, <2>1 DEF Fresh, LastTs
  <2>4. Linked(j)
    BY <2>1, <2>3 DEF SettleInv, NetRuns
  <2>5. BeginAt(i + 1)' = BeginAt(j + 1) /\ SeqAt(i + 1)' = SeqAt(j + 1)
    BY <2>2 DEF j
  <2> QED BY <1>4, <2>1, <2>4, <2>5 DEF Linked
<1>9. Fits(edges', FirstEdge', disturbed')
  <2>1. Gap(pdu.seq_num) * TsPerPdu \in Nat
    <3>1. Gap(pdu.seq_num) \in 0 .. SeqNumMod - 1
      BY <1>3, <1>5, ProcessType DEF TypeOK, ListenerTypeOK
    <3> QED BY <3>1, Constants
  <2> DEFINE n == Gap(pdu.seq_num) * TsPerPdu
  <2>2. edges' = SubSeq(edges, n + 1, Len(edges)) /\ n \in Nat
    BY <1>3, <2>1
  <2> HIDE DEF n
  <2>3. /\ edges \in Seq(Nat) /\ edge_now - Len(edges) \in Int
        /\ Fits(edges, edge_now - Len(edges), disturbed)
    BY DEF SettleTypes, Types, SettleInv, ListenerRuns, FirstEdge
  <2>4. Fits(edges', edge_now - Len(edges'), disturbed)
    BY <1>1, <2>2, <2>3, DrainFits
  <2> QED BY <1>3, <2>4 DEF FirstEdge
<1>10. /\ timestamps' # <<>> /\ ~Idle' /\ Len(timestamps') = TsPerPdu
       /\ (Pairing' <=> Fresh(pdu))
  <2>1. timestamps' # <<>> /\ Len(timestamps') = TsPerPdu
    BY <1>3, <1>5, Constants, EmptySeq
  <2>2. timestamps'[Len(timestamps')] = LastTs(pdu)
    BY <1>3, <2>1 DEF LastTs
  <2> QED BY <1>3, <2>1, <2>2 DEF Idle, Pairing, Fresh
<1>11. BeginAt(1) = LastTs(pdu) - TsPerPdu + 1 /\ SeqAt(1) = pdu.seq_num
  BY <1>1 DEF BeginAt, SeqAt, pdu
<1>12. clean >= 1 => FollowsOn /\ Fresh(pdu)
  <2> SUFFICES ASSUME clean >= 1 PROVE FollowsOn /\ Fresh(pdu)
    OBVIOUS
  <2>1. FollowsOn
    BY DEF SettleInv, ListenerRuns, Following
  <2>2. BeginAt(1) > disturbed + TsPerPdu
    BY <2>1 DEF FollowsOn
  <2>3. LastTs(pdu) >= disturbed + TsPerPdu
    BY <1>1, <1>5, <1>11, <2>2
  <2> QED BY <2>1, <2>3 DEF Fresh
<1>13. Fresh(pdu) =>
         /\ Linked(1) /\ BeginAt(1)' = LastTs(pdu) + 1
         /\ SeqAt(1)' = (pdu.seq_num + 1) % SeqNumMod
         /\ NextTs' = BeginAt(1)
  <2> SUFFICES ASSUME Fresh(pdu)
               PROVE  /\ Linked(1) /\ BeginAt(1)' = LastTs(pdu) + 1
                      /\ SeqAt(1)' = (pdu.seq_num + 1) % SeqNumMod
                      /\ NextTs' = BeginAt(1)
    OBVIOUS
  <2>1. 1 \in 1 .. Len(net)
    BY <1>1
  <2>2. Linked(1)
    BY <2>1 DEF SettleInv, NetRuns, pdu
  <2>3. BeginAt(1)' = BeginAt(1 + 1) /\ SeqAt(1)' = SeqAt(1 + 1)
    BY <1>7, <2>1
  <2>4. BeginAt(1)' = LastTs(pdu) + 1 /\ SeqAt(1)' = (pdu.seq_num + 1) % SeqNumMod
    BY <2>2, <2>3 DEF Linked, pdu
  <2>5. NextTs' = BeginAt(1)' - TsPerPdu
    BY <1>10 DEF NextTs
  <2>6. NextTs' = BeginAt(1)
    BY <1>1, <1>5, <1>11, <2>4, <2>5
  <2> QED BY <2>2, <2>4, <2>6
<1>14. Fresh(pdu) => FollowsOn'
  <2> SUFFICES ASSUME Fresh(pdu) PROVE FollowsOn'
    OBVIOUS
  <2>1. \A j \in 1 .. TsPerPdu : pdu.timestamps[j] = LastTs(pdu) - TsPerPdu + j
    BY <1>13 DEF Linked, pdu
  <2>2. \A j \in 1 .. TsPerPdu : pdu.timestamps[j] = BeginAt(1) + j - 1
    BY <1>1, <1>5, <1>11, <2>1
  <2>3. BeginAt(1)' > disturbed + TsPerPdu
    BY <1>1, <1>5, <1>13 DEF Fresh
  <2>4. Steady'
    BY <1>4, <1>13 DEF Linked
  <2>5. \A j \in 1 .. Len(timestamps') : timestamps'[j] = NextTs' + j - 1
    BY <1>3, <1>10, <1>13, <2>2
  <2> QED BY <1>3, <1>13, <2>3, <2>4, <2>5 DEF FollowsOn
<1>15. Following' => Fresh(pdu)
  BY <1>3, <1>10, <1>12 DEF Following
<1>16. ListenerRuns'
  BY <1>3, <1>9, <1>14, <1>15 DEF ListenerRuns
<1>17. clean >= 1 => /\ FirstEdge' = FirstEdge /\ NextTs' = NextTs
                     /\ (InTime' <=> InTime)
  <2> SUFFICES ASSUME clean >= 1
               PROVE  FirstEdge' = FirstEdge /\ NextTs' = NextTs /\ (InTime' <=> InTime)
    OBVIOUS
  <2>1. Gap(pdu.seq_num) = 0
    <3>1. ~first_packet /\ expected_seq_num = pdu.seq_num
      BY <1>11, <1>12 DEF FollowsOn
    <3>2. pdu.seq_num \in Int
      BY <1>5, Constants DEF Pdu
    <3>3. (pdu.seq_num - pdu.seq_num) % SeqNumMod = 0
      BY <3>2, Constants
    <3> QED BY <3>1, <3>3 DEF Gap
  <2>2. FirstEdge' = FirstEdge
    <3>1. edges' = SubSeq(edges, 0 + 1, Len(edges))
      BY <1>1, <1>3, <2>1
    <3>2. Len(SubSeq(edges, 0 + 1, Len(edges))) = Len(edges)
      <4>1. edges \in Seq(Nat) /\ Len(edges) \in Nat /\ 0 \in Nat
        BY DEF SettleTypes, Types
      <4>2. Len(SubSeq(edges, 0 + 1, Len(edges)))
              = IF 0 <= Len(edges) THEN Len(edges) - 0 ELSE 0
        BY <4>1, Remainder
      <4> QED BY <4>1, <4>2
    <3> QED BY <1>3, <3>1, <3>2 DEF FirstEdge
  <2>3. Len(timestamps) = 0 /\ BeginAt(1) \in Int
    <3>1. BeginAt(1) \in Int
      BY <1>1, <1>5, <1>11
    <3> QED BY <1>3, <3>1, EmptySeq DEF Idle
  <2>4. NextTs' = NextTs
    BY <1>12, <1>13, <2>3 DEF NextTs
  <2>5. InTime <=> edge_now <= BeginAt(1) + TsPerPdu
    BY <1>3 DEF InTime
  <2>6. InTime' <=> edge_now <= BeginAt(1)'
    BY <1>3, <1>10 DEF InTime
  <2>7. BeginAt(1)' = BeginAt(1) + TsPerPdu
    BY <1>1, <1>5, <1>11, <1>12, <1>13
  <2> QED BY <2>2, <2>4, <2>5, <2>6, <2>7
<1>18. Meets'
  <2>1. ~(Len(timestamps') < TsPerPdu)
    BY <1>1, <1>10
  <2> QED BY <1>3, <1>17, <2>1 DEF SettleInv, Meets
<1>19. Recovered'
  <2>1. clean >= 2 => synchronized
    BY <1>3 DEF SettleInv, Recovered
  <2> QED BY <1>3, <2>1 DEF Recovered
<1> QED BY <1>6, <1>8, <1>16, <1>18, <1>19 DEF SettleInv

-----------------------------------------------------------------------------

\* The search reads n edges, the older ones and one that is not; a synchronised
\* listener reads one edge; or it gives up on a timestamp from before the fault.
Searches(n, t) ==
  /\ ~synchronized
  /\ edges' = SubSeq(edges, n + 1, Len(edges))
  /\ \A i \in 1 .. n - 1 : edges[i] < t
  /\ n < Len(edges) => n > 0 /\ edges[n] >= t
  /\ synchronized' <=> n > 0 /\ edges[n] = t

Pairs(t) ==
  /\ synchronized
  /\ edges # <<>>
  /\ edges' = Tail(edges)
  /\ synchronized' <=> Head(edges) = t

GivesUp(t) == edges' = edges /\ t <= disturbed

LEMMA Turn ==
  ASSUME SettleTypes, SettleInv, ListenerStep
  PROVE  /\ \/ \E n \in 0 .. Len(edges) : Searches(n, Head(timestamps))
            \/ Pairs(Head(timestamps))
            \/ GivesUp(Head(timestamps))
         /\ timestamps # <<>> /\ timestamps' = Tail(timestamps)
         /\ ~(waited' > 0)
         /\ disturbed' = disturbed
         /\ UNCHANGED <<talkerVars, receiverVars, now, edge_now, net>>
<1>1. /\ timestamps # <<>> /\ timestamps' = Tail(timestamps) /\ disturbed' = disturbed
      /\ UNCHANGED <<talkerVars, receiverVars, now, edge_now, net>>
  BY DEF ListenerStep, Synchronize, Pair, EdgeTimeout, Blocked
<1>2. /\ Head(timestamps) \in Nat /\ waited \in Nat /\ edges \in Seq(Nat) /\ Len(edges) \in Nat
      /\ \A i \in 1 .. Len(edges) : edges[i] \in Nat
  <2>1. timestamps \in Seq(Nat) /\ waited \in Nat /\ edges \in Seq(Nat) /\ Len(edges) \in Nat
    BY DEF SettleTypes, Types
  <2>2. Head(timestamps) \in Nat
    BY <1>1, <2>1, HeadTailProperties
  <2> QED BY <2>1, <2>2, ElementOfSeq
<1> DEFINE t == Head(timestamps)
<1>3. CASE Synchronize
  <2>1. PICK n \in 0 .. Len(edges) :
          /\ Reads(t, n)
          /\ synchronized' = (n > 0 /\ WithinTolerance(edges[n], t))
          /\ edges' = SubSeq(edges, n + 1, Len(edges))
    BY <1>3 DEF Synchronize
  <2>2. ~synchronized /\ waited' = waited
    BY <1>3 DEF Synchronize
  <2>3. ~(waited' > 0)
    BY <2>2 DEF SettleTypes, Shape
  <2> HIDE DEF t
  <2>4. t \in Nat
    BY <1>2 DEF t
  <2>5. \A i \in 1 .. Len(edges) :
           /\ WithinTolerance(edges[i], t) <=> edges[i] = t
           /\ Older(edges[i], t) <=> edges[i] < t
    <3> SUFFICES ASSUME NEW i \in 1 .. Len(edges)
                 PROVE  /\ WithinTolerance(edges[i], t) <=> edges[i] = t
                        /\ Older(edges[i], t) <=> edges[i] < t
      OBVIOUS
    <3>1. edges[i] \in Int /\ t \in Int
      BY <1>2, <2>4
    <3> QED BY <3>1, ToleranceExact
  <2>6. \A i \in 1 .. n - 1 : edges[i] < t
    <3>1. \A i \in 1 .. n - 1 : i \in 1 .. Len(edges) /\ Older(edges[i], t)
      BY <1>2, <2>1 DEF Reads
    <3> QED BY <2>5, <3>1
  <2>7. n > 0 => n \in 1 .. Len(edges)
    BY <1>2
  <2>8. n < Len(edges) => n > 0 /\ edges[n] >= t
    <3> SUFFICES ASSUME n < Len(edges) PROVE n > 0 /\ edges[n] >= t
      OBVIOUS
    <3>1. n > 0 /\ ~Older(edges[n], t)
      BY <2>1 DEF Reads
    <3>2. ~(edges[n] < t) /\ edges[n] \in Nat
      BY <1>2, <2>5, <2>7, <3>1
    <3> QED BY <2>4, <3>1, <3>2
  <2>9. synchronized' <=> n > 0 /\ edges[n] = t
    BY <2>1, <2>5, <2>7
  <2>10. Searches(n, t)
    BY <2>1, <2>2, <2>6, <2>8, <2>9 DEF Searches
  <2> QED BY <1>1, <2>3, <2>10 DEF t
<1>4. CASE Pair
  <2>1. /\ synchronized /\ edges # <<>> /\ edges' = Tail(edges) /\ waited' = 0
        /\ synchronized' = IF WithinTolerance(Head(edges), t) THEN synchronized ELSE FALSE
    BY <1>4 DEF Pair
  <2>2. Head(edges) \in Nat
    BY <1>2, <2>1, HeadTailProperties
  <2>3. WithinTolerance(Head(edges), t) <=> Head(edges) = t
    <3>1. Head(edges) \in Int /\ t \in Int
      BY <1>2, <2>2
    <3> HIDE DEF t
    <3> QED BY <3>1, ToleranceExact
  <2> HIDE DEF t
  <2>4. Pairs(t)
    BY <2>1, <2>3 DEF Pairs
  <2> QED BY <1>1, <2>1, <2>4 DEF t
<1>5. CASE EdgeTimeout
  <2>1. edges' = edges /\ waited' = 0 /\ Blocked /\ waited > 0
    BY <1>5, Constants DEF EdgeTimeout
  <2>2. t <= disturbed
    BY <2>1 DEF SettleInv, ListenerRuns
  <2> QED BY <1>1, <2>1, <2>2 DEF GivesUp
<1> QED BY <1>3, <1>4, <1>5 DEF ListenerStep

\* How a timestamp of after the last fault meets its edge.
LEMMA TurnMeets ==
  ASSUME SettleTypes, SettleInv, ListenerStep, Head(timestamps) > disturbed
  PROVE  /\ FirstEdge' <= edge_now
         /\ synchronized' => FirstEdge' = Head(timestamps) + 1
         /\ synchronized /\ FirstEdge = Head(timestamps) => synchronized'
         /\ ~synchronized /\ FirstEdge <= Head(timestamps) /\ Head(timestamps) < edge_now
              => synchronized'
<1> DEFINE t == Head(timestamps)
           k == FirstEdge
           d == disturbed
<1>1. /\ t \in Nat /\ edges \in Seq(Nat) /\ Len(edges) \in Nat /\ k \in Int /\ d \in Nat
      /\ edge_now \in Nat /\ edge_now = k + Len(edges) /\ t > d
      /\ Fits(edges, k, d) /\ edge_now' = edge_now /\ FirstEdge' = edge_now - Len(edges')
      /\ \A i \in 1 .. Len(edges) : edges[i] \in Nat
  <2>1. /\ timestamps \in Seq(Nat) /\ edges \in Seq(Nat) /\ Len(edges) \in Nat
        /\ edge_now \in Nat /\ disturbed \in Nat /\ edge_now' = edge_now
        /\ Fits(edges, FirstEdge, disturbed)
    BY Turn DEF SettleTypes, Types, SettleInv, ListenerRuns
  <2>2. Head(timestamps) \in Nat
    BY <2>1, Turn, HeadTailProperties
  <2>3. /\ FirstEdge \in Int /\ edge_now = FirstEdge + Len(edges)
        /\ FirstEdge' = edge_now - Len(edges')
    BY <2>1 DEF FirstEdge
  <2> QED BY <2>1, <2>2, <2>3, ElementOfSeq
<1>2. \/ \E n \in 0 .. Len(edges) : Searches(n, t)
      \/ Pairs(t)
  <2>1. ~GivesUp(t)
    BY <1>1 DEF GivesUp
  <2> QED BY <2>1, Turn
<1> SUFFICES /\ FirstEdge' <= edge_now
             /\ synchronized' => FirstEdge' = t + 1
             /\ synchronized /\ k = t => synchronized'
             /\ ~synchronized /\ k <= t /\ t < edge_now => synchronized'
  OBVIOUS
<1> HIDE DEF t, k, d
<1>3. ASSUME NEW n \in 0 .. Len(edges), Searches(n, t)
      PROVE  /\ FirstEdge' <= edge_now
             /\ synchronized' => FirstEdge' = t + 1
             /\ ~synchronized
             /\ k <= t /\ t < edge_now => synchronized'
  <2>1. Len(edges') = Len(edges) - n /\ n \in Nat /\ n <= Len(edges)
    <3>1. edges' = SubSeq(edges, n + 1, Len(edges))
      BY <1>3 DEF Searches
    <3> QED BY <1>1, <3>1, FitsDiscard
  <2>2. FirstEdge' = k + n
    BY <1>1, <2>1
  <2>3. \A i \in 1 .. Len(edges) : edges[i] = k + i - 1 \/ edges[i] <= d
    BY <1>1 DEF Fits
  <2>4. synchronized' => k + n = t + 1
    <3> SUFFICES ASSUME synchronized' PROVE k + n = t + 1
      OBVIOUS
    <3>1. n \in 1 .. Len(edges) /\ edges[n] = t
      BY <1>3, <2>1 DEF Searches
    <3>2. t = k + n - 1
      <4>1. edges[n] = k + n - 1 \/ edges[n] <= d
        BY <2>3, <3>1
      <4>2. ~(t <= d)
        BY <1>1
      <4> QED BY <3>1, <4>1, <4>2
    <3> QED BY <1>1, <2>1, <3>2
  <2>5. ASSUME k <= t, t < edge_now PROVE synchronized'
    <3> DEFINE m == t - k + 1
    <3>1. m \in 1 .. Len(edges) /\ k + m - 1 = t
      BY <1>1, <2>5
    <3> HIDE DEF m
    <3>2. edges[m] = t
      <4>1. edges[m] = k + m - 1 \/ (edges[m] <= d /\ k + m - 1 <= d)
        BY <1>1, <3>1 DEF Fits
      <4> QED BY <1>1, <3>1, <4>1
    <3>3. ~(m < n)
      <4>1. m < n => m \in 1 .. n - 1
        BY <2>1, <3>1
      <4> QED BY <1>1, <1>3, <3>2, <4>1 DEF Searches
    <3>4. ~(n < m)
      <4> SUFFICES ASSUME n < m PROVE FALSE
        OBVIOUS
      <4>1. n < Len(edges)
        BY <1>1, <2>1, <3>1
      <4>2. n > 0 /\ edges[n] >= t
        BY <1>3, <4>1 DEF Searches
      <4>3. n \in 1 .. Len(edges)
        BY <2>1, <4>2
      <4>4. edges[n] = k + n - 1
        <5>1. edges[n] = k + n - 1 \/ edges[n] <= d
          BY <2>3, <4>3
        <5>2. edges[n] \in Nat /\ t > d /\ t \in Nat /\ d \in Nat
          BY <1>1, <4>3
        <5>3. ~(edges[n] <= d)
          BY <4>2, <5>2
        <5> QED BY <5>1, <5>3
      <4>5. k + n - 1 < k + m - 1
        BY <1>1, <2>1, <3>1
      <4> QED BY <1>1, <2>1, <3>1, <4>2, <4>4, <4>5
    <3>5. m = n
      BY <1>1, <2>1, <3>1, <3>3, <3>4
    <3> QED BY <1>3, <3>1, <3>2, <3>5, <2>1 DEF Searches
  <2>6. k + n <= edge_now
    BY <1>1, <2>1
  <2> QED BY <1>3, <2>2, <2>4, <2>5, <2>6 DEF Searches
<1>4. ASSUME Pairs(t)
      PROVE  /\ FirstEdge' <= edge_now
             /\ synchronized' => FirstEdge' = t + 1
             /\ synchronized
             /\ k = t => synchronized'
  <2>1. /\ Head(edges) = k \/ (Head(edges) <= d /\ k <= d)
        /\ Len(edges) \in Nat \ {0} /\ Len(edges') = Len(edges) - 1
    BY <1>1, <1>4, FitsTail DEF Pairs
  <2>2. FirstEdge' = k + 1
    BY <1>1, <2>1
  <2>3. synchronized' => t = k
    BY <1>1, <1>4, <2>1 DEF Pairs
  <2>4. k = t => synchronized'
    BY <1>1, <1>4, <2>1 DEF Pairs
  <2>5. k + 1 <= edge_now
    BY <1>1, <2>1
  <2> QED BY <1>1, <1>4, <2>2, <2>3, <2>4, <2>5 DEF Pairs
<1> QED BY <1>2, <1>3, <1>4

\* What the listener follows, at the next timestamp of a PDU: it is later than
\* the last fault, and so is met by its edge.
LEMMA FollowedTurn ==
  ASSUME SettleTypes, SettleInv, ListenerStep, Following
  PROVE  /\ FollowsOn
         /\ BeginAt(1) \in Int /\ BeginAt(1)' = BeginAt(1) /\ SeqAt(1)' = SeqAt(1)
         /\ Len(timestamps) \in 1 .. TsPerPdu /\ Len(timestamps') = Len(timestamps) - 1
         /\ Head(timestamps) = BeginAt(1) - Len(timestamps)
         /\ Head(timestamps) > disturbed
         /\ Len(timestamps) = 1 => Head(timestamps) >= disturbed + TsPerPdu
         /\ BeginAt(1) - 1 < now
<1>1. /\ timestamps # <<>> /\ timestamps \in Seq(Nat) /\ timestamps' = Tail(timestamps)
      /\ UNCHANGED <<talkerVars, now, net>> /\ disturbed \in Nat /\ TsPerPdu \in Nat \ {0}
      /\ Len(timestamps) \in Nat /\ Len(timestamps) <= TsPerPdu /\ now \in Nat
  BY Turn DEF SettleTypes, Types, Shape
<1>2. Len(timestamps) \in 1 .. TsPerPdu /\ Len(timestamps') = Len(timestamps) - 1
  BY <1>1, HeadTailProperties, EmptySeq
<1>3. FollowsOn
  BY DEF SettleInv, ListenerRuns
<1>4. BeginAt(1) \in Int
  <2>1. 1 \in 1 .. Len(net) + 1
    BY DEF SettleTypes, Types
  <2> QED BY <2>1, BeginType
<1>5. BeginAt(1)' = BeginAt(1) /\ SeqAt(1)' = SeqAt(1)
  BY <1>1 DEF BeginAt, SeqAt, Begin, LastTs, talkerVars
<1>6. Head(timestamps) = BeginAt(1) - Len(timestamps)
  <2>1. Head(timestamps) = timestamps[1] /\ timestamps[1] = NextTs + 1 - 1
    BY <1>1, <1>2, <1>3 DEF FollowsOn
  <2> QED BY <1>1, <1>4, <2>1 DEF NextTs
<1>7. BeginAt(1) - 1 < now
  <2>1. timestamps[Len(timestamps)] = NextTs + Len(timestamps) - 1
    BY <1>2, <1>3 DEF FollowsOn
  <2>2. NextTs + Len(timestamps) - 1 = BeginAt(1) - 1
    BY <1>1, <1>4 DEF NextTs
  <2> QED BY <1>1, <2>1, <2>2 DEF SettleTypes, LastType
<1>8. BeginAt(1) > disturbed + TsPerPdu
  BY <1>3 DEF FollowsOn
<1>9. /\ Head(timestamps) > disturbed
      /\ Len(timestamps) = 1 => Head(timestamps) >= disturbed + TsPerPdu
  BY <1>1, <1>4, <1>6, <1>8
<1> QED BY <1>2, <1>3, <1>4, <1>5, <1>6, <1>7, <1>9

\* A listener that has followed a PDU in time matches the timestamp at hand.
LEMMA InTimeMatches ==
  ASSUME RoomForPdu, SettleTypes, SettleInv, ListenerStep, clean >= 1, InTime
  PROVE  synchronized'
<1>1. Following
  BY DEF Following
<1> DEFINE t == Head(timestamps)
           B == BeginAt(1)
           L == Len(timestamps)
<1>2. /\ B \in Int /\ L \in 1 .. TsPerPdu /\ t = B - L /\ t > disturbed /\ B - 1 < now
      /\ now \in Nat /\ edge_now \in Nat /\ now <= edge_now + 1 /\ TsPerPdu \in Nat
      /\ TsPerPdu > 1 /\ NextTs = B - L /\ timestamps # <<>>
  BY <1>1, FollowedTurn, Turn DEF SettleTypes, Types, Shape, RoomForPdu, NextTs
<1>3. CASE synchronized
  <2>1. FirstEdge = t
    BY <1>2, <1>3 DEF SettleInv, Meets
  <2> QED BY <1>2, <1>3, <2>1, TurnMeets
<1>4. CASE ~synchronized
  <2>1. L = TsPerPdu
    <3>1. ~(L < TsPerPdu)
      BY <1>2, <1>4 DEF SettleInv, Meets, Idle
    <3> HIDE DEF L
    <3> QED BY <1>2, <3>1
  <2>2. FirstEdge <= t
    BY <1>2, <1>4 DEF SettleInv, Meets
  <2>3. t < edge_now
    <3> HIDE DEF L, B, t
    <3> QED BY <1>2, <2>1
  <2> QED BY <1>2, <1>4, <2>2, <2>3, TurnMeets
<1> QED BY <1>3, <1>4

\* The FIFO keeps being a run of the last edges.
LEMMA TurnFits ==
  ASSUME SettleTypes, SettleInv, ListenerStep
  PROVE  Fits(edges', FirstEdge', disturbed')
<1>1. /\ edges \in Seq(Nat) /\ Len(edges) \in Nat /\ FirstEdge \in Int /\ disturbed \in Nat
      /\ edge_now \in Nat /\ FirstEdge = edge_now - Len(edges)
      /\ Fits(edges, FirstEdge, disturbed)
      /\ FirstEdge' = edge_now - Len(edges') /\ disturbed' = disturbed
  BY Turn DEF SettleTypes, Types, SettleInv, ListenerRuns, FirstEdge
<1>2. ASSUME NEW n \in 0 .. Len(edges), Searches(n, Head(timestamps))
      PROVE  Fits(edges', FirstEdge', disturbed')
  <2>1. edges' = SubSeq(edges, n + 1, Len(edges)) /\ n \in Nat
    BY <1>1, <1>2 DEF Searches
  <2>2. Fits(edges', edge_now - Len(edges'), disturbed)
    BY <1>1, <2>1, DrainFits
  <2> QED BY <1>1, <2>2
<1>3. ASSUME Pairs(Head(timestamps))
      PROVE  Fits(edges', FirstEdge', disturbed')
  <2>1. /\ Len(edges') = Len(edges) - 1 /\ Fits(edges', FirstEdge + 1, disturbed)
    BY <1>1, <1>3, FitsTail DEF Pairs
  <2>2. FirstEdge' = FirstEdge + 1
    BY <1>1, <2>1
  <2> QED BY <1>1, <2>1, <2>2
<1>4. ASSUME GivesUp(Head(timestamps))
      PROVE  Fits(edges', FirstEdge', disturbed')
  BY <1>1, <1>4 DEF GivesUp
<1> QED BY <1>2, <1>3, <1>4, Turn

\* One turn of the listener's loop.
LEMMA SettleListenerStep ==
  ASSUME RoomForPdu, SettleTypes, TypeOK', SettleInv, ListenerStep
  PROVE  SettleInv'
<1>1. /\ timestamps # <<>> /\ timestamps' = Tail(timestamps) /\ ~(waited' > 0)
      /\ disturbed' = disturbed
      /\ UNCHANGED <<talkerVars, receiverVars, now, edge_now, net>>
  BY Turn
<1>2. UNCHANGED <<armed, quiet, txq, crf_data, seq_num, first_packet, expected_seq_num>>
  BY <1>1 DEF talkerVars, receiverVars
<1>3. /\ \A i : BeginAt(i)' = BeginAt(i) /\ SeqAt(i)' = SeqAt(i)
      /\ Steady' = Steady /\ Begin' = Begin
  BY <1>1, <1>2 DEF Steady, Begin, BeginAt, SeqAt, LastTs
<1>4. TalkerRuns'
  BY <1>1, <1>2, <1>3 DEF SettleInv, TalkerRuns
<1>5. NetRuns'
  BY <1>1, <1>3 DEF SettleInv, NetRuns, Linked, LastTs, Fresh
<1> DEFINE L == Len(timestamps)
           B == BeginAt(1)
           t == Head(timestamps)
<1>6. /\ L \in Nat \ {0} /\ Len(timestamps') = L - 1 /\ clean \in Nat /\ edge_now \in Nat
      /\ t \in Nat
      /\ \A j \in 1 .. L - 1 : timestamps'[j] = timestamps[j + 1]
  BY <1>1, HeadTailProperties, EmptySeq DEF SettleTypes, Types
<1>7. Idle' <=> L = 1
  <2>1. timestamps' = <<>> <=> Len(timestamps') = 0
    <3>1. timestamps' \in Seq(Nat)
      BY <1>1, HeadTailProperties DEF SettleTypes, Types
    <3> QED BY <3>1, EmptySeq
  <2> QED BY <1>6, <2>1 DEF Idle
<1>8. Pairing' => Pairing /\ L # 1
  <2> SUFFICES ASSUME Pairing' PROVE Pairing /\ L # 1
    OBVIOUS
  <2>1. L # 1
    BY <1>7 DEF Pairing, Idle
  <2>2. timestamps'[L - 1] = timestamps[L - 1 + 1] /\ L - 1 + 1 = L
    <3>1. L - 1 \in 1 .. L - 1
      BY <1>6, <2>1
    <3> QED BY <1>6, <3>1
  <2> QED BY <1>1, <1>6, <2>1, <2>2 DEF Pairing
<1>9. /\ clean' >= 1 => Following
      /\ L # 1 => clean' = clean
  <2>1. clean' = IF L = 1 /\ t >= disturbed + TsPerPdu
                 THEN IF Prompt THEN clean + 1 ELSE 0
                 ELSE clean
    BY DEF ListenerStep
  <2>2. L # 1 => clean' = clean
    BY <2>1
  <2>3. clean' >= 1 => clean >= 1 \/ (L = 1 /\ t >= disturbed + TsPerPdu)
    BY <2>1
  <2>4. L = 1 => t = timestamps[L]
    BY <1>1
  <2> QED BY <1>1, <2>2, <2>3, <2>4 DEF Following, Pairing
<1>10. Following' => Following
  BY <1>8, <1>9 DEF Following
<1>11. Following => /\ FollowsOn /\ B \in Int /\ L \in 1 .. TsPerPdu /\ t = B - L
                    /\ t > disturbed /\ B - 1 < now
                    /\ L = 1 => t >= disturbed + TsPerPdu
  BY FollowedTurn
<1>12. Following => NextTs' = NextTs + 1 /\ NextTs = t
  BY <1>3, <1>6, <1>11 DEF NextTs
<1>13. Following => FollowsOn'
  <2> SUFFICES ASSUME Following PROVE FollowsOn'
    OBVIOUS
  <2>1. FollowsOn /\ NextTs' = NextTs + 1 /\ NextTs \in Int
    BY <1>6, <1>11, <1>12
  <2>2. \A j \in 1 .. L - 1 : timestamps'[j] = NextTs' + j - 1
    <3> SUFFICES ASSUME NEW j \in 1 .. L - 1 PROVE timestamps'[j] = NextTs' + j - 1
      OBVIOUS
    <3> DEFINE i == j + 1
    <3>1. i \in 1 .. L /\ timestamps'[j] = timestamps[i] /\ NextTs' + j - 1 = NextTs + i - 1
      <4>1. timestamps'[j] = timestamps[i]
        BY <1>6
      <4>2. NextTs' + j - 1 = NextTs + i - 1
        BY <2>1
      <4>3. L \in Nat \ {0}
        BY <1>6
      <4> HIDE DEF L
      <4>4. i \in 1 .. L
        BY <4>3
      <4> QED BY <4>1, <4>2, <4>4
    <3> HIDE DEF i
    <3>2. timestamps[i] = NextTs + i - 1
      BY <2>1, <3>1 DEF FollowsOn
    <3> QED BY <3>1, <3>2
  <2>3. \A j \in 1 .. Len(timestamps') : timestamps'[j] = NextTs' + j - 1
    BY <1>6, <2>2
  <2> QED BY <1>1, <1>2, <1>3, <2>1, <2>3 DEF FollowsOn
<1>14. ListenerRuns'
  BY <1>1, <1>10, <1>13, TurnFits DEF ListenerRuns
<1>15. ASSUME clean' >= 1, L = 1
       PROVE  InTime /\ clean' = clean + 1
  <2>1. Following /\ t >= disturbed + TsPerPdu /\ t = B - 1 /\ B \in Int
    BY <1>9, <1>11, <1>15
  <2>2. clean' = IF Prompt THEN clean + 1 ELSE 0
    BY <1>15, <2>1 DEF ListenerStep
  <2>3. Prompt
    BY <1>15, <2>2
  <2>4. edge_now <= B
    BY <1>6, <2>1, <2>3 DEF Prompt
  <2> QED BY <1>1, <2>2, <2>3, <2>4 DEF InTime, Idle
<1>16. ASSUME Following', InTime' PROVE InTime
  <2>1. CASE L = 1
    <3>1. clean' >= 1
      BY <1>8, <1>16, <2>1 DEF Following
    <3> QED BY <1>15, <2>1, <3>1
  <2>2. CASE L # 1
    BY <1>1, <1>3, <1>7, <1>16, <2>2 DEF InTime, Idle
  <2> QED BY <2>1, <2>2
<1>17. ASSUME clean >= 1, InTime PROVE synchronized'
  BY <1>17, InTimeMatches
<1>18. Meets'
  <2> SUFFICES ASSUME InTime'
               PROVE  /\ Following' /\ synchronized' => FirstEdge' = NextTs'
                      /\ clean' >= 1 /\ ~synchronized' => FirstEdge' <= NextTs'
                      /\ clean' >= 1 /\ ~Idle' => synchronized'
    BY DEF Meets, Following
  <2>1. ASSUME Following', synchronized' PROVE FirstEdge' = NextTs'
    BY <1>10, <1>11, <1>12, <2>1, TurnMeets
  <2>2. ASSUME clean' >= 1, L # 1 PROVE synchronized'
    <3>1. Following' /\ clean >= 1
      BY <1>9, <2>2 DEF Following
    <3> QED BY <1>16, <1>17, <3>1
  <2>3. ASSUME clean' >= 1, L = 1 PROVE FirstEdge' <= NextTs'
    <3>1. Following /\ InTime
      BY <1>9, <1>15, <2>3
    <3>2. FirstEdge' <= edge_now
      BY <1>11, <3>1, TurnMeets
    <3>3. edge_now <= B
      BY <1>1, <3>1 DEF InTime, Idle
    <3>4. NextTs' = B /\ B \in Int
      BY <1>3, <1>6, <1>11, <2>3, <3>1 DEF NextTs
    <3>5. FirstEdge' \in Int
      <4>1. Len(edges') \in Nat
        BY LenProperties DEF TypeOK, ListenerTypeOK
      <4> QED BY <1>1, <1>6, <4>1 DEF FirstEdge
    <3> QED BY <1>6, <3>2, <3>3, <3>4, <3>5
  <2> QED BY <1>7, <2>1, <2>2, <2>3
<1>19. Recovered'
  <2> SUFFICES ASSUME clean' >= 2, Idle' \/ Len(timestamps') = TsPerPdu PROVE synchronized'
    BY DEF Recovered
  <2>1. clean' >= 1 /\ clean' \in Nat
    BY DEF TypeOK
  <2>2. Following
    BY <1>9, <2>1
  <2>3. L = 1
    BY <1>6, <1>7, <1>11, <2>2
  <2>4. clean >= 1 /\ InTime
    BY <1>6, <1>15, <2>1, <2>3
  <2> QED BY <1>17, <2>4
<1> QED BY <1>4, <1>5, <1>14, <1>18, <1>19 DEF SettleInv

\* The invariant of recovery is inductive.
LEMMA SettleNext ==
  ASSUME RoomForPdu, TypeOK, TypeOK', Shape, Shape', SettleInv, [Next]_vars
  PROVE  SettleInv'
<1>1. SettleTypes
  BY SettleTypesHold
<1>2. CASE AllBefore'
  <2>1. (TypeOK /\ Shape /\ AllBefore => SettleInv)'
    BY NothingFresh, PTL
  <2> QED BY <1>2, <2>1
<1>3. CASE UNCHANGED vars
  <2>1. UNCHANGED <<armed, quiet, txq, crf_data, seq_num, net, now, edge_now, disturbed, clean,
                    edges, timestamps, waited, synchronized, first_packet, expected_seq_num>>
    BY <1>3 DEF vars, talkerVars, listenerVars, receiverVars, pathVars
  <2>2. /\ Steady' = Steady /\ Begin' = Begin /\ FirstEdge' = FirstEdge /\ Idle' = Idle
        /\ Blocked' = Blocked /\ Pairing' = Pairing
    BY <2>1 DEF Steady, Begin, FirstEdge, Idle, Blocked, Pairing
  <2>3. \A i : BeginAt(i)' = BeginAt(i) /\ SeqAt(i)' = SeqAt(i)
    BY <2>1, <2>2 DEF BeginAt, SeqAt, LastTs
  <2>4. NextTs' = NextTs /\ InTime' = InTime /\ Following' = Following
    BY <2>1, <2>2, <2>3 DEF NextTs, InTime, Following
  <2>5. TalkerRuns' /\ NetRuns'
    BY <2>1, <2>2, <2>3 DEF SettleInv, TalkerRuns, NetRuns, Linked, LastTs, Fresh
  <2>6. ListenerRuns'
    BY <2>1, <2>2, <2>3, <2>4 DEF SettleInv, ListenerRuns, FollowsOn
  <2>7. Meets' /\ Recovered'
    BY <2>1, <2>2, <2>4 DEF SettleInv, Meets, Recovered
  <2> QED BY <2>5, <2>6, <2>7 DEF SettleInv
<1>4. CASE OrderlyStep
  BY <1>1, <1>3, <1>4, SettleTalkerTick, SettleListenerTick, SettleTalkerStep, SettleTimeout,
     SettleDeliver, SettleListenerStep DEF OrderlyStep
<1> QED BY <1>2, <1>4, FaultOrNot

\* Whatever happened, a listener that has handled two PDUs of edges since the
\* last fault, each before its next edge, is synchronised, however many faults
\* there were and wherever they struck: for every PDU with room for more than one
\* timestamp and every FIFO with room for the edges of a PDU.
THEOREM TwoPdusResync ==
  ASSUME RoomForPdu
  PROVE  Spec => []ResyncWithinTwoPdus
<1>1. Init /\ TypeOK /\ Shape => SettleInv
  <2> SUFFICES ASSUME Init, TypeOK, Shape PROVE SettleInv
    OBVIOUS
  <2>1. AllBefore
    BY DEF Init, AllBefore
  <2> QED BY <2>1, NothingFresh
<1>2. TypeOK /\ TypeOK' /\ Shape /\ Shape' /\ SettleInv /\ [Next]_vars => SettleInv'
  BY SettleNext
<1>3. SettleInv => ResyncWithinTwoPdus
  BY DEF SettleInv, Recovered, ResyncWithinTwoPdus
<1> QED BY <1>1, <1>2, <1>3, TypeCorrect, ShapeHolds, PTL DEF Spec
=============================================================================
