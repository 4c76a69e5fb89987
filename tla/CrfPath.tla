------------------------------- MODULE CrfPath -------------------------------
(***************************************************************************)
(* The media clock path end to end: the CRF talker, the network, and the   *)
(* CRF listener with its feedback edges, under the faults the code meets.  *)
(***************************************************************************)
EXTENDS CrfTalker, CrfListener

CONSTANTS
  FaultKinds,    \* the faults that may happen, a subset of AllFaultKinds
  MaxFaults,     \* how many of them, over the whole run
  MaxBurst,      \* PDUs lost in a row, at most
  MaxTransit,    \* edge periods a timestamp may be on its way, at most
  MaxTime        \* edge periods in the run: bounds every counter

AllFaultKinds ==
  {"loss", "duplicate", "reorder", "talker edge", "listener edge", "stall",
   "restart", "other channel"}

ASSUME PathAssumption ==
  /\ FaultKinds \subseteq AllFaultKinds
  /\ MaxFaults \in Nat
  /\ MaxBurst \in Nat
  /\ MaxTransit \in Nat
  /\ MaxTime \in Nat

VARIABLES
  now,       \* edge periods that have passed at the talker: its next edge
  edge_now,  \* the same at the listener
  net,       \* PDUs in the network and the listener's socket, in order
  burst,     \* PDUs lost since the listener accepted one
  faults,    \* faults so far
  disturbed, \* when the last of them happened
  clean,     \* PDUs of edges generated since then, handled promptly in a row
  skipped,   \* events of the other channel the talker has read
  first,     \* number and sequence number of the first PDU accepted
  last_id    \* number of the last one

pathVars ==
  <<now, edge_now, net, burst, faults, disturbed, clean, skipped, first, last_id>>
vars == <<talkerVars, listenerVars, pathVars>>

NoPdu == [id |-> -1, seq_num |-> -1]

Init ==
  /\ TalkerInit
  /\ ListenerInit
  /\ now = 0
  /\ edge_now = 0
  /\ net = <<>>
  /\ burst = 0
  /\ faults = 0
  /\ disturbed = 0
  /\ clean = 0
  /\ skipped = 0
  /\ first = NoPdu
  /\ last_id = -1

-----------------------------------------------------------------------------

\* A fault of this kind happens in this step: the environment's own accounts.
Fault(kind) ==
  /\ kind \in FaultKinds
  /\ faults < MaxFaults
  /\ faults' = faults + 1
  /\ disturbed' = IF edge_now > now THEN edge_now ELSE now
  /\ clean' = 0

NoFault == UNCHANGED <<faults, disturbed, clean>>

\* No process is late with what it has been given once edge k passes: it has at
\* most MaxTransit older timestamps to handle.  The listener's time runs while
\* edge_read() has it blocked.
OnTime(k) ==
  /\ \A i \in DOMAIN txq : k - txq[i] <= MaxTransit
  /\ \/ Blocked
     \/ /\ \A i \in DOMAIN net : k - net[i].timestamps[TsPerPdu] <= MaxTransit
        /\ ~Idle => k - timestamps[Len(timestamps)] <= MaxTransit

\* Edge `now' passes at the talker, before or after its twin at the listener,
\* and the NIC captures it or misses it.
TalkerTick ==
  /\ now < MaxTime
  /\ now <= edge_now
  /\ OnTime(now)
  /\ now' = now + 1
  /\ \/ /\ TalkerCapture(now, armed /\ quiet >= 0)
        /\ NoFault
     \/ /\ armed
        /\ TalkerCapture(now, FALSE)
        /\ Fault("talker edge")
  /\ UNCHANGED <<listenerVars, edge_now, net, burst, skipped, first, last_id>>

\* The same at the listener.
ListenerTick ==
  /\ edge_now < MaxTime
  /\ edge_now <= now
  /\ OnTime(edge_now)
  /\ edge_now' = edge_now + 1
  /\ \/ /\ ListenerCapture(edge_now, TRUE)
        /\ NoFault
     \/ /\ ListenerCapture(edge_now, FALSE)
        /\ Fault("listener edge")
  /\ UNCHANGED <<talkerVars, now, net, burst, skipped, first, last_id>>

\* The talker handles one event, and the PDU it may send joins the network.
TalkerStep ==
  /\ ReadEdge
  /\ net' = net \o Sent
  /\ NoFault
  /\ UNCHANGED <<listenerVars, now, edge_now, burst, skipped, first, last_id>>

TalkerTimeout ==
  /\ SelectTimeout
  /\ NoFault
  /\ UNCHANGED <<listenerVars, now, edge_now, net, burst, skipped, first, last_id>>

\* The listener takes the PDU at position i of the network.
Accept(pdu) ==
  /\ Receive(pdu)
  /\ burst' = 0
  /\ first' = IF first_packet THEN [id |-> pdu.id, seq_num |-> pdu.seq_num] ELSE first
  /\ last_id' = pdu.id
  /\ UNCHANGED <<talkerVars, now, edge_now, skipped>>

Deliver ==
  /\ net # <<>>
  /\ Accept(Head(net))
  /\ net' = Tail(net)
  /\ NoFault

\* The last timestamp of a PDU is handled before its next edge passes.
Prompt == edge_now <= Head(timestamps) + 1

\* One turn of the listener's loop over the timestamps of a PDU.
ListenerStep ==
  /\ Synchronize \/ Pair \/ EdgeTimeout
  /\ clean' = IF Len(timestamps) = 1 /\ Head(timestamps) >= disturbed + TsPerPdu
              THEN IF Prompt THEN clean + 1 ELSE 0
              ELSE clean
  /\ UNCHANGED <<talkerVars, now, edge_now, net, burst, faults, disturbed, skipped,
                 first, last_id>>

-----------------------------------------------------------------------------

\* The network loses a PDU.
Lose ==
  /\ net # <<>>
  /\ burst < MaxBurst
  /\ Fault("loss")
  /\ net' = Tail(net)
  /\ burst' = burst + 1
  /\ UNCHANGED <<talkerVars, listenerVars, now, edge_now, skipped, first, last_id>>

\* It delivers a PDU a second time: the copy is still to come.
Duplicate ==
  /\ net # <<>>
  /\ Fault("duplicate")
  /\ Accept(Head(net))
  /\ UNCHANGED net

\* It delivers the second PDU before the first.
Reorder ==
  /\ Len(net) > 1
  /\ Fault("reorder")
  /\ Accept(net[2])
  /\ net' = <<net[1]>> \o SubSeq(net, 3, Len(net))

\* The talker's NIC stops capturing edges.
Stall ==
  /\ ChannelDies
  /\ Fault("stall")
  /\ UNCHANGED <<listenerVars, now, edge_now, net, burst, skipped, first, last_id>>

\* The talker's process is restarted.
Restart ==
  /\ TalkerRestart
  /\ Fault("restart")
  /\ UNCHANGED <<listenerVars, now, edge_now, net, burst, skipped, first, last_id>>

\* An event of the other channel wakes the talker.
OtherChannel ==
  /\ SkipEvent
  /\ Fault("other channel")
  /\ skipped' = skipped + 1
  /\ UNCHANGED <<listenerVars, now, edge_now, net, burst, first, last_id>>

\* The end of the run: every edge period has passed, and both processes wait.
Finished ==
  /\ now = MaxTime /\ edge_now = MaxTime
  /\ txq = <<>>
  /\ Blocked \/ (Idle /\ net = <<>>)
  /\ UNCHANGED vars

Next ==
  \/ TalkerTick
  \/ ListenerTick
  \/ TalkerStep
  \/ TalkerTimeout
  \/ Deliver
  \/ ListenerStep
  \/ Lose
  \/ Duplicate
  \/ Reorder
  \/ Stall
  \/ Restart
  \/ OtherChannel
  \/ Finished

Spec == Init /\ [][Next]_vars

-----------------------------------------------------------------------------

\* Every variable has its type.
TypeOK ==
  /\ TalkerTypeOK
  /\ ListenerTypeOK
  /\ now \in 0 .. MaxTime
  /\ edge_now \in 0 .. MaxTime
  /\ net \in Seq(Pdu)
  /\ burst \in 0 .. MaxBurst
  /\ faults \in 0 .. MaxFaults
  /\ disturbed \in 0 .. MaxTime
  /\ clean \in Nat
  /\ skipped \in Nat
  /\ first \in [id : Nat, seq_num : 0 .. SeqNumMod - 1] \cup {NoPdu}
  /\ last_id \in Nat \cup {-1}

\* The receiver's two counters and its expected sequence number tell one
\* story, whatever the network did: the PDUs it counted, received or dropped,
\* lead from the first sequence number to the expected one (crf-receiver.c).
SequenceAccounting ==
  ~first_packet =>
    expected_seq_num = (first.seq_num + pkt_count + drop_count) % SeqNumMod

\* On a network that keeps order and loses fewer than SeqNumMod PDUs in a row,
\* drop_count is the number of PDUs lost since the first one accepted.
DropsAreExact ==
  ~first_packet => pkt_count + drop_count = last_id - first.id + 1

\* Losing PDUs costs a synchronised listener nothing: on_crf_drop() discards
\* just the edges of the lost timestamps, and the next timestamp still meets
\* its own edge (as long as the kernel FIFO has room for the outage).
LossKeepsSync == [][synchronized /\ ~overwritten' => synchronized']_vars

\* How long an outage the kernel FIFO carries a synchronised listener over: the
\* edges of the longest burst, of the PDU after it and of its transit fit.  For
\* the code's 128 events, 6 timestamps per PDU and a prompt network that is a
\* burst of 20 PDUs, 0.4 s.
OutageFits ==
  EdgeCap >= (MaxBurst + 1) * TsPerPdu + MaxTransit
    => ~(synchronized /\ overwritten)

\* A PDU never spans a stall: between two of its timestamps the talker has not
\* waited out a select (ts_idx = 0 in the stall branch of crf-talker-rpi.c),
\* though every event of the other channel lets it wait for one longer.
NoPduAcrossStall ==
  \A i \in DOMAIN net : \A j \in 1 .. TsPerPdu - 1 :
    net[i].timestamps[j + 1] - net[i].timestamps[j]
      <= (SelectPeriods + MaxTransit) * (1 + skipped)

\* The servo sees edges in order and never the same one twice, each with the
\* timestamp the talker took of that very edge, whatever was lost, repeated or
\* overtaken on either side.
ServoSamplesTrue ==
  [][sample' # sample => /\ sample'.edge = sample'.timestamp
                         /\ sample'.edge > sample.edge]_vars

\* Recovery: whatever happened, the listener is synchronised again by the time
\* it has handled two PDUs in a row that no fault touched, each before its next
\* edge.  A search that fails has discarded an edge newer than its timestamp,
\* and where PDUs come later than that edge it goes on failing.
ResyncWithinTwoPdus == (clean >= 2 /\ Idle) => synchronized
=============================================================================
