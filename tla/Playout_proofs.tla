---------------------------- MODULE Playout_proofs ----------------------------
(***************************************************************************)
(* Theorems about an audio stream end to end, for every transit time,      *)
(* width of the timestamp, number of faults and length of the run.         *)
(***************************************************************************)
EXTENDS Playout, SequenceTheorems, ModuloLemmas

\* What the assumptions on the constants say of their types.
LEMMA Constants ==
  /\ Wrap \in Nat \ {0}
  /\ TransitTime \in Nat
  /\ MaxLate \in Nat
  /\ MaxFaults \in Nat
  /\ Delay \in Nat
  /\ MaxSends \in Nat
  /\ LastSend \in Nat
BY WrapAssumption, PlayoutAssumption

-----------------------------------------------------------------------------
\* The avtp_time of a presentation time (common.c).

\* It fits in its field, and what a listener makes of one is a time that is not
\* in its past, less than one wrap away.
LEMMA AvtpTimeType ==
  ASSUME NEW p \in Nat
  PROVE  ToAvtpTime(p) \in 0 .. Wrap - 1
BY Constants, DivMod DEF ToAvtpTime

LEMMA PresentationTimeBounds ==
  ASSUME NEW a \in 0 .. Wrap - 1, NEW t \in Nat
  PROVE  /\ PresentationTime(a, t) \in Nat
         /\ t <= PresentationTime(a, t)
         /\ PresentationTime(a, t) < t + Wrap
<1> DEFINE r == t % Wrap
<1>1. r \in 0 .. Wrap - 1 /\ r <= t
  <2>1. r \in 0 .. Wrap - 1 /\ t \div Wrap \in Int /\ t = Wrap * (t \div Wrap) + r
    BY Constants, DivMod
  <2> DEFINE q == t \div Wrap
  <2> HIDE DEF q, r
  <2>2. q \in Int /\ t = Wrap * q + r /\ r \in 0 .. Wrap - 1
    BY <2>1 DEF q
  <2>3. q >= 0
    <3>1. SUFFICES ASSUME q <= -1 PROVE FALSE
      BY <2>2
    <3>2. Wrap * q <= -Wrap
      BY <2>2, <3>1, Constants
    <3>3. QED
      BY <2>2, <3>2, Constants
  <2>4. Wrap * q >= 0
    BY <2>2, <2>3, Constants
  <2>5. QED
    BY <2>2, <2>4, Constants
<1> HIDE DEF r
<1>2. PresentationTime(a, t) = IF t - r + a < t THEN t - r + a + Wrap ELSE t - r + a
  BY DEF PresentationTime, r
<1>3. QED
  BY <1>1, <1>2, Constants

\* The time it stands for is the talker's up to a number of wraps ...
LEMMA PresentationTimeCongruent ==
  ASSUME NEW p \in Nat, NEW t \in Nat
  PROVE  \E k \in Int : PresentationTime(ToAvtpTime(p), t) = p + Wrap * k
<1> DEFINE qp == p \div Wrap
           qt == t \div Wrap
           rp == p % Wrap
           rt == t % Wrap
<1>1. /\ qp \in Int /\ qt \in Int /\ rp \in Int /\ rt \in Int
      /\ p = Wrap * qp + rp /\ t = Wrap * qt + rt
  BY Constants, DivMod
<1>2. PresentationTime(ToAvtpTime(p), t)
        = IF t - rt + rp < t THEN t - rt + rp + Wrap ELSE t - rt + rp
  BY DEF PresentationTime, ToAvtpTime
<1> HIDE DEF qp, qt, rp, rt
<1>3. t - rt + rp = p + Wrap * (qt - qp)
  BY <1>1, Constants
<1>4. t - rt + rp + Wrap = p + Wrap * (qt - qp + 1)
  BY <1>1, Constants
<1>5. qt - qp \in Int /\ qt - qp + 1 \in Int
  BY <1>1
<1>6. QED
  BY <1>2, <1>3, <1>4, <1>5

\* ... and just the talker's, if that is less than a wrap ahead.
LEMMA PresentationTimeExact ==
  ASSUME NEW p \in Nat, NEW t \in Nat, t <= p, p < t + Wrap
  PROVE  PresentationTime(ToAvtpTime(p), t) = p
<1> DEFINE pt == PresentationTime(ToAvtpTime(p), t)
<1>1. pt \in Nat /\ t <= pt /\ pt < t + Wrap
  BY AvtpTimeType, PresentationTimeBounds
<1>2. PICK k \in Int : pt = p + Wrap * k
  BY PresentationTimeCongruent
<1> HIDE DEF pt
<1>3. Wrap * k < Wrap /\ -Wrap < Wrap * k
  BY <1>1, <1>2, Constants
<1>4. k = 0
  <2>1. k < 1
    <3>1. SUFFICES ASSUME k >= 1 PROVE FALSE
      OBVIOUS
    <3>2. Wrap * k >= Wrap
      BY <3>1, Constants
    <3>3. QED
      BY <1>3, <3>2, Constants
  <2>2. k > -1
    <3>1. SUFFICES ASSUME k <= -1 PROVE FALSE
      OBVIOUS
    <3>2. Wrap * k <= -Wrap
      BY <3>1, Constants
    <3>3. QED
      BY <1>3, <3>2, Constants
  <2>3. QED
    BY <2>1, <2>2
<1>5. QED
  BY <1>1, <1>2, <1>4, Constants DEF pt

\* A listener never takes a time less than a wrap ahead for an earlier one.
LEMMA PresentationTimeNotEarlier ==
  ASSUME NEW p \in Nat, NEW t \in Nat, p < t + Wrap
  PROVE  p <= PresentationTime(ToAvtpTime(p), t)
<1>1. CASE t <= p
  BY <1>1, PresentationTimeExact
<1>2. CASE p < t
  BY <1>2, AvtpTimeType, PresentationTimeBounds
<1>3. QED
  BY <1>1, <1>2

-----------------------------------------------------------------------------
\* Types, and the timer and the head of the queue.

Sample == [id : Nat, ptime : Nat, tspec : Nat]

\* Taking a PDU off the network or the socket leaves PDUs.
LEMMA TakeType ==
  ASSUME NEW S, NEW s \in Seq(S), s # <<>>
  PROVE  Head(s) \in S /\ Tail(s) \in Seq(S)
BY HeadTailProperties

LEMMA NotEmpty ==
  ASSUME NEW S, NEW s \in Seq(S), Len(s) > 0
  PROVE  s # <<>>
OBVIOUS

\* The second element of a sequence becomes its head.
LEMMA SecondElement ==
  ASSUME NEW S, NEW s \in Seq(S), Len(s) > 1
  PROVE  Tail(s) # <<>> /\ Head(Tail(s)) = s[2] /\ s[2] \in S
<1>1. Len(s) \in Nat /\ s # <<>>
  BY LenProperties, EmptySeq
<1>2. /\ Tail(s) \in Seq(S) /\ Len(Tail(s)) = Len(s) - 1
      /\ \A i \in 1 .. Len(Tail(s)) : Tail(s)[i] = s[i + 1]
  BY <1>1, HeadTailProperties
<1>3. Len(Tail(s)) \in Nat /\ Len(Tail(s)) > 0
  BY <1>1, <1>2
<1>4. Tail(s) # <<>>
  BY <1>2, <1>3, NotEmpty
<1>5. Head(Tail(s)) = Tail(s)[1]
  BY <1>2, <1>4
<1>6. Tail(s)[1] = s[2]
  BY <1>2, <1>3
<1>7. s[2] \in S
  BY <1>1, ElementOfSeq
<1>8. QED
  BY <1>4, <1>5, <1>6, <1>7

\* The queue and its timer keep their types, and the timer serves the head,
\* over a poll() ...
LEMMA PollKeepsTimer ==
  ASSUME TypeOK, TimerServesHead, Poll(socket # <<>>, now), now' = now
  PROVE  QueueTypeOK' /\ TimerServesHead'
<1>1. samples' = samples /\ timer' = timer /\ running' = running
      /\ ready' \subseteq {"sk", "timer"}
      /\ ("timer" \in ready' => Expired(now))
  BY DEF Poll
<1>2. Expired(now) <=> Expired(now)'
  BY <1>1 DEF Expired
<1>3. QueueTypeOK'
  BY <1>1 DEF TypeOK, QueueTypeOK
<1>4. TimerServesHead'
  BY <1>1, <1>2 DEF TimerServesHead
<1>5. QED
  BY <1>3, <1>4

\* ... when a sample joins the queue ...
LEMMA NewPacketKeepsTimer ==
  ASSUME TypeOK, TimerServesHead, NEW pdu \in Pdu, NewPacket(pdu, now), now' = now
  PROVE  QueueTypeOK' /\ TimerServesHead'
<1> DEFINE e == [id    |-> pdu.id,
                 ptime |-> pdu.ptime,
                 tspec |-> PresentationTime(pdu.avtp_time, now)]
<1>1. e \in Sample
  <2>1. pdu.id \in Nat /\ pdu.ptime \in Nat /\ pdu.avtp_time \in 0 .. Wrap - 1
    BY DEF Pdu
  <2>2. PresentationTime(pdu.avtp_time, now) \in Nat
    BY <2>1, PresentationTimeBounds DEF TypeOK
  <2>3. QED
    BY <2>1, <2>2 DEF Sample
<1>2. /\ samples' = Append(samples, e)
      /\ timer' = IF samples = <<>> THEN e.tspec ELSE timer
      /\ ready' = ready \ {"sk"}
      /\ running' = running
  BY DEF NewPacket, ScheduleSample, Arms
<1> HIDE DEF e
<1>3. samples \in Seq(Sample)
  BY DEF TypeOK, QueueTypeOK, Sample
<1>4. /\ samples' \in Seq(Sample)
      /\ samples' # <<>>
      /\ Head(samples') = IF samples = <<>> THEN e ELSE Head(samples)
  BY <1>1, <1>2, <1>3, AppendProperties, HeadTailProperties
<1>5. timer' \in Nat \cup {NoTimer}
  BY <1>1, <1>2 DEF TypeOK, QueueTypeOK, Sample
<1>6. QueueTypeOK'
  BY <1>2, <1>4, <1>5 DEF TypeOK, QueueTypeOK, Sample
<1>7. timer' = Head(samples').tspec
  BY <1>2, <1>4 DEF TimerServesHead
<1>8. "timer" \in ready' => Expired(now)'
  <2>1. SUFFICES ASSUME "timer" \in ready PROVE Expired(now)'
    BY <1>2
  <2>2. timer # NoTimer /\ timer <= now /\ samples # <<>>
    BY <2>1 DEF TimerServesHead, Expired
  <2>3. timer' = timer
    BY <1>2, <2>2
  <2>4. QED
    BY <2>2, <2>3 DEF Expired
<1>9. QED
  BY <1>4, <1>6, <1>7, <1>8 DEF TimerServesHead

\* ... and when the head is presented.
LEMMA TimeoutKeepsTimer ==
  ASSUME TypeOK, TimerServesHead, Timeout
  PROVE  /\ QueueTypeOK' /\ TimerServesHead'
         /\ samples # <<>>
         /\ Head(samples) \in Sample
         /\ timer = Head(samples).tspec
         /\ timer <= now
<1>1. /\ samples' = Tail(samples) /\ timer' = Rearmed /\ ready' = {}
      /\ running' = running /\ "timer" \in ready
  BY DEF Timeout
<1>2. samples # <<>> /\ timer <= now /\ timer = Head(samples).tspec
  BY <1>1 DEF TimerServesHead, Expired
<1>3. samples \in Seq(Sample)
  BY DEF TypeOK, QueueTypeOK, Sample
<1>4. Head(samples) \in Sample /\ samples' \in Seq(Sample)
  BY <1>1, <1>2, <1>3, TakeType
<1>5. CASE Len(samples) > 1
  <2>1. samples' # <<>> /\ Head(samples') = samples[2] /\ samples[2] \in Sample
    BY <1>1, <1>3, <1>5, SecondElement
  <2>2. timer' = Head(samples').tspec /\ timer' \in Nat
    BY <1>1, <1>5, <2>1 DEF Rearmed, Sample
  <2>3. QueueTypeOK'
    BY <1>1, <1>4, <2>2 DEF TypeOK, QueueTypeOK, Sample
  <2>4. TimerServesHead'
    BY <1>1, <2>1, <2>2 DEF TimerServesHead
  <2>5. QED
    BY <1>2, <1>4, <2>3, <2>4
<1>6. CASE ~(Len(samples) > 1)
  <2>1. samples' = <<>>
    BY <1>1, <1>2, <1>3, <1>6, HeadTailProperties, EmptySeq
  <2>2. timer' = NoTimer
    BY <1>1, <1>6 DEF Rearmed
  <2>3. QueueTypeOK'
    BY <1>1, <1>4, <2>2 DEF TypeOK, QueueTypeOK, Sample
  <2>4. TimerServesHead'
    BY <1>1, <2>1, <2>2 DEF TimerServesHead
  <2>5. QED
    BY <1>2, <1>4, <2>3, <2>4
<1>7. QED
  BY <1>5, <1>6

\* A queue nobody touches.
LEMMA QueueKept ==
  ASSUME TypeOK, TimerServesHead, UNCHANGED queueVars, now' \in Nat, now <= now'
  PROVE  QueueTypeOK' /\ TimerServesHead'
<1>1. samples' = samples /\ timer' = timer /\ ready' = ready /\ running' = running
  BY DEF queueVars
<1>2. QueueTypeOK'
  BY <1>1 DEF TypeOK, QueueTypeOK
<1>3. Expired(now) => Expired(now)'
  BY <1>1 DEF Expired, TypeOK, QueueTypeOK, NoTimer
<1>4. QED
  BY <1>1, <1>2, <1>3 DEF TimerServesHead

\* The end of the process.
LEMMA LeaveKeepsTimer ==
  ASSUME Leave
  PROVE  QueueTypeOK' /\ TimerServesHead'
<1>1. samples' \in Seq([id : Nat, ptime : Nat, tspec : Nat])
  BY EmptySeq DEF Leave
<1>2. QueueTypeOK'
  BY <1>1 DEF Leave, QueueTypeOK
<1>3. TimerServesHead'
  BY DEF Leave, TimerServesHead
<1>4. QED
  BY <1>2, <1>3

\* Holding a PDU back, or letting the second overtake it, leaves PDUs.
LEMMA HeldType ==
  ASSUME NEW s \in Seq(Pdu), s # <<>>
  PROVE  [s EXCEPT ![1].due = s[1].ptime + Delay] \in Seq(Pdu)
<1> DEFINE e == [s[1] EXCEPT !.due = s[1].ptime + Delay]
           t == [s EXCEPT ![1] = e]
<1>1. Len(s) \in Nat \ {0} /\ DOMAIN s = 1 .. Len(s)
  BY LenProperties, EmptySeq
<1>2. s[1] \in Pdu
  BY <1>1, ElementOfSeq
<1>3. e \in Pdu
  <2>1. s[1].ptime \in Nat
    BY <1>2 DEF Pdu
  <2>2. s[1].ptime + Delay \in Nat
    BY <2>1, Constants
  <2>3. QED
    BY <1>2, <2>2 DEF Pdu
<1>4. t \in Seq(Pdu)
  <2> HIDE DEF e
  <2>1. 1 \in 1 .. Len(s)
    BY <1>1
  <2>2. QED
    BY <1>3, <2>1, ExceptSeq
<1>5. QED
  BY <1>4

LEMMA OvertakenType ==
  ASSUME NEW S, NEW s \in Seq(S), Len(s) > 1
  PROVE  s[2] \in S /\ <<s[1]>> \o SubSeq(s, 3, Len(s)) \in Seq(S)
<1>1. Len(s) \in Nat
  BY LenProperties
<1>2. s[1] \in S /\ s[2] \in S /\ \A i \in 3 .. Len(s) : s[i] \in S
  BY <1>1, ElementOfSeq
<1>3. SubSeq(s, 3, Len(s)) \in Seq(S)
  BY <1>1, <1>2, SubSeqProperties
<1>4. <<s[1]>> \in Seq(S)
  BY <1>2
<1>5. QED
  BY <1>2, <1>3, <1>4, ConcatProperties

\* What every step does to the queue, its timer and the types.
LEMMA TypeStep ==
  ASSUME TypeOK, TimerServesHead, [Next]_vars
  PROVE  TypeOK' /\ TimerServesHead'
<1> USE Constants
<1>1. CASE Tick
  <2>1. now' = now + 1 /\ UNCHANGED <<queueVars, sent, net, socket, faults, presented, slip>>
    BY <1>1 DEF Tick
  <2>2. now' \in Nat /\ now <= now'
    BY <2>1 DEF TypeOK
  <2>3. QueueTypeOK' /\ TimerServesHead'
    BY <2>1, <2>2, QueueKept
  <2>4. QED
    BY <2>1, <2>2, <2>3 DEF TypeOK
<1>2. CASE Send
  <2> DEFINE pdu == [kind      |-> "sample",
                     id        |-> sent,
                     ptime     |-> now + TransitTime,
                     avtp_time |-> ToAvtpTime(now + TransitTime),
                     due       |-> now + TransitTime]
  <2>1. pdu \in Pdu
    <3>1. sent \in Nat /\ now + TransitTime \in Nat
      BY DEF TypeOK
    <3>2. ToAvtpTime(now + TransitTime) \in 0 .. Wrap - 1
      BY <3>1, AvtpTimeType
    <3>3. QED
      BY <3>1, <3>2 DEF Pdu
  <2>2. /\ net' = Append(net, pdu) /\ sent < MaxSends /\ sent' = sent + 1
        /\ UNCHANGED <<queueVars, now, socket, faults, presented, slip>>
    BY <1>2 DEF Send
  <2> HIDE DEF pdu
  <2>3. net' \in Seq(Pdu)
    BY <2>1, <2>2, AppendProperties DEF TypeOK
  <2>4. QueueTypeOK' /\ TimerServesHead'
    BY <2>2, QueueKept DEF TypeOK
  <2>5. sent' \in 0 .. MaxSends
    BY <2>2 DEF TypeOK
  <2>6. QED
    BY <2>2, <2>3, <2>4, <2>5 DEF TypeOK
<1>3. CASE Arrive
  <2>1. /\ net # <<>> /\ socket' = Append(socket, Head(net)) /\ net' = Tail(net)
        /\ UNCHANGED <<queueVars, now, sent, faults, presented, slip>>
    BY <1>3 DEF Arrive
  <2>2. Head(net) \in Pdu /\ net' \in Seq(Pdu)
    BY <2>1, TakeType DEF TypeOK
  <2>3. socket' \in Seq(Pdu)
    BY <2>1, <2>2, AppendProperties DEF TypeOK
  <2>4. QueueTypeOK' /\ TimerServesHead'
    BY <2>1, QueueKept DEF TypeOK
  <2>5. QED
    BY <2>1, <2>2, <2>3, <2>4 DEF TypeOK
<1>4. CASE PollReturns
  <2>1. QueueTypeOK' /\ TimerServesHead'
    BY <1>4, PollKeepsTimer DEF PollReturns
  <2>2. QED
    BY <1>4, <2>1 DEF PollReturns, TypeOK
<1>5. CASE Receive
  <2>1. /\ socket # <<>> /\ socket' = Tail(socket)
        /\ UNCHANGED <<now, sent, net, faults, presented, slip>>
    BY <1>5 DEF Receive
  <2>2. Head(socket) \in Pdu /\ socket' \in Seq(Pdu)
    BY <2>1, TakeType DEF TypeOK
  <2>3. QueueTypeOK' /\ TimerServesHead'
    <3>1. CASE NewPacket(Head(socket), now)
      BY <2>1, <2>2, <3>1, NewPacketKeepsTimer
    <3>2. CASE DropPacket
      <4>1. ready' \subseteq ready /\ UNCHANGED <<running, samples, timer>> /\ now' = now
        BY <2>1, <3>2 DEF DropPacket
      <4>2. QueueTypeOK'
        BY <4>1 DEF TypeOK, QueueTypeOK
      <4>3. Expired(now) => Expired(now)'
        BY <4>1 DEF Expired
      <4>4. QED
        BY <4>1, <4>2, <4>3 DEF TimerServesHead
    <3>3. CASE Leave
      BY <3>3, LeaveKeepsTimer
    <3>4. QED
      BY <1>5, <3>1, <3>2, <3>3 DEF Receive
  <2>4. QED
    BY <2>1, <2>2, <2>3 DEF TypeOK
<1>6. CASE Play
  <2>1. /\ Timeout /\ presented' = Head(samples).id
        /\ slip' = now - Head(samples).ptime
        /\ UNCHANGED <<now, sent, net, socket, faults>>
    BY <1>6 DEF Play
  <2>2. QueueTypeOK' /\ TimerServesHead' /\ Head(samples) \in Sample
    BY <2>1, TimeoutKeepsTimer
  <2>3. presented' \in Nat /\ slip' \in Int
    BY <2>1, <2>2 DEF TypeOK, Sample
  <2>4. QED
    BY <2>1, <2>2, <2>3 DEF TypeOK
<1>7. CASE PlayFails
  <2>1. Leave /\ faults' = faults + 1 /\ faults < MaxFaults
        /\ UNCHANGED <<now, sent, net, socket, presented, slip>>
    BY <1>7 DEF PlayFails, Fault
  <2>2. QED
    BY <2>1, LeaveKeepsTimer DEF TypeOK
<1>8. CASE Lose
  <2>1. /\ net # <<>> /\ net' = Tail(net) /\ faults' = faults + 1 /\ faults < MaxFaults
        /\ UNCHANGED <<queueVars, now, sent, socket, presented, slip>>
    BY <1>8 DEF Lose, Fault
  <2>2. net' \in Seq(Pdu)
    BY <2>1, TakeType DEF TypeOK
  <2>3. QueueTypeOK' /\ TimerServesHead'
    BY <2>1, QueueKept DEF TypeOK
  <2>4. QED
    BY <2>1, <2>2, <2>3 DEF TypeOK
<1>9. CASE Hold
  <2>1. /\ net # <<>> /\ net' = [net EXCEPT ![1].due = net[1].ptime + Delay]
        /\ faults' = faults + 1 /\ faults < MaxFaults
        /\ UNCHANGED <<queueVars, now, sent, socket, presented, slip>>
    BY <1>9 DEF Hold, Fault
  <2>2. net' \in Seq(Pdu)
    BY <2>1, HeldType DEF TypeOK
  <2>3. QueueTypeOK' /\ TimerServesHead'
    BY <2>1, QueueKept DEF TypeOK
  <2>4. faults' \in 0 .. MaxFaults
    <3>1. faults' = faults + 1 /\ faults < MaxFaults /\ faults \in 0 .. MaxFaults
      BY <2>1 DEF TypeOK
    <3>2. QED
      BY <3>1
  <2>5. now' \in Nat /\ sent' \in 0 .. MaxSends /\ socket' \in Seq(Pdu)
        /\ presented' \in Nat \cup {-1} /\ slip' \in Int
    BY <2>1 DEF TypeOK
  <2>6. QED
    BY <2>2, <2>3, <2>4, <2>5 DEF TypeOK
<1>10. CASE Overtake
  <2>1. /\ Len(net) > 1 /\ socket' = Append(socket, net[2])
        /\ net' = <<net[1]>> \o SubSeq(net, 3, Len(net))
        /\ faults' = faults + 1 /\ faults < MaxFaults
        /\ UNCHANGED <<queueVars, now, sent, presented, slip>>
    BY <1>10 DEF Overtake, Fault
  <2>2. net[2] \in Pdu /\ net' \in Seq(Pdu)
    BY <2>1, OvertakenType DEF TypeOK
  <2>3. socket' \in Seq(Pdu)
    BY <2>1, <2>2, AppendProperties DEF TypeOK
  <2>4. QueueTypeOK' /\ TimerServesHead'
    BY <2>1, QueueKept DEF TypeOK
  <2>5. QED
    BY <2>1, <2>2, <2>3, <2>4 DEF TypeOK
<1>11. ASSUME NEW kind \in {"foreign", "short"}, Stray(kind)
       PROVE  TypeOK' /\ TimerServesHead'
  <2> DEFINE pdu == [kind |-> kind, id |-> sent, ptime |-> now,
                     avtp_time |-> 0, due |-> now + TransitTime]
  <2>1. pdu \in Pdu
    BY DEF Pdu, TypeOK
  <2>2. /\ socket' = Append(socket, pdu) /\ faults' = faults + 1 /\ faults < MaxFaults
        /\ UNCHANGED <<queueVars, now, sent, net, presented, slip>>
    BY <1>11 DEF Stray, Fault
  <2> HIDE DEF pdu
  <2>3. socket' \in Seq(Pdu)
    BY <2>1, <2>2, AppendProperties DEF TypeOK
  <2>4. QueueTypeOK' /\ TimerServesHead'
    BY <2>2, QueueKept DEF TypeOK
  <2>5. QED
    BY <2>2, <2>3, <2>4 DEF TypeOK
<1>12. CASE UNCHANGED vars
  <2>1. QueueTypeOK' /\ TimerServesHead'
    BY <1>12, QueueKept DEF vars, TypeOK
  <2>2. QED
    BY <1>12, <2>1 DEF vars, TypeOK
<1>13. QED
  BY <1>1, <1>2, <1>3, <1>4, <1>5, <1>6, <1>7, <1>8, <1>9, <1>10, <1>11, <1>12
     DEF Next, Finished

LEMMA TypeInit == Init => TypeOK /\ TimerServesHead
<1>1. SUFFICES ASSUME Init PROVE TypeOK /\ TimerServesHead
  OBVIOUS
<1>2. /\ samples \in Seq([id : Nat, ptime : Nat, tspec : Nat])
      /\ net \in Seq(Pdu) /\ socket \in Seq(Pdu)
  BY <1>1, EmptySeq DEF Init, QueueInit
<1>3. QED
  BY <1>1, <1>2, Constants DEF Init, QueueInit, TypeOK, QueueTypeOK, TimerServesHead

\* Every variable has its type, whatever goes wrong.
THEOREM TypeCorrect == Spec => []TypeOK
BY TypeInit, TypeStep, PTL DEF Spec

\* timeout() always finds an expired timer and the sample it was armed for, as
\* its two assertions demand.
THEOREM TimerAlwaysServesHead == Spec => []TimerServesHead
BY TypeInit, TypeStep, PTL DEF Spec

-----------------------------------------------------------------------------
\* No sample is early.

\* A timestamp that can be told from those a wrap away.
Distinguishable == TransitTime < Wrap

\* PDUs that carry what the talker wrote, and samples scheduled no earlier than
\* the talker's time for them.
Genuine ==
  {p \in Pdu : p.kind = "sample" => /\ p.avtp_time = ToAvtpTime(p.ptime)
                                    /\ p.ptime <= now + TransitTime}

NotBefore == {s \in Sample : s.ptime <= s.tspec}

NoneEarly ==
  /\ net \in Seq(Genuine)
  /\ socket \in Seq(Genuine)
  /\ samples \in Seq(NotBefore)
  /\ slip >= 0

\* A sequence is one over every set that holds its elements.
LEMMA SeqOver ==
  ASSUME NEW S, NEW T, NEW s \in Seq(S), \A i \in 1 .. Len(s) : s[i] \in T
  PROVE  s \in Seq(T)
OBVIOUS

\* The passage of time makes no PDU less genuine.
LEMMA GenuineKept ==
  ASSUME NEW s \in Seq(Genuine), now \in Nat, now' \in Nat, now <= now'
  PROVE  s \in Seq(Genuine')
<1>1. Genuine \subseteq Genuine'
  BY Constants DEF Genuine, Pdu
<1>2. \A i \in 1 .. Len(s) : s[i] \in Genuine'
  BY <1>1, ElementOfSeq
<1>3. QED
  BY <1>2, SeqOver

LEMMA EarlyStep ==
  ASSUME Distinguishable, TypeOK, TimerServesHead, NoneEarly, [Next]_vars
  PROVE  NoneEarly'
<1> USE Constants
<1>1. now' \in Nat /\ now <= now'
  BY DEF Next, vars, Tick, Send, Arrive, PollReturns, Receive, Play, PlayFails,
         Lose, Hold, Overtake, Stray, Finished, TypeOK
<1>2. \A s \in Seq(Genuine) : s \in Seq(Genuine')
  BY <1>1, GenuineKept DEF TypeOK
<1>3. NotBefore' = NotBefore
  BY DEF NotBefore, Sample
<1>4. CASE Tick
  <2>1. UNCHANGED <<queueVars, net, socket, slip>>
    BY <1>4 DEF Tick
  <2>2. QED
    BY <1>2, <1>3, <2>1 DEF NoneEarly, queueVars
<1>5. CASE Send
  <2> DEFINE pdu == [kind      |-> "sample",
                     id        |-> sent,
                     ptime     |-> now + TransitTime,
                     avtp_time |-> ToAvtpTime(now + TransitTime),
                     due       |-> now + TransitTime]
  <2>1. pdu \in Genuine
    <3>1. sent \in Nat /\ now + TransitTime \in Nat
      BY DEF TypeOK
    <3>2. ToAvtpTime(now + TransitTime) \in 0 .. Wrap - 1
      BY <3>1, AvtpTimeType
    <3>3. QED
      BY <3>1, <3>2 DEF Genuine, Pdu
  <2>2. net' = Append(net, pdu) /\ UNCHANGED <<queueVars, socket, slip>>
    BY <1>5 DEF Send
  <2> HIDE DEF pdu
  <2>3. net' \in Seq(Genuine)
    BY <2>1, <2>2, AppendProperties DEF NoneEarly
  <2>4. QED
    BY <1>2, <1>3, <2>2, <2>3 DEF NoneEarly, queueVars
<1>6. CASE Arrive
  <2>1. /\ net # <<>> /\ socket' = Append(socket, Head(net)) /\ net' = Tail(net)
        /\ UNCHANGED <<queueVars, slip>>
    BY <1>6 DEF Arrive
  <2>2. Head(net) \in Genuine /\ net' \in Seq(Genuine)
    BY <2>1, TakeType DEF NoneEarly
  <2>3. socket' \in Seq(Genuine)
    BY <2>1, <2>2, AppendProperties DEF NoneEarly
  <2>4. QED
    BY <1>2, <1>3, <2>1, <2>2, <2>3 DEF NoneEarly, queueVars
<1>7. CASE PollReturns
  <2>1. UNCHANGED <<samples, net, socket, slip>>
    BY <1>7 DEF PollReturns, Poll
  <2>2. QED
    BY <1>2, <1>3, <2>1 DEF NoneEarly
<1>8. CASE Receive
  <2> DEFINE pdu == Head(socket)
             e == [id    |-> pdu.id,
                   ptime |-> pdu.ptime,
                   tspec |-> PresentationTime(pdu.avtp_time, now)]
  <2>1. /\ socket # <<>> /\ socket' = Tail(socket)
        /\ UNCHANGED <<now, net, slip>>
    BY <1>8 DEF Receive
  <2>2. pdu \in Genuine /\ socket' \in Seq(Genuine)
    BY <2>1, TakeType DEF NoneEarly
  <2>3. \/ pdu.kind = "sample" /\ samples' = Append(samples, e)
        \/ samples' = samples
        \/ samples' = <<>>
    BY <1>8 DEF Receive, NewPacket, ScheduleSample, DropPacket, Leave
  <2>4. samples' \in Seq(NotBefore)
    <3>1. CASE pdu.kind = "sample" /\ samples' = Append(samples, e)
      <4> HIDE DEF pdu
      <4>1. /\ pdu.id \in Nat /\ pdu.ptime \in Nat
            /\ pdu.avtp_time = ToAvtpTime(pdu.ptime)
            /\ pdu.ptime < now + Wrap
        BY <2>2, <3>1 DEF Genuine, Pdu, TypeOK, Distinguishable
      <4>2. /\ PresentationTime(pdu.avtp_time, now) \in Nat
            /\ pdu.ptime <= PresentationTime(pdu.avtp_time, now)
        BY <4>1, AvtpTimeType, PresentationTimeBounds, PresentationTimeNotEarlier
           DEF TypeOK
      <4>3. e \in NotBefore
        BY <4>1, <4>2 DEF NotBefore, Sample
      <4> HIDE DEF e
      <4>4. QED
        BY <3>1, <4>3, AppendProperties DEF NoneEarly
    <3>2. CASE samples' = <<>>
      BY <3>2, EmptySeq
    <3>3. QED
      BY <2>3, <3>1, <3>2 DEF NoneEarly
  <2>5. QED
    BY <1>2, <1>3, <2>1, <2>2, <2>4 DEF NoneEarly
<1>9. CASE Play
  <2>1. /\ Timeout /\ samples' = Tail(samples)
        /\ slip' = now - Head(samples).ptime
        /\ UNCHANGED <<now, net, socket>>
    BY <1>9 DEF Play, Timeout
  <2>2. samples # <<>> /\ timer = Head(samples).tspec /\ timer <= now
    BY <2>1, TimeoutKeepsTimer
  <2>3. Head(samples) \in NotBefore /\ samples' \in Seq(NotBefore)
    BY <2>1, <2>2, TakeType DEF NoneEarly
  <2>4. slip' >= 0
    BY <2>1, <2>2, <2>3 DEF NotBefore, Sample, TypeOK
  <2>5. QED
    BY <1>2, <1>3, <2>1, <2>3, <2>4 DEF NoneEarly
<1>10. CASE PlayFails
  <2>1. samples' = <<>> /\ UNCHANGED <<net, socket, slip>>
    BY <1>10 DEF PlayFails, Leave
  <2>2. samples' \in Seq(NotBefore)
    BY <2>1, EmptySeq
  <2>3. QED
    BY <1>2, <1>3, <2>1, <2>2 DEF NoneEarly
<1>11. CASE Lose
  <2>1. net # <<>> /\ net' = Tail(net) /\ UNCHANGED <<queueVars, socket, slip>>
    BY <1>11 DEF Lose
  <2>2. net' \in Seq(Genuine)
    BY <2>1, TakeType DEF NoneEarly
  <2>3. QED
    BY <1>2, <1>3, <2>1, <2>2 DEF NoneEarly, queueVars
<1>12. CASE Hold
  <2> DEFINE e == [net[1] EXCEPT !.due = net[1].ptime + Delay]
  <2>1. /\ net # <<>> /\ net' = [net EXCEPT ![1] = e]
        /\ UNCHANGED <<queueVars, socket, slip>>
    BY <1>12 DEF Hold
  <2>2. 1 \in 1 .. Len(net)
    BY <2>1, EmptySeq DEF NoneEarly
  <2>3. net[1] \in Genuine
    BY <2>2, ElementOfSeq DEF NoneEarly
  <2>4. e \in Genuine
    <3>1. net[1].ptime + Delay \in Nat
      BY <2>3 DEF Genuine, Pdu
    <3>2. QED
      BY <2>3, <3>1 DEF Genuine, Pdu
  <2> HIDE DEF e
  <2>5. net' \in Seq(Genuine)
    BY <2>1, <2>2, <2>4, ExceptSeq DEF NoneEarly
  <2>6. QED
    BY <1>2, <1>3, <2>1, <2>5 DEF NoneEarly, queueVars
<1>13. CASE Overtake
  <2>1. /\ Len(net) > 1 /\ socket' = Append(socket, net[2])
        /\ net' = <<net[1]>> \o SubSeq(net, 3, Len(net))
        /\ UNCHANGED <<queueVars, slip>>
    BY <1>13 DEF Overtake
  <2>2. net[2] \in Genuine /\ net' \in Seq(Genuine)
    BY <2>1, OvertakenType DEF NoneEarly
  <2>3. socket' \in Seq(Genuine)
    BY <2>1, <2>2, AppendProperties DEF NoneEarly
  <2>4. QED
    BY <1>2, <1>3, <2>1, <2>2, <2>3 DEF NoneEarly, queueVars
<1>14. ASSUME NEW kind \in {"foreign", "short"}, Stray(kind)
       PROVE  NoneEarly'
  <2> DEFINE pdu == [kind |-> kind, id |-> sent, ptime |-> now,
                     avtp_time |-> 0, due |-> now + TransitTime]
  <2>1. pdu \in Genuine
    BY DEF Genuine, Pdu, TypeOK
  <2>2. socket' = Append(socket, pdu) /\ UNCHANGED <<queueVars, net, slip>>
    BY <1>14 DEF Stray
  <2> HIDE DEF pdu
  <2>3. socket' \in Seq(Genuine)
    BY <2>1, <2>2, AppendProperties DEF NoneEarly
  <2>4. QED
    BY <1>2, <1>3, <2>2, <2>3 DEF NoneEarly, queueVars
<1>15. CASE UNCHANGED vars
  BY <1>2, <1>3, <1>15 DEF NoneEarly, vars, queueVars
<1>16. QED
  BY <1>4, <1>5, <1>6, <1>7, <1>8, <1>9, <1>10, <1>11, <1>12, <1>13, <1>14, <1>15
     DEF Next, Finished

\* However late a PDU comes, and whatever overtakes it, its sample is not
\* presented before the talker's time for it.
THEOREM NoSampleEarly ==
  ASSUME Distinguishable
  PROVE  Spec => []NeverEarly
<1>1. Init => NoneEarly
  <2>1. SUFFICES ASSUME Init PROVE NoneEarly
    OBVIOUS
  <2>2. samples \in Seq(NotBefore) /\ net \in Seq(Genuine) /\ socket \in Seq(Genuine)
    BY <2>1, EmptySeq DEF Init, QueueInit
  <2>3. QED
    BY <2>1, <2>2 DEF Init, NoneEarly
<1>2. TypeOK /\ TimerServesHead /\ NoneEarly /\ [Next]_vars => NoneEarly'
  BY EarlyStep
<1>3. NoneEarly => NeverEarly
  BY DEF NoneEarly, NeverEarly
<1>4. QED
  BY <1>1, <1>2, <1>3, TypeCorrect, TimerAlwaysServesHead, PTL DEF Spec

-----------------------------------------------------------------------------
(***************************************************************************)
(* An audio stream over a network that keeps its order and its promise on  *)
(* transit time, and loses what it likes, implements the delay line of     *)
(* DelayLine: for every transit time below a wrap of the timestamp.        *)
(***************************************************************************)

\* The scope of the theorem.
OnlyLosses == FaultKinds \subseteq {"loss"}

\* What is on its way, and neither presented nor taken later than the present.
DuePdu ==
  {p \in Pdu : /\ p.kind = "sample"
               /\ p.avtp_time = ToAvtpTime(p.ptime)
               /\ p.due = p.ptime
               /\ now <= p.ptime
               /\ p.ptime <= now + TransitTime
               /\ presented < p.id
               /\ p.id < sent}

\* The same of a sample in the listener's queue, which has its right time.
DueSample ==
  {s \in Sample : /\ s.tspec = s.ptime
                  /\ now <= s.ptime + MaxLate
                  /\ s.ptime <= now + TransitTime
                  /\ presented < s.id
                  /\ s.id < sent}

\* One sample was taken before another.
Before(a, b) == a.id < b.id /\ a.ptime <= b.ptime

AllBefore(s, e) == \A i \in 1 .. Len(s) : Before(s[i], e)
AllAfter(e, s) == \A i \in 1 .. Len(s) : Before(e, s[i])

Sorted(s) == \A i, j \in 1 .. Len(s) : i < j => Before(s[i], s[j])

Precede(s, t) == \A i \in 1 .. Len(s), j \in 1 .. Len(t) : Before(s[i], t[j])

\* The queue, the socket and the network hold what is due, in order.
LineInv ==
  /\ running = TRUE
  /\ presented < sent
  /\ samples \in Seq(DueSample)
  /\ socket \in Seq(DuePdu)
  /\ net \in Seq(DuePdu)
  /\ Sorted(samples) /\ Sorted(socket) /\ Sorted(net)
  /\ Precede(samples, socket) /\ Precede(samples, net) /\ Precede(socket, net)

-----------------------------------------------------------------------------
\* Order, over the operations on queues.

LEMMA SortedAppend ==
  ASSUME NEW S, NEW s \in Seq(S), NEW e \in S, Sorted(s), AllBefore(s, e)
  PROVE  Sorted(Append(s, e))
<1>1. /\ Len(s) \in Nat
      /\ Len(Append(s, e)) = Len(s) + 1
      /\ \A i \in 1 .. Len(s) : Append(s, e)[i] = s[i]
      /\ Append(s, e)[Len(s) + 1] = e
  BY LenProperties, AppendProperties
<1>2. SUFFICES ASSUME NEW i \in 1 .. Len(s) + 1, NEW j \in 1 .. Len(s) + 1, i < j
               PROVE  Before(Append(s, e)[i], Append(s, e)[j])
  BY <1>1 DEF Sorted
<1>3. i \in 1 .. Len(s)
  BY <1>1, <1>2
<1>4. CASE j \in 1 .. Len(s)
  BY <1>1, <1>2, <1>3, <1>4 DEF Sorted
<1>5. CASE j = Len(s) + 1
  BY <1>1, <1>3, <1>5 DEF AllBefore
<1>6. QED
  BY <1>1, <1>4, <1>5

LEMMA SortedTail ==
  ASSUME NEW S, NEW s \in Seq(S), s # <<>>, Sorted(s)
  PROVE  /\ Sorted(Tail(s))
         /\ AllAfter(Head(s), Tail(s))
<1>1. /\ Len(s) \in Nat \ {0}
      /\ Len(Tail(s)) = Len(s) - 1
      /\ \A i \in 1 .. Len(Tail(s)) : Tail(s)[i] = s[i + 1]
      /\ Head(s) = s[1]
  BY EmptySeq, HeadTailProperties
<1>2. ASSUME NEW i \in 1 .. Len(s) - 1, NEW j \in 1 .. Len(s) - 1, i < j
      PROVE  Before(s[i + 1], s[j + 1])
  BY <1>1, <1>2 DEF Sorted
<1>3. ASSUME NEW i \in 1 .. Len(s) - 1
      PROVE  Before(s[1], s[i + 1])
  BY <1>1 DEF Sorted
<1>4. QED
  BY <1>1, <1>2, <1>3 DEF Sorted, AllAfter

LEMMA PrecedeAppend ==
  ASSUME NEW S, NEW s \in Seq(S), NEW T, NEW t \in Seq(T), Precede(s, t)
  PROVE  /\ \A e \in T : AllBefore(s, e) => Precede(s, Append(t, e))
         /\ \A e \in S : AllAfter(e, t) => Precede(Append(s, e), t)
<1>1. ASSUME NEW e \in T, AllBefore(s, e)
      PROVE  Precede(s, Append(t, e))
  <2>1. /\ Len(t) \in Nat
        /\ Len(Append(t, e)) = Len(t) + 1
        /\ \A i \in 1 .. Len(t) : Append(t, e)[i] = t[i]
        /\ Append(t, e)[Len(t) + 1] = e
    BY LenProperties, AppendProperties
  <2>2. QED
    BY <1>1, <2>1 DEF Precede, AllBefore
<1>2. ASSUME NEW e \in S, AllAfter(e, t)
      PROVE  Precede(Append(s, e), t)
  <2>1. /\ Len(s) \in Nat
        /\ Len(Append(s, e)) = Len(s) + 1
        /\ \A i \in 1 .. Len(s) : Append(s, e)[i] = s[i]
        /\ Append(s, e)[Len(s) + 1] = e
    BY LenProperties, AppendProperties
  <2>2. QED
    BY <1>2, <2>1 DEF Precede, AllAfter
<1>3. QED
  BY <1>1, <1>2

LEMMA PrecedeTail ==
  ASSUME NEW S, NEW s \in Seq(S), NEW T, NEW t \in Seq(T), Precede(s, t)
  PROVE  /\ t # <<>> => Precede(s, Tail(t)) /\ AllBefore(s, Head(t))
         /\ s # <<>> => Precede(Tail(s), t) /\ AllAfter(Head(s), t)
<1>1. ASSUME t # <<>>
      PROVE  Precede(s, Tail(t)) /\ AllBefore(s, Head(t))
  <2>1. /\ Len(t) \in Nat \ {0}
        /\ Len(Tail(t)) = Len(t) - 1
        /\ \A i \in 1 .. Len(Tail(t)) : Tail(t)[i] = t[i + 1]
        /\ Head(t) = t[1]
    BY <1>1, EmptySeq, HeadTailProperties
  <2>2. QED
    BY <2>1 DEF Precede, AllBefore
<1>2. ASSUME s # <<>>
      PROVE  Precede(Tail(s), t) /\ AllAfter(Head(s), t)
  <2>1. /\ Len(s) \in Nat \ {0}
        /\ Len(Tail(s)) = Len(s) - 1
        /\ \A i \in 1 .. Len(Tail(s)) : Tail(s)[i] = s[i + 1]
        /\ Head(s) = s[1]
    BY <1>2, EmptySeq, HeadTailProperties
  <2>2. QED
    BY <2>1 DEF Precede, AllAfter
<1>3. QED
  BY <1>1, <1>2

\* Nothing is out of order in an empty queue.
LEMMA EmptyInOrder ==
  ASSUME NEW s
  PROVE  Sorted(<<>>) /\ Precede(<<>>, s) /\ Precede(s, <<>>)
BY DEF Sorted, Precede

-----------------------------------------------------------------------------
\* Stamps, over the operations on queues.

LEMMA StampsAppend ==
  ASSUME NEW S, NEW s \in Seq(S), NEW e \in S
  PROVE  Stamps(Append(s, e)) = Stamps(s) \cup {Stamp(e)}
<1>1. /\ Len(s) \in Nat
      /\ DOMAIN s = 1 .. Len(s)
      /\ DOMAIN Append(s, e) = 1 .. Len(s) + 1
      /\ \A i \in 1 .. Len(s) : Append(s, e)[i] = s[i]
      /\ Append(s, e)[Len(s) + 1] = e
  BY LenProperties, AppendProperties
<1>2. QED
  BY <1>1 DEF Stamps

LEMMA StampsTail ==
  ASSUME NEW S, NEW s \in Seq(S), s # <<>>
  PROVE  Stamps(s) = {Stamp(Head(s))} \cup Stamps(Tail(s))
<1>1. /\ Len(s) \in Nat \ {0}
      /\ DOMAIN s = 1 .. Len(s)
      /\ DOMAIN Tail(s) = 1 .. Len(s) - 1
      /\ \A i \in 1 .. Len(s) - 1 : Tail(s)[i] = s[i + 1]
      /\ Head(s) = s[1]
  BY EmptySeq, LenProperties, HeadTailProperties
<1>2. \A i \in 1 .. Len(s) : i = 1 \/ (i - 1 \in 1 .. Len(s) - 1 /\ s[i] = Tail(s)[i - 1])
  BY <1>1
<1>3. \A i \in 1 .. Len(s) - 1 : i + 1 \in 1 .. Len(s)
  BY <1>1
<1>4. ASSUME NEW x \in Stamps(s)
      PROVE  x \in {Stamp(Head(s))} \cup Stamps(Tail(s))
  <2>1. PICK i \in 1 .. Len(s) : x = Stamp(s[i])
    BY <1>1 DEF Stamps
  <2>2. CASE i = 1
    BY <1>1, <2>1, <2>2
  <2>3. CASE i # 1
    BY <1>1, <1>2, <2>1, <2>3 DEF Stamps
  <2>4. QED
    BY <2>2, <2>3
<1>5. ASSUME NEW x \in {Stamp(Head(s))} \cup Stamps(Tail(s))
      PROVE  x \in Stamps(s)
  <2>1. CASE x = Stamp(Head(s))
    BY <1>1, <2>1 DEF Stamps
  <2>2. CASE x \in Stamps(Tail(s))
    <3>1. PICK i \in 1 .. Len(s) - 1 : x = Stamp(Tail(s)[i])
      BY <1>1, <2>2 DEF Stamps
    <3>2. x = Stamp(s[i + 1])
      BY <1>1, <3>1
    <3>3. QED
      BY <1>1, <1>3, <3>2 DEF Stamps
  <2>3. QED
    BY <2>1, <2>2
<1>6. QED
  BY <1>4, <1>5

LEMMA StampsEmpty == Stamps(<<>>) = {}
BY DEF Stamps

\* A sample that comes before all of a queue, or after, is not in it.
LEMMA NotAmong ==
  ASSUME NEW S, NEW s \in Seq(S), NEW e, e.id \in Int,
         \A i \in 1 .. Len(s) : s[i].id \in Int,
         AllAfter(e, s) \/ AllBefore(s, e)
  PROVE  Stamp(e) \notin Stamps(s)
<1>1. DOMAIN s = 1 .. Len(s)
  BY LenProperties
<1>2. \A i \in 1 .. Len(s) : s[i].id # e.id
  BY DEF AllAfter, AllBefore, Before
<1>3. \A i \in 1 .. Len(s) : Stamp(s[i]) # Stamp(e)
  BY <1>2 DEF Stamp
<1>4. QED
  BY <1>1, <1>3 DEF Stamps

-----------------------------------------------------------------------------
\* The steps.

\* What the invariant says of the elements, in a form the provers can use.
LEMMA LineTypes ==
  ASSUME TypeOK, LineInv
  PROVE  /\ \A i \in 1 .. Len(samples) : samples[i] \in DueSample
         /\ \A i \in 1 .. Len(socket) : socket[i] \in DuePdu
         /\ \A i \in 1 .. Len(net) : net[i] \in DuePdu
         /\ \A p \in DuePdu : p.id \in Nat /\ p.ptime \in Nat
         /\ \A s \in DueSample : s.id \in Nat /\ s.ptime \in Nat
BY ElementOfSeq DEF LineInv, DuePdu, DueSample, Pdu, Sample

\* What is due stays so until its time, or until it is presented.
LEMMA DuePduKept ==
  ASSUME TypeOK, NEW p \in DuePdu,
         now' \in Nat, now <= now', now' <= p.ptime, presented' < p.id, p.id < sent'
  PROVE  p \in DuePdu'
<1>1. /\ p \in Pdu /\ p.kind = "sample" /\ p.due = p.ptime
      /\ p.avtp_time = ToAvtpTime(p.ptime)
  BY DEF DuePdu
<1>2. p.ptime \in Nat /\ p.ptime <= now + TransitTime
  BY DEF DuePdu, Pdu
<1>3. p.ptime <= now' + TransitTime
  BY <1>2, Constants DEF TypeOK
<1>4. QED
  BY <1>1, <1>3 DEF DuePdu

LEMMA DueSampleKept ==
  ASSUME TypeOK, NEW s \in DueSample,
         now' \in Nat, now <= now', now' <= s.ptime + MaxLate,
         presented' < s.id, s.id < sent'
  PROVE  s \in DueSample'
<1>1. s \in Sample /\ s.tspec = s.ptime
  BY DEF DueSample
<1>2. s.ptime \in Nat /\ s.ptime <= now + TransitTime
  BY DEF DueSample, Sample
<1>3. s.ptime <= now' + TransitTime
  BY <1>2, Constants DEF TypeOK
<1>4. QED
  BY <1>1, <1>3 DEF DueSample

\* Time passes: nothing is overdue, because nobody is late.
LEMMA LineTick ==
  ASSUME TypeOK, TimerServesHead, LineInv, Tick
  PROVE  LineInv' /\ Line!Tick
<1> USE Constants
<1>1. /\ OnTime /\ now' = now + 1
      /\ UNCHANGED <<queueVars, sent, net, socket, faults, presented, slip>>
  BY DEF Tick
<1>2. /\ running' = running /\ samples' = samples /\ timer' = timer
      /\ socket' = socket /\ net' = net /\ sent' = sent /\ presented' = presented
  BY <1>1 DEF queueVars
<1>3. /\ DOMAIN samples = 1 .. Len(samples) /\ Len(samples) \in Nat
      /\ DOMAIN socket = 1 .. Len(socket)
      /\ DOMAIN net = 1 .. Len(net)
  BY LenProperties DEF LineInv
<1>4. \A i \in 1 .. Len(net) : now < net[i].ptime
  BY <1>1, <1>3, LineTypes DEF OnTime, DuePdu
<1>5. \A i \in 1 .. Len(socket) : now < socket[i].ptime
  BY <1>1, <1>3, LineTypes DEF OnTime, DuePdu, LineInv
<1>6. \A i \in 1 .. Len(samples) : now < samples[i].ptime + MaxLate
  <2>1. SUFFICES ASSUME NEW i \in 1 .. Len(samples)
                 PROVE  now < samples[i].ptime + MaxLate
    OBVIOUS
  <2>2. samples # <<>> /\ 1 \in 1 .. Len(samples) /\ Head(samples) = samples[1]
    BY <1>3, <2>1, NotEmpty DEF LineInv
  <2>3. samples[1] \in DueSample /\ samples[i] \in DueSample
    BY <2>2, LineTypes
  <2>4. timer = samples[1].ptime /\ timer # NoTimer
    BY <2>2, <2>3 DEF TimerServesHead, DueSample, Sample, NoTimer
  <2>5. now < samples[1].ptime + MaxLate
    BY <1>1, <2>4 DEF OnTime, LineInv
  <2>6. samples[1].ptime <= samples[i].ptime
    <3>1. CASE i = 1
      BY <2>3, <3>1 DEF DueSample, Sample
    <3>2. CASE i # 1
      BY <2>2, <3>2 DEF LineInv, Sorted, Before
    <3>3. QED
      BY <3>1, <3>2
  <2>7. now \in Nat /\ samples[1].ptime \in Nat /\ samples[i].ptime \in Nat
    BY <2>3 DEF DueSample, Sample, TypeOK
  <2>8. QED
    BY <2>5, <2>6, <2>7
<1>7. net \in Seq(DuePdu')
  <2>1. \A i \in 1 .. Len(net) : net[i] \in DuePdu'
    <3>1. SUFFICES ASSUME NEW i \in 1 .. Len(net) PROVE net[i] \in DuePdu'
      OBVIOUS
    <3>2. net[i] \in DuePdu /\ now < net[i].ptime
      BY <1>4, LineTypes
    <3>3. /\ now' \in Nat /\ now <= now' /\ now' <= net[i].ptime
          /\ presented' < net[i].id /\ net[i].id < sent'
      BY <1>1, <1>2, <3>2 DEF DuePdu, Pdu, TypeOK
    <3>4. QED
      BY <3>2, <3>3, DuePduKept
  <2>2. QED
    BY <2>1, SeqOver DEF LineInv
<1>8. socket \in Seq(DuePdu')
  <2>1. \A i \in 1 .. Len(socket) : socket[i] \in DuePdu'
    <3>1. SUFFICES ASSUME NEW i \in 1 .. Len(socket) PROVE socket[i] \in DuePdu'
      OBVIOUS
    <3>2. socket[i] \in DuePdu /\ now < socket[i].ptime
      BY <1>5, LineTypes
    <3>3. /\ now' \in Nat /\ now <= now' /\ now' <= socket[i].ptime
          /\ presented' < socket[i].id /\ socket[i].id < sent'
      BY <1>1, <1>2, <3>2 DEF DuePdu, Pdu, TypeOK
    <3>4. QED
      BY <3>2, <3>3, DuePduKept
  <2>2. QED
    BY <2>1, SeqOver DEF LineInv
<1>9. samples \in Seq(DueSample')
  <2>1. \A i \in 1 .. Len(samples) : samples[i] \in DueSample'
    BY <1>2, <1>1, <1>6, LineTypes DEF DueSample, Sample, TypeOK
  <2>2. QED
    BY <2>1, SeqOver DEF LineInv
<1>10. LineInv'
  BY <1>2, <1>7, <1>8, <1>9 DEF LineInv, Sorted, Precede, Before
<1>11. \A s \in Pending : now < s.ptime + MaxLate
  <2>1. \A s \in Stamps(samples) : now < s.ptime + MaxLate
    BY <1>3, <1>6 DEF Stamps, Stamp
  <2>2. \A s \in Stamps(socket) : now < s.ptime + MaxLate
    BY <1>3, <1>5, LineTypes DEF Stamps, Stamp, TypeOK
  <2>3. \A s \in Stamps(net) : now < s.ptime + MaxLate
    BY <1>3, <1>4, LineTypes DEF Stamps, Stamp, TypeOK
  <2>4. QED
    BY <2>1, <2>2, <2>3 DEF Pending
<1>12. Pending' = Pending
  BY <1>2 DEF Pending, Stamps
<1>13. QED
  BY <1>1, <1>2, <1>10, <1>11, <1>12 DEF Line!Tick

\* As long as the clock and the ends of the line stand still, so does what is due.
LEMMA DueUnchanged ==
  ASSUME UNCHANGED <<now, sent, presented>>
  PROVE  DuePdu' = DuePdu /\ DueSample' = DueSample
BY DEF DuePdu, DueSample

\* A sample is taken: it comes after all the others.
LEMMA LineSend ==
  ASSUME TypeOK, LineInv, Send
  PROVE  LineInv' /\ Line!Take
<1> USE Constants
<1> DEFINE pdu == [kind      |-> "sample",
                   id        |-> sent,
                   ptime     |-> now + TransitTime,
                   avtp_time |-> ToAvtpTime(now + TransitTime),
                   due       |-> now + TransitTime]
<1>1. /\ net' = Append(net, pdu) /\ sent' = sent + 1
      /\ UNCHANGED <<queueVars, now, socket, faults, presented, slip>>
  BY DEF Send
<1>2. /\ running' = running /\ samples' = samples /\ socket' = socket
      /\ now' = now /\ presented' = presented
  BY <1>1 DEF queueVars
<1>3. now \in Nat /\ sent \in Nat /\ (presented \in Nat \/ presented = -1)
  BY DEF TypeOK
<1>4. pdu \in Pdu
  <2>1. ToAvtpTime(now + TransitTime) \in 0 .. Wrap - 1
    BY <1>3, AvtpTimeType
  <2>2. QED
    BY <1>3, <2>1 DEF Pdu
<1>5. pdu.id = sent /\ pdu.ptime = now + TransitTime
  OBVIOUS
<1>6. pdu.kind = "sample" /\ pdu.due = pdu.ptime /\ pdu.avtp_time = ToAvtpTime(pdu.ptime)
  OBVIOUS
<1> HIDE DEF pdu
<1>7. ASSUME NEW p \in DuePdu
      PROVE  p \in DuePdu' /\ Before(p, pdu)
  <2>1. /\ p.id \in Nat /\ p.ptime \in Nat /\ presented < p.id /\ p.id < sent
        /\ now <= p.ptime /\ p.ptime <= now + TransitTime
    BY DEF DuePdu, Pdu
  <2>2. /\ now' \in Nat /\ now <= now' /\ now' <= p.ptime
        /\ presented' < p.id /\ p.id < sent'
    BY <1>1, <1>2, <1>3, <2>1
  <2>3. p \in DuePdu'
    BY <2>2, DuePduKept
  <2>4. QED
    BY <1>5, <2>1, <2>3 DEF Before
<1>8. ASSUME NEW s \in DueSample
      PROVE  s \in DueSample' /\ Before(s, pdu)
  <2>1. /\ s.id \in Nat /\ s.ptime \in Nat /\ presented < s.id /\ s.id < sent
        /\ now <= s.ptime + MaxLate /\ s.ptime <= now + TransitTime
    BY DEF DueSample, Sample
  <2>2. /\ now' \in Nat /\ now <= now' /\ now' <= s.ptime + MaxLate
        /\ presented' < s.id /\ s.id < sent'
    BY <1>1, <1>2, <1>3, <2>1
  <2>3. s \in DueSample'
    BY <2>2, DueSampleKept
  <2>4. QED
    BY <1>5, <2>1, <2>3 DEF Before
<1>9. presented < sent
  BY DEF LineInv
<1>10. pdu \in DuePdu'
  <2>1. /\ now' <= pdu.ptime /\ pdu.ptime <= now' + TransitTime
        /\ presented' < pdu.id /\ pdu.id < sent'
    BY <1>1, <1>2, <1>3, <1>5, <1>9
  <2>2. QED
    BY <1>4, <1>6, <2>1 DEF DuePdu
<1>11. net \in Seq(DuePdu') /\ AllBefore(net, pdu)
  BY <1>7, LineTypes, SeqOver DEF LineInv, AllBefore
<1>12. socket \in Seq(DuePdu') /\ AllBefore(socket, pdu)
  BY <1>7, LineTypes, SeqOver DEF LineInv, AllBefore
<1>13. samples \in Seq(DueSample') /\ AllBefore(samples, pdu)
  BY <1>8, LineTypes, SeqOver DEF LineInv, AllBefore
<1>14. net' \in Seq(DuePdu') /\ Sorted(net')
  BY <1>1, <1>10, <1>11, AppendProperties, SortedAppend DEF LineInv
<1>15. Precede(samples, net') /\ Precede(socket, net')
  BY <1>1, <1>10, <1>11, <1>12, <1>13, PrecedeAppend DEF LineInv
<1>16. LineInv'
  <2>1. presented' < sent'
    BY <1>1, <1>2, <1>3, <1>9
  <2>2. QED
    BY <2>1, <1>2, <1>12, <1>13, <1>14, <1>15 DEF LineInv, Sorted, Precede
<1>17. Pending' = Pending \cup {[id |-> sent, ptime |-> now + TransitTime]}
  <2>1. Stamps(net') = Stamps(net) \cup {Stamp(pdu)}
    BY <1>1, <1>10, <1>11, StampsAppend
  <2>2. Stamp(pdu) = [id |-> sent, ptime |-> now + TransitTime]
    BY <1>5 DEF Stamp
  <2>3. Stamps(samples') = Stamps(samples) /\ Stamps(socket') = Stamps(socket)
    BY <1>2
  <2>4. Pending' = Stamps(samples') \cup Stamps(socket') \cup Stamps(net')
    BY DEF Pending, Stamps, Stamp
  <2>5. QED
    BY <2>1, <2>2, <2>3, <2>4 DEF Pending
<1>18. QED
  BY <1>1, <1>2, <1>16, <1>17 DEF Line!Take

\* A PDU moves from the network to the socket.
LEMMA LineArrive ==
  ASSUME TypeOK, LineInv, Arrive
  PROVE  LineInv' /\ UNCHANGED Line!vars
<1>1. /\ net # <<>> /\ socket' = Append(socket, Head(net)) /\ net' = Tail(net)
      /\ running' = running /\ samples' = samples
      /\ now' = now /\ sent' = sent /\ presented' = presented
  BY DEF Arrive, queueVars
<1>2. DuePdu' = DuePdu /\ DueSample' = DueSample
  BY <1>1, DueUnchanged
<1>3. Head(net) \in DuePdu /\ net' \in Seq(DuePdu)
  BY <1>1, TakeType DEF LineInv
<1>4. Sorted(net') /\ AllAfter(Head(net), net')
  BY <1>1, SortedTail DEF LineInv
<1>5. /\ Precede(samples, net') /\ AllBefore(samples, Head(net))
      /\ Precede(socket, net') /\ AllBefore(socket, Head(net))
  BY <1>1, PrecedeTail DEF LineInv
<1>6. socket' \in Seq(DuePdu) /\ Sorted(socket')
  BY <1>1, <1>3, <1>5, AppendProperties, SortedAppend DEF LineInv
<1>7. Precede(samples, socket') /\ Precede(socket', net')
  BY <1>1, <1>3, <1>4, <1>5, PrecedeAppend DEF LineInv
<1>8. LineInv'
  BY <1>1, <1>2, <1>3, <1>4, <1>5, <1>6, <1>7 DEF LineInv, Sorted, Precede
<1>9. Pending' = Pending
  <2>1. Stamps(socket') = Stamps(socket) \cup {Stamp(Head(net))}
    BY <1>1, <1>3, StampsAppend DEF LineInv
  <2>2. Stamps(net) = {Stamp(Head(net))} \cup Stamps(net')
    BY <1>1, StampsTail DEF LineInv
  <2>3. Pending' = Stamps(samples) \cup Stamps(socket') \cup Stamps(net')
    BY <1>1 DEF Pending, Stamps, Stamp
  <2>4. QED
    BY <2>1, <2>2, <2>3 DEF Pending
<1>10. QED
  BY <1>1, <1>8, <1>9 DEF Line!vars

\* The listener takes a PDU off the socket and recovers its time.
LEMMA LineReceive ==
  ASSUME Distinguishable, TypeOK, LineInv, Receive
  PROVE  LineInv' /\ UNCHANGED Line!vars
<1> USE Constants
<1> DEFINE pdu == Head(socket)
           e == [id    |-> pdu.id,
                 ptime |-> pdu.ptime,
                 tspec |-> PresentationTime(pdu.avtp_time, now)]
<1>1. /\ socket # <<>> /\ socket' = Tail(socket)
      /\ net' = net /\ now' = now /\ sent' = sent /\ presented' = presented
  BY DEF Receive
<1>2. pdu \in DuePdu /\ socket' \in Seq(DuePdu)
  BY <1>1, TakeType DEF LineInv
<1>3. samples' = Append(samples, e) /\ running' = running
  <2>1. pdu.kind = "sample"
    BY <1>2 DEF DuePdu
  <2>2. NewPacket(pdu, now)
    BY <2>1 DEF Receive
  <2>3. QED
    BY <2>2 DEF NewPacket, ScheduleSample
<1>4. /\ Sorted(socket') /\ AllAfter(pdu, socket')
  BY <1>1, SortedTail DEF LineInv
<1>5. /\ Precede(samples, socket') /\ AllBefore(samples, pdu)
      /\ Precede(socket', net) /\ AllAfter(pdu, net)
  BY <1>1, PrecedeTail DEF LineInv
<1> HIDE DEF pdu
<1>6. /\ pdu.id \in Nat /\ pdu.ptime \in Nat
      /\ pdu.avtp_time = ToAvtpTime(pdu.ptime)
      /\ now <= pdu.ptime /\ pdu.ptime <= now + TransitTime
      /\ presented < pdu.id /\ pdu.id < sent
  BY <1>2 DEF DuePdu, Pdu
<1>7. PresentationTime(pdu.avtp_time, now) = pdu.ptime
  <2>1. now \in Nat /\ pdu.ptime < now + Wrap
    BY <1>6 DEF TypeOK, Distinguishable
  <2>2. QED
    BY <1>6, <2>1, PresentationTimeExact
<1>8. e.id = pdu.id /\ e.ptime = pdu.ptime /\ e.tspec = pdu.ptime /\ e \in Sample
  BY <1>6, <1>7 DEF Sample
<1> HIDE DEF e
<1>9. e \in DueSample
  BY <1>6, <1>8 DEF DueSample, TypeOK
<1>10. AllBefore(samples, e) /\ AllAfter(e, socket') /\ AllAfter(e, net)
  BY <1>4, <1>5, <1>8 DEF AllBefore, AllAfter, Before
<1>11. samples' \in Seq(DueSample) /\ Sorted(samples')
  BY <1>3, <1>9, <1>10, AppendProperties, SortedAppend DEF LineInv
<1>12. Precede(samples', socket') /\ Precede(samples', net)
  BY <1>2, <1>3, <1>5, <1>9, <1>10, PrecedeAppend DEF LineInv
<1>13. DuePdu' = DuePdu /\ DueSample' = DueSample
  BY <1>1, DueUnchanged
<1>14. LineInv'
  BY <1>1, <1>2, <1>3, <1>4, <1>5, <1>11, <1>12, <1>13 DEF LineInv, Sorted, Precede
<1>15. Pending' = Pending
  <2>1. Stamps(samples') = Stamps(samples) \cup {Stamp(e)}
    BY <1>3, <1>9, StampsAppend DEF LineInv
  <2>2. Stamps(socket) = {Stamp(pdu)} \cup Stamps(socket')
    BY <1>1, StampsTail DEF LineInv, pdu
  <2>3. Stamp(e) = Stamp(pdu)
    BY <1>8 DEF Stamp
  <2>4. Pending' = Stamps(samples') \cup Stamps(socket') \cup Stamps(net)
    BY <1>1 DEF Pending, Stamps, Stamp
  <2>5. QED
    BY <2>1, <2>2, <2>3, <2>4 DEF Pending
<1>16. QED
  BY <1>1, <1>14, <1>15 DEF Line!vars

\* The head of the queue is presented: the oldest of the line, at its time.
LEMMA LinePlay ==
  ASSUME TypeOK, TimerServesHead, LineInv, Play
  PROVE  LineInv' /\ Line!Present
<1> USE Constants
<1> DEFINE h == Head(samples)
<1>1. /\ Timeout /\ presented' = h.id
      /\ samples' = Tail(samples) /\ running' = running
      /\ now' = now /\ sent' = sent /\ net' = net /\ socket' = socket
  BY DEF Play, Timeout
<1>2. samples # <<>> /\ timer = h.tspec /\ timer <= now
  BY <1>1, TimeoutKeepsTimer
<1>3. h \in DueSample /\ samples' \in Seq(DueSample)
  BY <1>1, <1>2, TakeType DEF LineInv
<1>4. Sorted(samples') /\ AllAfter(h, samples')
  BY <1>1, <1>2, SortedTail DEF LineInv
<1>5. /\ Precede(samples', socket) /\ AllAfter(h, socket)
      /\ Precede(samples', net) /\ AllAfter(h, net)
  BY <1>1, <1>2, PrecedeTail DEF LineInv
<1>6. Stamps(samples) = {Stamp(h)} \cup Stamps(samples')
  BY <1>1, <1>2, StampsTail DEF LineInv
<1> HIDE DEF h
<1>7. /\ h.id \in Nat /\ h.ptime \in Nat /\ h.tspec = h.ptime
      /\ now <= h.ptime + MaxLate /\ presented < h.id /\ h.id < sent
  BY <1>3 DEF DueSample, Sample
<1>8. now \in Nat /\ sent \in Nat
  BY DEF TypeOK
<1>9. ASSUME NEW p \in DuePdu, Before(h, p)
      PROVE  p \in DuePdu'
  <2>1. /\ now' \in Nat /\ now <= now' /\ now' <= p.ptime
        /\ presented' < p.id /\ p.id < sent'
    BY <1>1, <1>8, <1>9 DEF DuePdu, Pdu, Before
  <2>2. QED
    BY <2>1, DuePduKept
<1>10. ASSUME NEW s \in DueSample, Before(h, s)
       PROVE  s \in DueSample'
  <2>1. /\ now' \in Nat /\ now <= now' /\ now' <= s.ptime + MaxLate
        /\ presented' < s.id /\ s.id < sent'
    BY <1>1, <1>8, <1>10 DEF DueSample, Sample, Before
  <2>2. QED
    BY <2>1, DueSampleKept
<1>11. net \in Seq(DuePdu') /\ socket \in Seq(DuePdu')
  BY <1>5, <1>9, LineTypes, SeqOver DEF LineInv, AllAfter
<1>12. samples' \in Seq(DueSample')
  <2>1. \A i \in 1 .. Len(samples') : samples'[i] \in DueSample
    BY <1>3, ElementOfSeq
  <2>2. \A i \in 1 .. Len(samples') : samples'[i] \in DueSample'
    BY <1>4, <1>10, <2>1 DEF AllAfter
  <2>3. QED
    BY <1>3, <2>2, SeqOver
<1>13. LineInv'
  <2>1. presented' < sent'
    BY <1>1, <1>7
  <2>2. QED
    BY <1>1, <1>4, <1>5, <1>11, <1>12, <2>1 DEF LineInv, Sorted, Precede
<1>14. /\ Stamp(h) \notin Stamps(samples')
       /\ Stamp(h) \notin Stamps(socket)
       /\ Stamp(h) \notin Stamps(net)
  <2>1. \A i \in 1 .. Len(samples') : samples'[i].id \in Int
    BY <1>3, ElementOfSeq DEF DueSample, Sample
  <2>2. /\ \A i \in 1 .. Len(socket) : socket[i].id \in Int
        /\ \A i \in 1 .. Len(net) : net[i].id \in Int
    BY LineTypes
  <2>3. Stamp(h) \notin Stamps(samples')
    BY <1>3, <1>4, <1>7, <2>1, NotAmong
  <2>4. QED
    BY <1>5, <1>7, <2>2, <2>3, NotAmong DEF LineInv
<1>15. Pending' = Pending \ {Stamp(h)} /\ Stamp(h) \in Pending
  <2>1. Pending' = Stamps(samples') \cup Stamps(socket) \cup Stamps(net)
    BY <1>1 DEF Pending, Stamps, Stamp
  <2>2. QED
    BY <1>6, <1>14, <2>1 DEF Pending
<1>16. \A o \in Pending : h.id <= o.id
  <2>1. \A o \in Stamps(samples') : h.id <= o.id
    <3>1. DOMAIN samples' = 1 .. Len(samples')
      BY <1>3, LenProperties
    <3>2. ASSUME NEW i \in 1 .. Len(samples')
          PROVE  h.id <= samples'[i].id
      <4>1. samples'[i] \in DueSample
        BY <1>3, ElementOfSeq
      <4>2. samples'[i].id \in Nat
        BY <4>1 DEF DueSample, Sample
      <4>3. h.id < samples'[i].id
        BY <1>4 DEF AllAfter, Before
      <4>4. QED
        BY <1>7, <4>2, <4>3
    <3>3. QED
      BY <3>1, <3>2 DEF Stamps, Stamp
  <2>2. \A o \in Stamps(socket) \cup Stamps(net) : h.id <= o.id
    <3>1. DOMAIN socket = 1 .. Len(socket) /\ DOMAIN net = 1 .. Len(net)
      BY LenProperties DEF LineInv
    <3>2. /\ \A i \in 1 .. Len(socket) : h.id <= socket[i].id
          /\ \A i \in 1 .. Len(net) : h.id <= net[i].id
      BY <1>5, <1>7, LineTypes DEF AllAfter, Before
    <3>3. QED
      BY <3>1, <3>2 DEF Stamps, Stamp
  <2>3. Stamp(h).id = h.id
    BY DEF Stamp
  <2>4. h.id <= h.id
    BY <1>7
  <2>5. QED
    BY <1>6, <2>1, <2>2, <2>3, <2>4 DEF Pending
<1>17. Line!Present
  <2>1. Stamp(h).id = h.id /\ Stamp(h).ptime = h.ptime
    BY DEF Stamp
  <2>2. h.ptime <= now
    BY <1>2, <1>7
  <2>3. QED
    BY <1>1, <1>7, <1>15, <1>16, <2>1, <2>2 DEF Line!Present
<1>18. QED
  BY <1>13, <1>17

\* The network loses its oldest PDU.
LEMMA LineLose ==
  ASSUME TypeOK, LineInv, Lose
  PROVE  LineInv' /\ Line!Lose
<1> DEFINE h == Head(net)
<1>1. /\ net # <<>> /\ net' = Tail(net)
      /\ running' = running /\ samples' = samples /\ socket' = socket
      /\ now' = now /\ sent' = sent /\ presented' = presented
  BY DEF Lose, queueVars
<1>2. h \in DuePdu /\ net' \in Seq(DuePdu)
  BY <1>1, TakeType DEF LineInv
<1>3. Sorted(net') /\ AllAfter(h, net')
  BY <1>1, SortedTail DEF LineInv
<1>4. /\ Precede(samples, net') /\ AllBefore(samples, h)
      /\ Precede(socket, net') /\ AllBefore(socket, h)
  BY <1>1, PrecedeTail DEF LineInv
<1>5. Stamps(net) = {Stamp(h)} \cup Stamps(net')
  BY <1>1, StampsTail DEF LineInv
<1> HIDE DEF h
<1>6. DuePdu' = DuePdu /\ DueSample' = DueSample
  BY <1>1, DueUnchanged
<1>7. LineInv'
  BY <1>1, <1>2, <1>3, <1>4, <1>6 DEF LineInv, Sorted, Precede
<1>8. /\ Stamp(h) \notin Stamps(net')
      /\ Stamp(h) \notin Stamps(samples)
      /\ Stamp(h) \notin Stamps(socket)
  <2>1. h.id \in Int
    BY <1>2, LineTypes
  <2>2. \A i \in 1 .. Len(net') : net'[i].id \in Int
    BY <1>2, ElementOfSeq DEF DuePdu, Pdu
  <2>3. Stamp(h) \notin Stamps(net')
    BY <1>2, <1>3, <2>1, <2>2, NotAmong
  <2>4. /\ \A i \in 1 .. Len(samples) : samples[i].id \in Int
        /\ \A i \in 1 .. Len(socket) : socket[i].id \in Int
    BY LineTypes
  <2>5. QED
    BY <1>4, <2>1, <2>3, <2>4, NotAmong DEF LineInv
<1>9. Pending' = Pending \ {Stamp(h)} /\ Stamp(h) \in Pending
  <2>1. Pending' = Stamps(samples) \cup Stamps(socket) \cup Stamps(net')
    BY <1>1 DEF Pending, Stamps, Stamp
  <2>2. QED
    BY <1>5, <1>8, <2>1 DEF Pending
<1>10. QED
  BY <1>1, <1>7, <1>9 DEF Line!Lose

\* Every step of the stream is a step of the line, or none.
LEMMA LineStep ==
  ASSUME OnlyLosses, Distinguishable, TypeOK, TimerServesHead, LineInv, [Next]_vars
  PROVE  LineInv' /\ [Line!Next]_(Line!vars)
<1>1. CASE Tick
  BY <1>1, LineTick DEF Line!Next
<1>2. CASE Send
  BY <1>2, LineSend DEF Line!Next
<1>3. CASE Arrive
  BY <1>3, LineArrive
<1>4. CASE PollReturns
  <2>1. UNCHANGED <<running, samples, socket, net, now, sent, presented>>
    BY <1>4 DEF PollReturns, Poll
  <2>2. DuePdu' = DuePdu /\ DueSample' = DueSample
    BY <2>1, DueUnchanged
  <2>3. LineInv'
    BY <2>1, <2>2 DEF LineInv, Sorted, Precede
  <2>4. UNCHANGED Line!vars
    BY <2>1 DEF Line!vars, Pending, Stamps, Stamp
  <2>5. QED
    BY <2>3, <2>4
<1>5. CASE Receive
  BY <1>5, LineReceive
<1>6. CASE Play
  BY <1>6, LinePlay DEF Line!Next
<1>7. CASE Lose
  BY <1>7, LineLose DEF Line!Next
<1>8. CASE PlayFails \/ Hold \/ Overtake \/ Stray("foreign") \/ Stray("short")
  BY <1>8 DEF PlayFails, Hold, Overtake, Stray, Fault, OnlyLosses
<1>9. CASE UNCHANGED vars
  <2>1. UNCHANGED <<running, samples, socket, net, now, sent, presented>>
    BY <1>9 DEF vars, queueVars
  <2>2. DuePdu' = DuePdu /\ DueSample' = DueSample
    BY <2>1, DueUnchanged
  <2>3. LineInv'
    BY <2>1, <2>2 DEF LineInv, Sorted, Precede
  <2>4. UNCHANGED Line!vars
    BY <2>1 DEF Line!vars, Pending, Stamps, Stamp
  <2>5. QED
    BY <2>3, <2>4
<1>10. QED
  BY <1>1, <1>2, <1>3, <1>4, <1>5, <1>6, <1>7, <1>8, <1>9 DEF Next, Finished

LEMMA LineStart == Init => LineInv /\ Line!Init
<1>1. SUFFICES ASSUME Init PROVE LineInv /\ Line!Init
  OBVIOUS
<1>2. /\ running = TRUE /\ samples = <<>> /\ socket = <<>> /\ net = <<>>
      /\ now = 0 /\ sent = 0 /\ presented = -1
  BY <1>1 DEF Init, QueueInit
<1>3. samples \in Seq(DueSample) /\ socket \in Seq(DuePdu) /\ net \in Seq(DuePdu)
  BY <1>2, EmptySeq
<1>4. LineInv
  BY <1>2, <1>3, EmptyInOrder DEF LineInv
<1>5. Pending = {}
  BY <1>2, StampsEmpty DEF Pending
<1>6. QED
  BY <1>2, <1>4, <1>5 DEF Line!Init

\* get_presentation_time() recovers the talker's time of every sample that is
\* queued, when no PDU breaks the promise on transit time.
THEOREM TimesRecovered ==
  ASSUME OnlyLosses, Distinguishable
  PROVE  Spec => []TimeRecovered
<1>1. LineInv /\ TypeOK => TimeRecovered
  <2>1. SUFFICES ASSUME LineInv, TypeOK PROVE TimeRecovered
    OBVIOUS
  <2>2. DOMAIN samples = 1 .. Len(samples)
    BY <2>1, LenProperties DEF LineInv
  <2>3. QED
    BY <2>1, <2>2, LineTypes DEF TimeRecovered, DueSample
<1>2. TypeOK /\ TimerServesHead /\ LineInv /\ [Next]_vars => LineInv'
  BY LineStep
<1>3. QED
  BY <1>1, <1>2, LineStart, TypeCorrect, TimerAlwaysServesHead, PTL DEF Spec

\* Talker, network and listener together are a delay line: every sample that is
\* presented is presented in its turn, TransitTime after it was taken, to within
\* the listener's lateness.
THEOREM StreamIsDelayLine ==
  ASSUME OnlyLosses, Distinguishable
  PROVE  Spec => LineSafety
<1>1. TypeOK /\ TimerServesHead /\ LineInv /\ [Next]_vars
        => LineInv' /\ [Line!Next]_(Line!vars)
  BY LineStep
<1>2. QED
  BY <1>1, LineStart, TypeCorrect, TimerAlwaysServesHead, PTL
     DEF Spec, LineSafety, Line!Safety

-----------------------------------------------------------------------------
(***************************************************************************)
(* No sample is more than a wrap late, as long as no PDU is held back by   *)
(* so much that it cannot be told from one of the next wrap.  The samples  *)
(* that make others wait are those received after their time, and the      *)
(* network holds back only the oldest PDU it has: whatever waits behind    *)
(* such a sample is no older than it.                                      *)
(***************************************************************************)

\* The scope of the theorem.
DelayFits == TransitTime + Delay <= Wrap

\* A PDU on its way: what the talker wrote, and received by the time it is due.
Carried ==
  {p \in Pdu : /\ p.kind = "sample"
               /\ p.avtp_time = ToAvtpTime(p.ptime)
               /\ p.ptime <= now + TransitTime
               /\ p.ptime <= p.due
               /\ p.due <= p.ptime + Delay
               /\ now <= p.due}

\* A datagram in the socket: the talker's, or one of nobody's.
Delivered == {p \in Pdu : p.kind = "sample" => p \in Carried}

\* A sample in the queue.
Queued ==
  {s \in Sample : /\ s.tspec <= s.ptime + Wrap
                  /\ s.ptime <= now + TransitTime
                  /\ now <= s.ptime + Wrap + MaxLate}

\* What may stand between two elements of the queues, the first one ahead.
NotOlder == {r \in Pdu \X Pdu : r[1].ptime <= r[2].ptime /\ r[2].due = r[2].ptime}

Behind == {r \in Pdu \X Pdu :
             r[1].kind = "sample" /\ r[1].due > r[1].ptime /\ r[2].kind = "sample"
               => r[1].ptime <= r[2].ptime}

BehindLate == {r \in Sample \X Pdu :
                 r[1].tspec > r[1].ptime /\ r[2].kind = "sample"
                   => r[1].ptime <= r[2].ptime}

Waits == {r \in Sample \X Sample : r[1].tspec <= r[2].ptime + Wrap}

\* It does between every two of a sequence, and of two sequences.
Chain(R, s) == \A i, j \in 1 .. Len(s) : i < j => <<s[i], s[j]>> \in R

Cross(R, s, t) == \A i \in 1 .. Len(s), j \in 1 .. Len(t) : <<s[i], t[j]>> \in R

\* While the listener is in its loop.
InTime ==
  /\ net \in Seq(Carried)
  /\ socket \in Seq(Delivered)
  /\ samples \in Seq(Queued)
  /\ Chain(NotOlder, net)
  /\ Chain(Behind, socket) /\ Cross(Behind, socket, net)
  /\ Chain(Waits, samples)
  /\ Cross(BehindLate, samples, socket) /\ Cross(BehindLate, samples, net)

LateInv ==
  /\ slip <= Wrap + MaxLate
  /\ running => InTime

\* What a listener makes of a timestamp is the first such time not in its past.
LEMMA PresentationTimeLeast ==
  ASSUME NEW p \in Nat, NEW t \in Nat, NEW m \in Int, t <= p + Wrap * m
  PROVE  PresentationTime(ToAvtpTime(p), t) <= p + Wrap * m
<1> DEFINE pt == PresentationTime(ToAvtpTime(p), t)
<1>1. pt \in Nat /\ pt < t + Wrap
  BY AvtpTimeType, PresentationTimeBounds
<1>2. PICK k \in Int : pt = p + Wrap * k
  BY PresentationTimeCongruent
<1> HIDE DEF pt
<1>3. SUFFICES ASSUME pt > p + Wrap * m PROVE FALSE
  <2>1. pt \in Int /\ p + Wrap * m \in Int
    BY <1>1, Constants
  <2>2. ~(pt > p + Wrap * m) => pt <= p + Wrap * m
    BY <2>1
  <2>3. QED
    BY <1>3, <2>2 DEF pt
<1>4. Wrap * k >= Wrap * m + Wrap
  <2>1. Wrap * k > Wrap * m
    BY <1>2, <1>3, Constants
  <2>2. k > m
    <3>1. SUFFICES ASSUME k <= m PROVE FALSE
      OBVIOUS
    <3>2. Wrap * k <= Wrap * m
      BY <3>1, Constants
    <3>3. QED
      BY <2>1, <3>2, Constants
  <2>3. k >= m + 1
    BY <2>2
  <2>4. Wrap * k >= Wrap * (m + 1)
    BY <2>3, Constants
  <2>5. Wrap * (m + 1) = Wrap * m + Wrap
    BY Constants
  <2>6. QED
    BY <2>4, <2>5
<1>5. QED
  BY <1>1, <1>2, <1>4, Constants

\* So of a PDU received by its time the sample is scheduled no later than that,
\* and of one received within a wrap after it no later than a wrap after it.
LEMMA Recovered ==
  ASSUME NEW p \in Nat, NEW t \in Nat
  PROVE  LET q == PresentationTime(ToAvtpTime(p), t)
         IN /\ q \in Nat
            /\ t <= p => q <= p
            /\ t <= p + Wrap => q <= p + Wrap
<1>1. PresentationTime(ToAvtpTime(p), t) \in Nat
  BY AvtpTimeType, PresentationTimeBounds
<1>2. Wrap * 0 = 0 /\ Wrap * 1 = Wrap
  BY Constants
<1>3. t <= p => PresentationTime(ToAvtpTime(p), t) <= p + Wrap * 0
  BY <1>2, PresentationTimeLeast, Constants
<1>4. t <= p + Wrap => PresentationTime(ToAvtpTime(p), t) <= p + Wrap * 1
  BY <1>2, PresentationTimeLeast, Constants
<1>5. QED
  BY <1>1, <1>2, <1>3, <1>4

-----------------------------------------------------------------------------
\* Relations, over the operations on queues.

LEMMA ChainAppend ==
  ASSUME NEW R, NEW S, NEW s \in Seq(S), NEW e \in S, Chain(R, s),
         \A i \in 1 .. Len(s) : <<s[i], e>> \in R
  PROVE  Chain(R, Append(s, e))
<1>1. /\ Len(s) \in Nat
      /\ Len(Append(s, e)) = Len(s) + 1
      /\ \A i \in 1 .. Len(s) : Append(s, e)[i] = s[i]
      /\ Append(s, e)[Len(s) + 1] = e
  BY LenProperties, AppendProperties
<1>2. SUFFICES ASSUME NEW i \in 1 .. Len(s) + 1, NEW j \in 1 .. Len(s) + 1, i < j
               PROVE  <<Append(s, e)[i], Append(s, e)[j]>> \in R
  BY <1>1 DEF Chain
<1>3. i \in 1 .. Len(s) /\ (j \in 1 .. Len(s) \/ j = Len(s) + 1)
  BY <1>1, <1>2
<1>4. QED
  BY <1>1, <1>2, <1>3 DEF Chain

LEMMA ChainTail ==
  ASSUME NEW R, NEW S, NEW s \in Seq(S), s # <<>>, Chain(R, s)
  PROVE  /\ Chain(R, Tail(s))
         /\ \A i \in 1 .. Len(Tail(s)) : <<Head(s), Tail(s)[i]>> \in R
<1>1. /\ Len(s) \in Nat \ {0}
      /\ Len(Tail(s)) = Len(s) - 1
      /\ \A i \in 1 .. Len(Tail(s)) : Tail(s)[i] = s[i + 1]
      /\ Head(s) = s[1]
  BY EmptySeq, HeadTailProperties
<1>2. ASSUME NEW i \in 1 .. Len(s) - 1, NEW j \in 1 .. Len(s) - 1, i < j
      PROVE  <<s[i + 1], s[j + 1]>> \in R
  BY <1>1, <1>2 DEF Chain
<1>3. ASSUME NEW i \in 1 .. Len(s) - 1
      PROVE  <<s[1], s[i + 1]>> \in R
  BY <1>1 DEF Chain
<1>4. QED
  BY <1>1, <1>2, <1>3 DEF Chain

LEMMA CrossAppend ==
  ASSUME NEW R, NEW S, NEW s \in Seq(S), NEW T, NEW t \in Seq(T), Cross(R, s, t)
  PROVE  /\ \A e \in T : (\A i \in 1 .. Len(s) : <<s[i], e>> \in R)
                            => Cross(R, s, Append(t, e))
         /\ \A e \in S : (\A i \in 1 .. Len(t) : <<e, t[i]>> \in R)
                            => Cross(R, Append(s, e), t)
<1>1. ASSUME NEW e \in T, \A i \in 1 .. Len(s) : <<s[i], e>> \in R
      PROVE  Cross(R, s, Append(t, e))
  <2>1. /\ Len(t) \in Nat
        /\ Len(Append(t, e)) = Len(t) + 1
        /\ \A i \in 1 .. Len(t) : Append(t, e)[i] = t[i]
        /\ Append(t, e)[Len(t) + 1] = e
    BY LenProperties, AppendProperties
  <2>2. QED
    BY <1>1, <2>1 DEF Cross
<1>2. ASSUME NEW e \in S, \A i \in 1 .. Len(t) : <<e, t[i]>> \in R
      PROVE  Cross(R, Append(s, e), t)
  <2>1. /\ Len(s) \in Nat
        /\ Len(Append(s, e)) = Len(s) + 1
        /\ \A i \in 1 .. Len(s) : Append(s, e)[i] = s[i]
        /\ Append(s, e)[Len(s) + 1] = e
    BY LenProperties, AppendProperties
  <2>2. QED
    BY <1>2, <2>1 DEF Cross
<1>3. QED
  BY <1>1, <1>2

LEMMA CrossTail ==
  ASSUME NEW R, NEW S, NEW s \in Seq(S), NEW T, NEW t \in Seq(T), Cross(R, s, t)
  PROVE  /\ t # <<>> => /\ Cross(R, s, Tail(t))
                        /\ \A i \in 1 .. Len(s) : <<s[i], Head(t)>> \in R
         /\ s # <<>> => /\ Cross(R, Tail(s), t)
                        /\ \A i \in 1 .. Len(t) : <<Head(s), t[i]>> \in R
<1>1. ASSUME t # <<>>
      PROVE  Cross(R, s, Tail(t)) /\ \A i \in 1 .. Len(s) : <<s[i], Head(t)>> \in R
  <2>1. /\ Len(t) \in Nat \ {0}
        /\ Len(Tail(t)) = Len(t) - 1
        /\ \A i \in 1 .. Len(Tail(t)) : Tail(t)[i] = t[i + 1]
        /\ Head(t) = t[1]
    BY <1>1, EmptySeq, HeadTailProperties
  <2>2. QED
    BY <2>1 DEF Cross
<1>2. ASSUME s # <<>>
      PROVE  Cross(R, Tail(s), t) /\ \A i \in 1 .. Len(t) : <<Head(s), t[i]>> \in R
  <2>1. /\ Len(s) \in Nat \ {0}
        /\ Len(Tail(s)) = Len(s) - 1
        /\ \A i \in 1 .. Len(Tail(s)) : Tail(s)[i] = s[i + 1]
        /\ Head(s) = s[1]
    BY <1>2, EmptySeq, HeadTailProperties
  <2>2. QED
    BY <2>1 DEF Cross
<1>3. QED
  BY <1>1, <1>2

\* Of a queue whose second element overtakes the first, every element is one of
\* the queue, and they stay in their order.
LEMMA Overtaken ==
  ASSUME NEW S, NEW s \in Seq(S), Len(s) > 1
  PROVE  LET t == <<s[1]>> \o SubSeq(s, 3, Len(s))
         IN /\ t \in Seq(S) /\ Len(t) = Len(s) - 1
            /\ t[1] = s[1]
            /\ \A i \in 2 .. Len(t) : t[i] = s[i + 1]
<1> DEFINE u == <<s[1]>>
           v == SubSeq(s, 3, Len(s))
<1>1. Len(s) \in Nat
  BY LenProperties
<1>2. s[1] \in S /\ \A i \in 3 .. Len(s) : s[i] \in S
  BY <1>1, ElementOfSeq
<1>3. /\ v \in Seq(S) /\ Len(v) = Len(s) - 2
      /\ \A i \in 1 .. Len(v) : v[i] = s[i + 2]
  <2>1. 3 <= Len(s) + 1 /\ 3 \in Int /\ Len(s) \in Int
    BY <1>1
  <2>2. /\ v \in Seq(S)
        /\ Len(v) = IF 3 <= Len(s) THEN Len(s) - 3 + 1 ELSE 0
        /\ \A i \in 1 .. Len(s) - 3 + 1 : v[i] = s[3 + i - 1]
    BY <1>1, <1>2, <2>1, SubSeqProperties
  <2>3. Len(v) = Len(s) - 2
    <3> DEFINE n == Len(s)
    <3>0. n \in Nat /\ n > 1 /\ Len(v) = IF 3 <= n THEN n - 3 + 1 ELSE 0
      BY <1>1, <2>2
    <3> HIDE DEF v, n
    <3>1. CASE n = 2
      <4>1. Len(v) = 0
        BY <3>0, <3>1
      <4>2. QED
        BY <3>1, <4>1 DEF n
    <3>2. CASE n >= 3
      <4>1. Len(v) = n - 2
        BY <3>0, <3>2
      <4>2. QED
        BY <4>1 DEF n
    <3>3. QED
      BY <3>0, <3>1, <3>2
  <2>4. \A i \in 1 .. Len(v) : 3 + i - 1 = i + 2 /\ i \in 1 .. Len(s) - 3 + 1
    BY <1>1, <2>3
  <2>5. QED
    BY <2>2, <2>3, <2>4
<1>4. u \in Seq(S) /\ Len(u) = 1 /\ u[1] = s[1]
  BY <1>2
<1> HIDE DEF u, v
<1>5. /\ u \o v \in Seq(S) /\ Len(u \o v) = Len(s) - 1
      /\ \A i \in 1 .. Len(s) - 1 : (u \o v)[i] = IF i <= 1 THEN u[i] ELSE v[i - 1]
  <2>1. /\ u \o v \in Seq(S) /\ Len(u \o v) = Len(u) + Len(v)
        /\ \A i \in 1 .. Len(u) + Len(v) :
             (u \o v)[i] = IF i <= Len(u) THEN u[i] ELSE v[i - Len(u)]
    BY <1>3, <1>4, ConcatProperties
  <2>2. Len(u) + Len(v) = Len(s) - 1
    BY <1>1, <1>3, <1>4
  <2>3. QED
    BY <1>4, <2>1, <2>2
<1>6. (u \o v)[1] = s[1]
  BY <1>1, <1>4, <1>5
<1>7. \A i \in 2 .. Len(s) - 1 : (u \o v)[i] = s[i + 1]
  <2>1. SUFFICES ASSUME NEW i \in 2 .. Len(s) - 1 PROVE (u \o v)[i] = s[i + 1]
    OBVIOUS
  <2>2. i \in 1 .. Len(s) - 1 /\ ~(i <= 1)
    BY <1>1
  <2>3. i - 1 \in 1 .. Len(v) /\ i - 1 + 2 = i + 1
    BY <1>1, <1>3
  <2>4. (u \o v)[i] = v[i - 1] /\ v[i - 1] = s[i - 1 + 2]
    BY <1>3, <1>5, <2>2, <2>3
  <2>5. QED
    BY <2>3, <2>4
<1>8. QED
  BY <1>5, <1>6, <1>7 DEF u, v

-----------------------------------------------------------------------------
\* The steps.

\* What the invariant says of the elements, in a form the provers can use.
LEMMA InTimeTypes ==
  ASSUME InTime
  PROVE  /\ Len(net) \in Nat /\ DOMAIN net = 1 .. Len(net)
         /\ Len(socket) \in Nat /\ DOMAIN socket = 1 .. Len(socket)
         /\ Len(samples) \in Nat /\ DOMAIN samples = 1 .. Len(samples)
         /\ \A i \in 1 .. Len(net) : net[i] \in Carried /\ net[i] \in Pdu
         /\ \A i \in 1 .. Len(socket) : socket[i] \in Delivered /\ socket[i] \in Pdu
         /\ \A i \in 1 .. Len(samples) : samples[i] \in Queued /\ samples[i] \in Sample
<1>1. Carried \subseteq Pdu /\ Delivered \subseteq Pdu /\ Queued \subseteq Sample
  BY DEF Carried, Delivered, Queued
<1>2. net \in Seq(Carried) /\ socket \in Seq(Delivered) /\ samples \in Seq(Queued)
  BY DEF InTime
<1>3. QED
  BY <1>1, <1>2, LenProperties, ElementOfSeq

\* As long as the clock stands still, what is in time is so.
LEMMA StillInTime ==
  ASSUME UNCHANGED now
  PROVE  Carried' = Carried /\ Delivered' = Delivered /\ Queued' = Queued
BY DEF Carried, Delivered, Queued

\* Time passes: the network and the listener's process keep up.
LEMMA LateTick ==
  ASSUME DelayFits, TypeOK, TimerServesHead, running, InTime, Tick
  PROVE  InTime'
<1> USE Constants
<1>1. /\ OnTime /\ now' = now + 1 /\ now \in Nat
      /\ samples' = samples /\ socket' = socket /\ net' = net
  BY DEF Tick, queueVars, TypeOK
<1>2. ASSUME NEW p \in Carried, now < p.due
      PROVE  p \in Carried'
  <2>1. p \in Pdu /\ p.ptime \in Nat /\ p.due \in Nat
    BY DEF Carried, Pdu
  <2>2. p.ptime <= now' + TransitTime /\ now' <= p.due
    BY <1>1, <1>2, <2>1 DEF Carried
  <2>3. QED
    BY <2>1, <2>2 DEF Carried
<1>3. net \in Seq(Carried')
  <2>1. \A i \in 1 .. Len(net) : net[i] \in Carried'
    BY <1>1, <1>2, InTimeTypes DEF OnTime
  <2>2. QED
    BY <2>1, SeqOver DEF InTime
<1>4. socket \in Seq(Delivered')
  <2>1. \A i \in 1 .. Len(socket) : socket[i] \in Delivered'
    <3>1. SUFFICES ASSUME NEW i \in 1 .. Len(socket) PROVE socket[i] \in Delivered'
      OBVIOUS
    <3>2. socket[i] \in Pdu /\ now < socket[i].due
      BY <1>1, InTimeTypes DEF OnTime
    <3>3. socket[i].kind = "sample" => socket[i] \in Carried
      BY InTimeTypes DEF Delivered
    <3>4. QED
      BY <1>2, <3>2, <3>3 DEF Delivered
  <2>2. QED
    BY <2>1, SeqOver DEF InTime
<1>5. samples \in Seq(Queued')
  <2>1. ASSUME NEW i \in 1 .. Len(samples)
        PROVE  samples[i] \in Queued'
    <3>1. samples # <<>> /\ 1 \in 1 .. Len(samples) /\ Head(samples) = samples[1]
      BY <2>1, InTimeTypes, NotEmpty DEF InTime
    <3>2. /\ samples[1] \in Queued /\ samples[i] \in Queued
          /\ samples[1].tspec \in Nat
          /\ samples[i].ptime \in Nat /\ samples[i].tspec \in Nat
      BY <3>1, InTimeTypes DEF Sample
    <3>3. timer = samples[1].tspec /\ timer # NoTimer
      BY <3>1, <3>2 DEF TimerServesHead, NoTimer
    <3>4. now < samples[1].tspec + MaxLate
      BY <1>1, <3>3 DEF OnTime
    <3>5. samples[1].tspec <= samples[i].ptime + Wrap
      <4>1. CASE i = 1
        BY <3>2, <4>1 DEF Queued
      <4>2. CASE i # 1
        <5>1. 1 < i
          BY <2>1, <4>2
        <5>2. <<samples[1], samples[i]>> \in Waits
          BY <3>1, <5>1 DEF InTime, Chain
        <5>3. QED
          BY <5>2 DEF Waits
      <4>3. QED
        BY <4>1, <4>2
    <3>6. now' <= samples[i].ptime + Wrap + MaxLate
      BY <1>1, <3>2, <3>4, <3>5
    <3>7. /\ samples[i] \in Sample
          /\ samples[i].tspec <= samples[i].ptime + Wrap
          /\ samples[i].ptime <= now' + TransitTime
      BY <1>1, <3>2 DEF Queued
    <3>8. QED
      BY <3>6, <3>7 DEF Queued
  <2>2. QED
    BY <2>1, SeqOver DEF InTime
<1>6. QED
  BY <1>1, <1>3, <1>4, <1>5 DEF InTime, Chain, Cross

\* A PDU is sent: no older than any other.
LEMMA LateSend ==
  ASSUME TypeOK, InTime, Send
  PROVE  InTime'
<1> USE Constants
<1> DEFINE pdu == [kind      |-> "sample",
                   id        |-> sent,
                   ptime     |-> now + TransitTime,
                   avtp_time |-> ToAvtpTime(now + TransitTime),
                   due       |-> now + TransitTime]
<1>1. /\ net' = Append(net, pdu) /\ samples' = samples /\ socket' = socket /\ now' = now
  BY DEF Send, queueVars
<1>2. now \in Nat /\ sent \in Nat
  BY DEF TypeOK
<1>3. pdu \in Pdu
  <2>1. ToAvtpTime(now + TransitTime) \in 0 .. Wrap - 1
    BY <1>2, AvtpTimeType
  <2>2. QED
    BY <1>2, <2>1 DEF Pdu
<1>4. /\ pdu.kind = "sample" /\ pdu.ptime = now + TransitTime /\ pdu.due = pdu.ptime
      /\ pdu.avtp_time = ToAvtpTime(pdu.ptime)
  OBVIOUS
<1> HIDE DEF pdu
<1>5. pdu \in Carried
  BY <1>2, <1>3, <1>4 DEF Carried
<1>6. \A i \in 1 .. Len(net) : <<net[i], pdu>> \in NotOlder
  BY <1>3, <1>4, InTimeTypes DEF NotOlder, Carried
<1>7. \A i \in 1 .. Len(socket) : <<socket[i], pdu>> \in Behind
  <2>1. SUFFICES ASSUME NEW i \in 1 .. Len(socket), socket[i].kind = "sample"
                 PROVE  socket[i].ptime <= pdu.ptime
    BY <1>3, InTimeTypes DEF Behind
  <2>2. socket[i] \in Carried
    BY <2>1, InTimeTypes DEF Delivered
  <2>3. QED
    BY <2>2, <1>4 DEF Carried
<1>8. \A i \in 1 .. Len(samples) : <<samples[i], pdu>> \in BehindLate
  BY <1>3, <1>4, InTimeTypes DEF BehindLate, Queued
<1>9. net' \in Seq(Carried) /\ Chain(NotOlder, net')
  BY <1>1, <1>5, <1>6, AppendProperties, ChainAppend DEF InTime
<1>10. Cross(Behind, socket, net') /\ Cross(BehindLate, samples, net')
  BY <1>1, <1>5, <1>7, <1>8, CrossAppend DEF InTime
<1>11. QED
  BY <1>1, <1>9, <1>10, StillInTime DEF InTime, Chain, Cross


\* The oldest PDU reaches the socket, whether or not it was held back ...
LEMMA LateArrive ==
  ASSUME TypeOK, InTime, Arrive
  PROVE  InTime'
<1> DEFINE h == Head(net)
<1>1. /\ net # <<>> /\ socket' = Append(socket, h) /\ net' = Tail(net)
      /\ samples' = samples /\ now' = now
  BY DEF Arrive, queueVars
<1>2. h \in Carried /\ net' \in Seq(Carried)
  BY <1>1, TakeType DEF InTime
<1>3. /\ Chain(NotOlder, net') /\ \A i \in 1 .. Len(net') : <<h, net'[i]>> \in NotOlder
  BY <1>1, ChainTail DEF InTime
<1>4. /\ Cross(Behind, socket, net')
      /\ \A i \in 1 .. Len(socket) : <<socket[i], h>> \in Behind
      /\ Cross(BehindLate, samples, net')
      /\ \A i \in 1 .. Len(samples) : <<samples[i], h>> \in BehindLate
  BY <1>1, CrossTail DEF InTime
<1> HIDE DEF h
<1>5. h \in Delivered
  BY <1>2 DEF Delivered, Carried
<1>6. \A i \in 1 .. Len(net') : <<h, net'[i]>> \in Behind
  BY <1>3 DEF NotOlder, Behind
<1>7. socket' \in Seq(Delivered) /\ Chain(Behind, socket')
  BY <1>1, <1>4, <1>5, AppendProperties, ChainAppend DEF InTime
<1>8. Cross(Behind, socket', net')
  BY <1>1, <1>2, <1>4, <1>5, <1>6, CrossAppend DEF InTime
<1>9. Cross(BehindLate, samples, socket')
  BY <1>1, <1>4, <1>5, CrossAppend DEF InTime
<1>10. QED
  BY <1>1, <1>2, <1>3, <1>4, <1>7, <1>8, <1>9, StillInTime DEF InTime, Chain, Cross

\* ... or is lost ...
LEMMA LateLose ==
  ASSUME TypeOK, InTime, Lose
  PROVE  InTime'
<1>1. /\ net # <<>> /\ net' = Tail(net)
      /\ samples' = samples /\ socket' = socket /\ now' = now
  BY DEF Lose, queueVars
<1>2. net' \in Seq(Carried)
  BY <1>1, TakeType DEF InTime
<1>3. Chain(NotOlder, net')
  BY <1>1, ChainTail DEF InTime
<1>4. Cross(Behind, socket, net') /\ Cross(BehindLate, samples, net')
  BY <1>1, CrossTail DEF InTime
<1>5. QED
  BY <1>1, <1>2, <1>3, <1>4, StillInTime DEF InTime, Chain, Cross

\* ... or held back: it is the oldest that is.
LEMMA LateHold ==
  ASSUME TypeOK, InTime, Hold
  PROVE  InTime'
<1> USE Constants
<1> DEFINE e == [net[1] EXCEPT !.due = net[1].ptime + Delay]
<1>1. /\ net # <<>> /\ net' = [net EXCEPT ![1] = e]
      /\ samples' = samples /\ socket' = socket /\ now' = now
  BY DEF Hold, queueVars
<1>2. 1 \in 1 .. Len(net) /\ net \in Seq(Carried)
  BY <1>1, EmptySeq DEF InTime
<1>3. net[1] \in Carried /\ net[1] \in Pdu /\ net[1].ptime \in Nat /\ net[1].due \in Nat
  BY <1>2, InTimeTypes DEF Pdu
<1>4. /\ e \in Pdu
      /\ e.kind = net[1].kind /\ e.ptime = net[1].ptime /\ e.avtp_time = net[1].avtp_time
      /\ e.due = net[1].ptime + Delay
  BY <1>3 DEF Pdu
<1> HIDE DEF e
<1>5. e \in Carried
  BY <1>3, <1>4 DEF Carried, TypeOK
<1>6. /\ net' \in Seq(Carried) /\ Len(net') = Len(net)
      /\ \A i \in 1 .. Len(net) : net'[i] = IF i = 1 THEN e ELSE net[i]
  BY <1>1, <1>2, <1>5, ExceptSeq
<1>7. \A i \in 1 .. Len(net) : /\ net'[i] \in Pdu
                               /\ net'[i].ptime = net[i].ptime
                               /\ net'[i].kind = net[i].kind
                               /\ i > 1 => net'[i] = net[i]
  BY <1>4, <1>6, InTimeTypes
<1>8. Chain(NotOlder, net')
  <2>1. SUFFICES ASSUME NEW i \in 1 .. Len(net), NEW j \in 1 .. Len(net), i < j
                 PROVE  <<net'[i], net'[j]>> \in NotOlder
    BY <1>6 DEF Chain
  <2>2. net[i].ptime <= net[j].ptime /\ net[j].due = net[j].ptime
    BY <2>1 DEF InTime, Chain, NotOlder
  <2>3. net'[j] = net[j]
    BY <1>7, <2>1
  <2>4. QED
    BY <1>7, <2>2, <2>3 DEF NotOlder
<1>9. Cross(Behind, socket, net')
  <2>1. SUFFICES ASSUME NEW i \in 1 .. Len(socket), NEW j \in 1 .. Len(net)
                 PROVE  <<socket[i], net'[j]>> \in Behind
    BY <1>6 DEF Cross
  <2>2. <<socket[i], net[j]>> \in Behind
    BY DEF InTime, Cross
  <2>3. QED
    BY <1>7, <2>2 DEF Behind
<1>10. Cross(BehindLate, samples, net')
  <2>1. SUFFICES ASSUME NEW i \in 1 .. Len(samples), NEW j \in 1 .. Len(net)
                 PROVE  <<samples[i], net'[j]>> \in BehindLate
    BY <1>6 DEF Cross
  <2>2. <<samples[i], net[j]>> \in BehindLate
    BY DEF InTime, Cross
  <2>3. QED
    BY <1>7, <2>2 DEF BehindLate
<1>11. QED
  BY <1>1, <1>6, <1>8, <1>9, <1>10, StillInTime DEF InTime, Chain, Cross

\* The second PDU overtakes the oldest: it has not been held back itself.
LEMMA LateOvertake ==
  ASSUME TypeOK, InTime, Overtake
  PROVE  InTime'
<1> DEFINE e == net[2]
           rest == <<net[1]>> \o SubSeq(net, 3, Len(net))
<1>1. /\ Len(net) > 1 /\ socket' = Append(socket, e) /\ net' = rest
      /\ samples' = samples /\ now' = now
  BY DEF Overtake, queueVars
<1>2. /\ rest \in Seq(Carried) /\ Len(rest) = Len(net) - 1
      /\ rest[1] = net[1]
      /\ \A i \in 2 .. Len(rest) : rest[i] = net[i + 1]
  BY <1>1, Overtaken DEF InTime
<1>3. 1 \in 1 .. Len(net) /\ 2 \in 1 .. Len(net)
  BY <1>1, InTimeTypes
<1>4. e \in Carried /\ e \in Pdu
  BY <1>3, InTimeTypes
<1>5. e.due = e.ptime
  <2>1. 1 < 2
    OBVIOUS
  <2>2. <<net[1], e>> \in NotOlder
    BY <1>3, <2>1 DEF InTime, Chain
  <2>3. QED
    BY <2>2 DEF NotOlder
<1>6. /\ \A i \in 1 .. Len(socket) : <<socket[i], e>> \in Behind
      /\ \A i \in 1 .. Len(samples) : <<samples[i], e>> \in BehindLate
  BY <1>3 DEF InTime, Cross
<1> HIDE DEF e, rest
<1> DEFINE Was(i) == IF i = 1 THEN 1 ELSE i + 1
<1>7. \A i \in 1 .. Len(rest) : /\ Was(i) \in 1 .. Len(net)
                                /\ rest[i] = net[Was(i)]
                                /\ rest[i] \in Pdu
  BY <1>2, <1>3, InTimeTypes
<1>8. \A i, j \in 1 .. Len(rest) : i < j => Was(i) < Was(j)
  BY <1>2, InTimeTypes
<1> HIDE DEF Was
<1>9. Chain(NotOlder, rest)
  BY <1>7, <1>8 DEF InTime, Chain
<1>10. Cross(Behind, socket, rest) /\ Cross(BehindLate, samples, rest)
  BY <1>7 DEF InTime, Cross
<1>11. e \in Delivered
  BY <1>4 DEF Delivered
<1>12. \A i \in 1 .. Len(rest) : <<e, rest[i]>> \in Behind
  <2>1. ~(e.due > e.ptime)
    BY <1>4, <1>5 DEF Pdu
  <2>2. QED
    BY <1>4, <1>7, <2>1 DEF Behind
<1>13. socket' \in Seq(Delivered) /\ Chain(Behind, socket')
  BY <1>1, <1>6, <1>11, AppendProperties, ChainAppend DEF InTime
<1>14. Cross(Behind, socket', rest)
  BY <1>1, <1>2, <1>10, <1>11, <1>12, CrossAppend DEF InTime
<1>15. Cross(BehindLate, samples, socket')
  BY <1>1, <1>6, <1>11, CrossAppend DEF InTime
<1>16. QED
  BY <1>1, <1>2, <1>9, <1>10, <1>13, <1>14, <1>15, StillInTime DEF InTime, Chain, Cross

\* A datagram of nobody's is in nobody's way.
LEMMA LateStray ==
  ASSUME TypeOK, InTime, NEW kind \in {"foreign", "short"}, Stray(kind)
  PROVE  InTime'
<1> USE Constants
<1> DEFINE pdu == [kind |-> kind, id |-> sent, ptime |-> now,
                   avtp_time |-> 0, due |-> now + TransitTime]
<1>1. /\ socket' = Append(socket, pdu) /\ samples' = samples /\ net' = net /\ now' = now
  BY DEF Stray, queueVars
<1>2. pdu \in Pdu /\ pdu.kind # "sample"
  BY DEF Pdu, TypeOK
<1> HIDE DEF pdu
<1>3. pdu \in Delivered
  BY <1>2 DEF Delivered
<1>4. /\ \A i \in 1 .. Len(socket) : <<socket[i], pdu>> \in Behind
      /\ \A i \in 1 .. Len(net) : <<pdu, net[i]>> \in Behind
      /\ \A i \in 1 .. Len(samples) : <<samples[i], pdu>> \in BehindLate
  BY <1>2, InTimeTypes DEF Behind, BehindLate
<1>5. socket' \in Seq(Delivered) /\ Chain(Behind, socket')
  BY <1>1, <1>3, <1>4, AppendProperties, ChainAppend DEF InTime
<1>6. Cross(Behind, socket', net)
  BY <1>1, <1>3, <1>4, CrossAppend DEF InTime
<1>7. Cross(BehindLate, samples, socket')
  BY <1>1, <1>3, <1>4, CrossAppend DEF InTime
<1>8. QED
  BY <1>1, <1>5, <1>6, <1>7, StillInTime DEF InTime, Chain, Cross


\* A datagram is taken off the socket: what is left stands as it stood.
LEMMA SocketTaken ==
  ASSUME InTime, socket # <<>>
  PROVE  /\ Head(socket) \in Delivered
         /\ Tail(socket) \in Seq(Delivered)
         /\ Chain(Behind, Tail(socket))
         /\ Cross(Behind, Tail(socket), net)
         /\ Cross(BehindLate, samples, Tail(socket))
         /\ \A i \in 1 .. Len(Tail(socket)) : <<Head(socket), Tail(socket)[i]>> \in Behind
         /\ \A i \in 1 .. Len(net) : <<Head(socket), net[i]>> \in Behind
         /\ \A i \in 1 .. Len(samples) : <<samples[i], Head(socket)>> \in BehindLate
<1>1. /\ socket \in Seq(Delivered) /\ net \in Seq(Carried) /\ samples \in Seq(Queued)
      /\ Chain(Behind, socket) /\ Cross(Behind, socket, net)
      /\ Cross(BehindLate, samples, socket)
  BY DEF InTime
<1>2. Head(socket) \in Delivered /\ Tail(socket) \in Seq(Delivered)
  BY <1>1, TakeType
<1>3. /\ Chain(Behind, Tail(socket))
      /\ \A i \in 1 .. Len(Tail(socket)) : <<Head(socket), Tail(socket)[i]>> \in Behind
  BY <1>1, ChainTail
<1>4. /\ Cross(Behind, Tail(socket), net)
      /\ \A i \in 1 .. Len(net) : <<Head(socket), net[i]>> \in Behind
  BY <1>1, CrossTail
<1>5. /\ Cross(BehindLate, samples, Tail(socket))
      /\ \A i \in 1 .. Len(samples) : <<samples[i], Head(socket)>> \in BehindLate
  BY <1>1, CrossTail
<1>6. QED
  BY <1>2, <1>3, <1>4, <1>5

\* The listener queues a sample.  If its PDU came in time, it is presented no
\* later than it should be; if not, it was held back, and whatever comes behind
\* it is no older.
LEMMA LateNewPacket ==
  ASSUME DelayFits, TypeOK, InTime, socket # <<>>, socket' = Tail(socket),
         net' = net, now' = now,
         Head(socket).kind = "sample", NewPacket(Head(socket), now)
  PROVE  InTime'
<1> USE Constants
<1> DEFINE pdu == Head(socket)
           e == [id    |-> pdu.id,
                 ptime |-> pdu.ptime,
                 tspec |-> PresentationTime(pdu.avtp_time, now)]
<1>1. samples' = Append(samples, e)
  BY DEF NewPacket, ScheduleSample
<1>2. pdu.kind = "sample"
  OBVIOUS
<1>3. /\ pdu \in Delivered
      /\ socket' \in Seq(Delivered)
      /\ Chain(Behind, socket')
      /\ Cross(Behind, socket', net)
      /\ Cross(BehindLate, samples, socket')
      /\ \A i \in 1 .. Len(socket') : <<pdu, socket'[i]>> \in Behind
      /\ \A i \in 1 .. Len(net) : <<pdu, net[i]>> \in Behind
      /\ \A i \in 1 .. Len(samples) : <<samples[i], pdu>> \in BehindLate
  BY SocketTaken
<1> HIDE DEF pdu
<1>4. pdu \in Carried /\ pdu \in Pdu
  BY <1>2, <1>3 DEF Delivered
<1>5. /\ pdu.id \in Nat /\ pdu.ptime \in Nat /\ pdu.due \in Nat
      /\ pdu.avtp_time = ToAvtpTime(pdu.ptime)
      /\ pdu.ptime <= now + TransitTime
      /\ pdu.ptime <= pdu.due
      /\ now <= pdu.due
      /\ pdu.due <= pdu.ptime + Delay
  BY <1>4 DEF Carried, Pdu
<1>6. now \in Nat
  BY DEF TypeOK
<1>7. now <= pdu.ptime + Wrap
  BY <1>5, <1>6 DEF DelayFits
<1>8. /\ e.tspec \in Nat
      /\ now <= pdu.ptime => e.tspec <= pdu.ptime
      /\ e.tspec <= pdu.ptime + Wrap
  BY <1>5, <1>6, <1>7, Recovered
<1>9. e.ptime = pdu.ptime /\ e \in Sample
  BY <1>5, <1>8 DEF Sample
<1> HIDE DEF e
<1>10. e \in Queued
  BY <1>5, <1>6, <1>7, <1>8, <1>9 DEF Queued
<1>11. e.tspec > e.ptime => pdu.due > pdu.ptime
  BY <1>5, <1>6, <1>8, <1>9
<1>12. \A i \in 1 .. Len(socket') : <<e, socket'[i]>> \in BehindLate
  BY <1>2, <1>3, <1>9, <1>11 DEF Behind, BehindLate
<1>13. \A i \in 1 .. Len(net) : <<e, net[i]>> \in BehindLate
  BY <1>2, <1>3, <1>9, <1>11 DEF Behind, BehindLate
<1>14. \A i \in 1 .. Len(samples) : <<samples[i], e>> \in Waits
  <2>1. SUFFICES ASSUME NEW i \in 1 .. Len(samples)
                 PROVE  samples[i].tspec <= e.ptime + Wrap
    BY <1>9, InTimeTypes DEF Waits
  <2>2. /\ samples[i] \in Queued
        /\ samples[i].ptime \in Nat /\ samples[i].tspec \in Nat
    BY InTimeTypes DEF Sample
  <2>3. CASE samples[i].tspec > samples[i].ptime
    <3>1. samples[i].ptime <= pdu.ptime
      BY <1>2, <1>3, <2>3 DEF BehindLate
    <3>2. samples[i].tspec <= samples[i].ptime + Wrap
      BY <2>2 DEF Queued
    <3>3. pdu.ptime \in Nat /\ e.ptime = pdu.ptime
      BY <1>5, <1>9
    <3>4. QED
      BY <2>2, <3>1, <3>2, <3>3
  <2>4. CASE samples[i].tspec <= samples[i].ptime
    <3>1. samples[i].ptime <= now + TransitTime
      BY <2>2 DEF Queued
    <3>2. /\ pdu.ptime \in Nat /\ pdu.due \in Nat /\ e.ptime = pdu.ptime
          /\ now <= pdu.due /\ pdu.due <= pdu.ptime + Delay
      BY <1>5, <1>9
    <3>3. \A tspec, own, ptime, due \in Nat :
            tspec <= own /\ own <= now + TransitTime /\ now <= due /\ due <= ptime + Delay
              => tspec <= ptime + (TransitTime + Delay)
      BY <1>6
    <3>4. samples[i].tspec <= pdu.ptime + (TransitTime + Delay)
      BY <2>2, <2>4, <3>1, <3>2, <3>3
    <3>5. QED
      BY <2>2, <3>2, <3>4 DEF DelayFits
  <2>5. QED
    BY <2>2, <2>3, <2>4
<1>15. samples' \in Seq(Queued) /\ Chain(Waits, samples')
  BY <1>1, <1>10, <1>14, AppendProperties, ChainAppend DEF InTime
<1>16. Cross(BehindLate, samples', socket')
  <2>1. samples \in Seq(Queued)
    BY DEF InTime
  <2>2. QED
    BY <1>1, <1>3, <1>10, <1>12, <2>1, CrossAppend
<1>17. Cross(BehindLate, samples', net)
  BY <1>1, <1>10, <1>13, CrossAppend DEF InTime
<1>18. net' = net /\ now' = now
  OBVIOUS
<1>19. Carried' = Carried /\ Delivered' = Delivered /\ Queued' = Queued
  BY <1>18, StillInTime
<1>20. net \in Seq(Carried) /\ Chain(NotOlder, net)
  BY DEF InTime
<1>21. QED
  BY <1>3, <1>15, <1>16, <1>17, <1>18, <1>19, <1>20 DEF InTime, Chain, Cross

\* The sample at the head is presented: within a wrap of its time and the
\* listener's lateness.
LEMMA LatePlay ==
  ASSUME TypeOK, TimerServesHead, InTime, Play
  PROVE  InTime' /\ slip' <= Wrap + MaxLate
<1> USE Constants
<1>1. /\ samples # <<>> /\ samples' = Tail(samples)
      /\ slip' = now - Head(samples).ptime
      /\ net' = net /\ socket' = socket /\ now' = now
  BY TimeoutKeepsTimer DEF Play, Timeout
<1>2. Head(samples) \in Queued /\ samples' \in Seq(Queued)
  BY <1>1, TakeType DEF InTime
<1>3. slip' <= Wrap + MaxLate
  <2>1. Head(samples).ptime \in Nat /\ now <= Head(samples).ptime + Wrap + MaxLate
    BY <1>2 DEF Queued, Sample
  <2>2. QED
    BY <1>1, <2>1 DEF TypeOK
<1>4. Chain(Waits, samples')
  BY <1>1, ChainTail DEF InTime
<1>5. Cross(BehindLate, samples', socket) /\ Cross(BehindLate, samples', net)
  BY <1>1, CrossTail DEF InTime
<1>6. InTime'
  BY <1>1, <1>2, <1>4, <1>5, StillInTime DEF InTime, Chain, Cross
<1>7. QED
  BY <1>3, <1>6

\* A step that touches none of the queues.
LEMMA LateKept ==
  ASSUME InTime, UNCHANGED <<samples, socket, net, now>>
  PROVE  InTime'
BY StillInTime DEF InTime, Chain, Cross

LEMMA LateStep ==
  ASSUME DelayFits, TypeOK, TimerServesHead, LateInv, [Next]_vars
  PROVE  LateInv'
<1>1. CASE ~running
  <2>1. running' = FALSE /\ slip' = slip
    BY <1>1 DEF Next, vars, queueVars, Tick, Send, Arrive, PollReturns, Poll, Receive,
                NewPacket, DropPacket, Leave, Play, Timeout, PlayFails, Lose, Hold,
                Overtake, Stray, Finished, TypeOK, QueueTypeOK
  <2>2. QED
    BY <2>1 DEF LateInv
<1>2. CASE running
  <2>1. InTime /\ slip <= Wrap + MaxLate
    BY <1>2 DEF LateInv
  <2>2. ASSUME InTime', UNCHANGED slip
        PROVE  LateInv'
    BY <2>1, <2>2 DEF LateInv
  <2>3. CASE Tick
    BY <1>2, <2>1, <2>2, <2>3, LateTick DEF Tick
  <2>4. CASE Send
    BY <2>1, <2>2, <2>4, LateSend DEF Send
  <2>5. CASE Arrive
    BY <2>1, <2>2, <2>5, LateArrive DEF Arrive
  <2>6. CASE PollReturns
    BY <2>1, <2>2, <2>6, LateKept DEF PollReturns, Poll
  <2>7. CASE Receive
    <3>1. /\ socket # <<>> /\ socket' = Tail(socket)
          /\ UNCHANGED <<now, sent, net, faults, presented, slip>>
      BY <2>7 DEF Receive
    <3>2. CASE Head(socket).kind = "sample" /\ NewPacket(Head(socket), now)
      BY <2>1, <2>2, <3>1, <3>2, LateNewPacket
    <3>3. CASE DropPacket
      <4>1. samples' = samples
        BY <3>3 DEF DropPacket
      <4>2. InTime'
        BY <2>1, <3>1, <4>1, SocketTaken, StillInTime DEF InTime, Chain, Cross
      <4>3. QED
        BY <2>2, <3>1, <4>2
    <3>4. CASE Leave
      BY <2>1, <3>1, <3>4 DEF LateInv, Leave
    <3>5. QED
      BY <2>7, <3>2, <3>3, <3>4 DEF Receive
  <2>8. CASE Play
    BY <2>1, <2>8, LatePlay DEF LateInv
  <2>9. CASE PlayFails
    BY <2>1, <2>9 DEF PlayFails, Leave, LateInv
  <2>10. CASE Lose
    BY <2>1, <2>2, <2>10, LateLose DEF Lose
  <2>11. CASE Hold
    BY <2>1, <2>2, <2>11, LateHold DEF Hold
  <2>12. CASE Overtake
    BY <2>1, <2>2, <2>12, LateOvertake DEF Overtake
  <2>13. ASSUME NEW kind \in {"foreign", "short"}, Stray(kind)
         PROVE  LateInv'
    BY <2>1, <2>2, <2>13, LateStray DEF Stray
  <2>14. CASE UNCHANGED vars
    BY <2>1, <2>2, <2>14, LateKept DEF vars, queueVars
  <2>15. QED
    BY <2>3, <2>4, <2>5, <2>6, <2>7, <2>8, <2>9, <2>10, <2>11, <2>12, <2>13, <2>14
       DEF Next, Finished
<1>3. QED
  BY <1>1, <1>2

\* Whatever is lost, held back or overtaken, no sample is presented more than a
\* wrap of the timestamp, and the listener's lateness, after the talker's time
\* for it.
THEOREM LateByOneWrap ==
  ASSUME DelayFits
  PROVE  Spec => []LateAtMostOneWrap
<1>1. Init => LateInv
  <2>1. SUFFICES ASSUME Init PROVE LateInv
    OBVIOUS
  <2>2. /\ samples = <<>> /\ socket = <<>> /\ net = <<>> /\ slip = 0
    BY <2>1 DEF Init, QueueInit
  <2>3. samples \in Seq(Queued) /\ net \in Seq(Carried) /\ socket \in Seq(Delivered)
    BY <2>2, EmptySeq
  <2>4. InTime
    BY <2>2, <2>3 DEF InTime, Chain, Cross
  <2>5. slip <= Wrap + MaxLate
    BY <2>2, Constants
  <2>6. QED
    BY <2>4, <2>5 DEF LateInv
<1>2. TypeOK /\ TimerServesHead /\ LateInv /\ [Next]_vars => LateInv'
  BY LateStep
<1>3. LateInv => LateAtMostOneWrap
  BY DEF LateInv, LateAtMostOneWrap
<1>4. QED
  BY <1>1, <1>2, <1>3, TypeCorrect, TimerAlwaysServesHead, PTL DEF Spec

=============================================================================
