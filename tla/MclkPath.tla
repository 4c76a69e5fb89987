------------------------------- MODULE MclkPath -------------------------------
(***************************************************************************)
(* One media clock in three programs: crf-talker.c sends its timestamps,   *)
(* crf-listener.c sends AAF PDUs timed by them on one host, and checks     *)
(* those PDUs against them on another.  The hosts share PTP time.  The     *)
(* network may lose PDUs and be late with them, but keeps their order.     *)
(***************************************************************************)
EXTENDS MclkTalker, MclkListener

CONSTANTS
  Start,        \* when the CRF talker is started
  CrfTransit,   \* its mtt
  MaxLate,      \* how late the AAF talker's process may be with its timer
  FaultKinds,   \* the faults that may happen, a subset of AllFaultKinds
  MaxFaults,    \* how many of them
  Delay,        \* how much later than promised a late PDU may be
  MaxNow        \* when the run ends

AllFaultKinds == {"crf_loss", "aaf_loss", "late", "invalid"}

ASSUME MclkPathAssumption ==
  /\ Start \in Nat \ {0}
  /\ CrfTransit \in Nat
  /\ MaxLate \in Nat
  /\ FaultKinds \subseteq AllFaultKinds
  /\ MaxFaults \in Nat
  /\ Delay \in Nat
  /\ MaxNow \in Nat

VARIABLES
  now,          \* PTP time
  clksrc,       \* clksrc_ts: when the next CRF PDU is due
  toTalker,     \* CRF PDUs on their way to the AAF talker
  toListener,   \* and to the AAF listener
  aaf,          \* AAF PDUs on their way
  faults,       \* faults so far
  stamped,      \* the whole timestamp of the last AAF PDU sent, 0 before
  verified,     \* the whole timestamp of the last AAF PDU checked, 0 before
  undisturbed   \* nothing was lost, and CRF was heard before AAF

vars == <<talkerVars, listenerVars, now, clksrc, toTalker, toListener, aaf,
          faults, stamped, verified, undisturbed>>

CrfPdu == [ts : Nat, due : Nat]
AafPdu == [avtp_time : 0 .. Wrap - 1, stamp : Nat, expired : Nat, due : Nat]

Init ==
  /\ MclkTalkerInit
  /\ MclkListenerInit
  /\ now = Start
  /\ clksrc = Start
  /\ toTalker = <<>>
  /\ toListener = <<>>
  /\ aaf = <<>>
  /\ faults = 0
  /\ stamped = 0
  /\ verified = 0
  /\ undisturbed = TRUE

-----------------------------------------------------------------------------

Fault(kind) ==
  /\ kind \in FaultKinds
  /\ faults < MaxFaults
  /\ faults' = faults + 1

Pending(queue) == queue # <<>> => now < Head(queue).due

\* The network keeps its promise but for the faults, and the processes run.
OnTime ==
  /\ now < clksrc
  /\ running => /\ Pending(toTalker)
                /\ timer # NotArmed => now < timer + MaxLate
  /\ ~searching => Pending(toListener) /\ Pending(aaf)

Tick ==
  /\ OnTime
  /\ now < MaxNow
  /\ now' = now + 1
  /\ UNCHANGED <<talkerVars, listenerVars, clksrc, toTalker, toListener, aaf,
                 faults, stamped, verified, undisturbed>>

\* One turn of crf-talker's loop.
SendCrf ==
  /\ clksrc <= now
  /\ LET pdu == [ts |-> clksrc + CrfTransit, due |-> clksrc + CrfTransit]
     IN /\ toTalker' = Append(toTalker, pdu)
        /\ toListener' = Append(toListener, pdu)
  /\ clksrc' = clksrc + PerCrf
  /\ UNCHANGED <<talkerVars, listenerVars, now, aaf, faults, stamped, verified, undisturbed>>

TalkerRecvCrf ==
  /\ toTalker # <<>>
  /\ RecvCrf(Head(toTalker).ts)
  /\ toTalker' = Tail(toTalker)
  /\ UNCHANGED <<listenerVars, now, clksrc, toListener, aaf, faults, stamped, verified,
                 undisturbed>>

\* The AAF talker's timer expired.
TalkerTxTimeout ==
  /\ TxTimeout(now)
  /\ aaf' = aaf \o Sent(now)
  /\ stamped' = Last(Sent(now)).stamp
  /\ UNCHANGED <<listenerVars, now, clksrc, toTalker, toListener, faults, verified,
                 undisturbed>>

ListenerRecvCrf ==
  /\ toListener # <<>>
  /\ HandleCrf(Head(toListener).ts)
  /\ toListener' = Tail(toListener)
  /\ UNCHANGED <<talkerVars, now, clksrc, toTalker, aaf, faults, stamped, verified, undisturbed>>

ListenerRecvAaf ==
  /\ aaf # <<>>
  /\ HandleAaf(Head(aaf).avtp_time) \/ SearchForEver
  /\ aaf' = Tail(aaf)
  /\ verified' = Head(aaf).stamp
  /\ undisturbed' = (undisturbed /\ ~Blind)
  /\ UNCHANGED <<talkerVars, now, clksrc, toTalker, toListener, faults, stamped>>

-----------------------------------------------------------------------------

LoseCrf ==
  /\ Fault("crf_loss")
  /\ \/ \E i \in DOMAIN toTalker :
          toTalker' = RemoveAt(toTalker, i) /\ UNCHANGED toListener
     \/ \E i \in DOMAIN toListener :
          toListener' = RemoveAt(toListener, i) /\ UNCHANGED toTalker
  /\ undisturbed' = FALSE
  /\ UNCHANGED <<talkerVars, listenerVars, now, clksrc, aaf, stamped, verified>>

LoseAaf ==
  /\ Fault("aaf_loss")
  /\ \E i \in DOMAIN aaf : aaf' = RemoveAt(aaf, i)
  /\ undisturbed' = FALSE
  /\ UNCHANGED <<talkerVars, listenerVars, now, clksrc, toTalker, toListener, stamped, verified>>

\* The head of a queue takes longer, and all behind it wait.
Hold(queue) == [queue EXCEPT ![1].due = @ + Delay]

BeLate ==
  /\ Fault("late")
  /\ \/ toTalker # <<>> /\ toTalker' = Hold(toTalker) /\ UNCHANGED <<toListener, aaf>>
     \/ toListener # <<>> /\ toListener' = Hold(toListener) /\ UNCHANGED <<toTalker, aaf>>
     \/ aaf # <<>> /\ aaf' = Hold(aaf) /\ UNCHANGED <<toTalker, toListener>>
  /\ UNCHANGED <<talkerVars, listenerVars, now, clksrc, stamped, verified, undisturbed>>

\* A datagram of a CRF PDU's size that is none reaches the AAF talker.
InvalidDatagram ==
  /\ Fault("invalid")
  /\ RecvInvalid
  /\ UNCHANGED <<listenerVars, now, clksrc, toTalker, toListener, aaf, stamped, verified,
                 undisturbed>>

-----------------------------------------------------------------------------

\* The run ends.
Finished == now = MaxNow /\ UNCHANGED vars

Next ==
  \/ Tick
  \/ SendCrf
  \/ TalkerRecvCrf
  \/ TalkerTxTimeout
  \/ ListenerRecvCrf
  \/ ListenerRecvAaf
  \/ LoseCrf
  \/ LoseAaf
  \/ BeLate
  \/ InvalidDatagram
  \/ Finished

Spec == Init /\ [][Next]_vars

-----------------------------------------------------------------------------

TypeOK ==
  /\ clock \in Clock /\ heard \in Clock
  /\ timer \in Nat
  /\ running \in BOOLEAN /\ aligned \in BOOLEAN /\ searching \in BOOLEAN
  /\ now \in Nat /\ clksrc \in Nat /\ stamped \in Nat /\ verified \in Nat
  /\ toTalker \in Seq(CrfPdu) /\ toListener \in Seq(CrfPdu) /\ aaf \in Seq(AafPdu)
  /\ faults \in 0 .. MaxFaults
  /\ undisturbed \in BOOLEAN

\* No list of a media clock holds a timestamp twice, out of order or behind what
\* was used of it (recover_mclk()).
ListsIncrease ==
  \A c \in {clock, heard} :
    \A i \in DOMAIN c.list :
      c.list[i] > IF i = 1 THEN c.prev ELSE c.list[i - 1]

\* Late timestamps are discarded and missing ones made up (recover_mclk(),
\* get_next_mclk_timestamp()): whatever is lost or late, each AAF PDU is stamped
\* at least a period after the one before.
MediaClockAdvances ==
  [][\A i \in Len(aaf) + 1 .. Len(aaf') :
       aaf'[i].stamp > IF i = Len(aaf) + 1 THEN stamped ELSE aaf'[i - 1].stamp]_vars

\* The stamp of an AAF PDU lies a period ahead of the expiration it was sent for,
\* or more once PDUs were lost, but then by no more than both transit times and
\* what the process and the network were late (aaf_talker_tx_timeout(),
\* aaf_talker_recv_pdu()).
StampLead ==
  \A i \in DOMAIN aaf :
    LET lead == aaf[i].stamp - aaf[i].expired
    IN /\ lead >= 1
       /\ lead > 1 => lead <= CrfTransit + AafTransit + MaxLate + faults * Delay

\* Late PDUs cost nothing: as long as none is lost, and the listener has heard
\* CRF before AAF, every PDU is stamped one period after its expiration, and
\* found on the media clock where it is (crf-listener.c, lines 626-636).
LatenessHarmless ==
  undisturbed =>
    /\ \A i \in DOMAIN aaf : aaf[i].stamp = aaf[i].expired + 1
    /\ verified # 0 => aligned /\ heard.prev = verified

\* The listener "checks if their presentation time is aligned with the clock
\* reference provided by the CRF stream" (crf-listener.c, line 41): all of them
\* are, as all are timestamps of it.
VerdictTrue == verified # 0 => aligned
=============================================================================
