----------------------------- MODULE DelayLine -----------------------------
(***************************************************************************)
(* What the AVTP stream examples promise, the distributed delay line: a    *)
(* sample the talker takes at time t is presented at t + TransitTime, to   *)
(* within the listener's scheduling, in order, or lost by the network.     *)
(***************************************************************************)
EXTENDS Integers

CONSTANTS
  TransitTime,   \* the talker's max_transit_time
  MaxLate        \* how late the listener's process may be

VARIABLES
  now,
  sent,       \* samples taken so far, the number of the next one
  pending,    \* those neither presented nor lost, with their times
  presented   \* the number of the last one presented

vars == <<now, sent, pending, presented>>

Init ==
  /\ now = 0
  /\ sent = 0
  /\ pending = {}
  /\ presented = -1

\* No sample may be overdue when time passes.
Tick ==
  /\ \A s \in pending : now < s.ptime + MaxLate
  /\ now' = now + 1
  /\ UNCHANGED <<sent, pending, presented>>

Take ==
  /\ pending' = pending \cup {[id |-> sent, ptime |-> now + TransitTime]}
  /\ sent' = sent + 1
  /\ UNCHANGED <<now, presented>>

\* The oldest sample is presented, at its time.
Present ==
  \E s \in pending :
    /\ \A o \in pending : s.id <= o.id
    /\ presented < s.id
    /\ s.ptime <= now /\ now <= s.ptime + MaxLate
    /\ pending' = pending \ {s}
    /\ presented' = s.id
    /\ UNCHANGED <<now, sent>>

Lose ==
  \E s \in pending :
    /\ pending' = pending \ {s}
    /\ UNCHANGED <<now, sent, presented>>

Next == Tick \/ Take \/ Present \/ Lose

Safety == Init /\ [][Next]_vars

\* A sample whose time has come does not stay: presented, or lost.
Spec == Safety /\ WF_vars(Present)
=============================================================================
