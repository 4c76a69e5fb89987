---------------------------- MODULE ClockControl ----------------------------
(***************************************************************************)
(* crf-listener-rpi.c as a control loop: main() opens a media clock, its   *)
(* receiver judges the PDUs of a stream, the phase errors of the edges     *)
(* that are paired go through the servo to the divider, and the divider    *)
(* moves the phase.  How edges and timestamps are paired is CrfPath; here  *)
(* one step is one edge period and pairing is the phase window alone.      *)
(*                                                                         *)
(* The option --freeze is left out, and so is all that only logs.          *)
(***************************************************************************)
EXTENDS PiServo, ClockBackend, PduParse

CONSTANTS
  SampleTime,       \* an edge period of local time
  PhaseUnit,        \* the phase, in units of frequency * edge period, that
                    \* makes one unit of phase error
  Tolerance,        \* edge_tolerance_ns: half an edge period
  Drifts,           \* by how much the uncorrected clock may be slow or fast
  Phases,           \* how far the first pair may be apart, either way
  Jumps,            \* by how much the talker may shift its media clock
  MaxDisturbances,  \* how often that happens, a sample is lost, or a datagram strays
  Oddities          \* what may be odd about a datagram of the stream

ASSUME ControlAssumption ==
  /\ SampleTime \in Nat \ {0}
  /\ PhaseUnit \in Nat \ {0}
  /\ SampleTime * PhaseUnit = Giga
  /\ Tolerance \in Nat
  /\ Drifts \subseteq Nat
  /\ Phases \subseteq Nat
  /\ Jumps \subseteq Nat
  /\ MaxDisturbances \in Nat
  /\ Oddities \subseteq {"nothing", "length", "subtype", "stream_id"}
                       \cup {CrfChecks[i].field : i \in DOMAIN CrfChecks}

\* The corrections the servo can ask for are within what either divider can
\* do, and none is just between two codes.
ASSUME DividerAssumption ==
  /\ Sub % 2 = 1
  /\ \A ppb \in -MaxPpb .. MaxPpb :
       InReach(ppb) /\ ~OutOfRange(ppb) /\ InCodes(ppb)

\* The phase window of the listener is narrower than a step of the servo.
ASSUME WindowAssumption == StepThreshold = 0 \/ Tolerance <= StepThreshold

VARIABLES
  running,        \* no signal has been handled
  strict,         \* the mode of the receiver
  oddity,         \* what is odd about the stream
  reported,       \* the field report_mismatch() has named
  seen,           \* what was odd about the datagrams of the stream so far
  synchronized,
  phase,          \* of the next edge, after its timestamp
  slow,           \* by how much the uncorrected clock is slow
  missed,         \* edge periods without a sample while the servo acquires
  disturbances,   \* so far
  displaced,      \* by how much the phase was moved while the servo acquires
  in_reach,       \* the slewing gain reaches from its last seed to the frequency
  owed            \* of all corrections, what a dithered divider fell short of

loopVars == <<synchronized, phase, slow, missed, disturbances, displaced,
              in_reach, owed>>
parseVars == <<strict, oddity, reported, seen>>
vars == <<clockVars, servoVars, parseVars, loopVars, running>>

Init ==
  /\ BackendInit
  /\ ServoInit
  /\ running = TRUE
  /\ strict \in BOOLEAN
  /\ oddity \in Oddities
  /\ reported = "nothing"
  /\ seen = {}
  /\ synchronized = FALSE
  /\ phase = 0
  /\ slow = 0
  /\ missed = 0
  /\ disturbances = 0
  /\ displaced = 0
  /\ in_reach = TRUE
  /\ owed = 0

-----------------------------------------------------------------------------

EitherWay(S) == S \cup {-n : n \in S}

\* main() reaches its loop with a clock that is open.
InLoop == clock_state = "open" /\ running

\* The difference between an edge and its timestamp.
Offset == phase \div PhaseUnit

Period == 2 * Tolerance + 1

\* on_crf_timestamps() takes the pair for one.
InWindow == Magnitude(Offset) <= Tolerance

\* Of the edges around a timestamp, the one in the window.
Nearest(p) == ((p + Tolerance * PhaseUnit) % (Period * PhaseUnit)) - Tolerance * PhaseUnit

\* The phase one edge period later.
Later == phase + slow - Applied

\* The time since the servo's last sample.
Elapsed == (missed + 1) * SampleTime

\* A loop that slews at the threshold overtakes the drift that was not seeded.
Reaches(seed) == Magnitude(slow - seed) <= SlewKp * SlewThresh

\* The next call of open().  The servo and the receiver are created after it.
OpenNext ==
  /\ Succeeds
  /\ IF clock_state' = "open"
       THEN phase' \in EitherWay(Phases) /\ slow' \in EitherWay(Drifts)
       ELSE UNCHANGED <<phase, slow>>
  /\ UNCHANGED <<servoVars, parseVars, running, synchronized, missed, disturbances,
                 displaced, in_reach, owed>>

OpenFails == Fails /\ UNCHANGED <<servoVars, parseVars, loopVars, running>>

OpenSleeps == Oversleeps /\ UNCHANGED <<servoVars, parseVars, loopVars, running>>

\* SIGINT and SIGTERM have handlers before open() is called.  In the loop a
\* signal is one of the reasons to stop.
Signal ==
  /\ \/ clock_state = "opening" /\ running /\ UNCHANGED clockVars
     \/ Awakes
  /\ running' = FALSE
  /\ UNCHANGED <<servoVars, parseVars, loopVars>>

\* Creating the servo or the receiver failed, select() did, or a signal came.
Stop ==
  /\ Close
  /\ UNCHANGED <<servoVars, parseVars, loopVars, running>>

-----------------------------------------------------------------------------

\* crf_receiver_process() on a datagram: what it reports.
Receives(odd) ==
  /\ InLoop
  /\ reported' = Reported(reported, Datagram(odd), CrfChecks, strict)
  /\ seen' = seen \cup {odd}
  /\ UNCHANGED <<strict, oddity, running>>

Turned(odd) == Verdict(Datagram(odd), CrfChecks, strict) # "OK"

\* A PDU of the stream that is turned away,
TurnAway ==
  /\ Turned(oddity)
  /\ Receives(oddity)
  /\ UNCHANGED <<clockVars, servoVars, loopVars>>

\* and what others send.
Stray ==
  /\ disturbances < MaxDisturbances
  /\ disturbances' = disturbances + 1
  /\ \E odd \in Oddities : Turned(odd) /\ Receives(odd)
  /\ UNCHANGED <<clockVars, servoVars, synchronized, phase, slow, missed, displaced,
                 in_reach, owed>>

\* A PDU of the stream that is not.
Accept ==
  /\ ~Turned(oddity)
  /\ Receives(oddity)

\* The clock runs on, and no sample comes of it.
NoSample(resynchronized, later) ==
  /\ synchronized' = resynchronized
  /\ phase' = later
  /\ UNCHANGED <<slow, in_reach, owed, clockVars, servoVars>>

\* A pair for the servo, and its answer for the divider.
Track ==
  /\ Accept
  /\ synchronized
  /\ InWindow
  /\ Sample(Offset, Elapsed)
  /\ IF Locked'
       THEN /\ Adjust(last_freq')
            /\ owed' = IF backend = "cm4" THEN owed + last_freq' - Applied' ELSE owed
       ELSE UNCHANGED <<clockVars, owed>>
  /\ phase' = Later
  /\ missed' = 0
  /\ displaced' = IF count' = 1 THEN displaced ELSE 0
  /\ in_reach' = IF count = 1 /\ count' = 2 THEN Reaches(drift') ELSE in_reach
  /\ UNCHANGED <<synchronized, slow, disturbances>>

\* A pair out of the window.
LoseSync ==
  /\ Accept
  /\ synchronized
  /\ ~InWindow
  /\ NoSample(FALSE, Later)
  /\ missed' = IF count = 1 THEN missed + 1 ELSE 0
  /\ UNCHANGED <<disturbances, displaced>>

\* synchronize() finds an edge in the window; the pair is not for the servo.
Synchronize ==
  /\ Accept
  /\ ~synchronized
  /\ NoSample(TRUE, Nearest(phase) + slow - Applied)
  /\ missed' = IF count = 1 THEN missed + 1 ELSE 0
  /\ displaced' = IF count = 1 THEN displaced + Nearest(phase) - phase ELSE displaced
  /\ UNCHANGED disturbances

\* A PDU or an edge is missing.
Miss ==
  /\ InLoop
  /\ disturbances < MaxDisturbances
  /\ disturbances' = disturbances + 1
  /\ NoSample(synchronized, Later)
  /\ missed' = IF count = 1 THEN missed + 1 ELSE 0
  /\ UNCHANGED <<parseVars, running, displaced>>

\* The talker's media clock restarts.  Its PDUs may say so (mr), and no listener
\* looks.
Jump ==
  /\ InLoop
  /\ disturbances < MaxDisturbances
  /\ disturbances' = disturbances + 1
  /\ \E j \in EitherWay(Jumps) :
       /\ NoSample(synchronized, phase + j * PhaseUnit)
       /\ displaced' = IF count = 1 THEN displaced + j * PhaseUnit ELSE displaced
  /\ UNCHANGED <<parseVars, running, missed>>

Loop == Track \/ LoseSync \/ Synchronize

Next ==
  \/ OpenNext \/ OpenFails \/ OpenSleeps \/ Signal \/ Stop
  \/ TurnAway \/ Stray \/ Track \/ LoseSync \/ Synchronize
  \/ Miss \/ Jump

Spec == Init /\ [][Next]_vars

\* The stream and the edges go on, and the process is left alone.
FairSpec == Spec /\ WF_vars(Loop)
-----------------------------------------------------------------------------

TypeOK ==
  /\ BackendTypeOK
  /\ ServoTypeOK
  /\ running \in BOOLEAN
  /\ strict \in BOOLEAN
  /\ oddity \in Oddities
  /\ reported \in Oddities \cup {"nothing"}
  /\ seen \subseteq Oddities
  /\ synchronized \in BOOLEAN
  /\ phase \in Int
  /\ slow \in Int
  /\ missed \in Nat
  /\ disturbances \in 0 .. MaxDisturbances
  /\ displaced \in Int
  /\ in_reach \in BOOLEAN
  /\ owed \in Int

Tracking == clock_state = "open" /\ count = 2

\* What the servo asks for stays in its bounds, and what the divider makes of
\* it stays within a code.  Of all it ever asked for a dithered divider owes
\* less than half a code, however many fractions it has rounded.
CorrectionCarried ==
  /\ CorrectionBounded
  /\ 2 * Magnitude(owed) < Sub
  /\ Tracking /\ backend = "cm4" => Magnitude(Applied - last_freq) < Sub
  /\ Tracking /\ backend = "rpi5" => 2 * Magnitude(Applied - last_freq) <= Lsb

\* The integrator is seeded with the frequency error, rounded, whatever samples
\* are missing in between, and with what moved the phase meanwhile: a restarted
\* media clock, or an edge taken for another, is spread over the time it took.
SeedIsSlope ==
  [][count = 1 /\ count' = 2 =>
       LET periods == (age + Elapsed) \div SampleTime
           slope == slow - Applied + displaced \div periods
       IN periods * Magnitude(drift' - Clamped(slope)) < PhaseUnit + periods]_vars

\* A loop whose seed the slewing gain reaches from ends up in the range of the
\* integrator, and is never parked out of it, whatever moved its phase.
PhaseCaptured ==
  <>[](InLoop /\ count = 2 /\ in_reach) => <>[](Magnitude(Offset) <= SlewThresh)

\* The place of a call in open().
Place(call) == CHOOSE i \in DOMAIN Calls : Calls[i] = call

\* open() that failed, and close(), leave no memory, descriptor or mapping,
\* and of what they had begun to drive nothing is driven any more.
NothingLeft ==
  clock_state = "closed" =>
    /\ owned = {}
    /\ backend = "cm4" /\ at > Place("phc_open") => ~armed \/ unheard
    /\ backend = "cm4" /\ at > Place("pwm_clock") => ~output /\ clock = "stopped"
    /\ backend = "rpi5" /\ at > Place("rp1_clock") => frac = 0 /\ ~oe /\ gp0 = "off"

\* Whatever fails, no half of the PLL is on before all of its configuration is
\* written; and a clock that is open has been configured to the last call.
PllConfigured ==
  /\ known /\ enabled # {} => Configuration \subseteq programmed
  /\ clock_state = "open" /\ backend = "cm4" =>
       /\ enabled = Enables
       /\ output /\ clock = "running" /\ armed
  /\ clock_state = "open" /\ backend = "rpi5" => oe /\ gp0 = "ours" /\ pll # "off"

\* Something is reported just when a PDU of the stream was not the profile's,
\* accepted or not; what other streams send is never reported.
MismatchReported ==
  LET ours == seen \ {"nothing", "length", "subtype", "stream_id"}
  IN IF ours = {} THEN reported = "nothing" ELSE reported \in ours

\* The seed of the integrator is in reach of the slewing gain: what the header
\* of the servo says of every frequency estimate.
SeedInReach ==
  [][count # 2 /\ count' = 2 => Reaches(drift')]_vars
=============================================================================
