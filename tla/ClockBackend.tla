---------------------------- MODULE ClockBackend ----------------------------
(***************************************************************************)
(* mc-bcm2711.c ("cm4") and mc-rp1.c ("rpi5"): open() as the sequence of   *)
(* its calls, each of which may fail, what a failure unwinds, and close(). *)
(* media-clock.c lists the first alone; the second is the alternative the  *)
(* same interface was written for.                                         *)
(***************************************************************************)
EXTENDS PwmClock, Cs2600, Rp1Clock

VARIABLES
  backend,      \* "cm4" or "rpi5"
  clock_state,  \* "opening", "asleep", "open" or "closed"
  at,           \* the call of open() to be made next
  owned,        \* memory, descriptors and mappings
  armed,        \* SDP0 captures edges
  unheard       \* the request to stop capturing has failed

backendVars == <<backend, clock_state, at, owned, armed, unheard>>
clockVars == <<backendVars, pwmVars, multiplierVars, rp1Vars>>

\* What a call gives to the process bears the name of the call, or of the
\* region it maps; "pwm_clock" and "rp1_clock" are handles put in place when
\* an init function returns.
Cm4Calls ==
  <<"calloc", "phc_open", "pwm_calloc", "devmem", "GPIO", "PWM", "CLK",
    "pwm_clock", "prepare", "on_second", "cs2600_open", "check_id", "reset">>
  \o Registers \o
  <<"wait_lock", "pin_setfunc", "extts_enable">>

Rp1Calls ==
  <<"calloc", "tai_offset", "chip", "line", "rp1_calloc", "devmem", "clocks_main",
    "rp1_clock", "enable">>

Calls == IF backend = "cm4" THEN Cm4Calls ELSE Rp1Calls
Call == Calls[at]

Maps == {"devmem", "GPIO", "PWM", "CLK", "clocks_main"}
Resources == Maps \cup {"calloc", "phc_open", "pwm_calloc", "pwm_clock", "cs2600_open",
                        "chip", "line", "rp1_calloc", "rp1_clock"}

\* The hardware of a backend is as an earlier process has left it; that of the
\* other is not there, and stands for nothing.
BackendInit ==
  /\ backend \in {"cm4", "rpi5"}
  /\ clock_state = "opening"
  /\ at = 1
  /\ owned = {}
  /\ armed \in {FALSE, backend = "cm4"}
  /\ unheard = FALSE
  /\ PwmInit
  /\ MultiplierInit
  /\ Rp1Init
  /\ backend = "rpi5" => pin = "other" /\ ~output /\ clock = "stopped" /\ enabled = {}
  /\ backend = "cm4" => frac = 0 /\ pll = "off" /\ gp0 = "off"

-----------------------------------------------------------------------------

\* What a successful call does to the hardware.
Pwm(call) ==
  CASE call = "pwm_clock" -> RoutePin
    [] call = "prepare"   -> Prepare
    [] call = "on_second" -> EnableOutput
    [] OTHER              -> UNCHANGED pwmVars

Multiplier(call) ==
  CASE call = "reset" -> ResetMultiplier
    [] call \in {Registers[i] : i \in DOMAIN Registers} -> WriteRegister(call)
    [] OTHER -> UNCHANGED multiplierVars

Rp1(call) ==
  CASE call = "rp1_clock" -> ProgramPll
    [] call = "enable"    -> EnableClocks
    [] OTHER              -> UNCHANGED rp1Vars

\* And to the process.  The chip is closed once the line is there.
Gained(call) ==
  IF call = "line" THEN (owned \ {"chip"}) \cup {"line"}
                   ELSE owned \cup ({call} \cap Resources)

\* The next call of open() succeeds.  Before SDP0 gets its function any
\* capture is stopped, whether that works or not.
Succeeds ==
  /\ clock_state = "opening"
  /\ Pwm(Call) /\ Multiplier(Call) /\ Rp1(Call)
  /\ owned' = Gained(Call)
  /\ CASE Call = "extts_enable" -> armed' = TRUE
       [] Call = "pin_setfunc"  -> armed' \in {FALSE, armed}
       [] OTHER                 -> UNCHANGED armed
  /\ IF at = Len(Calls)
       THEN clock_state' = "open" /\ UNCHANGED at
       ELSE at' = at + 1 /\ UNCHANGED clock_state
  /\ UNCHANGED <<backend, unheard>>

\* pwm_enable_on_second() has read the clock within the margin of the next
\* second: its wait, an unsigned difference, lasts for centuries.
Oversleeps ==
  /\ clock_state = "opening"
  /\ Call = "on_second"
  /\ clock_state' = "asleep"
  /\ UNCHANGED <<backend, at, owned, armed, unheard, pwmVars, multiplierVars, rp1Vars>>

\* A signal ends the sleep, and the second has passed.
Awakes ==
  /\ clock_state = "asleep"
  /\ clock_state' = "opening"
  /\ at' = at + 1
  /\ EnableOutput
  /\ UNCHANGED <<backend, owned, armed, unheard, multiplierVars, rp1Vars>>

-----------------------------------------------------------------------------

\* What a failing call releases before open() hears of it: devmem_map() its
\* mappings, and those who called it the memory they had got.
ReleasedByCall(call) ==
  CASE call = "line" -> {"chip"}
    [] call \in Maps \cup {"rp1_clock"} -> Maps \cup {"pwm_calloc", "rp1_calloc"}
    [] OTHER -> {}

\* A defect the model can be run with: the bus stays open.
ReleasedButBus ==
  {"calloc", "phc_open", "line"}
  \cup (IF "pwm_clock" \in owned THEN Maps \cup {"pwm_calloc", "pwm_clock"} ELSE {})
  \cup (IF "rp1_clock" \in owned THEN Maps \cup {"rp1_calloc", "rp1_clock"} ELSE {})

\* What bcm2711_close_priv() and rp1_close_priv() release: for the PWM and the
\* PLL of the RP1 what their cleanup functions do, if there is a handle.
ReleasedByClose ==
  {"calloc", "phc_open", "cs2600_open", "line"}
  \cup (IF "pwm_clock" \in owned THEN Maps \cup {"pwm_calloc", "pwm_clock"} ELSE {})
  \cup (IF "rp1_clock" \in owned THEN Maps \cup {"rp1_calloc", "rp1_clock"} ELSE {})

\* The capture is stopped while there is a descriptor to ask through.
Disarm ==
  IF "phc_open" \notin owned THEN UNCHANGED <<armed, unheard>>
  ELSE \/ armed' = FALSE /\ UNCHANGED unheard
       \/ UNCHANGED armed /\ unheard' = TRUE

\* What it does to the hardware, and after it cleanup() if there is a handle.
PwmFails(call) ==
  CASE call = "prepare" -> PrepareFails
    [] call # "prepare" /\ "pwm_clock" \in owned -> StopClock
    [] OTHER -> UNCHANGED pwmVars

\* The chip may have taken a write that is reported as failed.
MultiplierFails(call) == Multiplier(call) \/ UNCHANGED multiplierVars

Rp1Fails(call) ==
  CASE call = "rp1_clock" -> PllFails
    [] call = "enable"    -> EnableFails
    [] OTHER              -> UNCHANGED rp1Vars

\* The next call fails, and with it open().
Fails ==
  /\ clock_state = "opening"
  /\ Call \notin {"pwm_clock", "on_second"}
  /\ PwmFails(Call) /\ MultiplierFails(Call) /\ Rp1Fails(Call)
  /\ Disarm
  /\ owned' = (owned \ ReleasedByCall(Call)) \ ReleasedByClose
  /\ clock_state' = "closed"
  /\ UNCHANGED <<backend, at>>

\* close()
Close ==
  /\ clock_state = "open"
  /\ IF "pwm_clock" \in owned THEN StopClock ELSE UNCHANGED pwmVars
  /\ IF "rp1_clock" \in owned THEN CleanUpClocks ELSE UNCHANGED rp1Vars
  /\ UNCHANGED multiplierVars
  /\ Disarm
  /\ owned' = owned \ ReleasedByClose
  /\ clock_state' = "closed"
  /\ UNCHANGED <<backend, at>>

\* adjust()
Adjust(ppb) ==
  /\ clock_state = "open"
  /\ CASE backend = "cm4"  -> AdjustPwm(ppb) /\ UNCHANGED rp1Vars
       [] backend = "rpi5" -> AdjustPll(ppb) /\ UNCHANGED pwmVars
  /\ UNCHANGED <<backendVars, multiplierVars>>

\* What the hardware makes of that, in units of the servo.
Applied == IF backend = "cm4" THEN Nominal - word ELSE frac * Lsb

BackendTypeOK ==
  /\ backend \in {"cm4", "rpi5"}
  /\ clock_state \in {"opening", "asleep", "open", "closed"}
  /\ at \in DOMAIN Calls
  /\ owned \subseteq Resources
  /\ armed \in BOOLEAN
  /\ unheard \in BOOLEAN
  /\ PwmTypeOK
  /\ MultiplierTypeOK
  /\ Rp1TypeOK
=============================================================================
