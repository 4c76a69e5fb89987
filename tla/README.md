# Verification of the libavtp demos

TLA+ models of the programs in this repository, checked with TLC on small
instances and proved about, where section 4 says so, with TLAPS. Paths are
relative to the repository's top directory; `rpi/` stands for
`src/examples/hw-demos/rpi/`.

## 1. The system

The repository is a C library for the PDUs of IEEE 1722 (`src/src`), a set of
talker and listener examples (`src/examples`), and a hardware demonstration on
two Raspberry Pis (`rpi/`) in which a media clock is recovered from a CRF stream.

| Part | Source | State it keeps | Operations | How it meets the others |
|---|---|---|---|---|
| CRF talker | `rpi/crf-talker-rpi.c` | half-filled PDU (`ts_idx`), `seq_num`, `stall_count`, extts channel | read an edge, fill and send a PDU, select timeout, re-arm, link bounce | edges from its NIC, PDUs to the network |
| CRF receiver | `rpi/common/crf-receiver.c` | `first_packet`, `expected_seq_num`, counters | process, wait for the first PDU | callbacks `on_drop`, `on_timestamps` into the listener |
| CRF listener | `rpi/crf-listener-rpi.c` | `synchronized`, edges in the kernel FIFO | synchronise, pair, drain on drop, edge timeout | the receiver's callbacks, `edge_read` of a clock backend, the servo |
| Servo | `rpi/common/pi-servo.c` | `count`, `drift`, two samples | sample, reset | called by the listener, steers a backend |
| Clock backends and drivers | `rpi/common/mc-*.c`, `cs2600.c`, `bcm2711-pwm-clock.c`, `rp1-clock.c`, `devmem.c` | registers, maps, descriptors | open, close, adjust, edge read | vtable `media_clock_ops` |
| Event capture | `rpi/common/ptp-extts.c` | the kernel's FIFO | enable, disable, read, read with timeout | used by talker and backends |
| AAF talker / listener | `src/examples/aaf-*.c`, `common.c` | queue of samples, timerfd | send; receive, schedule, present | AVTP PDUs, `CLOCK_REALTIME`, stdin and stdout |
| CVF and IEC 61883 talkers | `src/examples/cvf-talker.c`, `ieciidc-talker.c` | `buffer`, `buffer_level`; `dbc` | fill, search start codes, cut and send | bytes from stdin, PDUs to the network |
| CVF and IEC 61883 listeners | `src/examples/cvf-listener.c`, `ieciidc-listener.c` | queue and timer as above; `expected_dbc` | check, schedule, present | PDUs in, stdout |
| Software media clock | `src/examples/crf-listener.c`, `crf-talker.c` | list of media clock timestamps, `prev_mclk_timestamp` | recover, freewheel, look up, send AAF | CRF in, AAF in or out |
| AAF on the Pi | `rpi/aaf-*-rpi.c`, `alsa-util.c` | ALSA buffer, `started`, the receive path chosen | capture and send; late gate, prefill, write, recover | `xsk-util.c` or an AF_PACKET socket, ALSA |
| AF_XDP receive path | `rpi/common/xsk-util.c` | two rings shared with the kernel, frames, descriptors and mappings | create, peek, packet, release, destroy, flow rule | the kernel and NIC driver, the AAF listener |
| PDU accessors | `src/src/avtp*.c` | none (a header) | get, set, init | used everywhere |

### What is hard about it

*Concurrency* comes from the outside: edges, PDUs and timers arrive in any order
relative to each other while a single-threaded process is inside one handler.
*Failure*: the network loses, repeats, reorders and delays; the NIC stops
capturing; a process restarts. *Ordering*: timestamps and edges are paired by
position, so one element too many or too few shifts everything behind it.
*Timeouts*: a stalled edge channel, a missing edge, a PDU that comes after its
presentation time. *Width*: an 8-bit sequence number, a 32-bit time. The
`hazards` of `PROJECT.json` list each of these at the line where it bites, with
the properties that cover it, or a note where none does.

### What makes each part correct

* CRF path: the servo is never given an edge with another edge's timestamp; a
  lost PDU costs nothing; after any fault the listener synchronises again; the
  counters tell the truth about what was lost.
* Sample playout: the timer always serves the head of the queue; no sample is
  early; every queued sample is presented while the process stays; on an orderly network the stream is
  a delay line of fixed length.
* Software media clock: the list stays increasing, the stamps advance and lead the
  clock, and lateness alone costs no verdict.
* Video: the pieces cut off the input are the units of the input, whatever
  read() returns; a talker ends, and for a reason; what is written is what was sent.
* Servo and clock: the correction is bounded and the divider carries it, no
  fraction lost; the integrator is seeded with the slope of the phase and nothing
  else, and from a seed in reach the loop gets the phase into its range.
* AF_XDP: every frame is in exactly one place, and a packet is read once, in
  order, before its frame is used again. Bring-up that fails anywhere leaves
  nothing behind, and packets are never diverted to a socket nobody reads.
* AAF on the Pi: exactly the PDUs that are too late are dropped; the prefill is
  the reserve between stream and device it is meant to be.
* Clock backends: a failed open leaves nothing allocated or driven, and no half
  of the PLL is on before all of it is configured.
* Parsers: a field that is not the profile's is reported once, and only for the
  stream itself. Accessors: a set field reads back and disturbs no other.

## 2. Modules

| Module | Models | Role |
|---|---|---|
| `CrfStream` | `crf-profile.h`: tolerance, phase error, PDU | data shared by both ends |
| `CrfTalker` | `crf-talker-rpi.c`, main loop | component |
| `CrfReceiver` | `crf-receiver.c`, process | component |
| `CrfListener` | `crf-listener-rpi.c` (extends `CrfReceiver`, whose callbacks it is) | component |
| `CrfPath` | talker, network and listener together, with faults | composition, properties |
| `ModuloLemmas` | facts about `%` | proofs |
| `CrfPath_proofs` | theorems of the CRF path | proofs |
| `AvtpTime` | `common.c`: `calculate_avtp_time()`, `get_presentation_time()` | pure algorithms |
| `SampleQueue` | `aaf-listener.c`: poll loop, queue, timer | component |
| `DelayLine` | what a stream promises | abstract specification |
| `Playout` | `aaf-talker.c`, network and listener together, with faults | composition, properties, refinement of `DelayLine` |
| `Playout_proofs` | theorems of the stream | proofs |
| `Bitmap` | `util.h`: the bit field macros | pure algorithms |
| `PduTables` | the switches of `src/src/avtp*.c`: where each getter and each setter finds a field | data |
| `PduAccess` | init, get and set of every format of libavtp | component, refinement of `FieldStore` |
| `FieldStore` | what the accessors promise: a record of fields | abstract specification |
| `MCPduAccess` | memory and values for TLC | model checking |
| `PduAccess_proofs` | theorem of the accessors | proofs |
| `MediaClock` | `crf-listener.c`: recover, freewheel, look up | pure algorithms |
| `MclkTalker` | `crf-listener.c` as an AAF talker (`-m talker`) | component |
| `MclkListener` | `crf-listener.c` as an AAF listener | component |
| `MclkPath` | `crf-talker.c`, both modes of `crf-listener.c` and the network, with faults | composition, properties |
| `MclkPath_proofs` | theorems of the recovered clock | proofs |
| `XskRings` | `xsk-util.c`: the rings, peek and release, and the kernel's side of them | component |
| `XskContext` | `xsk-util.c`: create and destroy, call by call (extends `XskRings`, which it sets up) | component |
| `FramePool` | what a receive path owes its user | abstract specification |
| `AlsaPcm` | `alsa-util.c`: prefill; the device | component |
| `RpiListener` | `aaf-listener-rpi.c`: `main()` and `process_pdu()` | component |
| `RpiPlayout` | `aaf-talker-rpi.c`, network, kernel, listener and device together, with faults | composition, properties, refinement of `FramePool` |
| `RpiPlayout_proofs` | theorems of the rings, the listener and the playback | proofs |
| `StdinTalker` | what the two video talkers share: bytes read from standard input | component |
| `CvfTalker` | `cvf-talker.c`: buffer, start codes, NAL units; and what the units of a stream are | component, reference definition |
| `IecTalker` | `ieciidc-talker.c` | component |
| `VideoListener` | `cvf-listener.c` and `ieciidc-listener.c` (extends `SampleQueue`) | component |
| `VideoPath` | either pair of programs with the network between them, with faults | composition, properties |
| `MCVideoPath` | streams for TLC | model checking |
| `PduParse` | `crf_pdu_parse()`, `aaf_pdu_parse()`, `report_mismatch()` | pure algorithms |
| `PiServo` | `pi-servo.c` | component |
| `PwmClock`, `Cs2600`, `Rp1Clock` | the drivers of the clock hardware | components |
| `ClockBackend` | `mc-bcm2711.c` and `mc-rp1.c` over their drivers: open, adjust, close | component |
| `ClockControl` | `crf-listener-rpi.c` with a backend, the servo and the parser | composition, properties |
| `ClockControl_proofs` | theorems of the control loop, the clock's bring-up and the parser's reports | proofs |
| `VideoPath_proofs` | theorems of the two video streams, talkers and listeners | proofs |

`PROJECT.json` (`map`) gives the lines each definition stands for. Operators
whose comment calls them a defect are alternatives a model can be run with
instead of the code's own; no specification uses them.

### 2.1 The CRF path

Time is counted in edge periods. Both ends generate edge *k* from PTP time; the
talker's hardware timestamp of it is *k*, and the listener's own edge *k* is
`Phase` fine units away. `Phase` is any constant within the tolerance window:
jitter within the window would tell the code nothing it acts on. `Period` is odd
in the models, as the integer truncation in `crf_profile_edge_tolerance_ns()`
makes the window strictly narrower than a period.

| Code | Model |
|---|---|
| `select()` returns, `read()`, channel 1 | `ReadEdge`, with `Sent` the PDU handed to `sendto()` |
| `event.index != 1` | `SkipEvent` |
| `res == 0` | `SelectTimeout`, three outcomes: re-armed or not; bounced and settled; bounce failed |
| a failing `sendto()`, end of the process | `Restart` (the process is started again) |
| `crf_receiver_process()` | `Process`, `Gap` |
| `on_crf_drop()` | `Drained`, inside the same step |
| `synchronize()` | `Synchronize`, with `Reads` saying how far the search reads |
| `edge_read()` with a timeout, pairing | `Pair`, `EdgeTimeout`; `Blocked` lets time run |
| the kernel's FIFO | `edges`, overwritten from its oldest entry at `EdgeCap` |

What is abstracted: the servo is the last pair it was given (2.7 has the rest);
a datagram that `crf_pdu_parse()` rejects changes nothing (a stuttering step);
log lines and the CSV file. A repeated or overtaken PDU has a gap close to the
modulus, so its drop callback empties the FIFO, in the model as in the code. A
talker that restarts numbers its PDUs from 0: the listener counts drops that
never were.

*Assumption on timing* (`OnTime`): when an edge passes, no process is more than
`MaxTransit` edge periods behind with what it has been given, except while
`edge_read()` blocks the listener. Without it the FIFO fills up behind a process
that never runs, and nothing can be said.

### 2.2 The audio stream

`SampleQueue` splits a turn of the poll loop where the operating system can
interleave: `Poll` fixes which descriptors were ready, and `NewPacket` and
`Timeout` act on that later, when more has arrived. A sample's `tspec` is what
`get_presentation_time()` made of its `avtp_time`; `ptime`, what the talker
meant, is carried along for the properties only. Both ends read the same clock
(`phc2sys` keeps `CLOCK_REALTIME` on PTP time). `expected_seq` decides a log line
and nothing else, and is left out. `Leave` is every way out of the loop: a short
datagram, or nobody to present a sample to.

*Assumptions* (`OnTime`): a PDU is read by its `due` time, which a fault may put
beyond its presentation time, and an expired timer is served within `MaxLate`.

*Fairness*: time passes, the network delivers, and the loop turns (`Tick`,
`Arrive`, `PollReturns`, `Receive`, `Play`): the network does not hold a PDU for
ever (it may lose it), and a runnable process with a readable descriptor runs.
Faults, sending and leaving are not fair. Only `EverySamplePlayed` and the
fairness of `DelayLine` need it.

### 2.3 The PDU accessors

The memory of a PDU is the set of its bits that are one, a field the function
from the bits of its value to their places. The getters and the setters of
libavtp repeat every mask and shift in two switches, and so does `PduTables`:
that they agree is one of the things checked (`TablesAgree`). A format of
IEC 61883 has several parts that use the same octet of the second CIP word each
in its own way; the accessors reach all of them, so the model treats the parts
as formats, each without the others' fields. `-EINVAL` changes nothing and is
not a step; the byte order of a word is left out.

### 2.4 The software media clock

The unit of time is `MCLK_PERIOD`: CRF PDUs are whole numbers of periods apart
and both `mtt`s whole milliseconds, which are whole numbers of periods too, so
that `recover_mclk()`'s rounding up changes nothing. A media clock is a list of
timestamps, the last one used, and whether it has to be looked up; the talker
and the listener of AAF keep one each, in two processes, and hear the same CRF
stream. `Wrap` is the number of periods after which the low 32 bits of a
timestamp return: 2^29 in the code, as a period of 125 000 ns shares the factor
8 with 2^32.

| Code | Model |
|---|---|
| `recover_mclk()` | `Recovered` |
| *n* calls of `get_next_mclk_timestamp()` | `NthTimestamp`, `Advanced` |
| `mclk_lookup()` | `LookupCalls` |
| a turn of the loop of `crf-talker.c` | `SendCrf` |
| `aaf_talker_recv_pdu()` | `RecvCrf`, `RecvInvalid` |
| `aaf_talker_tx_timeout()` | `TxTimeout`, with `Sent` the PDUs of all expirations |
| `handle_crf_pdu()`, `handle_aaf_pdu()` | `HandleCrf`, `HandleAaf` |

Two things the code does may surprise. The AAF talker takes the head of its list
when the first datagram of a CRF PDU's size arrives, valid or not: if that one is
invalid the list is empty and the process dies (`RecvInvalid`). A listener that
hears AAF before CRF looks the timestamp up in a clock that counts in periods
from 0, where it finds it only if it lies on that grid: `SearchForEver`. The
comment at the head of the file (lines 43-45) asks for the CRF talker to be
started first; `undisturbed` says that it was.

Left out: sequence numbers, which nothing acts on, failing system calls and the
ways a process ends. The network keeps the order of PDUs.

*Assumption* (`OnTime`): a PDU is delivered by its presentation time unless a
fault delays it, the CRF talker is punctual, and the AAF talker serves its timer
within `MaxLate` of its expiration.

### 2.5 Audio between two Pis

A tick is the time of one frame. Both devices run at one rate, which is what the
CRF stream is for; a packet is a record of what the listener will look at (the
field in which it is not the profile's, its 32-bit `avtp_time`) and of two times
for the properties only (`ptime`, which the talker meant, and `due`). What
`aaf_pdu_parse()` makes of it is `Accepted`, by the checks of `PduParse` in the
mode `aaf_mode` has and nothing changes, the lenient one. The run's talker sends
a `bit_depth` the profile does not have, which that mode plays.

| Code | Model |
|---|---|
| `xsk_ctx_create()` | `BeginCreate`, then `Create` once per call that can fail, in `CreateOrder`; `CreateFails` is `goto err` |
| `attach_xdp()` whose `recv()` fails | `AnswerLost`: the kernel has attached the program, the caller does not know |
| `xsk_ctx_destroy()` | `BeginDestroy`, `Destroy` in `DestroyOrder`, `Destroyed`; `Detaches` is `detach_xdp()` |
| `xsk_ctx_rx_peek()`, `_packet()` | `Peek`, `RxPacket` |
| `xsk_ctx_rx_release()` | `Recycle`, the store to the fill ring, and `AdvanceConsumer`, the store to the receive ring; the kernel may act between the two |
| `xsk_configure_flow_steering()` | `Steer`: `on_queue` says whether the rule was taken |
| the two receive paths of `main()` | `PollRings`, `ProcessNext`, `ReleaseBatch`; `ReceiveDatagram` |
| `process_pdu()` | `Rejected`, `Dropped` (the gate), `Queued`, `Recovered` |
| `alsa_prefill_silence()` | `Prefilled` |
| `SIGINT`, `SIGTERM` | `Signal`; before the handlers are installed, `EarlySignal` |
| a turn of the talker's loop | `Send`, or `Skip` after an overrun or a short read |

The kernel's side (`Take`, `Deliver`, the map, the end of a socket or of a
process) and the device (`Written`, `Played`) are external, modelled from how
the code uses them. A `prepared` device starts at its threshold and `xrun` is
a device that ran dry. A write that finds no place (`-EAGAIN`) and the part of a
short write that did not fit are gone; the code counts neither, and `cut` does.

*Assumptions.* The listener is `MaxLate` behind at most. Time stands still
while it is not in its loop, and faults happen only while it is: what the stream
does before and after is of no consequence to it. `Threshold <= Buffer`; the
option `-t` sets the threshold, and above 85 ms it would exceed the 4096 frames,
so that playback could not start by itself. Presentation times are within half
a wrap (2.1 s) of the clock.

Four things a reader of the code may not expect. The file's header says that the
listener holds each packet until its presentation time; it writes each at once,
and what holds it is the silence in front of it. The prefill leaves place for
just one PDU, so until the device has played some frames a second one is cut
(`CutBounded` says how much can be lost this way). The handlers are installed
after the receive path is up, and `detach_xdp()` does not read the kernel's
answer: a signal before that, or an answer lost, leaves the program on the
interface (`NothingLeftBehind` says that nothing else does). The flow rule and
the queue count are never taken back.

### 2.6 Video

A byte is 0, 1 or another, all that start codes are made of. `FillBuffer` may
read anything from one byte to the room there is, so each seam between two reads
is tried; it returns nothing at the end of the input, and also when a full
buffer asks for nothing, which `main()` cannot tell apart (`SeesEnd`).

| Code | Model |
|---|---|
| `fill_buffer()` | `FillBuffer`; `FillFails` when `read()` returns -1 |
| `start_code_position()` | `StartCodePosition`, a recursive function; `SearchHasNoEnd` where its unsigned bound wraps, which ends in `Die` |
| `process_nal()` and `sendto()` | `SendNal`, `NalTooLong`, `SendFails`, with `Start`, `End`, `Nal`, `Rest` |
| a break of the inner loop | `Break` |
| the loop of `ieciidc-talker.c` | `SendPacket`, `SendNothing`, `StopTalking`, `PacketFails` |
| `is_valid_packet()` of the listeners | `CvfAccepts`, `IecAccepts`, `NextDbc` |
| `new_packet()`, `timeout()` | `CvfNewPacket`, `IecNewPacket`, `Present`; queue and timer are those of 2.2 |

Stated against a definition of its own: `UnitsOf` says what the NAL units of a
stream are without any buffer. `stream_data_len` has 16 bits (`DataLens` values),
and `VideoAssumption` says that a unit or packet with its headers fits in them
(1404 and 200 bytes in the code). `PiecesTrue` and `EndsForCause` assume
`CleanInput`: no `read()` failed (its -1 takes a byte off the buffer), and what
precedes the first start code leaves room in the buffer for a unit and the next
start code. Otherwise the buffer is full with no unit complete, the talker takes
that for the end of its input, cuts the unit short and exits 0. A first
`read()` of a single byte kills the process (`cvf-talker.c:189`).

*Fairness*: both processes run, their input comes, and time passes. Faults and
the network's losses are not fair. `TalkerEnds` needs it, and is in doubt only
where a unit is longer than the buffer: the next `read()` asks for zero bytes.

### 2.7 The control loop

`ClockControl` is the CRF listener as the servo sees it: a step is one edge
period, pairing is the phase window, and how edges and PDUs get there is 2.1.
`main()` opens the clock call by call before; `Stop` is every way out of its loop.

| Code | Model |
|---|---|
| `bcm2711_open()`, `rp1_open()` | `Cm4Calls`, `Rp1Calls`; `Succeeds` and `Fails` once per call |
| `goto err`, `close_priv` | `ReleasedByClose`, `Disarm`, `PwmFails`, `Rp1Fails` |
| `pwm_enable_on_second()` | a call of its own; `Oversleeps` when its wait wraps, `Awakes` when a signal ends it |
| `cs2600_init_mult()` | `ResetMultiplier`, then `WriteRegister` in the order of `Registers`; a transfer reported as failed may have been taken |
| `bcm2711_pwm_clock_adjust_freq()` | `AdjustPwm`, with `Q`, `Lround`, `Code`, `Residue` |
| `rp1_clock_adjust()` | `AdjustPll` |
| `pi_servo_sample()` | `FirstSample`, `WatchSample`, `AcquiringSample`, `StepSample`, `SlewSample`, `PiSample` |
| `on_crf_timestamps()` | `Track`, `LoseSync`, `Synchronize`; `Miss` without a pair |
| `crf_pdu_parse()`, `report_mismatch()` | `Verdict`, `Reported` (in `PduParse`) |

Numbers: doubles become integers of a unit in which the gains are whole; the one
division, of the frequency estimate, is rounded down. The divider of the PWM
counts units of which an odd number `Sub` makes a code (a tie between two codes
could be rounded the same way for ever); that of the RP1 counts codes. The
hardware begins as an earlier process may have left it: the PWM and the PLL
running, SDP0 armed, clk_gp0 on with another rate.

*Assumptions*: `DividerAssumption`, that what the servo may ask for is inside
what either divider can do: with `SERVO_MAX_PPB` it is, and without it
`bcm2711_pwm_clock_adjust_freq()` would refuse beyond one per cent and
`Code` would lose the last half code of a fraction. `WindowAssumption`, that
the listener's phase window is no wider than the servo's step threshold. Under
both, `StepSample` and the refusal are dead code in this composition: the servo
acquires once per run of the process (`TrackingLasts`), whatever the talker's media
clock does meanwhile (remark 9), and no correction is turned down.

*Fairness*: PDUs and edges go on (`WF_vars(Loop)`); signals, failures and
disturbances are not fair. `PhaseCaptured` needs it.

*What a disturbance does.* `Jump` is a media clock that restarts: the code does not
look at `mr`, so the phase jumps and nothing else happens. `displaced` records by how
much the phase was moved while the servo acquires, by a jump or by a
resynchronisation to another edge, and `in_reach` whether the seed that came of it
is within what slewing can make up for, which is the condition of
`pi-servo.h:36-43`. Both are history variables: no guard reads them. `SeedIsSlope`
says what such a seed is, jumps, changes of edge and missing samples included, and
`PhaseCaptured` that a loop in reach is captured, whatever moves its phase before or
after; only a seed out of reach excuses it, which is finding 3.

Left out: `--freeze`, the printed statistics, `tracking_samples` wrapping after
2^32 samples, bit layouts of registers. `media-clock.c` lists one backend;
`mc-rp1.c` is written for the same interface and not built, and is modelled as
the second value of `backend`.

## 3. Runs

| Run (configuration) | Bounds | What it shows |
|---|---|---|
| `crf_path_loss` (`CrfPathLoss.cfg`) | 2 timestamps per PDU, 3 sequence numbers, FIFO 7, bursts of 2, 4 losses, transit 1, 18 periods | `DropsAreExact`, `LossKeepsSync`, `OutageFits` |
| `crf_path_faults` (`CrfPathFaults.cfg`) | 2 timestamps, 3 sequence numbers, FIFO 5, bursts of 3 (a whole wrap), transit 1, any 3 faults of 8 kinds, 14 periods | `TypeOK`, `SequenceAccounting`, `NoPduAcrossStall`, `ResyncWithinTwoPdus`, `ServoSamplesTrue` |
| `playout_orderly` (`PlayoutOrderly.cfg`) | wrap 5, transit 3, lateness 1, 4 samples, 2 losses | `LineSpec`: the stream refines `DelayLine`, fairness included |
| `playout_faults` (`PlayoutFaults.cfg`) | wrap 5, transit 2, lateness 1, 3 samples, any 2 of 6 kinds of fault, delay 2 | `TypeOK`, `TimerServesHead`, `NeverEarly`, `LateAtMostOneWrap`, `EverySamplePlayed` |
| `playout_comment` (`PlayoutComment.cfg`) | one delayed PDU | violated on purpose: `TimeRecovered`, finding 1 |
| `pdu_fields` (`MCPduAccess.cfg`) | every format and field at its real width, memory clear or full, two bit patterns, 3 calls | `StoreSpec`: init, get and set refine `FieldStore` |
| `mclk_path` (`MclkPathFaults.cfg`) | 2 timestamps per CRF PDU, wrap 7, transits 2 and 1, lateness 1, any 2 of 4 kinds of fault, delay 3, 10 periods | `TypeOK`, `ListsIncrease`, `MediaClockAdvances`, `StampLead`, `LatenessHarmless` |
| `mclk_comment` (`MclkPathComment.cfg`) | one AAF PDU lost | violated on purpose: `VerdictTrue`, finding 2 |
| `rpi_playout` (`RpiPlayout.cfg`) | 2 frames, indices mod 4, batches of 1, buffer 5, threshold 3, 2 frames per PDU, wrap 24, tolerance 1, offset 2, transit and lateness 1, any 2 of 4 kinds of fault, delay 4, 3 PDUs | `TypeOK`, `QueueSpec`, `RedirectsRead`, `NothingLeftBehind`, `GateExact`, `UnderrunNeedsLoss`, `CutBounded` |
| `video_path` (`MCVideoPath.cfg`) | units of 5 bytes, a buffer of 12, packets of 2, dbc mod 16, 8 streams, 2 PDUs lost, any one of 5 kinds of fault | `TypeOK`, `PiecesTrue`, `EndsForCause`, `PresentedWhole`, `DbcBlamesEveryLoss`, `TalkerEnds` |
| `clock_control` (`ClockControl.cfg`) | both backends, gains 8, 1, 2 and 16, slew threshold 2, window 6, step threshold 7, limit 80, estimates over 4 periods, clocks 40 slow or fast, first pairs 5 off, jumps of 4 and 9, one disturbance | `TypeOK`, `CorrectionCarried`, `NothingLeft`, `PllConfigured`, `MismatchReported`, `SeedIsSlope`, `PhaseCaptured` |
| `servo_comment` (`ClockControlComment.cfg`) | the same, no disturbance | violated on purpose: `SeedInReach`, finding 3 |

Why the bounds are enough. In the CRF path everything interesting is relative to
a PDU and to the FIFO: 14 to 18 edge periods are seven to nine PDUs of two
timestamps, so a fault, the two PDUs recovery may take, and a second fault
meeting the first one's recovery all fit. `MaxBurst = SeqNumMod` makes the gap
wrap to 0 in the faults run; the loss run stays below, where the count is exact.
The FIFO overflows in the faults run, and in the loss run holds just the
longest outage. In the playout the clock crosses a wrap between sending,
receiving and presenting, which a wrap of 5 units makes happen for some sample
of every run. `TransitTime` stays below `Wrap`, as with the real 4.29 s. The
media clock runs through five CRF PDUs; a delay of three periods holds one up
past the next, so its timestamps arrive used up, in part or altogether. The
accessors have no hidden state: an init and two sets show for each pair of
fields whether the second disturbs the first. That run may stop, since nobody
has to call a library (`CHECK_DEADLOCK FALSE`).

On the Pi, two frames and indices modulo four let both indices of either ring
wrap, the rings be full and empty, and a packet wait for a frame; a batch of one
leaves packets behind in the ring. The run starts three ticks before the clock's
low bits wrap, so that the two readings of the clock, and stamping and
processing, lie on both sides of it. A buffer of five holds the prefill and one
PDU, and the faults allowed can run it dry. Both bounds
are tight: the run reaches `missing + UnderWay = Buffer - PduFrames + 1` with the
device dry, and `cut = Offset + Tolerance`. The system may stop, since the
process ends (`CHECK_DEADLOCK FALSE`).

In the video runs a buffer of twelve holds two units and a bit, as 2848 bytes
hold two units of 1400; the eight streams have start codes at the seams of every
possible read, an empty unit, a start code of four bytes, a unit too long for a
PDU, one too long for the buffer, and preambles that do and do not fit. Two
losses of eight blocks are a wrap of sixteen, so the data block counter comes
back. The run must not deadlock: `Finished` is the one state that stays.

In the control loop one edge period is 1000 units of time and the estimate takes
four; the limit, gains and thresholds keep the order they have in the code:
`SlewThresh < Tolerance < StepThreshold`, `SlewKp * SlewThresh` (32) below the
drift of 40, so that a loop that began without an estimate would be parked, and
below `MaxPpb`, so that corrections do get clamped. A jump while the servo acquires
gives seeds on either side of that reach, a jump of 9 leaves the window, and a
missing sample makes the estimate span five periods. The phases settle into a
finite set by themselves. Processes end: `CHECK_DEADLOCK FALSE`.

Recovery of the CRF path depends on three facts about the deployment: at least
two timestamps per PDU and a FIFO with room for the edges of a PDU
(`RoomForPdu`; the code has 6 and 128), and PDUs handled before the next edge
(`Prompt`). `ResyncWithinTwoPdus` counts PDUs that are handled so, in a row
(`clean`), and TLC refutes it with one timestamp per PDU, and with a FIFO
smaller than a PDU. Where PDUs come later than the next edge, a search that
fails reads an edge it needs next, and can go on failing: remark 1.

For the real numbers (128 entries, six timestamps per PDU, transit below one
edge period) `OutageFits` says a burst of 20 PDUs, 0.4 s, is carried over.

### Findings

1. `src/examples/common.c:89` against the comment above it. A PDU received after
   its presentation time is taken for one 4.29 s ahead, and the FIFO order of the
   queue makes those behind it wait. `rpi/aaf-listener-rpi.c:207` corrects this.
2. `src/examples/crf-listener.c:717` against lines 39-41, "checks if their
   presentation time is aligned with the clock reference". Each PDU is compared
   with the next timestamp of the clock, not with the nearest: after one lost AAF
   PDU the verdict on all that follow is "not aligned", though they are, until the
   list has run dry and the listener looks its place up again.
3. `rpi/crf-listener-rpi.c:263` against `rpi/common/pi-servo.h:48-50`: a parked
   loop "is only reachable by starting tracking without a seed at all". When the
   phase leaves the window while the servo acquires, the listener resynchronises
   to the next edge and leaves the servo at its first sample: the slope it then
   measures spans a jump of one edge period.

### Remarks

Places where the code and a comment part, or that may surprise, and on which no
run rests.

1. `synchronize()` "discard[s] edges older than crf_ts" (`rpi/crf-listener-rpi.c:198`),
   but also the first newer one, which it has read before it can see that. One
   missed edge can so spoil a second pair; with one timestamp per PDU, or PDUs
   handled later than the next edge, every search may eat the edge of the next.
2. `src/include/avtp_ieciidc.h:140` says of init "All other fields are set to
   zero". Init clears the header (`Zeroed`) and not the CIP fields, which lie in
   the payload; so with the H.264 timestamp and the raw header of RVF.
   `ieciidc-talker.c` sends what `alloca()` left there in the fields it does not set.
3. `media-clock.h:60` says of a failed open that "nothing is left allocated or
   configured". Nothing is left allocated and the PWM is stopped (`NothingLeft`);
   the GPIO's function, the CS2600's configuration and the pin function of SDP0 stay.
4. `pwm_enable_on_second()` (`mc-bcm2711.c:121`) waits for centuries when it reads
   the clock within the last millisecond of a second; and if `phc_gettime_ns()`
   fails for good, its second loop does not end.
5. `rp1_clock_init()` waits for the lock of a PLL that may have no power, which
   `rp1_clock_enable()` would give it; clk_i2s stays on after `close()`.
   The header's 100 ppm are 10000 in the code, and the 500 ppm of
   `bcm2711-pwm-clock.h` one per cent.
6. `pi_servo_reset()` sets `count` and nothing else, although its header speaks of
   discarding the estimate; nothing calls it.
7. `ieciidc-talker.c` sends a short `read()` as a packet: no byte is lost
   (`PiecesTrue`), but every packet behind it begins in the middle of one.
8. `poll()` in `ptp_extts_read_timeout()` returns for an event of any channel,
   and the `read()` behind it waits for its own without a limit. The listener's
   NIC has one channel.
9. `rpi/common/crf-profile.h:186-188` says of `mr` that when it flips "the talker has
   restarted its media clock: drop sync and let the servo reacquire rather than
   chasing a step", and lines 189-191 of `tu` to hold the servo. The parser surfaces
   both (`crf-profile.c:242`), no listener looks at them, and `crf-talker-rpi.c` sets
   neither. The listener does what the comment advises against: a restart
   within the phase window is followed by the servo, one beyond it makes the listener
   synchronise to the nearest edge, and the servo never reacquires
   (`pi_servo_reset()` is not called, and `pi-servo.c:140` is out of reach, see 2.7).
   While the servo acquires, the step goes into the seed as if it were drift.
   `SeedIsSlope` and `PhaseCaptured` say what comes of it; they do not say
   that it is what the comment asks for.

## 4. Theorems

All for every value of the constants, under the named assumptions of the modules.
Where a theorem asks for more, its scope is named with it. Every invariant that a
run checks is also a theorem, for all of the runs that are meant to pass.

*CRF path, any fault.* `TypeCorrect`; `SequenceAccounted`, by the invariant itself
and modular arithmetic (`ModStep`); `ServoSamplesAreTrue`. The last needs an
invariant: what is in the FIFO, the PDU at work and the network is bounded by
the clock and in order, so a pair inside the tolerance window, which is
narrower than a period, is a pair of twins, and newer than the last.
`StallsSplit` needs `StallInv`: events wait for the talker no longer than
`MaxTransit`, those that wait and those in the PDU are close together (`Span`), and
while none waits the newest timestamp is no older than the selects since explain.

*CRF path, recovery.* `TwoPdusResync`, if `RoomForPdu`: at least two timestamps per
PDU and a FIFO with room for a PDU's edges. Nothing is assumed of what the faults
left behind but that it is not from the future (`Shape`). What is newer than the last
fault is one run of edges on either side (`SettleInv`): in the talker's queue and PDU
(`TalkerRuns`), in the PDUs of the network that are fresh, each of which begins
where the one before ends and has the next number (`NetRuns`), and in the FIFO
(`ListenerRuns`). One fresh timestamp paired, a synchronised listener has the edge of
the next one at the head of the FIFO, and one that is not has not read it yet
(`Meets`), so that its next search finds it; after two PDUs it has (`Recovered`).

*CRF path, losses only, bursts below the sequence range.* `LossInv` says that the
talker's queue, its PDU, the network, the receiver and the FIFO count on from
one another without a hole but the current burst (`Run`, `IsPdu`), and, when
synchronised, that the oldest edge is the twin of the next timestamp. From it:
`DropsExact`, `LossHarmless`, `OutagesFit`. None of these is inductive alone:
that the next edge matches depends on what the drop callback removed, which
depends on the count of the gap being the burst, which depends on the numbers
of the PDUs in the network.

*Audio stream, any fault.* `TypeCorrect` and `TimerAlwaysServesHead` hold
together: that a presented sample exists follows from the timer being armed.
`NoSampleEarly`, if `TransitTime < Wrap`: the reconstructed time is congruent to
the talker's and not in the listener's past, hence not before the talker's
unless that were a wrap ahead. `LateByOneWrap`, if `TransitTime + Delay <= Wrap`
(`DelayFits`): a sample waits for those before it in the queue, so `LateInv` relates
every sample to every PDU behind it, in queue, socket and network. Those that make
others wait were received after their time, and the network holds back only the
oldest PDU it has, so what waits behind them is no older.

*Audio stream, losses only, `TransitTime < Wrap`.* `StreamIsDelayLine`: Init and
every step map to `DelayLine`. `LineInv` says that queue, socket and network hold
samples in order of number and time, none overdue, each with its right time
(`PresentationTimeExact`). `TimesRecovered` follows: what finding 1 refutes in
general holds while the network keeps its promise.

*Accessors, any memory, values and number of calls.* `FieldsAreIndependent`: every
call maps to a call of `FieldStore`. Of the tables the proof uses only
`TablesAssumption`: no field uses a bit of another and setters use the getters'
places. That is no more than a fact about constants, which TLC evaluates; the
two laws of a masked write (`GetAfterSet`, `GetAfterOther`) rest on it.

*Software media clock, any fault.* `TypeCorrect`, `ListsAlwaysIncrease` and
`ClockAlwaysAdvances`, from `MclkInv`: the CRF PDUs under way are in line
(`InLine`), each beginning past all that the clock holds and the one before, so
that what `recover_mclk()` appends fits on; and the last stamp is the last
timestamp used. That every look-up of a listed clock ends is part of
`TypeCorrect`. `StampsLead`, if a CRF PDU brings more than one timestamp (160 in
the code): the first arms the timer, and only when another follows is the stamp
ahead of it. Its invariant `LeadInv` bounds how late PDUs and process can be,
and then all that the clock will ever say from now on (`ClockLeads`): a CRF PDU
takes effect only where the list ends, and moves the clock forward or not at all.

*Software media clock, no PDU lost.* `LatenessCostsNothing`, if a CRF PDU brings more
than one timestamp and `AafTransit + 1 < Wrap` (`LookupFits`: the first stamp can be
told from those a wrap away). `StepInv`: both clocks count the periods from the
first CRF timestamp on (`Counts`), and a list either reaches to the next CRF PDU or
has run dry and the clock free-wheels past it, to the timestamps that PDU brings too
late; AAF PDUs come one for each expiration (`AafRow`).

*AF_XDP rings, any number of frames that divides the range of the indices.*
`FramesConserved`: each frame is in the fill ring, with the driver, or in the
receive ring, and in one place only. The invariant has to speak of slots (no two
entries of a ring name one frame, `FillDistinct`, `RxDistinct`, nor do two
rings, `Apart`) and of their number (`Conserved`), since
`xsk_ctx_rx_release()` overwrites slots without looking at the kernel's index:
that they are free follows from the count alone. In the window between the two
stores the released entries still lie in the receive ring, and only the count
`recycled` keeps them from being counted twice. Everything about indices
rests on one lemma, `SlotOfIndex`: cutting an index to its 32 bits does not change
its slot, which is why the number of frames must divide 2^32.
`RingsImplementPool`, from the same invariant: a delivery is a receipt of
`FramePool`, the first store of a release is the release, and every other step
is none.

*The Pi's receive path, every failure of it.* `StreamIsRead`, `NothingStays` and
`ListenerQueue`, the last being `QueueSpec`: bring-up and tear-down included, Init and
every step map to `FramePool`. `ContextInv`: what is held is what the first *n* steps
of `xsk_ctx_create()` take, or what is left when things go in the order of
`xsk_ctx_destroy()`, and a program not on record was left by a call that failed.
`PathInv`: where `main()` is decides which of the two paths it has. `RingInv`: while
the receive ring is mapped the rings keep their invariant and every frame is free or
received; otherwise there is nothing in them. `BatchInv`: the batch at work is in the ring.

*The Pi's playback, every loss, delay and underrun.* The two receive paths are one
queue of packets (`Queue`), and a lemma per kind of step says what it does to that and
to the account (`StreamMoves`). `GateIsExact`, from `TimedInv`: how far the time a
packet was sent for can be from the clock, which is less than half a wrap, so that 32
bits decide. `Typed`: that `late_count` stays in bounds needs the order of the PDUs
(`OrderInv`: each a PDU's time after the one before) and that all were captured after
those dropped (`WindowInv`). `CutIsBounded`, from `CutInv`: the playback is not ahead
of what is on its way (`NotAhead`). `UnderrunIsLoss`, from `DryInv`: a device that
plays has had, has still to get, or will never get, all that was captured since
(`Reserve`, a count over a set of distinct times). The property says at least: where
the buffer is a multiple of a PDU the bound is met exactly.

*Control loop, any gains, dividers, phases and disturbances the assumptions
allow.* `ServoTyped` and `CorrectionsCarried`, from `ControlInv`:
the servo's numbers are bounded, the sum of what was asked and not done is the
accumulator itself (`Owed`: the telescoping that makes a dithered divider exact
in the mean), the divider is what the last correction made it (`Followed`), and
while the clock is being opened nothing has been asked yet (`Fresh`). That the
accumulator stays below half a code needs `Sub` odd and the fraction in reach of
its code, at every correction the servo may ask for (`DividerAssumption`).
`SeedsAreSlopes`, from `SeedInv`: until the servo tracks its integrator is zero,
which needs that it tracks for good once it does (`TrackingLasts`, from
`WindowAssumption` alone), and while it acquires the phase is the first offset, the
slope over a whole number of periods and what was displaced, up to the rounding of
that offset (`OnSlope`). The division of the estimate then loses less than one
(`ScaledDivision`), and clamping brings two numbers no further apart. `Typed` adds
what the dividers and the loop hold.

*Bringing the clock up, every failing call and signal.* `NothingIsLeft` and
`PllIsConfigured`, from `BackendInv`: what is held (`HeldInv`), what the multiplier was
told (`ChipInv`) and what is driven (`OutputInv`) follow from the calls made so far,
until the clock is closed. That the PLL is never on half configured (the last line of
`ChipInv`) is what survives a close. `MismatchIsReported`, from `ReportInv`, by what the
parser makes of each odd field in either mode.

*Video listeners, any input, loss and fault.* `ListenerWritesPieces`, for both formats,
and `ObjectsAfterLoss`. Their invariant says how far the listener has come: there is a
number `first` such that the stream's PDUs under way are those of the pieces behind it,
in order and each as its talker made it (`InOrder`, `Pdus`), that what is queued or
written is of the pieces up to it with their sizes (`Written`, `Sizes`), and that the
expected counter is that of `first` less the lost ones (`ListenerInv`). Neither follows
without it: a loss moves `first` on and leaves the counter behind. `TimerInv` says that
`timeout()` finds an entry. A NAL unit's size survives the subtraction in 16 bits
because it fits in them (`VideoAssumption`). `Typed`, from the same.

*Video talkers, any input, cut up in any way.* `TalkersSendTheirInput` and
`TalkerEndsForCause`. For `ieciidc-talker.c` the invariant is the property itself
(`NothingSkipped`). For `cvf-talker.c` it is `CutInv`, while the input is clean: the
buffer and what is yet to be read are the stream from `Passed` on, and once a unit was
cut off the buffer begins with a whole start code or is empty at the end (`InPlace`);
what was sent are the first units of the stream, as many as begin before `Passed`
(`UnitsSent`); and nobody reads on before the buffer is down to one start code
(`FillInv`), so that a full buffer taken for the end of the input holds a single unit
that no PDU could carry (`CutsTooLong`). What `start_code_position()` finds is the
first start code (`FirstCode`), although it skips three bytes at a time.

*Recursion.* What `start_code_position()` and `FlattenSeq` compute is recursive, and the
library's induction rules are out of this prover's reach. Two lemmas stand in for
them: every set of natural numbers but the empty one has a least element, and, if
bounded, a greatest one (`LeastNatural`, `GreatestNatural`, from `WFMin`). An offset at
which the search were wrong would have a greatest one, a piece at which two ways to
flatten part a first one, and neither exists.

*Model-checked only*: what is about liveness, which this prover cannot reach:
`EverySamplePlayed`, `TalkerEnds`, `PhaseCaptured` and the fairness half of `LineSpec`.

## 5. Not modelled, and the plan

What could come next, in order: an abstract specification of the video streams
(a line of pieces that may lose some and ends), which `VideoPath` already
implements by `TalkersSendTheirInput` and `ListenerWritesPieces` but which
nothing states as one; the same for the recovered media clock; and witnesses, as
theorems, that the bounds of `CutBounded` and `UnderrunNeedsLoss` are tight,
which TLC shows (section 3).

What is left of the code that holds state: `crf_receiver_wait_first()`,
`crf_receiver_set_strict()`, `crf_receiver_create_from_fd()`,
`xsk_ctx_needs_wakeup()` and four functions of `cs2600.c`, which nothing calls;
`aaf-talker-rpi.c` with a test pattern in place of a device, and
`aaf-listener-rpi.c` printing in place of playing, which decide nothing else.

Never to be modelled: build files, set-up scripts, debug tools, plots, the
device tree, argument parsing, socket creation, the unit tests (they were read as
statements of what the accessors promise). They hold no protocol state.
