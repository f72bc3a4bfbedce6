# TLA+ models of UNIMOC

UNIMOC is the firmware of a field-oriented motor controller: Zephyr on an STM32G4, with Cyphal over
CAN. This directory holds TLA+ models of the parts in which several threads, interrupts, messages or
storage accesses interleave, or in which a counter, queue or number meets its limit; TLC
configurations that check them on small instances; and proofs that TLAPS checks for every value of the
constants. `PROJECT.json` maps every definition to its lines of the source, and lists runs, mutants,
hazards, findings and theorems.

Paths below are relative to the repository.

## 1. Inventory

Contexts on the target, highest priority first: the sample interrupt (ends a control cycle, trips the
stage), the control cycle (16 kHz), the observer interrupt, the control thread (outer loop, 2 kHz), the
Cyphal thread (everything else, woken by CAN frames or every millisecond). One core: a higher context
preempts a lower one anywhere and runs to its end. The timer, the DMA and the CAN controllers run
beside the core.

| Component | State | Operations | Interacts with | What makes it correct |
|---|---|---|---|---|
| Power stage (`hardware/power_stage_interface.hpp`, `zephyr_bcc/foc_stm32g4.cpp`) | MOE, BIF, external enable, enable lock | Enable, Disable, ClearFault, GetState, HoldOffEnable/ReleaseEnable, trip | drive, startup aid, save gate, sample interrupt, break input | no outputs on a latched fault, no flash write with the outputs on, no leaked lock |
| Duty pipeline (`zephyr_bcc/foc_stm32g4.cpp`) | DMA slots, preload, compare registers, sample index | sample interrupt, SetDutyTicks, bursts, Stop, Initialize | control cycle, timer | the bridge drives the duties that the samples are recorded with |
| Hall capture and fusion (`hall_capture.hpp`, `hall_fusion.hpp`, `hall_decoder.hpp`) | event queue, last edge, sector | push, pop, Step per observer run | edge interrupt, observer | no event lost, doubled or reordered; measurements true across wrapping timestamps |
| Timing probes (`hot_path_timing.hpp`, `timing_registers.cpp`) | statistics, sequence, reset flag | Record, Read, Reset | interrupts, registers | a reading is one consistent state since the last reset |
| Hot path (`src/current_control/`) | double buffer, mailbox, sequence lock, overruns | OnControlCycle, RunOnce, OnObserverCycle | control thread, drive | no half-written value, no uncounted loss |
| Outer loop (`src/current_control/outer_loop.cpp`, `speed_controller.hpp`, `position_controller.hpp`, `dc_link_limit.hpp`, `rotor_angle.hpp`, `position_tracker.hpp`) | mailboxes and counters, home, homing run, integral, multi-turn angle | SetSetpoint, SetGains, Init, StartHoming, Step | drive, hot path | newest gains in use, home known and held, no windup, no turn lost |
| Drive (`src/drive/drive_node.cpp`) | engagement, re-arm, emergency stop, setpoint, two write counters, pending settings | Spin: dispatch, Engage/Disengage, SpinStartup, SpinEngagement, TuneLive, ApplySettings | all of the above and below | one owner of the outputs, emergency stop latched, no change of settings forgotten, trips and timeouts end the engagement |
| Startup aid (`src/startup/hw_startup.cpp`, `src/drive/commissioning.cpp`) | FSM state, step flags, readings, results, forced duty | RequestRun, continue, readings, abort, RunOnce | drive, power stage, control cycle | every step decided on a measurement, motor phase confirmed, outputs off at every end, every attended run ends |
| E-bike (`src/ebike/ebike_control.cpp`, `lib/ebike/`, `zephyr_bcc/ebike_io.cpp`) | latch, want, hold, cached output; crank pulses and torque ring; decoder window and seed; edge queue | Update, Inhibit, Configure, pulse and edge interrupts, ServiceDisplay | drive (local control), rider, display | a fault keeps the drive off until the pedals stood still; a standing crank and a silent display end the assist; bytes arrive as sent |
| Cart control (`src/drive/cart_control.cpp`) | mode, torque, ages of the inputs | OnWheelCommand, OnPedals, Update | drive, VDC, pedals | limp-home on a silent VDC, release at zero torque, takeover at standstill |
| Settings store (`lib/settings/settings_store.hpp`) | live, shadow, erase flag, save cursor | Load, Update, Reset, SaveToFlash | storage, save gate, register provider | shadow = storage, success is durable, crash leaves old or new values |
| Registers (`settings_register_provider.cpp`, `register_value.cpp`, `Validate()`) | settings fields | register access, conversion, validation | bus tools, settings store | what is answered is what is stored; a valid profile can be loaded in order |
| Cyphal node (`lib/cyphal/node.cpp`) | node-ID, listeners, allocation, timers | Spin, allocation answers, periodic messages, register and command services | drive, transport, other nodes | one identity that survives restarts, an ID in the end, no bursts |
| CAN transport (`canard_transport.cpp`, `zephyr_can_media.cpp`) | transmit queues, receive queues, bus states and counts | Send, Process, Receive, WatchBus | node, controllers | healthy bus delivers in time, no interface starves, a bus-off is noticed |
| Simulation (`hardware/zephyr_sim/`) | cycle timer, simulated stage, pause/advance, SLCAN ports and pending text | timer, cycle, registers, reset, poll, send | the same drive code, test tools | behaves like the hardware; lines on the ports stay whole |
| Plant, observers, modulation, current control, units, trace, boards, DSDL, scripts | | | | not modelled, see section 6 |

What is hard here: preemption between two register accesses or two words; messages of several senders
handled in one dispatch in any order; an interrupt that trips between two calls of a thread; settings
that must wait for a disengage; saves that stop at any register; cached answers; timeouts that race
faults; DMA bursts that overtake a write; counters and timestamps that wrap; queues that are full; a bus
that loses, repeats or delays. `PROJECT.json` lists each as a hazard at its line.

## 2. Modules

### Power stage, drive and startup

**PowerStage** (proofs: **PowerStageProofs**). One step per register access or `atomic_flag` operation of
`PowerStageEnable()`, `GetPowerStageState()` and the save gate, for any number of calling threads; the
break input and the sample interrupt act between any two. `Drivers` call Enable, `Savers` save; the
Cyphal thread does both.

**DriveNode** (proofs: **DriveNodeProofs**). The Cyphal thread moves through the phases of `Spin()`: up to `MaxTransfers` transfers
(readiness, setpoints, register writes, commands), then engage, startup turn, engagement, settings. A
handler is one step, except where the control cycle can trip between its calls (`Engage()`, STANDBY).
Settings are kinds of registers (tunable live, needing a restart, calibration) that differ from what
the loops run with. The startup aid appears with the six stages of **StartupOwnership**.

**HwStartup** refines **StartupOwnership** (`KeepsOwnership`; proofs: **HwStartupProofs**): every step of the bring-up with its
samples, readings, continues, aborts and faults. Measurements are reduced to pass or fail.

### Local control

**EbikeDrive**, **CartDrive** (proofs: **DriveInputsProofs**). The two torque sources inside the drive's engagement logic. The e-bike has
its cached answer and latch; the cart has ages of its inputs, an integer torque ramp and a wheel.

**PedalAssist** (proofs: **DriveInputsProofs**). The crank: pulse interrupt and queue, the pedal observer's clock, pulses, stop timeout and
ring of torque bins, and the assist target with its ramp, as `Update()` steps them; updates may come late.
Of the filter there remains whether angle and cadence are numbers.

**DisplayLine** (proofs: **DriveInputsProofs**). The decoder of the display's frames with its learnt checksum seed, behind
`ServiceDisplay()`. A frame has four bytes of two bits; frames may be corrupt, cut off or from another
display.

**EdgeUart** (proofs: **CycleHardwareProofs**). Serial bytes rebuilt from stamped edges: edge interrupt, bounded queue, decoder and the
`Poll()` of a thread that can be preempted between the last pop and its reading of the counter.

### Settings and node

**SettingsStore** refines **DurableSettings** (`KeepsContract`; proofs: **SettingsStoreProofs**).
Load, update, reset and the register-by-register save over a storage that may fail or lose power
between two registers; `Validate()` is an arbitrary set `Valid`.

**Registers** (proofs: **DriveInputsProofs**). One field of each kind (enumeration, port, voltage, time), a write of every value type with
its conversion, and the cross-register rules of `Validate()`; a tool loads a profile register by register.
Numbers count halves so that a real can have a fraction. `GetNumber()` makes every number a float, so a float has
its precision here too: single steps below `Exact`, then of two and of four, with the nearest one taken (`Narrow`);
`GetInteger()` reads integers of 32 and 64 bits without it.

**CyphalNode** (proofs: **DriveInputsProofs**). One drive among allocators and other nodes: `Spin()`, which dispatches one transfer per step, allocation requests
and answers that are lost, repeated, delayed over a restart and reordered, writes of the node-ID, the
readiness subject that follows it, saving and restarting. **NodeTimers** (proofs: **DriveInputsProofs**): the periods of heartbeat, port list,
allocation, telemetry, homing state and commissioning status in a thread that may be held up.

### CAN

**CanTx**: one queue per interface, ordered by CAN-ID (a rank), with deadlines relative to now, and a controller
that takes or refuses frames. **CanRx**: receive queues filled by interrupts, popped in turn, and the watch
on bus-off, with an interrupt between any two accesses; local control uses what it was told. **SlcanLine**:
the ports of the simulated adapter, which take any number of the characters offered. The proofs about
the three are in **DriveInputsProofs**.

### Control cycle

**HotPath** (proofs: **HotPathProofs**). Control cycle, observer interrupt and control thread, one access at a time: angle double
buffer, `SeqLock` of the estimate, `Mailbox` of the current reference, and the wake-up of the control
thread. Values are the number of the run that wrote them, so a mix shows.

**OuterLoop** (proofs: **OuterLoopProofs**). The drive's hand-overs, one per access, against a `Step()`
that preempts them. Speeds and torques are left out; homing, the home and the counters are complete.
**SpeedLoop** has what is left out there: ramp, conditional integration, battery power window, speed demand and
the search for the stop, in integers chosen so that every division is exact. **RotorAngle** has the
multi-turn fixed-point angle and the home.

**DutyPipeline**. Triggers and update events of the timer, bursts of the circular DMA slots, the control cycle
in every fourth sample interrupt, `SetDutyTicks()` access by access, and `Stop()` with `Initialize()`.

**HallQueue** refines **EventFifo** (`QueueIsFifo`): the lock-free queue, access by access, with wrapping
indices. **HallFusion**: which edge, sector and standstill measurements the fusion makes of the events,
through any number of bypassed cycles and across wrapping timestamps, whose ages go round with them.
**TimingProbe**: record, word-by-word read and reset.

**SimCycle**. The simulated platform; `native_sim` runs one context at a time up to the next kernel call, so
every operation is one step.

The proofs about **SpeedLoop**, **RotorAngle**, **DutyPipeline**, **HallQueue**, **HallFusion**, **TimingProbe** and
**SimCycle** are in **CycleHardwareProofs**.

### Model-checking modules

`MC*` modules give the constants values. Six of them extend several modules that share no state; their
variable `part` names the module a behaviour moves, and the others stay in one fixed initial state.
`MCHoming` is **SpeedLoop** with one homing run. `MCSaving` has the two sides of the save gate. `MCCycleHardware`
gives TLC a `VIEW`: states of the Hall fusion that differ only in what no step reads any more (all but the rotor after
a drop; the age of the last change while a newer one is queued or no code is shown) count as one.

Definitions named `X_Y` above a definition `X` are its mutants: a plausible bug of that code which
breaks the property that `PROJECT.json` names. Type invariants are stated in the modules. Those of the power
stage, the settings store, the outer loop, the hot path and the duty pipeline are proved; the other proofs
state the types that their argument needs.

## 3. Runs

| Run | Distinct states | Checks |
|---|---|---|
| `saving` | 57,000 | power stage (117 states): `FlashWrittenWithOutputsOff`, `FaultDrivenOnlyInRecheck`, `CallsFinish`; settings store: `ShadowMirrorsStorage`, `SuccessIsDurable`, `KeepsContract` |
| `drive_node` | 1.1 million | `OneOwner`, `NoChangeForgotten`, `EngagementEnds` |
| `hw_startup` | 830,000 | bring-up: `DecidedOnMeasured`, `RunEnds`, `KeepsOwnership`; timers of the periodic messages: `NoBurst` |
| `hot_path` | 2.3 million | `CycleSeesWhole`, `EstimateWhole`, `LossesCounted` |
| `outer_loop` | 522,000 | `HomeKnown`, `GainsTaken`, `HoldsHome` |
| `local_control` | 361,000 | pedal: `MeanOfHalfTurn`, `StandstillSeen`; display: `DisplayFollowed`; e-bike: `FaultHoldsDriveOff`, `DemandFollowed`; cart: `SilenceSurvived` |
| `cyphal_node` | 780,000 | node: `IdentityKept`, `IdAllocated`; registers: `WritesTaken` |
| `can_transport` | 343,000 | transmit: `DeliveredInTime`; receive: `NeitherBusStarves`, `LocalControlTrustsBus`; adapter: `LinesWhole` |
| `cycle_hardware` | 2.5 million | duties: `AppliedAsRecorded`; Hall queue: `QueueIsFifo`; Hall fusion: `MeasuresTruth`; probe: `StatisticsTrue`; angle: `NoTurnLost`; controllers: `NoWindup`; simulation: `SimLikeHardware`; display line: `BytesAsSent` |

Each property is stated in words above its definition.

**Bounds.** `saving`: two drivers and three savers, one thread being both, which is every pair of
callers the firmware has (the number of states is small because the lock admits one); three registers (one
done, one current, one to come) with three values and a validation that relates two of them, so a mix of old
and new may be invalid. `drive_node`: `MaxTransfers` = 2,
two messages of one dispatch in every order; a third adds no new pair. `hw_startup`: `SweepSteps` = 2, a first and a
last position of the alignment sweep; timers of one to three ticks and a thread held up for four, longer than every
period.
`hot_path`: `MaxCycles` = 6 lets a cycle be lost before, during and after a run and both buffers
be reused; `SequenceModulus` = 4 makes the sequence wrap, `MaxOverlap` = 1 is the code's own argument
("the writer runs once per control cycle and a copy takes far less"). `outer_loop`: two gains, two
positions, two hand-overs of gains pending at once, two steps of block time; gains and positions are
compared by equality only, hence the symmetry.

`local_control`: four pulses per turn, so that half a turn has two bins; a queue of five pulses, of which an
update takes three, and stalls longer than the stop timeout, so that pulses are late and dropped; two seeds and two
corrupt frames, so that a wrong seed can be learnt and unlearnt; a limp-home torque of two ramp steps, the
cart timeout below the command timeout as `Validate()` demands. `cyphal_node`: two IDs held for
the drive and one for another node, two transfers per `Spin()` with two waiting; profiles of every valid combination of the
field values, and floats that hold every number of halves below four, so that there are fractions and whole numbers that no
float holds and numbers beyond the largest. Its run does not check for deadlock, since a tool that has loaded its profile stops;
the node does not.
`can_transport`: two interfaces, one of them healthy, queues of two frames, transfers of two; receive queues of
one with two frames per reception, so that both full and left over happen; two bus-offs within one
`Spin()`; lines of two characters on ports that take any part of them. `cycle_hardware`: plans numbered
modulo three and a control cycle that takes up to two update events; a Hall queue of two with indices modulo four; a count that wraps within the records; eight counts per
revolution with two pole pairs; a torque window whose bounds fall inside and outside of the PI output; a
cycle that is no whole number of ticks; bytes of two bits, a counter that wraps within a few frames and
an edge queue that a slow reader fills. Hall fusion: a timestamp range of 16 ticks with the standstill time below a
quarter of it as in the code, bypasses and standstills of any length, so that every age passes the range; two
events in the queue, both taken by a run (events that a run leaves over end the claim, and only the theorem has them).

**Fairness.** In `saving`, running calls and a running save go on (threads are scheduled; trips and the break input are
not fair). `drive_node`: the Cyphal thread spins, as its loop with a 1 ms timeout does; senders, trips
and the clock are not fair. `local_control`: the same loop, with strong fairness of a full e-bike
`Update()`, since `kStepUs` elapses again and again although frames wake `Spin()` earlier, and of the
engage hold; time passes and queued pulses are taken; a display that is on keeps sending. `cyphal_node`:
the thread spins; an allocator that is asked again and again answers, and of answers sent again and again one arrives
(`IdAllocated` needs a bus and an allocator that work). `can_transport`: the Cyphal thread runs; frames and
bus-offs are not fair. `hw_startup`: `RunOnce()` with new samples, and an operator who answers.
`cycle_hardware` and `stop_ends_homing`: the observer wakes the control thread.

## 4. Proofs

`PowerStageProofs`, for any sets of threads. The properties are not inductive: that no save runs with the
outputs on needs the lock (`LockInv`: whoever is inside holds it, alone), what the gate has seen
(`GateInv`), that only drivers are in Enable (`EnableInv`) and that an active break keeps MOE clear
(`BreakInv`; without it an acknowledged but still active break would latch again with outputs on). Theorems:
`TypeCorrect`, `FlashSafe`, `FaultSafe`, `LockExclusive`.

`SettingsStoreProofs`, for any number of registers, values and validation. `SaveInv` ties cursor, gate
and status together, `GateInv` keeps the stage off, `PrefixInv` says that the registers before the cursor
are in the storage; at the last register it gives durability. Theorems: `TypeCorrect`, `ShadowCorrect`,
`PrefixSaved`, `DurableSuccess`, `WritesWithOutputsOff`, and `Refinement`: the store implements
`DurableSettings`, step by step. Assumption: the factory settings are valid and the markers for an absent
or undecodable entry are no values (`StoreAssumption`).

`OuterLoopProofs`, for any gains, positions, block time and counter widths above one. `HandInv` is the
heart: a counter that the control thread has taken means it has the mailbox, a restart is never taken
without the gains it brought, and a count that `SetGains()` still owes will be seen; it needs that fewer
hand-overs than the counter has values come between two steps, which the actions' guards state. `HoldInv`
ties the held home to the setpoint at which the run ended. Theorems:
`TypeCorrect`, `GainsReach` (`GainsTaken`), `HomeCorrect` (`HomeKnown`), `HomeHeld` (`HoldsHome`).

`HotPathProofs`, for any number of cycles and any width of the sequence with `2 * MaxOverlap <
SequenceModulus`: the writer does not come round within one copy, which is the code's own argument. That no
cycle mixes two runs needs which buffer the observer has read and writes (`BufferInv`, `AngleInv`, `RefInv`);
that every loss is counted needs that an overrun between flip and clear pays for the cycle after it
(`OverrunInv`); that a copy with an unchanged sequence is whole needs that the sequence stands exactly two
per write ahead of the value read, and how many writes may still come (`CopyInv`). Theorems: `TypeCorrect`, `WholeSeen` (`CycleSeesWhole`),
`EveryLossCounted` (`LossesCounted`), `EstimateIsWhole` (`EstimateWhole`).

`DriveNodeProofs`, for any number of transfers in a `Spin()`, with and without a hardware that rejects a restart.
`OneOwner` needs that `Engage()`, between its calls, still has nobody beside it (`EngageInv`) and that an
emergency stop admits no startup run (`StopInv`); `NoChangeForgotten` needs where a difference between
live and applied settings is remembered at every phase of `Spin()` (`ChangeInv`). Theorems: `OwnerCorrect`,
`ChangesKept`.

`HwStartupProofs`, for any length of the alignment sweep. `RunInv`: an active run forces duties, and a request
to pass the barrier carries the confirmation of the motor. Theorems: `DecisionCorrect` (`DecidedOnMeasured`) and
`OwnershipKept`: `HwStartup` implements `StartupOwnership`, step by step.

`CycleHardwareProofs`, one section per module:
- `StatisticsCorrect` (`StatisticsTrue`), for any times and any width of the count. `ProbeInv`: accumulator and
  published statistics are those of some number of records, and a copy whose sequence has not moved is the
  published one.
- `AngleCorrect` (`NoTurnLost`), for any resolution. `AngleInv`: what is tracked is the true angle up to whole
  revolutions, and the rotor is less than half a revolution ahead. The lemmas are those on wrapping and
  division that the fixed-point code relies on.
- `QueueCorrect` (`QueueIsFifo`): the Hall queue implements `EventFifo` for every capacity that divides the
  range of the indices, under `~TurnsInInit`, the one producer that the queue is made for. `QueueInv`: at most
  `N` places in use, the head that a producer has loaded is still the head and leaves it room, and nobody writes the
  slot that the observer copies.
- `RecordTrue` (`AppliedAsRecorded`), for any number of plans and any length of a control cycle. `DutyInStep`
  keeps boundaries, triggers and sample interrupts in step; `DutyDataInv` says, by how far the bursts have come, what slots,
  preload and compare registers hold between two calls (`PlanInForce`) and during one (`PlanChanges`).
- `WindupExcluded` (`NoWindup`), for any gains, limits, setpoints and measurements. The controllers' types
  (`LoopInv`) are inductive; the work is in the lemmas on the window: the torque at the rounded quotient has the power allowed,
  and a tracked output stays within.
- `SimCorrect` (`SimLikeHardware`), for any length of cycle and tick. `SimInv`: a latched trip shows in the stage, the carried entry is
  the last one of the last plan, and the clock at expiry is the exact time rounded down.
- `FusionCorrect` (`MeasuresTruth`), for any timestamp range, standstill time, queue and number of events per run, and
  bypasses of any length. `FusionInv`: until an event is dropped, the queue holds the changes of the code since the last
  run, in order and each at its sector boundary (`ChangesQueued`); what the code was one and two ticks ago is known
  (`PastShown`), and while the observer was not away, the ages in the queue are true and say the same (`AgesTrue`); and
  the age of the newest change is exact up to where standstill is certain, and from there on, unless the observer was away
  since, in the clamp's reach (`ChangeTimed`). The age of a change before a long absence is left open: it may have passed
  any part of the range (section 5).
- `UartCorrect` (`BytesAsSent`), for any byte length, bit time, queues and counter with twice a frame and a read gap below its
  range. `UartIInv`: unless something was lost or a `Poll()` came more than half a bit late, a decoder that took the queued
  edges would be where the line is (`Follows`: it has every byte, is in the one on the line, or lacks the stop bit of
  the last one), and a `Poll()` under way has at most one edge to come after the counter it will read (`ButOne`). The
  lemmas say what one sample, one edge and a run of either do to such a decoder.

`DriveInputsProofs`, one section per module:
- `TimersCorrect` (`NoBurst`), for any heartbeat period and telemetry periods up to `MaxLate`, as far as the history
  looks back. The ages of the last two messages are bounded by the timers (`HeartbeatAges`, `TelemetryAges`).
- `BusWatched` (`LocalControlTrustsBus`), for any number of interfaces. `EventInv`: a bus-off that was not
  acted on is still in sight of the watch.
- `WritesCorrect` (`WritesTaken`), for any precision of the floats and any ranges that admit the factory defaults.
  `RegistersInv` follows a tool through both passes over the profile; that an accepted write reads back as a nearest float
  rests on a lemma about rounding (`NarrowNearest`), which also makes a float its own value (`NarrowFloat`).
- `FaultHolds` (`FaultHoldsDriveOff`). `FaultInv` hands the fault over: up to the next full `Update()` the re-arm of
  the drive keeps it off, from then on the latch of the control does.
- `CartReleased` (`ReleasedSafely`, the safety part of `SilenceSurvived`), for any torques, ramp and timeouts that
  `Validate()` admits. `CartInv` keeps the ages within their cap, so that commands which came no later than a
  lost readiness are no longer fresh.
- `HostsGetWholeLines` (`LinesWhole`), for any ports, lengths and buffers with a frame no longer than the line buffer. What is pending for a host
  is the rest of the very line it has got a part of (`HostInv`), a line that is not too long is counted as it
  was sent (`PortInv`), and the ring holds the frames in their order (`RingInv`).
- `IdentityCorrect` (`IdentityKept`) and `IdKept` (`IdUntilRestart`: an ID, once taken, stays to the next restart), for
  any IDs of the drive, numbers of transfers and of listeners from two on. `NodeInv` adds what a node without an ID
  keeps for the day it gets one: no readiness subject, a listener to spare, and nothing sent but requests.
- `PedalCorrect` (`MeanOfHalfTurn`) and `PedalRests` (`TrimmedAtRest`, the safety part of `StandstillSeen`), for any
  number of pulses per turn, timeouts, steps and ramps. `PedalInv`: the ring and its sum agree after every pulse
  (`Observes`), and with an empty queue the observer is at most one step ahead of the crank.
- `SeedCorrect` (`SeedKept`, the safety part of `DisplayFollowed`), for any seeds and number of corrupt frames. `SeedInv`:
  after a request of the display the window is empty and no candidate is left, and at the end of the next frame the
  next byte cannot complete an end marker again.
- `TxCorrect` (`DeliveredInTime`), for any interfaces, timeout and transfer length, with no more frames in a queue than
  the timeout has ticks, as in the code (64 frames, 100 ms). `TxInv`: on a healthy bus, a frame of the highest
  rank has at least as many ticks left as its place in the queue, one less while time is ahead of the
  transport's clock (`Waits`).

What a queue, a dispatch or a sequence of edges does is computed by recursive functions over its length. Where a proof needs
a fact about every element, it takes the least index at which the fact fails: the step before it gives the contradiction.

Only model-checked is liveness, which the prover does not handle: `CallsFinish`, `EngagementEnds`, `RunEnds`,
`DemandFollowed`, `NeitherBusStarves`, and what `StandstillSeen`, `DisplayFollowed`, `SilenceSurvived` and `IdAllocated`
say beyond their proved safety parts.

## 5. Where code and documentation disagree

Three runs expect a violation:

- `engaged_by_last_readiness`: SLEEP or STANDBY after ENGAGED in one dispatch does not clear
  `engage_requested_`; the drive engages (`drive_node.cpp:548`).
- `stop_ends_homing`: a homing run ends once the torque is at 99 % of its bound, but the anti-windup drops an
  integration step that would pass the bound, so at the stop the torque may stay below for ever
  (`outer_loop.cpp:277`, `speed_controller.hpp:143`). There is no timeout (`outer_loop.cpp:264`).
- `standstill_held`: the age of the last Hall edge is kept in range only when it is positive as a signed number
  (`hall_fusion.hpp:164`) and only while the observer runs. A latched trip or forced duties bypass it for any time
  (`current_control_isr.cpp:188`); once the age has passed half the range of the timestamps (12.6 s at 170 MHz) it is
  negative, and a rotor that stands is neither bounded in speed nor held still until it is positive again.
  `MeasuresTruth` excepts a rotor whose code changed last before, or at the end of, an absence of a quarter of the range.

Observed in the models, without a run of their own (formula in the module where one is named):

Drive and power stage:
- `drive_node.cpp:446` `EngagedOnControlLoop`: an abort and an ENGAGED in one dispatch engage a drive whose
  control cycle is still at forced neutral duties.
- `drive_node.cpp:453` `EngagedCalibrated`: an ENGAGED dispatched between DONE and the next `SpinStartup()`
  engages on the old calibration.
- `drive_node.cpp:469` `EngagedRuns`: a restart rejected by the hardware counts as applied, so a later
  engage releases a stage without control cycle.
- `drive_node.cpp:406`: a trip in the `Spin()` of a readiness timeout asks for no re-arm.
- `foc_stm32g4.cpp:354` `FaultLatched`: `InitTimer()` clears a latched break.
- `hw_startup.cpp:777` `PhaseTwoDriven`: the continue of CONNECT_MOTOR clears the fault of the stage but not
  the trip latch of the control cycle, so phase 2 measures at frozen duties.
- `hw_startup.cpp:684` `GateComparesOwnBaseline`: a run after one aborted in the second half of the gate
  check compares with the old baseline.
- `hw_startup.cpp:391`: a reading overwritten by a too low one leaves the continue pending until a better
  one arrives.

Local control:
- `ebike_control.cpp:91` `InhibitHolds`: `Update()` within `kStepUs` answers with the output of before
  `Inhibit()`.
- `ebike_control.cpp:84` `FaultLatchSurvivesSettings`: settings applied after a trip drop the latch.
- `pedal_observer.hpp:231` `AssistNeverNegative`: a pulse stamped ahead of the observer's clock makes the
  cadence, and with it the assist, negative for a while; `assist_controller.hpp` promises "zero or more in
  the driving direction".
- `cart_control.cpp:51`: a wheel command of before the engage, still fresh, makes the drive a cart drive.
- `cart_control.cpp:127` `BrakeNeverDrives`: a ramp slower than the fade of the brake torque drives backward.
- `drive_node.cpp:681` `BusLossForgets`: a second bus-off while the bus is already known to be lost does not
  reach the cart control, which goes on using what arrived between the two.

Settings and node:
- `settings_store.hpp:750` `UnsavedCountIsWhatSaveTouches`: erases of undecodable defaults are not counted.
- `register_value.cpp:134` `EverythingFits`: "everything else fits into a float" is not so of a real of 64 bits, whose
  fraction beyond a float's precision is lost: 3.00000001 is taken as 3 for an enumeration or a port.
- `settings_store.hpp:203` `SetpointsNotReadiness`: an allocated node-ID can move the readiness subject onto
  a setpoint subject, which `Validate()` was to exclude.
- `canard_transport.cpp`: the count of lost memory counts a received frame that found none twice.

Control cycle:
- `slow_update.cpp:145` `OverrunIsReuse`: a cycle between flip and clear counts an overrun with new angles.
- `outer_loop.cpp:142`: a disengage and an engage in one `Spin()` and a position setpoint in the next, both
  between two steps of the control thread, are not seen by it: a homing run goes on in the new engagement
  and the controllers are not restarted, while `outer_loop.hpp` says that a disengage ends a run.
- `outer_loop.cpp`: entering the position mode starts the speed demand from zero, also at a turning shaft.
- `speed_controller.hpp:143`: a battery window narrower than one step of the integral can hold the output at
  its bound against the error; `NoWindup` is stated for wider windows.
- `foc_stm32g4.cpp:514` `MissedPlansCounted`: with a long trigger lead, entry 0 is written into slot 0 ahead of
  the boundary; an update that passes between the check and this write is not counted as an overrun.
- `foc_stm32g4.cpp:364`: the peak flag of the control cycle is not reset by a restart, so the first cycle
  after it may take the wrong place in the plan.
- `foc_stm32g4.cpp:218`: a lost sample shifts the index of all later ones until a restart.
- `hot_path_timing.hpp:45` `MeanIsMean`: the count wraps after 2^32 records and the sum does not.
- `hall_capture.hpp:47` `NewestCodeSeen`: with `TurnsInInit` the rotor turns during `InitHall()`, whose push
  then meets the one of the interrupt: two producers on a queue for one. `LatestCode()` is called nowhere.
- `hall_fusion.hpp:143`: a backlog above `kMaxHallEvents` leaves the sector behind the rotor for a run, and edges
  queued for more than half the timestamp range appear to be in the future, so that the sector of that run is an old one.

## 6. Not modelled

- Plant models, observers, modulation and current control: floating-point numerics, each called from one
  context, without control flow of their own.
- Trace: the sample ring and its protocol are in a submodule whose source the repository does not hold.
- Units: compile-time dimensions without state. Boards, DSDL, build and scripts: configuration and tooling.
- Within modelled components: the contents of telemetry and log messages, the register list and GetInfo;
  the reassembly of transfers and the transfer-ID check inside libcanard (external); a change of the trigger lead, the
  dead time and ADC scaling; the status that the e-bike sends to its display; the battery current limits of the cart; the
  live current gains; the files and the command line of the simulator.
- A failed write of the storage is assumed to leave the old entry (NVS).

## 7. Plan

1. Done: power stage, settings store, drive, startup aid, e-bike, cart, hot path, outer loop; Cyphal node and
   timers, registers, CAN transport, simulated adapter and platform; duty pipeline, Hall capture and fusion,
   timing, controllers.
2. Left to model: the live current gains (`gains_pending_`) in the hot path, the trigger lead.
3. Every invariant that the runs check, and every safety part of their temporal properties, is proved. Liveness is
   left to the runs.
