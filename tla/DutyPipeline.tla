---------------------------- MODULE DutyPipeline ----------------------------
(***************************************************************************)
(* The duty pipeline of the STM32G4 driver                                 *)
(* (hardware/zephyr_bcc/foc_stm32g4.cpp): sample triggers and update       *)
(* events of the timer, the DMA bursts of the circular slots, the sample   *)
(* interrupt with the control cycle in every fourth one, SetDutyTicks()    *)
(* access by access, and Stop() with Initialize() of a settings restart.   *)
(*                                                                         *)
(* The timer and the DMA run beside the processor: between any two         *)
(* accesses of SetDutyTicks() an update event may pass.  A duty entry is   *)
(* the number of its plan and its place in it; the three compare registers *)
(* and the three words of a burst are one value.                           *)
(***************************************************************************)
EXTENDS Integers

CONSTANTS
    PlanNumbers,    \* plans are numbered modulo this, enough to tell neighbours apart
    MaxSpan         \* bound: update events while a sample interrupt waits and runs

ASSUME DutyPipelineAssumption == PlanNumbers \in Nat \ {0, 1, 2} /\ MaxSpan \in Nat \ {0}

VARIABLES
    driver,          \* "on", "masked" (interrupts off, timer on), "halted"
    next,           \* what the timer does next: the "trigger" or the "boundary"
    down,           \* TIM_CR1_DIR: counting down
    burst,          \* slot of the next DMA burst; CNDTR counts it down
    preload, duty,  \* CCR1..3: the preload and the value in effect
    dmaSlots,       \* g_dma_slots
    sampled,        \* the last triggered sample: duty and boundary type while it was taken
    irq,            \* the sample interrupt is pending (JEOS)
    index,          \* g_sample_index
    taken,          \* history: duty and boundary type of the samples of g_cycle
    pc,             \* where the control cycle is
    remaining, countingDown,    \* kRemaining (as the slot of the next burst), kCountingDown
    plan,           \* number of the plan being written
    applied, lastEntry, atPeak, \* g_applied, g_last_entry, g_control_at_peak
    overrun,        \* this call counts in g_duty_overruns
    counted,        \* history: the last plan counted an overrun
    raced,          \* history: 2 when an update passed an early write of this plan, 1
                    \* of the last plan (and for any disturbance before a restart)
    skewed,         \* history: a sample interrupt was lost since Initialize()
    span            \* update events since the interrupt is pending or runs

timerVars == <<next, down, burst, preload, duty, sampled>>
recordVars == <<applied, lastEntry, atPeak>>
callVars == <<remaining, countingDown, overrun>>
historyVars == <<counted, raced, skewed>>
dutyVars == <<driver, timerVars, dmaSlots, irq, index, taken, pc, callVars, plan,
          recordVars, historyVars, span>>

HalfPeriods == 0..3
Neutral == <<-1, 0>>
Entries == {Neutral} \cup ((0..(PlanNumbers - 1)) \X HalfPeriods)
Sample == [duty : Entries, peak : BOOLEAN]
Decayed(n) == IF n = 0 THEN 0 ELSE n - 1

\* CycleRaw{}: a cycle before its first sample, all neutral; the last sample of a cycle
\* belongs to a peak.
NoSamples == [k \in HalfPeriods |-> [duty |-> Neutral, peak |-> (k % 2 = 1)]]

\* The entries of the plan that SetDutyTicks() gets.
ticks == [k \in HalfPeriods |-> <<plan, k>>]

\* Mutant: the first sample counts as the first of a cycle.
Start_FirstIndex == 0

\* Initialize(): the first sample is the one before the first boundary, which is
\* the first DMA burst: the last sample of a cycle.
Start == 3

DutyInit ==
    /\ driver = "on" /\ next = "trigger" /\ down = FALSE /\ burst = 0
    /\ preload = Neutral /\ duty = Neutral
    /\ dmaSlots = [k \in HalfPeriods |-> Neutral]
    /\ sampled = [duty |-> Neutral, peak |-> TRUE]
    /\ irq = FALSE /\ index = Start
    /\ taken = NoSamples
    /\ pc = "idle" /\ remaining = 0 /\ countingDown = FALSE
    /\ plan = 0
    /\ applied = [k \in HalfPeriods |-> Neutral] /\ lastEntry = Neutral /\ atPeak = TRUE
    /\ overrun = FALSE /\ counted = FALSE /\ raced = 0 /\ skewed = FALSE /\ span = 0

-----------------------------------------------------------------------------
(* Timer, ADC and DMA                                                      *)

\* The injected sequence, the lead before a boundary.  A sample whose interrupt has
\* not been taken yet is overwritten.
Trigger ==
    /\ driver # "halted" /\ next = "trigger" /\ next' = "boundary"
    /\ sampled' = [duty |-> duty, peak |-> ~down]
    /\ irq' = TRUE
    /\ skewed' = (skewed \/ (irq /\ driver = "on"))
    /\ UNCHANGED <<driver, down, burst, preload, duty, dmaSlots, index, taken, pc, callVars,
                   plan, recordVars, counted, raced, span>>

\* Update event: the preload takes effect, then the burst fills it from the next slot.
Boundary ==
    /\ driver # "halted" /\ next = "boundary" /\ next' = "trigger"
    /\ span < MaxSpan
    /\ span' = IF irq \/ pc # "idle" THEN span + 1 ELSE 0
    /\ down' = ~down
    /\ duty' = preload
    /\ preload' = dmaSlots[burst]
    /\ burst' = (burst + 1) % 4
    /\ raced' = IF pc \in {"direction", "slots", "entry"} /\ remaining = 0 THEN 2 ELSE raced
    /\ UNCHANGED <<driver, dmaSlots, sampled, irq, index, taken, pc, callVars, plan,
                   recordVars, counted, skewed>>

-----------------------------------------------------------------------------
(* The sample interrupt                                                    *)

\* SampleIsr(): three of four only store the sample, the fourth runs the cycle.
SampleIsr ==
    /\ driver = "on" /\ irq /\ pc = "idle"
    /\ irq' = FALSE
    /\ taken' = [taken EXCEPT ![index] = sampled]
    /\ index' = (index + 1) % 4
    /\ pc' = IF index < 3 THEN "idle" ELSE "control"
    /\ span' = IF index < 3 THEN 0 ELSE span
    /\ UNCHANGED <<driver, timerVars, dmaSlots, callVars, plan, recordVars, historyVars>>

Call(from, to) ==
    /\ pc = from /\ pc' = to
    /\ UNCHANGED <<driver, timerVars, irq, index, taken, skewed, span>>

\* ControlCycleHandler() up to SetDutyTicks(), which reads the DMA counter first.
ReadRemaining ==
    /\ Call("control", "direction")
    /\ remaining' = burst
    /\ overrun' = FALSE
    /\ UNCHANGED <<dmaSlots, countingDown, plan, recordVars, counted, raced>>

ReadDirection ==
    /\ Call("direction", "slots")
    /\ countingDown' = down
    /\ UNCHANGED <<dmaSlots, remaining, overrun, plan, recordVars, counted, raced>>

WriteSlots ==
    /\ Call("slots", "entry")
    /\ dmaSlots' = [k \in HalfPeriods |-> IF k = 0 THEN dmaSlots[0] ELSE ticks[k]]
    /\ UNCHANGED <<callVars, plan, recordVars, counted, raced>>

\* The burst of the control boundary is done: entry 0 into the preload.
WritePreload ==
    /\ remaining = 1
    /\ pc = "entry" /\ pc' = "recheck"
    /\ preload' = ticks[0]
    /\ dmaSlots' = [dmaSlots EXCEPT ![0] = ticks[3]]
    /\ UNCHANGED <<driver, next, down, burst, duty, sampled, irq, index, taken, callVars,
                   plan, recordVars, historyVars, span>>

\* The next update came during the write.
Recheck ==
    /\ Call("recheck", "record")
    /\ overrun' = (burst # remaining)
    /\ atPeak' = countingDown
    /\ UNCHANGED <<dmaSlots, remaining, countingDown, plan, applied, lastEntry, counted, raced>>

\* Early, the control boundary is still ahead: its burst delivers entry 0.
WriteSlotZero ==
    /\ remaining = 0
    /\ Call("entry", "record")
    /\ dmaSlots' = [dmaSlots EXCEPT ![0] = ticks[0]]
    /\ atPeak' = ~countingDown
    /\ UNCHANGED <<callVars, plan, applied, lastEntry, counted, raced>>

Late ==
    /\ remaining \notin {0, 1}
    /\ Call("entry", "record")
    /\ overrun' = TRUE
    /\ UNCHANGED <<dmaSlots, remaining, countingDown, plan, recordVars, counted, raced>>

\* Sample k of the next cycle is taken in the half period that ends at the
\* (k + 1)-th boundary after the control boundary.
Recorded == [k \in HalfPeriods |-> IF k = 0 THEN lastEntry ELSE ticks[k - 1]]

RecordPlan ==
    /\ pc = "record" /\ pc' = "idle"
    /\ applied' = Recorded
    /\ lastEntry' = ticks[3]
    /\ plan' = (plan + 1) % PlanNumbers
    /\ counted' = overrun
    /\ raced' = Decayed(raced)
    /\ span' = 0
    /\ taken' = NoSamples
    /\ remaining' = 0 /\ countingDown' = FALSE /\ overrun' = FALSE
    /\ UNCHANGED <<driver, timerVars, dmaSlots, irq, index, atPeak, skewed>>

-----------------------------------------------------------------------------
(* A settings restart, in a thread: the sample interrupt is not running    *)

\* Stop(): first the interrupts.
StopInterrupts ==
    /\ driver = "on" /\ pc = "idle" /\ driver' = "masked"
    /\ UNCHANGED <<timerVars, dmaSlots, irq, index, taken, pc, callVars, plan, recordVars,
                   historyVars, span>>

\* ... then the timer, the DMA and the ADCs; a sample triggered meanwhile is not left
\* pending.
HaltTimer ==
    /\ driver = "masked" /\ driver' = "halted"
    /\ irq' = FALSE
    /\ UNCHANGED <<timerVars, dmaSlots, index, taken, pc, callVars, plan, recordVars,
                   historyVars, span>>

\* Initialize(): InitTimer(), InitDma() and the sample interrupt state.  It leaves
\* g_control_at_peak as it was: a record disturbed before is so for one cycle more.
InitializeDriver ==
    /\ driver = "halted" /\ driver' = "on"
    /\ next' = "trigger" /\ down' = FALSE /\ burst' = 0
    /\ preload' = Neutral /\ duty' = Neutral
    /\ dmaSlots' = [k \in HalfPeriods |-> Neutral]
    /\ index' = Start
    /\ taken' = NoSamples
    /\ applied' = [k \in HalfPeriods |-> Neutral] /\ lastEntry' = Neutral
    /\ counted' = FALSE /\ skewed' = FALSE /\ span' = 0
    /\ raced' = IF counted \/ raced > 0 \/ skewed THEN 1 ELSE 0
    /\ plan' = 0
    /\ UNCHANGED <<sampled, irq, pc, callVars, atPeak>>

DutyNext ==
    \/ Trigger \/ Boundary
    \/ SampleIsr \/ ReadRemaining \/ ReadDirection \/ WriteSlots \/ WritePreload
    \/ Recheck \/ WriteSlotZero \/ Late \/ RecordPlan
    \/ StopInterrupts \/ HaltTimer \/ InitializeDriver

DutySpec == DutyInit /\ [][DutyNext]_dutyVars

-----------------------------------------------------------------------------
(* Properties                                                              *)

DutyTypeOK ==
    /\ driver \in {"on", "masked", "halted"} /\ next \in {"trigger", "boundary"}
    /\ down \in BOOLEAN /\ burst \in HalfPeriods
    /\ preload \in Entries /\ duty \in Entries
    /\ dmaSlots \in [HalfPeriods -> Entries] /\ sampled \in Sample
    /\ irq \in BOOLEAN /\ index \in HalfPeriods /\ taken \in [HalfPeriods -> Sample]
    /\ pc \in {"idle", "control", "direction", "slots", "entry", "recheck", "record"}
    /\ remaining \in HalfPeriods /\ countingDown \in BOOLEAN /\ overrun \in BOOLEAN
    /\ plan \in 0..(PlanNumbers - 1)
    /\ applied \in [HalfPeriods -> Entries] /\ lastEntry \in Entries /\ atPeak \in BOOLEAN
    /\ counted \in BOOLEAN /\ raced \in 0..2 /\ skewed \in BOOLEAN /\ span \in 0..MaxSpan

\* SampleAtPeak(k)
SampleAtPeak(k) == ((3 - k) % 2 = 0) = atPeak

\* AppliedTicks() and SampleAtPeak() tell what was in effect when the samples of the
\* finished cycle were taken.
Truthful ==
    \A k \in HalfPeriods : taken[k] = [duty |-> applied[k], peak |-> SampleAtPeak(k)]

\* The reconstruction of a disturbed phase (CycleSampleCurrents()) works on what the
\* bridge really did: through early and normal control cycles in any mixture, late
\* ones and restarts, the record is true of every finished cycle, unless its own plan
\* counted an overrun or was passed by an update during an early write, or a sample has
\* been lost since the start (or any of that before a restart, for its first cycle).
AppliedAsRecorded ==
    pc = "control" /\ ~counted /\ raced = 0 /\ ~skewed => Truthful

\* hot_path_timing.hpp, DutyOverruns(): "Duty plans the hardware did not apply in time
\* since start (BCC: the DMA burst ran ahead)": with no lost sample, a plan that was
\* not applied as recorded has been counted.
MissedPlansCounted == pc = "control" /\ ~counted /\ ~skewed => Truthful
=============================================================================
