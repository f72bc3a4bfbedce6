------------------------------- MODULE SimCycle -------------------------------
(***************************************************************************)
(* The simulated platform (hardware/zephyr_sim/hardware_interface.cpp,     *)
(* cyphal_platform.cpp): the cycle timer, the control cycle on the plant,  *)
(* the power stage, and the registers that pause, advance, disturb and     *)
(* reset the simulation.                                                   *)
(*                                                                         *)
(* native_sim runs one thread or interrupt at a time, up to the next       *)
(* kernel call: every operation is one step.  The plant is reduced to the  *)
(* inputs it was given and to which samples exceed the overcurrent limit.  *)
(***************************************************************************)
EXTENDS Integers

CONSTANTS
    CycleNs,        \* g_cycle_ns
    TickNs,         \* the kernel tick (1000)
    PlanCount,      \* plans are numbered modulo this
    Loads, DefaultLoad, \* register inputs of the plant
    MaxCycles       \* bound: cycles since the timer was started

ASSUME SimCycleAssumption ==
    /\ CycleNs \in Nat /\ TickNs \in 1..CycleNs /\ PlanCount \in Nat \ {0, 1}
    /\ DefaultLoad \in Loads /\ MaxCycles \in Nat

VARIABLES
    stage,          \* g_power_stage: external_enable, enabled, fault
    running, paused,            \* g_free_running, g_paused
    delay,          \* ticks to which g_cycle_timer was set, or NoTimer
    elapsedNs, elapsedUs,       \* g_elapsed_ns, g_elapsed_us (in ticks)
    clock,          \* history: time since the timer was started
    planned, carried, appliedDuties,    \* g_plan (its number), g_carry, g_applied
    override,       \* g_current_override, with currents above the limit
    inputs, plant,  \* g_inputs, and what of them the plant has
    latched,        \* history: a trip has not been acknowledged
    misdriven       \* history: what the plant got that it should not have

timerState == <<running, delay, elapsedNs, elapsedUs, clock>>
dutyState == <<planned, carried, appliedDuties>>
simVars ==
    <<stage, paused, timerState, dutyState, override, inputs, plant, latched, misdriven>>

NoTimer == -1
NoDuty == <<-1, 3>>
Quarters == 0..3

SimInit ==
    /\ stage = [external |-> TRUE, enabled |-> FALSE, fault |-> FALSE]
    /\ running = TRUE /\ paused = FALSE
    /\ elapsedNs = CycleNs /\ elapsedUs = CycleNs \div TickNs /\ delay = elapsedUs /\ clock = 0
    /\ planned = -1 /\ carried = NoDuty /\ appliedDuties = [k \in Quarters |-> NoDuty]
    /\ override = FALSE
    /\ inputs = [load |-> DefaultLoad, external |-> TRUE, follow |-> TRUE]
    /\ plant = DefaultLoad
    /\ latched = FALSE /\ misdriven = {}

-----------------------------------------------------------------------------
(* Power stage                                                             *)

Tripped(s) == [s EXCEPT !.enabled = FALSE, !.fault = TRUE]

PowerStageEnable ==
    /\ stage' = IF stage.external /\ ~stage.fault THEN [stage EXCEPT !.enabled = TRUE]
                ELSE stage
    /\ UNCHANGED <<paused, timerState, dutyState, override, inputs, plant, latched, misdriven>>

PowerStageDisable ==
    /\ stage' = [stage EXCEPT !.enabled = FALSE]
    /\ UNCHANGED <<paused, timerState, dutyState, override, inputs, plant, latched, misdriven>>

PowerStageTrip ==
    /\ stage' = Tripped(stage) /\ latched' = TRUE
    /\ UNCHANGED <<paused, timerState, dutyState, override, inputs, plant, misdriven>>

\* An active break input latches again.
PowerStageClearFault ==
    /\ stage' = [stage EXCEPT !.fault = ~stage.external]
    /\ latched' = ~stage.external
    /\ UNCHANGED <<paused, timerState, dutyState, override, inputs, plant, misdriven>>

-----------------------------------------------------------------------------
(* The control cycle                                                       *)

Carried(number) == <<number, 3>>

\* RunCycle(): the handlers, which may trip, then four half periods, each with its
\* sample; first is the first sample above the limit, 4 for none.
RunCycle ==
    \E trips \in BOOLEAN, first \in (IF override THEN {0} ELSE 0..4) :
        LET number == (planned + 1) % PlanCount
            released == stage.enabled /\ ~trips
            over == trips \/ first < 4
        IN
        /\ planned' = number
        /\ appliedDuties' = [k \in Quarters |-> IF k = 0 THEN carried ELSE <<number, k - 1>>]
        /\ carried' = Carried(number)
        /\ stage' = IF over THEN Tripped(stage) ELSE stage
        /\ latched' = (latched \/ over)
        /\ misdriven' = misdriven
            \cup (IF released /\ latched THEN {"after a trip"} ELSE {})
            \cup (IF appliedDuties'[0] = <<planned, 3>> THEN {} ELSE {"out of order"})
        /\ UNCHANGED <<paused, override, inputs, plant>>

\* Mutant: every expiry a whole number of ticks after the last one.
Scheduled_Rounded(ns, us) ==
    /\ elapsedNs' = ns + CycleNs
    /\ delay' = CycleNs \div TickNs
    /\ elapsedUs' = us + delay'

\* ScheduleNext(), from the exact time ns and the ticks us of the last expiry.
Scheduled(ns, us) ==
    /\ elapsedNs' = ns + CycleNs
    /\ elapsedUs' = elapsedNs' \div TickNs
    /\ delay' = elapsedUs' - us

StartTimer == running' = TRUE /\ clock' = 0 /\ Scheduled(0, 0)

StopTimer ==
    /\ running' = FALSE /\ delay' = NoTimer /\ clock' = 0
    /\ UNCHANGED <<elapsedNs, elapsedUs>>

\* OnCycleTimer()
OnCycleTimer ==
    /\ delay # NoTimer /\ elapsedNs < MaxCycles * CycleNs
    /\ clock' = clock + delay
    /\ RunCycle
    /\ IF running THEN Scheduled(elapsedNs, elapsedUs)
       ELSE delay' = NoTimer /\ UNCHANGED <<elapsedNs, elapsedUs>>
    /\ UNCHANGED running

-----------------------------------------------------------------------------
(* Registers and fault injection                                           *)

\* ApplyInputs() with SetExternalEnable(), on the power stage s.
AppliedStage(s) ==
    IF inputs'.external THEN [s EXCEPT !.external = TRUE]
    ELSE Tripped([s EXCEPT !.external = FALSE])

ApplyInputs(s) ==
    /\ plant' = inputs'.load
    /\ stage' = AppliedStage(s)

WriteInput ==
    /\ \/ \E load \in Loads : inputs' = [inputs EXCEPT !.load = load]
       \/ \E b \in BOOLEAN : inputs' = [inputs EXCEPT !.external = b]
    /\ ApplyInputs(stage)
    /\ latched' = (latched \/ ~inputs'.external)
    /\ UNCHANGED <<paused, timerState, dutyState, override, misdriven>>

WriteFollow ==
    /\ \E b \in BOOLEAN : inputs' = [inputs EXCEPT !.follow = b]
    /\ UNCHANGED <<stage, paused, timerState, dutyState, override, plant, latched, misdriven>>

\* SetPaused(), after Initialize().
WritePaused ==
    /\ \E b \in BOOLEAN :
        /\ paused' = b
        /\ CASE running = ~b -> UNCHANGED timerState
             [] ~b /\ ~running -> StartTimer
             [] b /\ running -> StopTimer
    /\ UNCHANGED <<stage, dutyState, override, inputs, plant, latched, misdriven>>

\* One of the cycles of AdvanceCycles(), which a paused simulation accepts.
WriteAdvance == paused /\ RunCycle /\ UNCHANGED timerState

\* Initialize(): the cycle state of the first cycle; a paused simulation stays paused.
Initialize ==
    /\ planned' = -1 /\ carried' = NoDuty /\ appliedDuties' = [k \in Quarters |-> NoDuty]
    /\ IF paused THEN StopTimer ELSE StartTimer

\* ResetSimulation(), refused while enabled: Stop(), Reset(), ApplyInputs(), and
\* StartRuntime() with Initialize().
WriteReset ==
    /\ ~stage.enabled
    /\ override' = FALSE
    /\ UNCHANGED inputs
    /\ ApplyInputs([stage EXCEPT !.fault = ~stage.external])
    /\ latched' = ~inputs.external
    /\ Initialize
    /\ UNCHANGED <<paused, misdriven>>

\* Settings applied by a disengaged drive: the runtime restarts, then
\* CyphalPlatformSettingsApplied() configures the plant, which may reject them and
\* otherwise forgets its inputs.
SettingsApplied ==
    /\ ~stage.enabled
    /\ Initialize
    /\ UNCHANGED inputs
    /\ IF inputs.follow THEN ApplyInputs(stage) /\ latched' = (latched \/ ~inputs.external)
       ELSE UNCHANGED <<plant, stage, latched>>
    /\ UNCHANGED <<paused, override, misdriven>>

\* SetPhaseCurrentOverride(), ClearPhaseCurrentOverride()
SetOverride ==
    /\ override' \in BOOLEAN
    /\ UNCHANGED <<stage, paused, timerState, dutyState, inputs, plant, latched, misdriven>>

SimNext ==
    \/ OnCycleTimer \/ WriteAdvance
    \/ PowerStageEnable \/ PowerStageDisable \/ PowerStageTrip \/ PowerStageClearFault
    \/ WriteInput \/ WriteFollow \/ WritePaused \/ WriteReset \/ SettingsApplied \/ SetOverride

SimSpec == SimInit /\ [][SimNext]_simVars

-----------------------------------------------------------------------------
(* Properties                                                              *)

\* "With the timing of the BCC": every entry of every plan is applied once and in
\* order, the last one carried into the next cycle, after a trip of any origin no half
\* period is driven before the trip is acknowledged, and the plant has the inputs the
\* registers show.  "Schedule each expiry from the exact elapsed time so the mean rate
\* is exact": the next cycle is due within one tick of a whole number of cycles since
\* the timer was started, and a paused simulation has no timer.  All of it through
\* pauses, resets and settings restarts in any order.
SimLikeHardware ==
    /\ misdriven = {} /\ plant = inputs.load
    /\ paused => delay = NoTimer
    /\ delay # NoTimer => (clock + delay) * TickNs \in (elapsedNs - TickNs + 1)..elapsedNs
=============================================================================
