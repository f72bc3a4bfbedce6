------------------------------ MODULE HwStartup ------------------------------
(***************************************************************************)
(* The hardware bring-up of the startup aid (src/startup/hw_startup.cpp)   *)
(* behind its commissioning commands (src/drive/commissioning.cpp), over   *)
(* the power stage and the control cycle that applies the forced duties.   *)
(*                                                                         *)
(* One RunOnce() with a new sample is one step; a run without one changes  *)
(* nothing.  Sample counts are reduced to whether the step has its samples,*)
(* measurements to whether they pass, duties to neutral or not.            *)
(***************************************************************************)
EXTENDS Integers

CONSTANT SweepSteps  \* bound: kNSweepSteps, positions of the alignment sweep

ASSUME StartupAssumption == SweepSteps \in Nat \ {0}

VARIABLES
    state, stepDone, nextRequested,  \* state_, step_done_, next_step_requested_
    full,                \* sample_count_ has reached the count of the step
    sweepPos,            \* sweep_pos_
    gatePhaseDisabled,   \* gate_phase_disabled_
    passed, completed,   \* results.passed, completed_: sets of steps
    fault,               \* fault_
    extVdc, extCurrent,  \* ext_vdc_, ext_current_: "none", "low" or "valid"
    duty,                \* forced duty: "none", "neutral" or "offset"
    moe, bif, external,  \* power stage, as in PowerStage
    tripped,             \* CurrentControlIsr::Tripped()
    confirmed,           \* history: the motor was confirmed in this run
    baseline,            \* history: gate_mean_disabled_ is of this run
    driven               \* history: the cycle has applied the duties of the step

fsmVars == <<state, stepDone, nextRequested, full>>
measureVars == <<sweepPos, gatePhaseDisabled, passed, completed, baseline, driven>>
readingVars == <<extVdc, extCurrent>>
stageVars == <<moe, bif, external, tripped>>
vars == <<fsmVars, measureVars, readingVars, fault, duty, stageVars, confirmed>>

-----------------------------------------------------------------------------
(* FsmState, in the order of its values                                    *)

kIdle == 0
kPwmDisable == 1
kAdcOffsetCal == 2
kAdcNoiseFloor == 3
kDutyForceLow == 4
kDutyForceMid == 5
kDutyForceHigh == 6
kDcLinkVoltageCheck == 7
kGateDriverEnableCheck == 8
kConnectMotor == 9
kPhaseAdcAlignment == 10
kCurrentSenseCalibration == 11
kDone == 12
kFault == 13

RunSteps == kPwmDisable..kCurrentSenseCalibration
DutyForceSteps == {kDutyForceLow, kDutyForceMid, kDutyForceHigh}
ReadingSteps == {kDcLinkVoltageCheck, kCurrentSenseCalibration}
Faults == {"kNone", "kAborted", "kEmergencyStop", "kOvercurrent", "kTrip",
           "kEnableLost", "kApplyFailed"}
ReadingValues == {"low", "valid"}

IsActive == state \in RunSteps

\* The reading that the present step takes.
Reading == IF state = kDcLinkVoltageCheck THEN extVdc ELSE extCurrent

\* A measured step that still misses its reading, or the barrier.
Needs ==
    CASE state \in ReadingSteps /\ ~stepDone /\ full -> "reading"
      [] state = kConnectMotor /\ stepDone           -> "kMotorConnected"
      [] OTHER                                       -> "kNone"

Init ==
    /\ state = kIdle /\ stepDone = FALSE /\ nextRequested = FALSE /\ full = FALSE
    /\ sweepPos = 0 /\ gatePhaseDisabled = TRUE
    /\ passed = {} /\ completed = {}
    /\ fault = "kNone"
    /\ extVdc = "none" /\ extCurrent = "none"
    /\ duty = "none"
    /\ moe = FALSE /\ external \in BOOLEAN /\ bif = ~external
    /\ tripped = FALSE
    /\ confirmed = FALSE /\ baseline = FALSE /\ driven = FALSE

-----------------------------------------------------------------------------
(* Commands of the Cyphal thread                                           *)

\* A latched break is acknowledged; without the external enable it comes back.
Acknowledged == bif /\ (moe \/ ~external)

RequestRun ==
    /\ ~IsActive
    /\ bif' = Acknowledged
    /\ tripped' = FALSE
    /\ passed' = {} /\ completed' = {} /\ sweepPos' = 0
    /\ stepDone' = FALSE /\ nextRequested' = FALSE /\ full' = FALSE
    /\ extVdc' = "none" /\ extCurrent' = "none"
    /\ fault' = "kNone"
    /\ confirmed' = FALSE /\ baseline' = FALSE /\ driven' = FALSE
    /\ IF external /\ ~bif'
       THEN state' = kPwmDisable /\ duty' = "neutral" /\ moe' = TRUE
       ELSE state' = kIdle /\ duty' = "none" /\ moe' = moe
    /\ UNCHANGED <<gatePhaseDisabled, external>>

\* An accepted continue: the barrier takes the confirmation, no other step does.
RequestNextStep(motorConnected) ==
    /\ IsActive
    /\ Needs # "reading"
    /\ motorConnected = (Needs = "kMotorConnected")
    /\ stepDone
    /\ nextRequested' = TRUE
    /\ confirmed' = (confirmed \/ motorConnected)
    /\ UNCHANGED <<state, stepDone, full, measureVars, readingVars, fault, duty,
                   stageVars>>

\* A positive number, which may be below the least value the step takes.
SetReading ==
    /\ IsActive
    /\ \/ extVdc' \in ReadingValues /\ UNCHANGED extCurrent
       \/ extCurrent' \in ReadingValues /\ UNCHANGED extVdc
    /\ UNCHANGED <<fsmVars, measureVars, fault, duty, stageVars, confirmed>>

EnterFault(reason) ==
    /\ fault' = reason
    /\ state' = kFault
    /\ duty' = "neutral"
    /\ moe' = FALSE

RequestAbort ==
    /\ IsActive
    /\ \E reason \in {"kAborted", "kEmergencyStop"} : EnterFault(reason)
    /\ UNCHANGED <<stepDone, nextRequested, full, measureVars, readingVars, bif,
                   external, tripped, confirmed>>

-----------------------------------------------------------------------------
(* RunOnce(): the checks before the step                                   *)

\* CONNECT_MOTOR holds the outputs off itself.
StageLost ==
    /\ IsActive /\ state # kConnectMotor
    /\ ~moe
    /\ EnterFault(IF tripped THEN "kTrip" ELSE "kEnableLost")
    /\ UNCHANGED <<stepDone, nextRequested, full, measureVars, readingVars, bif,
                   external, tripped, confirmed>>

CheckedStep == IsActive /\ (state = kConnectMotor \/ moe)

CheckMotorOc ==
    /\ CheckedStep
    /\ EnterFault("kOvercurrent")
    /\ UNCHANGED <<stepDone, nextRequested, full, measureVars, readingVars, bif,
                   external, tripped, confirmed>>

-----------------------------------------------------------------------------
(* RunOnce(): measuring                                                    *)

\* The duty a measuring step forces with every sample.
DutyOf(s) ==
    IF \/ s \in {kDutyForceLow, kDutyForceHigh, kPhaseAdcAlignment,
                 kCurrentSenseCalibration}
       \/ s = kGateDriverEnableCheck /\ ~gatePhaseDisabled
    THEN "offset" ELSE "neutral"

\* A latched trip freezes the control cycle at neutral duties.
Measuring ==
    /\ CheckedStep /\ ~stepDone
    /\ duty' = DutyOf(state)
    /\ driven' = (duty' = "neutral" \/ ~tripped)

Finished(pass) ==
    /\ stepDone' = TRUE
    /\ passed' = IF pass THEN passed \cup {state} ELSE passed \ {state}

\* Manual steps always pass, the others by their thresholds.
MeasureStep ==
    /\ state \in {kPwmDisable, kAdcOffsetCal, kAdcNoiseFloor} \cup DutyForceSteps
    /\ Measuring
    /\ \E pass \in BOOLEAN :
          /\ state \in DutyForceSteps => pass
          /\ Finished(pass /\ state # kPwmDisable)
    /\ UNCHANGED <<state, nextRequested, full, sweepPos, gatePhaseDisabled, completed,
                   baseline, readingVars, fault, stageVars, confirmed>>

\* Mutant: a step with all its samples looks for its reading only once.
MeasureWithReading_Once ==
    /\ state \in ReadingSteps
    /\ Measuring /\ ~full
    /\ full' = TRUE
    /\ IF Reading = "valid"
       THEN \E pass \in BOOLEAN : Finished(pass)
       ELSE UNCHANGED <<stepDone, passed>>
    /\ UNCHANGED <<state, nextRequested, sweepPos, gatePhaseDisabled, completed,
                   baseline, readingVars, fault, stageVars, confirmed>>

\* The samples are complete; the step ends with them if the reading is there.
MeasureWithReading ==
    /\ state \in ReadingSteps
    /\ Measuring
    /\ full' = TRUE
    /\ IF Reading = "valid"
       THEN \E pass \in BOOLEAN : Finished(pass)
       ELSE UNCHANGED <<stepDone, passed>>
    /\ UNCHANGED <<state, nextRequested, sweepPos, gatePhaseDisabled, completed,
                   baseline, readingVars, fault, stageVars, confirmed>>

MeasureGateBaseline ==
    /\ state = kGateDriverEnableCheck /\ gatePhaseDisabled
    /\ Measuring
    /\ gatePhaseDisabled' = FALSE
    /\ baseline' = TRUE
    /\ UNCHANGED <<fsmVars, sweepPos, passed, completed, readingVars, fault,
                   stageVars, confirmed>>

MeasureGateEnabled ==
    /\ state = kGateDriverEnableCheck /\ ~gatePhaseDisabled
    /\ Measuring
    /\ gatePhaseDisabled' = TRUE
    /\ \E pass \in BOOLEAN : Finished(pass)
    /\ UNCHANGED <<state, nextRequested, full, sweepPos, completed, baseline,
                   readingVars, fault, stageVars, confirmed>>

SweepAlignment ==
    /\ state = kPhaseAdcAlignment
    /\ Measuring
    /\ IF sweepPos < SweepSteps
       THEN sweepPos' = sweepPos + 1 /\ UNCHANGED <<stepDone, passed>>
       ELSE (\E pass \in BOOLEAN : Finished(pass)) /\ UNCHANGED sweepPos
    /\ UNCHANGED <<state, nextRequested, full, gatePhaseDisabled, completed, baseline,
                   readingVars, fault, stageVars, confirmed>>

\* The outputs go off before the operator is asked to connect the motor.
RunConnectMotor ==
    /\ state = kConnectMotor /\ ~stepDone
    /\ duty' = "neutral"
    /\ moe' = FALSE
    /\ Finished(TRUE)
    /\ UNCHANGED <<state, nextRequested, full, sweepPos, gatePhaseDisabled, completed,
                   baseline, driven, readingVars, fault, bif, external, tripped,
                   confirmed>>

Measure ==
    \/ MeasureStep \/ MeasureWithReading \/ MeasureGateBaseline
    \/ MeasureGateEnabled \/ SweepAlignment \/ RunConnectMotor

-----------------------------------------------------------------------------
(* RunOnce(): continuing                                                   *)

ValidateCurrentState ==
    /\ state = kCurrentSenseCalibration => extCurrent = "valid"
    /\ state = kDcLinkVoltageCheck => extVdc = "valid"

Continues == CheckedStep /\ stepDone /\ nextRequested /\ ValidateCurrentState

\* Mutant: the request outlives the step it was for.
AdvanceToNextState_KeepsRequest ==
    /\ completed' = completed \cup {state}
    /\ state' = state + 1
    /\ stepDone' = FALSE /\ full' = FALSE
    /\ UNCHANGED nextRequested

\* AdvanceToNextState() and TransitionTo().
AdvanceToNextState ==
    /\ completed' = completed \cup {state}
    /\ state' = state + 1
    /\ stepDone' = FALSE /\ nextRequested' = FALSE /\ full' = FALSE

\* The gate check returns before it forces a duty.
ContinueStep ==
    /\ Continues
    /\ state \notin {kConnectMotor, kCurrentSenseCalibration}
    /\ AdvanceToNextState
    /\ duty' = IF state = kGateDriverEnableCheck THEN duty ELSE DutyOf(state)
    /\ passed' = IF state = kPwmDisable THEN passed \cup {state} ELSE passed
    /\ UNCHANGED <<sweepPos, gatePhaseDisabled, baseline, driven, readingVars, fault,
                   stageVars, confirmed>>

\* The outputs are released again at neutral duty, or the run ends.
ContinuePhaseTwo ==
    /\ Continues
    /\ state = kConnectMotor
    /\ bif' = Acknowledged
    /\ IF external /\ ~bif'
       THEN AdvanceToNextState /\ moe' = TRUE /\ duty' = "neutral" /\ UNCHANGED fault
       ELSE EnterFault("kEnableLost")
            /\ UNCHANGED <<stepDone, nextRequested, full, completed>>
    /\ UNCHANGED <<sweepPos, gatePhaseDisabled, passed, baseline, driven, readingVars,
                   external, tripped, confirmed>>

\* Mutant: DONE releases the forced duties and keeps the outputs for the drive.
RunDone_KeepsOutputs ==
    /\ Continues
    /\ state = kCurrentSenseCalibration
    /\ completed' = completed \cup {state}
    /\ nextRequested' = FALSE
    /\ \/ state' = kDone /\ duty' = "none" /\ UNCHANGED <<moe, fault>>
       \/ EnterFault("kApplyFailed")
    /\ UNCHANGED <<stepDone, full, sweepPos, gatePhaseDisabled, passed, baseline,
                   driven, readingVars, bif, external, tripped, confirmed>>

\* RunDone(): outputs off, then the calibration; Validate() may refuse it.
RunDone ==
    /\ Continues
    /\ state = kCurrentSenseCalibration
    /\ completed' = completed \cup {state}
    /\ nextRequested' = FALSE
    /\ \/ /\ state' = kDone
          /\ duty' = "none"
          /\ moe' = FALSE
          /\ UNCHANGED fault
       \/ EnterFault("kApplyFailed")
    /\ UNCHANGED <<stepDone, full, sweepPos, gatePhaseDisabled, passed, baseline,
                   driven, readingVars, bif, external, tripped, confirmed>>

Continue == ContinueStep \/ ContinuePhaseTwo \/ RunDone

-----------------------------------------------------------------------------
(* The drive, the control cycle and the break input                        *)

\* SpinStartup() after the end of a run.
ReleaseForceDuty ==
    /\ ~IsActive /\ duty # "none"
    /\ duty' = "none"
    /\ UNCHANGED <<fsmVars, measureVars, readingVars, fault, stageVars, confirmed>>

\* STANDBY acknowledges trips and faults, also while a run is active.
OnStandby ==
    /\ tripped' = FALSE
    /\ bif' = ~external
    /\ UNCHANGED <<fsmVars, measureVars, readingVars, fault, duty, moe, external,
                   confirmed>>

ControlCycleTrip ==
    /\ ~tripped
    /\ tripped' = TRUE /\ moe' = FALSE /\ bif' = TRUE
    /\ UNCHANGED <<fsmVars, measureVars, readingVars, fault, duty, external, confirmed>>

ExternalEnableDrops ==
    /\ external
    /\ external' = FALSE /\ moe' = FALSE /\ bif' = TRUE
    /\ UNCHANGED <<fsmVars, measureVars, readingVars, fault, duty, tripped, confirmed>>

ExternalEnableReturns ==
    /\ ~external
    /\ external' = TRUE
    /\ UNCHANGED <<fsmVars, measureVars, readingVars, fault, duty, moe, bif, tripped,
                   confirmed>>

-----------------------------------------------------------------------------
RunOnce == StageLost \/ CheckMotorOc \/ Measure \/ Continue

Operator == \E m \in BOOLEAN : RequestNextStep(m)

Next ==
    \/ RequestRun \/ Operator \/ SetReading \/ RequestAbort
    \/ RunOnce
    \/ ReleaseForceDuty \/ OnStandby
    \/ ControlCycleTrip \/ ExternalEnableDrops \/ ExternalEnableReturns

\* Samples keep coming, so a step gets them and RunOnce() goes on; an operator at
\* the drive continues a step that waits for it.
Fairness ==
    /\ WF_vars(StageLost \/ Measure \/ Continue)
    /\ WF_vars(Operator)

Spec == Init /\ [][Next]_vars

-----------------------------------------------------------------------------
(* Properties                                                              *)

\* Every member keeps its type.
TypeOK ==
    /\ state \in kIdle..kFault
    /\ stepDone \in BOOLEAN /\ nextRequested \in BOOLEAN /\ full \in BOOLEAN
    /\ sweepPos \in 0..SweepSteps /\ gatePhaseDisabled \in BOOLEAN
    /\ passed \subseteq RunSteps /\ completed \subseteq RunSteps
    /\ fault \in Faults
    /\ extVdc \in ReadingValues \cup {"none"}
    /\ extCurrent \in ReadingValues \cup {"none"}
    /\ duty \in {"none", "neutral", "offset"}
    /\ moe \in BOOLEAN /\ bif \in BOOLEAN /\ external \in BOOLEAN
    /\ tripped \in BOOLEAN
    /\ confirmed \in BOOLEAN /\ baseline \in BOOLEAN /\ driven \in BOOLEAN

\* RequestNextStep(): "every continue is a decision on a measured step": no request
\* is left over for a step that still measures, whatever ended the step before; "a
\* late one cannot pass a later barrier": phase 2 releases the outputs only with the
\* motor confirmed in this run, at the barrier.
DecidedOnMeasured ==
    /\ IsActive /\ nextRequested => stepDone
    /\ IsActive /\ state > kConnectMotor => confirmed

\* An attended run with its readings ends: no step waits for what cannot come.
RunEnds == <>[](extVdc = "valid" /\ extCurrent = "valid") => <>[]~IsActive

-----------------------------------------------------------------------------
(* The part of the startup aid that the drive has to know                  *)

\* The stage of the run that the present step belongs to.
Stage ==
    CASE state = kIdle -> "idle"
      [] state \in kPwmDisable..kGateDriverEnableCheck -> "phase1"
      [] state = kConnectMotor -> IF stepDone THEN "connect_wait" ELSE "connect"
      [] state \in {kPhaseAdcAlignment, kCurrentSenseCalibration} -> "phase2"
      [] state = kDone -> "done"
      [] state = kFault -> "fault"

Ownership == INSTANCE StartupOwnership WITH
    startup <- Stage,
    forceDuty <- duty # "none"

\* DriveNode sees the startup aid as an owner of the outputs in six stages: the
\* bring-up with all its steps, readings and continues is one.
KeepsOwnership == Ownership!Spec

-----------------------------------------------------------------------------
(* Statements of the comments that the code does not keep                  *)

\* RunGateDriverEnableCheck(): "Phase 1 of this step: collect with 50 % duty
\* (baseline noise)": the verdict compares with a baseline of its own run.
GateComparesOwnBaseline ==
    state = kGateDriverEnableCheck /\ stepDone => baseline

\* RunConnectMotorWait(): "The continue is the acknowledgement of a break latched
\* while the outputs were off (...), as RequestRun()": phase 2 measures with the
\* duties it forces.
PhaseTwoDriven == IsActive /\ state > kConnectMotor /\ stepDone => driven
=============================================================================
