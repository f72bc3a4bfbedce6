--------------------------- MODULE HwStartupProofs ---------------------------
(***************************************************************************)
(* Proofs about HwStartup, for any length of the alignment sweep.          *)
(***************************************************************************)
EXTENDS HwStartup, TLAPS

\* The members that the argument compares have their types.
StepTypes ==
    /\ state \in kIdle..kFault
    /\ stepDone \in BOOLEAN
    /\ bif \in BOOLEAN /\ external \in BOOLEAN /\ tripped \in BOOLEAN

\* An active run forces duties; a request for the barrier to open carries the
\* confirmation of the motor, so the step behind the barrier finds it.
RunInv ==
    /\ IsActive => duty # "none"
    /\ state = kConnectMotor /\ nextRequested => confirmed

IInv == StepTypes /\ RunInv /\ DecidedOnMeasured

-----------------------------------------------------------------------------

LEMMA InvStep ==
    ASSUME IInv, [Next]_vars
    PROVE  IInv'
<1> USE DEF IInv, StepTypes, RunInv, DecidedOnMeasured, IsActive, RunSteps, kIdle,
        kPwmDisable, kAdcOffsetCal, kAdcNoiseFloor, kDutyForceLow, kDutyForceMid,
        kDutyForceHigh, kDcLinkVoltageCheck, kGateDriverEnableCheck, kConnectMotor,
        kPhaseAdcAlignment, kCurrentSenseCalibration, kDone, kFault
<1>1. CASE RequestRun
  <2>1. bif' \in BOOLEAN
    BY <1>1 DEF RequestRun, Acknowledged
  <2>2. stepDone' \in BOOLEAN /\ external' \in BOOLEAN /\ tripped' \in BOOLEAN
    BY <1>1 DEF RequestRun
  <2>3. /\ state' \in {kIdle, kPwmDisable} /\ ~nextRequested'
        /\ state' = kPwmDisable => duty' = "neutral"
    BY <1>1 DEF RequestRun
  <2> QED
    BY <2>1, <2>2, <2>3
<1>2. CASE SetReading
  BY <1>2 DEF SetReading, fsmVars, measureVars, stageVars
<1>3. CASE RequestAbort
  BY <1>3 DEF RequestAbort, EnterFault, measureVars, readingVars
<1>4. CASE StageLost
  BY <1>4 DEF StageLost, EnterFault, measureVars, readingVars
<1>5. CASE CheckMotorOc
  BY <1>5 DEF CheckMotorOc, EnterFault, CheckedStep, measureVars, readingVars
<1>6. CASE MeasureStep
  BY <1>6 DEF MeasureStep, Measuring, CheckedStep, DutyOf, Finished, readingVars,
     stageVars
<1>7. CASE MeasureWithReading
  BY <1>7 DEF MeasureWithReading, Measuring, CheckedStep, DutyOf, Finished, readingVars,
     stageVars
<1>8. CASE MeasureGateBaseline
  BY <1>8 DEF MeasureGateBaseline, Measuring, CheckedStep, DutyOf, fsmVars, readingVars,
     stageVars
<1>9. CASE MeasureGateEnabled
  BY <1>9 DEF MeasureGateEnabled, Measuring, CheckedStep, DutyOf, Finished, readingVars,
     stageVars
<1>10. CASE SweepAlignment
  BY <1>10 DEF SweepAlignment, Measuring, CheckedStep, DutyOf, Finished, readingVars,
     stageVars
<1>11. CASE RunConnectMotor
  BY <1>11 DEF RunConnectMotor, Finished, readingVars
<1>12. CASE ContinueStep
  <2>1. /\ state \in kPwmDisable..kPhaseAdcAlignment \ {kConnectMotor}
        /\ state' = state + 1 /\ ~nextRequested' /\ UNCHANGED confirmed
    BY <1>12 DEF ContinueStep, AdvanceToNextState, Continues, CheckedStep, stageVars
  <2>2. duty' # "none"
    BY <1>12 DEF ContinueStep, Continues, CheckedStep, DutyOf
  <2>3. (stepDone \in BOOLEAN /\ bif \in BOOLEAN /\ external \in BOOLEAN /\ tripped \in BOOLEAN)'
    BY <1>12 DEF ContinueStep, AdvanceToNextState, stageVars
  <2> QED
    BY <2>1, <2>2, <2>3
<1>13. CASE ContinuePhaseTwo
  <2>1. bif' \in BOOLEAN
    BY <1>13 DEF ContinuePhaseTwo, Acknowledged
  <2>2. (stepDone \in BOOLEAN /\ external \in BOOLEAN /\ tripped \in BOOLEAN)'
    BY <1>13 DEF ContinuePhaseTwo, EnterFault, AdvanceToNextState
  <2>3. confirmed' /\ duty' = "neutral"
    BY <1>13 DEF ContinuePhaseTwo, EnterFault, AdvanceToNextState, Continues
  <2>4. \/ state' = kPhaseAdcAlignment /\ ~nextRequested'
        \/ state' = kFault
    BY <1>13 DEF ContinuePhaseTwo, EnterFault, AdvanceToNextState
  <2> QED
    BY <2>1, <2>2, <2>3, <2>4
<1>14. CASE RunDone
  BY <1>14 DEF RunDone, EnterFault, Continues, CheckedStep, readingVars
<1>15. CASE ReleaseForceDuty
  BY <1>15 DEF ReleaseForceDuty, fsmVars, measureVars, readingVars, stageVars
<1>16. CASE OnStandby
  BY <1>16 DEF OnStandby, fsmVars, measureVars, readingVars
<1>17. CASE ControlCycleTrip
  BY <1>17 DEF ControlCycleTrip, fsmVars, measureVars, readingVars
<1>18. CASE ExternalEnableDrops
  BY <1>18 DEF ExternalEnableDrops, fsmVars, measureVars, readingVars
<1>19. CASE ExternalEnableReturns
  BY <1>19 DEF ExternalEnableReturns, fsmVars, measureVars, readingVars
<1>20. ASSUME NEW m \in BOOLEAN, RequestNextStep(m) PROVE IInv'
  BY <1>20 DEF RequestNextStep, Needs, measureVars, readingVars, stageVars
<1>21. CASE UNCHANGED vars
  BY <1>21 DEF vars, fsmVars, measureVars, readingVars, stageVars
<1> QED
  BY <1>1, <1>2, <1>3, <1>4, <1>5, <1>6, <1>7, <1>8, <1>9, <1>10, <1>11, <1>12, <1>13,
     <1>14, <1>15, <1>16, <1>17, <1>18, <1>19, <1>20, <1>21 DEF Next, RunOnce, Measure,
     Continue, Operator

LEMMA StepKeepsOwnership ==
    ASSUME IInv, [Next]_vars
    PROVE  [Ownership!Next]_Ownership!vars
<1> USE DEF IInv, StepTypes, RunInv, IsActive, RunSteps, Stage, Ownership!Active, kIdle,
        kPwmDisable, kAdcOffsetCal, kAdcNoiseFloor, kDutyForceLow, kDutyForceMid,
        kDutyForceHigh, kDcLinkVoltageCheck, kGateDriverEnableCheck, kConnectMotor,
        kPhaseAdcAlignment, kCurrentSenseCalibration, kDone, kFault
<1>1. RequestRun => Ownership!Start
  <2> SUFFICES ASSUME RequestRun PROVE Ownership!Start
    OBVIOUS
  <2>1. bif' \in {bif, FALSE}
    BY DEF RequestRun, Acknowledged
  <2>2. ~Ownership!Active /\ tripped' = FALSE /\ UNCHANGED external
    BY DEF RequestRun
  <2>3. CASE external /\ ~bif'
    <3>1. Stage' = "phase1" /\ (duty # "none")' = TRUE /\ moe' = TRUE
      BY <2>3 DEF RequestRun
    <3> QED
      BY <2>1, <2>2, <2>3, <3>1 DEF Ownership!Start
  <2>4. CASE ~(external /\ ~bif')
    <3>1. Stage' = "idle" /\ (duty # "none")' = FALSE /\ moe' = moe
      BY <2>4 DEF RequestRun
    <3> QED
      BY <2>1, <2>2, <3>1 DEF Ownership!Start
  <2> QED
    BY <2>3, <2>4
<1>2. SetReading => UNCHANGED Ownership!vars
  BY DEF SetReading, fsmVars, measureVars, stageVars, Ownership!vars
<1>3. RequestAbort => Ownership!Fail
  BY DEF RequestAbort, EnterFault, measureVars, readingVars, Ownership!Fail
<1>4. StageLost => Ownership!Fail
  BY DEF StageLost, EnterFault, measureVars, readingVars, Ownership!Fail
<1>5. CheckMotorOc => Ownership!Fail
  BY DEF CheckMotorOc, EnterFault, CheckedStep, measureVars, readingVars, Ownership!Fail
<1>6. MeasureStep => Ownership!Work
  <2> SUFFICES ASSUME MeasureStep PROVE Ownership!Work
    OBVIOUS
  <2>1. Stage \in {"phase1", "phase2"} /\ Stage' = Stage /\ moe
    BY DEF MeasureStep, Measuring, CheckedStep, ReadingSteps, DutyForceSteps
  <2>2. (duty # "none")' = TRUE
    BY DEF MeasureStep, Measuring, DutyOf
  <2>3. UNCHANGED stageVars
    BY DEF MeasureStep
  <2> QED
    BY <2>1, <2>2, <2>3 DEF Ownership!Work, stageVars
<1>7. MeasureWithReading => Ownership!Work
  <2> SUFFICES ASSUME MeasureWithReading PROVE Ownership!Work
    OBVIOUS
  <2>1. Stage \in {"phase1", "phase2"} /\ Stage' = Stage /\ moe
    BY DEF MeasureWithReading, Measuring, CheckedStep, ReadingSteps, DutyForceSteps
  <2>2. (duty # "none")' = TRUE
    BY DEF MeasureWithReading, Measuring, DutyOf
  <2>3. UNCHANGED stageVars
    BY DEF MeasureWithReading
  <2> QED
    BY <2>1, <2>2, <2>3 DEF Ownership!Work, stageVars
<1>8. MeasureGateBaseline => Ownership!Work
  BY DEF MeasureGateBaseline, Measuring, CheckedStep, DutyOf, fsmVars, readingVars,
     stageVars, Ownership!Work
<1>9. MeasureGateEnabled => Ownership!Work
  BY DEF MeasureGateEnabled, Measuring, CheckedStep, DutyOf, Finished, readingVars,
     stageVars, Ownership!Work
<1>10. SweepAlignment => Ownership!Work
  BY DEF SweepAlignment, Measuring, CheckedStep, DutyOf, Finished, readingVars,
     stageVars, Ownership!Work
<1>11. RunConnectMotor => Ownership!SwitchOff
  BY DEF RunConnectMotor, Finished, readingVars, Ownership!SwitchOff
<1>12. ContinueStep => Ownership!Work
  BY DEF ContinueStep, AdvanceToNextState, Continues, CheckedStep, DutyOf, readingVars,
     stageVars, Ownership!Work
<1>13. ContinuePhaseTwo => Ownership!SwitchOn \/ Ownership!Fail
  <2> SUFFICES ASSUME ContinuePhaseTwo PROVE Ownership!SwitchOn \/ Ownership!Fail
    OBVIOUS
  <2>1. bif' \in {bif, FALSE}
    BY DEF ContinuePhaseTwo, Acknowledged
  <2>2. Stage = "connect_wait" /\ UNCHANGED <<external, tripped>>
    BY DEF ContinuePhaseTwo, Continues
  <2>3. CASE external /\ ~bif'
    <3>1. Stage' = "phase2" /\ (duty # "none")' = TRUE /\ moe' = TRUE
      BY <2>3 DEF ContinuePhaseTwo, AdvanceToNextState
    <3> QED
      BY <2>1, <2>2, <2>3, <3>1 DEF Ownership!SwitchOn
  <2>4. CASE ~(external /\ ~bif')
    <3>1. Stage' = "fault" /\ (duty # "none")' = TRUE /\ moe' = FALSE
      BY <2>4 DEF ContinuePhaseTwo, EnterFault
    <3> QED
      BY <2>1, <2>2, <3>1 DEF Ownership!Fail
  <2> QED
    BY <2>3, <2>4
<1>14. RunDone => Ownership!Finish \/ Ownership!Fail
  BY DEF RunDone, EnterFault, Continues, CheckedStep, readingVars, Ownership!Finish,
     Ownership!Fail
<1>15. ReleaseForceDuty => Ownership!TakeBack
  BY DEF ReleaseForceDuty, fsmVars, measureVars, readingVars, stageVars,
     Ownership!TakeBack
<1>16. OnStandby => Ownership!Environment
  <2> SUFFICES ASSUME OnStandby PROVE Ownership!Environment
    OBVIOUS
  <2>1. bif' \in BOOLEAN /\ external' \in BOOLEAN /\ tripped' \in BOOLEAN
    BY DEF OnStandby
  <2>2. moe' \in {moe, FALSE}
    BY DEF OnStandby
  <2>3. UNCHANGED <<state, stepDone, duty>>
    BY DEF OnStandby, fsmVars
  <2> QED
    BY <2>1, <2>2, <2>3 DEF Ownership!Environment
<1>17. ControlCycleTrip => Ownership!Environment
  <2> SUFFICES ASSUME ControlCycleTrip PROVE Ownership!Environment
    OBVIOUS
  <2>1. bif' \in BOOLEAN /\ external' \in BOOLEAN /\ tripped' \in BOOLEAN
    BY DEF ControlCycleTrip
  <2>2. moe' \in {moe, FALSE}
    BY DEF ControlCycleTrip
  <2>3. UNCHANGED <<state, stepDone, duty>>
    BY DEF ControlCycleTrip, fsmVars
  <2> QED
    BY <2>1, <2>2, <2>3 DEF Ownership!Environment
<1>18. ExternalEnableDrops => Ownership!Environment
  <2> SUFFICES ASSUME ExternalEnableDrops PROVE Ownership!Environment
    OBVIOUS
  <2>1. bif' \in BOOLEAN /\ external' \in BOOLEAN /\ tripped' \in BOOLEAN
    BY DEF ExternalEnableDrops
  <2>2. moe' \in {moe, FALSE}
    BY DEF ExternalEnableDrops
  <2>3. UNCHANGED <<state, stepDone, duty>>
    BY DEF ExternalEnableDrops, fsmVars
  <2> QED
    BY <2>1, <2>2, <2>3 DEF Ownership!Environment
<1>19. ExternalEnableReturns => Ownership!Environment
  BY DEF ExternalEnableReturns, fsmVars, measureVars, readingVars, Ownership!Environment
<1>20. ASSUME NEW m \in BOOLEAN, RequestNextStep(m) PROVE UNCHANGED Ownership!vars
  BY <1>20 DEF RequestNextStep, Needs, measureVars, readingVars, stageVars,
     Ownership!vars
<1>21. UNCHANGED vars => UNCHANGED Ownership!vars
  BY DEF vars, fsmVars, measureVars, readingVars, stageVars, Ownership!vars
<1> QED
  BY <1>1, <1>2, <1>3, <1>4, <1>5, <1>6, <1>7, <1>8, <1>9, <1>10, <1>11, <1>12, <1>13,
     <1>14, <1>15, <1>16, <1>17, <1>18, <1>19, <1>20, <1>21 DEF Next, RunOnce, Measure,
     Continue, Operator, Ownership!Next

LEMMA Invariance == Spec => []IInv
<1>1. Init => IInv
  <2> SUFFICES ASSUME Init PROVE IInv
    OBVIOUS
  <2>1. bif \in BOOLEAN /\ stepDone \in BOOLEAN /\ external \in BOOLEAN /\ tripped \in BOOLEAN
    BY DEF Init
  <2>2. state = kIdle
    BY DEF Init
  <2> QED
    BY <2>1, <2>2 DEF IInv, StepTypes, RunInv, DecidedOnMeasured, IsActive, RunSteps,
       kIdle, kPwmDisable, kAdcOffsetCal, kAdcNoiseFloor, kDutyForceLow, kDutyForceMid,
       kDutyForceHigh, kDcLinkVoltageCheck, kGateDriverEnableCheck, kConnectMotor,
       kPhaseAdcAlignment, kCurrentSenseCalibration, kDone, kFault
<1> QED
  BY <1>1, InvStep, PTL DEF Spec

\* Every continue decides on a measured step, and phase 2 has the motor confirmed in its
\* run (DecidedOnMeasured): RequestNextStep() takes a request only for a finished step,
\* TransitionTo() drops it, and the barrier's request is the confirmation.
THEOREM DecisionCorrect == Spec => []DecidedOnMeasured
<1>1. IInv => DecidedOnMeasured
  BY DEF IInv
<1> QED
  BY <1>1, Invariance, PTL

\* The bring-up implements the ownership of the outputs that the drive relies on
\* (KeepsOwnership): the mapping takes each step of HwStartup to a step of
\* StartupOwnership or to a stutter, for every length of the sweep.
THEOREM OwnershipKept == Spec => KeepsOwnership
<1>1. Init => Ownership!Init
  BY DEF Init, Ownership!Init, Stage, kIdle, kPwmDisable, kAdcOffsetCal, kAdcNoiseFloor,
     kDutyForceLow, kDutyForceMid, kDutyForceHigh, kDcLinkVoltageCheck,
     kGateDriverEnableCheck, kConnectMotor, kPhaseAdcAlignment,
     kCurrentSenseCalibration, kDone, kFault
<1>2. IInv /\ [Next]_vars => [Ownership!Next]_Ownership!vars
  BY StepKeepsOwnership
<1> QED
  BY <1>1, <1>2, Invariance, PTL DEF Spec, KeepsOwnership, Ownership!Spec
=============================================================================
