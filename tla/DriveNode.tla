------------------------------ MODULE DriveNode ------------------------------
(***************************************************************************)
(* The drive application (src/drive/drive_node.cpp): one Spin() of the     *)
(* Cyphal thread at a time, its message and command handlers, the startup  *)
(* aid it hosts (src/startup/hw_startup.cpp, reduced to who owns the       *)
(* outputs), the power stage it releases and the settings it applies.  No  *)
(* local control is attached; EbikeDrive models the drive with one.        *)
(*                                                                         *)
(* The Cyphal thread moves through the phases of Spin(); every handler     *)
(* runs to its end in one step, except that Engage() and the STANDBY       *)
(* acknowledgement are split where the control cycle interrupt can trip    *)
(* between their calls.  Times are reduced to fresh or expired.            *)
(***************************************************************************)
EXTENDS Naturals

CONSTANTS
    MaxTransfers,     \* bound: kMaxTransfersPerSpin, transfers handled per Spin()
    InitializeMayFail \* the hardware layer may reject a restart

ASSUME DriveAssumption ==
    /\ MaxTransfers \in Nat \ {0}
    /\ InitializeMayFail \in BOOLEAN

VARIABLES
    phase,          \* where the Cyphal thread is in Spin()
    transfers,      \* transfers this Spin() may still dispatch
    engaged, engageRequested, rearmRequired,  \* engaged_, engage_requested_, rearm_required_
    emergencyStop, restartRequested,          \* emergency_stop_, restart_requested_
    readinessFresh, \* now - last_readiness_us_ <= command_timeout_us_
    setpoint,       \* "none", "fresh" or "expired": setpoint_active_ and its age
    cartActive,     \* the cart control left kOff in this engagement
    outerActive,    \* OuterSetpoint::active as last handed to the outer loop
    startup,        \* HwStartup::state_, reduced to the ownership of the outputs
    startupActive,  \* startup_active_
    forceDuty,      \* CurrentControlIsr::force_duty_active_
    moe, bif, external,     \* power stage, as in PowerStage
    tripped,                \* CurrentControlIsr::Tripped()
    running,                \* Initialize() succeeded: the control cycle runs
    stale,          \* kinds of registers in which live differs from applied_settings_
    unapplied, unchecked,   \* WriteCount() # applied_writes_, # checked_writes_
    settingsPending,        \* settings_pending_
    sentOff         \* history: SLEEP or STANDBY came after the pending ENGAGED

stageVars == <<moe, bif, external, tripped>>
engageVars == <<engaged, engageRequested, rearmRequired>>
commandVars == <<emergencyStop, restartRequested>>
inputVars == <<readinessFresh, sentOff, setpoint, cartActive>>
startupVars == <<startup, startupActive, forceDuty>>
settingsVars == <<stale, unapplied, unchecked, settingsPending>>
spinVars == <<phase, transfers>>
vars == <<spinVars, engageVars, commandVars, inputVars, outerActive,
          startupVars, stageVars, running, settingsVars>>

-----------------------------------------------------------------------------
Phases == {"dispatch", "standby_fault", "engage", "engage_clear",
           "engage_fault", "engage_enable", "startup", "engagement", "settings"}
Readiness == {"ENGAGED", "STANDBY", "SLEEP"}
StartupStates ==
    {"idle", "phase1", "connect", "connect_wait", "phase2", "done", "fault"}
Kinds == {"tunable", "fixed", "calibration"}

\* HwStartup::IsActive()
StartupIsActive == startup \in {"phase1", "connect", "connect_wait", "phase2"}

\* PowerStageInterface::GetState()
GetState ==
    CASE moe                 -> "kEnabled"
      [] ~moe /\ ~external   -> "kBlocked"
      [] OTHER               -> IF bif THEN "kFault" ELSE "kDisabled"

Init ==
    /\ phase = "dispatch" /\ transfers = MaxTransfers
    /\ engaged = FALSE /\ engageRequested = FALSE /\ rearmRequired = FALSE
    /\ emergencyStop = FALSE /\ restartRequested = FALSE
    /\ readinessFresh = FALSE /\ setpoint = "none" /\ cartActive = FALSE
    /\ outerActive = FALSE
    /\ startup = "idle" /\ startupActive = FALSE /\ forceDuty = FALSE
    /\ moe = FALSE /\ external \in BOOLEAN /\ bif = ~external /\ tripped = FALSE
    /\ running = TRUE
    /\ stale = {} /\ unapplied = FALSE /\ unchecked = FALSE
    /\ settingsPending = FALSE
    /\ sentOff = FALSE

\* Between two calls of Spin().
AtSpinStart == phase = "dispatch" /\ transfers = MaxTransfers

-----------------------------------------------------------------------------
(* Effects shared by several handlers                                      *)

ClearSetpoint == setpoint' = "none"

\* Disengage() without the startup abort that some callers make before it;
\* startupOn says whether a startup run is active at the call.
Disengage(startupOn) ==
    /\ ClearSetpoint
    /\ cartActive' = FALSE
    /\ outerActive' = FALSE
    /\ moe' = (moe /\ ~engaged /\ startupOn)
    /\ engaged' = FALSE

\* HwStartup::RequestAbort(): EnterFault() of an active run.
Abort ==
    /\ startup' = IF StartupIsActive THEN "fault" ELSE startup
    /\ forceDuty' = (forceDuty \/ StartupIsActive)

\* StartRuntime(): the control cycle starts over; a restart of the timer clears
\* its status register, also when a later part of Initialize() fails.
StartRuntime ==
    /\ running' \in IF InitializeMayFail THEN BOOLEAN ELSE {TRUE}
    /\ bif' \in IF running' THEN {~external} ELSE {bif, ~external}
    /\ forceDuty' = FALSE
    /\ UNCHANGED <<moe, external, tripped>>

\* ApplySettings(): refused while the outputs are released.
ApplySettings ==
    IF moe
    THEN /\ settingsPending' = TRUE
         /\ UNCHANGED <<stale, unapplied, unchecked, running, forceDuty, stageVars>>
    ELSE /\ stale' = {} /\ unapplied' = FALSE /\ unchecked' = FALSE
         /\ settingsPending' = FALSE
         /\ StartRuntime

-----------------------------------------------------------------------------
(* Dispatch: CyphalNode::Spin() hands up to MaxTransfers transfers over     *)

Receive ==
    /\ phase = "dispatch"
    /\ transfers > 0
    /\ transfers' = transfers - 1

OnReadinessEngaged ==
    /\ Receive
    /\ readinessFresh' = TRUE
    /\ sentOff' = FALSE
    /\ engageRequested' =
           (engageRequested \/ (~engaged /\ ~rearmRequired))
    /\ UNCHANGED <<phase, engaged, rearmRequired, commandVars, setpoint,
                   cartActive, outerActive, startupVars, stageVars,
                   running, settingsVars>>

\* SLEEP (INVALID is handled alike) or STANDBY while engaged.
OnReadinessDisengage(r) ==
    /\ Receive
    /\ r # "ENGAGED" /\ engaged
    /\ readinessFresh' = TRUE
    /\ sentOff' = engageRequested
    /\ rearmRequired' = FALSE
    /\ Disengage(StartupIsActive)
    /\ UNCHANGED <<phase, engageRequested, commandVars, startupVars,
                   bif, external, tripped, running, settingsVars>>

\* STANDBY while disengaged acknowledges: ClearTrips() here, ClearFault() next.
OnReadinessIdle(r) ==
    /\ Receive
    /\ r # "ENGAGED" /\ ~engaged
    /\ readinessFresh' = TRUE
    /\ sentOff' = engageRequested
    /\ rearmRequired' = FALSE
    /\ tripped' = (tripped /\ r = "SLEEP")
    /\ phase' = IF r = "STANDBY" THEN "standby_fault" ELSE phase
    /\ UNCHANGED <<engaged, engageRequested, commandVars, setpoint, cartActive,
                   outerActive, startupVars, moe, bif, external, running,
                   settingsVars>>

StandbyClearFault ==
    /\ phase = "standby_fault"
    /\ phase' = "dispatch"
    /\ bif' = ~external
    /\ UNCHANGED <<transfers, engageVars, commandVars, inputVars, outerActive,
                   startupVars, moe, external, tripped, running, settingsVars>>

\* SetCurrentSetpoint(), SetSpeedSetpoint(), SetPositionSetpoint().
SetSetpoint == setpoint' = "fresh"

\* The five setpoint messages; a non-finite one changes nothing.
OnSetpoint ==
    /\ Receive
    /\ SetSetpoint
    /\ UNCHANGED <<phase, engageVars, commandVars, readinessFresh, sentOff,
                   cartActive, outerActive, startupVars, stageVars,
                   running, settingsVars>>

\* A register write that Validate() accepts; kind says which field it changes.
OnRegisterWrite(kind) ==
    /\ Receive
    /\ stale' \in {stale \cup {kind}, stale \ {kind}}
    /\ unapplied' = TRUE /\ unchecked' = TRUE
    /\ UNCHANGED <<phase, engageVars, commandVars, inputVars, outerActive,
                   startupVars, stageVars, running, settingsPending>>

OnCommandRestart ==
    /\ Receive
    /\ Abort
    /\ Disengage(FALSE)
    /\ restartRequested' = TRUE
    /\ UNCHANGED <<phase, engageRequested, rearmRequired, emergencyStop,
                   readinessFresh, sentOff, startupActive, bif,
                   external, tripped, running, settingsVars>>

OnCommandEmergencyStop ==
    /\ Receive
    /\ emergencyStop' = TRUE
    /\ Abort
    /\ Disengage(FALSE)
    /\ UNCHANGED <<phase, engageRequested, rearmRequired, restartRequested,
                   readinessFresh, sentOff, startupActive, bif,
                   external, tripped, running, settingsVars>>

\* ResetToFactoryDefaults(); the save behind it is SettingsStore's.
OnCommandFactoryReset ==
    /\ Receive
    /\ ~engaged /\ ~StartupIsActive
    /\ stale' \in SUBSET Kinds
    /\ settingsPending' = TRUE
    /\ UNCHANGED <<phase, engageVars, commandVars, inputVars, outerActive,
                   startupVars, stageVars, running, unapplied, unchecked>>

\* Mutant: a startup run is accepted while the drive is engaged.
OnCommandStartStartup_WhileEngaged ==
    /\ Receive
    /\ ~emergencyStop /\ ~StartupIsActive
    /\ external /\ ~bif
    /\ startup' = "phase1" /\ forceDuty' = TRUE /\ moe' = TRUE /\ tripped' = FALSE
    /\ UNCHANGED <<phase, engageVars, commandVars, inputVars, outerActive, bif,
                   startupActive, external, running, settingsVars>>

\* Commissioning::Start() and HwStartup::RequestRun(): a failed Enable() leaves
\* the FSM in IDLE.
OnCommandStartStartup ==
    /\ Receive
    /\ ~engaged /\ ~emergencyStop /\ ~StartupIsActive
    /\ tripped' = FALSE
    /\ bif' = (bif /\ GetState # "kFault")
    /\ IF external /\ ~bif'
       THEN startup' = "phase1" /\ forceDuty' = TRUE  /\ moe' = TRUE
       ELSE startup' = "idle"   /\ forceDuty' = FALSE /\ moe' = moe
    /\ UNCHANGED <<phase, engageVars, commandVars, inputVars, outerActive,
                   startupActive, external, running, settingsVars>>

OnCommandAbort ==
    /\ Receive
    /\ StartupIsActive
    /\ Abort
    /\ moe' = FALSE
    /\ UNCHANGED <<phase, engageVars, commandVars, inputVars, outerActive,
                   startupActive, bif, external, tripped, running, settingsVars>>

EndDispatch ==
    /\ phase = "dispatch"
    /\ phase' = "engage"
    /\ UNCHANGED <<transfers, engageVars, commandVars, inputVars, outerActive,
                   startupVars, stageVars, running, settingsVars>>

-----------------------------------------------------------------------------
(* Engage(), in the order of its calls                                      *)

\* No request, or a request that Engage() drops at once; while the startup aid
\* runs it also demands a re-arm.
EngageRefused ==
    /\ phase = "engage"
    /\ ~engageRequested \/ engaged \/ emergencyStop \/ StartupIsActive
    /\ phase' = "startup"
    /\ engageRequested' = FALSE
    /\ rearmRequired' = (rearmRequired \/ (engageRequested /\ ~engaged
                             /\ ~emergencyStop /\ StartupIsActive))
    /\ sentOff' = FALSE
    /\ UNCHANGED <<transfers, engaged, commandVars, readinessFresh, setpoint,
                   cartActive, outerActive,
                   startupVars, stageVars, running, settingsVars>>

EngageAccepted ==
    /\ phase = "engage"
    /\ engageRequested /\ ~engaged /\ ~emergencyStop /\ ~StartupIsActive
    /\ engageRequested' = FALSE
    /\ IF settingsPending \/ unapplied
       THEN /\ ApplySettings
            /\ phase' = IF running' /\ ~settingsPending' THEN "engage_clear"
                        ELSE "startup"
       ELSE /\ phase' = "engage_clear"
            /\ UNCHANGED <<settingsVars, running, forceDuty, stageVars>>
    /\ UNCHANGED <<transfers, engaged, rearmRequired, commandVars, inputVars,
                   outerActive, startup, startupActive>>

EngageClearTrips ==
    /\ phase = "engage_clear"
    /\ phase' = "engage_fault"
    /\ ClearSetpoint
    /\ cartActive' = FALSE
    /\ outerActive' = FALSE
    /\ tripped' = FALSE
    /\ UNCHANGED <<transfers, engageVars, commandVars, readinessFresh,
                   sentOff, startupVars, moe, bif, external,
                   running, settingsVars>>

EngageClearFault ==
    /\ phase = "engage_fault"
    /\ phase' = "engage_enable"
    /\ bif' = ~external
    /\ UNCHANGED <<transfers, engageVars, commandVars, inputVars, outerActive,
                   startupVars, moe, external, tripped, running, settingsVars>>

EngageEnable ==
    /\ phase = "engage_enable"
    /\ phase' = "startup"
    /\ LET released == external /\ ~bif
       IN  /\ moe' = released
           /\ engaged' = released
           /\ rearmRequired' = (rearmRequired \/ ~released)
    /\ sentOff' = FALSE
    /\ UNCHANGED <<transfers, engageRequested, commandVars, readinessFresh, setpoint,
                   cartActive, outerActive,
                   startupVars, bif, external, tripped, running, settingsVars>>

-----------------------------------------------------------------------------
(* SpinStartup(): one RunOnce() of an active run, or the end of one         *)

StartupTurn(next, duty, released) ==
    /\ phase = "startup"
    /\ StartupIsActive
    /\ phase' = "engagement"
    /\ startupActive' = TRUE
    /\ startup' = next
    /\ forceDuty' = duty
    /\ moe' = released
    /\ UNCHANGED <<transfers, engageVars, commandVars, inputVars, outerActive,
                   external, tripped, running, unapplied, unchecked,
                   settingsPending>>

\* RunOnce() without a new sample changes nothing.
StartupNoSample ==
    /\ StartupTurn(startup, forceDuty, moe)
    /\ UNCHANGED <<bif, stale>>

\* A step still measuring, or waiting for its continue.
StartupMeasures ==
    /\ running /\ startup \in {"phase1", "phase2"} /\ moe
    /\ StartupTurn(startup, TRUE, TRUE)
    /\ UNCHANGED <<bif, stale>>

\* CONNECT_MOTOR switches the outputs off with its first sample, then waits.
StartupConnectMotor ==
    /\ running
    /\ startup \in {"connect", "connect_wait"}
    /\ StartupTurn("connect_wait", TRUE, FALSE)
    /\ UNCHANGED <<bif, stale>>

\* The stage is not released any more, an overcurrent, or a refused step.
StartupFails ==
    /\ running
    /\ StartupTurn("fault", TRUE, FALSE)
    /\ UNCHANGED <<bif, stale>>

\* The last step of phase 1 continues to CONNECT_MOTOR, outputs still on.
StartupPhase1Done ==
    /\ running /\ startup = "phase1" /\ moe
    /\ StartupTurn("connect", TRUE, TRUE)
    /\ UNCHANGED <<bif, stale>>

\* The operator confirmed the motor: a latched break is acknowledged, the
\* outputs are released again at neutral duty.
StartupContinue ==
    /\ running /\ startup = "connect_wait"
    /\ bif' = (bif /\ GetState # "kFault")
    /\ external /\ ~bif'
    /\ StartupTurn("phase2", TRUE, TRUE)
    /\ UNCHANGED stale

\* RunDone(): outputs off, calibration committed to the live settings.
StartupFinishes ==
    /\ running /\ startup = "phase2" /\ moe
    /\ StartupTurn("done", FALSE, FALSE)
    /\ stale' \in {stale \cup {"calibration"}, stale \ {"calibration"}}
    /\ UNCHANGED bif

StartupEnded ==
    /\ phase = "startup"
    /\ ~StartupIsActive
    /\ phase' = "engagement"
    /\ startupActive' = FALSE
    /\ forceDuty' = (forceDuty /\ ~startupActive)
    /\ settingsPending' = (settingsPending \/ startupActive)
    /\ UNCHANGED <<transfers, engageVars, commandVars, inputVars, outerActive,
                   startup, stageVars, running, stale, unapplied, unchecked>>

-----------------------------------------------------------------------------
(* SpinEngagement() and the setpoint handed to the outer loop               *)

\* In limp-home and while it ramps down the cart holds the engagement.
CartMayHold == cartActive

\* Mutant: a setpoint counts as a sign of life of the readiness source.
ReadinessLost_UnlessSetpoint == engaged /\ ~readinessFresh /\ setpoint = "none"

ReadinessLost == engaged /\ ~readinessFresh

StageReleased == GetState = "kEnabled" /\ ~tripped

ReadinessTimeout ==
    /\ phase = "engagement"
    /\ ReadinessLost
    /\ phase' = "settings"
    /\ Disengage(StartupIsActive)
    /\ UNCHANGED <<transfers, engageRequested, rearmRequired, commandVars,
                   readinessFresh, sentOff, startupVars, bif,
                   external, tripped, running, settingsVars>>

StageLost ==
    /\ phase = "engagement"
    /\ engaged
    /\ ~ReadinessLost \/ CartMayHold
    /\ ~StageReleased
    /\ phase' = "settings"
    /\ rearmRequired' = TRUE
    /\ Disengage(StartupIsActive)
    /\ UNCHANGED <<transfers, engageRequested, commandVars, readinessFresh,
                   sentOff, startupVars, bif, external, tripped,
                   running, settingsVars>>

\* The cart torque replaces the setpoint; an expired one is cleared.
EngagementKept ==
    /\ phase = "engagement"
    /\ ~ReadinessLost \/ CartMayHold
    /\ engaged => StageReleased
    /\ phase' = "settings"
    /\ outerActive' = engaged
    /\ cartActive' \in IF engaged THEN {cartActive, TRUE} ELSE {FALSE}
    /\ setpoint' = IF ~engaged THEN setpoint
                   ELSE IF cartActive' THEN "fresh"
                   ELSE IF setpoint = "expired" THEN "none" ELSE setpoint
    /\ UNCHANGED <<transfers, engageVars, commandVars, readinessFresh,
                   sentOff, startupVars, stageVars, running,
                   settingsVars>>

-----------------------------------------------------------------------------
(* The end of Spin(): settings, then the restart                            *)

EndSpin == phase = "settings" /\ phase' = "dispatch" /\ transfers' = MaxTransfers

\* Mutant: a change that cannot be tuned is checked off and not kept for later.
SpinTuneLive_Forgets ==
    /\ EndSpin
    /\ engaged /\ unchecked
    /\ unchecked' = FALSE /\ unapplied' = FALSE
    /\ stale' = IF stale \subseteq {"tunable"} THEN {} ELSE stale
    /\ UNCHANGED <<engageVars, commandVars, inputVars, outerActive, startupVars,
                   stageVars, running, settingsPending>>

\* TuneLive(): only tunable registers changed, the running loops take them;
\* otherwise all of them wait for the disengage.
SpinTuneLive ==
    /\ EndSpin
    /\ engaged /\ unchecked
    /\ unchecked' = FALSE
    /\ IF stale \subseteq {"tunable"}
       THEN stale' = {} /\ unapplied' = FALSE /\ UNCHANGED settingsPending
       ELSE settingsPending' = TRUE /\ UNCHANGED <<stale, unapplied>>
    /\ UNCHANGED <<engageVars, commandVars, inputVars, outerActive, startupVars,
                   stageVars, running>>

SpinApply ==
    /\ EndSpin
    /\ ~engaged /\ (unapplied \/ settingsPending)
    /\ ApplySettings
    /\ UNCHANGED <<engageVars, commandVars, inputVars, outerActive, startup,
                   startupActive>>

SpinIdle ==
    /\ EndSpin
    /\ IF engaged THEN ~unchecked ELSE ~unapplied /\ ~settingsPending
    /\ UNCHANGED <<engageVars, commandVars, inputVars, outerActive, startupVars,
                   stageVars, running, settingsVars>>

\* hooks_.restart once its delay is over: everything but the flash starts over.
Reboot ==
    /\ restartRequested /\ phase = "settings"
    /\ phase' = "dispatch" /\ transfers' = MaxTransfers
    /\ engaged' = FALSE /\ engageRequested' = FALSE /\ rearmRequired' = FALSE
    /\ emergencyStop' = FALSE /\ restartRequested' = FALSE
    /\ readinessFresh' = FALSE /\ setpoint' = "none" /\ cartActive' = FALSE
    /\ outerActive' = FALSE
    /\ startup' = "idle" /\ startupActive' = FALSE /\ forceDuty' = FALSE
    /\ moe' = FALSE /\ bif' = ~external /\ tripped' = FALSE
    /\ running' = TRUE
    /\ stale' = {} /\ unapplied' = FALSE /\ unchecked' = FALSE
    /\ settingsPending' = FALSE
    /\ sentOff' = FALSE
    /\ UNCHANGED external

-----------------------------------------------------------------------------
(* Interrupts, the break input and the clock, between any two steps         *)

\* OnControlCycle(): overcurrent or overvoltage, TripPowerStage() and the latch.
ControlCycleTrip ==
    /\ running
    /\ moe' = FALSE /\ bif' = TRUE /\ tripped' = TRUE
    /\ UNCHANGED <<spinVars, engageVars, commandVars, inputVars, outerActive,
                   startupVars, external, running, settingsVars>>

ExternalEnableDrops ==
    /\ external
    /\ external' = FALSE /\ moe' = FALSE /\ bif' = TRUE
    /\ UNCHANGED <<spinVars, engageVars, commandVars, inputVars, outerActive,
                   startupVars, tripped, running, settingsVars>>

ExternalEnableReturns ==
    /\ ~external
    /\ external' = TRUE
    /\ UNCHANGED <<spinVars, engageVars, commandVars, inputVars, outerActive,
                   startupVars, moe, bif, tripped, running, settingsVars>>

\* Spin() reads the clock once, at its start.
ReadinessExpires ==
    /\ AtSpinStart /\ readinessFresh
    /\ readinessFresh' = FALSE
    /\ UNCHANGED <<spinVars, engageVars, commandVars, sentOff, setpoint,
                   cartActive, outerActive, startupVars, stageVars,
                   running, settingsVars>>

SetpointExpires ==
    /\ AtSpinStart /\ setpoint = "fresh"
    /\ setpoint' = "expired"
    /\ UNCHANGED <<spinVars, engageVars, commandVars, readinessFresh,
                   sentOff, cartActive, outerActive,
                   startupVars, stageVars, running, settingsVars>>

-----------------------------------------------------------------------------
Dispatch ==
    \/ OnReadinessEngaged
    \/ \E r \in Readiness : OnReadinessDisengage(r) \/ OnReadinessIdle(r)
    \/ OnSetpoint
    \/ \E kind \in Kinds : OnRegisterWrite(kind)
    \/ OnCommandRestart \/ OnCommandEmergencyStop \/ OnCommandFactoryReset
    \/ OnCommandStartStartup \/ OnCommandAbort

Spin ==
    \/ StandbyClearFault \/ EndDispatch
    \/ EngageRefused \/ EngageAccepted \/ EngageClearTrips \/ EngageClearFault
    \/ EngageEnable
    \/ StartupNoSample \/ StartupMeasures \/ StartupConnectMotor \/ StartupFails
    \/ StartupPhase1Done \/ StartupContinue \/ StartupFinishes \/ StartupEnded
    \/ ReadinessTimeout \/ StageLost \/ EngagementKept
    \/ SpinTuneLive \/ SpinApply \/ SpinIdle \/ Reboot

Environment ==
    \/ ControlCycleTrip \/ ExternalEnableDrops \/ ExternalEnableReturns
    \/ ReadinessExpires \/ SetpointExpires

Next == Dispatch \/ Spin \/ Environment

\* The Cyphal thread keeps spinning; nobody has to send anything.
Spec == Init /\ [][Next]_vars
FairSpec == Spec /\ WF_vars(Spin)

-----------------------------------------------------------------------------
(* Properties                                                              *)

\* Every member keeps its type.
TypeOK ==
    /\ phase \in Phases
    /\ transfers \in 0..MaxTransfers
    /\ engaged \in BOOLEAN /\ engageRequested \in BOOLEAN
    /\ rearmRequired \in BOOLEAN
    /\ emergencyStop \in BOOLEAN /\ restartRequested \in BOOLEAN
    /\ readinessFresh \in BOOLEAN
    /\ setpoint \in {"none", "fresh", "expired"}
    /\ cartActive \in BOOLEAN /\ outerActive \in BOOLEAN
    /\ startup \in StartupStates
    /\ startupActive \in BOOLEAN /\ forceDuty \in BOOLEAN
    /\ moe \in BOOLEAN /\ bif \in BOOLEAN /\ external \in BOOLEAN
    /\ tripped \in BOOLEAN /\ running \in BOOLEAN
    /\ stale \subseteq Kinds
    /\ unapplied \in BOOLEAN /\ unchecked \in BOOLEAN
    /\ settingsPending \in BOOLEAN
    /\ sentOff \in BOOLEAN

\* Engage(), Disengage() and HwStartup share the outputs: released outputs
\* belong to the engaged drive or to the startup run, never to both or to none;
\* the run drives forced duties only, although a settings restart in CONNECT_MOTOR
\* has dropped them; and an emergency stop leaves no owner until the restart, through
\* every later ENGAGED, startup request and register write.
OneOwner ==
    /\ moe => engaged \/ StartupIsActive
    /\ ~(engaged /\ StartupIsActive)
    /\ moe /\ ~engaged => forceDuty
    /\ emergencyStop => ~engaged /\ ~moe

\* A register that differs from what the loops run with is applied by the end of
\* the Spin(), or waits for the disengage with settings_pending_ raised: TuneLive()
\* and ApplySettings() with their two write counters forget no change.
NoChangeForgotten ==
    AtSpinStart /\ ~startupActive /\ stale # {} => engaged /\ settingsPending

\* SpinEngagement(): a trip of the control cycle ends the engagement, and a drive
\* that nobody keeps ready does not stay engaged, also when the hardware has rejected
\* the restart with new settings.
EngagementEnds ==
    /\ (engaged /\ tripped) ~> ~engaged
    /\ <>[](~readinessFresh /\ ~cartActive) => <>[]~engaged

-----------------------------------------------------------------------------
(* Statements of the documentation that the code does not keep             *)

\* drive_node.hpp: "ENGAGED releases the power stage, SLEEP/STANDBY or a timeout
\* disables it": the drive engages on ENGAGED, not after a SLEEP or STANDBY.
EngagedByLastReadiness ==
    [][~engaged /\ engaged' => ~sentOff]_vars

\* SpinStartup(): "DONE wrote the calibration to the settings; the controller
\* restarts with it", so an engaged drive runs with the new calibration.
EngagedCalibrated ==
    [][~engaged /\ engaged' => "calibration" \notin stale]_vars

\* ApplySettings(): a restart that the hardware rejects leaves no control cycle to
\* engage with.
EngagedRuns == [][~engaged /\ engaged' => running]_vars

\* SpinStartup(): "A FAULT leaves the control cycle at forced neutral duties: back
\* to the control loop", so an engaged drive follows its control loop.
EngagedOnControlLoop == AtSpinStart /\ engaged => ~forceDuty

\* power_stage_interface.hpp: a fault is "latched until ClearFault()", which the
\* STANDBY acknowledgement, Engage() and the startup aid call.
FaultLatched ==
    [][bif /\ ~bif' => \/ phase \in {"standby_fault", "engage_fault"}
                       \/ startup' # startup
                       \/ restartRequested]_vars
=============================================================================
