--------------------------- MODULE DriveNodeProofs ---------------------------
(***************************************************************************)
(* Proofs about DriveNode, for any number of transfers in a Spin() and a   *)
(* hardware layer that may or may not reject a restart.                    *)
(***************************************************************************)
EXTENDS DriveNode, TLAPS

\* Engage() goes on only while nobody else has the outputs and no emergency stop is
\* latched, although it is interrupted between its calls.
EngageInv ==
    phase \in {"engage_clear", "engage_fault", "engage_enable"} =>
        ~engaged /\ ~StartupIsActive /\ ~emergencyStop

\* An emergency stop ends the run of the startup aid and admits no other.
StopInv == emergencyStop => ~StartupIsActive

OwnerInv == OneOwner /\ EngageInv /\ StopInv

\* A difference between the live and the applied settings is not forgotten: a write is
\* still to be checked, the settings are pending, or the end of the startup run makes
\* them pending; a write to be checked is one to be applied.
ChangeInv ==
    /\ stale # {} => unchecked \/ settingsPending \/ startupActive
    /\ unchecked => unapplied
    /\ phase \in {"engagement", "settings"} /\ StartupIsActive => startupActive

\* The transfers of a Spin() are counted down, by the one acknowledged too.
TransfersInv ==
    /\ transfers \in 0..MaxTransfers
    /\ phase = "standby_fault" => transfers < MaxTransfers

IInv == OwnerInv /\ ChangeInv /\ TransfersInv /\ NoChangeForgotten

-----------------------------------------------------------------------------

LEMMA OwnerStep ==
    ASSUME OwnerInv, [Next]_vars
    PROVE  OneOwner' /\ EngageInv' /\ StopInv'
<1> USE DriveAssumption DEF OwnerInv, OneOwner, EngageInv, StopInv, StartupIsActive
<1>1. CASE OnReadinessEngaged
  BY <1>1 DEF OnReadinessEngaged, Receive, commandVars, startupVars, stageVars,
     settingsVars
<1>2. CASE OnSetpoint
  BY <1>2 DEF OnSetpoint, Receive, SetSetpoint, engageVars, commandVars, startupVars,
     stageVars, settingsVars
<1>3. CASE OnCommandRestart
  BY <1>3 DEF OnCommandRestart, Receive, Disengage, ClearSetpoint, Abort, settingsVars
<1>4. CASE OnCommandEmergencyStop
  BY <1>4 DEF OnCommandEmergencyStop, Receive, Disengage, ClearSetpoint, Abort,
     settingsVars
<1>5. CASE OnCommandFactoryReset
  BY <1>5 DEF OnCommandFactoryReset, Receive, engageVars, commandVars, inputVars,
     startupVars, stageVars
<1>6. CASE OnCommandStartStartup
  BY <1>6 DEF OnCommandStartStartup, Receive, GetState, engageVars, commandVars,
     inputVars, settingsVars
<1>7. CASE OnCommandAbort
  BY <1>7 DEF OnCommandAbort, Receive, Abort, engageVars, commandVars, inputVars,
     settingsVars
<1>8. CASE StandbyClearFault
  BY <1>8 DEF StandbyClearFault, engageVars, commandVars, inputVars, startupVars,
     settingsVars
<1>9. CASE EndDispatch
  BY <1>9 DEF EndDispatch, engageVars, commandVars, inputVars, startupVars, stageVars,
     settingsVars
<1>10. CASE EngageRefused
  BY <1>10 DEF EngageRefused, commandVars, startupVars, stageVars, settingsVars
<1>11. CASE EngageAccepted
  BY <1>11 DEF EngageAccepted, ApplySettings, StartRuntime, stageVars, commandVars,
     inputVars, settingsVars
<1>12. CASE EngageClearTrips
  BY <1>12 DEF EngageClearTrips, ClearSetpoint, engageVars, commandVars, startupVars,
     settingsVars
<1>13. CASE EngageClearFault
  BY <1>13 DEF EngageClearFault, engageVars, commandVars, inputVars, startupVars,
     settingsVars
<1>14. CASE EngageEnable
  BY <1>14 DEF EngageEnable, commandVars, startupVars, settingsVars
<1>15. CASE StartupNoSample
  BY <1>15 DEF StartupNoSample, StartupTurn, engageVars, commandVars, inputVars
<1>16. CASE StartupMeasures
  BY <1>16 DEF StartupMeasures, StartupTurn, engageVars, commandVars, inputVars
<1>17. CASE StartupConnectMotor
  BY <1>17 DEF StartupConnectMotor, StartupTurn, engageVars, commandVars, inputVars
<1>18. CASE StartupFails
  BY <1>18 DEF StartupFails, StartupTurn, engageVars, commandVars, inputVars
<1>19. CASE StartupPhase1Done
  BY <1>19 DEF StartupPhase1Done, StartupTurn, engageVars, commandVars, inputVars
<1>20. CASE StartupContinue
  BY <1>20 DEF StartupContinue, StartupTurn, engageVars, commandVars, inputVars,
     GetState
<1>21. CASE StartupFinishes
  BY <1>21 DEF StartupFinishes, StartupTurn, engageVars, commandVars, inputVars
<1>22. CASE StartupEnded
  BY <1>22 DEF StartupEnded, engageVars, commandVars, inputVars, stageVars
<1>23. CASE ReadinessTimeout
  BY <1>23 DEF ReadinessTimeout, Disengage, ClearSetpoint, ReadinessLost, commandVars,
     startupVars, settingsVars
<1>24. CASE StageLost
  BY <1>24 DEF StageLost, Disengage, ClearSetpoint, StageReleased, GetState,
     ReadinessLost, CartMayHold, commandVars, startupVars, settingsVars
<1>25. CASE EngagementKept
  BY <1>25 DEF EngagementKept, StageReleased, GetState, ReadinessLost, CartMayHold,
     engageVars, commandVars, startupVars, stageVars, settingsVars
<1>26. CASE SpinTuneLive
  BY <1>26 DEF SpinTuneLive, EndSpin, engageVars, commandVars, inputVars, startupVars,
     stageVars
<1>27. CASE SpinApply
  BY <1>27 DEF SpinApply, ApplySettings, StartRuntime, stageVars, EndSpin, engageVars,
     commandVars, inputVars
<1>28. CASE SpinIdle
  BY <1>28 DEF SpinIdle, EndSpin, engageVars, commandVars, inputVars, startupVars,
     stageVars, settingsVars
<1>29. CASE Reboot
  BY <1>29 DEF Reboot
<1>30. CASE ControlCycleTrip
  BY <1>30 DEF ControlCycleTrip, spinVars, engageVars, commandVars, inputVars,
     startupVars, settingsVars
<1>31. CASE ExternalEnableDrops
  BY <1>31 DEF ExternalEnableDrops, spinVars, engageVars, commandVars, inputVars,
     startupVars, settingsVars
<1>32. CASE ExternalEnableReturns
  BY <1>32 DEF ExternalEnableReturns, spinVars, engageVars, commandVars, inputVars,
     startupVars, settingsVars
<1>33. CASE ReadinessExpires
  BY <1>33 DEF ReadinessExpires, AtSpinStart, spinVars, engageVars, commandVars,
     startupVars, stageVars, settingsVars
<1>34. CASE SetpointExpires
  BY <1>34 DEF SetpointExpires, AtSpinStart, spinVars, engageVars, commandVars,
     startupVars, stageVars, settingsVars
<1>35. ASSUME NEW r \in Readiness, OnReadinessDisengage(r)
       PROVE OneOwner' /\ EngageInv' /\ StopInv'
  BY <1>35 DEF OnReadinessDisengage, Receive, Disengage, ClearSetpoint, commandVars,
     startupVars, settingsVars
<1>36. ASSUME NEW r \in Readiness, OnReadinessIdle(r)
       PROVE OneOwner' /\ EngageInv' /\ StopInv'
  BY <1>36 DEF OnReadinessIdle, Receive, commandVars, startupVars, settingsVars
<1>37. ASSUME NEW kind \in Kinds, OnRegisterWrite(kind)
       PROVE OneOwner' /\ EngageInv' /\ StopInv'
  BY <1>37 DEF OnRegisterWrite, Receive, engageVars, commandVars, inputVars,
     startupVars, stageVars
<1>38. CASE UNCHANGED vars
  BY <1>38 DEF vars, spinVars, engageVars, commandVars, inputVars, startupVars,
     stageVars, settingsVars
<1> QED
  BY <1>1, <1>2, <1>3, <1>4, <1>5, <1>6, <1>7, <1>8, <1>9, <1>10, <1>11, <1>12, <1>13,
     <1>14, <1>15, <1>16, <1>17, <1>18, <1>19, <1>20, <1>21, <1>22, <1>23, <1>24, <1>25,
     <1>26, <1>27, <1>28, <1>29, <1>30, <1>31, <1>32, <1>33, <1>34, <1>35, <1>36, <1>37,
     <1>38 DEF Next, Dispatch, Spin, Environment

LEMMA ChangeStep ==
    ASSUME OwnerInv, ChangeInv, TransfersInv, NoChangeForgotten, [Next]_vars
    PROVE  ChangeInv' /\ TransfersInv' /\ NoChangeForgotten'
<1> USE DriveAssumption DEF OwnerInv, OneOwner, ChangeInv, TransfersInv,
        NoChangeForgotten, StartupIsActive, AtSpinStart
<1>1. CASE OnReadinessEngaged
  BY <1>1 DEF OnReadinessEngaged, Receive, commandVars, startupVars, stageVars,
     settingsVars
<1>2. CASE OnSetpoint
  BY <1>2 DEF OnSetpoint, Receive, SetSetpoint, engageVars, commandVars, startupVars,
     stageVars, settingsVars
<1>3. CASE OnCommandRestart
  BY <1>3 DEF OnCommandRestart, Receive, Disengage, ClearSetpoint, Abort, settingsVars
<1>4. CASE OnCommandEmergencyStop
  BY <1>4 DEF OnCommandEmergencyStop, Receive, Disengage, ClearSetpoint, Abort,
     settingsVars
<1>5. CASE OnCommandFactoryReset
  BY <1>5 DEF OnCommandFactoryReset, Receive, engageVars, commandVars, inputVars,
     startupVars, stageVars
<1>6. CASE OnCommandStartStartup
  BY <1>6 DEF OnCommandStartStartup, Receive, GetState, engageVars, commandVars,
     inputVars, settingsVars
<1>7. CASE OnCommandAbort
  BY <1>7 DEF OnCommandAbort, Receive, Abort, engageVars, commandVars, inputVars,
     settingsVars
<1>8. CASE StandbyClearFault
  BY <1>8 DEF StandbyClearFault, engageVars, commandVars, inputVars, startupVars,
     settingsVars
<1>9. CASE EndDispatch
  BY <1>9 DEF EndDispatch, engageVars, commandVars, inputVars, startupVars, stageVars,
     settingsVars
<1>10. CASE EngageRefused
  BY <1>10 DEF EngageRefused, commandVars, startupVars, stageVars, settingsVars
<1>11. CASE EngageAccepted
  BY <1>11 DEF EngageAccepted, ApplySettings, StartRuntime, stageVars, commandVars,
     inputVars, settingsVars
<1>12. CASE EngageClearTrips
  BY <1>12 DEF EngageClearTrips, ClearSetpoint, engageVars, commandVars, startupVars,
     settingsVars
<1>13. CASE EngageClearFault
  BY <1>13 DEF EngageClearFault, engageVars, commandVars, inputVars, startupVars,
     settingsVars
<1>14. CASE EngageEnable
  BY <1>14 DEF EngageEnable, commandVars, startupVars, settingsVars
<1>15. CASE StartupNoSample
  BY <1>15 DEF StartupNoSample, StartupTurn, engageVars, commandVars, inputVars
<1>16. CASE StartupMeasures
  BY <1>16 DEF StartupMeasures, StartupTurn, engageVars, commandVars, inputVars
<1>17. CASE StartupConnectMotor
  BY <1>17 DEF StartupConnectMotor, StartupTurn, engageVars, commandVars, inputVars
<1>18. CASE StartupFails
  BY <1>18 DEF StartupFails, StartupTurn, engageVars, commandVars, inputVars
<1>19. CASE StartupPhase1Done
  BY <1>19 DEF StartupPhase1Done, StartupTurn, engageVars, commandVars, inputVars
<1>20. CASE StartupContinue
  BY <1>20 DEF StartupContinue, StartupTurn, engageVars, commandVars, inputVars,
     GetState
<1>21. CASE StartupFinishes
  BY <1>21 DEF StartupFinishes, StartupTurn, engageVars, commandVars, inputVars
<1>22. CASE StartupEnded
  BY <1>22 DEF StartupEnded, engageVars, commandVars, inputVars, stageVars
<1>23. CASE ReadinessTimeout
  BY <1>23 DEF ReadinessTimeout, Disengage, ClearSetpoint, ReadinessLost, commandVars,
     startupVars, settingsVars
<1>24. CASE StageLost
  BY <1>24 DEF StageLost, Disengage, ClearSetpoint, StageReleased, GetState,
     ReadinessLost, CartMayHold, commandVars, startupVars, settingsVars
<1>25. CASE EngagementKept
  BY <1>25 DEF EngagementKept, StageReleased, GetState, ReadinessLost, CartMayHold,
     engageVars, commandVars, startupVars, stageVars, settingsVars
<1>26. CASE SpinTuneLive
  <2> USE <1>26 DEF SpinTuneLive, EndSpin, engageVars, commandVars, inputVars,
          startupVars, stageVars
  <2>1. ChangeInv'
    OBVIOUS
  <2>2. TransfersInv'
    OBVIOUS
  <2>3. NoChangeForgotten'
    OBVIOUS
  <2> QED
    BY <2>1, <2>2, <2>3
<1>27. CASE SpinApply
  <2> USE <1>27 DEF SpinApply, ApplySettings, StartRuntime, stageVars, EndSpin,
          engageVars, commandVars, inputVars
  <2>1. ChangeInv'
    OBVIOUS
  <2>2. TransfersInv'
    OBVIOUS
  <2>3. NoChangeForgotten'
    OBVIOUS
  <2> QED
    BY <2>1, <2>2, <2>3
<1>28. CASE SpinIdle
  BY <1>28 DEF SpinIdle, EndSpin, engageVars, commandVars, inputVars, startupVars,
     stageVars, settingsVars
<1>29. CASE Reboot
  BY <1>29 DEF Reboot
<1>30. CASE ControlCycleTrip
  BY <1>30 DEF ControlCycleTrip, spinVars, engageVars, commandVars, inputVars,
     startupVars, settingsVars
<1>31. CASE ExternalEnableDrops
  BY <1>31 DEF ExternalEnableDrops, spinVars, engageVars, commandVars, inputVars,
     startupVars, settingsVars
<1>32. CASE ExternalEnableReturns
  BY <1>32 DEF ExternalEnableReturns, spinVars, engageVars, commandVars, inputVars,
     startupVars, settingsVars
<1>33. CASE ReadinessExpires
  BY <1>33 DEF ReadinessExpires, spinVars, engageVars, commandVars, startupVars,
     stageVars, settingsVars
<1>34. CASE SetpointExpires
  BY <1>34 DEF SetpointExpires, spinVars, engageVars, commandVars, startupVars,
     stageVars, settingsVars
<1>35. ASSUME NEW r \in Readiness, OnReadinessDisengage(r)
       PROVE ChangeInv' /\ TransfersInv' /\ NoChangeForgotten'
  BY <1>35 DEF OnReadinessDisengage, Receive, Disengage, ClearSetpoint, commandVars,
     startupVars, settingsVars
<1>36. ASSUME NEW r \in Readiness, OnReadinessIdle(r)
       PROVE ChangeInv' /\ TransfersInv' /\ NoChangeForgotten'
  BY <1>36 DEF OnReadinessIdle, Receive, commandVars, startupVars, settingsVars
<1>37. ASSUME NEW kind \in Kinds, OnRegisterWrite(kind)
       PROVE ChangeInv' /\ TransfersInv' /\ NoChangeForgotten'
  BY <1>37 DEF OnRegisterWrite, Receive, engageVars, commandVars, inputVars,
     startupVars, stageVars
<1>38. CASE UNCHANGED vars
  BY <1>38 DEF vars, spinVars, engageVars, commandVars, inputVars, startupVars,
     stageVars, settingsVars
<1> QED
  BY <1>1, <1>2, <1>3, <1>4, <1>5, <1>6, <1>7, <1>8, <1>9, <1>10, <1>11, <1>12, <1>13,
     <1>14, <1>15, <1>16, <1>17, <1>18, <1>19, <1>20, <1>21, <1>22, <1>23, <1>24, <1>25,
     <1>26, <1>27, <1>28, <1>29, <1>30, <1>31, <1>32, <1>33, <1>34, <1>35, <1>36, <1>37,
     <1>38 DEF Next, Dispatch, Spin, Environment

LEMMA Invariance == Spec => []IInv
<1>1. Init => IInv
  BY DriveAssumption DEF Init, IInv, OwnerInv, OneOwner, EngageInv, StopInv, ChangeInv,
     TransfersInv, NoChangeForgotten, StartupIsActive, AtSpinStart
<1>2. IInv /\ [Next]_vars => IInv'
  BY OwnerStep, ChangeStep DEF IInv, OwnerInv
<1> QED
  BY <1>1, <1>2, PTL DEF Spec

\* The outputs have one owner (OneOwner), with any number of transfers per Spin(): the
\* argument is EngageInv, that Engage() cannot lose its premises between its calls, and
\* StopInv, that an emergency stop takes the run of the startup aid with it.
THEOREM OwnerCorrect == Spec => []OneOwner
<1>1. IInv => OneOwner
  BY DEF IInv, OwnerInv
<1> QED
  BY <1>1, Invariance, PTL

\* No changed register is forgotten (NoChangeForgotten): TuneLive(), ApplySettings() and
\* their two write counters leave a difference only where settings_pending_ holds it for
\* the disengage.
THEOREM ChangesKept == Spec => []NoChangeForgotten
<1>1. IInv => NoChangeForgotten
  BY DEF IInv
<1> QED
  BY <1>1, Invariance, PTL
=============================================================================
