----------------------------- MODULE EbikeDrive -----------------------------
(***************************************************************************)
(* Engagement on demand: EbikeControl (src/ebike/ebike_control.cpp) as the *)
(* local control of the drive (src/drive/drive_node.cpp).                  *)
(*                                                                         *)
(* The control decides at most once per kStepUs, while a received frame    *)
(* wakes Spin() earlier: Update() then answers with its last output.       *)
(* Pedals and display are two Booleans that change at any time; the torque *)
(* law, the display protocol and the startup aid are left out.             *)
(***************************************************************************)
EXTENDS Naturals

VARIABLES
    spinPhase,                    \* where the Cyphal thread is in Spin()
    pedaling, assist,         \* environment: crank turns; display alive, level > 0
    still,                    \* pedals stood still for the re-arm time
    held,                     \* the engage hold since the last want is over
    latched, wanting, wasEngaged,  \* latched_, wanting_, was_engaged_
    output,                   \* output_.engage of the last full Update()
    engaged, engageRequested, rearmRequired, settingsPending,  \* of DriveNode
    stageLost,                \* the stage is not released or a trip is latched
    blocked,                  \* Enable() would fail
    inhibited, faulted, \* history: SLEEP/STANDBY, or a fault, and pedals not still since
    configured          \* history: Configure() dropped the latch of such an event

riderVars == <<pedaling, assist, still, held>>
ebikeVars == <<latched, wanting, wasEngaged, output>>
driveVars == <<engaged, engageRequested, rearmRequired, settingsPending>>
stageVars == <<stageLost, blocked>>
historyVars == <<inhibited, faulted, configured>>
ebikeDriveVars == <<spinPhase, riderVars, ebikeVars, driveVars, stageVars, historyVars>>

Phases == {"dispatch", "local", "engage", "engagement", "settings"}

EbikeInit ==
    /\ spinPhase = "dispatch"
    /\ pedaling = FALSE /\ assist = FALSE /\ still = FALSE /\ held = TRUE
    /\ latched = FALSE /\ wanting = FALSE /\ wasEngaged = FALSE /\ output = FALSE
    /\ engaged = FALSE /\ engageRequested = FALSE /\ rearmRequired = FALSE
    /\ settingsPending = FALSE
    /\ stageLost = FALSE /\ blocked \in BOOLEAN
    /\ inhibited = FALSE /\ faulted = FALSE /\ configured = FALSE

-----------------------------------------------------------------------------
(* Dispatch                                                                *)

\* SLEEP or STANDBY: Inhibit(), then Disengage() of an engaged drive.
OnReadinessOff ==
    /\ spinPhase = "dispatch"
    /\ rearmRequired' = FALSE
    /\ latched' = TRUE /\ wanting' = FALSE
    /\ engaged' = FALSE
    /\ inhibited' = TRUE
    /\ UNCHANGED <<spinPhase, riderVars, wasEngaged, output, engageRequested,
                   settingsPending, stageVars, faulted, configured>>

\* A register write that waits for ApplySettings().
OnRegisterWrite ==
    /\ spinPhase = "dispatch"
    /\ settingsPending' = TRUE
    /\ UNCHANGED <<spinPhase, riderVars, ebikeVars, engaged, engageRequested,
                   rearmRequired, stageVars, historyVars>>

EndDispatch ==
    /\ spinPhase = "dispatch"
    /\ spinPhase' = "local"
    /\ UNCHANGED <<riderVars, ebikeVars, driveVars, stageVars, historyVars>>

-----------------------------------------------------------------------------
(* SpinLocalControl() around EbikeControl::Update()                         *)

\* Mutant: an answer without demand does not release the drive.
FollowOutput_KeepsEngaged(answer) ==
    /\ spinPhase = "local"
    /\ spinPhase' = "engage"
    /\ engageRequested' = (engageRequested \/ (answer /\ ~engaged /\ ~rearmRequired))
    /\ rearmRequired' = (rearmRequired /\ answer)
    /\ UNCHANGED <<engaged, settingsPending, stageVars>>

\* What the drive does with the answer of Update().
FollowOutput(answer) ==
    /\ spinPhase = "local"
    /\ spinPhase' = "engage"
    /\ engageRequested' = (engageRequested \/ (answer /\ ~engaged /\ ~rearmRequired))
    /\ rearmRequired' = (rearmRequired /\ answer)
    /\ engaged' = (engaged /\ answer)
    /\ UNCHANGED <<settingsPending, stageVars>>

\* Called again within kStepUs.
UpdateTooEarly ==
    /\ FollowOutput(output)
    /\ UNCHANGED <<riderVars, ebikeVars, historyVars>>

\* Mutant: any stop of the pedals releases the latch.
Latch_AnyStop(stillNow) ==
    (latched \/ (rearmRequired /\ (wanting \/ wasEngaged \/ (assist /\ pedaling))))
        /\ pedaling

\* The latch of a fault or an Inhibit(): set first, then released by still pedals.
Latch(stillNow) ==
    LET want == assist /\ pedaling
    IN  (latched \/ (rearmRequired /\ (wanting \/ wasEngaged \/ want))) /\ ~stillNow

UpdateDemand ==
    /\ still' = (still /\ ~pedaling)
    /\ latched' = Latch(still')
    /\ wanting' = (~latched' /\ ((assist /\ pedaling) \/ (wanting /\ ~held)))
    /\ held' = (held /\ ~(assist /\ pedaling /\ ~latched'))
    /\ wasEngaged' = engaged
    /\ output' = (wanting' /\ ~latched')
    /\ FollowOutput(output')
    /\ inhibited' = (inhibited /\ ~still')
    /\ faulted' = (faulted /\ ~still')
    /\ configured' = (configured /\ (inhibited' \/ faulted'))
    /\ UNCHANGED <<pedaling, assist>>

-----------------------------------------------------------------------------
(* Engage(), EbikeEngagement(), ApplySettings()                              *)

\* ApplySettings() with the drive disengaged reconfigures the e-bike control.
Configure ==
    /\ settingsPending' = FALSE
    /\ wanting' = FALSE /\ latched' = FALSE /\ output' = FALSE
    /\ configured' = TRUE

SpinNoRequest ==
    /\ spinPhase = "engage" /\ (~engageRequested \/ engaged)
    /\ spinPhase' = "engagement"
    /\ engageRequested' = FALSE
    /\ UNCHANGED <<riderVars, ebikeVars, engaged, rearmRequired, settingsPending,
                   stageVars, historyVars>>

Engage ==
    /\ spinPhase = "engage" /\ engageRequested /\ ~engaged
    /\ spinPhase' = "engagement"
    /\ engageRequested' = FALSE
    /\ IF settingsPending THEN Configure
       ELSE UNCHANGED <<settingsPending, wanting, latched, output, configured>>
    /\ engaged' = ~blocked
    /\ rearmRequired' = (rearmRequired \/ blocked)
    /\ faulted' = (faulted \/ blocked)
    /\ stageLost' = FALSE
    /\ UNCHANGED <<riderVars, wasEngaged, blocked, inhibited>>

\* The readiness timeout cannot fire: SpinLocalControl() either refreshed it in
\* this Spin() or has disengaged the drive.
EbikeEngagement ==
    /\ spinPhase = "engagement"
    /\ spinPhase' = "settings"
    /\ IF engaged /\ stageLost
       THEN engaged' = FALSE /\ rearmRequired' = TRUE /\ faulted' = TRUE
       ELSE UNCHANGED <<engaged, rearmRequired, faulted>>
    /\ UNCHANGED <<riderVars, ebikeVars, engageRequested, settingsPending, stageVars,
                   inhibited, configured>>

SpinSettings ==
    /\ spinPhase = "settings"
    /\ spinPhase' = "dispatch"
    /\ IF settingsPending /\ ~engaged THEN Configure
       ELSE UNCHANGED <<settingsPending, wanting, latched, output, configured>>
    /\ UNCHANGED <<riderVars, wasEngaged, engaged, engageRequested, rearmRequired,
                   stageVars, inhibited, faulted>>

-----------------------------------------------------------------------------
(* Rider, display, clock and power stage                                    *)

PedalsChange ==
    /\ spinPhase = "dispatch"
    /\ pedaling' = ~pedaling
    /\ UNCHANGED <<spinPhase, assist, still, held, ebikeVars, driveVars, stageVars,
                   historyVars>>

\* The display line of ServiceDisplay(): a level change, or the display timeout.
DisplayChanges ==
    /\ spinPhase = "dispatch"
    /\ assist' = ~assist
    /\ UNCHANGED <<spinPhase, pedaling, still, held, ebikeVars, driveVars, stageVars,
                   historyVars>>

RearmTimeElapses ==
    /\ spinPhase = "dispatch" /\ ~pedaling /\ ~still
    /\ still' = TRUE
    /\ UNCHANGED <<spinPhase, pedaling, assist, held, ebikeVars, driveVars, stageVars,
                   historyVars>>

EngageHoldElapses ==
    /\ spinPhase = "dispatch" /\ ~held
    /\ held' = TRUE
    /\ UNCHANGED <<spinPhase, pedaling, assist, still, ebikeVars, driveVars, stageVars,
                   historyVars>>

StageTrips ==
    /\ engaged /\ ~stageLost
    /\ stageLost' = TRUE
    /\ UNCHANGED <<spinPhase, riderVars, ebikeVars, driveVars, blocked, historyVars>>

ExternalEnableChanges ==
    /\ blocked' = ~blocked
    /\ stageLost' = (stageLost \/ (engaged /\ ~blocked))
    /\ UNCHANGED <<spinPhase, riderVars, ebikeVars, driveVars, historyVars>>

-----------------------------------------------------------------------------
Spin ==
    \/ EndDispatch \/ UpdateTooEarly \/ UpdateDemand
    \/ SpinNoRequest \/ Engage \/ EbikeEngagement \/ SpinSettings

EbikeNext ==
    \/ OnReadinessOff \/ OnRegisterWrite
    \/ Spin
    \/ PedalsChange \/ DisplayChanges \/ RearmTimeElapses \/ EngageHoldElapses
    \/ StageTrips \/ ExternalEnableChanges

EbikeSpec == EbikeInit /\ [][EbikeNext]_ebikeDriveVars

\* The thread wakes at least every millisecond, so Update() decides again and
\* again; the engage hold runs out.
EbikeFairness ==
    /\ WF_ebikeDriveVars(Spin)
    /\ SF_ebikeDriveVars(UpdateDemand)
    /\ SF_ebikeDriveVars(EngageHoldElapses)

-----------------------------------------------------------------------------
(* Properties                                                              *)

\* "so a persistent fault cannot re-engage the drive in a loop": between two
\* settings restarts a fault or a refused engage keeps the drive disengaged until
\* the pedals stood still, whatever cached answers come in between (a readiness of
\* the bus in between is InhibitHolds' concern).
FaultHoldsDriveOff ==
    [][~engaged /\ engaged' /\ faulted => configured \/ inhibited]_ebikeDriveVars

\* ebike_control.cpp: "for the engage hold afterwards, then releases it": a rider who
\* stops pedalling gets the drive released, and a rider who pedals at an assist
\* level, with pedals and drive never failing, ends up with the engaged drive.
DemandFollowed ==
    /\ <>[]~pedaling => <>[]~engaged
    /\ (<>[](pedaling /\ assist /\ ~blocked /\ ~stageLost /\ ~latched) /\ <>[]~rearmRequired)
         => []<>engaged

-----------------------------------------------------------------------------
(* Statements of the documentation that the code does not keep             *)

\* ebike_control.hpp, Inhibit(): "no engagement until the pedals stood still for
\* the re-arm time".
InhibitHolds ==
    [][~engaged /\ engaged' /\ inhibited => configured]_ebikeDriveVars

\* ebike_plan.md: "A trip, a power stage fault or a refused engage latch it the
\* same way", also when settings wait for the disengage.
FaultLatchSurvivesSettings ==
    [][~engaged /\ engaged' /\ faulted => inhibited]_ebikeDriveVars
=============================================================================
