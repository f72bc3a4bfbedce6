----------------------------- MODULE NodeTimers -----------------------------
(***************************************************************************)
(* The periodic messages of a drive: heartbeat, port list and the requests *)
(* for a node-ID of CyphalNode::Spin() (lib/cyphal/node.cpp), telemetry,   *)
(* homing state and commissioning status of DriveNode::Spin()              *)
(* (src/drive/drive_node.cpp, commissioning.cpp).                          *)
(*                                                                         *)
(* A timer is the time left until it runs out, below zero when Spin() is   *)
(* late.  Everything a tick of this module apart is left out.              *)
(***************************************************************************)
EXTENDS Integers

CONSTANTS
    HeartbeatPeriod,    \* kHeartbeatPeriodUs
    PortListPeriod,     \* kPortListPeriodUs
    TelemetryPeriods,   \* periods of telemetry_rate; 0 is off
    AllocationDelays,   \* the delays RequestNodeId() draws
    ActivePeriod, IdlePeriod,   \* kHomingActivePeriodUs, kHomingIdlePeriodUs
    MaxLate             \* bound: how long the thread may be held up

ASSUME TimersAssumption ==
    /\ {HeartbeatPeriod, PortListPeriod, ActivePeriod, IdlePeriod, MaxLate} \subseteq Nat \ {0}
    /\ AllocationDelays \subseteq Nat \ {0} /\ AllocationDelays # {}
    \* The history looks back as far as MaxLate.
    /\ TelemetryPeriods \subseteq 0..MaxLate

VARIABLES
    anonymous,          \* the node has no node-ID
    heartbeat,          \* next_heartbeat_us_
    portList,           \* next_port_list_us_
    allocation,         \* next_allocation_us_
    telemetry,          \* next_telemetry_us_
    telemetryPeriod,    \* telemetry_period_us_
    homing,             \* environment: homing of OuterStatus
    shown, homingTimer, \* last_homing_, next_homing_us_
    startupRun,         \* environment: Status() of the startup aid, by what sets the period
    last, statusTimer,  \* last_, next_us_ of Commissioning
    late,               \* time since the last Spin()
    history             \* history: age of the last two messages of each kind, and bursts

statusVars == <<startupRun, last, statusTimer>>
timerVars == <<anonymous, heartbeat, portList, allocation, telemetry, telemetryPeriod,
               homing, shown, homingTimer, statusVars, late, history>>

HomingStates == {"idle", "searching"}

\* Start() of both classes; a drive without a stored node-ID is anonymous.
StartTimers ==
    /\ anonymous' \in BOOLEAN
    /\ heartbeat' = 0 /\ portList' = PortListPeriod /\ telemetry' = 0
    /\ allocation' \in AllocationDelays \cup {0}
    /\ telemetryPeriod' \in TelemetryPeriods
    /\ shown' = "none" /\ homingTimer' = 0 /\ homing' = "idle" /\ late' = 0
    /\ last' = "none" /\ statusTimer' = 0 /\ startupRun' = "idle"

\* No message within the last period.
NoMessages == [beat |-> HeartbeatPeriod, beat2 |-> HeartbeatPeriod,
               sample |-> MaxLate, sample2 |-> MaxLate, burst |-> FALSE]

TimersInit ==
    /\ anonymous \in BOOLEAN
    /\ heartbeat = 0 /\ portList = PortListPeriod /\ telemetry = 0
    /\ allocation \in AllocationDelays \cup {0}
    /\ telemetryPeriod \in TelemetryPeriods
    /\ shown = "none" /\ homingTimer = 0 /\ homing = "idle" /\ late = 0
    /\ last = "none" /\ statusTimer = 0 /\ startupRun = "idle"
    /\ history = NoMessages

-----------------------------------------------------------------------------

\* Mutant: the periods that were missed are made up for.
NextDue_MakesUp(timer, period) == timer + period

\* The next time of a periodic message: on its grid, or a period from now when
\* that has passed already (Spin() for the heartbeat, Due() for telemetry).
NextDue(timer, period) == IF timer + period <= 0 THEN period ELSE timer + period

\* The node messages of CyphalNode::Spin().
NodeMessages ==
    IF anonymous
    THEN /\ IF allocation <= 0 THEN allocation' \in AllocationDelays ELSE UNCHANGED allocation
         /\ UNCHANGED <<heartbeat, portList>>
    ELSE /\ heartbeat' = IF heartbeat <= 0 THEN NextDue(heartbeat, HeartbeatPeriod) ELSE heartbeat
         /\ portList' = IF portList <= 0 THEN PortListPeriod ELSE portList
         /\ UNCHANGED allocation

TelemetryDue == telemetryPeriod # 0 /\ telemetry <= 0

\* PublishTelemetry() when Due().
Telemetry ==
    telemetry' = IF TelemetryDue THEN NextDue(telemetry, telemetryPeriod) ELSE telemetry

\* PublishHoming(): on a change, and from time to time.
PublishHoming ==
    IF shown = homing /\ homingTimer > 0
    THEN UNCHANGED <<shown, homingTimer>>
    ELSE /\ shown' = homing
         /\ homingTimer' = IF homing = "searching" THEN ActivePeriod ELSE IdlePeriod

\* PublishCommissioning() when Commissioning::Due(): the same for the startup aid.
PublishCommissioning ==
    IF last = startupRun /\ statusTimer > 0
    THEN UNCHANGED <<last, statusTimer>>
    ELSE /\ last' = startupRun
         /\ statusTimer' = IF startupRun = "active" THEN ActivePeriod ELSE IdlePeriod

\* The messages of a Spin() in the history.
Noted ==
    LET beat == ~anonymous /\ heartbeat <= 0
    IN  history' =
          [beat  |-> IF beat THEN 0 ELSE history.beat,
           beat2 |-> IF beat THEN history.beat ELSE history.beat2,
           sample  |-> IF TelemetryDue THEN 0 ELSE history.sample,
           sample2 |-> IF TelemetryDue THEN history.sample ELSE history.sample2,
           burst |-> \/ history.burst
                     \/ beat /\ history.beat2 < HeartbeatPeriod
                     \/ TelemetryDue /\ history.sample2 < telemetryPeriod]

SpinTimers ==
    /\ NodeMessages /\ Telemetry /\ PublishHoming /\ PublishCommissioning /\ Noted
    /\ late' = 0
    /\ UNCHANGED <<anonymous, telemetryPeriod, homing, startupRun>>

\* HandleAllocation(): the heartbeat is due at once.  Its timer is set to the start, which
\* is less than a period back in the first second.
Allocated ==
    /\ anonymous /\ anonymous' = FALSE
    /\ heartbeat' \in -HeartbeatPeriod..0
    /\ UNCHANGED <<portList, allocation, telemetry, telemetryPeriod, homing, shown, homingTimer,
                   statusVars, late, history>>

\* LoadParameters() with another telemetry rate; the timer keeps its time.
SetTelemetryRate ==
    /\ telemetryPeriod' \in TelemetryPeriods
    /\ history' = [history EXCEPT !.sample = MaxLate, !.sample2 = MaxLate]
    /\ UNCHANGED <<anonymous, heartbeat, portList, allocation, telemetry, homing, shown,
                   homingTimer, statusVars, late>>

\* The control thread starts or ends a homing run.
HomingChanges ==
    /\ homing' \in HomingStates \ {homing}
    /\ UNCHANGED <<anonymous, heartbeat, portList, allocation, telemetry, telemetryPeriod, shown,
                   homingTimer, statusVars, late, history>>

\* The startup aid begins or ends a run.
StartupChanges ==
    /\ startupRun' \in {"idle", "active"} \ {startupRun}
    /\ UNCHANGED <<anonymous, heartbeat, portList, allocation, telemetry, telemetryPeriod, homing,
                   shown, homingTimer, last, statusTimer, late, history>>

RestartTimers ==
    /\ StartTimers
    /\ history' = NoMessages

\* Time passes, up to MaxLate without a Spin().
PassTime ==
    /\ late < MaxLate
    /\ late' = late + 1
    /\ LET left(timer) == IF timer > -MaxLate THEN timer - 1 ELSE timer
           older(age, bound) == IF age < bound THEN age + 1 ELSE age
       IN  /\ heartbeat' = left(heartbeat) /\ portList' = left(portList)
           /\ allocation' = left(allocation) /\ telemetry' = left(telemetry)
           /\ homingTimer' = left(homingTimer) /\ statusTimer' = left(statusTimer)
           /\ history' = [history EXCEPT !.beat = older(@, HeartbeatPeriod),
                                         !.beat2 = older(@, HeartbeatPeriod),
                                         !.sample = older(@, MaxLate),
                                         !.sample2 = older(@, MaxLate)]
    /\ UNCHANGED <<anonymous, telemetryPeriod, homing, shown, startupRun, last>>

TimersNext ==
    \/ SpinTimers \/ Allocated \/ SetTelemetryRate \/ HomingChanges \/ StartupChanges
    \/ RestartTimers \/ PassTime

TimersSpec == TimersInit /\ [][TimersNext]_timerVars

-----------------------------------------------------------------------------
(* Properties                                                              *)

\* A thread that was held up sends no burst: of three heartbeats, or three
\* telemetry messages, the last comes a period after the first at least.
NoBurst == ~history.burst

=============================================================================
