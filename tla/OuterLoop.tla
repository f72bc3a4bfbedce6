------------------------------ MODULE OuterLoop ------------------------------
(***************************************************************************)
(* The outer loop (src/current_control/outer_loop.cpp) between the drive,  *)
(* which hands over setpoints, parameters, gains and homing requests from  *)
(* the Cyphal thread, and the control thread, which takes them in Step().  *)
(*                                                                         *)
(* The control thread preempts the Cyphal thread anywhere, so Step() is    *)
(* one step and the drive's hand-overs are one step per access.  A restart *)
(* (StartRuntime()) stops the interrupts that wake the control thread and  *)
(* is one step.  Speeds, torques and currents and the controllers that     *)
(* turn them into each other are left out: of the modes there remain the   *)
(* position mode and "torque" for the two others.                          *)
(***************************************************************************)
EXTENDS Integers

CONSTANTS
    Gains,          \* values of the tunable gains
    Positions,      \* position setpoints
    CountModulus,   \* values of generation_ and homing_requests_ (2^32)
    GainsModulus,   \* values of gains_generation_ (2^32)
    BlockSteps      \* kHomingBlockTime in steps

\* No position setpoint in force.
NoPosition == "none"

ASSUME OuterLoopAssumption ==
    /\ Gains # {} /\ NoPosition \notin Positions
    /\ CountModulus \in Nat /\ CountModulus > 1
    /\ GainsModulus \in Nat /\ GainsModulus > 1
    /\ BlockSteps \in Nat \ {0}

VARIABLES
    engaged, drive,     \* DriveNode: engaged_, setpoint_
    setpoint,           \* Mailbox setpoint_
    parameters,         \* Mailbox parameters_: generation and gains
    gains,              \* Mailbox gains_
    gainsGeneration,    \* gains_generation_
    homingRequests,     \* homing_requests_
    counting,           \* SetGains() has written and not counted yet
    newest,             \* history: the gains handed over last
    loop                \* what the control thread owns, as of its last step:
                        \*   generation, gains of active_, appliedGains,
                        \*   appliedHoming, homing, blocked, hold, held; home: where
                        \*   the position is zero; seen: the position setpoint

driveVars == <<engaged, drive, setpoint>>
handVars == <<parameters, gains, gainsGeneration, counting, newest>>
vars == <<driveVars, handVars, homingRequests, loop>>

Modes == {"torque", "position"}
HomingStates == {"idle", "searching", "done", "fault"}
Counts == 0..(CountModulus - 1)
GainsCounts == 0..(GainsModulus - 1)
NoGains == "none"

\* OuterSetpoint{}
NoSetpoint == [active |-> FALSE, mode |-> "torque", position |-> NoPosition]

Init ==
    /\ engaged = FALSE /\ drive = NoSetpoint /\ setpoint = NoSetpoint
    /\ \E g \in Gains :
        /\ parameters = [generation |-> 1, gains |-> g]
        /\ gains = g /\ newest = g
    /\ gainsGeneration = 1 /\ counting = FALSE /\ homingRequests = 0
    /\ loop = [generation |-> 0, gains |-> NoGains, appliedGains |-> 0,
               appliedHoming |-> 0, homing |-> "idle", blocked |-> 0,
               hold |-> FALSE, held |-> NoPosition, home |-> "none",
               seen |-> NoPosition]

-----------------------------------------------------------------------------
(* The drive, in the Cyphal thread                                         *)

\* The next value of a counter.  Fewer hand-overs than it has values come between
\* two steps: every hand-over asks for it (2^32 of them take hours).
Counted(count, modulus) == (count + 1) % modulus

OnSetpoint ==
    /\ ~counting
    /\ \/ drive' = NoSetpoint
       \/ \E p \in Positions :
            drive' = [NoSetpoint EXCEPT !.mode = "position", !.position = p]
    /\ UNCHANGED <<engaged, setpoint, handVars, homingRequests, loop>>

Engage ==
    /\ ~counting /\ ~engaged
    /\ engaged' = TRUE
    /\ drive' = NoSetpoint /\ setpoint' = NoSetpoint
    /\ UNCHANGED <<handVars, homingRequests, loop>>

Disengage ==
    /\ ~counting
    /\ engaged' = FALSE
    /\ drive' = NoSetpoint /\ setpoint' = NoSetpoint
    /\ UNCHANGED <<handVars, homingRequests, loop>>

\* The end of Spin(): the setpoint, active with the engagement.
SetSetpoint ==
    /\ ~counting
    /\ setpoint' = [drive EXCEPT !.active = engaged]
    /\ UNCHANGED <<engaged, drive, handVars, homingRequests, loop>>

\* Accepted while no run is reported; counted for the control thread.
StartHoming ==
    /\ ~counting
    /\ engaged /\ drive.mode = "position"
    /\ loop.homing # "searching"
    /\ Counted(homingRequests, CountModulus) # loop.appliedHoming
    /\ homingRequests' = Counted(homingRequests, CountModulus)
    /\ UNCHANGED <<driveVars, handVars, loop>>

\* TuneLive(): SetGains() writes the mailbox ...
WriteGains ==
    /\ ~counting /\ engaged
    /\ Counted(gainsGeneration, GainsModulus) # loop.appliedGains
    /\ \E g \in Gains : gains' = g /\ newest' = g
    /\ counting' = TRUE
    /\ UNCHANGED <<driveVars, parameters, gainsGeneration, homingRequests, loop>>

\* ... and counts.
CountGains ==
    /\ counting
    /\ gainsGeneration' = Counted(gainsGeneration, GainsModulus)
    /\ counting' = FALSE
    /\ UNCHANGED <<driveVars, parameters, gains, newest, homingRequests, loop>>

\* Mutant: Init() leaves the live gains as they are.
InitLoop_NoSetGains ==
    /\ ~counting /\ ~engaged
    /\ Counted(parameters.generation, CountModulus) # loop.generation
    /\ \E g \in Gains :
        /\ parameters' = [gains |-> g,
                          generation |-> Counted(parameters.generation, CountModulus)]
        /\ newest' = g
    /\ UNCHANGED <<driveVars, gains, gainsGeneration, counting, homingRequests, loop>>

\* OuterLoop::Init() in a restart of the controller.
InitLoop ==
    /\ ~counting /\ ~engaged
    /\ Counted(parameters.generation, CountModulus) # loop.generation
    /\ Counted(gainsGeneration, GainsModulus) # loop.appliedGains
    /\ \E g \in Gains :
        /\ parameters' = [gains |-> g,
                          generation |-> Counted(parameters.generation, CountModulus)]
        /\ gains' = g /\ newest' = g
    /\ gainsGeneration' = Counted(gainsGeneration, GainsModulus)
    /\ UNCHANGED <<driveVars, counting, homingRequests, loop>>

Drive ==
    OnSetpoint \/ Engage \/ Disengage \/ SetSetpoint \/ StartHoming
    \/ WriteGains \/ CountGains \/ InitLoop

-----------------------------------------------------------------------------
(* Step(), in the control thread                                           *)

\* Mutant: a restart keeps the result of the homing run.
LoadParameters_KeepsHoming(l) ==
    IF parameters.generation = l.generation THEN l
    ELSE [l EXCEPT !.generation = parameters.generation, !.gains = parameters.gains,
                   !.home = "none"]

LoadParameters(l) ==
    IF parameters.generation = l.generation THEN l
    ELSE [l EXCEPT !.generation = parameters.generation, !.gains = parameters.gains,
                   !.home = "none", !.homing = "idle", !.hold = FALSE]

ApplyGains(l) ==
    IF gainsGeneration = l.appliedGains THEN l
    ELSE [l EXCEPT !.appliedGains = gainsGeneration, !.gains = gains]

\* The position counts from where the loop has restarted.
Track(l) == IF l.home = "none" THEN [l EXCEPT !.home = "restart"] ELSE l

PositionMode == setpoint.active /\ setpoint.mode = "position"

TakeHomingRequest(l) ==
    IF homingRequests = l.appliedHoming THEN l
    ELSE IF PositionMode
    THEN [l EXCEPT !.appliedHoming = homingRequests, !.homing = "searching",
                   !.blocked = 0, !.hold = FALSE]
    ELSE [l EXCEPT !.appliedHoming = homingRequests, !.homing = "fault"]

\* A run lives in the engaged position mode only.
UpdateHoming(l) ==
    LET r == TakeHomingRequest(l)
    IN  [r EXCEPT !.homing = IF @ = "searching" /\ ~PositionMode THEN "fault" ELSE @,
                  !.hold = @ /\ setpoint.active]

\* Mutant: the setpoint of the end of the run is not kept.
SearchHome_KeepsHeld(l, stalled) ==
    LET blocked == IF stalled THEN l.blocked + 1 ELSE 0
    IN  IF blocked < BlockSteps THEN [l EXCEPT !.blocked = blocked]
        ELSE [l EXCEPT !.blocked = blocked, !.home = "stop", !.homing = "done",
                       !.hold = TRUE]

\* Stalled for the block time: this position is the home, and held.
SearchHome(l, stalled) ==
    LET blocked == IF stalled THEN l.blocked + 1 ELSE 0
    IN  IF blocked < BlockSteps THEN [l EXCEPT !.blocked = blocked]
        ELSE [l EXCEPT !.blocked = blocked, !.home = "stop", !.homing = "done",
                       !.hold = TRUE, !.held = setpoint.position]

\* The position loop goes to the home while it holds, else to the setpoint.
PositionTorque(l, stalled) ==
    IF l.homing = "searching" THEN SearchHome(l, stalled)
    ELSE [l EXCEPT !.hold = @ /\ setpoint.position = l.held]

\* One step; the shaft may be stalled at the homing torque or not.
Step ==
    /\ \E stalled \in BOOLEAN :
        LET l == UpdateHoming(Track(ApplyGains(LoadParameters(loop))))
        IN  loop' = IF PositionMode
                    THEN [PositionTorque(l, stalled) EXCEPT !.seen = setpoint.position]
                    ELSE [l EXCEPT !.seen = NoPosition]
    /\ UNCHANGED <<driveVars, handVars, homingRequests>>

Next == Drive \/ Step

Spec == Init /\ [][Next]_vars

-----------------------------------------------------------------------------
(* Properties                                                              *)

Setpoints == [active : BOOLEAN, mode : Modes, position : Positions \cup {NoPosition}]
Loops == [generation : Counts, gains : Gains \cup {NoGains},
          appliedGains : GainsCounts, appliedHoming : Counts,
          homing : HomingStates, blocked : 0..BlockSteps, hold : BOOLEAN,
          held : Positions \cup {NoPosition}, home : {"none", "restart", "stop"},
          seen : Positions \cup {NoPosition}]

\* Every member keeps its type.
TypeOK ==
    /\ engaged \in BOOLEAN /\ drive \in Setpoints /\ setpoint \in Setpoints
    /\ parameters \in [generation : Counts, gains : Gains]
    /\ gains \in Gains /\ gainsGeneration \in GainsCounts
    /\ homingRequests \in Counts /\ counting \in BOOLEAN /\ newest \in Gains
    /\ loop \in Loops

\* outer_loop.hpp: "The control thread takes them at its next step", outer_loop.cpp:
\* "live gains handed over before are older than these": a step outside of
\* SetGains() works with the gains handed over last, whether a restart or a live
\* change brought them and wherever earlier steps preempted SetGains().
GainsTaken == [][Step /\ ~counting => loop'.gains = newest]_vars

\* outer_loop.hpp: "kDone while the home of the last run holds, kIdle again after
\* Init()", "A run needs the position mode engaged": a reported or held home is the
\* stop that a run has found since the last restart, and a run searches only in the
\* position mode of an active setpoint.
HomeKnown ==
    /\ loop.homing = "done" \/ loop.hold => loop.home = "stop"
    /\ loop.homing = "searching" => loop.seen # NoPosition

\* outer_loop.hpp: "that position becomes zero and the loop holds it until the
\* position setpoint changes": a loop that holds the home stays there as long as
\* the setpoint is the one of the step before, except for a restart or a new run.
HoldsHome ==
    [][loop.hold /\ loop.seen # NoPosition /\ loop'.seen = loop.seen
        /\ loop'.generation = loop.generation
        /\ loop'.appliedHoming = loop.appliedHoming
        => loop'.hold]_vars
=============================================================================
