------------------------------ MODULE SpeedLoop ------------------------------
(***************************************************************************)
(* The controllers inside one step of the outer loop                       *)
(* (OuterLoop::Step() of src/current_control/outer_loop.cpp): the PI speed *)
(* controller with its anti-windup (speed_controller.hpp), the speed       *)
(* demand of the position loop (position_controller.hpp), the battery      *)
(* power window (dc_link_limit.hpp), and the search for the mechanical     *)
(* stop.  OuterLoop.tla has the hand-overs around it.                      *)
(*                                                                         *)
(* Quantities are integers in units chosen so that every division is       *)
(* exact; the torque constant is one, so a torque is a q current.  What a  *)
(* step measures and reads from its mailboxes may change arbitrarily from  *)
(* step to step.                                                           *)
(***************************************************************************)
EXTENDS Integers

CONSTANTS
    Speeds,                 \* measured speeds
    Positions,              \* measured positions and position setpoints
    SpeedSetpoints, CurrentSetpoints,
    Voltages,               \* DC-link voltages; 0: no reading
    Limits,                 \* battery limits <<drive, charge>>, of the settings or the BMS
    DerateStart, Trip,      \* regen_derate_start, trip
    TorqueLimit,            \* torque_limit, and the current limit
    Kp, IntegralStep,       \* kp, and kp * ki * dt
    AccelStep,              \* accel_limit * dt; 0: no ramp
    SpeedMin, SpeedMax,     \* speed_min, speed_max
    SpeedLimit, PositionStep, DemandStep, JumpThreshold,    \* of the position loop
    HomingSpeed, HomingTorque,
    BlockSteps,             \* kHomingBlockTime in steps
    StepsModulus            \* values of steps_ (2^32)

ASSUME SpeedLoopAssumption ==
    /\ 0 \in Speeds /\ Speeds \subseteq Int /\ Positions \subseteq Int
    /\ SpeedSetpoints \subseteq Int /\ CurrentSetpoints \subseteq Int
    /\ Voltages \subseteq Nat /\ Limits \subseteq Nat \X Nat
    /\ DerateStart \in Int /\ Trip \in Int /\ DerateStart < Trip
    /\ TorqueLimit \in Nat \ {0} /\ HomingTorque \in Nat
    /\ Kp \in Nat /\ IntegralStep \in Nat /\ AccelStep \in Nat
    /\ {SpeedMin, SpeedMax, SpeedLimit, PositionStep, DemandStep, JumpThreshold,
        HomingSpeed} \subseteq Int
    /\ BlockSteps \in Nat \ {0} /\ StepsModulus \in Nat \ {0}

VARIABLES
    speed,      \* speed_: its reference, integral and output
    position,   \* position_: pos_ref_limited and omega_demand_prev
    mode,       \* mode_, or "none" when not was_active_
    homing,     \* homing_: "idle", "searching", "done", "fault"
    blockedSteps,   \* blocked_steps_
    steps,      \* steps_
    hold,       \* held_setpoint_ while hold_home_, else NoHold
    atStop,     \* the shaft is against the mechanical stop
    step        \* history: of the last step, the torque window of the controller, its
                \*   error, and the current reference

loopVars == <<speed, position, mode, homing, blockedSteps, hold, atStop, steps, step>>

Unbounded == 1000
NoHold == Unbounded

Least(a, b) == IF a < b THEN a ELSE b
Greatest(a, b) == IF a > b THEN a ELSE b
Clamp(x, low, high) == Least(Greatest(x, low), high)
Magnitude(x) == IF x < 0 THEN -x ELSE x
Quotient(a, w) == IF w > 0 THEN a \div w ELSE -(a \div (-w))

-----------------------------------------------------------------------------
(* The battery power window                                                *)

AllowedChargeCurrent(charge, v) ==
    IF v <= DerateStart THEN charge
    ELSE IF v >= Trip THEN 0
    ELSE (charge * (Trip - v)) \div (Trip - DerateStart)

Motoring(limits, v) == v * limits[1]
Braking(limits, v) == -(v * AllowedChargeCurrent(limits[2], v))

AllowedTorque(limits, v, w) ==
    IF v = 0 \/ w = 0 THEN [lower |-> -Unbounded, upper |-> Unbounded]
    ELSE IF w > 0
    THEN [lower |-> Quotient(Braking(limits, v), w), upper |-> Quotient(Motoring(limits, v), w)]
    ELSE [lower |-> Quotient(Motoring(limits, v), w), upper |-> Quotient(Braking(limits, v), w)]

\* DcLinkLimit::Limit(): the q current scaled into the window.
Limit(q, limits, v, w) ==
    CASE v > 0 /\ q * w > Motoring(limits, v) -> Quotient(Motoring(limits, v), w)
      [] v > 0 /\ q * w < Braking(limits, v) -> Quotient(Braking(limits, v), w)
      [] OTHER -> q

\* OuterLoop::LimitCurrent(), of a current without a d part.
LimitCurrent(q) == Clamp(q, -TorqueLimit, TorqueLimit)

-----------------------------------------------------------------------------
(* SpeedController                                                         *)

ResetSpeed(start) == [reference |-> start, integral |-> 0, output |-> 0]

\* Mutant: the integral goes on while the output is saturated.
Track_WindsUp(s, reference, measured, range) ==
    LET lower == Greatest(-TorqueLimit, range.lower)
        upper == Least(TorqueLimit, range.upper)
        error == reference - measured
        integral == Clamp(s.integral + IntegralStep * error, -2 * TorqueLimit, 2 * TorqueLimit)
    IN [reference |-> reference, integral |-> integral,
        output |-> Clamp(Kp * error + integral, lower, upper)]

\* Track(): conditional integration within the bounds of the step.
Track(s, reference, measured, range) ==
    LET lower == Greatest(-TorqueLimit, range.lower)
        upper == Least(TorqueLimit, range.upper)
        error == reference - measured
        next == s.integral + IntegralStep * error
        unlimited == Kp * error + next
        windsUp == (unlimited > upper /\ error > 0) \/ (unlimited < lower /\ error < 0)
        integral == IF windsUp THEN s.integral ELSE Clamp(next, lower, upper)
    IN [reference |-> reference, integral |-> integral,
        output |-> Clamp(Kp * error + integral, lower, upper)]

\* Update(): the reference follows the setpoint with at most the acceleration.
Update(s, setpoint, measured, range) ==
    LET reference == IF AccelStep > 0
                     THEN Clamp(setpoint, s.reference - AccelStep, s.reference + AccelStep)
                     ELSE setpoint
    IN Track(s, reference, measured, range)

-----------------------------------------------------------------------------
(* PositionController                                                      *)

ResetPosition(reference) == [limited |-> reference, demand |-> 0]

\* SpeedDemand(): the planned reference, the gain (one), and the two limits.
SpeedDemand(s, reference, measured) ==
    LET limited == IF Magnitude(reference - measured) > JumpThreshold
                   THEN s.limited + Clamp(reference - s.limited, -PositionStep, PositionStep)
                   ELSE reference
        demand == Clamp(limited - measured, -SpeedLimit, SpeedLimit)
    IN [limited |-> limited,
        demand |-> Clamp(demand, s.demand - DemandStep, s.demand + DemandStep)]

-----------------------------------------------------------------------------
(* OuterLoop::Step(), by the mode of the setpoint it reads                 *)

LoopInit ==
    /\ speed = ResetSpeed(0) /\ position = ResetPosition(0)
    /\ mode = "none" /\ homing = "idle" /\ blockedSteps = 0 /\ hold = NoHold
    /\ atStop = FALSE /\ steps = 0
    /\ step = [lower |-> -TorqueLimit, upper |-> TorqueLimit, error |-> 0, current |-> 0]

\* The reference q that SetCurrentRef() gets, of a controller with this torque window.
Finish(range, limits, v, w, q, error) ==
    /\ step' = [lower |-> Greatest(-TorqueLimit, range.lower),
                upper |-> Least(TorqueLimit, range.upper),
                error |-> error,
                current |-> Limit(LimitCurrent(q), limits, v, w)]
    /\ steps' = (steps + 1) % StepsModulus
    /\ atStop' = (atStop /\ homing' = "searching")

\* UpdateHoming() outside the engaged position mode: a request or a run fails.
LeavesHoming(requested) ==
    homing' = IF requested \/ homing = "searching" THEN "fault" ELSE homing

\* Not engaged: Restart(), the controllers follow what is measured.
StepInactive(limits, v, w, p, requested) ==
    /\ speed' = ResetSpeed(w) /\ position' = ResetPosition(p)
    /\ mode' = "none" /\ hold' = NoHold
    /\ LeavesHoming(requested)
    /\ UNCHANGED blockedSteps
    /\ Finish(AllowedTorque(limits, v, w), limits, v, w, 0, 0)

\* "A new mode or a new engagement starts the controllers from the measured speed."
Started(new, w) == IF mode # new THEN ResetSpeed(w) ELSE speed

StepTorque(limits, v, w, q, requested) ==
    /\ mode' = "torque"
    /\ speed' = Started("torque", w)
    /\ position' = IF mode # "torque" THEN ResetPosition(0) ELSE position
    /\ LeavesHoming(requested)
    /\ UNCHANGED <<blockedSteps, hold>>
    /\ Finish(AllowedTorque(limits, v, w), limits, v, w, q, 0)

StepSpeed(limits, v, w, setpoint, requested) ==
    /\ mode' = "speed"
    /\ speed' = Update(Started("speed", w), Clamp(setpoint, SpeedMin, SpeedMax), w,
                       AllowedTorque(limits, v, w))
    /\ position' = IF mode # "speed" THEN ResetPosition(0) ELSE position
    /\ LeavesHoming(requested)
    /\ UNCHANGED <<blockedSteps, hold>>
    /\ Finish(AllowedTorque(limits, v, w), limits, v, w, speed'.output, speed'.reference - w)

\* PositionTorque() without a homing run: the setpoint, or the home found last until
\* the setpoint is another one.
StepPosition(limits, v, w, p, setpoint) ==
    LET from == IF mode # "position" THEN ResetPosition(setpoint) ELSE position IN
    /\ homing # "searching"
    /\ mode' = "position"
    /\ hold' = IF setpoint = hold THEN hold ELSE NoHold
    /\ position' = SpeedDemand(from, IF hold' = NoHold THEN setpoint ELSE 0, p)
    /\ speed' = Track(Started("position", w), Clamp(position'.demand, SpeedMin, SpeedMax), w,
                      AllowedTorque(limits, v, w))
    /\ UNCHANGED <<homing, blockedSteps>>
    /\ Finish(AllowedTorque(limits, v, w), limits, v, w, speed'.output, speed'.reference - w)

\* SearchHome(): "Stalled against the stop: at the torque bound in the direction of
\* the run, and slow."
Stalled(range, torque, w) ==
    LET forward == HomingSpeed > 0
        bound == IF forward THEN Least(TorqueLimit, range.upper)
                 ELSE -Greatest(-TorqueLimit, range.lower)
        push == IF forward THEN torque ELSE -torque
    IN bound > 0 /\ 100 * push >= 99 * bound /\ 2 * Magnitude(w) < Magnitude(HomingSpeed)

StepHoming(limits, v, w, setpoint, requested) ==
    LET window == AllowedTorque(limits, v, w)
        range == [lower |-> Greatest(window.lower, -HomingTorque),
                  upper |-> Least(window.upper, HomingTorque)]
        from == IF requested THEN ResetSpeed(w) ELSE Started("position", w)
        driven == Update(from, HomingSpeed, w, range)
        blocked == IF Stalled(range, driven.output, w)
                   THEN (IF requested THEN 0 ELSE blockedSteps) + 1 ELSE 0
        found == blocked >= BlockSteps
    IN
    /\ requested \/ homing = "searching"
    /\ mode' = "position"
    /\ homing' = IF found THEN "done" ELSE "searching"
    /\ blockedSteps' = blocked
    /\ hold' = IF found THEN setpoint ELSE IF requested THEN NoHold ELSE hold
    /\ speed' = IF found THEN ResetSpeed(w) ELSE driven
    /\ position' = CASE found -> ResetPosition(0)
                     [] ~found /\ mode # "position" -> ResetPosition(setpoint)
                     [] OTHER -> position
    /\ Finish(range, limits, v, w, speed'.output, IF found THEN 0 ELSE speed'.reference - w)

\* The control thread.  Against the stop the shaft stands; the drive requests no run
\* while it is told of one.
Step ==
    \E limits \in Limits, v \in Voltages, w \in (IF atStop THEN {0} ELSE Speeds),
       requested \in (IF homing = "searching" THEN {FALSE} ELSE BOOLEAN) :
        \/ \E p \in Positions : StepInactive(limits, v, w, p, requested)
        \/ \E q \in CurrentSetpoints : StepTorque(limits, v, w, q, requested)
        \/ \E setpoint \in SpeedSetpoints : StepSpeed(limits, v, w, setpoint, requested)
        \/ \E p, setpoint \in Positions : ~requested /\ StepPosition(limits, v, w, p, setpoint)
        \/ \E setpoint \in Positions : StepHoming(limits, v, w, setpoint, requested)

\* The shaft of a homing run reaches the mechanical stop.
ReachStop ==
    /\ homing = "searching" /\ ~atStop /\ atStop' = TRUE
    /\ UNCHANGED <<speed, position, mode, homing, blockedSteps, hold, steps, step>>

LoopNext == Step \/ ReachStop

\* The observer interrupt wakes the control thread again and again.
LoopSpec == LoopInit /\ [][LoopNext]_loopVars
FairLoopSpec == LoopSpec /\ WF_loopVars(Step)

-----------------------------------------------------------------------------
(* Properties                                                              *)

LoopTypeOK ==
    /\ mode \in {"none", "torque", "speed", "position"}
    /\ homing \in {"idle", "searching", "done", "fault"}
    /\ blockedSteps \in 0..BlockSteps /\ steps \in 0..(StepsModulus - 1) /\ atStop \in BOOLEAN

\* "The speed controller stays inside the battery power window, so its integral does
\* not wind up against the current limit below": in every mode with a speed controller
\* the torque it asks for is the torque that goes to the motor, no limiter after it
\* takes anything away unseen, at any speed, voltage and battery limit.  The integral
\* never exceeds the torque limit.  And however long the output was saturated and
\* however the window has moved since, an error against the bound takes the output of
\* a controller with a gain off it in the same step, unless the whole window is
\* narrower than one step of the integral.
NoWindup ==
    /\ mode \in {"speed", "position"} => step.current = speed.output
    /\ Magnitude(speed.integral) <= TorqueLimit
    /\ Kp > 0 /\ step.lower < step.upper
       /\ IntegralStep * Magnitude(step.error) <= step.upper - step.lower =>
        /\ step.error < 0 => speed.output < step.upper
        /\ step.error > 0 => speed.output > step.lower

-----------------------------------------------------------------------------
(* A statement of the documentation that the code does not keep            *)

\* settings_registers.hpp, homing_current: "Current bound of the homing run, reached at
\* the stop": a run whose shaft stands against the stop ends.
StopEndsHoming == (homing = "searching" /\ atStop) ~> (homing # "searching")
=============================================================================
