------------------------------ MODULE CartDrive ------------------------------
(***************************************************************************)
(* The torque source of a cart wheel drive: CartControl                    *)
(* (src/drive/cart_control.cpp) inside the engagement of the drive         *)
(* (src/drive/drive_node.cpp, SpinEngagement).                             *)
(*                                                                         *)
(* One Spin() takes one unit of time.  Inputs are their ages, torque and   *)
(* speed small integers in the cart frame (the reversal of the rotor frame *)
(* and the pedal redundancy are left out), pedal travel is 0 or full.      *)
(***************************************************************************)
EXTENDS Integers

CONSTANTS
    Torques,         \* wheel torques of the VDC, a finite set of integers
    LimpHomeTorque,  \* unimoc.cart.limp_home_torque
    TorqueRamp,      \* unimoc.cart.torque_ramp, per Spin()
    CartTimeout,     \* unimoc.cart.timeout
    CommandTimeout,  \* unimoc.command.timeout of the drive
    MaxSpeed         \* bound: speed of the wheel, in units of the standstill speed

\* Validate(): the cart timeout is positive and at most the command timeout.
ASSUME CartAssumption ==
    /\ Torques \subseteq Int /\ 0 \in Torques
    /\ LimpHomeTorque \in Nat /\ TorqueRamp \in Nat \ {0}
    /\ CartTimeout \in Nat \ {0} /\ CommandTimeout \in Nat
    /\ CartTimeout <= CommandTimeout
    /\ MaxSpeed \in Nat \ {0}

VARIABLES
    mode,           \* mode_
    torque,         \* torque_
    commandAge, commandTorque,   \* age of command_us_, or Lost; command_torque_
    pedalAge, brake, drivePedal, \* age of pedals_us_, or Lost; pedals_
    readinessAge,   \* age of last_readiness_us_
    speed,          \* wheel speed, cart frame
    cartEngaged,        \* engaged_
    timedOut        \* history: the last disengage was the readiness timeout

inputVars == <<commandAge, commandTorque, pedalAge, brake, drivePedal, readinessAge>>
cartVars == <<mode, torque, inputVars, speed, cartEngaged, timedOut>>

Modes == {"kOff", "kVdc", "kLimpHome", "kStopping"}

\* An age nobody looks at any more; also an input that was never received.
Lost == CommandTimeout + 1

Older(age) == IF age < Lost THEN age + 1 ELSE Lost

CartInit ==
    /\ mode = "kOff" /\ torque = 0
    /\ commandAge = Lost /\ commandTorque = 0
    /\ pedalAge = Lost /\ brake = FALSE /\ drivePedal = FALSE
    /\ readinessAge = Lost
    /\ speed = 0
    /\ cartEngaged = FALSE
    /\ timedOut = FALSE

-----------------------------------------------------------------------------
(* Inputs                                                                  *)

OnWheelCommand(t) ==
    /\ commandAge' = 0 /\ commandTorque' = t
    /\ UNCHANGED <<mode, torque, pedalAge, brake, drivePedal, readinessAge, speed,
                   cartEngaged, timedOut>>

OnPedalState(b, d) ==
    /\ pedalAge' = 0 /\ brake' = b /\ drivePedal' = d
    /\ UNCHANGED <<mode, torque, commandAge, commandTorque, readinessAge, speed,
                   cartEngaged, timedOut>>

\* WatchBus(): everything received before the bus-off is lost at once.
OnBusLost ==
    /\ commandAge' = Lost /\ pedalAge' = Lost
    /\ UNCHANGED <<mode, torque, commandTorque, brake, drivePedal, readinessAge, speed,
                   cartEngaged, timedOut>>

\* CartControl::Reset()
Reset == mode' = "kOff" /\ torque' = 0

\* ENGAGED while the drive is cartEngaged, or refused by Engage().
OnReadinessKept ==
    /\ readinessAge' = 0
    /\ UNCHANGED <<mode, torque, commandAge, commandTorque, pedalAge, brake, drivePedal,
                   speed, cartEngaged, timedOut>>

\* ENGAGED that Engage() accepts: the cart control is reset.
OnReadinessEngaged ==
    /\ ~cartEngaged
    /\ readinessAge' = 0
    /\ cartEngaged' = TRUE
    /\ Reset
    /\ timedOut' = FALSE
    /\ UNCHANGED <<commandAge, commandTorque, pedalAge, brake, drivePedal, speed>>

\* Disengage() by SLEEP, STANDBY or a lost power stage: the next Update() resets.
Disengaged ==
    /\ cartEngaged
    /\ cartEngaged' = FALSE
    /\ timedOut' = FALSE
    /\ UNCHANGED <<mode, torque, inputVars, speed>>

-----------------------------------------------------------------------------
(* CartControl::Update() in SpinEngagement()                               *)

Fresh(age) == age <= CartTimeout

Standstill == speed \in {-1, 0, 1}

\* The larger brake channel has priority and fades out below standstill speed.
PedalTorque ==
    IF brake
    THEN IF speed = 0 THEN 0 ELSE IF speed > 0 THEN -LimpHomeTorque ELSE LimpHomeTorque
    ELSE IF drivePedal THEN LimpHomeTorque ELSE 0

\* Both lost sources: limp-home on fresh pedals, otherwise stopping.
Fallback == IF Fresh(pedalAge) THEN "kLimpHome" ELSE "kStopping"

NextMode ==
    CASE mode = "kOff"  -> IF Fresh(commandAge) THEN "kVdc" ELSE "kOff"
      [] mode = "kVdc"  -> IF Fresh(commandAge) THEN "kVdc" ELSE Fallback
      [] OTHER          -> IF Fresh(commandAge) /\ Standstill THEN "kVdc" ELSE Fallback

\* torque moved towards target by at most one ramp step.
Ramped(target) ==
    IF target > torque + TorqueRamp THEN torque + TorqueRamp
    ELSE IF target < torque - TorqueRamp THEN torque - TorqueRamp
    ELSE target

TorqueIn(m) ==
    CASE m = "kOff"      -> 0
      [] m = "kVdc"      -> commandTorque
      [] m = "kLimpHome" -> Ramped(PedalTorque)
      [] m = "kStopping" -> Ramped(0)

\* Mutant: only the ramp to zero outlasts the readiness.
HoldsEngagement_StoppingOnly(m, t) == m = "kStopping" /\ t # 0

HoldsEngagement(m, t) == m = "kLimpHome" \/ (m = "kStopping" /\ t # 0)

\* Update(), then the readiness timeout, which an engagement may outlast.
SpinCart ==
    /\ \/ /\ ~cartEngaged
          /\ Reset
          /\ UNCHANGED <<cartEngaged, timedOut>>
       \/ /\ cartEngaged
          /\ mode' = NextMode
          /\ torque' = TorqueIn(mode')
          /\ timedOut' = (readinessAge > CommandTimeout /\ ~HoldsEngagement(mode', torque'))
          /\ cartEngaged' = ~timedOut'
    /\ commandAge' = Older(commandAge)
    /\ pedalAge' = Older(pedalAge)
    /\ readinessAge' = Older(readinessAge)
    /\ UNCHANGED <<commandTorque, brake, drivePedal, speed>>

WheelTurns ==
    /\ speed' \in {speed - 1, speed + 1} \cap (-MaxSpeed..MaxSpeed)
    /\ UNCHANGED <<mode, torque, inputVars, cartEngaged, timedOut>>

-----------------------------------------------------------------------------
ReceiveCart ==
    \/ \E t \in Torques : OnWheelCommand(t)
    \/ \E b, d \in BOOLEAN : OnPedalState(b, d)
    \/ OnBusLost \/ OnReadinessKept \/ OnReadinessEngaged \/ Disengaged

CartNext == ReceiveCart \/ SpinCart \/ WheelTurns

CartSpec == CartInit /\ [][CartNext]_cartVars

-----------------------------------------------------------------------------
(* Properties                                                              *)

\* The readiness timeout disengages the drive.
TimesOut == cartEngaged /\ ~cartEngaged' /\ timedOut'

\* What a step may never do: a VDC that falls silent with all its messages never costs
\* a driver with working pedals the drive (which needs the cart timeout within the
\* command timeout); a drive that loses everything at once is released at zero torque
\* only (one ramp step before it); and "a fresh wheel command takes over again only at
\* standstill" (cart_control.hpp).
ReleaseStep ==
    /\ TimesOut /\ mode # "kOff"
          => /\ commandAge >= readinessAge => ~Fresh(pedalAge)
             /\ ~Fresh(commandAge) => torque \in -TorqueRamp..TorqueRamp
    /\ mode \in {"kLimpHome", "kStopping"} /\ mode' = "kVdc" => Standstill

ReleasedSafely == [][ReleaseStep]_cartVars

\* SpinEngagement(): "in limp-home and while it ramps down, the readiness timeout
\* waits": the drive is released safely, and no cart mode holds an engagement for ever.
SilenceSurvived ==
    /\ ReleasedSafely
    /\ <>[](commandAge = Lost /\ pedalAge = Lost /\ readinessAge = Lost) => <>[]~cartEngaged

-----------------------------------------------------------------------------
(* Statements of the documentation that the code does not keep             *)

\* cart_control.hpp: "the brake torque opposes the motion and fades out below the
\* standstill speed (it never drives backward)": a Spin() of limp-home that sees the
\* wheel roll backward with the brake pressed commands no backward torque.  (Of a
\* VDC that never commanded one: the drive pedal drives forward only.)
BrakeNeverDrives ==
    [][SpinCart /\ cartEngaged /\ mode' = "kLimpHome" /\ brake /\ speed < 0
           => torque' >= 0]_cartVars
=============================================================================
