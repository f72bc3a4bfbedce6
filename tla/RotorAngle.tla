------------------------------ MODULE RotorAngle ------------------------------
(***************************************************************************)
(* The multi-turn angle of the position loop: fixed-point revolutions      *)
(* (lib/motor_control/src/rotor_angle.hpp), unwrapped from the angle of    *)
(* the observer and referred to the home position                          *)
(* (position_tracker.hpp, OuterLoop::Step() of                             *)
(* src/current_control/outer_loop.cpp).                                    *)
(*                                                                         *)
(* An angle is a number of counts; the 32-bit phase is a small two's       *)
(* complement number.  Rounding of the floating-point conversions is left  *)
(* out.                                                                    *)
(***************************************************************************)
EXTENDS Integers

CONSTANTS
    Counts,         \* counts per revolution (2^32)
    PolePairs,
    MaxTurns        \* bound: revolutions from the start

ASSUME RotorAngleAssumption ==
    /\ Counts \in Nat \ {0} /\ Counts % 2 = 0
    /\ PolePairs \in Nat \ {0} /\ MaxTurns \in Nat

VARIABLES
    rotor,          \* the true electrical angle, in counts
    observer,       \* the angle of the observer, in (-1/2, 1/2] revolution
    raw, revolutions,   \* raw_, revolutions_ of electrical_position_
    lastAngle,      \* last_angle_
    tracking,       \* tracking_
    rawPosition, homeOffset,    \* raw_position_rad_ and home_offset_rad_, times PolePairs
    home,           \* history: the true angle at the home position
    seen            \* history: the true angle of the last step

positionVars == <<raw, revolutions, lastAngle, tracking, rawPosition, homeOffset>>
angleVars == <<rotor, observer, positionVars, home, seen>>

Half == Counts \div 2

\* static_cast<int32_t>: two's complement of Counts values.
Wrapped(n) == ((n + Half) % Counts) - Half

\* observer::WrapAngle(), into (-1/2, 1/2].
WrapAngle(n) == -Wrapped(-n)

\* Truncation towards zero of a quotient by Counts.
Carry(n) == IF n >= 0 THEN n \div Counts ELSE -((-n) \div Counts)

\* RotorAngle::Advance(): whole revolutions, then a fraction brought below half a one.
Split(offset) ==
    LET carry == Carry(offset)
        counts == offset - carry * Counts
    IN IF counts >= Half THEN [carry |-> carry + 1, counts |-> counts - Counts]
       ELSE IF counts < -Half THEN [carry |-> carry - 1, counts |-> counts + Counts]
       ELSE [carry |-> carry, counts |-> counts]

\* Mutant: every overflow counts a revolution up.
AddRaw_Up(angle, delta) ==
    LET next == Wrapped(angle.raw + delta)
        overflows == (angle.raw < 0) # (next < 0) /\ (delta < 0) # (next < 0)
    IN [raw |-> next, revolutions |-> angle.revolutions + (IF overflows THEN 1 ELSE 0)]

\* AddRaw(): the sum wraps; an overflow is a revolution in the direction of delta.
AddRaw(angle, delta) ==
    LET next == Wrapped(angle.raw + delta)
        overflows == (angle.raw < 0) # (next < 0) /\ (delta < 0) # (next < 0)
    IN [raw |-> next,
        revolutions |-> angle.revolutions
                        + (IF ~overflows THEN 0 ELSE IF delta >= 0 THEN 1 ELSE -1)]

Advance(angle, offset) ==
    LET split == Split(offset) IN
    AddRaw([angle EXCEPT !.revolutions = @ + split.carry], split.counts)

Zero == [raw |-> 0, revolutions |-> 0]

\* AbsoluteRaw()
AbsoluteRaw(angle) == angle.revolutions * Counts + angle.raw

\* FromAbsoluteRaw(): floor division of the shifted count.
FromAbsoluteRaw(absolute) ==
    LET shifted == absolute + Half
        quotient == Carry(shifted)
        turns == IF shifted - quotient * Counts < 0 THEN quotient - 1 ELSE quotient
    IN [raw |-> absolute - turns * Counts, revolutions |-> turns]

-----------------------------------------------------------------------------

AngleInit ==
    /\ rotor \in (-Half + 1)..Half /\ observer = rotor
    /\ raw = 0 /\ revolutions = 0 /\ lastAngle = 0 /\ tracking = FALSE
    /\ rawPosition = 0 /\ homeOffset = 0
    /\ home = 0 /\ seen = 0

\* Between two steps the rotor turns by less than half a revolution.
Turn ==
    \E n \in (-Half + 1)..(Half - 1) :
        /\ rotor = seen \/ ~tracking
        /\ rotor + n \in (-MaxTurns * Counts)..(MaxTurns * Counts)
        /\ rotor' = rotor + n
        /\ observer' = WrapAngle(rotor')
        /\ UNCHANGED <<positionVars, home, seen>>

\* OuterLoop::Step(): the electrical position is unwrapped from the observer; the
\* first step after LoadParameters() starts the tracker at home.
TrackStep ==
    LET advanced == IF tracking
                    THEN Advance([raw |-> raw, revolutions |-> revolutions],
                                 WrapAngle(observer - lastAngle))
                    ELSE Advance(Zero, observer)
    IN
    /\ raw' = advanced.raw /\ revolutions' = advanced.revolutions
    /\ rawPosition' = AbsoluteRaw(advanced)
    /\ homeOffset' = IF tracking THEN homeOffset ELSE rawPosition'
    /\ home' = IF tracking THEN home ELSE rotor
    /\ tracking' = TRUE
    /\ lastAngle' = observer
    /\ seen' = rotor
    /\ UNCHANGED <<rotor, observer>>

\* PositionTracker::SetHome(), when the homing run has found the stop.
SetHome ==
    /\ tracking
    /\ homeOffset' = rawPosition
    /\ home' = seen
    /\ UNCHANGED <<rotor, observer, raw, revolutions, lastAngle, tracking, rawPosition, seen>>

\* LoadParameters() of a settings restart.
LoadParameters ==
    /\ tracking' = FALSE
    /\ UNCHANGED <<rotor, observer, raw, revolutions, lastAngle, rawPosition, homeOffset,
                   home, seen>>

AngleNext == Turn \/ TrackStep \/ SetHome \/ LoadParameters

AngleSpec == AngleInit /\ [][AngleNext]_angleVars

-----------------------------------------------------------------------------
(* Properties                                                              *)

AngleTypeOK ==
    /\ rotor \in Int /\ observer \in (-Half + 1)..Half
    /\ raw \in (-Half)..(Half - 1) /\ revolutions \in Int
    /\ lastAngle \in Int /\ tracking \in BOOLEAN
    /\ rawPosition \in Int /\ homeOffset \in Int /\ home \in Int /\ seen \in Int

\* Position times PolePairs, PositionRad().
Position == rawPosition - homeOffset

\* The position counts every revolution: through any sequence of turns, across the
\* half revolution in both directions, it is the angle the rotor has turned since the
\* home position was set, and the phase and the count are the ones of that angle.
NoTurnLost ==
    tracking =>
        /\ Position = seen - home
        /\ FromAbsoluteRaw(AbsoluteRaw([raw |-> raw, revolutions |-> revolutions]))
               = [raw |-> raw, revolutions |-> revolutions]
=============================================================================
