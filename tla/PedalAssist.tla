----------------------------- MODULE PedalAssist -----------------------------
(***************************************************************************)
(* The crank of the e-bike: the queue of stamped pulses between the pulse  *)
(* interrupt and the Cyphal thread (hardware/zephyr_bcc/ebike_io.cpp), the *)
(* pedal observer and the assist ramp (lib/ebike/src), as                  *)
(* EbikeControl::Update() steps them.                                      *)
(*                                                                         *)
(* Time is counted in periods of Update() (kStepUs).  An update may come   *)
(* late: the Cyphal thread saves settings and restarts the controller.     *)
(* Of the filter there remains whether angle and cadence are numbers, of   *)
(* the torque bins how many pulse intervals ago each was closed.           *)
(***************************************************************************)
EXTENDS Integers, Sequences

CONSTANTS
    PulsesPerRev,   \* pulses_per_rev_
    StopTimeout,    \* stop_timeout
    ZeroHold,       \* zero_hold
    MaxStep,        \* kMaxStepUs
    MaxPulses,      \* kMaxPulsesPerUpdate
    QueueSize,      \* entries of g_crank_pulses
    MaxStall,       \* bound: periods without an update
    Limits,         \* torque limits of the drive
    RiseTime,       \* rise_time
    FallTime,       \* fall_time
    TorqueFloor     \* bound: how far below zero the assist torque is followed

ASSUME PedalAssistAssumption ==
    /\ PulsesPerRev \in Nat /\ PulsesPerRev > 1
    /\ {StopTimeout, ZeroHold, MaxStep, MaxPulses, MaxStall, RiseTime, FallTime,
        TorqueFloor} \subseteq Nat \ {0}
    /\ QueueSize \in Nat /\ QueueSize > 1
    /\ Limits \subseteq Nat

VARIABLES
    crankPulses,    \* g_crank_pulses: age of every stamped pulse, oldest first
    pulsed,         \* environment: there was a pulse in this period
    rest,           \* environment: periods since the last pulse, up to ZeroHold
    pending,        \* periods since the last update
    started,        \* started_
    pedal,          \* PedalObserver
    assistTorque    \* torque_ of the AssistController

pedalVars == <<crankPulses, pulsed, rest, pending, started, pedal,
               assistTorque>>

Smaller(a, b) == IF a < b THEN a ELSE b
Larger(a, b) == IF a > b THEN a ELSE b

\* Bins of half a revolution.
MeanWindow == Larger(PulsesPerRev \div 2, 1)

\* A bin closed longer than a revolution ago, or before the crank last stood still.
Stale == PulsesPerRev

\* Mutant: a crank that stopped keeps its completed bins.
ResetCrank_KeepsBins(p, still) ==
    [p EXCEPT !.pedaling = FALSE, !.seen = 0, !.omega = "zero", !.since = 0,
              !.still = still, !.index = 0,
              !.bins = [k \in DOMAIN p.bins |-> Stale]]

\* ResetCrank() as Predict() calls it; bins_ itself keeps its values, all of them
\* of a crank that has stopped.
ResetCrank(p, still) ==
    [p EXCEPT !.pedaling = FALSE, !.seen = 0, !.omega = "zero", !.since = 0,
              !.still = still, !.index = 0, !.completed = 0,
              !.bins = [k \in DOMAIN p.bins |-> Stale]]

NewObserver ==
    [seen |-> 0, since |-> 0, still |-> 0, pedaling |-> FALSE, omega |-> "zero",
     angle |-> "finite", index |-> 0, completed |-> 0,
     bins |-> [k \in 0..(PulsesPerRev - 1) |-> Stale]]

PedalInit ==
    /\ crankPulses = <<>> /\ pulsed = FALSE /\ rest = 0
    /\ pending = 0 /\ started = FALSE
    /\ pedal = NewObserver /\ assistTorque = 0

-----------------------------------------------------------------------------
(* The observer                                                            *)

\* omega * dt in IEEE arithmetic: infinity times zero is not a number.
Turned(omega, dt) ==
    CASE omega = "nan" -> "nan"
      [] omega \in {"inf", "neginf"} -> IF dt = 0 THEN "nan" ELSE "inf"
      [] OTHER -> "finite"

\* A sum of two: not a number as soon as one of them is not; two infinities meet
\* only with opposite signs here.
Added(a, b) ==
    IF "nan" \in {a, b} \/ (a # "finite" /\ b # "finite") THEN "nan"
    ELSE IF a = "finite" THEN b ELSE a

\* Mutant: a crank that stopped is not recognised once it turned.
Predict_NoTimeout(p, dt) ==
    LET since == Smaller(p.since + dt, StopTimeout)
    IN  IF p.seen = 0 THEN [p EXCEPT !.still = Smaller(p.still + dt, ZeroHold)]
        ELSE [p EXCEPT !.since = since,
                       !.angle = Added(p.angle, Turned(p.omega, dt)),
                       !.omega = IF @ = "inf" /\ since > 0 THEN "finite" ELSE @]

\* The angle goes on, an overdue pulse limits the cadence (also an infinite one,
\* once time has passed), no pulse for stop_timeout resets the crank.  still_time_
\* is followed up to ZeroHold.
Predict(p, dt) ==
    LET since == p.since + dt
    IN  IF p.seen = 0 THEN [p EXCEPT !.still = Smaller(p.still + dt, ZeroHold)]
        ELSE IF since > StopTimeout THEN ResetCrank(p, Smaller(since, ZeroHold))
        ELSE [p EXCEPT !.since = since,
                       !.angle = Added(p.angle, Turned(p.omega, dt)),
                       !.omega = IF @ = "inf" /\ since > 0 THEN "finite" ELSE @]

\* Closes the bin of the interval that ended; every other bin is one interval older.
FinishBin(p) ==
    LET closed == (p.index + PulsesPerRev - 1) % PulsesPerRev
    IN  [p EXCEPT !.bins = [k \in DOMAIN @ |->
                                IF k = closed THEN 0 ELSE Smaller(@[k] + 1, Stale)],
                  !.completed = Smaller(@ + 1, MeanWindow)]

\* FuseAngle(): the innovation is as much a number as the angle is; an infinite one
\* takes the cadence to the other infinity.
FuseAngle(p) ==
    [p EXCEPT !.angle = IF @ = "finite" THEN "finite" ELSE "nan",
              !.omega = IF "nan" \in {p.angle, @} THEN "nan"
                        ELSE IF p.angle = "inf" THEN "neginf" ELSE @]

\* The first pulse is the origin of the angle, the second one measures the cadence
\* (angle over time: infinite without any), the later ones are fused.
OnPulse(p) ==
    LET counted == [p EXCEPT !.index = (@ + 1) % PulsesPerRev]
        first == [p EXCEPT !.index = 0, !.angle = "finite", !.pedaling = FALSE]
        second == FinishBin([counted EXCEPT !.pedaling = TRUE, !.angle = "finite",
                                !.omega = IF p.since = 0 THEN "inf" ELSE "finite"])
        later == FinishBin([FuseAngle(counted) EXCEPT !.pedaling = TRUE])
        fused == CASE p.seen = 0 -> first [] p.seen = 1 -> second [] OTHER -> later
    IN  [fused EXCEPT !.still = 0, !.since = 0, !.seen = Smaller(@ + 1, 2)]

\* A pulse of the step, taken at its edge, which is clamped into what is left of it.
PulseStep(acc, dt, age) ==
    LET edge == Smaller(Larger(dt - age, acc.elapsed), dt)
    IN  [elapsed |-> edge, p |-> OnPulse(Predict(acc.p, edge - acc.elapsed))]

\* The observer after each of the pulses, and how much of the step has elapsed.
PulsesTaken(p, dt, ages) ==
    LET taken[n \in 0..Len(ages)] ==
            IF n = 0 THEN [elapsed |-> 0, p |-> p] ELSE PulseStep(taken[n - 1], dt, ages[n])
    IN  taken

\* Step() up to the torque.
StepPedal(p, dt, ages) ==
    LET last == PulsesTaken(p, dt, ages)[Len(ages)]
    IN  Predict(last.p, dt - last.elapsed)

\* Whether TrimZero() may move the offset.
TrimsZero(p) == ~p.pedaling /\ p.still >= ZeroHold

-----------------------------------------------------------------------------
(* The assist ramp                                                         *)

\* The target that is not a number; the others are zero or more.
NotANumber == -1

\* What Target() may answer: nothing without pedals, level, cadence or limit, not a
\* number for a cadence that is none (std::min and std::exp hand it on), otherwise
\* any torque up to the limit.
Targets(p, level, limit) ==
    IF ~p.pedaling \/ ~level \/ p.omega = "neginf" \/ limit = 0 THEN {0}
    ELSE IF p.omega = "nan" THEN {NotANumber, 0}
    ELSE 0..limit

\* Step(): nothing is greater than a target that is not a number, and std::max(a, b)
\* with such a b is a.
Ramp(torque, target, limit, dt) ==
    LET up == (limit * dt) \div RiseTime
        down == (Larger(limit, torque) * dt) \div FallTime
    IN  IF target = NotANumber THEN Larger(torque - down, -TorqueFloor)
        ELSE IF target > torque THEN Smaller(torque + up, target)
        ELSE Larger(torque - down, target)

-----------------------------------------------------------------------------
(* The pulse interrupt and the Cyphal thread                               *)

\* A stamp taken after the reader's is ahead of it: the unsigned age is huge.
WrappedAge == MaxStall + 1

Pulse ==
    /\ ~pulsed /\ pending < MaxStall
    /\ pulsed' = TRUE /\ rest' = 0
    /\ crankPulses' = IF Len(crankPulses) = QueueSize - 1 THEN crankPulses
                      ELSE Append(crankPulses, 0)
    /\ UNCHANGED <<pending, started, pedal, assistTorque>>

Tick ==
    /\ pending < MaxStall
    /\ pending' = pending + 1
    /\ pulsed' = FALSE
    /\ rest' = Smaller(rest + 1, ZeroHold)
    /\ crankPulses' = [i \in DOMAIN crankPulses |-> crankPulses[i] + 1]
    /\ UNCHANGED <<started, pedal, assistTorque>>

\* Update() with the pulses of ReadCadencePulses(); a pulse may still come after
\* the reader took its time stamp and before the queue is empty.
Update(late, level, limit) ==
    /\ pending > 0 /\ ~pulsed
    /\ LET drained == IF late THEN Append(crankPulses, WrappedAge) ELSE crankPulses
           ages == SubSeq(drained, 1, Smaller(Len(drained), MaxPulses))
           dt == IF started THEN Smaller(pending, MaxStep) ELSE 1
       IN  /\ pedal' = StepPedal(pedal, dt, ages)
           /\ \E target \in Targets(pedal', level, limit) :
                assistTorque' = Ramp(assistTorque, target, limit, dt)
    /\ crankPulses' = <<>> /\ pending' = 0 /\ started' = TRUE
    /\ pulsed' = late
    /\ rest' = IF late THEN 0 ELSE rest

\* Configure(): a new observer and a new ramp; the queue is the platform's.
ConfigurePedal ==
    /\ pedal' = NewObserver /\ assistTorque' = 0
    /\ UNCHANGED <<crankPulses, pulsed, rest, pending, started>>

UpdateAny == \E late, level \in BOOLEAN, limit \in Limits : Update(late, level, limit)

PedalNext == Pulse \/ Tick \/ UpdateAny \/ ConfigurePedal

\* Time passes and the Cyphal thread goes on: only UpdateAny ends a pending update,
\* and it can as soon as one is pending.
PedalFairness ==
    /\ WF_pedalVars(Tick)
    /\ WF_pending(pending > 0 /\ ~pulsed /\ pending' = 0)

PedalSpec == PedalInit /\ [][PedalNext]_pedalVars /\ PedalFairness

-----------------------------------------------------------------------------
(* Properties                                                              *)

\* "the mean torque is the mean of the bins of the last half revolution ... Until a
\* half revolution is complete the mean uses the bins available": the bins summed
\* up are the last completed_bins_ intervals, each once, none of an earlier ride.
MeanOfHalfTurn ==
    LET closed == (pedal.index + PulsesPerRev - 1) % PulsesPerRev
    IN  /\ pedal.completed <= MeanWindow
        /\ \A i \in 0..(pedal.completed - 1) :
            pedal.bins[(closed + PulsesPerRev - i) % PulsesPerRev] = i

\* "The crank must stand still this long before the offset follows the reading",
\* whatever the updates and the pulses are delayed by (a pulse that comes while the
\* queue is read counts as one of the beginning of the step).
TrimmedAtRest ==
    [][pending > 0 /\ pending' = 0 /\ TrimsZero(pedal') => rest + MaxStep >= ZeroHold]_pedalVars

\* Neither does a crank that moves retrain the offset, nor does one that stands still
\* go on assisting, whatever is left in the queue.
StandstillSeen ==
    /\ TrimmedAtRest
    /\ <>[](rest = ZeroHold) => <>[](~pedal.pedaling /\ assistTorque <= 0)

-----------------------------------------------------------------------------
(* A statement of the documentation that the code does not keep            *)

\* assist_controller.hpp, Step(): "Motor torque setpoint, zero or more in the driving
\* direction".
AssistNeverNegative == assistTorque >= 0
=============================================================================
