----------------------------- MODULE HallFusion -----------------------------
(***************************************************************************)
(* Fusion of the Hall codes in the observer                                *)
(* (lib/motor_control/src/hall_fusion.hpp, hall_decoder.hpp,               *)
(* SlowUpdate::FuseHall() of src/current_control/slow_update.cpp), on      *)
(* events with wrapping timestamps, through control cycles that bypass the *)
(* observer.                                                               *)
(*                                                                         *)
(* Timestamps only matter as differences: each is kept as its age modulo   *)
(* the range of the counter.  Angles are sectors and sector boundaries;    *)
(* the Kalman updates are reduced to which measurement they get.  After an *)
(* event is dropped, or left in the queue by a full run of the observer,   *)
(* a behaviour goes on with a restart: the code it then has may be old.    *)
(***************************************************************************)
EXTENDS Integers, Sequences, FiniteSets

CONSTANTS
    TimerRange,          \* values of a timestamp (2^32 ticks)
    MaxAge,         \* kMaxAgeTicks, a quarter of them
    Standstill,     \* kStandstillTime in ticks
    QueueSize,      \* capacity of the queue
    MaxHallEvents   \* kMaxHallEvents: events one run of the observer takes

ASSUME HallFusionAssumption ==
    /\ TimerRange \in Nat /\ TimerRange % 4 = 0 /\ MaxAge = TimerRange \div 4
    /\ Standstill \in 1..(MaxAge - 2)
    /\ QueueSize \in Nat \ {0} /\ MaxHallEvents \in 1..QueueSize

VARIABLES
    sector,         \* where the rotor is
    blind,          \* the sensors show an invalid code
    past,           \* history: codes at the end of the last two ticks, newest first
    still,          \* history: ticks since the code changed or the capture started
    queue,          \* HallEventQueue: events of code, age, and the boundary passed
    code, lastChange,   \* code_, age of last_change_
    valid, started, \* valid_, started_
    due,            \* ticks since the control cycle whose observer has not run, or -1
    half,           \* a control cycle ends with this sub-step
    gap,            \* history: ticks since the observer ran, up to Away
    late,           \* history: it was away that long after, or when, the code changed last
    dropped,        \* history: the queue was full, or a run left events in it
    wrong           \* history: what a run measured that was not so

captureVars == <<sector, blind, past, still, queue, dropped>>
fusionVars == <<code, lastChange, valid, started>>
hallVars == <<captureVars, fusionVars, due, half, gap, late, wrong>>

Sectors == 0..5
None == 6           \* codes 0 and 7, and no boundary
Codes == Sectors \cup {None}

\* Ticks without the observer from which the age of the last change, kept below a
\* quarter of the range, may come to half of it.
Away == MaxAge - 1

\* What a run may get wrong: the boundary of an edge, the sector at the reference, a
\* rotor held still that moved, and one not held that stood ("freed"; "freed late" after
\* the observer was away).
Measurements == {"edge", "sector", "held", "freed", "freed late"}

Shown(s, b) == IF b THEN None ELSE s
Signed(t) ==
    IF t % TimerRange < TimerRange \div 2 THEN t % TimerRange ELSE (t % TimerRange) - TimerRange

FusionInit ==
    /\ sector = 0 /\ blind = FALSE
    /\ past = <<sector, sector>> /\ still = 0
    /\ queue = <<[code |-> sector, age |-> 0, edge |-> None]>>
    /\ code = None /\ lastChange = 0 /\ valid = FALSE /\ started = FALSE
    /\ due = -1 /\ half = FALSE /\ gap = 0 /\ late = FALSE /\ dropped = FALSE /\ wrong = {}

-----------------------------------------------------------------------------
(* Capture                                                                 *)

\* OnHallEdge(): the code after the change; boundary is the one the rotor passed.
Captured(shown, boundary) ==
    /\ ~dropped /\ still' = 0 /\ late' = (gap = Away)
    /\ IF Len(queue) < QueueSize
       THEN /\ queue' = Append(queue, [code |-> shown, age |-> 0, edge |-> boundary])
            /\ UNCHANGED dropped
       ELSE dropped' = TRUE /\ UNCHANGED queue
    /\ UNCHANGED <<past, fusionVars, due, half, gap, wrong>>

\* The rotor passes into the next sector, in either direction.
Forward ==
    /\ ~blind /\ still > 0
    /\ sector' = (sector + 1) % 6 /\ Captured(sector', sector')
    /\ UNCHANGED blind

Backward ==
    /\ ~blind /\ still > 0
    /\ sector' = (sector + 5) % 6 /\ Captured(sector', sector)
    /\ UNCHANGED blind

\* Two edges in one interrupt.
MissesEdge ==
    /\ ~blind /\ still > 0
    /\ sector' = (sector + 2) % 6 /\ Captured(sector', None)
    /\ UNCHANGED blind

\* A sensor fails, the rotor turns on, the sensor returns.
Fails == ~blind /\ still > 0 /\ blind' = TRUE /\ Captured(None, None) /\ UNCHANGED sector

Returns ==
    /\ blind /\ still > 0 /\ blind' = FALSE
    /\ sector' \in {sector, (sector + 1) % 6} /\ Captured(sector', None)

\* InitHall() and HallFusion::Init() of a settings restart: the queue holds only the
\* present code.
RestartFusion ==
    /\ dropped \/ still > Standstill
    /\ queue' = <<[code |-> Shown(sector, blind), age |-> 0, edge |-> None]>>
    /\ still' = 0 /\ dropped' = FALSE
    /\ code' = None /\ lastChange' = 0 /\ valid' = FALSE /\ started' = FALSE
    /\ due' = -1 /\ half' = FALSE /\ gap' = 0 /\ late' = FALSE /\ wrong' = {}
    /\ UNCHANGED <<sector, blind, past>>

-----------------------------------------------------------------------------
(* HallFusion::Update()                                                    *)

\* The boundary between two adjacent sectors.
EdgeAngle(from, to) ==
    IF None \in {from, to} THEN None
    ELSE CASE to = (from + 1) % 6 -> to
           [] from = (to + 1) % 6 -> from
           [] OTHER -> None

\* The code of the last event that is not newer than the reference.
CodeAt(events, reference) ==
    LET before == {i \in 1..Len(events) :
                      /\ events[i].code # (IF i = 1 THEN code ELSE events[i - 1].code)
                      /\ Signed(events[i].age - reference) >= 0}
    IN IF before = {} THEN code
       ELSE events[CHOOSE i \in before : \A j \in before : j <= i].code

\* The boundaries the edges of a run are fused at, and the ones the rotor passed.
EdgesWrong(events) ==
    \E i \in 1..Len(events) :
        LET from == IF i = 1 THEN code ELSE events[i - 1].code IN
        /\ from # events[i].code
        /\ EdgeAngle(from, events[i].code) \notin {None, events[i].edge}

\* Age of the last change: of the last event with a new code, else what it was.
ChangeAge(events) ==
    LET changes == {i \in 1..Len(events) :
                       events[i].code # (IF i = 1 THEN code ELSE events[i - 1].code)}
    IN IF changes = {} THEN lastChange
       ELSE events[CHOOSE i \in changes : \A j \in changes : j <= i].age

\* Mutant: the age of the last change is not kept in range.
Clamped_Never(age, reference) == age

\* "Keep the age of the last change in range of the wrapping timestamps."
Clamped(age, reference) ==
    IF Signed(age - reference) > MaxAge THEN (reference + MaxAge) % TimerRange ELSE age

\* FuseHall() with Update(): the reference is one sub-step before the control cycle.
Observe ==
    LET count == IF Len(queue) < MaxHallEvents THEN Len(queue) ELSE MaxHallEvents
        events == SubSeq(queue, 1, count)
        reference == due + 1
        atReference == CodeAt(events, reference)
        changed == ChangeAge(events)
        change == IF atReference = None THEN changed ELSE Clamped(changed, reference)
        holds == atReference # None /\ Signed(change - reference) > Standstill
        stood == past[reference] # None /\ still - reference > Standstill
    IN
    /\ ~dropped /\ due >= 0
    /\ queue' = SubSeq(queue, count + 1, Len(queue))
    /\ code' = IF events = <<>> THEN code ELSE events[count].code
    /\ lastChange' = change
    /\ valid' = (atReference # None) /\ started' = (started \/ atReference # None)
    /\ due' = -1 /\ gap' = 0
    /\ dropped' = (dropped \/ count < Len(queue))
    /\ wrong' = IF dropped' THEN {}
                ELSE {m \in Measurements :
                         \/ m = "edge" /\ EdgesWrong(events)
                         \/ m = "sector" /\ gap < Away /\ atReference \notin {None, past[reference]}
                         \/ m = "held" /\ started /\ holds /\ ~stood
                         \/ m = "freed" /\ started /\ stood /\ ~holds /\ ~late
                         \/ m = "freed late" /\ started /\ stood /\ ~holds /\ late}
    /\ UNCHANGED <<sector, blind, past, still, half, late>>

-----------------------------------------------------------------------------
(* Time                                                                    *)

Aged(event) == [event EXCEPT !.age = (event.age + 1) % TimerRange]

\* One sub-step.
Passes ==
    /\ ~dropped
    /\ gap' = IF gap < Away THEN gap + 1 ELSE gap
    /\ late' = (late \/ gap' = Away) /\ half' = ~half
    /\ past' = <<Shown(sector, blind), past[1]>>
    /\ still' = IF still < Standstill + 3 THEN still + 1 ELSE still
    /\ queue' = [i \in 1..Len(queue) |-> Aged(queue[i])]
    /\ lastChange' = (lastChange + 1) % TimerRange
    /\ UNCHANGED <<sector, blind, code, valid, started, dropped, wrong>>

\* The observer runs within the sub-step after its control cycle, ...
SubStep == ~half /\ due < 1 /\ due' = (IF due = 0 THEN 1 ELSE -1) /\ Passes

\* ... which ends with every second sub-step.
CycleEnds == half /\ due = -1 /\ due' = 0 /\ Passes

\* A latched trip or forced duties, for as long as they last: the observer does not run.
CycleBypassed == half /\ due = -1 /\ Passes /\ UNCHANGED due

FusionNext ==
    \/ Forward \/ Backward \/ MissesEdge \/ Fails \/ Returns \/ RestartFusion
    \/ Observe \/ SubStep \/ CycleEnds \/ CycleBypassed

FusionSpec == FusionInit /\ [][FusionNext]_hallVars

-----------------------------------------------------------------------------
(* Properties                                                              *)

FusionTypeOK ==
    /\ sector \in Sectors /\ blind \in BOOLEAN /\ past \in Codes \X Codes
    /\ still \in 0..(Standstill + 3)
    /\ queue \in Seq([code : Codes, age : 0..(TimerRange - 1), edge : Codes])
    /\ Len(queue) <= QueueSize
    /\ code \in Codes /\ lastChange \in 0..(TimerRange - 1)
    /\ valid \in BOOLEAN /\ started \in BOOLEAN
    /\ due \in -1..1 /\ half \in BOOLEAN /\ gap \in 0..Away
    /\ late \in BOOLEAN /\ dropped \in BOOLEAN
    /\ wrong \subseteq Measurements

\* The fusion measures what was so, at the reference time and not at the time it
\* runs.  However long trips and forced duties bypass the observer, edges are fused at
\* the boundary the rotor passed, and a rotor that moved in the standstill time is not
\* held still.  While a run comes within a quarter of the range after the one before,
\* the sector is the one the rotor was in; and while that was so since the code last
\* changed, a rotor that stands is held, however long it stands.  Nothing was dropped
\* before, and a run left nothing in the queue.
MeasuresTruth == wrong \subseteq {"freed late"}

\* "After kStandstillTime without an edge the rotor stands [...]: the estimate is held
\* still", of the class comment (hall_fusion.hpp:57-60), also after the observer was away
\* for more than a quarter of the range, as "Keep the age of the last change in range of
\* the wrapping timestamps." (hall_fusion.hpp:163) says of the clamp.
StandstillHeld == wrong \cap {"freed", "freed late"} = {}
=============================================================================
