------------------------- MODULE CycleHardwareProofs -------------------------
(***************************************************************************)
(* Proofs about what surrounds the control cycle: the timing statistics,   *)
(* the multi-turn angle, the queue of the Hall events and their fusion in  *)
(* the observer, the simulated platform, the duty pipeline of the STM32G4, *)
(* the controllers of the outer loop and the serial line of the display.   *)
(***************************************************************************)
EXTENDS TimingProbe, RotorAngle, HallQueue, HallFusion, SimCycle, DutyPipeline,
        SpeedLoop, EdgeUart, WellFoundedInduction, TLAPS

-----------------------------------------------------------------------------
(* Arithmetic                                                              *)

LEMMA OneMore == \A n, x \in Nat : (n + 1) * x = n * x + x
  OBVIOUS

LEMMA Distribute == \A v, k, c \in Int : (v + k) * c = v * c + k * c
  OBVIOUS

LEMMA Negate == \A v, c \in Int : (-v) * c = -(v * c)
  OBVIOUS

LEMMA Commute == \A v, c \in Int : v * c = c * v
  OBVIOUS

LEMMA DivMod ==
    ASSUME NEW a \in Int, NEW c \in Nat \ {0}
    PROVE  /\ a \div c \in Int /\ a % c \in 0..(c - 1)
           /\ a = (a \div c) * c + (a % c)
<1>1. a \div c \in Int /\ a % c \in 0..(c - 1)
  BY SMT
<1>2. a = c * (a \div c) + (a % c)
  BY SMT
<1>3. c * (a \div c) = (a \div c) * c
  BY <1>1, Commute
<1> QED
  BY <1>1, <1>2, <1>3

LEMMA DivUnique ==
    ASSUME NEW q \in Int, NEW c \in Nat \ {0}, NEW r \in 0..(c - 1)
    PROVE  (q * c + r) \div c = q
  BY SMT

LEMMA ModNear ==
    ASSUME NEW m \in Nat \ {0}, NEW x \in Int, -m <= x, x < 2 * m
    PROVE  x % m = IF x < 0 THEN x + m ELSE IF x < m THEN x ELSE x - m
<1>1. CASE x < 0
  <2>1. x + m \in 0..(m - 1) /\ (x + m) % m = x + m
    BY <1>1
  <2>2. x % m = (x + m) % m
    OBVIOUS
  <2> QED
    BY <1>1, <2>1, <2>2
<1>2. CASE x \in 0..(m - 1)
  BY <1>2
<1>3. CASE x >= m
  <2>1. x - m \in 0..(m - 1) /\ (x - m) % m = x - m
    BY <1>3
  <2>2. x % m = (x - m) % m
    OBVIOUS
  <2> QED
    BY <1>3, <2>1, <2>2
<1> QED
  BY <1>1, <1>2, <1>3

-----------------------------------------------------------------------------
(* TimingProbe                                                             *)

StatsSet == [min : Nat, max : Nat, sum : Nat, count : Nat]

\* The statistics of n records: the sum lies between n times the least and n times the
\* greatest time, and the count is n until it wraps.
StatsOf(stats, n) ==
    /\ stats \in StatsSet /\ n \in Nat
    /\ n < CountModulus => /\ stats.count = n
                           /\ n * stats.min <= stats.sum
                           /\ stats.sum <= n * stats.max

\* What the reader has copied is what is published, as long as the sequence stands.
CopyInv ==
    /\ copy \in StatsSet /\ sequence \in Nat
    /\ reader \in {"idle", "bounds", "totals", "check", "done"}
    /\ reader \in {"totals", "check"} /\ sequence = 0 =>
           copied = truth /\ copy.min = published.min /\ copy.max = published.max
    /\ reader = "check" /\ sequence = 0 =>
           copy.sum = published.sum /\ copy.count = published.count
    /\ reader = "done" => StatsOf(copy, copied)

ProbeInv == StatsOf(accumulator, records) /\ StatsOf(published, truth) /\ CopyInv

LEMMA AddedStats ==
    ASSUME NEW stats, NEW n, StatsOf(stats, n), NEW cycles \in Times
    PROVE  StatsOf(Added(stats, cycles), n + 1)
<1> DEFINE a == Added(stats, cycles)
<1>1. cycles \in Nat /\ CountModulus \in Nat \ {0, 1}
  BY TimingProbeAssumption
<1>2. a \in StatsSet /\ n + 1 \in Nat
  BY <1>1 DEF StatsOf, StatsSet, Added
<1>3. ASSUME n + 1 < CountModulus PROVE a.count = n + 1
  BY <1>1, <1>3 DEF StatsOf, StatsSet, Added
<1>4. ASSUME n + 1 < CountModulus PROVE (n + 1) * a.min <= a.sum
  <2>1. /\ n \in Nat /\ stats.min \in Nat /\ a.min \in Nat /\ a.min <= stats.min
        /\ a.min <= cycles /\ a.sum = stats.sum + cycles /\ stats.sum \in Nat
        /\ n * stats.min <= stats.sum
    BY <1>1, <1>4 DEF StatsOf, StatsSet, Added
  <2>2. n * a.min <= n * stats.min
    BY <2>1
  <2>3. (n + 1) * a.min = n * a.min + a.min
    BY <2>1, OneMore
  <2> QED
    BY <1>1, <2>1, <2>2, <2>3
<1>5. ASSUME n + 1 < CountModulus PROVE a.sum <= (n + 1) * a.max
  <2>1. /\ n \in Nat /\ stats.max \in Nat /\ a.max \in Nat /\ stats.max <= a.max
        /\ cycles <= a.max /\ a.sum = stats.sum + cycles /\ stats.sum \in Nat
        /\ stats.sum <= n * stats.max
    BY <1>1, <1>5 DEF StatsOf, StatsSet, Added
  <2>2. n * stats.max <= n * a.max
    BY <2>1
  <2>3. (n + 1) * a.max = n * a.max + a.max
    BY <2>1, OneMore
  <2> QED
    BY <1>1, <2>1, <2>2, <2>3
<1> QED
  BY <1>2, <1>3, <1>4, <1>5 DEF StatsOf

\* The rounded mean of n records lies between their bounds.
LEMMA MeanInRange ==
    ASSUME NEW stats, NEW n, StatsOf(stats, n), n < CountModulus
    PROVE  stats.count = n /\ InRange(stats)
<1>1. /\ n \in Nat /\ stats.count = n /\ stats.min \in Nat /\ stats.max \in Nat
      /\ stats.sum \in Nat /\ n * stats.min <= stats.sum /\ stats.sum <= n * stats.max
  BY DEF StatsOf, StatsSet
<1>2. ASSUME n # 0
      PROVE  stats.min <= stats.sum \div n /\ stats.sum \div n <= stats.max
  <2> DEFINE q == stats.sum \div n
  <2>1. q \in Int /\ n * q <= stats.sum /\ stats.sum < n * q + n
    BY <1>1, <1>2
  <2>2. n * stats.min < n * (q + 1) /\ n * q <= n * stats.max
    BY <1>1, <2>1
  <2>3. stats.min < q + 1
    BY <1>1, <1>2, <2>1, <2>2
  <2>4. q <= stats.max
    BY <1>1, <1>2, <2>1, <2>2
  <2> QED
    BY <1>1, <2>1, <2>3, <2>4
<1> QED
  BY <1>1, <1>2 DEF InRange, Mean

LEMMA NoStatsOfNone == StatsOf(NoStats, 0)
  BY DEF StatsOf, StatsSet, NoStats, Ceiling

LEMMA ProbeStep ==
    ASSUME ProbeInv, [ProbeNext]_probeVars
    PROVE  ProbeInv'
<1> USE DEF ProbeInv, CopyInv, Reads
<1>1. ASSUME NEW cycles \in Times, Record(cycles) PROVE ProbeInv'
  <2> DEFINE old == IF resetRequested THEN NoStats ELSE accumulator
             n == IF resetRequested THEN 0 ELSE records
  <2>1. StatsOf(old, n)
    BY NoStatsOfNone
  <2>2. StatsOf(Added(old, cycles), n + 1)
    BY <2>1, AddedStats
  <2>3. /\ accumulator' = Added(old, cycles) /\ published' = Added(old, cycles)
        /\ records' = n + 1 /\ truth' = n + 1
    BY <1>1 DEF Record
  <2>4. StatsOf(accumulator, records)' /\ StatsOf(published, truth)'
    BY <2>2, <2>3 DEF StatsOf
  <2>5. CopyInv'
    BY <1>1 DEF Record, StatsOf
  <2> QED
    BY <2>4, <2>5
<1>2. CASE Reset
  BY <1>2 DEF Reset, StatsOf
<1>3. CASE ReadSequence
  BY <1>3 DEF ReadSequence, StatsOf
<1>4. CASE CopyBounds
  BY <1>4 DEF CopyBounds, StatsOf, StatsSet
<1>5. CASE CopyTotals
  BY <1>5 DEF CopyTotals, StatsOf, StatsSet
<1>6. CASE Check
  BY <1>6 DEF Check, StatsOf, StatsSet
<1>7. CASE Answered
  BY <1>7, NoStatsOfNone DEF Answered, StatsOf
<1>8. CASE UNCHANGED probeVars
  BY <1>8 DEF probeVars, StatsOf
<1> QED
  BY <1>1, <1>2, <1>3, <1>4, <1>5, <1>6, <1>7, <1>8 DEF ProbeNext

\* The timing registers show a consistent copy of the records since the last reset
\* (StatisticsTrue), for any execution times and any width of the count, however often
\* the interrupt preempts the read.
THEOREM StatisticsCorrect == ProbeSpec => []StatisticsTrue
<1>1. ProbeInit => ProbeInv
  BY NoStatsOfNone DEF ProbeInit, ProbeInv, CopyInv, StatsOf
<1>2. ProbeInv => StatisticsTrue
  BY MeanInRange DEF ProbeInv, CopyInv, StatisticsTrue, StatsOf
<1> QED
  BY <1>1, <1>2, ProbeStep, PTL DEF ProbeSpec

-----------------------------------------------------------------------------
(* RotorAngle                                                              *)

Phase == (-Half)..(Half - 1)

LEMMA Halves == Counts \in Nat \ {0} /\ Half \in Nat \ {0} /\ Counts = 2 * Half
  BY RotorAngleAssumption DEF Half

\* Within one revolution of its range, the wrap takes off the revolution at most.
LEMMA WrapNear ==
    ASSUME NEW n \in Int, -Counts - Half <= n, n < Counts + Half
    PROVE  Wrapped(n) = IF n < -Half THEN n + Counts
                        ELSE IF n >= Half THEN n - Counts ELSE n
<1> DEFINE x == n + Half
<1>1. CASE x < 0
  <2>1. x + Counts \in 0..(Counts - 1) /\ (x + Counts) % Counts = x + Counts
    BY <1>1, Halves
  <2>2. x % Counts = (x + Counts) % Counts
    BY Halves
  <2> QED
    BY <1>1, <2>1, <2>2, Halves DEF Wrapped
<1>2. CASE x \in 0..(Counts - 1)
  <2>1. x % Counts = x
    BY <1>2, Halves
  <2> QED
    BY <1>2, <2>1, Halves DEF Wrapped
<1>3. CASE x >= Counts
  <2>1. x - Counts \in 0..(Counts - 1) /\ (x - Counts) % Counts = x - Counts
    BY <1>3, Halves
  <2>2. x % Counts = (x - Counts) % Counts
    BY Halves
  <2> QED
    BY <1>3, <2>1, <2>2, Halves DEF Wrapped
<1> QED
  BY <1>1, <1>2, <1>3, Halves

\* The wrap takes off whole revolutions.
LEMMA WrapWhole ==
    ASSUME NEW n \in Int
    PROVE  Wrapped(n) \in Phase /\ \E k \in Int : n = Wrapped(n) + k * Counts
<1> DEFINE x == n + Half
           rest == x % Counts
           turns == x \div Counts
           whole == turns * Counts
<1>1. x \in Int /\ x = n + Half /\ Wrapped(n) = rest - Half
  BY Halves DEF Wrapped
<1> HIDE DEF x
<1>2. rest \in 0..(Counts - 1) /\ turns \in Int /\ x = whole + rest
  BY <1>1, DivMod, Halves
<1>3. whole \in Int
  BY <1>2, Halves
<1> HIDE DEF rest, whole
<1>4. n = Wrapped(n) + whole /\ Wrapped(n) \in Phase
  BY <1>1, <1>2, <1>3, Halves DEF Phase
<1> QED
  BY <1>2, <1>4 DEF whole

LEMMA WrapAngleWhole ==
    ASSUME NEW n \in Int
    PROVE  /\ WrapAngle(n) \in (-Half + 1)..Half
           /\ \E k \in Int : n = WrapAngle(n) + k * Counts
<1>1. PICK k \in Int : -n = Wrapped(-n) + k * Counts
  BY WrapWhole
<1>2. Wrapped(-n) \in Phase
  BY WrapWhole
<1>3. n = WrapAngle(n) + (-k) * Counts
  BY <1>1, <1>2, Halves DEF WrapAngle, Phase
<1>4. WrapAngle(n) \in (-Half + 1)..Half
  BY <1>2, Halves DEF WrapAngle, Phase
<1> QED
  BY <1>3, <1>4

\* A difference of two wrapped angles that is a true difference below half a
\* revolution and whole revolutions gives the true one.
LEMMA WrapDifference ==
    ASSUME NEW d \in (-Half + 1)..(Half - 1), NEW m \in Int,
           NEW a \in (-Half + 1)..Half, NEW b \in (-Half + 1)..Half,
           a - b = d + m * Counts
    PROVE  WrapAngle(a - b) = d
<1>1. m \in {-1, 0, 1}
  <2>1. m * Counts < 2 * Counts /\ m * Counts > -2 * Counts
    BY Halves
  <2> QED
    BY <2>1, Halves
<1>2. WrapAngle(a - b) = -Wrapped(-(d + m * Counts))
  BY DEF WrapAngle
<1>3. CASE m = 0
  BY <1>2, <1>3, WrapNear, Halves
<1>4. CASE m = 1
  BY <1>2, <1>4, WrapNear, Halves
<1>5. CASE m = -1
  BY <1>2, <1>5, WrapNear, Halves
<1> QED
  BY <1>1, <1>3, <1>4, <1>5

Angles == [raw : Phase, revolutions : Int]

\* AddRaw() adds exactly, whichever way the phase overflows.
LEMMA AddRawExact ==
    ASSUME NEW angle \in Angles, NEW delta \in Phase
    PROVE  /\ AddRaw(angle, delta) \in Angles
           /\ AbsoluteRaw(AddRaw(angle, delta)) = AbsoluteRaw(angle) + delta
<1> DEFINE sum == angle.raw + delta
           carry == IF sum < -Half THEN -1 ELSE IF sum >= Half THEN 1 ELSE 0
<1>1. sum \in Int /\ -Counts <= sum /\ sum < Counts /\ angle.revolutions \in Int
  BY Halves DEF Angles, Phase
<1>2. Wrapped(sum) = sum - carry * Counts
  BY <1>1, WrapNear, Halves
<1>3. Wrapped(sum) \in Phase
  BY <1>1, <1>2, Halves DEF Phase
<1>4. AddRaw(angle, delta) = [raw |-> Wrapped(sum), revolutions |-> angle.revolutions + carry]
  BY <1>1, <1>2, Halves DEF AddRaw, Angles, Phase
<1>5. carry \in Int
  OBVIOUS
<1> HIDE DEF carry
<1>6. (angle.revolutions + carry) * Counts = angle.revolutions * Counts + carry * Counts
  BY <1>1, <1>5, Distribute, Halves
<1>7. AddRaw(angle, delta) \in Angles
  BY <1>1, <1>3, <1>4, <1>5 DEF Angles
<1>8. angle.revolutions * Counts \in Int /\ carry * Counts \in Int
  BY <1>1, <1>5, Halves
<1>9. AbsoluteRaw(AddRaw(angle, delta)) = (angle.revolutions + carry) * Counts + Wrapped(sum)
  BY <1>4 DEF AbsoluteRaw
<1>10. angle.raw \in Int /\ delta \in Int
  BY Halves DEF Angles, Phase
<1> QED
  BY <1>2, <1>6, <1>7, <1>8, <1>9, <1>10 DEF AbsoluteRaw

\* Advance() adds any offset exactly.
LEMMA CarryRest ==
    ASSUME NEW n \in Int
    PROVE  Carry(n) \in Int /\ n - Carry(n) * Counts \in (-Counts + 1)..(Counts - 1)
<1>1. CASE n >= 0
  <2>1. n \div Counts \in Int /\ n = (n \div Counts) * Counts + (n % Counts)
        /\ n % Counts \in 0..(Counts - 1)
    BY DivMod, Halves
  <2>2. (n \div Counts) * Counts \in Int /\ Carry(n) = n \div Counts
    BY <1>1, <2>1, Halves DEF Carry
  <2> QED
    BY <2>1, <2>2, Halves
<1>2. CASE n < 0
  <2> DEFINE x == -n
             q == x \div Counts
  <2>1. x \in Int /\ n = -x /\ Carry(n) = -q
    BY <1>2 DEF Carry
  <2> HIDE DEF x
  <2>2. q \in Int /\ x = q * Counts + (x % Counts) /\ x % Counts \in 0..(Counts - 1)
    BY <2>1, DivMod, Halves
  <2> HIDE DEF q
  <2>3. (-q) * Counts = -(q * Counts) /\ q * Counts \in Int
    BY <2>2, Negate, Halves
  <2> QED
    BY <2>1, <2>2, <2>3, Halves
<1> QED
  BY <1>1, <1>2

LEMMA SplitExact ==
    ASSUME NEW offset \in Int
    PROVE  /\ Split(offset).carry \in Int /\ Split(offset).counts \in Phase
           /\ offset = Split(offset).carry * Counts + Split(offset).counts
<1> DEFINE c == Carry(offset)
           rest == offset - c * Counts
<1>1. c \in Int /\ rest \in (-Counts + 1)..(Counts - 1) /\ c * Counts \in Int
  BY CarryRest, Halves
<1>2. (c + 1) * Counts = c * Counts + Counts /\ (c - 1) * Counts = c * Counts - Counts
  BY <1>1, Halves
<1>3. CASE rest >= Half
  <2>1. Split(offset) = [carry |-> c + 1, counts |-> rest - Counts]
    BY <1>3 DEF Split
  <2> QED
    BY <1>1, <1>2, <1>3, <2>1, Halves DEF Phase
<1>4. CASE rest < -Half
  <2>1. Split(offset) = [carry |-> c - 1, counts |-> rest + Counts]
    BY <1>1, <1>4, Halves DEF Split
  <2> QED
    BY <1>1, <1>2, <1>4, <2>1, Halves DEF Phase
<1>5. CASE rest \in Phase
  <2>1. Split(offset) = [carry |-> c, counts |-> rest]
    BY <1>1, <1>5, Halves DEF Split, Phase
  <2> QED
    BY <1>1, <1>5, <2>1
<1> QED
  BY <1>1, <1>3, <1>4, <1>5, Halves DEF Phase

LEMMA AdvanceExact ==
    ASSUME NEW angle \in Angles, NEW offset \in Int
    PROVE  /\ Advance(angle, offset) \in Angles
           /\ AbsoluteRaw(Advance(angle, offset)) = AbsoluteRaw(angle) + offset
<1> DEFINE split == Split(offset)
           moved == [angle EXCEPT !.revolutions = @ + split.carry]
<1>1. split.carry \in Int /\ split.counts \in Phase /\ offset = split.carry * Counts + split.counts
  BY SplitExact
<1>2. moved \in Angles /\ moved.raw = angle.raw
      /\ moved.revolutions = angle.revolutions + split.carry
  BY <1>1 DEF Angles
<1>3. (angle.revolutions + split.carry) * Counts
          = angle.revolutions * Counts + split.carry * Counts
  BY <1>1, Halves DEF Angles
<1>4. AbsoluteRaw(moved) = AbsoluteRaw(angle) + split.carry * Counts
  BY <1>1, <1>2, <1>3, Halves DEF AbsoluteRaw, Angles, Phase
<1>5. Advance(angle, offset) = AddRaw(moved, split.counts)
  BY DEF Advance
<1>6. AbsoluteRaw(angle) \in Int /\ split.carry * Counts \in Int /\ split.counts \in Int
  BY <1>1, Halves DEF AbsoluteRaw, Angles, Phase
<1> QED
  BY <1>1, <1>2, <1>4, <1>5, <1>6, AddRawExact

\* FromAbsoluteRaw() takes the absolute count apart as it was put together.
LEMMA RoundTrip ==
    ASSUME NEW angle \in Angles
    PROVE  FromAbsoluteRaw(AbsoluteRaw(angle)) = angle
<1> DEFINE v == angle.revolutions
           r == angle.raw + Half
           x == AbsoluteRaw(angle) + Half
<1>1. v \in Int /\ r \in 0..(Counts - 1) /\ x = v * Counts + r /\ v * Counts \in Int
  BY Halves DEF AbsoluteRaw, Angles, Phase
<1>2. CASE x >= 0
  <2>1. x \div Counts = v
    BY <1>1, DivUnique, Halves
  <2> QED
    BY <1>1, <1>2, <2>1, Halves DEF FromAbsoluteRaw, Carry, AbsoluteRaw, Angles, Phase
<1>3. CASE x < 0 /\ r = 0
  <2>1. (-x) \div Counts = -v
    BY <1>1, <1>3, Halves
  <2>2. Carry(x) = v
    BY <1>1, <1>3, <2>1 DEF Carry
  <2> QED
    BY <1>1, <1>3, <2>2, Halves DEF FromAbsoluteRaw, AbsoluteRaw, Angles, Phase
<1>4. CASE x < 0 /\ r # 0
  <2>1. (-x) \div Counts = -v - 1
    <3>1. -x = (-v - 1) * Counts + (Counts - r)
      BY <1>1, Halves
    <3> QED
      BY <1>1, <1>4, <3>1, Halves
  <2>2. Carry(x) = v + 1
    BY <1>1, <1>4, <2>1 DEF Carry
  <2>3. x - (v + 1) * Counts = r - Counts
    BY <1>1, Halves
  <2> QED
    BY <1>1, <1>4, <2>2, <2>3, Halves DEF FromAbsoluteRaw, AbsoluteRaw, Angles, Phase
<1> QED
  BY <1>1, <1>2, <1>3, <1>4

\* The observer's angle and the last one seen are the true angles up to whole
\* revolutions; while the tracker runs, the position is the absolute count of the phase
\* and lacks nothing of the way from home, and the rotor is less than half a revolution
\* ahead.
AngleInv ==
    /\ rotor \in Int /\ observer \in (-Half + 1)..Half
    /\ \E k \in Int : rotor = observer + k * Counts
    /\ tracking =>
         /\ raw \in Phase /\ revolutions \in Int
         /\ rawPosition = AbsoluteRaw([raw |-> raw, revolutions |-> revolutions])
         /\ homeOffset \in Int /\ home \in Int /\ seen \in Int
         /\ Position = seen - home
         /\ lastAngle \in (-Half + 1)..Half
         /\ \E k \in Int : seen = lastAngle + k * Counts
         /\ rotor - seen \in (-Half + 1)..(Half - 1)

LEMMA AngleStep ==
    ASSUME AngleInv, [AngleNext]_angleVars
    PROVE  AngleInv'
<1>1. CASE Turn
  <2>1. PICK n \in (-Half + 1)..(Half - 1) :
           /\ rotor = seen \/ ~tracking
           /\ rotor' = rotor + n
           /\ observer' = WrapAngle(rotor')
           /\ UNCHANGED <<positionVars, home, seen>>
    BY <1>1 DEF Turn
  <2>2. rotor \in Int /\ n \in Int /\ rotor' \in Int
    BY <2>1, Halves DEF AngleInv
  <2>3. observer' \in (-Half + 1)..Half /\ \E k \in Int : rotor' = observer' + k * Counts
    BY <2>1, <2>2, WrapAngleWhole
  <2>4. tracking => rotor' - seen \in (-Half + 1)..(Half - 1)
    BY <2>1, <2>2, Halves
  <2>5. UNCHANGED <<Position, Half>>
    BY <2>1 DEF positionVars, Position
  <2> QED
    BY <2>1, <2>2, <2>3, <2>4, <2>5 DEF AngleInv, positionVars
<1>2. CASE TrackStep /\ tracking
  <2> DEFINE angle == [raw |-> raw, revolutions |-> revolutions]
             way == WrapAngle(observer - lastAngle)
             advanced == Advance(angle, way)
  <2>1. PICK k \in Int : rotor = observer + k * Counts
    BY DEF AngleInv
  <2>2. PICK j \in Int : seen = lastAngle + j * Counts
    BY <1>2 DEF AngleInv
  <2>3. way = rotor - seen
    <3>1. /\ observer \in Int /\ lastAngle \in Int /\ rotor \in Int /\ seen \in Int
          /\ k * Counts \in Int /\ j * Counts \in Int
      BY <1>2, <2>1, <2>2, Halves DEF AngleInv
    <3>2. (j + (-k)) * Counts = j * Counts - k * Counts
      BY <2>1, <2>2, Halves
    <3>3. observer - lastAngle = (rotor - seen) + (j + (-k)) * Counts
      BY <2>1, <2>2, <3>1, <3>2
    <3>4. j + (-k) \in Int
      OBVIOUS
    <3> QED
      BY <1>2, <3>3, <3>4, WrapDifference DEF AngleInv
  <2>4. angle \in Angles /\ way \in Int
    BY <1>2, <2>3, Halves DEF AngleInv, Angles
  <2>5. advanced \in Angles /\ AbsoluteRaw(advanced) = AbsoluteRaw(angle) + way
    BY <2>4, AdvanceExact
  <2>6. /\ raw' = advanced.raw /\ revolutions' = advanced.revolutions
        /\ rawPosition' = AbsoluteRaw(advanced)
        /\ homeOffset' = homeOffset /\ home' = home /\ seen' = rotor
        /\ lastAngle' = observer /\ rotor' = rotor /\ observer' = observer
    BY <1>2 DEF TrackStep
  <2>7. raw' \in Phase /\ revolutions' \in Int
        /\ advanced = [raw |-> raw', revolutions |-> revolutions']
    BY <2>5, <2>6 DEF Angles
  <2>8. Position' = seen' - home'
    <3>1. /\ AbsoluteRaw(angle) \in Int /\ homeOffset \in Int /\ home \in Int /\ seen \in Int
          /\ rotor \in Int /\ rawPosition = AbsoluteRaw(angle)
          /\ rawPosition - homeOffset = seen - home
      BY <1>2, <2>4, Halves DEF AngleInv, AbsoluteRaw, Angles, Phase, Position
    <3> QED
      BY <2>3, <2>5, <2>6, <3>1 DEF Position
  <2>9. rotor' - seen' \in (-Half + 1)..(Half - 1)
    BY <2>6, Halves DEF AngleInv
  <2> QED
    BY <1>2, <2>1, <2>6, <2>7, <2>8, <2>9 DEF AngleInv
<1>3. CASE TrackStep /\ ~tracking
  <2> DEFINE advanced == Advance(Zero, observer)
  <2>1. Zero \in Angles /\ observer \in Int /\ AbsoluteRaw(Zero) = 0
    BY Halves DEF AngleInv, Zero, Angles, Phase, AbsoluteRaw
  <2>2. advanced \in Angles /\ AbsoluteRaw(advanced) = observer
    BY <2>1, AdvanceExact
  <2>3. /\ raw' = advanced.raw /\ revolutions' = advanced.revolutions
        /\ rawPosition' = AbsoluteRaw(advanced)
        /\ homeOffset' = rawPosition' /\ home' = rotor /\ seen' = rotor
        /\ lastAngle' = observer /\ rotor' = rotor /\ observer' = observer
    BY <1>3 DEF TrackStep
  <2>4. raw' \in Phase /\ revolutions' \in Int
        /\ advanced = [raw |-> raw', revolutions |-> revolutions']
    BY <2>2, <2>3 DEF Angles
  <2>5. Position' = seen' - home' /\ homeOffset' \in Int
    BY <2>1, <2>2, <2>3 DEF Position, AngleInv
  <2>6. rotor' - seen' \in (-Half + 1)..(Half - 1)
    BY <2>3, Halves DEF AngleInv
  <2> QED
    BY <2>3, <2>4, <2>5, <2>6 DEF AngleInv
<1>4. CASE SetHome
  <2>1. Position' = 0 /\ seen' - home' = 0
    BY <1>4, Halves DEF SetHome, AngleInv, Position, AbsoluteRaw, Phase
  <2>2. rawPosition \in Int
    BY <1>4, Halves DEF SetHome, AngleInv, AbsoluteRaw, Phase
  <2> QED
    BY <1>4, <2>1, <2>2 DEF SetHome, AngleInv
<1>5. CASE LoadParameters
  BY <1>5 DEF LoadParameters, AngleInv
<1>6. CASE UNCHANGED angleVars
  BY <1>6 DEF angleVars, positionVars, AngleInv, Position
<1> QED
  BY <1>1, <1>2, <1>3, <1>4, <1>5, <1>6 DEF AngleNext

\* No revolution is lost (NoTurnLost), for any resolution of the angle and any number of
\* turns: the unwrapping takes the true way of each step, and AddRaw(), Advance() and
\* FromAbsoluteRaw() keep the absolute count exactly, across every overflow.
THEOREM AngleCorrect == AngleSpec => []NoTurnLost
<1>1. AngleInit => AngleInv
  <2> SUFFICES ASSUME AngleInit PROVE AngleInv
    OBVIOUS
  <2>1. rotor \in Int /\ rotor = observer + 0 * Counts
    BY Halves DEF AngleInit
  <2> QED
    BY <2>1 DEF AngleInit, AngleInv
<1>2. AngleInv => NoTurnLost
  <2> SUFFICES ASSUME AngleInv, tracking PROVE NoTurnLost
    BY DEF NoTurnLost
  <2>1. [raw |-> raw, revolutions |-> revolutions] \in Angles
    BY DEF AngleInv, Angles
  <2> QED
    BY <2>1, RoundTrip DEF NoTurnLost, AngleInv
<1> QED
  BY <1>1, <1>2, AngleStep, PTL DEF AngleSpec

-----------------------------------------------------------------------------
(* HallQueue                                                               *)

LEMMA QueueSizes ==
    /\ N \in Nat \ {0, 1} /\ IndexModulus \in Nat \ {0} /\ IndexModulus > N
    /\ NoCode \notin HallCodes
  BY HallQueueAssumption

LEMMA QueuedIs ==
    ASSUME NEW h \in Index, NEW t \in Index
    PROVE  /\ Queued(h, t) = IF h >= t THEN h - t ELSE h - t + IndexModulus
           /\ Queued(h, t) \in 0..(IndexModulus - 1)
<1> DEFINE x == h - t
<1>1. x \in Int /\ -IndexModulus <= x /\ x < IndexModulus /\ x = h - t
  BY QueueSizes DEF Index
<1>2. Queued(h, t) = x % IndexModulus
  BY DEF Queued
<1> HIDE DEF x
<1>3. x % IndexModulus = IF x < 0 THEN x + IndexModulus ELSE x
  BY <1>1, ModNear, QueueSizes
<1> QED
  BY <1>1, <1>2, <1>3, QueueSizes DEF Index

\* The place of the i-th queued event.
At(t, i) == (t + i - 1) % IndexModulus

LEMMA AtIs ==
    ASSUME NEW t \in Index, NEW i \in 1..(N + 1)
    PROVE  /\ At(t, i) = IF t + i - 1 < IndexModulus THEN t + i - 1
                         ELSE t + i - 1 - IndexModulus
           /\ At(t, i) \in Index
<1> DEFINE x == t + i - 1
<1>1. x \in Nat /\ x < 2 * IndexModulus /\ x = t + i - 1
  BY QueueSizes DEF Index
<1>2. At(t, i) = x % IndexModulus
  BY DEF At
<1> HIDE DEF x
<1>3. x % IndexModulus = IF x < IndexModulus THEN x ELSE x - IndexModulus
  BY <1>1, ModNear, QueueSizes
<1> QED
  BY <1>1, <1>2, <1>3, QueueSizes DEF Index

LEMMA SlotRange ==
    ASSUME NEW i \in Index
    PROVE  Slot(i) \in 0..(N - 1)
  BY QueueSizes DEF Slot, Index

\* Two places less than the capacity apart are not the same slot: the capacity divides
\* the range of the indices.
LEMMA SlotsDiffer ==
    ASSUME NEW t \in Index, NEW i \in 1..(N + 1), NEW j \in 1..(N + 1), i < j, j - i < N
    PROVE  Slot(At(t, i)) # Slot(At(t, j))
<1> DEFINE a == At(t, i)
           b == At(t, j)
           qa == a \div N
           qb == b \div N
           m == IndexModulus \div N
<1>1. a \in Int /\ b \in Int /\ N \in Nat \ {0} /\ IndexModulus \in Int
  BY AtIs, QueueSizes DEF Index
<1>2. \/ a - b = i - j
      \/ a - b = i - j + IndexModulus
  <2>1. a = IF t + i - 1 < IndexModulus THEN t + i - 1 ELSE t + i - 1 - IndexModulus
    BY AtIs
  <2>2. b = IF t + j - 1 < IndexModulus THEN t + j - 1 ELSE t + j - 1 - IndexModulus
    BY AtIs
  <2> HIDE DEF a, b
  <2> QED
    BY <2>1, <2>2, QueueSizes DEF Index
<1> HIDE DEF a, b
<1>3. /\ qa \in Int /\ a % N \in Int /\ a = qa * N + (a % N)
      /\ qb \in Int /\ b % N \in Int /\ b = qb * N + (b % N)
      /\ m \in Int /\ IndexModulus = m * N
  <2>1. IndexModulus = m * N + (IndexModulus % N) /\ m \in Int
    BY <1>1, DivMod
  <2>2. IndexModulus % N = 0
    BY HallQueueAssumption
  <2>3. m * N \in Int
    BY <1>1, <2>1
  <2>4. IndexModulus = m * N
    BY <2>1, <2>2, <2>3
  <2> QED
    BY <1>1, <2>1, <2>4, DivMod
<1> HIDE DEF qa, qb, m
<1> SUFFICES ASSUME a % N = b % N PROVE FALSE
  BY DEF Slot, a, b
<1>4. a - b = (qa - qb) * N
  <2>1. (qa + (-qb)) * N = qa * N + (-qb) * N /\ (-qb) * N = -(qb * N)
    BY <1>1, <1>3, Distribute, Negate
  <2> QED
    BY <1>1, <1>3, <2>1
<1>5. PICK z \in Int : i - j = z * N
  <2>1. CASE a - b = i - j
    BY <1>3, <1>4, <2>1
  <2>2. CASE a - b = i - j + IndexModulus
    <3>1. ((qa - qb) + (-m)) * N = (qa - qb) * N + (-m) * N /\ (-m) * N = -(m * N)
      BY <1>1, <1>3, Distribute, Negate
    <3>2. i - j = ((qa - qb) + (-m)) * N
      BY <1>1, <1>3, <1>4, <2>2, <3>1, QueueSizes
    <3> QED
      BY <1>3, <3>2
  <2> QED
    BY <1>2, <2>1, <2>2
<1>6. z * N < 0 /\ -N < z * N
  BY <1>5, QueueSizes
<1> QED
  BY <1>5, <1>6, QueueSizes

LEMMA NextIndex ==
    ASSUME NEW h \in Index
    PROVE  /\ (h + 1) % IndexModulus = IF h + 1 < IndexModulus THEN h + 1 ELSE 0
           /\ (h + 1) % IndexModulus \in Index
<1> DEFINE x == h + 1
<1>1. x \in Nat /\ x <= IndexModulus /\ x = h + 1
  BY QueueSizes DEF Index
<1> HIDE DEF x
<1>2. x % IndexModulus = IF x < IndexModulus THEN x ELSE x - IndexModulus
  BY <1>1, ModNear, QueueSizes
<1>3. x % IndexModulus = IF x < IndexModulus THEN x ELSE 0
  BY <1>1, <1>2, QueueSizes
<1>4. x % IndexModulus \in Index
  BY <1>1, <1>3, QueueSizes DEF Index
<1> QED
  BY <1>3, <1>4 DEF x

LEMMA PushMoves ==
    ASSUME NEW h \in Index, NEW t \in Index, Queued(h, t) < N
    PROVE  /\ (h + 1) % IndexModulus \in Index
           /\ Queued((h + 1) % IndexModulus, t) = Queued(h, t) + 1
<1> DEFINE g == (h + 1) % IndexModulus
<1>1. g \in Index /\ g = IF h + 1 < IndexModulus THEN h + 1 ELSE 0
  BY NextIndex
<1> HIDE DEF g
<1>2. Queued(h, t) = IF h >= t THEN h - t ELSE h - t + IndexModulus
  BY QueuedIs
<1>3. Queued(g, t) = IF g >= t THEN g - t ELSE g - t + IndexModulus
  BY <1>1, QueuedIs
<1>4. Queued(g, t) = Queued(h, t) + 1
  BY <1>1, <1>2, <1>3, QueueSizes DEF Index
<1> QED
  BY <1>1, <1>4 DEF g

LEMMA PopMoves ==
    ASSUME NEW h \in Index, NEW t \in Index, h # t
    PROVE  /\ (t + 1) % IndexModulus \in Index
           /\ Queued(h, (t + 1) % IndexModulus) = Queued(h, t) - 1
           /\ \A i \in 1..N : At((t + 1) % IndexModulus, i) = At(t, i + 1)
<1> DEFINE g == (t + 1) % IndexModulus
<1>1. g \in Index /\ g = IF t + 1 < IndexModulus THEN t + 1 ELSE 0
  BY NextIndex
<1> HIDE DEF g
<1>2. Queued(h, t) = IF h >= t THEN h - t ELSE h - t + IndexModulus
  BY QueuedIs
<1>3. Queued(h, g) = IF h >= g THEN h - g ELSE h - g + IndexModulus
  BY <1>1, QueuedIs
<1>4. Queued(h, g) = Queued(h, t) - 1
  BY <1>1, <1>2, <1>3, QueueSizes DEF Index
<1>5. ASSUME NEW i \in 1..N PROVE At(g, i) = At(t, i + 1)
  <2>1. i \in 1..(N + 1) /\ i + 1 \in 1..(N + 1)
    BY QueueSizes
  <2>2. At(g, i) = IF g + i - 1 < IndexModulus THEN g + i - 1 ELSE g + i - 1 - IndexModulus
    BY <1>1, <2>1, AtIs
  <2>3. At(t, i + 1) = IF t + i < IndexModulus THEN t + i ELSE t + i - IndexModulus
    <3>1. At(t, i + 1) = IF t + (i + 1) - 1 < IndexModulus THEN t + (i + 1) - 1
                         ELSE t + (i + 1) - 1 - IndexModulus
      BY <2>1, AtIs
    <3> QED
      BY <3>1, QueueSizes DEF Index
  <2> QED
    BY <1>1, <2>2, <2>3, QueueSizes DEF Index
<1> QED
  BY <1>1, <1>4, <1>5 DEF g

LEMMA Ends ==
    ASSUME NEW h \in Index, NEW t \in Index, Queued(h, t) <= N
    PROVE  At(t, 1) = t /\ At(t, Queued(h, t) + 1) = h
<1> DEFINE n == Queued(h, t) + 1
<1>1. n \in 1..(N + 1) /\ 1 \in 1..(N + 1)
  BY QueuedIs, QueueSizes
<1>2. At(t, 1) = t
  BY <1>1, AtIs, QueueSizes DEF Index
<1>3. n = IF h >= t THEN h - t + 1 ELSE h - t + IndexModulus + 1
  BY QueuedIs, QueueSizes DEF Index
<1> HIDE DEF n
<1>4. At(t, n) = IF t + n - 1 < IndexModulus THEN t + n - 1 ELSE t + n - 1 - IndexModulus
  BY <1>1, AtIs
<1>5. At(t, n) = h
  BY <1>1, <1>3, <1>4, QueueSizes DEF Index
<1> QED
  BY <1>2, <1>5 DEF n

\* What a producer relies on between its accesses: it is the only one, so the head it
\* loaded is the head, the queue has room, and its event stays where it stored it.
Pushing(p) ==
    /\ p.pc \in {"load", "slot", "publish"} => p.event \in HallCodes
    /\ p.pc \in {"slot", "publish"} => p.head = head /\ Queued(head, tail) < N
    /\ p.pc = "publish" => places[Slot(head)] = p.event

\* The same for the observer: only it moves the tail, and nobody writes its slot.
Popping ==
    /\ obs.pc # "idle" => obs.tail = tail /\ head # tail
    /\ obs.pc = "release" => obs.event = places[Slot(tail)]

PlaceCodes == HallCodes \cup {NoCode}

QueueTypes ==
    /\ sensors \in HallCodes /\ head \in Index /\ tail \in Index
    /\ places \in [0..(N - 1) -> PlaceCodes]
    /\ isr \in [pc : PushPcs, event : PlaceCodes, head : Index, tail : Index]
    /\ init \in [pc : PushPcs \cup {"clear", "cleared", "read"}, event : PlaceCodes,
                 head : Index, tail : Index]
    /\ obs \in [pc : {"idle", "copy", "release"}, event : PlaceCodes, tail : Index]

QueueInv ==
    /\ QueueTypes
    /\ Queued(head, tail) <= N
    /\ init.pc # "idle" => isr.pc = "idle" /\ ~edge
    /\ Pushing(isr) /\ Pushing(init) /\ Popping
    /\ init.pc = "cleared" => init.head = head

LEMMA IdleTyped ==
    /\ 0 \in Index
    /\ Idle \in [pc : PushPcs, event : PlaceCodes, head : Index, tail : Index]
    /\ NoPop \in [pc : {"idle", "copy", "release"}, event : PlaceCodes, tail : Index]
  BY QueueSizes DEF Index, Idle, NoPop, PushPcs, PlaceCodes

\* A store into the free slot leaves the queued events alone.
LEMMA StoreKeeps ==
    ASSUME QueueInv, Queued(head, tail) < N, NEW event
    PROVE  \A i \in 1..Queued(head, tail) :
               [places EXCEPT ![Slot(head)] = event][Slot(At(tail, i))]
                   = places[Slot(At(tail, i))]
<1> DEFINE n == Queued(head, tail)
<1>1. n \in 0..(N - 1) /\ head = At(tail, n + 1)
  <2>1. head \in Index /\ tail \in Index /\ n <= N
    BY DEF QueueInv, QueueTypes
  <2>2. n \in Nat
    BY <2>1, QueuedIs, QueueSizes
  <2> QED
    BY <2>1, <2>2, Ends, QueueSizes
<1> HIDE DEF n
<1> SUFFICES ASSUME NEW i \in 1..n
             PROVE  [places EXCEPT ![Slot(head)] = event][Slot(At(tail, i))]
                        = places[Slot(At(tail, i))]
  BY DEF n
<1>2. i \in 1..(N + 1) /\ n + 1 \in 1..(N + 1) /\ i < n + 1 /\ n + 1 - i < N
  BY <1>1, QueueSizes
<1>3. Slot(At(tail, i)) # Slot(head)
  BY <1>1, <1>2, SlotsDiffer DEF QueueInv, QueueTypes
<1>4. Slot(At(tail, i)) \in 0..(N - 1)
  BY <1>2, AtIs, SlotRange DEF QueueInv, QueueTypes
<1> QED
  BY <1>3, <1>4 DEF QueueInv, QueueTypes

LEMMA StoreKeepsOldest ==
    ASSUME QueueInv, Queued(head, tail) < N, head # tail, NEW event
    PROVE  [places EXCEPT ![Slot(head)] = event][Slot(tail)] = places[Slot(tail)]
<1>1. 1 \in 1..Queued(head, tail)
  <2>1. head \in Index /\ tail \in Index
    BY DEF QueueInv, QueueTypes
  <2>2. Queued(head, tail) = IF head >= tail THEN head - tail
                             ELSE head - tail + IndexModulus
    BY <2>1, QueuedIs
  <2> QED
    BY <2>1, <2>2, QueueSizes DEF Index
<1>2. At(tail, 1) = tail
  BY Ends DEF QueueInv, QueueTypes
<1> QED
  BY <1>1, <1>2, StoreKeeps

LEMMA QueueStep ==
    ASSUME ~TurnsInInit, QueueInv, [QueueNext]_hallQueueVars
    PROVE  QueueInv'
<1> USE QueueSizes DEF QueueInv, QueueTypes, Pushing, Popping, queueVars, PushPcs, PlaceCodes
<1>0. Queued(head, tail) \in Nat /\ Queued(tail, tail) = 0
  <2>1. Queued(head, tail) \in 0..(IndexModulus - 1)
    BY QueuedIs
  <2>2. Queued(tail, tail) = 0
    BY QueuedIs DEF Index
  <2> QED
    BY <2>1, <2>2
<1>1. CASE TurnShaft
  BY <1>1 DEF TurnShaft
<1>2. CASE OnHallEdge
  BY <1>2 DEF OnHallEdge, Enter
<1>3. CASE IsrLoads
  <2>1. CASE IsFull(head, tail)
    BY <1>3, <2>1, IdleTyped DEF IsrLoads, Loaded, Idle
  <2>2. CASE ~IsFull(head, tail)
    <3>1. Queued(head, tail) < N
      BY <1>0, <2>2 DEF IsFull
    <3> QED
      BY <1>3, <2>2, <3>1 DEF IsrLoads, Loaded
  <2> QED
    BY <2>1, <2>2
<1>4. CASE IsrStores
  <2>1. /\ isr.pc = "slot" /\ isr.head = head /\ isr.event \in HallCodes
        /\ Queued(head, tail) < N /\ Slot(head) \in 0..(N - 1)
    BY <1>4, SlotRange DEF IsrStores
  <2>2. places' = [places EXCEPT ![Slot(head)] = isr.event]
    BY <1>4, <2>1 DEF IsrStores, Store
  <2>3. head # tail => places'[Slot(tail)] = places[Slot(tail)]
    BY <2>1, <2>2, StoreKeepsOldest
  <2>4. places' \in [0..(N - 1) -> PlaceCodes] /\ places'[Slot(head)] = isr.event
    BY <2>1, <2>2
  <2> QED
    BY <1>4, <2>1, <2>3, <2>4 DEF IsrStores
<1>5. CASE IsrPublishes
  <2>1. isr.pc = "publish" /\ isr.head = head /\ Queued(head, tail) < N
    BY <1>5 DEF IsrPublishes
  <2>2. head' \in Index /\ Queued(head', tail) = Queued(head, tail) + 1
    BY <1>5, <2>1, PushMoves DEF IsrPublishes, Publish
  <2>3. Queued(head', tail) <= N /\ head' # tail
    BY <1>0, <2>1, <2>2
  <2> QED
    BY <1>5, <2>1, <2>2, <2>3, IdleTyped DEF IsrPublishes, Idle
<1>6. CASE RestartCapture
  BY <1>6, IdleTyped DEF RestartCapture, ThreadRuns, Idle
<1>7. CASE InitClears
  BY <1>7 DEF InitClears, ThreadRuns
<1>8. CASE InitCleared
  <2>1. tail' = head /\ Queued(head, head) = 0
    BY <1>8, QueuedIs DEF InitCleared, Index
  <2> QED
    BY <1>8, <2>1 DEF InitCleared, ThreadRuns
<1>9. CASE InitReads
  BY <1>9 DEF InitReads, ThreadRuns, Enter
<1>10. CASE InitLoads
  <2>1. CASE IsFull(head, tail)
    BY <1>10, <2>1, IdleTyped DEF InitLoads, ThreadRuns, Loaded, Idle
  <2>2. CASE ~IsFull(head, tail)
    <3>1. Queued(head, tail) < N
      BY <1>0, <2>2 DEF IsFull
    <3> QED
      BY <1>10, <2>2, <3>1 DEF InitLoads, ThreadRuns, Loaded
  <2> QED
    BY <2>1, <2>2
<1>11. CASE InitStores
  <2>1. /\ init.pc = "slot" /\ init.head = head /\ init.event \in HallCodes
        /\ Queued(head, tail) < N /\ Slot(head) \in 0..(N - 1)
    BY <1>11, SlotRange DEF InitStores
  <2>2. places' = [places EXCEPT ![Slot(head)] = init.event]
    BY <1>11, <2>1 DEF InitStores, Store
  <2>3. places' \in [0..(N - 1) -> PlaceCodes] /\ places'[Slot(head)] = init.event
    BY <2>1, <2>2
  <2> QED
    BY <1>11, <2>1, <2>3 DEF InitStores, ThreadRuns
<1>12. CASE InitPublishes
  <2>1. init.pc = "publish" /\ init.head = head /\ Queued(head, tail) < N
    BY <1>12 DEF InitPublishes
  <2>2. head' \in Index /\ Queued(head', tail) = Queued(head, tail) + 1
    BY <1>12, <2>1, PushMoves DEF InitPublishes, Publish
  <2>3. Queued(head', tail) <= N
    BY <1>0, <2>1, <2>2
  <2> QED
    BY <1>12, <2>1, <2>2, <2>3, IdleTyped DEF InitPublishes, ThreadRuns, Idle
<1>13. CASE PopLoads
  BY <1>13 DEF PopLoads
<1>14. CASE PopCopies
  <2>1. Slot(tail) \in 0..(N - 1)
    BY SlotRange
  <2> QED
    BY <1>14, <2>1 DEF PopCopies
<1>15. CASE PopReleases
  <2>1. obs.tail = tail /\ head # tail
    BY <1>15 DEF PopReleases
  <2>2. tail' \in Index /\ Queued(head, tail') = Queued(head, tail) - 1
    BY <1>15, <2>1, PopMoves DEF PopReleases
  <2> QED
    BY <1>0, <1>15, <2>2, IdleTyped DEF PopReleases, NoPop
<1>16. CASE UNCHANGED hallQueueVars
  BY <1>16 DEF hallQueueVars
<1> QED
  BY <1>1, <1>2, <1>3, <1>4, <1>5, <1>6, <1>7, <1>8, <1>9, <1>10, <1>11, <1>12, <1>13,
     <1>14, <1>15, <1>16 DEF QueueNext

\* The contents are a sequence of the places from the tail to the head.
ContentsTyped ==
    /\ Contents \in Seq(PlaceCodes) /\ Len(Contents) = Queued(head, tail)
    /\ Queued(head, tail) \in Nat
    /\ \A i \in 1..Queued(head, tail) : Contents[i] = places[Slot(At(tail, i))]

LEMMA ContentsIs == QueueInv => ContentsTyped
<1> SUFFICES ASSUME QueueInv PROVE ContentsTyped
  OBVIOUS
<1> DEFINE n == Queued(head, tail)
<1>1. n \in Nat /\ n <= N
  <2>1. n \in 0..(IndexModulus - 1)
    BY QueuedIs DEF QueueInv, QueueTypes
  <2> QED
    BY <2>1, QueueSizes DEF QueueInv
<1>2. Contents = [i \in 1..n |-> places[Slot(At(tail, i))]]
  BY DEF Contents, At
<1> HIDE DEF n
<1>3. \A i \in 1..n : places[Slot(At(tail, i))] \in PlaceCodes
  <2> SUFFICES ASSUME NEW i \in 1..n PROVE places[Slot(At(tail, i))] \in PlaceCodes
    OBVIOUS
  <2>1. i \in 1..(N + 1)
    BY <1>1, QueueSizes
  <2>2. Slot(At(tail, i)) \in 0..(N - 1)
    BY <2>1, AtIs, SlotRange DEF QueueInv, QueueTypes
  <2> QED
    BY <2>2 DEF QueueInv, QueueTypes
<1>4. Contents \in Seq(PlaceCodes) /\ Len(Contents) = n
  BY <1>1, <1>2, <1>3
<1> QED
  BY <1>1, <1>2, <1>4 DEF n, ContentsTyped

LEMMA ContentsPrime == QueueInv' => ContentsTyped'
  BY ContentsIs, PTL

LEMMA SeqEqual ==
    ASSUME NEW S, NEW s \in Seq(S), NEW t \in Seq(S), Len(s) = Len(t),
           \A i \in 1..Len(s) : s[i] = t[i]
    PROVE  s = t
  OBVIOUS

LEMMA PublishPushes ==
    ASSUME QueueInv, QueueInv', NEW p, Publish(p), p.head = head,
           Queued(head, tail) < N, places[Slot(head)] = p.event, p.event \in HallCodes,
           UNCHANGED <<tail, places, got>>
    PROVE  Fifo!Push(p.event)
<1> DEFINE n == Queued(head, tail)
<1>1. n \in Nat /\ Queued(head', tail) = n + 1 /\ head = At(tail, n + 1)
  <2>1. Queued(head', tail) = n + 1
    BY PushMoves DEF Publish, QueueInv, QueueTypes
  <2>2. head = At(tail, n + 1)
    BY Ends DEF QueueInv, QueueTypes
  <2> QED
    BY <2>1, <2>2, ContentsIs DEF ContentsTyped
<1>2. Contents \in Seq(PlaceCodes) /\ Len(Contents) = n
      /\ \A i \in 1..n : Contents[i] = places[Slot(At(tail, i))]
  BY ContentsIs DEF ContentsTyped
<1>3. Contents' \in Seq(PlaceCodes) /\ Len(Contents') = n + 1
      /\ \A i \in 1..(n + 1) : Contents'[i] = places[Slot(At(tail, i))]
  <2>1. /\ Contents' \in Seq(PlaceCodes) /\ Len(Contents') = Queued(head, tail)'
        /\ \A i \in 1..Queued(head, tail)' : Contents'[i] = places'[Slot(At(tail', i))]
    BY ContentsPrime DEF ContentsTyped
  <2> QED
    BY <1>1, <2>1
<1> HIDE DEF n
<1>4. Contents' = Append(Contents, p.event)
  <2>1. p.event \in PlaceCodes
    BY DEF PlaceCodes
  <2>2. /\ Append(Contents, p.event) \in Seq(PlaceCodes)
        /\ Len(Append(Contents, p.event)) = n + 1
    BY <1>1, <1>2, <2>1
  <2>3. ASSUME NEW i \in 1..(n + 1) PROVE Contents'[i] = Append(Contents, p.event)[i]
    <3>1. CASE i \in 1..n
      BY <1>1, <1>2, <1>3, <2>1, <3>1
    <3>2. CASE i = n + 1
      BY <1>1, <1>2, <1>3, <2>1, <3>2
    <3>3. i \in 1..n \/ i = n + 1
      BY <1>1
    <3> QED
      BY <3>1, <3>2, <3>3
  <2> QED
    BY <1>1, <1>3, <2>2, <2>3, SeqEqual
<1>5. Len(Contents) < N
  BY <1>2 DEF n
<1> QED
  BY <1>4, <1>5 DEF Fifo!Push

LEMMA ReleasePops ==
    ASSUME QueueInv, QueueInv', PopReleases
    PROVE  Fifo!Pop
<1> DEFINE n == Queued(head, tail)
<1>1. obs.tail = tail /\ head # tail /\ got' = places[Slot(tail)]
      /\ tail' = (tail + 1) % IndexModulus /\ UNCHANGED <<head, places>>
  BY DEF PopReleases, QueueInv, Popping
<1>2. /\ head \in Index /\ tail \in Index /\ n <= N
      /\ Queued(head, tail') = n - 1 /\ \A i \in 1..N : At(tail', i) = At(tail, i + 1)
  BY <1>1, PopMoves DEF QueueInv, QueueTypes
<1>3. At(tail, 1) = tail /\ n \in Nat
  BY <1>2, Ends, ContentsIs DEF ContentsTyped
<1>4. Contents \in Seq(PlaceCodes) /\ Len(Contents) = n
      /\ \A i \in 1..n : Contents[i] = places[Slot(At(tail, i))]
  BY ContentsIs DEF ContentsTyped
<1>5. /\ Contents' \in Seq(PlaceCodes) /\ Len(Contents') = n - 1 /\ n - 1 \in Nat
      /\ \A i \in 1..(n - 1) : Contents'[i] = places[Slot(At(tail', i))]
  <2>1. /\ Contents' \in Seq(PlaceCodes) /\ Len(Contents') = Queued(head, tail)'
        /\ Queued(head, tail)' \in Nat
        /\ \A i \in 1..Queued(head, tail)' : Contents'[i] = places'[Slot(At(tail', i))]
    BY ContentsPrime DEF ContentsTyped
  <2> QED
    BY <1>1, <1>2, <2>1
<1> HIDE DEF n
<1>6. Contents # <<>> /\ Head(Contents) = places[Slot(tail)]
  BY <1>3, <1>4, <1>5
<1>7. Contents' = Tail(Contents)
  <2>1. Tail(Contents) \in Seq(PlaceCodes) /\ Len(Tail(Contents)) = n - 1
    BY <1>3, <1>4, <1>5
  <2>2. ASSUME NEW i \in 1..(n - 1) PROVE Contents'[i] = Tail(Contents)[i]
    <3>1. i \in 1..N /\ i + 1 \in 1..n
      BY <1>2, <1>3, QueueSizes
    <3>2. Tail(Contents)[i] = Contents[i + 1]
      BY <1>4, <1>5, <3>1
    <3> QED
      BY <1>2, <1>4, <1>5, <3>1, <3>2
  <2> QED
    BY <1>3, <1>5, <2>1, <2>2, SeqEqual
<1> QED
  BY <1>1, <1>6, <1>7 DEF Fifo!Pop

LEMMA StoreStutters ==
    ASSUME QueueInv, NEW p, Store(p), p.head = head, Queued(head, tail) < N,
           UNCHANGED <<head, tail>>
    PROVE  UNCHANGED Contents
<1> DEFINE n == Queued(head, tail)
<1>1. places' = [places EXCEPT ![Slot(head)] = p.event]
  BY DEF Store
<1>2. \A i \in 1..n : places'[Slot(At(tail, i))] = places[Slot(At(tail, i))]
  BY <1>1, StoreKeeps
<1>3. Contents' = [i \in 1..n |-> places'[Slot(At(tail, i))]]
  BY DEF Contents, At
<1>4. Contents = [i \in 1..n |-> places[Slot(At(tail, i))]]
  BY DEF Contents, At
<1> HIDE DEF n
<1> QED
  BY <1>2, <1>3, <1>4

\* Each step of the queue is a step of the FIFO or changes neither the contents nor the
\* event taken last: a push takes effect when the head is published, a pop when the
\* tail is released, and Clear() with its store.
LEMMA FifoStep ==
    ASSUME QueueInv, QueueInv', [QueueNext]_hallQueueVars
    PROVE  [Fifo!Next]_<<Contents, got>>
<1>1. CASE UNCHANGED <<head, tail, places, got>>
  BY <1>1 DEF Contents
<1>2. TurnShaft \/ OnHallEdge \/ IsrLoads \/ RestartCapture \/ InitClears \/ InitReads
          \/ InitLoads \/ PopLoads \/ PopCopies \/ UNCHANGED hallQueueVars
      => UNCHANGED <<head, tail, places, got>>
  BY DEF TurnShaft, OnHallEdge, IsrLoads, RestartCapture, InitClears, InitReads, InitLoads,
     PopLoads, PopCopies, hallQueueVars, queueVars
<1>3. CASE IsrStores
  <2>1. isr.head = head /\ Queued(head, tail) < N
    BY <1>3 DEF IsrStores, QueueInv, Pushing
  <2>2. Store(isr) /\ UNCHANGED <<head, tail, got>>
    BY <1>3 DEF IsrStores
  <2> QED
    BY <2>1, <2>2, StoreStutters
<1>4. CASE InitStores
  <2>1. init.head = head /\ Queued(head, tail) < N
    BY <1>4 DEF InitStores, QueueInv, Pushing
  <2>2. Store(init) /\ UNCHANGED <<head, tail, got>>
    BY <1>4 DEF InitStores
  <2> QED
    BY <2>1, <2>2, StoreStutters
<1>5. CASE IsrPublishes
  <2>1. /\ isr.head = head /\ Queued(head, tail) < N
        /\ places[Slot(head)] = isr.event /\ isr.event \in HallCodes
    BY <1>5 DEF IsrPublishes, QueueInv, Pushing
  <2>2. Publish(isr) /\ UNCHANGED <<tail, places, got>>
    BY <1>5 DEF IsrPublishes
  <2> QED
    BY <2>1, <2>2, PublishPushes DEF Fifo!Next
<1>6. CASE InitPublishes
  <2>1. /\ init.head = head /\ Queued(head, tail) < N
        /\ places[Slot(head)] = init.event /\ init.event \in HallCodes
    BY <1>6 DEF InitPublishes, QueueInv, Pushing
  <2>2. Publish(init) /\ UNCHANGED <<tail, places, got>>
    BY <1>6 DEF InitPublishes
  <2> QED
    BY <2>1, <2>2, PublishPushes DEF Fifo!Next
<1>7. CASE InitCleared
  <2>1. head' = head /\ tail' = head /\ UNCHANGED got
    BY <1>7 DEF InitCleared, QueueInv
  <2>2. Len(Contents') = Queued(head', tail') /\ Contents' \in Seq(PlaceCodes)
    BY ContentsPrime DEF ContentsTyped
  <2>3. Queued(head, head) = 0
    BY QueuedIs, QueueSizes DEF QueueInv, QueueTypes, Index
  <2>4. Contents' = <<>>
    BY <2>1, <2>2, <2>3
  <2> QED
    BY <2>1, <2>4 DEF Fifo!Next, Fifo!Clear
<1>8. CASE PopReleases
  BY <1>8, ReleasePops DEF Fifo!Next
<1> QED
  BY <1>1, <1>2, <1>3, <1>4, <1>5, <1>6, <1>7, <1>8 DEF QueueNext

LEMMA QueueStarts == QueueInit => QueueInv /\ Fifo!Init
<1> SUFFICES ASSUME QueueInit PROVE QueueInv /\ Fifo!Init
  OBVIOUS
<1>1. head = 0 /\ tail = 0 /\ 0 \in Index /\ Queued(0, 0) = 0
  BY IdleTyped, QueuedIs, QueueSizes, SMTT(30) DEF QueueInit, Index
<1>2. QueueTypes
  BY <1>1, IdleTyped DEF QueueInit, QueueTypes, Idle, PushPcs, PlaceCodes
<1>3. QueueInv
  BY <1>1, <1>2, QueueSizes DEF QueueInit, QueueInv, Pushing, Popping, Idle, NoPop
<1>4. Contents = <<>>
  BY <1>1, <1>3, ContentsIs DEF ContentsTyped
<1> QED
  BY <1>3, <1>4 DEF QueueInit, Fifo!Init

\* The lock-free queue is the FIFO it stands for (QueueIsFifo), for every capacity that
\* divides the range of the indices, every preemption of its accesses and every wrap,
\* as long as the shaft stands still inside InitHall(): one producer at a time.
THEOREM QueueCorrect ==
    ASSUME ~TurnsInInit
    PROVE  QueueSpec => QueueIsFifo
<1>1. QueueInit => QueueInv
  BY QueueStarts
<1>2. QueueInv /\ [QueueNext]_hallQueueVars => QueueInv'
  BY QueueStep
<1>3. QueueSpec => []QueueInv
  BY <1>1, <1>2, PTL DEF QueueSpec
<1>4. QueueInit => Fifo!Init
  BY QueueStarts
<1>5. QueueInv /\ QueueInv' /\ [QueueNext]_hallQueueVars => [Fifo!Next]_<<Contents, got>>
  BY FifoStep
<1> QED
  BY <1>3, <1>4, <1>5, PTL DEF QueueSpec, QueueIsFifo, Fifo!Spec

-----------------------------------------------------------------------------
(* SimCycle                                                                *)

\* An unacknowledged trip shows in the stage, which an inactive enable input keeps
\* disabled, so that no half period has been driven after one.
SimStageInv ==
    /\ stage \in [external : BOOLEAN, enabled : BOOLEAN, fault : BOOLEAN]
    /\ latched \in BOOLEAN
    /\ latched => stage.fault /\ ~stage.enabled
    /\ ~stage.external => ~stage.enabled

\* The last entry of the last plan is the carried one.
SimDutyInv ==
    /\ planned \in Int /\ carried = <<planned, 3>>
    /\ misdriven = {}

SimInputInv ==
    /\ inputs \in [load : Loads, external : BOOLEAN, follow : BOOLEAN]
    /\ plant = inputs.load

\* The timer runs unless paused; it expires at the ticks of the exact time.
SimTimerInv ==
    /\ running \in BOOLEAN /\ paused \in BOOLEAN /\ (running <=> ~paused)
    /\ paused => delay = NoTimer
    /\ clock \in Int /\ delay \in Int /\ elapsedUs \in Int /\ elapsedNs \in Int
    /\ delay # NoTimer => /\ clock + delay = elapsedUs
                          /\ elapsedUs = elapsedNs \div TickNs

SimInv == SimStageInv /\ SimDutyInv /\ SimInputInv /\ SimTimerInv

\* Scheduled() from the last expiry keeps clock and exact time together.
LEMMA ScheduledOnTime ==
    ASSUME NEW ns \in Int, NEW us \in Int, clock' = us, Scheduled(ns, us)
    PROVE  /\ clock' \in Int /\ delay' \in Int /\ elapsedUs' \in Int /\ elapsedNs' \in Int
           /\ clock' + delay' = elapsedUs' /\ elapsedUs' = elapsedNs' \div TickNs
<1> USE SimCycleAssumption
<1> DEFINE e == ns + CycleNs
           q == e \div TickNs
<1>1. e \in Int /\ TickNs \in Nat \ {0}
  OBVIOUS
<1> HIDE DEF e
<1>2. q \in Int
  BY <1>1, DivMod
<1>3. elapsedNs' = e /\ elapsedUs' = q /\ delay' = q - us
  BY DEF Scheduled, e
<1> HIDE DEF q
<1>4. us + (q - us) = q
  BY <1>2
<1> QED
  BY <1>1, <1>2, <1>3, <1>4 DEF q

LEMMA StartTimerOnTime ==
    ASSUME StartTimer, paused' = FALSE
    PROVE  SimTimerInv'
<1>1. running' = TRUE /\ clock' = 0 /\ Scheduled(0, 0)
  BY DEF StartTimer
<1>2. /\ clock' \in Int /\ delay' \in Int /\ elapsedUs' \in Int /\ elapsedNs' \in Int
      /\ clock' + delay' = elapsedUs' /\ elapsedUs' = elapsedNs' \div TickNs
  BY <1>1, ScheduledOnTime
<1>3. running' \in BOOLEAN /\ paused' \in BOOLEAN /\ (running' <=> ~paused') /\ ~paused'
  BY <1>1
<1> QED
  BY <1>2, <1>3 DEF SimTimerInv

LEMMA StopTimerOnTime ==
    ASSUME SimTimerInv, StopTimer, paused' = TRUE
    PROVE  SimTimerInv'
<1>1. running' \in BOOLEAN /\ paused' \in BOOLEAN /\ (running' <=> ~paused')
  BY DEF StopTimer
<1>2. delay' = NoTimer /\ clock' = 0 /\ elapsedNs' = elapsedNs /\ elapsedUs' = elapsedUs
  BY DEF StopTimer
<1>3. NoTimer \in Int
  BY DEF NoTimer
<1> QED
  BY <1>1, <1>2, <1>3 DEF SimTimerInv

LEMMA TimerStep == SimInv /\ [SimNext]_simVars => SimTimerInv'
<1> SUFFICES ASSUME SimInv, [SimNext]_simVars
             PROVE  SimTimerInv'
  OBVIOUS
<1>0. SimTimerInv
  BY DEF SimInv
<1>1. CASE OnCycleTimer
  <2>1. running = TRUE /\ delay # NoTimer
    BY <1>0, <1>1 DEF OnCycleTimer, SimTimerInv
  <2>2. /\ clock' = elapsedUs /\ Scheduled(elapsedNs, elapsedUs)
        /\ running' = running /\ paused' = paused
    BY <1>0, <1>1, <2>1 DEF OnCycleTimer, RunCycle, SimTimerInv
  <2> QED
    BY <1>0, <2>1, <2>2, ScheduledOnTime DEF SimTimerInv
<1>2. CASE WritePaused
  <2>1. PICK b \in BOOLEAN :
          /\ paused' = b
          /\ CASE running = ~b -> UNCHANGED timerState
               [] ~b /\ ~running -> StartTimer
               [] b /\ running -> StopTimer
    BY <1>2 DEF WritePaused
  <2>2. CASE running = ~b
    <3>1. UNCHANGED <<running, delay, elapsedNs, elapsedUs, clock>> /\ paused' = paused
      BY <1>0, <2>1, <2>2 DEF SimTimerInv, timerState
    <3> QED
      BY <1>0, <3>1 DEF SimTimerInv
  <2>3. CASE ~b /\ ~running
    <3>1. paused' = FALSE /\ StartTimer
      BY <2>1, <2>3
    <3> QED
      BY <3>1, StartTimerOnTime
  <2>4. CASE b /\ running
    <3>1. paused' = TRUE /\ StopTimer
      BY <2>1, <2>4
    <3> QED
      BY <1>0, <3>1, StopTimerOnTime
  <2> QED
    BY <1>0, <2>2, <2>3, <2>4 DEF SimTimerInv
<1>3. CASE WriteReset \/ SettingsApplied
  <2>1. Initialize /\ paused' = paused
    BY <1>3 DEF WriteReset, SettingsApplied
  <2>2. CASE paused
    <3>1. paused' = TRUE /\ StopTimer
      BY <1>0, <2>1, <2>2 DEF Initialize, SimTimerInv
    <3> QED
      BY <1>0, <3>1, StopTimerOnTime
  <2>3. CASE ~paused
    <3>1. paused' = FALSE /\ StartTimer
      BY <1>0, <2>1, <2>3 DEF Initialize, SimTimerInv
    <3> QED
      BY <3>1, StartTimerOnTime
  <2> QED
    BY <2>2, <2>3
<1>4. CASE UNCHANGED <<paused, timerState>>
  BY <1>0, <1>4 DEF SimTimerInv, timerState
<1>5. \/ OnCycleTimer \/ WritePaused \/ WriteReset \/ SettingsApplied
      \/ UNCHANGED <<paused, timerState>>
  BY DEF SimNext, WriteAdvance, RunCycle, PowerStageEnable, PowerStageDisable,
         PowerStageTrip, PowerStageClearFault, WriteInput, WriteFollow, SetOverride, simVars
<1> QED
  BY <1>1, <1>2, <1>3, <1>4, <1>5

\* A control cycle drives nothing after a trip and continues the last plan.
LEMMA CycleStep ==
    ASSUME SimStageInv, SimDutyInv, RunCycle
    PROVE  SimStageInv' /\ SimDutyInv'
<1>1. PICK trips \in BOOLEAN, first \in (IF override THEN {0} ELSE 0..4) :
        LET number == (planned + 1) % PlanCount
            released == stage.enabled /\ ~trips
            over == trips \/ first < 4
        IN
        /\ planned' = number
        /\ appliedDuties' = [k \in Quarters |-> IF k = 0 THEN carried ELSE <<number, k - 1>>]
        /\ carried' = Carried(number)
        /\ stage' = IF over THEN Tripped(stage) ELSE stage
        /\ latched' = (latched \/ over)
        /\ misdriven' = misdriven
            \cup (IF released /\ latched THEN {"after a trip"} ELSE {})
            \cup (IF appliedDuties'[0] = <<planned, 3>> THEN {} ELSE {"out of order"})
  BY DEF RunCycle
<1>2. SimStageInv'
  <2>1. CASE trips \/ first < 4
    <3>1. stage' = Tripped(stage) /\ latched' = TRUE
      BY <1>1, <2>1
    <3> QED
      BY <3>1 DEF SimStageInv, Tripped
  <2>2. CASE ~(trips \/ first < 4)
    <3>1. stage' = stage /\ latched' = latched
      BY <1>1, <2>2 DEF SimStageInv
    <3> QED
      BY <3>1 DEF SimStageInv
  <2> QED
    BY <2>1, <2>2
<1>3. planned' \in Int /\ carried' = <<planned', 3>>
  <2>1. (planned + 1) % PlanCount \in Int
    BY SimCycleAssumption DEF SimDutyInv
  <2> QED
    BY <1>1, <2>1 DEF Carried
<1>4. appliedDuties'[0] = <<planned, 3>>
  <2>1. appliedDuties' = [k \in Quarters |-> IF k = 0 THEN carried
                                             ELSE <<(planned + 1) % PlanCount, k - 1>>]
    BY <1>1
  <2>2. 0 \in Quarters
    BY DEF Quarters
  <2> QED
    BY <2>1, <2>2 DEF SimDutyInv
<1>5. misdriven' = {}
  BY <1>1, <1>4 DEF SimStageInv, SimDutyInv
<1> QED
  BY <1>2, <1>3, <1>5 DEF SimDutyInv

\* ApplyInputs() trips with the enable input inactive and leaves the fault otherwise.
LEMMA AppliedStep ==
    ASSUME SimStageInv, stage' = AppliedStage(stage), inputs'.external \in BOOLEAN,
           latched' = (latched \/ ~inputs'.external)
    PROVE  SimStageInv'
<1>1. CASE inputs'.external
  <2>1. stage' = [stage EXCEPT !.external = TRUE] /\ latched' = latched
    BY <1>1 DEF AppliedStage, SimStageInv
  <2> QED
    BY <2>1 DEF SimStageInv
<1>2. CASE ~inputs'.external
  <2>1. stage' = [stage EXCEPT !.external = FALSE, !.enabled = FALSE, !.fault = TRUE]
    BY <1>2 DEF AppliedStage, Tripped, SimStageInv
  <2>2. latched' = TRUE
    BY <1>2
  <2> QED
    BY <2>1, <2>2 DEF SimStageInv
<1> QED
  BY <1>1, <1>2

LEMMA StageStep == SimInv /\ [SimNext]_simVars => SimStageInv' /\ SimInputInv'
<1> SUFFICES ASSUME SimInv, [SimNext]_simVars
             PROVE  SimStageInv' /\ SimInputInv'
  OBVIOUS
<1>0. SimStageInv /\ SimDutyInv /\ SimInputInv
  BY DEF SimInv
<1>1. CASE OnCycleTimer \/ WriteAdvance
  <2>1. RunCycle /\ UNCHANGED <<inputs, plant>>
    BY <1>1 DEF OnCycleTimer, WriteAdvance, RunCycle
  <2> QED
    BY <1>0, <2>1, CycleStep DEF SimInputInv
<1>2. CASE PowerStageEnable \/ PowerStageDisable \/ PowerStageTrip \/ PowerStageClearFault
  <2>1. UNCHANGED <<inputs, plant>>
    BY <1>2 DEF PowerStageEnable, PowerStageDisable, PowerStageTrip, PowerStageClearFault
  <2>2. SimStageInv'
    <3>1. CASE PowerStageEnable
      BY <1>0, <3>1 DEF PowerStageEnable, SimStageInv
    <3>2. CASE PowerStageDisable
      BY <1>0, <3>2 DEF PowerStageDisable, SimStageInv
    <3>3. CASE PowerStageTrip
      <4>1. stage' = Tripped(stage) /\ latched' = TRUE
        BY <3>3 DEF PowerStageTrip
      <4> QED
        BY <1>0, <4>1 DEF Tripped, SimStageInv
    <3>4. CASE PowerStageClearFault
      <4>1. /\ stage' = [stage EXCEPT !.fault = ~stage.external]
            /\ latched' = ~stage.external
        BY <3>4 DEF PowerStageClearFault
      <4>2. latched' \in BOOLEAN /\ (latched' <=> ~stage.external)
        BY <4>1
      <4>3. /\ stage' \in [external : BOOLEAN, enabled : BOOLEAN, fault : BOOLEAN]
            /\ stage'.fault <=> ~stage.external
            /\ stage'.enabled = stage.enabled /\ stage'.external = stage.external
        BY <1>0, <4>1 DEF SimStageInv
      <4> QED
        BY <1>0, <4>2, <4>3 DEF SimStageInv
    <3> QED
      BY <1>2, <3>1, <3>2, <3>3, <3>4
  <2> QED
    BY <1>0, <2>1, <2>2 DEF SimInputInv
<1>3. CASE WriteInput
  <2>1. inputs' \in [load : Loads, external : BOOLEAN, follow : BOOLEAN]
    BY <1>0, <1>3 DEF WriteInput, SimInputInv
  <2>2. /\ stage' = AppliedStage(stage) /\ plant' = inputs'.load
        /\ latched' = (latched \/ ~inputs'.external)
    BY <1>3 DEF WriteInput, ApplyInputs
  <2> QED
    BY <1>0, <2>1, <2>2, AppliedStep DEF SimInputInv
<1>4. CASE WriteReset
  <2> DEFINE s == [stage EXCEPT !.fault = ~stage.external]
  <2>1. /\ inputs' = inputs /\ stage' = AppliedStage(s) /\ plant' = inputs'.load
        /\ ~stage.enabled /\ latched' = ~inputs.external
    BY <1>4 DEF WriteReset, ApplyInputs
  <2>2. /\ s \in [external : BOOLEAN, enabled : BOOLEAN, fault : BOOLEAN]
        /\ ~s.enabled
    BY <1>0, <2>1 DEF SimStageInv
  <2> HIDE DEF s
  <2>3. latched' \in BOOLEAN /\ (latched' <=> ~inputs.external)
    BY <2>1
  <2>4. CASE inputs.external
    <3>1. stage' = [s EXCEPT !.external = TRUE]
      BY <2>1, <2>4 DEF AppliedStage
    <3>2. SimStageInv'
      BY <2>2, <2>3, <2>4, <3>1 DEF SimStageInv
    <3> QED
      BY <1>0, <2>1, <3>2 DEF SimInputInv
  <2>5. CASE ~inputs.external
    <3>1. stage' = Tripped([s EXCEPT !.external = FALSE])
      BY <2>1, <2>5 DEF AppliedStage
    <3>2. /\ stage' \in [external : BOOLEAN, enabled : BOOLEAN, fault : BOOLEAN]
          /\ stage'.fault /\ ~stage'.enabled
      BY <2>2, <3>1 DEF Tripped
    <3>3. SimStageInv'
      BY <2>3, <3>2 DEF SimStageInv
    <3> QED
      BY <1>0, <2>1, <3>3 DEF SimInputInv
  <2> QED
    BY <2>4, <2>5
<1>5. CASE SettingsApplied
  <2>1. CASE inputs.follow
    <3>1. /\ inputs' = inputs /\ stage' = AppliedStage(stage) /\ plant' = inputs'.load
          /\ latched' = (latched \/ ~inputs'.external)
      BY <1>5, <2>1 DEF SettingsApplied, ApplyInputs
    <3>2. inputs'.external \in BOOLEAN
      BY <1>0, <3>1 DEF SimInputInv
    <3> QED
      BY <1>0, <3>1, <3>2, AppliedStep DEF SimInputInv
  <2>2. CASE ~inputs.follow
    BY <1>0, <1>5, <2>2 DEF SettingsApplied, SimStageInv, SimInputInv
  <2> QED
    BY <2>1, <2>2
<1>6. CASE WriteFollow
  BY <1>0, <1>6 DEF WriteFollow, SimStageInv, SimInputInv
<1>7. CASE UNCHANGED <<stage, latched, inputs, plant>>
  BY <1>0, <1>7 DEF SimStageInv, SimInputInv
<1>8. UNCHANGED simVars \/ WritePaused \/ SetOverride
        => UNCHANGED <<stage, latched, inputs, plant>>
  BY DEF simVars, WritePaused, SetOverride
<1> QED
  BY <1>1, <1>2, <1>3, <1>4, <1>5, <1>6, <1>7, <1>8 DEF SimNext

LEMMA DutyStep == SimInv /\ [SimNext]_simVars => SimDutyInv'
<1> SUFFICES ASSUME SimInv, [SimNext]_simVars
             PROVE  SimDutyInv'
  OBVIOUS
<1>0. SimStageInv /\ SimDutyInv
  BY DEF SimInv
<1>1. CASE OnCycleTimer \/ WriteAdvance
  BY <1>0, <1>1, CycleStep DEF OnCycleTimer, WriteAdvance
<1>2. CASE WriteReset \/ SettingsApplied
  <2>1. planned' = -1 /\ carried' = NoDuty /\ misdriven' = misdriven
    BY <1>2 DEF WriteReset, SettingsApplied, Initialize
  <2>2. NoDuty = <<-1, 3>> /\ -1 \in Int
    BY DEF NoDuty
  <2> QED
    BY <1>0, <2>1, <2>2 DEF SimDutyInv
<1>3. CASE UNCHANGED <<dutyState, misdriven>>
  BY <1>0, <1>3 DEF SimDutyInv, dutyState
<1>4. \/ OnCycleTimer \/ WriteAdvance \/ WriteReset \/ SettingsApplied
      \/ UNCHANGED <<dutyState, misdriven>>
  BY DEF SimNext, PowerStageEnable, PowerStageDisable, PowerStageTrip, PowerStageClearFault,
         WriteInput, WriteFollow, WritePaused, SetOverride, simVars
<1> QED
  BY <1>1, <1>2, <1>3, <1>4

LEMMA SimInitInv == SimInit => SimInv
<1> SUFFICES ASSUME SimInit
             PROVE  SimInv
  OBVIOUS
<1> USE SimCycleAssumption
<1>1. SimStageInv /\ SimInputInv
  BY DEF SimInit, SimStageInv, SimInputInv
<1>2. SimDutyInv
  <2>1. NoDuty = <<-1, 3>> /\ -1 \in Int
    BY DEF NoDuty
  <2> QED
    BY <2>1 DEF SimInit, SimDutyInv
<1>3. SimTimerInv
  <2>1. CycleNs \in Int /\ CycleNs \div TickNs \in Int
    BY DivMod
  <2>2. running \in BOOLEAN /\ paused \in BOOLEAN /\ (running <=> ~paused) /\ ~paused
    BY DEF SimInit
  <2>3. /\ clock = 0 /\ delay = CycleNs \div TickNs /\ elapsedUs = delay
        /\ elapsedNs = CycleNs
    BY DEF SimInit
  <2> QED
    BY <2>1, <2>2, <2>3 DEF SimTimerInv
<1> QED
  BY <1>1, <1>2, <1>3 DEF SimInv

\* For every cycle length and kernel tick, the simulated platform drives nothing after
\* an unacknowledged trip, applies every plan once and in order, keeps the plant on the
\* inputs of the registers, and expires within a tick of a whole number of cycles,
\* through pauses, resets and settings restarts in any order.
THEOREM SimCorrect == SimSpec => []SimLikeHardware
<1>1. SimInv /\ [SimNext]_simVars => SimInv'
  BY TimerStep, StageStep, DutyStep DEF SimInv
<1>2. SimInv => SimLikeHardware
  <2> SUFFICES ASSUME SimInv
               PROVE  SimLikeHardware
    OBVIOUS
  <2> USE SimCycleAssumption
  <2>1. misdriven = {} /\ plant = inputs.load /\ (paused => delay = NoTimer)
    BY DEF SimInv, SimDutyInv, SimInputInv, SimTimerInv
  <2>2. ASSUME delay # NoTimer
        PROVE  (clock + delay) * TickNs \in (elapsedNs - TickNs + 1)..elapsedNs
    <3> DEFINE q == elapsedNs \div TickNs
               r == elapsedNs % TickNs
    <3>1. elapsedNs \in Int /\ TickNs \in Nat \ {0}
      BY DEF SimInv, SimTimerInv
    <3>2. q \in Int /\ r \in 0..(TickNs - 1) /\ elapsedNs = q * TickNs + r
      BY <3>1, DivMod
    <3>3. clock + delay = q
      BY <2>2 DEF SimInv, SimTimerInv
    <3> HIDE DEF q, r
    <3>4. q * TickNs \in Int
      BY <3>1, <3>2
    <3>5. q * TickNs \in (elapsedNs - TickNs + 1)..elapsedNs
      BY <3>1, <3>2, <3>4
    <3> QED
      BY <3>3, <3>5
  <2> QED
    BY <2>1, <2>2 DEF SimLikeHardware
<1> QED
  BY <1>1, <1>2, SimInitInv, PTL DEF SimSpec

-----------------------------------------------------------------------------
(* DutyPipeline                                                            *)

\* Boundaries and triggers so far, in a control cycle of four.
Triggers == IF next = "trigger" THEN burst ELSE (burst + 1) % 4

\* Boundaries, triggers and sample interrupts keep in step unless a sample is lost.
DutyInStep ==
    /\ down <=> burst \in {1, 3}
    /\ driver # "on" => pc = "idle"
    /\ driver = "halted" => ~irq
    /\ pc # "idle" => index = 0
    /\ driver = "on" /\ ~skewed => index = (Triggers + (IF irq THEN 2 ELSE 3)) % 4

\* The last plan was neither counted as an overrun nor passed by an update.
PlanGood == ~counted /\ raced = 0

\* Sample s fits the record of place k.  The entries 1 and 2 of the record are the ones
\* that an overrun or a passed write can spoil.
SampleFits(s, k) ==
    /\ s.peak <=> k \in {1, 3}
    /\ k \in {0, 3} \/ PlanGood => s.duty = applied[k]

\* Between two calls: slots, preload and duty are those of the record, by how far the
\* bursts have come, and so are the samples taken since.
PlanInForce ==
    /\ dmaSlots[1] = applied[2] /\ dmaSlots[2] = applied[3] /\ dmaSlots[3] = lastEntry
    /\ burst = 0 /\ index = 0 =>
        preload = applied[0] /\ (PlanGood => dmaSlots[0] = applied[1])
    /\ burst = 1 /\ index # 3 => duty = applied[0] /\ (PlanGood => preload = applied[1])
    /\ burst = 2 /\ PlanGood => duty = applied[1] /\ preload = applied[2]
    /\ burst = 3 => preload = applied[3] /\ (PlanGood => duty = applied[2])
    /\ burst = 0 /\ index # 0 => duty = applied[3] /\ preload = lastEntry
    /\ burst = 1 /\ index = 3 => duty = lastEntry
    /\ irq => SampleFits(sampled, index)
    /\ \A k \in HalfPeriods : k < index => SampleFits(taken[k], k)

\* In the control cycle and SetDutyTicks(): the last entry of the old plan is in effect
\* from the control boundary on; an early write that no update has passed meets the
\* burst of slot 0, a normal one follows it; and a recorded plan that is neither
\* counted nor passed has reached the bridge as far as the bursts have come.
PlanChanges ==
    /\ burst = 0 => preload = lastEntry
    /\ burst = 1 => duty = lastEntry
    /\ irq => sampled.duty = lastEntry /\ ~sampled.peak
    /\ pc = "control" => \A k \in HalfPeriods : SampleFits(taken[k], k)
    /\ pc \in {"direction", "slots", "entry"} /\ remaining = 0 /\ raced < 2 =>
        burst = 0 /\ (pc # "direction" => ~countingDown)
    /\ pc \in {"direction", "slots", "entry", "recheck"} /\ remaining = 1 =>
        burst >= 1 /\ (burst = 1 /\ pc # "direction" => countingDown)
    /\ pc \in {"entry", "recheck", "record"} =>
        \A k \in HalfPeriods : k # 0 => dmaSlots[k] = ticks[k]
    /\ pc = "recheck" => remaining = 1 /\ (burst = 1 => preload = ticks[0])
    /\ pc = "record" /\ ~overrun /\ raced < 2 =>
        /\ atPeak
        /\ burst = 0 => dmaSlots[0] = ticks[0]
        /\ burst = 1 => preload = ticks[0]
        /\ burst = 2 => duty = ticks[0] /\ preload = ticks[1]

\* The record is right about the boundary type after a good plan (and, for the restart
\* that keeps it, with the driver stopped), and the plan is where it should be.
DutyDataInv ==
    /\ ~skewed /\ pc \in {"idle", "control"} /\ PlanGood => atPeak
    /\ driver = "on" /\ ~skewed /\ pc = "idle" => PlanInForce
    /\ driver = "on" /\ ~skewed /\ pc # "idle" => PlanChanges

DutyInv == DutyTypeOK /\ DutyInStep /\ DutyDataInv

LEMMA TicksTyped ==
    ASSUME plan \in 0..(PlanNumbers - 1)
    PROVE  ticks \in [HalfPeriods -> Entries]
  BY DEF ticks, Entries

LEMMA DutyTypeStep == DutyTypeOK /\ [DutyNext]_dutyVars => DutyTypeOK'
<1> SUFFICES ASSUME DutyTypeOK, [DutyNext]_dutyVars
             PROVE  DutyTypeOK'
  OBVIOUS
<1> USE DutyPipelineAssumption
<1>0. /\ Neutral \in Entries /\ 0 \in HalfPeriods /\ 1 \in HalfPeriods /\ 3 \in HalfPeriods
      /\ 0 \in 0..MaxSpan /\ 0 \in 0..(PlanNumbers - 1) /\ 0 \in 0..2
  BY DEF Entries, HalfPeriods
<1>1. ticks \in [HalfPeriods -> Entries] /\ ticks[0] \in Entries /\ ticks[3] \in Entries
  BY <1>0, TicksTyped DEF DutyTypeOK
<1>2. NoSamples \in [HalfPeriods -> Sample]
  BY <1>0 DEF NoSamples, Sample
<1>3. \A n \in HalfPeriods : (n + 1) % 4 \in HalfPeriods
  BY DEF HalfPeriods
<1>4. CASE Trigger
  <2>1. sampled' \in Sample
    BY <1>4 DEF Trigger, DutyTypeOK, Sample
  <2>2. irq' \in BOOLEAN /\ skewed' \in BOOLEAN
    BY <1>4 DEF Trigger, DutyTypeOK
  <2> QED
    BY <1>4, <2>1, <2>2 DEF Trigger, DutyTypeOK, callVars, recordVars
<1>5. CASE Boundary
  <2>1. preload' \in Entries /\ duty' \in Entries /\ burst' \in HalfPeriods
    BY <1>3, <1>5 DEF Boundary, DutyTypeOK
  <2>2. span' \in 0..MaxSpan /\ raced' \in 0..2
    BY <1>5 DEF Boundary, DutyTypeOK
  <2>3. down' \in BOOLEAN
    BY <1>5 DEF Boundary
  <2> QED
    BY <1>5, <2>1, <2>2, <2>3 DEF Boundary, DutyTypeOK, callVars, recordVars
<1>6. CASE SampleIsr
  <2>1. taken' \in [HalfPeriods -> Sample] /\ index' \in HalfPeriods
    BY <1>3, <1>6 DEF SampleIsr, DutyTypeOK
  <2>2. span' \in 0..MaxSpan
    BY <1>6 DEF SampleIsr, DutyTypeOK
  <2> QED
    BY <1>6, <2>1, <2>2
    DEF SampleIsr, DutyTypeOK, timerVars, callVars, recordVars, historyVars
<1>7. CASE ReadRemaining \/ ReadDirection \/ Recheck \/ Late
  <2>1. overrun' \in BOOLEAN /\ countingDown' \in BOOLEAN /\ atPeak' \in BOOLEAN
    BY <1>7 DEF ReadRemaining, ReadDirection, Recheck, Late, DutyTypeOK, recordVars
  <2> QED
    BY <1>7, <2>1 DEF ReadRemaining, ReadDirection, Recheck, Late, Call, DutyTypeOK,
                 timerVars, recordVars
<1>8. CASE WriteSlots
  <2>1. dmaSlots' \in [HalfPeriods -> Entries]
    BY <1>0, <1>1, <1>8 DEF WriteSlots, DutyTypeOK
  <2> QED
    BY <1>8, <2>1 DEF WriteSlots, Call, DutyTypeOK, timerVars, callVars, recordVars
<1>9. CASE WritePreload
  <2>1. dmaSlots' \in [HalfPeriods -> Entries] /\ preload' \in Entries
    BY <1>0, <1>1, <1>9 DEF WritePreload, DutyTypeOK
  <2> QED
    BY <1>9, <2>1 DEF WritePreload, DutyTypeOK, callVars, recordVars, historyVars
<1>10. CASE WriteSlotZero
  <2>1. dmaSlots' \in [HalfPeriods -> Entries] /\ atPeak' \in BOOLEAN
    BY <1>0, <1>1, <1>10 DEF WriteSlotZero, DutyTypeOK
  <2> QED
    BY <1>10, <2>1 DEF WriteSlotZero, Call, DutyTypeOK, timerVars, callVars
<1>11. CASE RecordPlan
  <2>1. applied' \in [HalfPeriods -> Entries]
    <3>1. \A k \in HalfPeriods : k # 0 => k - 1 \in HalfPeriods
      BY DEF HalfPeriods
    <3> QED
      BY <1>1, <1>11, <3>1 DEF RecordPlan, Recorded, DutyTypeOK
  <2>2. plan' \in 0..(PlanNumbers - 1)
    <3>1. plan \in Nat
      BY DEF DutyTypeOK
    <3> QED
      BY <1>11, <3>1 DEF RecordPlan
  <2>3. counted' \in BOOLEAN /\ raced' \in 0..2
    BY <1>11 DEF RecordPlan, Decayed, DutyTypeOK
  <2> QED
    BY <1>0, <1>1, <1>2, <1>11, <2>1, <2>2, <2>3
    DEF RecordPlan, DutyTypeOK, timerVars
<1>12. CASE StopInterrupts \/ HaltTimer
  <2>1. CASE StopInterrupts
    BY <2>1, ZenonT(60) DEF StopInterrupts, DutyTypeOK, timerVars, callVars, recordVars, historyVars
  <2>2. CASE HaltTimer
    BY <2>2, ZenonT(60) DEF HaltTimer, DutyTypeOK, timerVars, callVars, recordVars, historyVars
  <2> QED
    BY <1>12, <2>1, <2>2
<1>13. CASE InitializeDriver
  <2>1. raced' \in 0..2
    BY <1>13 DEF InitializeDriver
  <2>2. [k \in HalfPeriods |-> Neutral] \in [HalfPeriods -> Entries]
    BY <1>0
  <2> QED
    BY <1>0, <1>2, <1>13, <2>1, <2>2 DEF InitializeDriver, Start, DutyTypeOK, callVars
<1>14. CASE UNCHANGED dutyVars
  BY <1>14 DEF dutyVars, DutyTypeOK, timerVars, callVars, recordVars, historyVars
<1> QED
  BY <1>4, <1>5, <1>6, <1>7, <1>8, <1>9, <1>10, <1>11, <1>12, <1>13, <1>14 DEF DutyNext

LEMMA DutyInStepStep == DutyTypeOK /\ DutyInStep /\ [DutyNext]_dutyVars => DutyInStep'
<1> SUFFICES ASSUME DutyTypeOK, DutyInStep, [DutyNext]_dutyVars
             PROVE  DutyInStep'
  OBVIOUS
<1> USE DEF HalfPeriods
<1>0. burst \in 0..3 /\ index \in 0..3
  BY DEF DutyTypeOK
<1>1. CASE Trigger
  BY <1>0, <1>1 DEF Trigger, DutyInStep, DutyTypeOK, Triggers
<1>2. CASE Boundary
  <2>1. /\ burst' = (burst + 1) % 4 /\ down' = ~down
        /\ next = "boundary" /\ next' = "trigger" /\ driver # "halted"
        /\ UNCHANGED <<driver, pc, irq, index, skewed>>
    BY <1>2 DEF Boundary
  <2>2. down' <=> burst' \in {1, 3}
    <3>1. burst' \in {1, 3} <=> burst \notin {1, 3}
      BY <1>0, <2>1
    <3>2. down' <=> ~down
      BY <2>1
    <3> QED
      BY <3>1, <3>2 DEF DutyInStep
  <2>3. Triggers' = Triggers
    BY <2>1 DEF Triggers
  <2> QED
    BY <2>1, <2>2, <2>3 DEF DutyInStep
<1>3. CASE SampleIsr
  BY <1>0, <1>3 DEF SampleIsr, DutyInStep, DutyTypeOK, Triggers, timerVars, historyVars
<1>4. CASE InitializeDriver
  BY <1>4 DEF InitializeDriver, DutyInStep, Triggers, Start
<1>5. CASE StopInterrupts \/ HaltTimer
  BY <1>5 DEF StopInterrupts, HaltTimer, DutyInStep, Triggers, timerVars, historyVars
<1>6. CASE /\ UNCHANGED <<driver, next, down, burst, irq, index, skewed>>
           /\ pc = "idle" => pc' = "idle"
           /\ driver # "on" => pc' = "idle"
  BY <1>6 DEF DutyInStep, Triggers
<1>7. \/ Trigger \/ Boundary \/ SampleIsr \/ InitializeDriver \/ StopInterrupts \/ HaltTimer
      \/ /\ UNCHANGED <<driver, next, down, burst, irq, index, skewed>>
         /\ pc = "idle" => pc' = "idle"
         /\ driver # "on" => pc' = "idle"
  BY DEF DutyNext, ReadRemaining, ReadDirection, WriteSlots, WritePreload, Recheck,
         WriteSlotZero, Late, RecordPlan, Call, DutyInStep, dutyVars, timerVars, historyVars
<1> QED
  BY <1>1, <1>2, <1>3, <1>4, <1>5, <1>6, <1>7

\* Where the timer can be, for the interrupts taken so far.
LEMMA DutyPlaces ==
    ASSUME DutyTypeOK, DutyInStep, driver = "on", ~skewed
    PROVE  /\ ~irq /\ next = "trigger" =>
                \/ (burst = 0 /\ index = 3) \/ (burst = 1 /\ index = 0)
                \/ (burst = 2 /\ index = 1) \/ (burst = 3 /\ index = 2)
           /\ ~irq /\ next = "boundary" =>
                \/ (burst = 0 /\ index = 0) \/ (burst = 1 /\ index = 1)
                \/ (burst = 2 /\ index = 2) \/ (burst = 3 /\ index = 3)
           /\ irq /\ next = "trigger" =>
                \/ (burst = 0 /\ index = 2) \/ (burst = 1 /\ index = 3)
                \/ (burst = 2 /\ index = 0) \/ (burst = 3 /\ index = 1)
           /\ irq /\ next = "boundary" =>
                \/ (burst = 0 /\ index = 3) \/ (burst = 1 /\ index = 0)
                \/ (burst = 2 /\ index = 1) \/ (burst = 3 /\ index = 2)
<1>1. burst \in 0..3 /\ index \in 0..3 /\ irq \in BOOLEAN
  BY DEF DutyTypeOK, HalfPeriods
<1>2. index = (Triggers + (IF irq THEN 2 ELSE 3)) % 4
  BY DEF DutyInStep
<1>3. burst \in {0, 1, 2, 3}
  BY <1>1
<1>4. Triggers = IF next = "trigger" THEN burst ELSE IF burst = 3 THEN 0 ELSE burst + 1
  BY <1>3 DEF Triggers
<1>5. Triggers \in {0, 1, 2, 3}
  BY <1>3, <1>4
<1>6. /\ ~irq => index = IF Triggers = 0 THEN 3 ELSE Triggers - 1
      /\ irq => index = IF Triggers < 2 THEN Triggers + 2 ELSE Triggers - 2
  <2> HIDE DEF Triggers
  <2> QED
    BY <1>2, <1>5
<1> QED
  BY <1>3, <1>4, <1>6

LEMMA TriggerKeeps == DutyInv /\ Trigger => DutyDataInv'
<1> SUFFICES ASSUME DutyInv, Trigger
             PROVE  DutyDataInv'
  OBVIOUS
<1>0. DutyTypeOK /\ DutyInStep /\ DutyDataInv
  BY DEF DutyInv
<1>1. /\ next = "trigger" /\ irq'
      /\ sampled' = [duty |-> duty, peak |-> ~down]
      /\ skewed' = (skewed \/ (irq /\ driver = "on"))
      /\ UNCHANGED <<driver, down, burst, preload, duty, dmaSlots, index, taken, pc,
                     remaining, countingDown, overrun, plan, applied, lastEntry, atPeak,
                     counted, raced>>
  BY DEF Trigger, callVars, recordVars
<1>2. PlanGood' = PlanGood /\ ticks' = ticks
  BY <1>1 DEF PlanGood, ticks
<1>3. ~skewed' /\ pc' \in {"idle", "control"} /\ PlanGood' => atPeak'
  BY <1>0, <1>1, <1>2 DEF DutyDataInv
<1>4. ASSUME driver' = "on", ~skewed'
      PROVE  /\ pc' = "idle" => PlanInForce'
             /\ pc' # "idle" => PlanChanges'
  <2>1. driver = "on" /\ ~skewed /\ ~irq
    BY <1>1, <1>4
  <2>2. /\ \/ (burst = 0 /\ index = 3) \/ (burst = 1 /\ index = 0)
           \/ (burst = 2 /\ index = 1) \/ (burst = 3 /\ index = 2)
        /\ down <=> burst \in {1, 3}
        /\ pc # "idle" => index = 0
    BY <1>0, <1>1, <2>1, DutyPlaces DEF DutyInStep
  <2>3. sampled'.duty = duty /\ (sampled'.peak <=> ~down)
    BY <1>1
  <2>4. ASSUME pc = "idle"
        PROVE  PlanInForce'
    <3>1. PlanInForce
      BY <1>0, <2>1, <2>4 DEF DutyDataInv
    <3>2. SampleFits(sampled, index)'
      BY <1>1, <1>2, <2>2, <2>3, <3>1 DEF SampleFits, PlanInForce
    <3>3. \A k \in HalfPeriods : k < index' => SampleFits(taken[k], k)'
      BY <1>1, <1>2, <3>1 DEF SampleFits, PlanInForce
    <3> QED
      BY <1>1, <1>2, <3>1, <3>2, <3>3 DEF PlanInForce
  <2>5. ASSUME pc # "idle"
        PROVE  PlanChanges'
    <3>1. PlanChanges
      BY <1>0, <2>1, <2>5 DEF DutyDataInv
    <3>2. sampled'.duty = lastEntry' /\ ~sampled'.peak
      BY <1>1, <2>2, <2>3, <2>5, <3>1 DEF PlanChanges
    <3>3. pc' = "control" => \A k \in HalfPeriods : SampleFits(taken[k], k)'
      BY <1>1, <1>2, <3>1 DEF SampleFits, PlanChanges
    <3> QED
      BY <1>1, <1>2, <3>1, <3>2, <3>3 DEF PlanChanges
  <2> QED
    BY <1>1, <2>4, <2>5
<1> QED
  BY <1>3, <1>4 DEF DutyDataInv

LEMMA BoundaryKeeps == DutyInv /\ Boundary => DutyDataInv'
<1> SUFFICES ASSUME DutyInv, Boundary
             PROVE  DutyDataInv'
  OBVIOUS
<1> USE DEF HalfPeriods
<1>0. DutyTypeOK /\ DutyInStep /\ DutyDataInv
  BY DEF DutyInv
<1>1. /\ next = "boundary"
      /\ duty' = preload /\ preload' = dmaSlots[burst] /\ burst' = (burst + 1) % 4
      /\ raced' = IF pc \in {"direction", "slots", "entry"} /\ remaining = 0
                  THEN 2 ELSE raced
      /\ UNCHANGED <<driver, dmaSlots, sampled, irq, index, taken, pc,
                     remaining, countingDown, overrun, plan, applied, lastEntry, atPeak,
                     counted, skewed>>
  BY DEF Boundary, callVars, recordVars
<1>2. ticks' = ticks
  BY <1>1 DEF ticks
<1>3. pc \in {"idle", "control"} => PlanGood' = PlanGood
  BY <1>1 DEF PlanGood
<1>4. ~skewed' /\ pc' \in {"idle", "control"} /\ PlanGood' => atPeak'
  BY <1>0, <1>1, <1>3 DEF DutyDataInv
<1>5. ASSUME driver' = "on", ~skewed'
      PROVE  /\ pc' = "idle" => PlanInForce'
             /\ pc' # "idle" => PlanChanges'
  <2>1. driver = "on" /\ ~skewed
    BY <1>1, <1>5
  <2>2. /\ ~irq => \/ (burst = 0 /\ index = 0) \/ (burst = 1 /\ index = 1)
                   \/ (burst = 2 /\ index = 2) \/ (burst = 3 /\ index = 3)
        /\ irq => \/ (burst = 0 /\ index = 3) \/ (burst = 1 /\ index = 0)
                  \/ (burst = 2 /\ index = 1) \/ (burst = 3 /\ index = 2)
        /\ pc # "idle" => index = 0
    BY <1>0, <1>1, <2>1, DutyPlaces DEF DutyInStep
  <2>3. /\ burst = 0 => burst' = 1 /\ preload' = dmaSlots[0]
        /\ burst = 1 => burst' = 2 /\ preload' = dmaSlots[1]
        /\ burst = 2 => burst' = 3 /\ preload' = dmaSlots[2]
        /\ burst = 3 => burst' = 0 /\ preload' = dmaSlots[3]
    BY <1>1
  <2>4. ASSUME pc = "idle"
        PROVE  PlanInForce'
    <3>1. PlanInForce
      BY <1>0, <2>1, <2>4 DEF DutyDataInv
    <3>2. irq' => SampleFits(sampled, index)'
      BY <1>1, <1>3, <2>4, <3>1 DEF SampleFits, PlanInForce
    <3>3. \A k \in HalfPeriods : k < index' => SampleFits(taken[k], k)'
      BY <1>1, <1>3, <2>4, <3>1 DEF SampleFits, PlanInForce
    <3>4. CASE burst = 0
      BY <1>1, <1>3, <2>2, <2>3, <2>4, <3>1, <3>2, <3>3, <3>4 DEF PlanInForce
    <3>5. CASE burst = 1
      BY <1>1, <1>3, <2>2, <2>3, <2>4, <3>1, <3>2, <3>3, <3>5 DEF PlanInForce
    <3>6. CASE burst = 2
      BY <1>1, <1>3, <2>2, <2>3, <2>4, <3>1, <3>2, <3>3, <3>6 DEF PlanInForce
    <3>7. CASE burst = 3
      BY <1>1, <1>3, <2>2, <2>3, <2>4, <3>1, <3>2, <3>3, <3>7 DEF PlanInForce
    <3> QED
      BY <2>2, <3>4, <3>5, <3>6, <3>7 DEF DutyTypeOK
  <2>5. ASSUME pc # "idle"
        PROVE  PlanChanges'
    <3>1. PlanChanges
      BY <1>0, <2>1, <2>5 DEF DutyDataInv
    <3>2. (burst = 0 /\ burst' = 1) \/ (burst = 1 /\ burst' = 2)
      BY <1>0, <2>2, <2>3, <2>5 DEF DutyTypeOK
    <3>3. pc' = "control" => \A k \in HalfPeriods : SampleFits(taken[k], k)'
      BY <1>1, <1>3, <3>1 DEF SampleFits, PlanChanges
    <3>4. pc \in {"entry", "recheck", "record"} => dmaSlots[1] = ticks[1]
      BY <3>1 DEF PlanChanges
    <3> QED
      BY <1>1, <1>2, <2>3, <3>1, <3>2, <3>3, <3>4 DEF PlanChanges
  <2> QED
    BY <1>1, <2>4, <2>5
<1> QED
  BY <1>4, <1>5 DEF DutyDataInv

LEMMA SampleIsrKeeps == DutyInv /\ SampleIsr => DutyDataInv'
<1> SUFFICES ASSUME DutyInv, SampleIsr
             PROVE  DutyDataInv'
  OBVIOUS
<1> USE DEF HalfPeriods
<1>0. DutyTypeOK /\ DutyInStep /\ DutyDataInv
  BY DEF DutyInv
<1>1. /\ driver = "on" /\ irq /\ pc = "idle" /\ ~irq'
      /\ taken' = [taken EXCEPT ![index] = sampled]
      /\ index' = (index + 1) % 4
      /\ pc' = IF index < 3 THEN "idle" ELSE "control"
      /\ UNCHANGED <<driver, next, down, burst, preload, duty, dmaSlots, remaining,
                     countingDown, overrun, plan, applied, lastEntry, atPeak,
                     counted, raced, skewed>>
  BY DEF SampleIsr, timerVars, callVars, recordVars, historyVars
<1>2. PlanGood' = PlanGood /\ index \in 0..3 /\ taken \in [0..3 -> Sample]
  BY <1>0, <1>1 DEF PlanGood, DutyTypeOK
<1>3. ~skewed' /\ pc' \in {"idle", "control"} /\ PlanGood' => atPeak'
  BY <1>0, <1>1, <1>2 DEF DutyDataInv
<1>4. ASSUME ~skewed'
      PROVE  /\ pc' = "idle" => PlanInForce'
             /\ pc' # "idle" => PlanChanges'
  <2>1. PlanInForce /\ ~skewed
    BY <1>0, <1>1, <1>4 DEF DutyDataInv
  <2>2. \/ (burst = 0 /\ index = 2) \/ (burst = 1 /\ index = 3)
        \/ (burst = 2 /\ index = 0) \/ (burst = 3 /\ index = 1)
        \/ (burst = 0 /\ index = 3) \/ (burst = 1 /\ index = 0)
        \/ (burst = 2 /\ index = 1) \/ (burst = 3 /\ index = 2)
    BY <1>0, <1>1, <2>1, DutyPlaces DEF DutyTypeOK
  <2>3. \A k \in 0..3 : k <= index => SampleFits(taken[k], k)'
    <3> TAKE k \in 0..3
    <3>1. CASE k = index
      BY <1>1, <1>2, <2>1, <3>1 DEF SampleFits, PlanInForce
    <3>2. CASE k < index
      BY <1>1, <1>2, <2>1, <3>2 DEF SampleFits, PlanInForce
    <3> QED
      BY <1>2, <3>1, <3>2
  <2>4. CASE index < 3
    <3>1. pc' = "idle" /\ index' = index + 1
      BY <1>1, <1>2, <2>4
    <3>2. \A k \in HalfPeriods : k < index' => SampleFits(taken[k], k)'
      BY <1>2, <2>3, <3>1
    <3> QED
      BY <1>1, <1>2, <2>1, <2>2, <2>4, <3>1, <3>2 DEF PlanInForce
  <2>5. CASE index = 3
    <3>1. pc' = "control" /\ (burst = 0 \/ burst = 1)
      BY <1>1, <2>2, <2>5
    <3>2. \A k \in HalfPeriods : SampleFits(taken[k], k)'
      BY <2>3, <2>5
    <3> QED
      BY <1>1, <2>1, <2>5, <3>1, <3>2 DEF PlanInForce, PlanChanges
  <2> QED
    BY <1>2, <2>4, <2>5
<1> QED
  BY <1>3, <1>4 DEF DutyDataInv

\* The accesses of SetDutyTicks() before the plan is recorded.
LEMMA CallKeeps ==
    DutyInv /\ (\/ ReadRemaining \/ ReadDirection \/ WriteSlots \/ WritePreload
                \/ Recheck \/ WriteSlotZero \/ Late)
        => DutyDataInv'
<1> SUFFICES ASSUME DutyInv,
                    \/ ReadRemaining \/ ReadDirection \/ WriteSlots \/ WritePreload
                    \/ Recheck \/ WriteSlotZero \/ Late
             PROVE  DutyDataInv'
  OBVIOUS
<1> USE DEF HalfPeriods
<1>0. DutyTypeOK /\ DutyInStep /\ DutyDataInv
  BY DEF DutyInv
<1>1. /\ pc \in {"control", "direction", "slots", "entry", "recheck"}
      /\ pc' \in {"direction", "slots", "entry", "recheck", "record"}
      /\ UNCHANGED <<driver, burst, down, duty, sampled, irq, index, taken, plan, applied,
                     lastEntry, raced, counted, skewed>>
  BY DEF ReadRemaining, ReadDirection, WriteSlots, WritePreload, Recheck, WriteSlotZero,
         Late, Call, timerVars, recordVars, historyVars
<1>2. driver = "on" /\ index = 0 /\ ticks' = ticks
  BY <1>0, <1>1 DEF DutyInStep, ticks
<1>3. ASSUME ~skewed'
      PROVE  PlanChanges'
  <2>1. PlanChanges /\ ~skewed
    BY <1>0, <1>1, <1>2, <1>3 DEF DutyDataInv
  <2>2. burst \in {0, 1, 2}
    BY <1>0, <1>2, <2>1, DutyPlaces DEF DutyTypeOK
  <2>3. down <=> burst = 1
    BY <1>0, <2>2 DEF DutyInStep
  <2>4. dmaSlots \in [0..3 -> Entries] /\ raced \in 0..2
    BY <1>0 DEF DutyTypeOK
  <2>5. CASE ReadRemaining
    <3>1. /\ pc' = "direction" /\ remaining' = burst
          /\ UNCHANGED <<preload, dmaSlots>>
      BY <2>5 DEF ReadRemaining, Call, timerVars
    <3> QED
      BY <1>1, <1>2, <2>1, <2>2, <3>1 DEF PlanChanges
  <2>6. CASE ReadDirection
    <3>1. /\ pc = "direction" /\ pc' = "slots" /\ countingDown' = down
          /\ UNCHANGED <<preload, dmaSlots, remaining>>
      BY <2>6 DEF ReadDirection, Call, timerVars
    <3>2. countingDown' <=> burst = 1
      BY <2>3, <3>1
    <3> QED
      BY <1>1, <1>2, <2>1, <2>2, <3>1, <3>2 DEF PlanChanges
  <2>7. CASE WriteSlots
    <3>1. /\ pc = "slots" /\ pc' = "entry"
          /\ dmaSlots' = [k \in HalfPeriods |-> IF k = 0 THEN dmaSlots[0] ELSE ticks[k]]
          /\ UNCHANGED <<preload, remaining, countingDown>>
      BY <2>7 DEF WriteSlots, Call, timerVars, callVars
    <3>2. \A k \in HalfPeriods : k # 0 => dmaSlots'[k] = ticks'[k]
      BY <1>2, <3>1
    <3> QED
      BY <1>1, <1>2, <2>1, <3>1, <3>2 DEF PlanChanges
  <2>8. CASE WritePreload
    <3>1. /\ pc = "entry" /\ pc' = "recheck" /\ remaining = 1 /\ preload' = ticks[0]
          /\ dmaSlots' = [dmaSlots EXCEPT ![0] = ticks[3]]
          /\ UNCHANGED <<remaining, countingDown>>
      BY <2>8 DEF WritePreload, callVars
    <3>2. \A k \in HalfPeriods : k # 0 => dmaSlots'[k] = ticks'[k]
      BY <1>2, <2>1, <2>4, <3>1 DEF PlanChanges
    <3>3. burst >= 1
      BY <2>1, <3>1 DEF PlanChanges
    <3> QED
      BY <1>1, <1>2, <2>1, <3>1, <3>2, <3>3 DEF PlanChanges
  <2>9. CASE Recheck
    <3>1. /\ pc = "recheck" /\ pc' = "record"
          /\ overrun' = (burst # remaining) /\ atPeak' = countingDown
          /\ UNCHANGED <<preload, dmaSlots>>
      BY <2>9 DEF Recheck, Call, timerVars
    <3>2. \A k \in HalfPeriods : k # 0 => dmaSlots'[k] = ticks'[k]
      BY <1>2, <2>1, <3>1 DEF PlanChanges
    <3>3. ~overrun' => burst = 1 /\ preload' = ticks'[0] /\ atPeak'
      BY <1>2, <2>1, <3>1 DEF PlanChanges
    <3> QED
      BY <1>1, <1>2, <2>1, <3>1, <3>2, <3>3 DEF PlanChanges
  <2>10. CASE WriteSlotZero
    <3>1. /\ pc = "entry" /\ pc' = "record" /\ remaining = 0
          /\ dmaSlots' = [dmaSlots EXCEPT ![0] = ticks[0]]
          /\ atPeak' = ~countingDown /\ preload' = preload
      BY <2>10 DEF WriteSlotZero, Call, timerVars
    <3>2. \A k \in HalfPeriods : k # 0 => dmaSlots'[k] = ticks'[k]
      BY <1>2, <2>1, <2>4, <3>1 DEF PlanChanges
    <3>3. raced < 2 => burst = 0 /\ ~countingDown
      BY <2>1, <3>1 DEF PlanChanges
    <3>4. dmaSlots'[0] = ticks'[0]
      BY <1>2, <2>4, <3>1
    <3>5. atPeak' <=> ~countingDown
      BY <3>1
    <3> QED
      BY <1>1, <1>2, <2>1, <3>1, <3>2, <3>3, <3>4, <3>5 DEF PlanChanges
  <2>11. CASE Late
    <3>1. pc = "entry" /\ pc' = "record" /\ overrun' /\ UNCHANGED <<preload, dmaSlots>>
      BY <2>11 DEF Late, Call, timerVars
    <3> QED
      BY <1>1, <1>2, <2>1, <3>1 DEF PlanChanges
  <2> QED
    BY <2>5, <2>6, <2>7, <2>8, <2>9, <2>10, <2>11
<1> QED
  BY <1>1, <1>3 DEF DutyDataInv

LEMMA RecordPlanKeeps == DutyInv /\ RecordPlan => DutyDataInv'
<1> SUFFICES ASSUME DutyInv, RecordPlan
             PROVE  DutyDataInv'
  OBVIOUS
<1> USE DEF HalfPeriods
<1>0. DutyTypeOK /\ DutyInStep /\ DutyDataInv
  BY DEF DutyInv
<1>1. /\ pc = "record" /\ pc' = "idle"
      /\ applied' = Recorded /\ lastEntry' = ticks[3]
      /\ counted' = overrun
      /\ raced' = Decayed(raced)
      /\ UNCHANGED <<driver, burst, preload, duty, sampled, dmaSlots, irq, index, atPeak,
                     skewed>>
  BY DEF RecordPlan, timerVars
<1>2. driver = "on" /\ index = 0
  BY <1>0, <1>1 DEF DutyInStep
<1>3. /\ applied'[0] = lastEntry /\ applied'[1] = ticks[0]
      /\ applied'[2] = ticks[1] /\ applied'[3] = ticks[2]
  BY <1>1 DEF Recorded
<1>4. PlanGood' => ~overrun /\ raced < 2
  BY <1>0, <1>1 DEF PlanGood, Decayed, DutyTypeOK
<1>5. ASSUME ~skewed'
      PROVE  PlanInForce' /\ (PlanGood' => atPeak')
  <2>1. PlanChanges /\ ~skewed
    BY <1>0, <1>1, <1>2, <1>5 DEF DutyDataInv
  <2>2. burst \in {0, 1, 2}
    BY <1>0, <1>2, <2>1, DutyPlaces DEF DutyTypeOK
  <2>3. dmaSlots[1] = ticks[1] /\ dmaSlots[2] = ticks[2] /\ dmaSlots[3] = ticks[3]
    BY <1>1, <2>1 DEF PlanChanges
  <2>4. irq' => SampleFits(sampled, index)'
    BY <1>1, <1>2, <1>3, <2>1 DEF SampleFits, PlanChanges
  <2>5. \A k \in HalfPeriods : ~(k < index')
    BY <1>1, <1>2
  <2>6. PlanGood' => /\ atPeak
                     /\ burst = 0 => dmaSlots[0] = ticks[0]
                     /\ burst = 1 => preload = ticks[0]
                     /\ burst = 2 => duty = ticks[0] /\ preload = ticks[1]
    BY <1>1, <1>4, <2>1 DEF PlanChanges
  <2> QED
    BY <1>1, <1>2, <1>3, <2>1, <2>2, <2>3, <2>4, <2>5, <2>6 DEF PlanInForce, PlanChanges
<1> QED
  BY <1>1, <1>5 DEF DutyDataInv

LEMMA NeutralFits ==
    ASSUME NEW k \in HalfPeriods
    PROVE  NoSamples[k].duty = Neutral /\ (NoSamples[k].peak <=> k \in {1, 3})
<1>1. NoSamples[k] = [duty |-> Neutral, peak |-> (k % 2 = 1)]
  BY DEF NoSamples
<1>2. NoSamples[k].duty = Neutral
  BY <1>1
<1>3. NoSamples[k].peak = (k % 2 = 1)
  BY <1>1
<1>4. k % 2 = 1 <=> k \in {1, 3}
  BY DEF HalfPeriods
<1> QED
  BY <1>2, <1>3, <1>4

LEMMA RestartKeeps ==
    DutyInv /\ (StopInterrupts \/ HaltTimer \/ InitializeDriver) => DutyDataInv'
<1> SUFFICES ASSUME DutyInv, StopInterrupts \/ HaltTimer \/ InitializeDriver
             PROVE  DutyDataInv'
  OBVIOUS
<1>0. DutyTypeOK /\ DutyInStep /\ DutyDataInv
  BY DEF DutyInv
<1>1. CASE StopInterrupts \/ HaltTimer
  BY <1>0, <1>1 DEF StopInterrupts, HaltTimer, DutyDataInv, PlanGood, recordVars, historyVars
<1>2. CASE InitializeDriver
  <2>1. /\ burst' = 0 /\ index' = 3 /\ preload' = Neutral /\ duty' = Neutral
        /\ dmaSlots' = [k \in HalfPeriods |-> Neutral]
        /\ taken' = NoSamples /\ applied' = [k \in HalfPeriods |-> Neutral]
        /\ lastEntry' = Neutral /\ pc' = "idle" /\ ~irq'
        /\ raced' = IF counted \/ raced > 0 \/ skewed THEN 1 ELSE 0
        /\ atPeak' = atPeak
    BY <1>0, <1>2 DEF InitializeDriver, Start, DutyInStep
  <2>2. PlanInForce'
    <3>1. \A k \in HalfPeriods : SampleFits(taken[k], k)'
      BY <2>1, NeutralFits DEF SampleFits
    <3>2. /\ \A k \in HalfPeriods : dmaSlots'[k] = Neutral /\ applied'[k] = Neutral
          /\ {0, 1, 2, 3} \subseteq HalfPeriods
      BY <2>1 DEF HalfPeriods
    <3> QED
      BY <2>1, <3>1, <3>2 DEF PlanInForce
  <2>3. PlanGood' => atPeak'
    <3>1. PlanGood' => ~counted /\ raced = 0 /\ ~skewed
      BY <1>0, <2>1 DEF PlanGood, DutyTypeOK
    <3>2. pc = "idle"
      BY <1>0, <1>2 DEF InitializeDriver, DutyInStep
    <3> QED
      BY <1>0, <2>1, <3>1, <3>2 DEF DutyDataInv, PlanGood
  <2> QED
    BY <2>1, <2>2, <2>3 DEF DutyDataInv
<1> QED
  BY <1>1, <1>2

LEMMA DutyInitInv == DutyInit => DutyInv
<1> SUFFICES ASSUME DutyInit
             PROVE  DutyInv
  OBVIOUS
<1> USE DutyPipelineAssumption
<1>0. /\ {0, 1, 2, 3} \subseteq HalfPeriods
      /\ 0 \in 0..MaxSpan /\ 0 \in 0..(PlanNumbers - 1) /\ 0 \in 0..2
  BY DEF HalfPeriods
<1>1. Neutral \in Entries /\ NoSamples \in [HalfPeriods -> Sample]
  <2>1. Neutral \in Entries
    BY DEF Entries
  <2> QED
    BY <2>1 DEF NoSamples, Sample
<1>2. DutyTypeOK
  <2>1. sampled \in Sample
    BY <1>1 DEF DutyInit, Sample
  <2>2. dmaSlots \in [HalfPeriods -> Entries] /\ applied \in [HalfPeriods -> Entries]
    BY <1>1 DEF DutyInit
  <2>3. /\ down \in BOOLEAN /\ irq \in BOOLEAN /\ countingDown \in BOOLEAN
        /\ overrun \in BOOLEAN /\ atPeak \in BOOLEAN /\ skewed \in BOOLEAN
        /\ counted \in BOOLEAN
    BY DEF DutyInit
  <2>4. /\ burst \in HalfPeriods /\ index \in HalfPeriods /\ remaining \in HalfPeriods
        /\ plan \in 0..(PlanNumbers - 1) /\ raced \in 0..2
        /\ span \in 0..MaxSpan
    BY <1>0 DEF DutyInit, Start
  <2>5. /\ driver = "on" /\ next = "trigger" /\ pc = "idle" /\ taken = NoSamples
        /\ preload = Neutral /\ duty = Neutral /\ lastEntry = Neutral
    BY DEF DutyInit
  <2> QED
    BY <1>1, <2>1, <2>2, <2>3, <2>4, <2>5 DEF DutyTypeOK
<1>3. DutyInStep
  BY DEF DutyInit, Start, DutyInStep, Triggers
<1>4. PlanInForce
  <2>1. \A k \in HalfPeriods : SampleFits(taken[k], k)
    BY NeutralFits DEF DutyInit, SampleFits
  <2>2. \A k \in HalfPeriods : dmaSlots[k] = Neutral /\ applied[k] = Neutral
    BY DEF DutyInit
  <2> QED
    BY <1>0, <2>1, <2>2 DEF DutyInit, Start, PlanInForce
<1>5. DutyDataInv
  BY <1>4 DEF DutyInit, DutyDataInv
<1> QED
  BY <1>2, <1>3, <1>5 DEF DutyInv

\* Whatever update events pass between the accesses of SetDutyTicks(), what AppliedTicks()
\* and SampleAtPeak() tell of a finished cycle is what was in effect when its samples were
\* taken, unless its own plan counted an overrun or was passed by an update during an
\* early write, or a sample has been lost.
THEOREM RecordTrue == DutySpec => []AppliedAsRecorded
<1>1. DutyInv /\ [DutyNext]_dutyVars => DutyInv'
  <2> SUFFICES ASSUME DutyInv, [DutyNext]_dutyVars
               PROVE  DutyInv'
    OBVIOUS
  <2>1. DutyTypeOK' /\ DutyInStep'
    BY DutyTypeStep, DutyInStepStep DEF DutyInv
  <2>2. DutyDataInv'
    <3>1. CASE UNCHANGED dutyVars
      <4>1. UNCHANGED <<driver, burst, preload, duty, dmaSlots, sampled, irq, index, taken,
                        pc, remaining, countingDown, overrun, plan, applied, lastEntry,
                        atPeak, counted, raced, skewed>>
        BY <3>1 DEF dutyVars, timerVars, callVars, recordVars, historyVars
      <4>2. PlanGood' = PlanGood /\ ticks' = ticks
        BY <4>1 DEF PlanGood, ticks
      <4>3. PlanInForce' = PlanInForce
        BY <4>1, <4>2 DEF PlanInForce, SampleFits
      <4>4. PlanChanges' = PlanChanges
        BY <4>1, <4>2 DEF PlanChanges, SampleFits
      <4> QED
        BY <4>1, <4>2, <4>3, <4>4 DEF DutyInv, DutyDataInv
    <3> QED
      BY <3>1, TriggerKeeps, BoundaryKeeps, SampleIsrKeeps, CallKeeps, RecordPlanKeeps,
         RestartKeeps DEF DutyNext
  <2> QED
    BY <2>1, <2>2 DEF DutyInv
<1>2. DutyInv => AppliedAsRecorded
  <2> SUFFICES ASSUME DutyInv, pc = "control", ~counted, raced = 0, ~skewed,
                      NEW k \in HalfPeriods
               PROVE  taken[k] = [duty |-> applied[k], peak |-> SampleAtPeak(k)]
    BY DEF AppliedAsRecorded, Truthful
  <2>1. PlanGood /\ atPeak /\ PlanChanges
    <3>1. driver = "on"
      BY DEF DutyInv, DutyInStep, DutyTypeOK
    <3> QED
      BY <3>1 DEF DutyInv, DutyDataInv, PlanGood
  <2>2. taken[k].duty = applied[k] /\ (taken[k].peak <=> k \in {1, 3})
    BY <2>1 DEF PlanChanges, SampleFits
  <2>3. taken[k] \in [duty : Entries, peak : BOOLEAN] /\ atPeak \in BOOLEAN
    BY DEF DutyInv, DutyTypeOK, Sample
  <2>4. (3 - k) % 2 = 0 <=> k \in {1, 3}
    BY DEF HalfPeriods
  <2>5. SampleAtPeak(k) \in BOOLEAN /\ (SampleAtPeak(k) <=> k \in {1, 3})
    BY <2>1, <2>3, <2>4 DEF SampleAtPeak
  <2> QED
    BY <2>2, <2>3, <2>5
<1> QED
  BY <1>1, <1>2, DutyInitInv, PTL DEF DutySpec

-----------------------------------------------------------------------------
(* SpeedLoop                                                               *)

LEMMA TimesMonotone ==
    ASSUME NEW a \in Int, NEW b \in Int, NEW c \in Nat, a <= b
    PROVE  a * c \in Int /\ b * c \in Int /\ a * c <= b * c
  OBVIOUS

LEMMA TimesNegative ==
    ASSUME NEW q \in Int, NEW w \in Int
    PROVE  q * w = -(q * (-w))
  OBVIOUS

\* Rounding down, against a multiple of the divisor.
LEMMA QuotientBounds ==
    ASSUME NEW a \in Int, NEW c \in Nat \ {0}, NEW q \in Int
    PROVE  /\ a \div c \in Int
           /\ q <= a \div c => q * c <= a
           /\ q > a \div c => q * c > a
           /\ a >= 0 => a \div c >= 0
           /\ a <= 0 => a \div c <= 0
<1> DEFINE d == a \div c
           r == a % c
<1>1. d \in Int /\ r \in 0..(c - 1) /\ a = d * c + r
  BY DivMod
<1> HIDE DEF d, r
<1>2. q <= d => q * c <= d * c
  BY <1>1, TimesMonotone
<1>3. q > d => q * c >= d * c + c
  <2>1. q >= d + 1 => q * c >= (d + 1) * c
    BY <1>1, TimesMonotone
  <2>2. (d + 1) * c = d * c + c
    BY <1>1
  <2> QED
    BY <1>1, <2>1, <2>2
<1>4. a >= 0 => d >= 0
  <2>1. d <= -1 => d * c <= (-1) * c
    BY <1>1, TimesMonotone
  <2>2. (-1) * c = -c /\ d * c \in Int
    BY <1>1
  <2> QED
    BY <1>1, <2>1, <2>2
<1>5. a <= 0 => d <= 0
  <2>1. d >= 1 => d * c >= 1 * c
    BY <1>1, TimesMonotone
  <2>2. 1 * c = c /\ d * c \in Int
    BY <1>1
  <2> QED
    BY <1>1, <2>1, <2>2
<1>6. q * c \in Int /\ d * c \in Int
  BY <1>1
<1>7. /\ d \in Int
      /\ q <= d => q * c <= a
      /\ q > d => q * c > a
      /\ a >= 0 => d >= 0
      /\ a <= 0 => d <= 0
  BY <1>1, <1>2, <1>3, <1>4, <1>5, <1>6
<1> QED
  BY <1>7 DEF d

\* The power that the battery gives is not negative, the power it takes not positive.
LEMMA PowerWindow ==
    ASSUME NEW limits \in Limits, NEW v \in Voltages
    PROVE  /\ Motoring(limits, v) \in Int /\ Motoring(limits, v) >= 0
           /\ Braking(limits, v) \in Int /\ Braking(limits, v) <= 0
<1> USE SpeedLoopAssumption
<1>1. v \in Nat /\ limits[1] \in Nat /\ limits[2] \in Nat
  OBVIOUS
<1>2. AllowedChargeCurrent(limits[2], v) \in Nat
  <2>1. CASE v <= DerateStart \/ v >= Trip
    BY <1>1, <2>1 DEF AllowedChargeCurrent
  <2>2. CASE ~(v <= DerateStart \/ v >= Trip)
    <3> DEFINE a == limits[2] * (Trip - v)
               c == Trip - DerateStart
    <3>1. Trip - v \in Nat /\ c \in Nat \ {0}
      BY <1>1, <2>2
    <3>2. a \in Nat
      BY <1>1, <3>1
    <3> HIDE DEF a, c
    <3>3. a \div c \in Int /\ a \div c >= 0
      BY <3>1, <3>2, QuotientBounds
    <3>4. AllowedChargeCurrent(limits[2], v) = a \div c
      BY <1>1, <2>2 DEF AllowedChargeCurrent, a, c
    <3> QED
      BY <3>3, <3>4
  <2> QED
    BY <2>1, <2>2
<1>3. v * limits[1] \in Nat /\ v * AllowedChargeCurrent(limits[2], v) \in Nat
  BY <1>1, <1>2
<1> QED
  BY <1>3 DEF Motoring, Braking

\* The torque window holds standstill, and Limit() takes nothing from a torque in it.
LEMMA WindowExact ==
    ASSUME NEW limits \in Limits, NEW v \in Voltages, NEW w \in Int
    PROVE  LET r == AllowedTorque(limits, v, w)
           IN  /\ r.lower \in Int /\ r.upper \in Int /\ r.lower <= 0 /\ 0 <= r.upper
               /\ \A q \in Int : r.lower <= q /\ q <= r.upper => Limit(q, limits, v, w) = q
<1> USE SpeedLoopAssumption
<1> DEFINE m == Motoring(limits, v)
           b == Braking(limits, v)
           r == AllowedTorque(limits, v, w)
<1>1. m \in Int /\ m >= 0 /\ b \in Int /\ b <= 0
  BY PowerWindow
<1>2. /\ r = IF v = 0 \/ w = 0 THEN [lower |-> -Unbounded, upper |-> Unbounded]
             ELSE IF w > 0 THEN [lower |-> Quotient(b, w), upper |-> Quotient(m, w)]
             ELSE [lower |-> Quotient(m, w), upper |-> Quotient(b, w)]
      /\ \A q \in Int : Limit(q, limits, v, w) =
            CASE v > 0 /\ q * w > m -> Quotient(m, w)
              [] v > 0 /\ q * w < b -> Quotient(b, w)
              [] OTHER -> q
  BY DEF AllowedTorque, Limit
<1> HIDE DEF m, b, r
<1>3. v \in Nat
  OBVIOUS
<1>4. CASE v = 0 \/ w = 0
  <2>1. \A q \in Int : ~(v > 0 /\ q * w > m) /\ ~(v > 0 /\ q * w < b)
    BY <1>1, <1>3, <1>4
  <2>2. r.lower = -1000 /\ r.upper = 1000
    BY <1>2, <1>4 DEF Unbounded
  <2>3. \A q \in Int : Limit(q, limits, v, w) = q
    BY <1>2, <2>1
  <2> QED
    BY <2>2, <2>3 DEF r
<1>5. CASE v # 0 /\ w > 0
  <2> DEFINE dm == m \div w
             db == b \div w
  <2>1. r.lower = db /\ r.upper = dm
    BY <1>2, <1>5 DEF Quotient
  <2>2. dm \in Int /\ dm >= 0 /\ db \in Int /\ db <= 0
    BY <1>1, <1>5, QuotientBounds
  <2>3. ASSUME NEW q \in Int, db <= q, q <= dm
        PROVE  Limit(q, limits, v, w) = q
    <3>1. q * w \in Int /\ q * w <= m /\ (q > db => q * w > b)
      BY <1>1, <1>5, <2>3, QuotientBounds
    <3>2. Quotient(b, w) = db
      BY <1>5 DEF Quotient
    <3> HIDE DEF db
    <3>3. CASE q = db
      BY <1>1, <1>2, <2>2, <3>1, <3>2, <3>3
    <3>4. CASE q > db
      BY <1>1, <1>2, <2>2, <3>1, <3>4
    <3> QED
      BY <2>2, <2>3, <3>3, <3>4
  <2> QED
    BY <2>1, <2>2, <2>3 DEF r
<1>6. CASE v # 0 /\ w < 0
  <2> DEFINE u == -w
             dm == m \div u
             db == b \div u
  <2>1. u \in Nat \ {0}
    BY <1>6
  <2>2. Quotient(m, w) = -dm /\ Quotient(b, w) = -db
    BY <1>6 DEF Quotient
  <2>3. r.lower = -dm /\ r.upper = -db
    BY <1>2, <1>6, <2>2
  <2> HIDE DEF u
  <2>4. dm \in Int /\ dm >= 0 /\ db \in Int /\ db <= 0
    BY <1>1, <2>1, QuotientBounds
  <2>5. ASSUME NEW q \in Int, -dm <= q, q <= -db
        PROVE  Limit(q, limits, v, w) = q
    <3>1. q * w = -(q * u) /\ (-q) * u = -(q * u) /\ q * u \in Int
      <4>1. q * w = -(q * (-w))
        BY TimesNegative
      <4>2. q * u \in Int /\ (-q) * u = -(q * u)
        BY <2>1, Negate
      <4> QED
        BY <4>1, <4>2 DEF u
    <3>2. (-q) * u <= m
      <4>1. -q \in Int /\ -q <= dm
        BY <2>4, <2>5
      <4> QED
        BY <1>1, <2>1, <4>1, QuotientBounds
    <3>3. -q > db => (-q) * u > b
      <4>1. -q \in Int
        OBVIOUS
      <4> QED
        BY <1>1, <2>1, <4>1, QuotientBounds
    <3> HIDE DEF dm, db
    <3>4. q * w \in Int /\ q * w <= m /\ (-q > db => q * w > b)
      BY <3>1, <3>2, <3>3
    <3>5. CASE q = -db
      BY <1>1, <1>2, <2>2, <2>4, <3>4, <3>5
    <3>6. CASE q # -db
      <4>1. -q > db
        BY <2>4, <2>5, <3>6
      <4> QED
        BY <1>1, <1>2, <3>4, <4>1
    <3> QED
      BY <3>5, <3>6
  <2>6. -dm \in Int /\ -db \in Int /\ -dm <= 0 /\ 0 <= -db
    BY <2>4
  <2> HIDE DEF dm, db
  <2> QED
    BY <2>3, <2>5, <2>6 DEF r
<1> QED
  BY <1>3, <1>4, <1>5, <1>6

\* The state of the speed controller.
SpeedStates == [reference : Int, integral : Int, output : Int]

\* Track() stays in its window, keeps its integral in the torque limit, and leaves a
\* bound that the error points away from.
LEMMA TrackStaysInWindow ==
    ASSUME NEW s \in SpeedStates, Magnitude(s.integral) <= TorqueLimit,
           NEW reference \in Int, NEW measured \in Int, NEW range,
           range.lower \in Int, range.upper \in Int, range.lower <= 0, 0 <= range.upper
    PROVE  LET lower == Greatest(-TorqueLimit, range.lower)
               upper == Least(TorqueLimit, range.upper)
               error == reference - measured
               t == Track(s, reference, measured, range)
           IN  /\ t \in SpeedStates /\ Magnitude(t.integral) <= TorqueLimit
               /\ t.reference = reference
               /\ lower <= t.output /\ t.output <= upper
               /\ Kp > 0 /\ lower < upper
                  /\ IntegralStep * Magnitude(error) <= upper - lower =>
                    /\ error < 0 => t.output < upper
                    /\ error > 0 => t.output > lower
<1> USE SpeedLoopAssumption
<1> DEFINE lower == Greatest(-TorqueLimit, range.lower)
           upper == Least(TorqueLimit, range.upper)
           error == reference - measured
           i == IntegralStep * error
           p == Kp * error
           sum == s.integral + i
           unlimited == p + sum
           windsUp == (unlimited > upper /\ error > 0) \/ (unlimited < lower /\ error < 0)
           integral == IF windsUp THEN s.integral ELSE Clamp(sum, lower, upper)
           t == Track(s, reference, measured, range)
<1>1. t = [reference |-> reference, integral |-> integral,
           output |-> Clamp(p + integral, lower, upper)]
  BY DEF Track
<1>2. /\ lower \in Int /\ upper \in Int /\ lower <= 0 /\ 0 <= upper
      /\ -TorqueLimit <= lower /\ upper <= TorqueLimit
  BY DEF Greatest, Least
<1>3. error \in Int /\ s.integral \in Int
  BY DEF SpeedStates
<1> HIDE DEF lower, upper, error
<1>4. i \in Int /\ p \in Int
  BY <1>3
<1>5. /\ error < 0 => i <= 0 /\ IntegralStep * Magnitude(error) = -i
      /\ error > 0 => i >= 0 /\ IntegralStep * Magnitude(error) = i
  <2>1. IntegralStep * (-error) = -i
    BY <1>3
  <2>2. (error < 0 => i <= 0) /\ (error > 0 => i >= 0)
    BY <1>3
  <2> QED
    BY <1>3, <2>1, <2>2 DEF Magnitude
<1>6. /\ Kp > 0 /\ error < 0 => p < 0
      /\ Kp > 0 /\ error > 0 => p > 0
  BY <1>3
<1> HIDE DEF i, p
<1>7. integral \in Int /\ Magnitude(integral) <= TorqueLimit
  BY <1>2, <1>3, <1>4 DEF Magnitude, Clamp, Greatest, Least
<1>8. /\ Clamp(p + integral, lower, upper) \in Int
      /\ lower <= Clamp(p + integral, lower, upper)
      /\ Clamp(p + integral, lower, upper) <= upper
  <2> HIDE DEF integral
  <2> QED
    BY <1>2, <1>4, <1>7 DEF Clamp, Greatest, Least
<1>9. ASSUME Kp > 0, lower < upper, error < 0, -i <= upper - lower
      PROVE  Clamp(p + integral, lower, upper) < upper
  <2>1. p + integral < upper
    BY <1>2, <1>3, <1>4, <1>5, <1>6, <1>9 DEF Clamp, Greatest, Least
  <2> HIDE DEF integral
  <2> QED
    BY <1>2, <1>4, <1>7, <1>9, <2>1 DEF Clamp, Greatest, Least
<1>10. ASSUME Kp > 0, lower < upper, error > 0, i <= upper - lower
       PROVE  Clamp(p + integral, lower, upper) > lower
  <2>1. p + integral > lower
    BY <1>2, <1>3, <1>4, <1>5, <1>6, <1>10 DEF Clamp, Greatest, Least
  <2> HIDE DEF integral
  <2> QED
    BY <1>2, <1>4, <1>7, <1>10, <2>1 DEF Clamp, Greatest, Least
<1> HIDE DEF t, integral
<1>11. /\ t.reference = reference /\ t.integral = integral
       /\ t.output = Clamp(p + integral, lower, upper) /\ t \in SpeedStates
  BY <1>1, <1>7, <1>8 DEF SpeedStates
<1>12. /\ t \in SpeedStates /\ Magnitude(t.integral) <= TorqueLimit
       /\ t.reference = reference
       /\ lower <= t.output /\ t.output <= upper
       /\ Kp > 0 /\ lower < upper
          /\ IntegralStep * Magnitude(error) <= upper - lower =>
            /\ error < 0 => t.output < upper
            /\ error > 0 => t.output > lower
  BY <1>5, <1>7, <1>8, <1>9, <1>10, <1>11
<1> QED
  BY <1>12 DEF t, lower, upper, error

\* Nothing after the controller takes anything from a torque in its window, which is
\* the power window or a narrower one.
LEMMA NothingTaken ==
    ASSUME NEW limits \in Limits, NEW v \in Voltages, NEW w \in Int, NEW range, NEW q \in Int,
           range.lower \in Int, range.upper \in Int,
           AllowedTorque(limits, v, w).lower <= range.lower,
           range.upper <= AllowedTorque(limits, v, w).upper,
           Greatest(-TorqueLimit, range.lower) <= q, q <= Least(TorqueLimit, range.upper)
    PROVE  Limit(LimitCurrent(q), limits, v, w) = q
<1> USE SpeedLoopAssumption
<1>1. LimitCurrent(q) = q
  BY DEF LimitCurrent, Clamp, Greatest, Least
<1>2. /\ AllowedTorque(limits, v, w).lower \in Int
      /\ AllowedTorque(limits, v, w).upper \in Int
      /\ AllowedTorque(limits, v, w).lower <= q
         /\ q <= AllowedTorque(limits, v, w).upper => Limit(q, limits, v, w) = q
  BY WindowExact
<1>3. range.lower <= q /\ q <= range.upper
  BY DEF Greatest, Least
<1>4. AllowedTorque(limits, v, w).lower <= q /\ q <= AllowedTorque(limits, v, w).upper
  BY <1>2, <1>3
<1> QED
  BY <1>1, <1>2, <1>4

\* The state of the position controller.
PositionStates == [limited : Int, demand : Int]

\* What NoWindup needs of the controllers.
LoopInv == speed \in SpeedStates /\ position \in PositionStates /\ NoWindup

\* A step of a controller s that tracks a reference within a range.
LEMMA TrackedStep ==
    ASSUME NEW limits \in Limits, NEW v \in Voltages, NEW w \in Int, NEW range,
           NEW s \in SpeedStates, NEW reference \in Int,
           Magnitude(s.integral) <= TorqueLimit,
           range.lower \in Int, range.upper \in Int, range.lower <= 0, 0 <= range.upper,
           AllowedTorque(limits, v, w).lower <= range.lower,
           range.upper <= AllowedTorque(limits, v, w).upper,
           speed' = Track(s, reference, w, range),
           Finish(range, limits, v, w, speed'.output, speed'.reference - w)
    PROVE  speed' \in SpeedStates /\ NoWindup'
<1> DEFINE lower == Greatest(-TorqueLimit, range.lower)
           upper == Least(TorqueLimit, range.upper)
           error == reference - w
           t == Track(s, reference, w, range)
<1>1. /\ t \in SpeedStates /\ Magnitude(t.integral) <= TorqueLimit
      /\ t.reference = reference
      /\ lower <= t.output /\ t.output <= upper
      /\ Kp > 0 /\ lower < upper
         /\ IntegralStep * Magnitude(error) <= upper - lower =>
           /\ error < 0 => t.output < upper
           /\ error > 0 => t.output > lower
  BY TrackStaysInWindow
<1>2. Limit(LimitCurrent(t.output), limits, v, w) = t.output
  <2>1. t.output \in Int
    BY <1>1 DEF SpeedStates
  <2> HIDE DEF t
  <2> QED
    BY <1>1, <2>1, NothingTaken
<1>3. speed' = t
  OBVIOUS
<1> HIDE DEF t
<1>4. step' = [lower |-> lower, upper |-> upper, error |-> error, current |-> t.output]
  BY <1>1, <1>2, <1>3 DEF Finish
<1> HIDE DEF lower, upper, error
<1>5. /\ step'.lower = lower /\ step'.upper = upper /\ step'.error = error
      /\ step'.current = t.output
  BY <1>4
<1> QED
  BY <1>1, <1>3, <1>5 DEF NoWindup

\* A step without a speed controller.
LEMMA UntrackedStep ==
    ASSUME NEW range, NEW limits, NEW v, NEW w, NEW q,
           Finish(range, limits, v, w, q, 0),
           mode' \notin {"speed", "position"}, Magnitude(speed'.integral) <= TorqueLimit
    PROVE  NoWindup'
  BY DEF NoWindup, Finish

LEMMA ResetSpeedState ==
    ASSUME NEW w \in Int
    PROVE  /\ ResetSpeed(w) \in SpeedStates
           /\ ResetSpeed(w).integral = 0 /\ ResetSpeed(w).output = 0
           /\ Magnitude(ResetSpeed(w).integral) <= TorqueLimit
<1>1. ResetSpeed(w) = [reference |-> w, integral |-> 0, output |-> 0]
  BY DEF ResetSpeed
<1> QED
  BY <1>1, SpeedLoopAssumption DEF SpeedStates, Magnitude

LEMMA StartedState ==
    ASSUME LoopInv, NEW w \in Int, NEW new
    PROVE  Started(new, w) \in SpeedStates /\ Magnitude(Started(new, w).integral) <= TorqueLimit
  BY ResetSpeedState DEF Started, LoopInv, NoWindup

LEMMA DemandState ==
    ASSUME NEW s \in PositionStates, NEW reference \in Int, NEW measured \in Int
    PROVE  SpeedDemand(s, reference, measured) \in PositionStates
<1>1. \A x, low, high \in Int : Clamp(x, low, high) \in Int
  BY DEF Clamp, Least, Greatest
<1> DEFINE limited == IF Magnitude(reference - measured) > JumpThreshold
                      THEN s.limited + Clamp(reference - s.limited, -PositionStep, PositionStep)
                      ELSE reference
           demand == Clamp(limited - measured, -SpeedLimit, SpeedLimit)
<1>2. s.limited \in Int /\ s.demand \in Int
  BY DEF PositionStates
<1>3. limited \in Int
  <2>1. /\ reference - s.limited \in Int /\ PositionStep \in Int
        /\ -PositionStep \in Int
    BY <1>2, SpeedLoopAssumption
  <2>2. Clamp(reference - s.limited, -PositionStep, PositionStep) \in Int
    BY <1>1, <2>1
  <2> QED
    BY <1>2, <2>2
<1> HIDE DEF limited
<1>4. demand \in Int
  <2>1. limited - measured \in Int /\ SpeedLimit \in Int /\ -SpeedLimit \in Int
    BY <1>3, SpeedLoopAssumption
  <2> QED
    BY <1>1, <2>1
<1> HIDE DEF demand
<1>5. Clamp(demand, s.demand - DemandStep, s.demand + DemandStep) \in Int
  <2>1. s.demand - DemandStep \in Int /\ s.demand + DemandStep \in Int
    BY <1>2, SpeedLoopAssumption
  <2> QED
    BY <1>1, <1>4, <2>1
<1> QED
  BY <1>3, <1>5 DEF SpeedDemand, PositionStates, limited, demand

LEMMA ResetPositionState ==
    ASSUME NEW p \in Int
    PROVE  ResetPosition(p) \in PositionStates
  BY DEF ResetPosition, PositionStates

LEMMA LoopStep == LoopInv /\ Step => LoopInv'
<1> SUFFICES ASSUME LoopInv, Step
             PROVE  LoopInv'
  OBVIOUS
<1> USE SpeedLoopAssumption
<1>1. PICK limits \in Limits, v \in Voltages, w \in (IF atStop THEN {0} ELSE Speeds),
           requested \in (IF homing = "searching" THEN {FALSE} ELSE BOOLEAN) :
        \/ \E p \in Positions : StepInactive(limits, v, w, p, requested)
        \/ \E q \in CurrentSetpoints : StepTorque(limits, v, w, q, requested)
        \/ \E setpoint \in SpeedSetpoints : StepSpeed(limits, v, w, setpoint, requested)
        \/ \E p, setpoint \in Positions : ~requested /\ StepPosition(limits, v, w, p, setpoint)
        \/ \E setpoint \in Positions : StepHoming(limits, v, w, setpoint, requested)
  BY Zenon DEF Step
<1> w \in Int /\ requested \in BOOLEAN
  OBVIOUS
<1> DEFINE window == AllowedTorque(limits, v, w)
<1>2. /\ window.lower \in Int /\ window.upper \in Int
      /\ window.lower <= 0 /\ 0 <= window.upper
      /\ window.lower <= window.lower /\ window.upper <= window.upper
  BY WindowExact
<1> HIDE DEF window
<1>3. \A x, low, high \in Int : Clamp(x, low, high) \in Int
  BY DEF Clamp, Least, Greatest
<1>4. position \in PositionStates /\ speed \in SpeedStates
  BY DEF LoopInv
<1>5. ASSUME NEW p \in Positions, StepInactive(limits, v, w, p, requested)
      PROVE  LoopInv'
  <2>1. /\ speed' = ResetSpeed(w) /\ position' = ResetPosition(p) /\ mode' = "none"
        /\ Finish(window, limits, v, w, 0, 0)
    BY <1>5 DEF StepInactive, window
  <2>2. speed' \in SpeedStates /\ Magnitude(speed'.integral) <= TorqueLimit
    BY <2>1, ResetSpeedState
  <2>3. position' \in PositionStates
    BY <2>1, ResetPositionState
  <2>4. NoWindup'
    BY <2>1, <2>2, UntrackedStep
  <2> QED
    BY <2>2, <2>3, <2>4 DEF LoopInv
<1>6. ASSUME NEW q \in CurrentSetpoints, StepTorque(limits, v, w, q, requested)
      PROVE  LoopInv'
  <2>1. /\ speed' = Started("torque", w) /\ mode' = "torque"
        /\ position' = IF mode # "torque" THEN ResetPosition(0) ELSE position
        /\ Finish(window, limits, v, w, q, 0)
    BY <1>6 DEF StepTorque, window
  <2>2. speed' \in SpeedStates /\ Magnitude(speed'.integral) <= TorqueLimit
    BY <2>1, StartedState
  <2>3. position' \in PositionStates
    BY <1>4, <2>1, ResetPositionState
  <2>4. NoWindup'
    BY <2>1, <2>2, UntrackedStep
  <2> QED
    BY <2>2, <2>3, <2>4 DEF LoopInv
<1>7. ASSUME NEW setpoint \in SpeedSetpoints, StepSpeed(limits, v, w, setpoint, requested)
      PROVE  LoopInv'
  <2> DEFINE s == Started("speed", w)
             clamped == Clamp(setpoint, SpeedMin, SpeedMax)
             reference == IF AccelStep > 0
                          THEN Clamp(clamped, s.reference - AccelStep, s.reference + AccelStep)
                          ELSE clamped
  <2>1. s \in SpeedStates /\ Magnitude(s.integral) <= TorqueLimit
    BY StartedState
  <2> HIDE DEF s
  <2>2. s.reference \in Int
    BY <2>1 DEF SpeedStates
  <2>3. clamped \in Int
    BY <1>3
  <2> HIDE DEF clamped
  <2>4. reference \in Int
    <3>1. s.reference - AccelStep \in Int /\ s.reference + AccelStep \in Int
      BY <2>2
    <3> QED
      BY <1>3, <2>3, <3>1
  <2>5. /\ speed' = Track(s, reference, w, window)
        /\ position' = IF mode # "speed" THEN ResetPosition(0) ELSE position
        /\ Finish(window, limits, v, w, speed'.output, speed'.reference - w)
    BY <1>7 DEF StepSpeed, Update, window, s, clamped
  <2> HIDE DEF reference
  <2>6. speed' \in SpeedStates /\ NoWindup'
    <3>1. AllowedTorque(limits, v, w) = window
      BY DEF window
    <3> QED
      BY <1>2, <2>1, <2>4, <2>5, <3>1, TrackedStep
  <2>7. position' \in PositionStates
    BY <1>4, <2>5, ResetPositionState
  <2> QED
    BY <2>6, <2>7 DEF LoopInv
<1>8. ASSUME NEW p \in Positions, NEW setpoint \in Positions,
             StepPosition(limits, v, w, p, setpoint)
      PROVE  LoopInv'
  <2> DEFINE s == Started("position", w)
             from == IF mode # "position" THEN ResetPosition(setpoint) ELSE position
             goal == IF hold' = NoHold THEN setpoint ELSE 0
             demand == SpeedDemand(from, goal, p)
             reference == Clamp(demand.demand, SpeedMin, SpeedMax)
  <2>1. s \in SpeedStates /\ Magnitude(s.integral) <= TorqueLimit
    BY StartedState
  <2>2. from \in PositionStates /\ goal \in Int /\ p \in Int
    BY <1>4, ResetPositionState
  <2>3. /\ position' = demand /\ speed' = Track(s, reference, w, window)
        /\ Finish(window, limits, v, w, speed'.output, speed'.reference - w)
    BY <1>8 DEF StepPosition, window
  <2> HIDE DEF from, goal, s
  <2>4. demand \in PositionStates
    BY <2>2, DemandState
  <2> HIDE DEF demand
  <2>5. reference \in Int
    <3>1. demand.demand \in Int
      BY <2>4 DEF PositionStates
    <3> QED
      BY <1>3, <3>1
  <2> HIDE DEF reference
  <2>6. speed' \in SpeedStates /\ NoWindup'
    <3>1. AllowedTorque(limits, v, w) = window
      BY DEF window
    <3> QED
      BY <1>2, <2>1, <2>3, <2>5, <3>1, TrackedStep
  <2> QED
    BY <2>3, <2>4, <2>6 DEF LoopInv
<1>9. ASSUME NEW setpoint \in Positions, StepHoming(limits, v, w, setpoint, requested)
      PROVE  LoopInv'
  <2> DEFINE range == [lower |-> Greatest(window.lower, -HomingTorque),
                       upper |-> Least(window.upper, HomingTorque)]
             s == IF requested THEN ResetSpeed(w) ELSE Started("position", w)
             reference == IF AccelStep > 0
                          THEN Clamp(HomingSpeed, s.reference - AccelStep,
                                     s.reference + AccelStep)
                          ELSE HomingSpeed
             driven == Track(s, reference, w, range)
  <2>1. s \in SpeedStates /\ Magnitude(s.integral) <= TorqueLimit
    BY StartedState, ResetSpeedState, SMTT(30)
  <2>2. PICK found \in BOOLEAN :
          /\ speed' = IF found THEN ResetSpeed(w) ELSE driven
          /\ position' = CASE found -> ResetPosition(0)
                           [] ~found /\ mode # "position" -> ResetPosition(setpoint)
                           [] OTHER -> position
          /\ Finish(range, limits, v, w, speed'.output,
                    IF found THEN 0 ELSE speed'.reference - w)
    BY <1>9 DEF StepHoming, Update, window
  <2> HIDE DEF s
  <2>3. s.reference \in Int
    BY <2>1 DEF SpeedStates
  <2>4. reference \in Int
    <3>1. s.reference - AccelStep \in Int /\ s.reference + AccelStep \in Int
      BY <2>3
    <3> QED
      BY <1>3, <3>1
  <2> HIDE DEF reference
  <2>5. /\ range.lower \in Int /\ range.upper \in Int /\ range.lower <= 0 /\ 0 <= range.upper
        /\ window.lower <= range.lower /\ range.upper <= window.upper
    BY <1>2 DEF Greatest, Least
  <2> HIDE DEF range
  <2>6. position' \in PositionStates
    BY <1>4, <2>2, ResetPositionState
  <2>7. AllowedTorque(limits, v, w) = window
    BY DEF window
  <2>8. CASE ~found
    <3>1. /\ speed' = Track(s, reference, w, range)
          /\ Finish(range, limits, v, w, speed'.output, speed'.reference - w)
      BY <2>2, <2>8
    <3>2. speed' \in SpeedStates /\ NoWindup'
      BY <2>1, <2>4, <2>5, <2>7, <3>1, TrackedStep
    <3> QED
      BY <2>6, <3>2 DEF LoopInv
  <2>9. CASE found
    <3>1. speed' = ResetSpeed(w) /\ Finish(range, limits, v, w, speed'.output, 0)
      BY <2>2, <2>9
    <3>2. /\ speed' \in SpeedStates /\ speed'.output = 0
          /\ Magnitude(speed'.integral) <= TorqueLimit
      BY <3>1, ResetSpeedState
    <3>3. Limit(LimitCurrent(0), limits, v, w) = 0
      <4>1. /\ Greatest(-TorqueLimit, range.lower) <= 0
            /\ 0 <= Least(TorqueLimit, range.upper)
        BY <2>5 DEF Greatest, Least
      <4> QED
        BY <2>5, <2>7, <4>1, NothingTaken
    <3>4. step'.error = 0 /\ step'.current = 0
      BY <3>1, <3>2, <3>3 DEF Finish
    <3>5. NoWindup'
      BY <3>2, <3>4 DEF NoWindup
    <3> QED
      BY <2>6, <3>2, <3>5 DEF LoopInv
  <2> QED
    BY <2>8, <2>9
<1> QED
  BY <1>1, <1>5, <1>6, <1>7, <1>8, <1>9

\* For any gains, limits, setpoints and measurements, the torque of a speed controller
\* is the torque of the motor, its integral stays in the torque limit, and an error
\* takes its output off the bound at once, unless the window is narrower than a step of
\* the integral.
THEOREM WindupExcluded == LoopSpec => []NoWindup
<1>1. LoopInit => LoopInv
  <2> SUFFICES ASSUME LoopInit
               PROVE  LoopInv
    OBVIOUS
  <2>1. speed \in SpeedStates /\ Magnitude(speed.integral) <= TorqueLimit
    BY ResetSpeedState DEF LoopInit
  <2>2. position \in PositionStates
    BY ResetPositionState DEF LoopInit
  <2>3. mode = "none" /\ step.error = 0
    BY DEF LoopInit
  <2> QED
    BY <2>1, <2>2, <2>3 DEF LoopInv, NoWindup
<1>2. LoopInv /\ [LoopNext]_loopVars => LoopInv'
  <2>1. LoopInv /\ UNCHANGED <<speed, position, mode, step>> => LoopInv'
    BY DEF LoopInv, NoWindup
  <2>2. ReachStop \/ UNCHANGED loopVars => UNCHANGED <<speed, position, mode, step>>
    BY DEF ReachStop, loopVars
  <2> QED
    BY <2>1, <2>2, LoopStep DEF LoopNext
<1>3. LoopInv => NoWindup
  BY DEF LoopInv
<1> QED
  BY <1>1, <1>2, <1>3, PTL DEF LoopSpec

-----------------------------------------------------------------------------
(* Fusion of the Hall codes: MeasuresTruth                                 *)

\* The code before event i, and the code the queue leads to.
Before(i) == IF i = 1 THEN code ELSE queue[i - 1].code
Newest == IF queue = <<>> THEN code ELSE queue[Len(queue)].code

\* The age of the last change, while a code is shown.
NewestAge == IF queue = <<>> THEN lastChange ELSE queue[Len(queue)].age

\* c is the code of the last event that is at least k ticks old.
CodeSince(k, c) ==
    \/ c = code /\ \A i \in 1..Len(queue) : queue[i].age < k
    \/ \E i \in 1..Len(queue) :
          /\ queue[i].age >= k /\ queue[i].code = c
          /\ \A j \in 1..Len(queue) : j > i => queue[j].age < k

\* The reference lies after the run before; a long absence marks the last change.
CycleTimes ==
    /\ gap >= due + 1
    /\ ~late => gap < Away

\* The queue holds the changes since the last run, in order, each at its boundary.
ChangesQueued ==
    /\ Newest = Shown(sector, blind)
    /\ \A i \in 1..Len(queue) :
          /\ Before(i) # queue[i].code \/ (i = 1 /\ code = None)
          /\ EdgeAngle(Before(i), queue[i].code) \in {None, queue[i].edge}

\* What stands was there before.
PastShown == \A k \in {1, 2} : still >= k => past[k] = Newest

\* Up to a long absence, ages in the queue have not wrapped and tell the past.
AgesTrue ==
    gap < Away =>
      /\ \A i \in 1..Len(queue) : queue[i].age <= gap
      /\ \A k \in {1, 2} : gap >= k => CodeSince(k, past[k])

\* The age of the last change: exact in the standstill time, and without a long absence
\* kept where the standstill shows.
ChangeTimed ==
    Newest # None =>
      /\ still < Standstill + 3 => NewestAge = still
      /\ still = Standstill + 3 /\ ~late =>
            /\ NewestAge + 1 >= still
            /\ queue # <<>> \/ gap >= 1 => NewestAge >= still
            /\ NewestAge <= MaxAge + gap + 2

HallEvents == [code : Codes, age : 0..(TimerRange - 1), edge : Codes]

FusionTypes ==
    /\ still \in 0..(Standstill + 3)
    /\ queue \in Seq(HallEvents) /\ code \in Codes /\ lastChange \in 0..(TimerRange - 1)
    /\ due \in -1..1 /\ gap \in 0..Away /\ late \in BOOLEAN

FusionInv ==
    /\ sector \in Sectors /\ MeasuresTruth
    /\ ~dropped => /\ FusionTypes /\ CycleTimes /\ ChangesQueued
                   /\ PastShown /\ AgesTrue /\ ChangeTimed

(* The constants, without division. *)
LEMMA HallConstants ==
    /\ MaxAge \in Nat /\ TimerRange = 4 * MaxAge /\ TimerRange \div 2 = 2 * MaxAge
    /\ Standstill \in Nat /\ 1 <= Standstill /\ Standstill + 2 <= MaxAge
    /\ Away \in Nat /\ Away = MaxAge - 1 /\ Away >= 2
<1>1. TimerRange \in Nat /\ TimerRange % 4 = 0 /\ MaxAge = TimerRange \div 4
  BY HallFusionAssumption
<1>2. TimerRange = 4 * MaxAge /\ MaxAge \in Nat /\ TimerRange \div 2 = 2 * MaxAge
  BY <1>1
<1> QED BY <1>2, HallFusionAssumption DEF Away

(* A difference of two ages within half the range comes out as it is. *)
LEMMA SignedNear ==
    ASSUME NEW t \in Int, -(2 * MaxAge) <= t, t < 2 * MaxAge
    PROVE  Signed(t) = t
<1> DEFINE r == TimerRange
<1>1. r \in Nat \ {0} /\ r = 4 * MaxAge /\ r \div 2 = 2 * MaxAge /\ MaxAge \in Nat
  BY HallConstants
<1> HIDE DEF r
<1>2. t % r = IF t < 0 THEN t + r ELSE IF t < r THEN t ELSE t - r
  <2>1. -r <= t /\ t < 2 * r
    BY <1>1
  <2> QED BY <1>1, <2>1, ModNear
<1>3. Signed(t) = IF t % r < r \div 2 THEN t % r ELSE (t % r) - r
  BY DEF Signed, r
<1> QED BY <1>1, <1>2, <1>3

(* The events of the queue, and the last of them. *)
LEMMA QueuedEvents ==
    ASSUME FusionTypes
    PROVE  /\ Len(queue) \in Nat
           /\ \A i \in 1..Len(queue) :
                 /\ queue[i] \in HallEvents /\ queue[i].code \in Codes
                 /\ queue[i].age \in 0..(TimerRange - 1)
           /\ queue # <<>> => Len(queue) \in 1..Len(queue)
           /\ NewestAge \in 0..(TimerRange - 1) /\ Newest \in Codes
<1>1. Len(queue) \in Nat /\ \A i \in 1..Len(queue) : queue[i] \in HallEvents
  BY DEF FusionTypes
<1>2. \A event \in HallEvents : event.age \in 0..(TimerRange - 1) /\ event.code \in Codes
  BY DEF HallEvents
<1>3. queue # <<>> => Len(queue) \in 1..Len(queue)
  BY DEF FusionTypes
<1>4. code \in Codes /\ lastChange \in 0..(TimerRange - 1)
  BY DEF FusionTypes
<1> QED BY <1>1, <1>2, <1>3, <1>4 DEF NewestAge, Newest

(* A captured change of the code, at its boundary, joins the queue or is lost. *)
LEMMA CapturedKeeps ==
    ASSUME FusionInv, NEW shown \in Codes, NEW boundary \in Codes,
           Captured(shown, boundary), sector' \in Sectors,
           shown = Shown(sector, blind)', shown # Shown(sector, blind),
           EdgeAngle(Shown(sector, blind), shown) \in {None, boundary}
    PROVE  FusionInv'
<1>1. /\ ~dropped /\ still' = 0 /\ late' \in BOOLEAN /\ (late' <=> gap = Away)
      /\ FusionTypes /\ CycleTimes /\ ChangesQueued /\ PastShown /\ AgesTrue
      /\ UNCHANGED <<past, code, lastChange, due, half, gap, wrong>>
  BY DEF Captured, FusionInv, fusionVars
<1>2. CASE dropped' /\ UNCHANGED queue
  BY <1>1, <1>2 DEF FusionInv, MeasuresTruth
<1>3. CASE queue' = Append(queue, [code |-> shown, age |-> 0, edge |-> boundary])
  <2> DEFINE n == Len(queue)
             event == [code |-> shown, age |-> 0, edge |-> boundary]
  <2>1. n \in Nat /\ event \in HallEvents /\ event.code = shown /\ event.age = 0 /\ event.edge = boundary
    BY <1>1, HallConstants DEF FusionTypes, HallEvents
  <2>2. /\ queue' \in Seq(HallEvents) /\ Len(queue') = n + 1 /\ queue'[n + 1] = event
        /\ \A i \in 1..n : queue'[i] = queue[i] /\ queue[i] \in HallEvents
    BY <1>1, <1>3, <2>1 DEF FusionTypes
  <2>a. queue' # <<>> /\ Newest' = shown /\ NewestAge' = 0
    BY <2>1, <2>2 DEF Newest, NewestAge
  <2>3. FusionTypes'
    BY <1>1, <2>2, HallConstants DEF FusionTypes
  <2>4. CycleTimes'
    BY <1>1, HallConstants DEF CycleTimes, FusionTypes
  <2>5. ChangesQueued'
    <3>2. \A i \in 1..(n + 1) : Before(i)' = IF i <= n THEN Before(i) ELSE Newest
      BY <1>1, <2>1, <2>2, SMTT(30) DEF Before, Newest, FusionTypes
    <3>3. ASSUME NEW i \in 1..(n + 1)
          PROVE  /\ Before(i)' # queue'[i].code \/ (i = 1 /\ code = None)
                 /\ EdgeAngle(Before(i)', queue'[i].code) \in {None, queue'[i].edge}
      <4>1. CASE i <= n
        BY <4>1, <3>2, <2>2, <1>1 DEF ChangesQueued
      <4>2. CASE i = n + 1
        BY <4>2, <3>2, <2>1, <2>2, <1>1 DEF ChangesQueued, FusionTypes
      <4> QED BY <4>1, <4>2, <2>1
    <3> QED BY <2>a, <3>3, <2>2, <1>1 DEF ChangesQueued
  <2>6. ASSUME NEW k \in {1, 2}, NEW c, CodeSince(k, c)
        PROVE  CodeSince(k, c)'
    <3>1. CASE c = code /\ \A i \in 1..n : queue[i].age < k
      BY <3>1, <2>1, <2>2, <1>1 DEF CodeSince
    <3>2. ASSUME NEW i \in 1..n, queue[i].age >= k, queue[i].code = c,
                 \A j \in 1..n : j > i => queue[j].age < k
          PROVE  CodeSince(k, c)'
      <4>1. i \in 1..(n + 1) /\ queue'[i].age >= k /\ queue'[i].code = c
        BY <3>2, <2>1, <2>2
      <4>2. \A j \in 1..(n + 1) : j > i => queue'[j].age < k
        BY <3>2, <2>1, <2>2
      <4> QED BY <4>1, <4>2, <2>2 DEF CodeSince
    <3> QED BY <3>1, <3>2, <2>6 DEF CodeSince
  <2>7. AgesTrue'
    <3> SUFFICES ASSUME gap < Away PROVE AgesTrue'
      BY <1>1 DEF AgesTrue
    <3>1. past' = past /\ gap' = gap /\ gap \in Nat
      BY <1>1 DEF FusionTypes
    <3>2. \A i \in 1..(n + 1) : queue'[i].age <= gap
      BY <3>1, <2>1, <2>2, <1>1 DEF AgesTrue
    <3>3. \A k \in {1, 2} : gap >= k => CodeSince(k, past[k])'
      <4>1. SUFFICES ASSUME NEW k \in {1, 2}, gap >= k PROVE CodeSince(k, past[k])'
        OBVIOUS
      <4>2. PICK c : c = past[k] /\ CodeSince(k, c)
        BY <4>1, <1>1 DEF AgesTrue
      <4>3. CodeSince(k, c)'
        BY <4>2, <2>6
      <4> QED BY <4>2, <4>3, <3>1
    <3> QED BY <3>1, <3>2, <3>3, <2>2 DEF AgesTrue
  <2>8. ChangeTimed'
    BY <1>1, <2>a, HallConstants DEF ChangeTimed
  <2>9. PastShown'
    BY <1>1 DEF PastShown
  <2> QED BY <1>1, <2>3, <2>4, <2>5, <2>7, <2>8, <2>9 DEF FusionInv, MeasuresTruth
<1> QED BY <1>2, <1>3 DEF Captured

(* The five ways the code changes. *)
LEMMA RotorKeeps ==
    ASSUME FusionInv, Forward \/ Backward \/ MissesEdge \/ Fails \/ Returns
    PROVE  FusionInv'
<1>0. sector \in 0..5 /\ None = 6 /\ Sectors = 0..5 /\ Codes = 0..6
  BY DEF FusionInv, Sectors, None, Codes
<1>1. CASE Forward
  <2>1. ~blind /\ ~blind' /\ sector' = (sector + 1) % 6 /\ Captured(sector', sector')
    BY <1>1 DEF Forward
  <2>2. sector' \in 0..5 /\ sector' # sector /\ EdgeAngle(sector, sector') = sector'
    BY <2>1, <1>0 DEF EdgeAngle
  <2> QED BY <2>1, <2>2, <1>0, CapturedKeeps DEF Shown
<1>2. CASE Backward
  <2>1. ~blind /\ ~blind' /\ sector' = (sector + 5) % 6 /\ Captured(sector', sector)
    BY <1>2 DEF Backward
  <2>2. sector' \in 0..5 /\ sector' # sector /\ EdgeAngle(sector, sector') = sector
    BY <2>1, <1>0 DEF EdgeAngle
  <2> QED BY <2>1, <2>2, <1>0, CapturedKeeps DEF Shown
<1>3. CASE MissesEdge
  <2>1. ~blind /\ ~blind' /\ sector' = (sector + 2) % 6 /\ Captured(sector', None)
    BY <1>3 DEF MissesEdge
  <2>2. sector' \in 0..5 /\ sector' # sector /\ EdgeAngle(sector, sector') = None
    BY <2>1, <1>0 DEF EdgeAngle
  <2> QED BY <2>1, <2>2, <1>0, CapturedKeeps DEF Shown
<1>4. CASE Fails
  <2>1. ~blind /\ blind' /\ sector' = sector /\ Captured(None, None)
    BY <1>4 DEF Fails
  <2>2. None # sector /\ EdgeAngle(sector, None) = None
    BY <1>0 DEF EdgeAngle
  <2> QED BY <2>1, <2>2, <1>0, CapturedKeeps DEF Shown
<1>5. CASE Returns
  <2>1. blind /\ ~blind' /\ sector' \in {sector, (sector + 1) % 6} /\ Captured(sector', None)
    BY <1>5 DEF Returns
  <2>2. sector' \in 0..5 /\ sector' # None /\ EdgeAngle(None, sector') = None
    BY <2>1, <1>0 DEF EdgeAngle
  <2> QED BY <2>1, <2>2, <1>0, CapturedKeeps DEF Shown
<1> QED BY <1>1, <1>2, <1>3, <1>4, <1>5

(* A tick makes every event and the last change older and moves the past on. *)
LEMMA PassesKeeps ==
    ASSUME FusionInv, Passes, due' \in -1..1, gap' >= due' + 1
    PROVE  FusionInv'
<1> DEFINE n == Len(queue)
           top == Standstill + 3
<1>1. /\ ~dropped /\ ~dropped' /\ FusionTypes /\ CycleTimes /\ ChangesQueued
      /\ PastShown /\ AgesTrue /\ ChangeTimed
      /\ gap' = IF gap < Away THEN gap + 1 ELSE gap
      /\ late' \in BOOLEAN /\ (late' <=> late \/ gap' = Away)
      /\ past' = <<Shown(sector, blind), past[1]>>
      /\ still' = IF still < top THEN still + 1 ELSE still
      /\ queue' = [i \in 1..Len(queue) |-> Aged(queue[i])]
      /\ lastChange' = (lastChange + 1) % TimerRange
      /\ UNCHANGED <<sector, blind, code, wrong>>
  BY DEF Passes, FusionInv
<1>2. /\ n \in Nat /\ gap \in 0..Away /\ code \in Codes /\ late \in BOOLEAN
      /\ \A i \in 1..n : queue[i] \in HallEvents /\ queue[i].age \in 0..(TimerRange - 1)
      /\ still \in 0..top /\ NewestAge \in 0..(TimerRange - 1)
  BY <1>1, QueuedEvents DEF FusionTypes
<1>3. \A a \in 0..(TimerRange - 1) :
         /\ (a + 1) % TimerRange \in 0..(TimerRange - 1)
         /\ a + 1 < TimerRange => (a + 1) % TimerRange = a + 1
  <2> DEFINE r == TimerRange
  <2>1. r \in Nat \ {0}
    BY HallConstants
  <2> HIDE DEF r
  <2>2. \A a \in 0..(r - 1) : (a + 1) % r \in 0..(r - 1) /\ (a + 1 < r => (a + 1) % r = a + 1)
    BY <2>1
  <2> QED BY <2>2 DEF r
<1>4. /\ queue' \in Seq(HallEvents) /\ Len(queue') = n
      /\ \A i \in 1..n : /\ queue'[i].age = (queue[i].age + 1) % TimerRange
                          /\ queue'[i].code = queue[i].code /\ queue'[i].edge = queue[i].edge
  <2>1. ASSUME NEW i \in 1..n
        PROVE  /\ Aged(queue[i]) \in HallEvents
               /\ Aged(queue[i]).age = (queue[i].age + 1) % TimerRange
               /\ Aged(queue[i]).code = queue[i].code /\ Aged(queue[i]).edge = queue[i].edge
    <3> DEFINE a == (queue[i].age + 1) % TimerRange
    <3>1. queue[i] \in HallEvents /\ a \in 0..(TimerRange - 1)
      BY <1>2, <1>3
    <3>2. Aged(queue[i]) = [queue[i] EXCEPT !.age = a]
      BY DEF Aged
    <3> HIDE DEF a
    <3>3. /\ Aged(queue[i]) \in HallEvents /\ Aged(queue[i]).age = a
          /\ Aged(queue[i]).code = queue[i].code /\ Aged(queue[i]).edge = queue[i].edge
      BY <3>1, <3>2 DEF HallEvents
    <3> QED BY <3>3 DEF a
  <2> QED BY <2>1, <1>1, <1>2
<1>5. FusionTypes' /\ CycleTimes'
  <2>1. lastChange' \in 0..(TimerRange - 1)
    BY <1>1, <1>3 DEF FusionTypes
  <2>2. still' \in 0..top /\ gap' \in 0..Away /\ late' \in BOOLEAN
    BY <1>1, <1>2, HallConstants
  <2>3. ~late' => gap' < Away
    <3>1. ~late' => gap' # Away
      BY <1>1
    <3> QED BY <2>2, <3>1, HallConstants
  <2> QED BY <1>1, <1>4, <2>1, <2>2, <2>3 DEF FusionTypes, CycleTimes
<1>6. Newest' = Newest /\ NewestAge' = (NewestAge + 1) % TimerRange /\ (queue' = <<>> <=> queue = <<>>)
  <2>1. queue' = <<>> <=> queue = <<>>
    BY <1>1, <1>2, <1>4 DEF FusionTypes
  <2> QED BY <2>1, <1>1, <1>4, QueuedEvents DEF Newest, NewestAge
<1>7. ChangesQueued'
  <2>1. \A i \in 1..n : Before(i)' = Before(i)
    <3> SUFFICES ASSUME NEW i \in 1..n PROVE Before(i)' = Before(i)
      OBVIOUS
    <3>1. CASE i = 1
      BY <3>1, <1>1, Zenon DEF Before
    <3>2. CASE i # 1
      <4>1. i - 1 \in 1..n
        BY <3>2, <1>2
      <4>2. queue'[i - 1].code = queue[i - 1].code
        BY <4>1, <1>4, Zenon
      <4> QED BY <3>2, <4>2, Zenon DEF Before
    <3> QED BY <3>1, <3>2, Zenon
  <2> QED BY <1>1, <1>2, <1>4, <1>6, <2>1 DEF ChangesQueued
<1>8. PastShown'
  <2>1. past'[1] = Newest /\ past'[2] = past[1]
    BY <1>1 DEF ChangesQueued
  <2>2. still' >= 2 => still >= 1
    BY <1>1, <1>2, HallConstants
  <2> QED BY <2>1, <2>2, <1>1, <1>6 DEF PastShown
<1>9. AgesTrue'
  <2> SUFFICES ASSUME gap' < Away PROVE AgesTrue'
    BY DEF AgesTrue
  <2>1. gap < Away /\ gap' = gap + 1 /\ gap \in Nat
    BY <1>1, <1>2, HallConstants
  <2>2. \A i \in 1..n : queue[i].age <= gap /\ queue[i].age \in Nat
    BY <2>1, <1>1, <1>2 DEF AgesTrue
  <2>3. \A i \in 1..n : queue'[i].age = queue[i].age + 1
    <3> SUFFICES ASSUME NEW i \in 1..n PROVE queue'[i].age = queue[i].age + 1
      OBVIOUS
    <3>1. queue[i].age + 1 < TimerRange
      BY <2>1, <2>2, HallConstants
    <3> QED BY <3>1, <1>2, <1>3, <1>4
  <2>4. ASSUME NEW k \in {0, 1}, NEW c, CodeSince(k, c)
        PROVE  CodeSince(k + 1, c)'
    <3>1. CASE c = code /\ \A i \in 1..n : queue[i].age < k
      BY <2>2, <2>3, <3>1, <1>1, <1>4, SMTT(30) DEF CodeSince
    <3>2. ASSUME NEW i \in 1..n, queue[i].age >= k, queue[i].code = c,
                 \A j \in 1..n : j > i => queue[j].age < k
          PROVE  CodeSince(k + 1, c)'
      <4>1. queue'[i].age >= k + 1 /\ queue'[i].code = c
        BY <2>2, <2>3, <3>2, <1>4
      <4>2. \A j \in 1..n : j > i => queue'[j].age < k + 1
        BY <2>2, <2>3, <3>2, <1>4
      <4> QED BY <4>1, <4>2, <1>4 DEF CodeSince
    <3> QED BY <3>1, <3>2, <2>4 DEF CodeSince
  <2>5. CodeSince(0, Newest)
    <3>1. CASE queue = <<>>
      BY <3>1 DEF CodeSince, Newest
    <3>2. CASE queue # <<>>
      <4>1. n \in 1..n
        BY <3>2, <1>1 DEF FusionTypes
      <4> QED BY <3>2, <4>1, <2>2, <1>2 DEF CodeSince, Newest
    <3> QED BY <3>1, <3>2
  <2>6. \A k \in {1, 2} : gap' >= k => CodeSince(k, past[k])'
    <3>0. PICK c, d : c = Newest /\ d = past[1]
      OBVIOUS
    <3>1. CodeSince(1, c)'
      BY <2>4, <2>5, <3>0
    <3>2. gap >= 1 => CodeSince(2, d)'
      BY <2>1, <2>4, <1>1, <3>0 DEF AgesTrue
    <3>3. past'[1] = c /\ past'[2] = d
      BY <1>1, <3>0 DEF ChangesQueued
    <3> QED BY <3>1, <3>2, <3>3, <2>1
  <2>7. \A i \in 1..n : queue'[i].age <= gap'
    BY <2>1, <2>2, <2>3
  <2> QED BY <2>6, <2>7, <1>4 DEF AgesTrue
<1>10. ChangeTimed'
  <2> SUFFICES ASSUME Newest # None
               PROVE  /\ still' < top => NewestAge' = still'
                      /\ still' = top /\ ~late' =>
                            /\ NewestAge' + 1 >= still'
                            /\ queue' # <<>> \/ gap' >= 1 => NewestAge' >= still'
                            /\ NewestAge' <= MaxAge + gap' + 2
    BY <1>6 DEF ChangeTimed
  <2> DEFINE a == NewestAge
  <2>1. /\ still < top => a = still
        /\ still = top /\ ~late => a + 1 >= still /\ a <= MaxAge + gap + 2
    BY <1>1 DEF ChangeTimed
  <2>2. a \in Nat /\ (a + 1 < TimerRange => NewestAge' = a + 1)
    <3>1. a \in 0..(TimerRange - 1) /\ NewestAge' = (a + 1) % TimerRange
      BY <1>2, <1>6
    <3> HIDE DEF a
    <3>2. a + 1 < TimerRange => NewestAge' = a + 1
      BY <3>1, <1>3
    <3> QED BY <3>1, <3>2
  <2> HIDE DEF a
  <2>3. CASE still < top
    <3>1. NewestAge' = still + 1 /\ still' = still + 1
      BY <2>1, <2>2, <2>3, <1>1, <1>2, HallConstants
    <3>2. still' = top => NewestAge' <= MaxAge + gap' + 2
      <4>1. gap' \in Nat
        BY <1>5 DEF FusionTypes
      <4> QED BY <3>1, <4>1, HallConstants
    <3> QED BY <3>1, <3>2, <1>2, HallConstants
  <2>4. CASE still = top /\ late
    <3>1. late' /\ still' = top
      BY <2>4, <1>1
    <3> QED BY <3>1, HallConstants
  <2>5. CASE still = top /\ ~late
    <3>1. NewestAge' = a + 1 /\ still' = still
      BY <2>1, <2>2, <2>5, <1>1, <1>2, HallConstants
    <3>2. gap' = gap + 1
      BY <2>5, <1>1 DEF CycleTimes
    <3>3. a + 1 >= top /\ a <= MaxAge + gap + 2 /\ gap \in Nat
      BY <2>1, <2>5, <1>2, HallConstants
    <3> QED BY <2>2, <2>5, <3>1, <3>2, <3>3, HallConstants
  <2>6. still < top \/ (still = top /\ late) \/ (still = top /\ ~late)
    BY <1>2, HallConstants
  <2> QED BY <2>3, <2>4, <2>5, <2>6
<1> QED BY <1>1, <1>5, <1>7, <1>8, <1>9, <1>10 DEF FusionInv, MeasuresTruth

(* The sub-steps of the control cycle. *)
LEMMA TimeKeeps ==
    ASSUME FusionInv, SubStep \/ CycleEnds \/ CycleBypassed
    PROVE  FusionInv'
<1>1. /\ Passes /\ gap' = (IF gap < Away THEN gap + 1 ELSE gap)
      /\ due \in -1..1 /\ gap \in 0..Away /\ gap >= due + 1
  BY DEF SubStep, CycleEnds, CycleBypassed, Passes, FusionInv, FusionTypes, CycleTimes
<1>2. due' \in -1..1 /\ gap' >= due' + 1
  <2>1. CASE SubStep
    BY <1>1, <2>1, HallConstants DEF SubStep
  <2>2. CASE CycleEnds
    BY <1>1, <2>2, HallConstants DEF CycleEnds
  <2>3. CASE CycleBypassed
    BY <1>1, <2>3, HallConstants DEF CycleBypassed
  <2> QED BY <2>1, <2>2, <2>3
<1> QED BY <1>1, <1>2, PassesKeeps

(* The code the fusion finds at the reference is the one of that time. *)
LEMMA CodeAtReference ==
    ASSUME FusionTypes, ChangesQueued, AgesTrue, gap < Away,
           NEW r \in {1, 2}, NEW c, CodeSince(r, c)
    PROVE  CodeAt(queue, r) = c
<1> DEFINE n == Len(queue)
           before == {i \in 1..n : queue[i].code # Before(i) /\ Signed(queue[i].age - r) >= 0}
           last == CHOOSE i \in before : \A j \in before : j <= i
<1>1. n \in Nat /\ \A i \in 1..n : queue[i].age \in Nat /\ queue[i].age <= gap
  BY QueuedEvents DEF AgesTrue
<1>2. \A i \in 1..n : Signed(queue[i].age - r) >= 0 <=> queue[i].age >= r
  <2> SUFFICES ASSUME NEW i \in 1..n
               PROVE  Signed(queue[i].age - r) >= 0 <=> queue[i].age >= r
    OBVIOUS
  <2>1. PICK t \in Int : t = queue[i].age - r /\ -(2 * MaxAge) <= t /\ t < 2 * MaxAge
    BY <1>1, HallConstants DEF FusionTypes
  <2>2. Signed(t) = t
    BY <2>1, SignedNear
  <2> QED BY <2>1, <2>2, <1>1
<1>3. CodeAt(queue, r) = IF before = {} THEN code ELSE queue[last].code
  BY DEF CodeAt, Before
<1> HIDE DEF last
<1>4. CASE c = code /\ \A i \in 1..n : queue[i].age < r
  <2>1. before = {}
    BY <1>1, <1>2, <1>4
  <2> QED BY <2>1, <1>3, <1>4
<1>5. ASSUME NEW i \in 1..n, queue[i].age >= r, queue[i].code = c,
             \A j \in 1..n : j > i => queue[j].age < r
      PROVE  CodeAt(queue, r) = c
  <2>1. \A j \in before : j <= i /\ j \in 1..n
    BY <1>1, <1>2, <1>5
  <2>2. CASE queue[i].code # Before(i)
    <3>1. i \in before
      BY <2>2, <1>2, <1>5
    <3> HIDE DEF before
    <3>2. last \in before /\ \A j \in before : j <= last
      BY <3>1, <2>1 DEF last
    <3>3. last = i
      BY <3>1, <3>2, <2>1
    <3> QED BY <3>1, <3>3, <1>3, <1>5
  <2>3. CASE queue[i].code = Before(i)
    <3>1. i = 1 /\ code = c
      BY <2>3, <1>5 DEF ChangesQueued, Before
    <3>2. before = {}
      BY <2>1, <2>3, <3>1
    <3> QED BY <3>1, <3>2, <1>3
  <2> QED BY <2>2, <2>3
<1> QED BY <1>4, <1>5 DEF CodeSince

(* The age of the last change the fusion goes on with: of the newest event, or, *)
(* without events, the one kept, wherever a code is shown.  Whatever the ages:   *)
(* when that change does not lie after the reference, its code is found there.   *)
LEMMA NewestChange ==
    ASSUME FusionTypes, ChangesQueued, NEW r \in {1, 2}
    PROVE  /\ ChangeAge(queue) \in 0..(TimerRange - 1)
           /\ Newest # None => ChangeAge(queue) = NewestAge
           /\ Signed(ChangeAge(queue) - r) >= 0 => CodeAt(queue, r) = Newest
<1> DEFINE n == Len(queue)
           changes == {i \in 1..n : queue[i].code # Before(i)}
           before == {i \in 1..n : queue[i].code # Before(i) /\ Signed(queue[i].age - r) >= 0}
           last == CHOOSE i \in changes : \A j \in changes : j <= i
           lastBefore == CHOOSE i \in before : \A j \in before : j <= i
<1>1. /\ n \in Nat /\ (queue # <<>> => n \in 1..n)
      /\ \A i \in 1..n : queue[i].age \in 0..(TimerRange - 1)
      /\ lastChange \in 0..(TimerRange - 1)
  BY QueuedEvents DEF FusionTypes
<1>2. ChangeAge(queue) = IF changes = {} THEN lastChange ELSE queue[last].age
  BY DEF ChangeAge, Before
<1>3. CodeAt(queue, r) = IF before = {} THEN code ELSE queue[lastBefore].code
  BY DEF CodeAt, Before
<1> HIDE DEF last, lastBefore
<1>4. CASE queue = <<>>
  <2>1. changes = {} /\ before = {}
    BY <1>4
  <2> QED BY <2>1, <1>1, <1>2, <1>3, <1>4 DEF Newest, NewestAge
<1>5. CASE queue # <<>> /\ queue[n].code # Before(n)
  <2>1. n \in changes /\ \A j \in changes : j <= n /\ j \in 1..n
    BY <1>1, <1>5
  <2>2. last = n
    <3> HIDE DEF changes
    <3>1. last \in changes /\ \A j \in changes : j <= last
      BY <2>1 DEF last
    <3> QED BY <2>1, <3>1, <1>1
  <2>3. ChangeAge(queue) = queue[n].age
    BY <2>1, <2>2, <1>2
  <2>4. Signed(queue[n].age - r) >= 0 => lastBefore = n /\ n \in before
    <3> SUFFICES ASSUME Signed(queue[n].age - r) >= 0 PROVE lastBefore = n /\ n \in before
      OBVIOUS
    <3>1. n \in before /\ \A j \in before : j <= n /\ j \in 1..n
      BY <1>1, <1>5
    <3> HIDE DEF before
    <3>2. lastBefore \in before /\ \A j \in before : j <= lastBefore
      BY <3>1 DEF lastBefore
    <3> QED BY <3>1, <3>2, <1>1
  <2>5. CASE Signed(queue[n].age - r) >= 0
    BY <2>3, <2>4, <2>5, <1>1, <1>3, <1>5 DEF Newest, NewestAge
  <2>6. CASE ~(Signed(queue[n].age - r) >= 0)
    BY <2>3, <2>6, <1>1, <1>5 DEF Newest, NewestAge
  <2> QED BY <2>5, <2>6
<1>6. CASE queue # <<>> /\ queue[n].code = Before(n)
  <2>1. n = 1 /\ code = None /\ queue[1].code = None
    BY <1>1, <1>6 DEF ChangesQueued, Before
  <2>2. changes = {} /\ before = {}
    BY <2>1, <1>6
  <2> QED BY <2>1, <2>2, <1>1, <1>2, <1>3, <1>6 DEF Newest
<1> QED BY <1>4, <1>5, <1>6

(* A code that has come back since the reference came with an event. *)
LEMMA NewestFresh ==
    ASSUME FusionTypes, AgesTrue, gap < Away, NEW r \in {1, 2}, CodeSince(r, None), Newest # None
    PROVE  NewestAge <= gap
<1>1. queue # <<>>
  BY DEF CodeSince, Newest
<1> QED BY <1>1, QueuedEvents DEF AgesTrue, NewestAge

(* The clamped age stays in the range of the timestamps. *)
LEMMA ClampedAge ==
    ASSUME NEW a \in 0..(TimerRange - 1), NEW r \in {1, 2}
    PROVE  /\ Clamped(a, r) \in 0..(TimerRange - 1)
           /\ Clamped(a, r) = IF Signed(a - r) > MaxAge THEN r + MaxAge ELSE a
<1>1. (r + MaxAge) % TimerRange = r + MaxAge /\ r + MaxAge \in 0..(TimerRange - 1)
  <2>1. PICK m \in Nat \ {0}, x \in Nat : m = TimerRange /\ x = r + MaxAge /\ x < m
    BY HallConstants
  <2>2. x % m = x
    BY <2>1
  <2> QED BY <2>1, <2>2
<1> QED BY <1>1 DEF Clamped

(* In the standstill time the age is exact and below the clamp. *)
LEMMA YoungAge ==
    ASSUME NEW a \in Nat, a < Standstill + 3, NEW r \in {1, 2}
    PROVE  Clamped(a, r) = a /\ Signed(a - r) = a - r
<1>1. a \in 0..(TimerRange - 1)
  BY HallConstants
<1>2. PICK t \in Int : t = a - r /\ -(2 * MaxAge) <= t /\ t < 2 * MaxAge /\ t <= MaxAge
  BY HallConstants
<1>3. Signed(a - r) = t
  BY <1>2, SignedNear
<1>4. ~(Signed(a - r) > MaxAge)
  BY <1>2, <1>3, HallConstants
<1> QED BY <1>1, <1>2, <1>3, <1>4, ClampedAge

(* Without a long absence the clamp keeps the age of a standing rotor where it shows. *)
LEMMA OldAge ==
    ASSUME NEW a \in 0..(TimerRange - 1), NEW g \in Nat, NEW r \in {1, 2},
           g >= r, g < Away, a <= MaxAge + g + 2, a >= Standstill + 3
    PROVE  LET change == Clamped(a, r) IN
           /\ Signed(change - r) > Standstill
           /\ change <= MaxAge + 2 /\ change + 1 >= Standstill + 3
<1>1. Signed(a - r) = a - r
  <2>1. PICK t \in Int : t = a - r /\ -(2 * MaxAge) <= t /\ t < 2 * MaxAge
    BY HallConstants
  <2> QED BY <2>1, SignedNear
<1>2. PICK change \in Nat : /\ change = Clamped(a, r)
                            /\ change = IF a - r > MaxAge THEN r + MaxAge ELSE a
  <2>1. /\ Clamped(a, r) \in 0..(TimerRange - 1)
        /\ Clamped(a, r) = IF Signed(a - r) > MaxAge THEN r + MaxAge ELSE a
    BY ClampedAge
  <2>2. Clamped(a, r) = IF a - r > MaxAge THEN r + MaxAge ELSE a
    BY <2>1, <1>1
  <2>3. Clamped(a, r) \in Nat
    BY <2>1, HallConstants
  <2> QED BY <2>2, <2>3
<1>3. Signed(change - r) = change - r
  <2>1. PICK t \in Int : t = change - r /\ -(2 * MaxAge) <= t /\ t < 2 * MaxAge
    BY <1>2, HallConstants
  <2> QED BY <2>1, SignedNear
<1>4. change - r > Standstill /\ change <= MaxAge + 2 /\ change + 1 >= Standstill + 3
  BY <1>2, HallConstants
<1> QED BY <1>2, <1>3, <1>4

(* What a run measures is so. *)
LEMMA RunTrue ==
    ASSUME FusionTypes, CycleTimes, ChangesQueued, PastShown, AgesTrue, ChangeTimed,
           NEW r \in {1, 2}, gap >= r,
           NEW change, CodeAt(queue, r) # None => change = Clamped(ChangeAge(queue), r)
    PROVE  /\ ~EdgesWrong(queue)
           /\ gap < Away => CodeAt(queue, r) = past[r]
           /\ CodeAt(queue, r) # None /\ Signed(change - r) > Standstill =>
                 past[r] # None /\ still - r > Standstill
           /\ past[r] # None /\ still - r > Standstill /\ ~late =>
                 CodeAt(queue, r) # None /\ Signed(change - r) > Standstill
<1> DEFINE at == CodeAt(queue, r)
           a == ChangeAge(queue)
           top == Standstill + 3
<1>1. /\ a \in 0..(TimerRange - 1)
      /\ Newest # None => a = NewestAge
      /\ Signed(a - r) >= 0 => at = Newest
  BY NewestChange
<1>2. /\ still \in 0..top /\ gap \in Nat /\ still \in Nat /\ a \in Nat
      /\ Standstill \in Nat /\ 1 <= Standstill /\ MaxAge \in Nat
  BY <1>1, HallConstants DEF FusionTypes
<1>3. still >= r => past[r] = Newest
  BY DEF PastShown
<1>4. gap < Away => at = past[r]
  BY CodeAtReference DEF AgesTrue
<1>5. ~EdgesWrong(queue)
  BY DEF EdgesWrong, ChangesQueued, Before
<1> HIDE DEF at, a
<1>6. ASSUME at # None, Signed(change - r) > Standstill
      PROVE  past[r] # None /\ still - r > Standstill
  <2>1. change = Clamped(a, r) /\ change = IF Signed(a - r) > MaxAge THEN r + MaxAge ELSE a
    BY <1>1, <1>6, ClampedAge DEF at, a
  <2>2. Signed(a - r) >= 0
    <3>1. CASE Signed(a - r) > MaxAge
      <4>1. PICK s \in Int : s = Signed(a - r)
        BY <1>2, HallConstants DEF Signed
      <4> QED BY <3>1, <4>1, <1>2
    <3>2. CASE ~(Signed(a - r) > MaxAge)
      <4>1. PICK s \in Int : s = Signed(a - r)
        BY <1>2, HallConstants DEF Signed
      <4>2. s > Standstill
        BY <2>1, <3>2, <4>1, <1>6
      <4> QED BY <4>1, <4>2, <1>2
    <3> QED BY <3>1, <3>2
  <2>3. Newest # None /\ a = NewestAge
    BY <2>2, <1>1, <1>6
  <2>4. CASE still < top
    <3>1. a = still
      BY <2>3, <2>4, <1>2 DEF ChangeTimed
    <3>2. change = a /\ Signed(a - r) = a - r
      BY <2>1, <2>4, <3>1, <1>2, YoungAge
    <3>3. still - r > Standstill
      BY <3>1, <3>2, <1>6
    <3>4. still >= r
      BY <3>3, <1>2
    <3> QED BY <3>3, <3>4, <1>3, <2>3
  <2>5. CASE still = top
    <3>1. still - r > Standstill /\ still >= r
      BY <2>5, <1>2
    <3> QED BY <3>1, <1>3, <2>3
  <2> QED BY <2>4, <2>5, <1>2
<1>7. ASSUME past[r] # None, still - r > Standstill, ~late
      PROVE  at # None /\ Signed(change - r) > Standstill
  <2>1. gap < Away /\ still >= r
    BY <1>2, <1>7 DEF CycleTimes
  <2>2. at # None /\ Newest # None /\ a = NewestAge
    BY <2>1, <1>1, <1>3, <1>4, <1>7
  <2>3. change = Clamped(a, r)
    BY <2>2 DEF at, a
  <2>4. CASE still < top
    <3>1. a = still
      BY <2>2, <2>4, <1>2 DEF ChangeTimed
    <3>2. change = a /\ Signed(a - r) = a - r
      BY <2>3, <2>4, <3>1, <1>2, YoungAge
    <3> QED BY <2>2, <3>1, <3>2, <1>7
  <2>5. CASE still = top
    <3>1. a >= top /\ a <= MaxAge + gap + 2
      <4>1. gap >= 1
        BY <1>2
      <4> QED BY <2>2, <2>5, <4>1, <1>2, <1>7 DEF ChangeTimed
    <3>2. Signed(Clamped(a, r) - r) > Standstill
      BY <2>1, <3>1, <1>1, <1>2, OldAge
    <3> QED BY <2>2, <2>3, <3>2
  <2> QED BY <2>4, <2>5, <1>2
<1> QED BY <1>4, <1>5, <1>6, <1>7 DEF at

(* The age a run keeps. *)
LEMMA KeptAge ==
    ASSUME FusionTypes, CycleTimes, ChangesQueued, PastShown, AgesTrue, ChangeTimed,
           NEW r \in {1, 2}, gap >= r, NEW change,
           change = IF CodeAt(queue, r) = None THEN ChangeAge(queue)
                    ELSE Clamped(ChangeAge(queue), r)
    PROVE  /\ change \in 0..(TimerRange - 1)
           /\ Newest # None =>
                 /\ still < Standstill + 3 => change = still
                 /\ still = Standstill + 3 /\ ~late => change + 1 >= still /\ change <= MaxAge + 2
<1> DEFINE at == CodeAt(queue, r)
           a == ChangeAge(queue)
           top == Standstill + 3
<1>1. /\ a \in 0..(TimerRange - 1)
      /\ Newest # None => a = NewestAge
  BY NewestChange
<1>2. /\ still \in 0..top /\ gap \in Nat /\ still \in Nat /\ a \in Nat
      /\ Standstill \in Nat /\ 1 <= Standstill /\ MaxAge \in Nat
  BY <1>1, HallConstants DEF FusionTypes
<1>3. change = IF at = None THEN a ELSE Clamped(a, r)
  OBVIOUS
<1>4. gap < Away => at = past[r] /\ CodeSince(r, past[r])
  BY CodeAtReference DEF AgesTrue
<1> HIDE DEF at, a
<1>5. change \in 0..(TimerRange - 1)
  BY <1>1, <1>3, ClampedAge
<1>6. ASSUME Newest # None, still < top
      PROVE  change = still
  <2>1. a = still
    BY <1>1, <1>2, <1>6 DEF ChangeTimed
  <2>2. Clamped(a, r) = a
    BY <2>1, <1>2, <1>6, YoungAge
  <2> QED BY <2>1, <2>2, <1>3
<1>7. ASSUME Newest # None, still = top, ~late
      PROVE  change + 1 >= still /\ change <= MaxAge + 2
  <2>1. gap < Away /\ gap >= 1
    BY <1>2, <1>7 DEF CycleTimes
  <2>2. a >= top /\ a <= MaxAge + gap + 2
    BY <2>1, <1>1, <1>2, <1>7 DEF ChangeTimed
  <2>3. CASE at = None
    <3>1. a <= gap
      BY <2>1, <2>3, <1>1, <1>4, <1>7, NewestFresh
    <3> QED BY <2>1, <2>2, <2>3, <3>1, <1>2, <1>3, <1>7, HallConstants
  <2>4. CASE at # None
    <3>1. Clamped(a, r) <= MaxAge + 2 /\ Clamped(a, r) + 1 >= top
      BY <2>1, <2>2, <1>1, <1>2, OldAge
    <3> QED BY <2>4, <3>1, <1>3, <1>7
  <2> QED BY <2>3, <2>4
<1> QED BY <1>5, <1>6, <1>7

(* A run that takes all events measures what was so and leaves no event. *)
LEMMA ObserveKeeps ==
    ASSUME FusionInv, Observe
    PROVE  FusionInv'
<1> DEFINE n == Len(queue)
           count == IF n < MaxHallEvents THEN n ELSE MaxHallEvents
           events == SubSeq(queue, 1, count)
           r == due + 1
           at == CodeAt(events, r)
           changed == ChangeAge(events)
           change == IF at = None THEN changed ELSE Clamped(changed, r)
           holds == at # None /\ Signed(change - r) > Standstill
           stood == past[r] # None /\ still - r > Standstill
<1>1. /\ ~dropped /\ due >= 0
      /\ queue' = SubSeq(queue, count + 1, Len(queue))
      /\ code' = IF events = <<>> THEN code ELSE events[count].code
      /\ lastChange' = change
      /\ due' = -1 /\ gap' = 0
      /\ dropped' = (dropped \/ count < Len(queue))
      /\ wrong' = IF dropped' THEN {}
                  ELSE {m \in Measurements :
                           \/ m = "edge" /\ EdgesWrong(events)
                           \/ m = "sector" /\ gap < Away /\ at \notin {None, past[r]}
                           \/ m = "held" /\ started /\ holds /\ ~stood
                           \/ m = "freed" /\ started /\ stood /\ ~holds /\ ~late
                           \/ m = "freed late" /\ started /\ stood /\ ~holds /\ late}
      /\ UNCHANGED <<sector, blind, past, still, half, late>>
  BY Zenon DEF Observe
<1>a. /\ ~dropped /\ due >= 0 /\ due' = -1 /\ gap' = 0 /\ late' = late
      /\ sector' = sector /\ blind' = blind /\ past' = past /\ still' = still
  BY <1>1
<1>b. dropped' <=> count < n
  BY <1>1
<1>c. queue' = SubSeq(queue, count + 1, n) /\ code' = IF events = <<>> THEN code ELSE events[count].code
  BY <1>1
<1>2. /\ FusionTypes /\ CycleTimes /\ ChangesQueued /\ PastShown /\ AgesTrue /\ ChangeTimed
      /\ sector' \in Sectors
  BY <1>a DEF FusionInv
<1>3. CASE dropped'
  <2>1. wrong' = {}
    BY <1>1, <1>3
  <2> QED BY <1>2, <1>3, <2>1 DEF FusionInv, MeasuresTruth
<1>4. CASE ~dropped'
  <2>1. count = n /\ n \in Nat
    <3>1. n \in Nat
      BY <1>2 DEF FusionTypes
    <3> HIDE DEF n
    <3> QED BY <3>1, <1>b, <1>4, HallFusionAssumption
  <2>2. events = queue /\ queue' = <<>>
    BY <1>c, <1>2, <2>1 DEF FusionTypes
  <2>3. code' = Newest /\ code' \in Codes
    BY <1>c, <2>1, <2>2, <1>2, QueuedEvents DEF Newest
  <2>4. r \in {1, 2} /\ gap >= r
    <3>1. due \in {0, 1}
      BY <1>a, <1>2 DEF FusionTypes
    <3> QED BY <3>1, <1>2 DEF CycleTimes
  <2>5. lastChange' = change
    BY <1>1
  <2> HIDE DEF r
  <2>6. /\ ~EdgesWrong(events)
        /\ gap < Away => at = past[r]
        /\ holds => stood
        /\ stood /\ ~late => holds
    BY <1>2, <2>2, <2>4, RunTrue
  <2>7. /\ change \in 0..(TimerRange - 1)
        /\ Newest # None =>
              /\ still < Standstill + 3 => change = still
              /\ still = Standstill + 3 /\ ~late => change + 1 >= still /\ change <= MaxAge + 2
    BY <1>2, <2>2, <2>4, KeptAge
  <2>8. wrong' \subseteq {"freed late"}
    <3>1. wrong' = {m \in Measurements :
                       \/ m = "edge" /\ EdgesWrong(events)
                       \/ m = "sector" /\ gap < Away /\ at \notin {None, past[r]}
                       \/ m = "held" /\ started /\ holds /\ ~stood
                       \/ m = "freed" /\ started /\ stood /\ ~holds /\ ~late
                       \/ m = "freed late" /\ started /\ stood /\ ~holds /\ late}
      BY <1>1, <1>4 DEF r
    <3> HIDE DEF holds, stood, events, at
    <3> QED BY <3>1, <2>6
  <2> HIDE DEF change
  <2>9. FusionTypes' /\ CycleTimes'
    <3>1. FusionTypes'
      BY <1>a, <1>2, <2>2, <2>3, <2>5, <2>7, HallConstants DEF FusionTypes
    <3>2. CycleTimes'
      BY <1>a, HallConstants DEF CycleTimes
    <3> QED BY <3>1, <3>2
  <2>10. Newest' = Newest /\ NewestAge' = change /\ Len(queue') = 0
    BY <2>2, <2>3, <2>5 DEF Newest, NewestAge
  <2>11. ChangesQueued' /\ PastShown' /\ AgesTrue'
    <3>1. ChangesQueued'
      BY <2>10, <1>a, <1>2 DEF ChangesQueued, Shown
    <3>2. PastShown'
      BY <2>10, <1>a, <1>2 DEF PastShown
    <3>3. AgesTrue'
      BY <2>10, <1>a DEF AgesTrue
    <3> QED BY <3>1, <3>2, <3>3
  <2>12. ChangeTimed'
    <3>1. gap' = 0 /\ still' = still /\ late' = late /\ queue' = <<>>
      BY <1>a, <2>2
    <3> QED BY <3>1, <2>7, <2>10, HallConstants DEF ChangeTimed
  <2> QED BY <1>2, <2>8, <2>9, <2>11, <2>12 DEF FusionInv, MeasuresTruth
<1> QED BY <1>3, <1>4

(* A restart of the capture: the present code is the only event. *)
LEMMA FusionRestartKeeps ==
    ASSUME FusionInv, RestartFusion
    PROVE  FusionInv'
<1> DEFINE event == [code |-> Shown(sector, blind), age |-> 0, edge |-> None]
<1>1. /\ sector \in Sectors /\ queue' = <<event>> /\ still' = 0 /\ ~dropped'
      /\ code' = None /\ lastChange' = 0 /\ due' = -1 /\ gap' = 0 /\ late' = FALSE /\ wrong' = {}
      /\ sector' = sector /\ blind' = blind
  BY DEF RestartFusion, FusionInv
<1>2. event \in HallEvents /\ event.age = 0 /\ event.code = Shown(sector, blind) /\ event.edge = None
  BY <1>1, HallConstants DEF HallEvents, Shown, Codes
<1> HIDE DEF event
<1>3. queue' \in Seq(HallEvents) /\ Len(queue') = 1 /\ queue'[1] = event /\ queue' # <<>>
  BY <1>1, <1>2
<1>4. FusionTypes'
  <2>1. 0 \in 0..(Standstill + 3) /\ 0 \in 0..(TimerRange - 1) /\ 0 \in 0..Away /\ None \in Codes
    BY HallConstants DEF Codes
  <2>2. late' \in BOOLEAN
    BY <1>1
  <2>3. still' \in 0..(Standstill + 3) /\ code' \in Codes /\ lastChange' \in 0..(TimerRange - 1)
    BY <1>1, <2>1
  <2>4. due' \in -1..1 /\ gap' \in 0..Away
    BY <1>1, <2>1
  <2> QED BY <1>3, <2>2, <2>3, <2>4 DEF FusionTypes
<1>5. CycleTimes' /\ PastShown' /\ AgesTrue'
  BY <1>1, <1>2, <1>3, HallConstants DEF CycleTimes, PastShown, AgesTrue
<1>6. ChangesQueued'
  BY <1>1, <1>2, <1>3 DEF ChangesQueued, Newest, Before, EdgeAngle, Shown
<1>7. ChangeTimed'
  BY <1>1, <1>2, <1>3, HallConstants DEF ChangeTimed, NewestAge
<1> QED BY <1>1, <1>4, <1>5, <1>6, <1>7 DEF FusionInv, MeasuresTruth

(* The fusion measures what was so, for all timestamp ranges, standstill times and queues *)
(* and however long the observer is bypassed: edges at the boundary the rotor passed, and *)
(* no hold of a rotor that moved; while the runs come within a quarter of the range, the  *)
(* sector at the reference time and a hold of every rotor that stands.                    *)
THEOREM FusionCorrect == FusionSpec => []MeasuresTruth
<1>1. FusionInit => FusionInv
  <2> SUFFICES ASSUME FusionInit PROVE FusionInv
    OBVIOUS
  <2> DEFINE event == [code |-> sector, age |-> 0, edge |-> None]
  <2>1. /\ sector = 0 /\ ~blind /\ still = 0 /\ queue = <<event>> /\ code = None /\ lastChange = 0
        /\ due = -1 /\ gap = 0 /\ late = FALSE /\ ~dropped /\ wrong = {}
    BY DEF FusionInit
  <2>2. event \in HallEvents /\ event.age = 0 /\ event.code = sector /\ event.edge = None
    BY <2>1, HallConstants DEF HallEvents, Codes, Sectors
  <2> HIDE DEF event
  <2>3. queue \in Seq(HallEvents) /\ Len(queue) = 1 /\ queue[1] = event /\ queue # <<>>
    BY <2>1, <2>2
  <2>4. FusionTypes
    <3>1. 0 \in 0..(Standstill + 3) /\ 0 \in 0..(TimerRange - 1) /\ 0 \in 0..Away /\ None \in Codes
      BY HallConstants DEF Codes
    <3>2. late \in BOOLEAN
      BY <2>1
    <3>3. still \in 0..(Standstill + 3) /\ code \in Codes /\ lastChange \in 0..(TimerRange - 1)
      BY <2>1, <3>1
    <3>4. due \in -1..1 /\ gap \in 0..Away
      BY <2>1, <3>1
    <3> QED BY <2>3, <3>2, <3>3, <3>4 DEF FusionTypes
  <2>5. CycleTimes /\ PastShown /\ AgesTrue
    BY <2>1, <2>2, <2>3, HallConstants DEF CycleTimes, PastShown, AgesTrue
  <2>6. ChangesQueued
    BY <2>1, <2>2, <2>3 DEF ChangesQueued, Newest, Before, EdgeAngle, Shown
  <2>7. ChangeTimed
    BY <2>1, <2>2, <2>3, HallConstants DEF ChangeTimed, NewestAge
  <2> QED BY <2>1, <2>4, <2>5, <2>6, <2>7 DEF FusionInv, MeasuresTruth, Sectors
<1>2. FusionInv /\ [FusionNext]_hallVars => FusionInv'
  <2> SUFFICES ASSUME FusionInv, [FusionNext]_hallVars PROVE FusionInv'
    OBVIOUS
  <2>1. CASE UNCHANGED hallVars
    BY <2>1 DEF hallVars, captureVars, fusionVars, FusionInv, FusionTypes, MeasuresTruth, CycleTimes,
                ChangesQueued, PastShown, AgesTrue, ChangeTimed, CodeSince, Newest, NewestAge, Before, Shown
  <2> QED BY <2>1, RotorKeeps, TimeKeeps, ObserveKeeps, FusionRestartKeeps DEF FusionNext
<1>3. FusionInv => MeasuresTruth
  BY DEF FusionInv
<1> QED BY <1>1, <1>2, <1>3, PTL DEF FusionSpec

-----------------------------------------------------------------------------
(* The display line                                                        *)

Ticks == 0..(TickModulus - 1)
Edge == [lineTicks : Ticks, level : BOOLEAN]

FrameTicks == (StopBit + 1) * BitTicks
HalfBit == BitTicks \div 2
BitAt(k) == k * BitTicks
BitNo(ph) == ph \div BitTicks

NextTicks(t) == (t + 1) % TickModulus

\* The ticks from one stamp to a later one.
Between(s, t) == (t - s) % TickModulus

UartTypes ==
    /\ lineTicks \in Ticks /\ readGap \in 0..ReadGap /\ reading \in BOOLEAN
    /\ sending \in Payloads \cup {<<>>}
    /\ phase \in 0..(FrameTicks - 1) /\ (sending = <<>> => phase = 0)
    /\ edges \in Seq(Edge)
    /\ expected \in Seq(Payloads) /\ Len(expected) <= FifoSize

Fields(u) == DOMAIN u = {"level", "inFrame", "start", "bit", "data", "fifo"}

Decoder(u) ==
    /\ Fields(u) /\ u.level \in BOOLEAN /\ u.inFrame \in BOOLEAN
    /\ u.fifo \in Seq(Payloads)

\* The frame of the byte b is open, and the bits before the next sample are in place.
InFrame(u, b) ==
    /\ Decoder(u) /\ u.inFrame = TRUE /\ b \in Payloads
    /\ u.start \in Ticks /\ u.bit \in 0..StopBit /\ u.data \in Payloads
    /\ \A k \in 1..DataBits : k < u.bit => u.data[k] = b[k]

\* The level is the one of the bits from the next sample up to the bit c.
Open(u, b, c) == InFrame(u, b) /\ \A k \in u.bit..c : u.level = LineLevel(b, k)

Closed(u) == Decoder(u) /\ u.inFrame = FALSE /\ u.level = TRUE

\* The decoder has followed the line: it has every byte, ...
HasAll(u, byte, ph, exp) ==
    Closed(u) /\ exp = u.fifo /\ (byte # <<>> => ph > BitAt(StopBit) + HalfBit)

\* ... is in the one on the line, ...
InByte(u, byte, ph, exp, t) ==
    LET c == BitNo(ph)
    IN  /\ byte # <<>> /\ Open(u, byte, c) /\ u.bit <= c + 1
        /\ u.level = LineLevel(byte, c)
        /\ Between(u.start, t) = ph /\ exp = Append(u.fifo, byte)

\* ... or has the stop bit of the last one to sample, since at most slack ticks.
AtEnd(u, b, ph, t, slack) ==
    /\ Open(u, b, StopBit) /\ u.level = TRUE
    /\ Between(u.start, t) \in (FrameTicks + ph)..(FrameTicks + slack)

Follows(u, byte, ph, exp, t, slack) ==
    \/ HasAll(u, byte, ph, exp)
    \/ InByte(u, byte, ph, exp, t)
    \/ byte = <<>> /\ \E b \in Payloads : AtEnd(u, b, 0, t, slack) /\ exp = Append(u.fifo, b)

\* It has but for the start edge e of the byte on the line.
BeforeByte(u, e, byte, ph, exp, t, slack) ==
    /\ byte # <<>> /\ e.level = FALSE /\ Between(e.lineTicks, t) = ph
    /\ \/ Closed(u) /\ exp = Append(u.fifo, byte)
       \/ \E b \in Payloads : /\ AtEnd(u, b, ph, t, slack)
                              /\ exp = Append(Append(u.fifo, b), byte)

\* It has but for the edge e before the present bit.
BeforeBit(u, e, byte, ph, exp, t) ==
    LET c == BitNo(ph)
    IN  /\ byte # <<>> /\ c > 0 /\ e.level = LineLevel(byte, c)
        /\ Between(e.lineTicks, t) = ph - BitAt(c)
        /\ Open(u, byte, c - 1) /\ u.bit <= c
        /\ Between(u.start, t) = ph /\ exp = Append(u.fifo, byte)

ButOne(u, e, byte, ph, exp, t, rg) ==
    \/ ph <= rg /\ BeforeByte(u, e, byte, ph, exp, t, ReadGap + rg)
    \/ ph - BitAt(BitNo(ph)) <= rg /\ BeforeBit(u, e, byte, ph, exp, t)

\* Between two reads, the queue of edges has what the decoder has still to follow; during
\* one that is in time, it has one edge at most.
FollowedAt(rd, rg, q, u, byte, ph, exp, t) ==
    IF rd
    THEN rg <= HalfBit =>
           \/ q = <<>> /\ Follows(u, byte, ph, exp, t, ReadGap + rg)
           \/ Len(q) = 1 /\ ButOne(u, q[1], byte, ph, exp, t, rg)
    ELSE Follows(PushEdges(u, q), byte, ph, exp, t, rg)

Followed == FollowedAt(reading, readGap, edges, uart, sending, phase, expected, lineTicks)

\* A set of natural numbers has a least element: what induction over the samples and
\* the edges rests on.
LEMMA LeastElement ==
    ASSUME NEW T, T \subseteq Nat, T # {}
    PROVE  \E m \in T : \A k \in T : m <= k
<1>1. PICK m \in T : \A k \in T : ~(<<k, m>> \in OpToRel(<, Nat))
  BY NatLessThanWellFounded, WFMin
<1>2. \A k \in T : ~(k < m)
  BY <1>1 DEF OpToRel
<1> QED BY <1>2

\* What the assumption about the constants says, piece by piece.
LEMMA UartBounds ==
    /\ DataBits \in Nat \ {0} /\ BitTicks \in Nat \ {0} /\ FifoSize \in Nat \ {0}
    /\ ReadGap \in Nat \ {0} /\ EdgeQueueSize \in Nat /\ EdgeQueueSize > 1
    /\ TickModulus \in Nat /\ FrameTicks \in Nat /\ StopBit \in Nat /\ StopBit = DataBits + 1
    /\ 2 * (ReadGap + FrameTicks) < TickModulus
<1>1. /\ DataBits \in Nat \ {0} /\ BitTicks \in Nat \ {0} /\ FifoSize \in Nat \ {0}
      /\ ReadGap \in Nat \ {0} /\ EdgeQueueSize \in Nat /\ EdgeQueueSize > 1
      /\ TickModulus \in Nat /\ 2 * (ReadGap + (DataBits + 2) * BitTicks) < TickModulus
  BY EdgeUartAssumption
<1>2. StopBit \in Nat /\ StopBit = DataBits + 1 /\ StopBit + 1 = DataBits + 2
  BY <1>1 DEF StopBit
<1>3. FrameTicks = (DataBits + 2) * BitTicks
  BY <1>2 DEF FrameTicks
<1>4. FrameTicks \in Nat
  BY <1>1, <1>3
<1> QED BY <1>1, <1>2, <1>3, <1>4

\* Products, without the multiplication.
LEMMA ProductSteps ==
    ASSUME NEW b \in Nat, NEW k \in Nat
    PROVE  k * b \in Nat /\ (k + 1) * b = k * b + b /\ 0 * b = 0
OBVIOUS

\* The bits begin BitTicks apart.
LEMMA BitTimes ==
    /\ \A k \in Nat : BitAt(k) \in Nat /\ BitAt(k + 1) = BitAt(k) + BitTicks
    /\ \A k, l \in Nat : k < l => BitAt(k) + BitTicks <= BitAt(l)
    /\ BitAt(0) = 0 /\ FrameTicks = BitAt(StopBit) + BitTicks
    /\ HalfBit \in Nat /\ HalfBit < BitTicks
<1>1. BitTicks \in Nat /\ BitTicks > 0 /\ StopBit \in Nat
  BY UartBounds
<1>2. \A k \in Nat : BitAt(k) \in Nat /\ BitAt(k + 1) = BitAt(k) + BitTicks
  BY <1>1, ProductSteps DEF BitAt
<1>3. ASSUME NEW k \in Nat, NEW l \in Nat, k < l
      PROVE  BitAt(k) + BitTicks <= BitAt(l)
  <2> DEFINE d == l - k - 1
  <2>1. d \in Nat /\ l = (k + 1) + d
    BY <1>3
  <2> HIDE DEF d
  <2>2. d * BitTicks \in Nat
    BY <1>1, <2>1
  <2>3. l * BitTicks = (k + 1) * BitTicks + d * BitTicks
    BY <1>1, <2>1
  <2>4. (k + 1) * BitTicks = k * BitTicks + BitTicks /\ k * BitTicks \in Nat
    BY <1>1, ProductSteps
  <2> QED BY <2>2, <2>3, <2>4, <1>1 DEF BitAt
<1>4. BitAt(0) = 0 /\ FrameTicks = BitAt(StopBit) + BitTicks
  BY <1>1, ProductSteps DEF BitAt, FrameTicks
<1>5. HalfBit \in Nat /\ HalfBit < BitTicks
  BY <1>1 DEF HalfBit
<1> QED BY <1>2, <1>3, <1>4, <1>5

\* A bit is sampled half a bit after its beginning (EdgeUartDecoder::SampleUntil).
LEMMA SampleTime ==
    ASSUME NEW u, u.start \in Int, NEW k \in Nat
    PROVE  SampleAt(u, k) = (u.start + (BitAt(k) + HalfBit)) % TickModulus
<1>1. BitTicks \in Nat /\ BitTicks > 0
  BY UartBounds
<1> DEFINE x == k * BitTicks
<1>2. x \in Nat /\ (2 * k + 1) * BitTicks = 2 * x + BitTicks
  BY <1>1
<1> HIDE DEF x
<1>3. (2 * x + BitTicks) \div 2 = x + (BitTicks \div 2)
  BY <1>1, <1>2
<1> QED BY <1>2, <1>3 DEF SampleAt, BitAt, HalfBit, x

\* The bit of a time in the frame is the one it lies in.
LEMMA BitOf ==
    ASSUME NEW x \in Nat
    PROVE  /\ x \div BitTicks \in Nat
           /\ BitAt(x \div BitTicks) <= x /\ x < BitAt(x \div BitTicks) + BitTicks
           /\ \A c \in Nat : BitAt(c) <= x /\ x < BitAt(c) + BitTicks => x \div BitTicks = c
<1>1. PICK B \in Nat : B = BitTicks /\ B > 0
  BY UartBounds
<1> DEFINE q == x \div B
<1>2. q \in Nat /\ q * B <= x /\ x < q * B + B
  BY <1>1
<1> HIDE DEF q
<1>3. BitAt(q) <= x /\ x < BitAt(q) + BitTicks
  BY <1>1, <1>2 DEF BitAt
<1>4. ASSUME NEW c \in Nat, BitAt(c) <= x, x < BitAt(c) + BitTicks
      PROVE  q = c
  <2>1. c < q => BitAt(c) + BitTicks <= BitAt(q)
    BY <1>2, BitTimes
  <2>2. q < c => BitAt(q) + BitTicks <= BitAt(c)
    BY <1>2, BitTimes
  <2>3. BitAt(c) \in Nat /\ BitAt(q) \in Nat
    BY <1>2, BitTimes
  <2> QED BY <2>1, <2>2, <2>3, <1>1, <1>2, <1>3, <1>4
<1> QED BY <1>1, <1>2, <1>3, <1>4 DEF q

\* The counter, once around.
LEMMA ModM ==
    ASSUME NEW x \in Int, -TickModulus <= x, x < 2 * TickModulus
    PROVE  x % TickModulus = IF x < 0 THEN x + TickModulus
                             ELSE IF x < TickModulus THEN x ELSE x - TickModulus
<1>1. PICK M \in Nat : M = TickModulus /\ M > 0
  BY UartBounds
<1>2. CASE 0 <= x /\ x < M
  BY <1>1, <1>2
<1>3. CASE x >= M
  <2>1. x - M \in 0..(M - 1)
    BY <1>1, <1>3
  <2>2. (x - M) % M = x - M
    BY <2>1, <1>1
  <2>3. x % M = (x - M) % M
    BY <2>1, <1>1
  <2> QED BY <1>1, <1>3, <2>2, <2>3
<1>4. CASE x < 0
  <2>1. x + M \in 0..(M - 1)
    BY <1>1, <1>4
  <2>2. (x + M) % M = x + M
    BY <2>1, <1>1
  <2>3. x % M = (x + M) % M
    BY <2>1, <1>1
  <2> QED BY <1>1, <1>4, <2>2, <2>3
<1> QED BY <1>1, <1>2, <1>3, <1>4

\* The age of a stamp, without the modulus.
LEMMA AgeOf ==
    ASSUME NEW t \in Ticks, NEW s \in Ticks
    PROVE  (t - s) % TickModulus = IF s <= t THEN t - s ELSE t - s + TickModulus
<1>1. t \in Int /\ s \in Int /\ 0 <= t /\ 0 <= s /\ t < TickModulus /\ s < TickModulus
      /\ TickModulus \in Nat
  BY UartBounds DEF Ticks
<1> DEFINE d == t - s
<1>2. d \in Int /\ -TickModulus <= d /\ d < 2 * TickModulus /\ (d < 0 <=> ~(s <= t)) /\ d < TickModulus
  BY <1>1
<1> HIDE DEF d
<1>3. d % TickModulus = IF d < 0 THEN d + TickModulus ELSE d
  BY <1>2, ModM
<1>4. d % TickModulus = IF s <= t THEN d ELSE d + TickModulus
  BY <1>2, <1>3
<1> QED BY <1>4 DEF d

\* The next value of the counter.
LEMMA NextTick ==
    ASSUME NEW t \in Ticks
    PROVE  /\ (t + 1) % TickModulus \in Ticks
           /\ (t + 1) % TickModulus = IF t + 1 = TickModulus THEN 0 ELSE t + 1
<1>1. t \in Int /\ 0 <= t /\ t < TickModulus /\ TickModulus \in Nat
  BY UartBounds DEF Ticks
<1> DEFINE d == t + 1
<1>2. d \in Int /\ -TickModulus <= d /\ d < 2 * TickModulus /\ ~(d < 0) /\ d <= TickModulus
  BY <1>1
<1>3. d = t + 1
  OBVIOUS
<1> HIDE DEF d
<1>4. d % TickModulus = IF d < TickModulus THEN d ELSE d - TickModulus
  BY <1>2, ModM
<1>5. d % TickModulus = IF d = TickModulus THEN 0 ELSE d
  BY <1>1, <1>2, <1>4
<1>6. d % TickModulus \in Ticks
  BY <1>1, <1>2, <1>5 DEF Ticks
<1> QED BY <1>5, <1>6 DEF d

\* A stamp grows older by one with every tick, wherever the counter wraps.
LEMMA AgeGrows ==
    ASSUME NEW t \in Ticks, NEW s \in Ticks, NEW a \in Nat, a + 1 < TickModulus,
           (t - s) % TickModulus = a
    PROVE  (((t + 1) % TickModulus) - s) % TickModulus = a + 1
<1> DEFINE n == (t + 1) % TickModulus
<1>1. n \in Ticks /\ n = IF t + 1 = TickModulus THEN 0 ELSE t + 1
  BY NextTick
<1> HIDE DEF n
<1>2. t \in Int /\ s \in Int /\ 0 <= t /\ 0 <= s /\ t < TickModulus /\ s < TickModulus
      /\ TickModulus \in Nat
  BY UartBounds DEF Ticks
<1>3. a = IF s <= t THEN t - s ELSE t - s + TickModulus
  BY AgeOf
<1>4. (n - s) % TickModulus = IF s <= n THEN n - s ELSE n - s + TickModulus
  BY <1>1, AgeOf
<1>5. (IF s <= n THEN n - s ELSE n - s + TickModulus) = a + 1
  BY <1>1, <1>2, <1>3
<1> QED BY <1>4, <1>5 DEF n

\* The signed comparison of the decoder is the comparison of the ages, as long as they stay
\* below half of the counter's range.
LEMMA DueAfter ==
    ASSUME NEW until \in Ticks, NEW start \in Ticks, NEW a \in Nat, NEW o \in Nat,
           (until - start) % TickModulus = a,
           2 * o < TickModulus, 2 * (a - o) < TickModulus
    PROVE  After(until, (start + o) % TickModulus) <=> o < a
<1>1. PICK M \in Nat : M = TickModulus /\ M > 0
  BY UartBounds
<1>2. until \in Int /\ start \in Int /\ 0 <= until /\ 0 <= start /\ until < M /\ start < M
  BY <1>1 DEF Ticks
<1>3. a = (IF start <= until THEN until - start ELSE until - start + M) /\ a < M
  BY <1>1, <1>2, AgeOf
<1> DEFINE x == start + o
           at == x % TickModulus
<1>4. x \in Int /\ -M <= x /\ x < 2 * M /\ 0 <= x
  BY <1>1, <1>2
<1>5. x = start + o
  OBVIOUS
<1> HIDE DEF x
<1>6. at = IF x < M THEN x ELSE x - M
  BY <1>1, <1>4, ModM
<1> HIDE DEF at
<1>7. at \in Ticks /\ at \in Int
  BY <1>1, <1>4, <1>6 DEF Ticks
<1> DEFINE d == (until - at) % TickModulus
<1>8. d = IF at <= until THEN until - at ELSE until - at + M
  BY <1>1, <1>7, AgeOf
<1>9. After(until, at) <=> d > 0 /\ 2 * d < M
  BY <1>1 DEF After
<1> HIDE DEF d
<1>10. d \in Int /\ (d > 0 /\ 2 * d < M <=> o < a)
  BY <1>1, <1>2, <1>3, <1>4, <1>5, <1>6, <1>7, <1>8
<1> QED BY <1>9, <1>10 DEF at, x

SampledUpTo(f, m, u, until) ==
    f = [n \in 0..m |-> IF n = 0 THEN u ELSE SampleDue(f[n - 1], until)]

\* The samples of SampleUntil() can be taken one after the other ...
LEMMA SampledExists ==
    ASSUME NEW u, NEW until, NEW m \in Nat
    PROVE  \E f : SampledUpTo(f, m, u, until)
<1> DEFINE T == {k \in Nat : ~\E f : SampledUpTo(f, k, u, until)}
<1>1. SUFFICES ASSUME T # {} PROVE FALSE
  OBVIOUS
<1>2. PICK k \in T : \A j \in T : k <= j
  BY <1>1, LeastElement
<1>3. k \in Nat /\ ~\E f : SampledUpTo(f, k, u, until)
  BY <1>2
<1>4. CASE k = 0
  <2> DEFINE f == [n \in 0..0 |-> u]
  <2>1. SampledUpTo(f, 0, u, until)
    BY DEF SampledUpTo
  <2> QED BY <2>1, <1>3, <1>4
<1>5. CASE k > 0
  <2>1. k - 1 \in Nat /\ k - 1 \notin T
    BY <1>2, <1>3, <1>5
  <2>2. PICK f : SampledUpTo(f, k - 1, u, until)
    BY <2>1
  <2> DEFINE last == SampleDue(f[k - 1], until)
             g == [n \in 0..k |-> IF n = k THEN last ELSE f[n]]
  <2>3. \A n \in 0..(k - 1) : g[n] = f[n]
    BY <1>3, <1>5
  <2>4. \A n \in 0..(k - 1) : f[n] = IF n = 0 THEN u ELSE SampleDue(f[n - 1], until)
    BY <2>2, <1>3 DEF SampledUpTo
  <2>5. g[k] = SampleDue(g[k - 1], until)
    BY <1>3, <1>5
  <2>6. g = [n \in 0..k |-> g[n]]
    OBVIOUS
  <2> HIDE DEF g, last
  <2>7. ASSUME NEW n \in 0..k
        PROVE  g[n] = IF n = 0 THEN u ELSE SampleDue(g[n - 1], until)
    <3>1. CASE n = k
      BY <3>1, <2>5, <1>5
    <3>2. CASE n # k /\ n # 0
      <4>1. n \in 0..(k - 1) /\ n - 1 \in 0..(k - 1)
        BY <3>2, <1>3
      <4> QED BY <3>2, <4>1, <2>3, <2>4
    <3>3. CASE n = 0 /\ n # k
      <4>1. n \in 0..(k - 1)
        BY <3>3, <1>3
      <4> QED BY <3>3, <4>1, <2>3, <2>4
    <3> QED BY <3>1, <3>2, <3>3
  <2>8. SampledUpTo(g, k, u, until)
    BY <2>6, <2>7 DEF SampledUpTo
  <2> QED BY <2>8, <1>3
<1> QED BY <1>3, <1>4, <1>5

\* ... and SampleUntil() takes them so.
LEMMA SampledDefined ==
    ASSUME NEW u, NEW until
    PROVE  \E f : /\ SampleUntil(u, until) = f[StopBit + 1]
                  /\ f[0] = u /\ \A n \in 1..(StopBit + 1) : f[n] = SampleDue(f[n - 1], until)
<1> DEFINE m == StopBit + 1
           f == CHOOSE g : SampledUpTo(g, m, u, until)
<1>1. m \in Nat
  BY UartBounds
<1>2. SampledUpTo(f, m, u, until)
  BY <1>1, SampledExists
<1>3. SampleUntil(u, until) = f[m]
  BY Zenon DEF SampleUntil, SampledUpTo
<1> HIDE DEF f, m
<1>4. \A n \in 0..m : f[n] = IF n = 0 THEN u ELSE SampleDue(f[n - 1], until)
  BY <1>2, Zenon DEF SampledUpTo
<1>5. f[0] = u
  BY <1>4, <1>1
<1>6. \A n \in 1..m : f[n] = SampleDue(f[n - 1], until)
  BY <1>4, <1>1
<1>7. SampleUntil(u, until) = f[m] /\ f[0] = u /\ \A n \in 1..m : f[n] = SampleDue(f[n - 1], until)
  BY <1>3, <1>5, <1>6
<1> QED BY <1>7 DEF m

\* Without a frame, SampleUntil() takes no sample.
LEMMA SampleClosed ==
    ASSUME NEW u, ~u.inFrame, NEW until
    PROVE  SampleUntil(u, until) = u
<1>1. PICK f : /\ SampleUntil(u, until) = f[StopBit + 1]
               /\ f[0] = u /\ \A n \in 1..(StopBit + 1) : f[n] = SampleDue(f[n - 1], until)
  BY SampledDefined
<1> DEFINE T == {n \in 0..(StopBit + 1) : f[n] # u}
<1>2. SUFFICES ASSUME T # {} PROVE FALSE
  BY <1>1, UartBounds
<1>3. T \subseteq Nat
  OBVIOUS
<1>4. PICK n \in T : \A k \in T : n <= k
  BY <1>2, <1>3, LeastElement
<1>5. n # 0
  BY <1>1, <1>4
<1>6. n \in 1..(StopBit + 1) /\ n - 1 \in 0..(StopBit + 1) /\ n - 1 \notin T
  BY <1>4, <1>5, UartBounds
<1>7. f[n] = SampleDue(u, until)
  BY <1>1, <1>6
<1> QED BY <1>4, <1>7 DEF SampleDue

\* After some of the samples that are due at the age a of the frame.
Sampled(w, v, b, a, n) ==
    \/ /\ BitAt(StopBit) + HalfBit < a
       /\ Decoder(w) /\ w.inFrame = FALSE /\ w.level = v.level /\ w.fifo = Append(v.fifo, b)
    \/ /\ InFrame(w, b) /\ w.level = v.level /\ w.fifo = v.fifo /\ w.start = v.start
       /\ w.bit >= v.bit
       /\ w.bit = v.bit \/ BitAt(w.bit - 1) + HalfBit < a
       /\ w.bit >= n \/ a <= BitAt(w.bit) + HalfBit

Samples(v, b, until, a) ==
    /\ InFrame(v, b) /\ (until - v.start) % TickModulus = a /\ Len(v.fifo) < FifoSize
    /\ 2 * (a - HalfBit) < TickModulus
    /\ \A k \in v.bit..StopBit : BitAt(k) + HalfBit < a => v.level = LineLevel(b, k)

\* One sample of an open frame takes the right level, and keeps the byte that is being put
\* together.
LEMMA SampleOne ==
    ASSUME NEW v, NEW b, NEW until \in Ticks, NEW a \in Nat, Samples(v, b, until, a),
           NEW n \in Nat, NEW w, Sampled(w, v, b, a, n)
    PROVE  Sampled(SampleDue(w, until), v, b, a, n + 1)
<1> DEFINE x == SampleDue(w, until)
<1>0. /\ DataBits \in Nat \ {0} /\ StopBit = DataBits + 1 /\ TickModulus \in Nat
      /\ FifoSize \in Nat
  BY UartBounds
<1>1. CASE w.inFrame = FALSE
  <2>1. x = w
    BY <1>1 DEF SampleDue
  <2> QED BY <1>1, <2>1 DEF Sampled, InFrame
<1>2. CASE w.inFrame # FALSE
  <2>1. /\ InFrame(w, b) /\ w.level = v.level /\ w.fifo = v.fifo /\ w.start = v.start
        /\ w.bit >= v.bit
        /\ w.bit = v.bit \/ BitAt(w.bit - 1) + HalfBit < a
        /\ w.bit >= n \/ a <= BitAt(w.bit) + HalfBit
    BY <1>2 DEF Sampled
  <2>2. /\ w.start \in Ticks /\ w.bit \in 0..StopBit /\ v.bit \in 0..StopBit
        /\ w.inFrame = TRUE
    BY <2>1 DEF InFrame, Ticks, Samples
  <2> DEFINE o == BitAt(w.bit) + HalfBit
  <2>3. o \in Nat /\ HalfBit \in Nat /\ 2 * o < TickModulus /\ 2 * (a - o) < TickModulus
    <3>1. BitAt(w.bit) \in Nat /\ BitAt(w.bit) <= BitAt(StopBit) /\ BitAt(StopBit) \in Nat
      <4>1. w.bit \in Nat /\ StopBit \in Nat /\ (w.bit < StopBit \/ w.bit = StopBit)
        BY <1>0, <2>2
      <4>2. BitAt(w.bit) \in Nat /\ BitAt(StopBit) \in Nat
        BY <4>1, BitTimes
      <4>3. w.bit < StopBit => BitAt(w.bit) + BitTicks <= BitAt(StopBit)
        BY <4>1, BitTimes
      <4> QED BY <4>1, <4>2, <4>3, UartBounds
    <3>2. HalfBit \in Nat /\ HalfBit < BitTicks /\ FrameTicks = BitAt(StopBit) + BitTicks
      BY BitTimes
    <3>3. 2 * (a - HalfBit) < TickModulus
      BY DEF Samples
    <3>4. BitTicks \in Nat /\ ReadGap \in Nat /\ 2 * (ReadGap + FrameTicks) < TickModulus
      BY UartBounds
    <3> HIDE DEF HalfBit
    <3> QED BY <3>1, <3>2, <3>3, <3>4, <1>0
  <2>4. SampleAt(w, w.bit) = (w.start + o) % TickModulus
    BY <2>2, SampleTime DEF Ticks
  <2>5. (until - w.start) % TickModulus = a
    BY <2>1 DEF Samples
  <2> HIDE DEF o
  <2>6. After(until, SampleAt(w, w.bit)) <=> o < a
    BY <2>2, <2>3, <2>4, <2>5, DueAfter
  <2>7. CASE ~(o < a)
    <3>1. x = w
      BY <2>6, <2>7 DEF SampleDue
    <3> QED BY <3>1, <2>1, <2>3, <2>7 DEF Sampled, o
  <2>8. CASE o < a
    <3>1. x = SampleBit(w)
      BY <2>2, <2>6, <2>8 DEF SampleDue
    <3>2. v.level = LineLevel(b, w.bit)
      BY <2>1, <2>2, <2>8, <1>0 DEF Samples, o
    <3>3. /\ Decoder(w) /\ w.data \in Payloads /\ b \in Payloads /\ w.bit \in Int
          /\ \A k \in 1..DataBits : k < w.bit => w.data[k] = b[k]
      BY <2>1, <2>2 DEF InFrame
    <3>4. w.bit >= n /\ w.bit + 1 >= n + 1 /\ w.bit + 1 >= v.bit /\ w.bit + 1 # v.bit
      BY <2>1, <2>2, <2>3, <2>8 DEF o
    <3>5. BitAt((w.bit + 1) - 1) + HalfBit < a
      <4>1. (w.bit + 1) - 1 = w.bit
        BY <2>2
      <4> QED BY <4>1, <2>8 DEF o
    <3>6. CASE w.bit = 0
      <4>1. w.level = FALSE
        <5>1. LineLevel(b, 0) = FALSE
          BY <1>0 DEF LineLevel
        <5> QED BY <5>1, <3>2, <3>6, <2>1
      <4>2. x = [w EXCEPT !.inFrame = TRUE, !.bit = 1]
        BY <3>1, <3>6, <4>1 DEF SampleBit
      <4> HIDE DEF x
      <4>3. /\ Fields(x) /\ x.inFrame = TRUE /\ x.bit = w.bit + 1 /\ x.level = w.level
            /\ x.start = w.start /\ x.data = w.data /\ x.fifo = w.fifo
        BY <4>2, <3>3, <3>6 DEF Decoder, Fields
      <4>4. x.bit \in 0..StopBit
        BY <4>3, <3>6, <1>0
      <4>5. Decoder(x)
        BY <4>3, <3>3 DEF Decoder
      <4>6. InFrame(x, b)
        BY <4>3, <4>4, <4>5, <3>3, <2>2, <3>6 DEF InFrame, Ticks
      <4>7. x.bit >= v.bit /\ BitAt(x.bit - 1) + HalfBit < a /\ x.bit >= n + 1
        BY <4>3, <3>4, <3>5
      <4>8. x.level = v.level /\ x.fifo = v.fifo /\ x.start = v.start
        BY <4>3, <2>1
      <4> QED BY <4>6, <4>7, <4>8 DEF Sampled, x
    <3>7. CASE w.bit \in 1..DataBits
      <4>1. w.level = b[w.bit]
        <5>1. LineLevel(b, w.bit) = (b[w.bit] = TRUE)
          BY <3>7, <1>0, <3>3 DEF LineLevel, Payloads
        <5>2. b[w.bit] \in BOOLEAN
          BY <3>7, <3>3 DEF Payloads
        <5> QED BY <5>1, <5>2, <3>2, <2>1
      <4>2. x = [w EXCEPT !.data[w.bit] = w.level, !.bit = w.bit + 1]
        BY <3>1, <3>7, <1>0 DEF SampleBit
      <4>2a. w.level \in BOOLEAN
        BY <3>3 DEF Decoder
      <4> HIDE DEF x
      <4>3. /\ Fields(x) /\ x.inFrame = w.inFrame /\ x.bit = w.bit + 1 /\ x.level = w.level
            /\ x.start = w.start /\ x.data = [w.data EXCEPT ![w.bit] = w.level] /\ x.fifo = w.fifo
        BY <4>2, <3>3 DEF Decoder, Fields
      <4>4. x.bit \in 0..StopBit
        BY <4>3, <3>7, <1>0
      <4>5. Decoder(x)
        BY <4>3, <3>3 DEF Decoder
      <4>6. x.data \in Payloads
        BY <4>3, <3>3, <3>7, <4>2a DEF Payloads
      <4>7. ASSUME NEW k \in 1..DataBits, k < x.bit
            PROVE  x.data[k] = b[k]
        <5>1. CASE k = w.bit
          BY <5>1, <4>1, <4>3, <3>3, <3>7 DEF Payloads
        <5>2. CASE k # w.bit
          <6>1. k < w.bit
            BY <5>2, <4>7, <4>3, <3>7
          <6> QED BY <6>1, <5>2, <4>3, <3>3, <3>7 DEF Payloads
        <5> QED BY <5>1, <5>2
      <4>8. InFrame(x, b)
        BY <4>3, <4>4, <4>5, <4>6, <4>7, <3>3, <2>2 DEF InFrame, Ticks
      <4>9. x.bit >= v.bit /\ BitAt(x.bit - 1) + HalfBit < a /\ x.bit >= n + 1
        BY <4>3, <3>4, <3>5
      <4>10. x.level = v.level /\ x.fifo = v.fifo /\ x.start = v.start
        BY <4>3, <2>1
      <4> QED BY <4>8, <4>9, <4>10 DEF Sampled, x
    <3>8. CASE w.bit = StopBit
      <4>1. w.level = TRUE
        <5>1. LineLevel(b, StopBit) = TRUE
          BY DEF LineLevel
        <5> QED BY <5>1, <3>2, <3>8, <2>1
      <4>2. w.data = b
        BY <3>3, <3>8, <1>0 DEF Payloads
      <4>3. x = [w EXCEPT !.inFrame = FALSE, !.fifo = Append(v.fifo, b)]
        <5>1. Len(w.fifo) < FifoSize /\ w.fifo = v.fifo
          BY <2>1 DEF Samples
        <5>2. ~(w.bit = 0) /\ ~(w.bit < StopBit)
          BY <3>8, <1>0
        <5>3. SampleBit(w) = [w EXCEPT !.inFrame = FALSE, !.fifo = Append(w.fifo, w.data)]
          BY <5>1, <5>2, <4>1 DEF SampleBit
        <5> QED BY <5>1, <5>3, <4>2, <3>1
      <4> HIDE DEF x
      <4>4. /\ Fields(x) /\ x.inFrame = FALSE /\ x.level = w.level /\ x.fifo = Append(v.fifo, b)
        BY <4>3, <3>3 DEF Decoder, Fields
      <4>5. x.fifo \in Seq(Payloads)
        BY <4>4, <2>1, <3>3 DEF Decoder
      <4>6. Decoder(x)
        BY <4>4, <4>5, <3>3 DEF Decoder
      <4>7. BitAt(StopBit) + HalfBit < a
        BY <3>8, <2>8 DEF o
      <4>8. x.level = v.level
        BY <4>4, <2>1
      <4> QED BY <4>4, <4>6, <4>7, <4>8 DEF Sampled, x
    <3> QED BY <3>6, <3>7, <3>8, <2>2, <1>0
  <2> QED BY <2>7, <2>8
<1> QED BY <1>1, <1>2

\* So do the samples that are due, all of them.
LEMMA SampleAll ==
    ASSUME NEW v, NEW b, NEW until \in Ticks, NEW a \in Nat, Samples(v, b, until, a)
    PROVE  Sampled(SampleUntil(v, until), v, b, a, StopBit + 1)
<1>0. StopBit \in Nat
  BY UartBounds
<1>1. PICK f : /\ SampleUntil(v, until) = f[StopBit + 1]
               /\ f[0] = v /\ \A n \in 1..(StopBit + 1) : f[n] = SampleDue(f[n - 1], until)
  BY SampledDefined
<1> DEFINE T == {n \in 0..(StopBit + 1) : ~Sampled(f[n], v, b, a, n)}
<1>2. SUFFICES ASSUME T # {} PROVE FALSE
  BY <1>0, <1>1
<1>3. T \subseteq Nat
  OBVIOUS
<1>4. PICK n \in T : \A k \in T : n <= k
  BY <1>2, <1>3, LeastElement
<1>5. Sampled(v, v, b, a, 0)
  <2>1. v.bit \in Nat /\ v.bit >= 0 /\ InFrame(v, b) /\ v.bit >= v.bit
    BY <1>0 DEF Samples, InFrame
  <2> QED BY <2>1 DEF Sampled
<1>6. n # 0
  BY <1>1, <1>4, <1>5
<1>7. n \in 1..(StopBit + 1) /\ n - 1 \in 0..(StopBit + 1) /\ n - 1 \notin T /\ n - 1 \in Nat
      /\ (n - 1) + 1 = n
  BY <1>0, <1>4, <1>6
<1>8. Sampled(f[n - 1], v, b, a, n - 1)
  BY <1>7
<1>9. Sampled(SampleDue(f[n - 1], until), v, b, a, n)
  BY <1>7, <1>8, SampleOne
<1> QED BY <1>1, <1>4, <1>7, <1>9

\* All the samples that are due: the byte is in the FIFO, or the next one is not due.
Caught(w, v, b, a) ==
    \/ /\ BitAt(StopBit) + HalfBit < a
       /\ Decoder(w) /\ w.inFrame = FALSE /\ w.level = v.level /\ w.fifo = Append(v.fifo, b)
    \/ /\ InFrame(w, b) /\ w.level = v.level /\ w.fifo = v.fifo /\ w.start = v.start
       /\ w.bit >= v.bit
       /\ w.bit = v.bit \/ BitAt(w.bit - 1) + HalfBit < a
       /\ a <= BitAt(w.bit) + HalfBit

\* The same, when no further sample is due.
LEMMA AllSampled ==
    ASSUME NEW v, NEW b, NEW until \in Ticks, NEW a \in Nat, Samples(v, b, until, a)
    PROVE  Caught(SampleUntil(v, until), v, b, a)
<1> DEFINE w == SampleUntil(v, until)
<1>1. Sampled(w, v, b, a, StopBit + 1)
  BY SampleAll
<1>2. w.bit \in 0..StopBit => ~(w.bit >= StopBit + 1)
  BY UartBounds
<1> HIDE DEF w
<1>3. Caught(w, v, b, a)
  BY <1>1, <1>2 DEF Sampled, InFrame, Caught
<1> QED BY <1>3 DEF w

Falling(e) == e.level = FALSE

First(x, e, b, fifo) ==
    Open(x, b, 0) /\ x.bit = 0 /\ x.start = e.lineTicks /\ x.fifo = fifo

\* The first edge of a byte opens its frame.
LEMMA PushFirst ==
    ASSUME NEW v, NEW e \in Edge, NEW b \in Payloads, NEW w, w = SampleUntil(v, e.lineTicks),
           Closed(w), Falling(e), NEW x, x = PushEdge(v, e)
    PROVE  First(x, e, b, w.fifo)
<1>0. DataBits \in Nat /\ StopBit = DataBits + 1 /\ e.lineTicks \in Ticks
  BY UartBounds DEF Edge
<1>1. /\ Fields(w) /\ w.level = TRUE /\ w.inFrame = FALSE /\ w.fifo \in Seq(Payloads)
  BY DEF Closed, Decoder
<1> DEFINE zeros == [k \in 1..DataBits |-> FALSE]
           moved == [w EXCEPT !.level = FALSE]
<1>2. x = [moved EXCEPT !.inFrame = TRUE, !.start = e.lineTicks, !.bit = 0, !.data = zeros]
  BY <1>1 DEF PushEdge, Falling
<1>3. zeros \in Payloads
  BY DEF Payloads
<1>4. /\ Fields(moved) /\ moved.level = FALSE /\ moved.fifo = w.fifo
  BY <1>1 DEF Fields
<1> HIDE DEF zeros, moved
<1>5. /\ Fields(x) /\ x.level = FALSE /\ x.fifo = w.fifo /\ x.inFrame = TRUE
      /\ x.start = e.lineTicks /\ x.bit = 0 /\ x.data = zeros
  BY <1>2, <1>4 DEF Fields
<1>6. Decoder(x)
  BY <1>1, <1>5 DEF Decoder
<1>7. \A k \in 1..DataBits : ~(k < x.bit)
  BY <1>0, <1>5
<1>8. InFrame(x, b)
  BY <1>0, <1>3, <1>5, <1>6, <1>7 DEF InFrame
<1>9. ASSUME NEW k \in x.bit..0
      PROVE  x.level = LineLevel(b, k)
  <2>1. k = 0
    BY <1>5, <1>9
  <2>2. LineLevel(b, 0) = FALSE
    BY <1>0 DEF LineLevel
  <2> QED BY <2>1, <2>2, <1>5
<1> QED BY <1>5, <1>8, <1>9 DEF Open, First

\* The edge before the bit c of a byte whose frame is open.
LEMMA PushBit ==
    ASSUME NEW v, NEW b, NEW e \in Edge, NEW c \in 1..StopBit,
           Samples(v, b, e.lineTicks, BitAt(c)), v.bit <= c, e.level = LineLevel(b, c),
           NEW x, x = PushEdge(v, e)
    PROVE  /\ Open(x, b, c) /\ x.bit = c /\ x.level = e.level /\ x.start = v.start
           /\ x.fifo = v.fifo
<1>0. StopBit \in Nat /\ c \in Nat /\ BitTicks \in Nat
  BY UartBounds
<1> DEFINE w == SampleUntil(v, e.lineTicks)
<1>1. BitAt(c) \in Nat /\ BitAt(StopBit) \in Nat /\ HalfBit \in Nat /\ HalfBit < BitTicks
  BY <1>0, BitTimes
<1>2. c < StopBit => BitAt(c) + BitTicks <= BitAt(StopBit)
  BY <1>0, BitTimes
<1>3. c < StopBit \/ c = StopBit
  BY <1>0
<1>4. ~(BitAt(StopBit) + HalfBit < BitAt(c))
  BY <1>0, <1>1, <1>2, <1>3
<1>5. e.lineTicks \in Ticks /\ e.level \in BOOLEAN
  BY DEF Edge
<1>6. /\ InFrame(w, b) /\ w.level = v.level /\ w.fifo = v.fifo /\ w.start = v.start
      /\ w.bit >= v.bit
      /\ w.bit = v.bit \/ BitAt(w.bit - 1) + HalfBit < BitAt(c)
      /\ BitAt(c) <= BitAt(w.bit) + HalfBit
  <2>1. Caught(w, v, b, BitAt(c))
    BY <1>1, <1>5, AllSampled
  <2> HIDE DEF w
  <2> QED BY <2>1, <1>4 DEF Caught
<1> HIDE DEF w
<1>7. w.bit \in Nat /\ v.bit \in Nat /\ w.bit \in Int
  BY <1>0, <1>6 DEF InFrame, Samples
<1>8. w.bit = c
  <2>1. ~(w.bit < c)
    <3>1. w.bit < c => BitAt(w.bit) + BitTicks <= BitAt(c)
      BY <1>0, <1>7, BitTimes
    <3>2. BitAt(w.bit) \in Nat
      BY <1>7, BitTimes
    <3> QED BY <3>1, <3>2, <1>0, <1>1, <1>6
  <2>2. ~(w.bit > c)
    <3>1. SUFFICES ASSUME w.bit > c PROVE FALSE
      OBVIOUS
    <3>2. w.bit # v.bit /\ w.bit - 1 \in Nat /\ w.bit - 1 >= c
      BY <3>1, <1>0, <1>7
    <3>3. BitAt(w.bit - 1) \in Nat /\ (c < w.bit - 1 => BitAt(c) + BitTicks <= BitAt(w.bit - 1))
      BY <3>2, <1>0, BitTimes
    <3>4. c = w.bit - 1 \/ c < w.bit - 1
      BY <3>2, <1>0
    <3>5. BitAt(w.bit - 1) >= BitAt(c)
      BY <3>3, <3>4, <1>0, <1>1
    <3> QED BY <3>2, <3>3, <3>5, <1>1, <1>6
  <2> QED BY <2>1, <2>2, <1>0, <1>7
<1>9. Fields(w) /\ w.inFrame = TRUE /\ Decoder(w)
  BY <1>6 DEF InFrame, Decoder
<1>10. x = [w EXCEPT !.level = e.level]
  BY <1>9 DEF PushEdge, w
<1>11. /\ Fields(x) /\ x.level = e.level /\ x.inFrame = TRUE /\ x.start = w.start
       /\ x.bit = w.bit /\ x.data = w.data /\ x.fifo = w.fifo
  BY <1>9, <1>10 DEF Fields
<1>12. Decoder(x)
  BY <1>5, <1>9, <1>11 DEF Decoder
<1>13. InFrame(x, b)
  BY <1>6, <1>11, <1>12 DEF InFrame
<1>14. ASSUME NEW k \in x.bit..c
       PROVE  x.level = LineLevel(b, k)
  <2>1. k = c
    BY <1>14, <1>8, <1>11, <1>0
  <2> QED BY <2>1, <1>11
<1> QED BY <1>6, <1>8, <1>11, <1>13, <1>14 DEF Open
PushedUpTo(f, m, u, queued) ==
    f = [n \in 0..m |-> IF n = 0 THEN u ELSE PushEdge(f[n - 1], queued[n])]

\* The edges of the queue can be pushed one after the other ...
LEMMA PushedExists ==
    ASSUME NEW u, NEW queued, NEW m \in Nat
    PROVE  \E f : PushedUpTo(f, m, u, queued)
<1> DEFINE T == {k \in Nat : ~\E f : PushedUpTo(f, k, u, queued)}
<1>1. SUFFICES ASSUME T # {} PROVE FALSE
  OBVIOUS
<1>2. PICK k \in T : \A j \in T : k <= j
  BY <1>1, LeastElement
<1>3. k \in Nat /\ ~\E f : PushedUpTo(f, k, u, queued)
  BY <1>2
<1>4. CASE k = 0
  <2> DEFINE f == [n \in 0..0 |-> u]
  <2>1. PushedUpTo(f, 0, u, queued)
    BY DEF PushedUpTo
  <2> QED BY <2>1, <1>3, <1>4
<1>5. CASE k > 0
  <2>1. k - 1 \in Nat /\ k - 1 \notin T
    BY <1>2, <1>3, <1>5
  <2>2. PICK f : PushedUpTo(f, k - 1, u, queued)
    BY <2>1
  <2> DEFINE last == PushEdge(f[k - 1], queued[k])
             g == [n \in 0..k |-> IF n = k THEN last ELSE f[n]]
  <2>3. \A n \in 0..(k - 1) : g[n] = f[n]
    BY <1>3, <1>5
  <2>4. \A n \in 0..(k - 1) : f[n] = IF n = 0 THEN u ELSE PushEdge(f[n - 1], queued[n])
    BY <2>2, <1>3 DEF PushedUpTo
  <2>5. g[k] = PushEdge(g[k - 1], queued[k])
    BY <1>3, <1>5
  <2>6. g = [n \in 0..k |-> g[n]]
    OBVIOUS
  <2> HIDE DEF g, last
  <2>7. ASSUME NEW n \in 0..k
        PROVE  g[n] = IF n = 0 THEN u ELSE PushEdge(g[n - 1], queued[n])
    <3>1. CASE n = k
      BY <3>1, <2>5, <1>5
    <3>2. CASE n # k /\ n # 0
      <4>1. n \in 0..(k - 1) /\ n - 1 \in 0..(k - 1)
        BY <3>2, <1>3
      <4> QED BY <3>2, <4>1, <2>3, <2>4
    <3>3. CASE n = 0 /\ n # k
      <4>1. n \in 0..(k - 1)
        BY <3>3, <1>3
      <4> QED BY <3>3, <4>1, <2>3, <2>4
    <3> QED BY <3>1, <3>2, <3>3
  <2>8. PushedUpTo(g, k, u, queued)
    BY <2>6, <2>7 DEF PushedUpTo
  <2> QED BY <2>8, <1>3
<1> QED BY <1>3, <1>4, <1>5

\* ... and PushEdges() pushes them so.
LEMMA PushedDefined ==
    ASSUME NEW u, NEW queued, Len(queued) \in Nat
    PROVE  \E f : /\ PushEdges(u, queued) = f[Len(queued)]
                  /\ f[0] = u /\ \A n \in 1..Len(queued) : f[n] = PushEdge(f[n - 1], queued[n])
<1> DEFINE m == Len(queued)
           f == CHOOSE g : PushedUpTo(g, m, u, queued)
<1>1. m \in Nat
  OBVIOUS
<1>2. PushedUpTo(f, m, u, queued)
  BY <1>1, PushedExists
<1>3. PushEdges(u, queued) = f[m]
  BY Zenon DEF PushEdges, PushedUpTo
<1> HIDE DEF f, m
<1>4. \A n \in 0..m : f[n] = IF n = 0 THEN u ELSE PushEdge(f[n - 1], queued[n])
  BY <1>2, Zenon DEF PushedUpTo
<1>5. f[0] = u
  BY <1>4, <1>1
<1>6. \A n \in 1..m : f[n] = PushEdge(f[n - 1], queued[n])
  BY <1>4, <1>1
<1>7. PushEdges(u, queued) = f[m] /\ f[0] = u /\ \A n \in 1..m : f[n] = PushEdge(f[n - 1], queued[n])
  BY <1>3, <1>5, <1>6
<1> QED BY <1>7 DEF m

\* No edge leaves the decoder alone.
LEMMA PushedNone ==
    ASSUME NEW u
    PROVE  PushEdges(u, <<>>) = u
<1>1. Len(<<>>) = 0
  OBVIOUS
<1> QED BY <1>1, PushedDefined

\* The last edge of the queue is pushed last.
LEMMA PushedNext ==
    ASSUME NEW u, NEW s \in Seq(Edge), NEW e \in Edge
    PROVE  PushEdges(u, Append(s, e)) = PushEdge(PushEdges(u, s), e)
<1> DEFINE t == Append(s, e)
<1>1. /\ Len(s) \in Nat /\ Len(t) = Len(s) + 1 /\ t[Len(s) + 1] = e
      /\ \A n \in 1..Len(s) : t[n] = s[n]
  OBVIOUS
<1> HIDE DEF t
<1>2. PICK f : /\ PushEdges(u, s) = f[Len(s)] /\ f[0] = u
               /\ \A n \in 1..Len(s) : f[n] = PushEdge(f[n - 1], s[n])
  BY <1>1, PushedDefined
<1>3. PICK g : /\ PushEdges(u, t) = g[Len(t)] /\ g[0] = u
               /\ \A n \in 1..Len(t) : g[n] = PushEdge(g[n - 1], t[n])
  BY <1>1, PushedDefined
<1> DEFINE T == {n \in 0..Len(s) : f[n] # g[n]}
<1>4. T = {}
  <2>1. SUFFICES ASSUME T # {} PROVE FALSE
    OBVIOUS
  <2>2. T \subseteq Nat
    OBVIOUS
  <2>3. PICK n \in T : \A k \in T : n <= k
    BY <2>1, <2>2, LeastElement
  <2>4. n \in 1..Len(s) /\ n \in 1..Len(t) /\ n - 1 \in 0..Len(s) /\ n - 1 \notin T
    BY <1>1, <1>2, <1>3, <2>3
  <2> QED BY <1>1, <1>2, <1>3, <2>3, <2>4
<1>5. f[Len(s)] = g[Len(s)]
  BY <1>1, <1>4
<1>6. g[Len(s) + 1] = PushEdge(g[(Len(s) + 1) - 1], t[Len(s) + 1])
  BY <1>1, <1>3
<1>7. (Len(s) + 1) - 1 = Len(s)
  BY <1>1
<1> QED BY <1>1, <1>2, <1>3, <1>5, <1>6, <1>7 DEF t

\* The only edge of the queue.
LEMMA PushedOne ==
    ASSUME NEW u, NEW s \in Seq(Edge), Len(s) = 1
    PROVE  PushEdges(u, s) = PushEdge(u, s[1]) /\ s[1] \in Edge
<1>1. s[1] \in Edge /\ <<>> \in Seq(Edge)
  OBVIOUS
<1>2. PICK e \in Edge : e = s[1]
  BY <1>1
<1>3. Append(<<>>, e) = <<e>>
  OBVIOUS
<1>4. s = <<e>>
  BY <1>2
<1>5. PushEdges(u, Append(<<>>, e)) = PushEdge(PushEdges(u, <<>>), e)
  BY <1>1, PushedNext
<1> QED BY <1>2, <1>3, <1>4, <1>5, PushedNone

\* The idle line carries no byte.
LEMMA NoByte == <<>> \notin Payloads
<1>1. DataBits \in Nat \ {0}
  BY UartBounds
<1>2. SUFFICES ASSUME <<>> \in Payloads PROVE FALSE
  OBVIOUS
<1>3. DOMAIN <<>> = 1..DataBits
  BY <1>2 DEF Payloads
<1>4. DOMAIN <<>> = {} /\ 1 \in 1..DataBits
  BY <1>1
<1> QED BY <1>3, <1>4

\* The bit of the line, and that of the next tick.
LEMMA NextBit ==
    ASSUME NEW ph \in 0..(FrameTicks - 1), NEW c, c = BitNo(ph),
           NEW n, n = BitNo(ph + 1)
    PROVE  /\ c \in 0..StopBit /\ BitAt(c) \in Nat
           /\ BitAt(c) <= ph /\ ph < BitAt(c) + BitTicks
           /\ \/ n = c /\ ph + 1 < BitAt(c) + BitTicks
              \/ n = c + 1 /\ ph + 1 = BitAt(n)
           /\ n > StopBit => c = StopBit /\ ph + 1 = FrameTicks
           /\ n <= StopBit => ph + 1 \in 0..(FrameTicks - 1)
<1>0. /\ StopBit \in Nat /\ BitTicks \in Nat /\ BitTicks > 0 /\ FrameTicks \in Nat
      /\ ph \in Nat /\ ph + 1 \in Nat /\ ph < FrameTicks
      /\ FrameTicks = BitAt(StopBit) + BitTicks /\ BitAt(StopBit) \in Nat
  <2>1. /\ StopBit \in Nat /\ BitTicks \in Nat /\ BitTicks > 0 /\ FrameTicks \in Nat
    BY UartBounds
  <2>2. FrameTicks = BitAt(StopBit) + BitTicks /\ BitAt(StopBit) \in Nat
    BY <2>1, BitTimes
  <2>3. ph \in Nat /\ ph + 1 \in Nat /\ ph < FrameTicks
    BY <2>1
  <2> QED BY <2>1, <2>2, <2>3
<1>1. /\ c \in Nat /\ BitAt(c) <= ph /\ ph < BitAt(c) + BitTicks /\ BitAt(c) \in Nat
      /\ BitAt(c + 1) = BitAt(c) + BitTicks
  BY <1>0, BitOf, BitTimes DEF BitNo
<1>2. c \in 0..StopBit /\ (c < StopBit \/ c = StopBit)
  <2>1. StopBit < c => BitAt(StopBit) + BitTicks <= BitAt(c)
    BY <1>0, <1>1, BitTimes
  <2>2. ~(StopBit < c)
    BY <1>0, <1>1, <2>1
  <2>3. c \in Nat /\ StopBit \in Nat
    BY <1>0, <1>1
  <2> QED BY ONLY <2>2, <2>3
<1>3. CASE ph + 1 < BitAt(c) + BitTicks
  <2>1. n = c
    <3>1. BitAt(c) <= ph + 1
      BY <1>0, <1>1
    <3> QED BY <3>1, <1>0, <1>1, <1>3, BitOf DEF BitNo
  <2>2. ph + 1 <= FrameTicks - 1
    <3>1. c < StopBit => BitAt(c) + BitTicks <= BitAt(StopBit)
      BY <1>0, <1>1, BitTimes
    <3> QED BY <3>1, <1>0, <1>1, <1>2, <1>3
  <2>3. ~(n > StopBit) /\ ph + 1 \in 0..(FrameTicks - 1)
    BY <2>1, <2>2, <1>0, <1>2
  <2> QED BY <2>1, <2>3, <1>1, <1>2, <1>3
<1>4. CASE ph + 1 = BitAt(c) + BitTicks
  <2>1. n = c + 1
    <3>1. c + 1 \in Nat /\ BitAt(c + 1) <= ph + 1 /\ ph + 1 < BitAt(c + 1) + BitTicks
      BY <1>0, <1>1, <1>4
    <3> QED BY <3>1, <1>0, BitOf DEF BitNo
  <2>2. CASE c = StopBit
    <3>1. n > StopBit /\ ~(n <= StopBit) /\ ph + 1 = FrameTicks
      BY <2>1, <2>2, <1>0, <1>4
    <3> QED BY <3>1, <2>1, <2>2, <1>1, <1>2, <1>4
  <2>3. CASE c < StopBit
    <3>1. BitAt(c) + BitTicks <= BitAt(StopBit)
      BY <2>3, <1>0, <1>1, BitTimes
    <3>2. ph + 1 \in 0..(FrameTicks - 1)
      BY <3>1, <1>0, <1>1, <1>4
    <3>3. ~(n > StopBit)
      BY <2>1, <2>3, <1>0, <1>1
    <3> QED BY <3>2, <3>3, <2>1, <1>1, <1>2, <1>4
  <2> QED BY <2>2, <2>3, <1>2
<1> QED BY <1>0, <1>1, <1>3, <1>4

\* A stamp grows older by one.
LEMMA OneOlder ==
    ASSUME NEW s \in Ticks, NEW t \in Ticks, NEW d \in Nat, Between(s, t) = d,
           d <= FrameTicks + 2 * ReadGap
    PROVE  Between(s, NextTicks(t)) = d + 1
<1>1. d + 1 < TickModulus
  <2>1. FrameTicks \in Nat /\ FrameTicks > 0
    BY UartBounds, BitTimes
  <2> QED BY <2>1, UartBounds
<1> QED BY <1>1, AgeGrows DEF Between, NextTicks

TickOf(byte, ph, byte2, ph2) ==
    IF byte = <<>> \/ BitNo(ph + 1) > StopBit
    THEN byte2 = <<>> /\ ph2 = 0
    ELSE byte2 = byte /\ ph2 = ph + 1

\* The line does not change with the tick.
LineStays(byte, ph) ==
    byte = <<>> \/ BitNo(ph + 1) > StopBit
       \/ LineLevel(byte, BitNo(ph + 1)) = LineLevel(byte, BitNo(ph))

\* A tick without an edge: the decoder goes on following the line.
LEMMA TickIdle ==
    ASSUME NEW u, NEW byte \in Payloads \cup {<<>>}, NEW ph \in 0..(FrameTicks - 1),
           NEW exp, NEW t \in Ticks, NEW slack \in 0..(2 * ReadGap),
           Follows(u, byte, ph, exp, t, slack), LineStays(byte, ph),
           NEW byte2, NEW ph2, TickOf(byte, ph, byte2, ph2)
    PROVE  Follows(u, byte2, ph2, exp, NextTicks(t), slack + 1)
<1> DEFINE c == BitNo(ph)
           n == BitNo(ph + 1)
           t2 == NextTicks(t)
<1>0. ph \in Nat /\ FrameTicks \in Nat /\ ReadGap \in Nat /\ StopBit \in Nat /\ slack \in Nat
      /\ slack <= 2 * ReadGap /\ ph < FrameTicks
  BY UartBounds
<1>1. /\ c \in 0..StopBit /\ BitAt(c) \in Nat
      /\ \/ n = c
         \/ n = c + 1
      /\ n > StopBit => c = StopBit /\ ph + 1 = FrameTicks
  BY NextBit
<1>2. CASE HasAll(u, byte, ph, exp)
  <2>1. byte2 # <<>> => byte # <<>> /\ ph2 = ph + 1
    BY DEF TickOf
  <2>2. BitAt(StopBit) \in Nat /\ HalfBit \in Nat
    BY <1>0, BitTimes
  <2>3. HasAll(u, byte2, ph2, exp)
    BY <2>1, <2>2, <1>0, <1>2 DEF HasAll
  <2> QED BY <2>3 DEF Follows
<1>3. CASE InByte(u, byte, ph, exp, t)
  <2>1. /\ byte # <<>> /\ Open(u, byte, c) /\ u.bit <= c + 1 /\ u.level = LineLevel(byte, c)
        /\ Between(u.start, t) = ph /\ exp = Append(u.fifo, byte)
    BY <1>3 DEF InByte
  <2>2. InFrame(u, byte) /\ u.start \in Ticks /\ u.bit \in 0..StopBit /\ byte \in Payloads
    BY <2>1 DEF Open, InFrame
  <2>3. Between(u.start, t2) = ph + 1
    BY <2>1, <2>2, <1>0, OneOlder
  <2>4. CASE n > StopBit
    <3>1. byte2 = <<>> /\ ph2 = 0
      BY <2>4 DEF TickOf
    <3>2. c = StopBit /\ ph + 1 = FrameTicks
      BY <1>1, <2>4
    <3>3. LineLevel(byte, StopBit) = TRUE
      BY DEF LineLevel
    <3>4. FrameTicks \in (FrameTicks + 0)..(FrameTicks + (slack + 1))
      BY <1>0
    <3> HIDE DEF c, n, t2
    <3>5. AtEnd(u, byte, 0, t2, slack + 1)
      BY <3>2, <3>3, <3>4, <2>1, <2>3 DEF AtEnd
    <3> QED BY <3>1, <3>5, <2>1, <2>2 DEF Follows, t2
  <2>5. CASE ~(n > StopBit)
    <3>1. byte2 = byte /\ ph2 = ph + 1
      BY <2>1, <2>5 DEF TickOf
    <3>2. LineLevel(byte, n) = LineLevel(byte, c)
      BY <2>1, <2>5 DEF LineStays
    <3> HIDE DEF c, n, t2
    <3>3. u.bit <= n + 1
      BY <1>1, <2>1, <2>2, <1>0
    <3>4. ASSUME NEW k \in u.bit..n
          PROVE  u.level = LineLevel(byte, k)
      <4>1. k \in u.bit..c \/ k = n
        BY <1>1, <2>2, <1>0
      <4> QED BY <4>1, <3>2, <2>1 DEF Open
    <3>5. Open(u, byte, n)
      BY <2>1, <3>4 DEF Open
    <3>6. InByte(u, byte2, ph2, exp, t2)
      BY <3>1, <3>2, <3>3, <3>5, <2>1, <2>3 DEF InByte, n
    <3> QED BY <3>6 DEF Follows, t2
  <2> QED BY <2>4, <2>5
<1>4. CASE byte = <<>> /\ \E b \in Payloads : AtEnd(u, b, 0, t, slack) /\ exp = Append(u.fifo, b)
  <2>1. PICK b \in Payloads : AtEnd(u, b, 0, t, slack) /\ exp = Append(u.fifo, b)
    BY <1>4
  <2>2. Open(u, b, StopBit) /\ u.level = TRUE /\ u.start \in Ticks
    BY <2>1 DEF AtEnd, Open, InFrame
  <2>3. Between(u.start, t) \in (FrameTicks + 0)..(FrameTicks + slack)
    BY <2>1 DEF AtEnd
  <2>4. PICK d \in Nat : d = Between(u.start, t) /\ FrameTicks <= d /\ d <= FrameTicks + slack
    BY <2>3, <1>0
  <2>5. Between(u.start, t2) = d + 1
    BY <2>2, <2>4, <1>0, OneOlder
  <2>6. d + 1 \in (FrameTicks + 0)..(FrameTicks + (slack + 1))
    BY <2>4, <1>0
  <2>7. byte2 = <<>>
    BY <1>4 DEF TickOf
  <2> HIDE DEF t2
  <2>8. AtEnd(u, b, 0, t2, slack + 1)
    BY <2>2, <2>5, <2>6 DEF AtEnd
  <2> QED BY <2>1, <2>7, <2>8 DEF Follows, t2
<1> QED BY <1>2, <1>3, <1>4 DEF Follows

\* The edge before the next bit, when the decoder has followed: it leads to that bit.
LEMMA TickEdge ==
    ASSUME NEW u, NEW byte \in Payloads, NEW ph \in 0..(FrameTicks - 1),
           NEW exp, NEW t \in Ticks, NEW slack, Len(exp) <= FifoSize,
           Follows(u, byte, ph, exp, t, slack), ~LineStays(byte, ph),
           NEW e \in Edge, e.lineTicks = NextTicks(t),
           e.level = LineLevel(byte, BitNo(ph + 1))
    PROVE  /\ Follows(PushEdge(u, e), byte, ph + 1, exp, e.lineTicks, slack + 1)
           /\ (ph + 1) - BitAt(BitNo(ph + 1)) = 0
           /\ BeforeBit(u, e, byte, ph + 1, exp, e.lineTicks)
<1> DEFINE c == BitNo(ph)
           n == BitNo(ph + 1)
           t2 == NextTicks(t)
           x == PushEdge(u, e)
<1> HIDE DEF c, n, t2, x
<1>0. ph \in Nat /\ FrameTicks \in Nat /\ ReadGap \in Nat /\ StopBit \in Nat /\ ph < FrameTicks
      /\ BitTicks \in Nat /\ FifoSize \in Nat /\ TickModulus \in Nat
      /\ 2 * (ReadGap + FrameTicks) < TickModulus
  BY UartBounds
<1>1. HalfBit \in Nat /\ HalfBit < BitTicks /\ FrameTicks = BitAt(StopBit) + BitTicks
  BY BitTimes
<1>2. byte # <<>> /\ ~(n > StopBit) /\ LineLevel(byte, n) # LineLevel(byte, c)
  BY NoByte DEF LineStays, c, n
<1>3. /\ c \in 0..StopBit /\ BitAt(c) \in Nat /\ n = c + 1 /\ ph + 1 = BitAt(n)
      /\ n \in 1..StopBit /\ ph + 1 \in Nat
  <2>1. /\ c \in 0..StopBit /\ BitAt(c) \in Nat /\ (n = c \/ (n = c + 1 /\ ph + 1 = BitAt(n)))
    <3>1. c = BitNo(ph) /\ n = BitNo(ph + 1)
      BY DEF c, n
    <3>2. /\ c \in 0..StopBit /\ BitAt(c) \in Nat
          /\ \/ n = c /\ ph + 1 < BitAt(c) + BitTicks
             \/ n = c + 1 /\ ph + 1 = BitAt(n)
      BY ONLY <3>1, NextBit, ph \in 0..(FrameTicks - 1)
    <3> QED BY <3>2, Zenon
  <2>2. n # c
    BY <1>2
  <2> QED BY <2>1, <2>2, <1>0, <1>2
<1>4. ~HasAll(u, byte, ph, exp)
  <2>1. c < StopBit /\ n < StopBit + 1
    BY <1>0, <1>3
  <2>2. BitAt(n) <= BitAt(StopBit)
    <3>1. n < StopBit => BitAt(n) + BitTicks <= BitAt(StopBit)
      BY <1>0, <1>3, BitTimes
    <3>2. n = StopBit \/ n < StopBit
      BY <1>0, <1>3
    <3>3. BitAt(n) \in Nat /\ BitAt(StopBit) \in Nat
      BY <1>0, <1>3, BitTimes
    <3> QED BY <3>1, <3>2, <3>3, <1>0
  <2>3. BitAt(n) \in Nat /\ BitAt(StopBit) \in Nat
    BY <1>0, <1>3, BitTimes
  <2>4. ~(ph > BitAt(StopBit) + HalfBit)
    <3>1. ph < BitAt(StopBit)
      BY <2>2, <2>3, <1>0, <1>3
    <3>2. ph \in Nat /\ HalfBit \in Nat
      BY <1>0, <1>1
    <3> QED BY ONLY <3>1, <3>2, <2>3
  <2> QED BY <2>4, <1>2 DEF HasAll
<1>5. InByte(u, byte, ph, exp, t)
  BY <1>2, <1>4 DEF Follows
<1>6. /\ Open(u, byte, c) /\ u.bit <= c + 1 /\ u.level = LineLevel(byte, c)
      /\ Between(u.start, t) = ph /\ exp = Append(u.fifo, byte)
  BY <1>5 DEF InByte, c
<1>7. InFrame(u, byte) /\ u.start \in Ticks /\ u.bit \in 0..StopBit /\ u.fifo \in Seq(Payloads)
  BY <1>6 DEF Open, InFrame, Decoder
<1>8. Between(u.start, t2) = ph + 1
  <2>1. ph <= FrameTicks + 2 * ReadGap
    BY <1>0
  <2> QED BY <2>1, <1>0, <1>6, <1>7, OneOlder DEF t2
<1>9. e.lineTicks = t2 /\ e.level = LineLevel(byte, n)
  BY DEF t2, n
<1>10. Samples(u, byte, e.lineTicks, BitAt(n))
  <2>1. Len(u.fifo) < FifoSize
    <3>1. Len(exp) = Len(u.fifo) + 1 /\ Len(u.fifo) \in Nat
      BY <1>6, <1>7
    <3> QED BY <3>1, <1>0
  <2>2. 2 * (BitAt(n) - HalfBit) < TickModulus
    <3>1. BitAt(n) \in Nat /\ BitAt(n) <= FrameTicks
      BY <1>0, <1>3
    <3>2. FrameTicks \in Nat /\ TickModulus \in Nat /\ 2 * FrameTicks < TickModulus
      BY UartBounds
    <3>3. HalfBit \in Nat
      BY <1>1
    <3> QED BY ONLY <3>1, <3>2, <3>3
  <2>3. ASSUME NEW k \in u.bit..StopBit, BitAt(k) + HalfBit < BitAt(n)
        PROVE  u.level = LineLevel(byte, k)
    <3>1. k \in Nat /\ n \in Nat
      BY <1>0, <1>3, <1>7
    <3>2. BitAt(k) \in Nat /\ BitAt(n) \in Nat /\ (n < k => BitAt(n) + BitTicks <= BitAt(k))
      BY <3>1, BitTimes
    <3>3. ~(n < k) /\ n # k
      <4>1. BitAt(k) <= BitAt(n) /\ BitAt(k) # BitAt(n)
        BY <3>2, <2>3, <1>1
      <4> QED BY <4>1, <3>2, <1>0
    <3>4. k \in u.bit..c
      BY <3>1, <3>3, <1>3, <1>7
    <3> QED BY <3>4, <1>6 DEF Open
  <2> QED BY <2>1, <2>2, <2>3, <1>3, <1>7, <1>8, <1>9 DEF Samples, Between
<1>11. u.bit <= n
  BY <1>3, <1>6
<1>12. /\ Open(x, byte, n) /\ x.bit = n /\ x.level = e.level /\ x.start = u.start
       /\ x.fifo = u.fifo
  <2>1. e.level = LineLevel(byte, n) /\ x = PushEdge(u, e)
    BY <1>9 DEF x
  <2>2. n \in 1..StopBit
    BY <1>3
  <2> QED BY ONLY <2>1, <2>2, <1>10, <1>11, PushBit, e \in Edge
<1>13. InByte(x, byte, ph + 1, exp, t2)
  <2>1. x.bit <= n + 1
    BY <1>3, <1>12, <1>0
  <2> QED BY <2>1, <1>2, <1>6, <1>8, <1>9, <1>12 DEF InByte, n
<1>14. BeforeBit(u, e, byte, ph + 1, exp, t2)
  <2>1. Between(t2, t2) = 0
    <3>1. t2 \in Ticks
      BY NextTick DEF t2, NextTicks
    <3>2. (t2 - t2) % TickModulus = IF t2 <= t2 THEN t2 - t2 ELSE t2 - t2 + TickModulus
      BY <3>1, AgeOf
    <3> QED BY <3>1, <3>2 DEF Between, Ticks
  <2>2. (ph + 1) - BitAt(n) = 0 /\ n > 0 /\ n - 1 = c
    BY <1>0, <1>3
  <2>3. Between(e.lineTicks, t2) = (ph + 1) - BitAt(n)
    BY <2>1, <2>2, <1>9
  <2>4. Open(u, byte, n - 1)
    BY <2>2, <1>6
  <2>5. BitNo(ph + 1) = n
    BY DEF n
  <2>6. n > 0 /\ e.level = LineLevel(byte, n)
    BY <2>2, <1>9
  <2>7. Between(u.start, t2) = ph + 1 /\ exp = Append(u.fifo, byte) /\ u.bit <= n /\ byte # <<>>
    BY <1>2, <1>6, <1>8, <1>11
  <2>8. /\ Between(e.lineTicks, t2) = (ph + 1) - BitAt(BitNo(ph + 1))
        /\ Open(u, byte, BitNo(ph + 1) - 1) /\ u.bit <= BitNo(ph + 1)
        /\ BitNo(ph + 1) > 0 /\ e.level = LineLevel(byte, BitNo(ph + 1))
    BY <2>3, <2>4, <2>6, <2>7, Zenon DEF n
  <2> QED BY <2>7, <2>8, Zenon DEF BeforeBit
<1>15. (ph + 1) - BitAt(n) = 0
  BY <1>0, <1>3
<1> QED BY <1>9, <1>13, <1>14, <1>15 DEF Follows, x, n

\* The stop bit of the byte before, sampled in time.
LEMMA EndSampled ==
    ASSUME NEW u, NEW b \in Payloads, NEW ph \in Nat, NEW t \in Ticks, NEW slack \in Nat,
           slack <= ReadGap + HalfBit, AtEnd(u, b, ph, t, slack), Len(u.fifo) < FifoSize,
           NEW x, x = SampleUntil(u, t)
    PROVE  Closed(x) /\ x.fifo = Append(u.fifo, b)
<1>0. /\ FrameTicks \in Nat /\ ReadGap \in Nat /\ StopBit \in Nat /\ TickModulus \in Nat
      /\ 2 * (ReadGap + FrameTicks) < TickModulus /\ BitTicks \in Nat
  BY UartBounds
<1>1. HalfBit \in Nat /\ HalfBit < BitTicks /\ FrameTicks = BitAt(StopBit) + BitTicks
  BY BitTimes
<1>2. BitAt(StopBit) \in Nat
  BY <1>0, BitTimes
<1>3. PICK d \in Nat : d = Between(u.start, t) /\ FrameTicks <= d /\ d <= FrameTicks + slack
  <2>1. Between(u.start, t) \in (FrameTicks + ph)..(FrameTicks + slack)
    BY DEF AtEnd
  <2> QED BY <2>1, <1>0
<1>4. /\ InFrame(u, b) /\ u.level = TRUE /\ u.bit \in 0..StopBit
      /\ \A k \in u.bit..StopBit : u.level = LineLevel(b, k)
  BY DEF AtEnd, Open, InFrame
<1>5. Samples(u, b, t, d)
  <2>1. 2 * (d - HalfBit) < TickModulus
    BY <1>0, <1>1, <1>3, SMTT(30)
  <2> QED BY <2>1, <1>3, <1>4 DEF Samples, Between
<1>6. BitAt(StopBit) + HalfBit < d
  <2>1. BitAt(StopBit) + HalfBit < BitAt(StopBit) + BitTicks
    BY <1>0, <1>1, <1>2
  <2>2. BitAt(StopBit) + BitTicks <= d
    BY <1>1, <1>3
  <2> QED BY <2>1, <2>2, <1>0, <1>1, <1>2
<1>7. ASSUME NEW j \in 0..StopBit
      PROVE  ~(d <= BitAt(j) + HalfBit)
  <2>0. j \in Nat /\ StopBit \in Nat
    BY <1>0
  <2>1. BitAt(j) \in Nat /\ (j < StopBit => BitAt(j) + BitTicks <= BitAt(StopBit))
    BY <2>0, BitTimes
  <2>2. j = StopBit \/ j < StopBit
    BY <2>0
  <2>3. BitAt(j) <= BitAt(StopBit)
    BY <2>1, <2>2, <1>0, <1>2
  <2> QED BY <2>1, <2>3, <1>1, <1>2, <1>6
<1>8. /\ Decoder(x) /\ x.inFrame = FALSE /\ x.level = u.level /\ x.fifo = Append(u.fifo, b)
  <2>1. \/ Decoder(x) /\ x.inFrame = FALSE /\ x.level = u.level /\ x.fifo = Append(u.fifo, b)
        \/ InFrame(x, b) /\ d <= BitAt(x.bit) + HalfBit
    <3>1. Caught(x, u, b, d)
      BY <1>5, AllSampled
    <3> QED BY <3>1 DEF Caught
  <2>2. InFrame(x, b) => x.bit \in 0..StopBit
    BY DEF InFrame
  <2> QED BY <2>1, <2>2, <1>7
<1> QED BY <1>4, <1>8 DEF Closed

\* The edges of the byte on the line are in; its samples have their levels.
LEMMA InStep ==
    ASSUME NEW u, NEW byte \in Payloads, NEW ph \in 0..(FrameTicks - 1), NEW exp, NEW t \in Ticks,
           InByte(u, byte, ph, exp, t), Len(exp) <= FifoSize
    PROVE  Samples(u, byte, t, ph) /\ u.fifo \in Seq(Payloads)
<1> DEFINE c == BitNo(ph)
<1>0. /\ FrameTicks \in Nat /\ ReadGap \in Nat /\ StopBit \in Nat /\ TickModulus \in Nat
      /\ 2 * (ReadGap + FrameTicks) < TickModulus /\ BitTicks \in Nat /\ FifoSize \in Nat
  BY UartBounds
<1>1. HalfBit \in Nat /\ HalfBit < BitTicks
  BY BitTimes
<1>2. c \in 0..StopBit /\ BitAt(c) \in Nat /\ ph < BitAt(c) + BitTicks
  BY NextBit
<1>3. /\ Open(u, byte, c) /\ Between(u.start, t) = ph /\ exp = Append(u.fifo, byte)
  BY DEF InByte
<1> HIDE DEF c
<1>4. /\ InFrame(u, byte) /\ u.bit \in 0..StopBit /\ u.fifo \in Seq(Payloads)
      /\ \A k \in u.bit..c : u.level = LineLevel(byte, k)
  BY <1>3 DEF Open, InFrame, Decoder
<1>5. Len(u.fifo) < FifoSize
  <2>1. Len(exp) = Len(u.fifo) + 1 /\ Len(u.fifo) \in Nat
    BY <1>3, <1>4
  <2> QED BY <2>1, <1>0
<1>6. 2 * (ph - HalfBit) < TickModulus
  BY <1>0, <1>1
<1>7. ASSUME NEW k \in u.bit..StopBit, BitAt(k) + HalfBit < ph
      PROVE  u.level = LineLevel(byte, k)
  <2>1. k \in Nat /\ c \in Nat
    BY <1>0, <1>2, <1>4
  <2>2. BitAt(k) \in Nat /\ (c < k => BitAt(c) + BitTicks <= BitAt(k))
    BY <2>1, BitTimes
  <2>3. ~(c < k)
    BY <2>2, <1>7, <1>0, <1>1, <1>2
  <2>4. k \in u.bit..c
    BY <2>1, <2>3, <1>4
  <2> QED BY <2>4, <1>4
<1> QED BY <1>3, <1>4, <1>5, <1>6, <1>7 DEF Samples, Between

\* A stamp of this tick is no tick old.
LEMMA SameTime ==
    ASSUME NEW t \in Ticks
    PROVE  Between(t, t) = 0
<1>1. (t - t) % TickModulus = IF t <= t THEN t - t ELSE t - t + TickModulus
  BY AgeOf
<1> QED BY <1>1 DEF Between, Ticks

\* A byte begins: its first edge goes through the decoder ...
LEMMA BeginPushed ==
    ASSUME NEW u, NEW e \in Edge, Falling(e), NEW b \in Payloads,
           NEW exp \in Seq(Payloads), Len(exp) < FifoSize, NEW slack \in 0..ReadGap,
           Follows(u, <<>>, 0, exp, e.lineTicks, slack),
           NEW w, w = SampleUntil(u, e.lineTicks), NEW x, x = PushEdge(u, e)
    PROVE  Follows(x, b, 0, Append(exp, b), e.lineTicks, slack)
<1>0. e.lineTicks \in Ticks /\ ReadGap \in Nat /\ slack \in Nat /\ BitTicks \in Nat
      /\ BitTicks > 0 /\ FifoSize \in Nat
  BY UartBounds DEF Edge
<1>1. Closed(w) /\ w.fifo = exp
  <2>1. CASE HasAll(u, <<>>, 0, exp)
    <3>1. ~u.inFrame
      BY <2>1 DEF HasAll, Closed
    <3>2. w = u
      BY <3>1, SampleClosed
    <3> QED BY <3>2, <2>1 DEF HasAll
  <2>2. CASE InByte(u, <<>>, 0, exp, e.lineTicks)
    BY <2>2 DEF InByte
  <2>3. ASSUME NEW k \in Payloads, AtEnd(u, k, 0, e.lineTicks, slack), exp = Append(u.fifo, k)
        PROVE  Closed(w) /\ w.fifo = exp
    <3>1. u.fifo \in Seq(Payloads)
      BY <2>3 DEF AtEnd, Open, InFrame, Decoder
    <3>2. Len(exp) = Len(u.fifo) + 1 /\ Len(u.fifo) \in Nat
      BY <3>1, <2>3
    <3>3. Len(u.fifo) < FifoSize
      BY <3>2, <1>0
    <3>4. slack <= ReadGap + HalfBit
      <4>1. HalfBit \in Nat /\ slack <= ReadGap
        BY <1>0, BitTimes
      <4> QED BY <4>1, <1>0
    <3> QED BY <3>3, <3>4, <2>3, <1>0, EndSampled
  <2> QED BY <2>1, <2>2, <2>3 DEF Follows
<1>2. /\ Open(x, b, 0) /\ x.bit = 0 /\ x.start = e.lineTicks
      /\ x.fifo = w.fifo
  <2>1. First(x, e, b, w.fifo)
    BY <1>1, PushFirst
  <2> QED BY <2>1 DEF First
<1>3. BitNo(0) = 0
  BY <1>0, BitOf, BitTimes DEF BitNo
<1>4. Between(e.lineTicks, e.lineTicks) = 0
  BY <1>0, SameTime
<1>5. x.level = LineLevel(b, 0)
  <2>1. 0 \in 0..0
    OBVIOUS
  <2> QED BY <2>1, <1>2 DEF Open
<1>6. InByte(x, b, 0, Append(exp, b), e.lineTicks)
  <2>1. x.bit <= 0 + 1 /\ b # <<>>
    BY <1>2, NoByte
  <2> QED BY <2>1, <1>1, <1>2, <1>3, <1>4, <1>5 DEF InByte
<1> QED BY <1>6 DEF Follows

\* ... or stays in the queue while the thread reads.
LEMMA BeginQueued ==
    ASSUME NEW u, NEW e \in Edge, Falling(e), NEW b \in Payloads, NEW exp,
           NEW rg \in Nat, Follows(u, <<>>, 0, exp, e.lineTicks, ReadGap + rg)
    PROVE  ButOne(u, e, b, 0, Append(exp, b), e.lineTicks, rg)
<1>0. e.lineTicks \in Ticks /\ e.level = FALSE
  BY DEF Edge, Falling
<1>1. Between(e.lineTicks, e.lineTicks) = 0 /\ b # <<>>
  BY <1>0, SameTime, NoByte
<1>2. BeforeByte(u, e, b, 0, Append(exp, b), e.lineTicks, ReadGap + rg)
  <2>1. CASE HasAll(u, <<>>, 0, exp)
    BY <2>1, <1>0, <1>1 DEF HasAll, BeforeByte
  <2>2. CASE InByte(u, <<>>, 0, exp, e.lineTicks)
    BY <2>2 DEF InByte
  <2>3. ASSUME NEW k \in Payloads, AtEnd(u, k, 0, e.lineTicks, ReadGap + rg), exp = Append(u.fifo, k)
        PROVE  BeforeByte(u, e, b, 0, Append(exp, b), e.lineTicks, ReadGap + rg)
    BY <2>3, <1>0, <1>1 DEF BeforeByte
  <2> QED BY <2>1, <2>2, <2>3 DEF Follows
<1>3. 0 <= rg
  OBVIOUS
<1> QED BY <1>2, <1>3 DEF ButOne

\* The queued edge grows older; the line stays for half a bit.
LEMMA QueuedTick ==
    ASSUME NEW u, NEW e \in Edge, NEW byte, NEW ph \in 0..(FrameTicks - 1), NEW exp,
           NEW t \in Ticks, NEW rg \in 0..(ReadGap - 1), rg + 1 <= HalfBit,
           ButOne(u, e, byte, ph, exp, t, rg)
    PROVE  /\ LineStays(byte, ph) /\ byte # <<>> /\ ~(BitNo(ph + 1) > StopBit)
           /\ ButOne(u, e, byte, ph + 1, exp, NextTicks(t), rg + 1)
<1> DEFINE c == BitNo(ph)
           t2 == NextTicks(t)
<1>0. /\ FrameTicks \in Nat /\ ReadGap \in Nat /\ StopBit \in Nat /\ BitTicks \in Nat
      /\ ph \in Nat /\ ph < FrameTicks /\ rg \in Nat /\ rg < ReadGap /\ e.lineTicks \in Ticks
  BY UartBounds DEF Edge
<1>1. HalfBit \in Nat /\ HalfBit < BitTicks /\ BitAt(0) = 0
  BY BitTimes
<1>2. /\ c \in 0..StopBit /\ BitAt(c) \in Nat /\ BitAt(c) <= ph
      /\ \/ BitNo(ph + 1) = c
         \/ ph + 1 = BitAt(c) + BitTicks
  <2>1. /\ c \in 0..StopBit /\ BitAt(c) \in Nat /\ BitAt(c) <= ph
        /\ \/ BitNo(ph + 1) = c
           \/ BitNo(ph + 1) = c + 1 /\ ph + 1 = BitAt(c + 1)
    BY NextBit
  <2>2. BitAt(c + 1) = BitAt(c) + BitTicks
    BY <2>1, BitTimes, c \in Nat
  <2> QED BY <2>1, <2>2
<1> HIDE DEF c, t2
<1>3. ph - BitAt(c) <= rg
  <2>1. ph <= rg => ph - BitAt(c) <= rg
    BY <1>0, <1>2
  <2> QED BY <2>1 DEF ButOne, c
<1>4. BitNo(ph + 1) = c /\ (ph + 1) - BitAt(c) = (ph - BitAt(c)) + 1
      /\ (ph + 1) - BitAt(c) <= rg + 1
  BY <1>0, <1>1, <1>2, <1>3
<1>5. ~(c > StopBit)
  BY <1>0, <1>2
<1>6. CASE ph <= rg /\ BeforeByte(u, e, byte, ph, exp, t, ReadGap + rg)
  <2>1. byte # <<>> /\ e.level = FALSE /\ Between(e.lineTicks, t) = ph
    BY <1>6 DEF BeforeByte
  <2>2. Between(e.lineTicks, t2) = ph + 1
    <3>1. ph <= FrameTicks + 2 * ReadGap
      BY <1>0
    <3> QED BY <3>1, <2>1, <1>0, OneOlder DEF t2
  <2>3. ph + 1 <= rg + 1
    BY <1>6, <1>0
  <2>4. ASSUME NEW b \in Payloads, AtEnd(u, b, ph, t, ReadGap + rg)
        PROVE  AtEnd(u, b, ph + 1, t2, ReadGap + (rg + 1))
    <3>1. Open(u, b, StopBit) /\ u.level = TRUE /\ u.start \in Ticks
      BY <2>4 DEF AtEnd, Open, InFrame
    <3>2. Between(u.start, t) \in (FrameTicks + ph)..(FrameTicks + (ReadGap + rg))
      BY <2>4 DEF AtEnd
    <3>3. PICK d \in Nat : /\ d = Between(u.start, t) /\ FrameTicks + ph <= d
                           /\ d <= FrameTicks + (ReadGap + rg)
      BY <3>2, <1>0
    <3>4. d <= FrameTicks + 2 * ReadGap
      BY <3>3, <1>0
    <3>5. Between(u.start, t2) = d + 1
      BY <3>1, <3>3, <3>4, OneOlder DEF t2
    <3>6. d + 1 \in (FrameTicks + (ph + 1))..(FrameTicks + (ReadGap + (rg + 1)))
      BY <3>3, <1>0
    <3> QED BY <3>1, <3>5, <3>6 DEF AtEnd
  <2>5. BeforeByte(u, e, byte, ph + 1, exp, t2, ReadGap + (rg + 1))
    <3>1. CASE Closed(u) /\ exp = Append(u.fifo, byte)
      BY <3>1, <2>1, <2>2 DEF BeforeByte
    <3>2. CASE \E b \in Payloads : AtEnd(u, b, ph, t, ReadGap + rg)
                                    /\ exp = Append(Append(u.fifo, b), byte)
      <4>1. \E b \in Payloads : AtEnd(u, b, ph + 1, t2, ReadGap + (rg + 1))
                                    /\ exp = Append(Append(u.fifo, b), byte)
        BY <3>2, <2>4
      <4> QED BY <4>1, <2>1, <2>2 DEF BeforeByte
    <3> QED BY <3>1, <3>2, <1>6 DEF BeforeByte
  <2> QED BY <2>1, <2>3, <2>5, <1>4, <1>5 DEF ButOne, LineStays, t2, c
<1>7. CASE BeforeBit(u, e, byte, ph, exp, t)
  <2>1. /\ byte # <<>> /\ c > 0 /\ e.level = LineLevel(byte, c)
        /\ Between(e.lineTicks, t) = ph - BitAt(c)
        /\ Open(u, byte, c - 1) /\ u.bit <= c
        /\ Between(u.start, t) = ph /\ exp = Append(u.fifo, byte)
    BY <1>7 DEF BeforeBit, c
  <2>2. u.start \in Ticks
    BY <2>1 DEF Open, InFrame
  <2>3. Between(u.start, t2) = ph + 1
    <3>1. ph <= FrameTicks + 2 * ReadGap
      BY <1>0
    <3> QED BY <3>1, <2>1, <2>2, <1>0, OneOlder DEF t2
  <2>4. Between(e.lineTicks, t2) = (ph + 1) - BitAt(c)
    <3>1. PICK d \in Nat : d = ph - BitAt(c)
      BY <1>0, <1>2
    <3>2. d <= FrameTicks + 2 * ReadGap
      BY <3>1, <1>0, <1>2
    <3>3. Between(e.lineTicks, t2) = d + 1
      BY <3>1, <3>2, <2>1, <1>0, OneOlder DEF t2
    <3> QED BY <3>1, <3>3, <1>4
  <2>5. BeforeBit(u, e, byte, ph + 1, exp, t2)
    BY <2>1, <2>3, <2>4, <1>4 DEF BeforeBit
  <2> QED BY <2>1, <2>5, <1>4, <1>5 DEF ButOne, LineStays, t2, c
<1> QED BY <1>6, <1>7 DEF ButOne

\* The bytes are taken.
LEMMA FifoEmptied ==
    ASSUME NEW x, Decoder(x), NEW y, y = [x EXCEPT !.fifo = <<>>]
    PROVE  /\ Decoder(y) /\ y.fifo = <<>> /\ y.level = x.level /\ y.inFrame = x.inFrame
           /\ y.bit = x.bit /\ y.start = x.start
           /\ Closed(x) => Closed(y)
           /\ \A b : InFrame(x, b) => InFrame(y, b)
<1>1. Fields(x)
  BY DEF Decoder
<1>2. /\ Fields(y) /\ y.fifo = <<>> /\ y.level = x.level /\ y.inFrame = x.inFrame
      /\ y.bit = x.bit /\ y.start = x.start /\ y.data = x.data
  BY <1>1 DEF Fields
<1>3. Decoder(y)
  BY <1>2 DEF Decoder
<1>4. Closed(x) => Closed(y)
  BY <1>2, <1>3 DEF Closed
<1>5. \A b : InFrame(x, b) => InFrame(y, b)
  BY <1>2, <1>3 DEF InFrame
<1> QED BY <1>2, <1>3, <1>4, <1>5

\* The ticks from a stamp to a later one are the difference of their ages.
LEMMA BetweenTwo ==
    ASSUME NEW s \in Ticks, NEW e \in Ticks, NEW t \in Ticks, NEW p \in Nat, NEW q \in Nat,
           q <= p, Between(s, t) = p, Between(e, t) = p - q
    PROVE  Between(s, e) = q
<1>1. PICK M \in Nat : M = TickModulus
  BY UartBounds
<1>2. /\ s \in Int /\ e \in Int /\ t \in Int /\ 0 <= s /\ 0 <= e /\ 0 <= t
      /\ s < M /\ e < M /\ t < M
  BY <1>1 DEF Ticks
<1>3. p = IF s <= t THEN t - s ELSE t - s + M
  BY <1>1, AgeOf DEF Between
<1>4. p - q = IF e <= t THEN t - e ELSE t - e + M
  BY <1>1, AgeOf DEF Between
<1>5. (e - s) % TickModulus = IF s <= e THEN e - s ELSE e - s + M
  BY <1>1, AgeOf
<1>6. q = IF s <= e THEN e - s ELSE e - s + M
  BY <1>2, <1>3, <1>4
<1> QED BY <1>5, <1>6 DEF Between

\* Sequences of bytes, and the last one.
LEMMA Appended ==
    ASSUME NEW s \in Seq(Payloads), NEW b \in Payloads
    PROVE  /\ Append(s, b) = s \o <<b>> /\ Append(s, b) = Append(s, b) \o <<>>
           /\ <<b>> = Append(<<>>, b) /\ <<b>> \in Seq(Payloads) /\ <<>> \in Seq(Payloads)
           /\ s = s \o <<>> /\ Len(Append(s, b)) = Len(s) + 1 /\ Len(s) \in Nat
OBVIOUS

\* The bytes of the FIFO are the first of those sent, and the decoder follows with the rest.
Taken(x, z, byte, ph, exp, t, rg) ==
    \E rest \in Seq(Payloads) : /\ x.fifo \in Seq(Payloads) /\ exp = x.fifo \o rest
                                /\ Follows(z, byte, ph, rest, t, rg)

\* Poll() with no edge in the queue.
LEMMA PollFollows ==
    ASSUME NEW u, NEW byte \in Payloads \cup {<<>>}, NEW ph \in 0..(FrameTicks - 1),
           NEW exp \in Seq(Payloads), Len(exp) <= FifoSize, NEW t \in Ticks,
           NEW rg \in 0..ReadGap, rg <= HalfBit, Follows(u, byte, ph, exp, t, ReadGap + rg),
           NEW x, x = SampleUntil(u, t), NEW y, y = [x EXCEPT !.fifo = <<>>]
    PROVE  Taken(x, y, byte, ph, exp, t, rg)
<1>0. StopBit \in Nat /\ BitTicks \in Nat /\ FifoSize \in Nat /\ ReadGap \in Nat /\ ph \in Nat
      /\ rg \in Nat
  BY UartBounds
<1>1. ASSUME Closed(x), x.fifo = exp, byte # <<>> => ph > BitAt(StopBit) + HalfBit
      PROVE  Taken(x, y, byte, ph, exp, t, rg)
  <2>1. Closed(y) /\ y.fifo = <<>>
    BY <1>1, FifoEmptied DEF Closed
  <2>2. HasAll(y, byte, ph, <<>>)
    BY <2>1, <1>1 DEF HasAll
  <2>3. exp = x.fifo \o <<>> /\ <<>> \in Seq(Payloads) /\ x.fifo \in Seq(Payloads)
    BY <1>1
  <2> QED BY <2>2, <2>3 DEF Follows, Taken
<1>2. CASE HasAll(u, byte, ph, exp)
  <2>1. ~u.inFrame
    BY <1>2 DEF HasAll, Closed
  <2>2. x = u
    BY <2>1, SampleClosed
  <2> QED BY <2>2, <1>1, <1>2 DEF HasAll
<1>3. CASE InByte(u, byte, ph, exp, t)
  <2> DEFINE c == BitNo(ph)
  <2>1. /\ byte # <<>> /\ Open(u, byte, c) /\ u.bit <= c + 1 /\ u.level = LineLevel(byte, c)
        /\ Between(u.start, t) = ph /\ exp = Append(u.fifo, byte) /\ byte \in Payloads
    BY <1>3 DEF InByte
  <2>2. c \in 0..StopBit /\ BitAt(c) \in Nat /\ BitAt(c) <= ph /\ ph < BitAt(c) + BitTicks
    BY NextBit
  <2>3. Samples(u, byte, t, ph) /\ u.fifo \in Seq(Payloads)
    BY <1>3, <2>1, InStep
  <2> HIDE DEF c
  <2>4. CASE /\ BitAt(StopBit) + HalfBit < ph
             /\ Decoder(x) /\ x.inFrame = FALSE /\ x.level = u.level /\ x.fifo = Append(u.fifo, byte)
    <3>1. c = StopBit
      <4>1. c \in Nat /\ (c < StopBit => BitAt(c) + BitTicks <= BitAt(StopBit))
        BY <1>0, <2>2, BitTimes
      <4>2. BitAt(StopBit) \in Nat /\ HalfBit \in Nat
        BY <1>0, BitTimes
      <4>3. ~(c < StopBit)
        BY <4>1, <4>2, <2>2, <2>4, <1>0
      <4> QED BY <4>1, <4>3, <2>2, <1>0
    <3>2. LineLevel(byte, StopBit) = TRUE
      BY DEF LineLevel
    <3>3. x.level = TRUE
      BY <3>1, <3>2, <2>1, <2>4
    <3>4. Closed(x) /\ x.fifo = exp
      BY <3>3, <2>1, <2>4 DEF Closed
    <3>5. ph > BitAt(StopBit) + HalfBit
      <4>1. BitAt(StopBit) \in Nat /\ HalfBit \in Nat
        BY <1>0, BitTimes
      <4> QED BY <4>1, <2>4, <1>0
    <3> QED BY <3>4, <3>5, <1>1
  <2>5. CASE /\ InFrame(x, byte) /\ x.level = u.level /\ x.fifo = u.fifo /\ x.start = u.start
             /\ x.bit >= u.bit
             /\ x.bit = u.bit \/ BitAt(x.bit - 1) + HalfBit < ph
    <3>1. Decoder(x) /\ x.bit \in 0..StopBit /\ u.bit \in 0..StopBit
      BY <2>1, <2>5 DEF InFrame, Open
    <3>2. x.bit <= c + 1
      <4>1. SUFFICES ASSUME x.bit > c + 1 PROVE FALSE
        BY <3>1, <2>2
      <4>2. x.bit # u.bit /\ c \in Nat /\ x.bit - 1 \in Nat /\ c < x.bit - 1
        BY <4>1, <3>1, <2>1, <2>2
      <4>3. BitAt(c) + BitTicks <= BitAt(x.bit - 1) /\ BitAt(x.bit - 1) \in Nat /\ HalfBit \in Nat
        BY <4>2, BitTimes
      <4> QED BY <4>2, <4>3, <2>2, <2>5, <1>0
    <3>3. /\ InFrame(y, byte) /\ y.fifo = <<>> /\ y.level = x.level /\ y.bit = x.bit
          /\ y.start = x.start
      BY <3>1, <2>5, FifoEmptied
    <3>4. ASSUME NEW k \in y.bit..c
          PROVE  y.level = LineLevel(byte, k)
      <4>1. k \in u.bit..c
        BY <3>4, <3>1, <3>3, <2>2, <2>5
      <4> QED BY <4>1, <3>3, <2>1, <2>5 DEF Open
    <3>5. Open(y, byte, c)
      BY <3>3, <3>4 DEF Open
    <3>6. /\ y.bit <= c + 1 /\ y.level = LineLevel(byte, c) /\ Between(y.start, t) = ph
          /\ <<byte>> = Append(y.fifo, byte)
      BY <3>2, <3>3, <2>1, <2>5, Appended
    <3>7. InByte(y, byte, ph, <<byte>>, t)
      BY <3>5, <3>6, <2>1 DEF InByte, c
    <3>8. exp = x.fifo \o <<byte>> /\ <<byte>> \in Seq(Payloads) /\ x.fifo \in Seq(Payloads)
      <4>1. Append(u.fifo, byte) = u.fifo \o <<byte>> /\ <<byte>> \in Seq(Payloads)
        BY <2>1, <2>3, Appended
      <4> QED BY <4>1, <2>1, <2>3, <2>5
    <3> QED BY <3>7, <3>8 DEF Follows, Taken
  <2>6. \/ /\ BitAt(StopBit) + HalfBit < ph
           /\ Decoder(x) /\ x.inFrame = FALSE /\ x.level = u.level /\ x.fifo = Append(u.fifo, byte)
        \/ /\ InFrame(x, byte) /\ x.level = u.level /\ x.fifo = u.fifo /\ x.start = u.start
           /\ x.bit >= u.bit
           /\ x.bit = u.bit \/ BitAt(x.bit - 1) + HalfBit < ph
    <3>1. Caught(x, u, byte, ph)
      BY <1>0, <2>3, AllSampled
    <3> QED BY <3>1 DEF Caught
  <2> QED BY <2>4, <2>5, <2>6
<1>4. ASSUME NEW b \in Payloads, byte = <<>>, AtEnd(u, b, 0, t, ReadGap + rg), exp = Append(u.fifo, b)
      PROVE  Closed(x) /\ x.fifo = exp
  <2>1. u.fifo \in Seq(Payloads)
    BY <1>4 DEF AtEnd, Open, InFrame, Decoder
  <2>2. Len(exp) = Len(u.fifo) + 1 /\ Len(u.fifo) \in Nat
    BY <2>1, <1>4, Appended
  <2>3. Len(u.fifo) < FifoSize
    BY <2>2, <1>0
  <2>4. HalfBit \in Nat
    BY BitTimes
  <2>5. ReadGap + rg <= ReadGap + HalfBit /\ ReadGap + rg \in Nat
    BY <2>4, <1>0
  <2> QED BY <2>3, <2>5, <1>4, EndSampled
<1> QED BY <1>1, <1>2, <1>3, <1>4 DEF Follows

\* Poll() with the start edge of the byte on the line in the queue.
LEMMA PollFirst ==
    ASSUME NEW x, Closed(x), x.fifo \in Seq(Payloads), NEW y, y = [x EXCEPT !.fifo = <<>>],
           NEW e \in Edge, Falling(e), NEW byte \in Payloads, NEW ph \in 0..(FrameTicks - 1),
           NEW t \in Ticks, NEW rg \in Nat, ph <= rg, rg <= HalfBit, Between(e.lineTicks, t) = ph,
           NEW exp, exp = Append(x.fifo, byte), NEW z, z = PushEdge(y, e)
    PROVE  Taken(x, z, byte, ph, exp, t, rg)
<1>1. Closed(y) /\ y.fifo = <<>>
  BY FifoEmptied DEF Closed
<1>2. y = SampleUntil(y, e.lineTicks)
  BY <1>1, SampleClosed DEF Closed
<1>3. /\ Open(z, byte, 0) /\ z.bit = 0 /\ z.start = e.lineTicks /\ z.fifo = <<>>
  <2>1. First(z, e, byte, y.fifo)
    BY <1>1, <1>2, PushFirst
  <2> QED BY <2>1, <1>1 DEF First
<1>4. BitNo(ph) = 0
  <2>1. /\ HalfBit \in Nat /\ BitTicks \in Nat /\ HalfBit < BitTicks /\ BitAt(0) = 0
    BY UartBounds, BitTimes
  <2>2. ph \in Nat /\ BitAt(0) <= ph /\ ph < BitAt(0) + BitTicks
    BY <2>1
  <2> QED BY <2>2, BitOf DEF BitNo
<1>5. z.level = LineLevel(byte, 0)
  <2>1. 0 \in 0..0
    OBVIOUS
  <2> QED BY <2>1, <1>3 DEF Open
<1>6. <<byte>> = Append(z.fifo, byte) /\ <<byte>> \in Seq(Payloads) /\ exp = x.fifo \o <<byte>>
  BY <1>3, Appended
<1>7. InByte(z, byte, ph, <<byte>>, t)
  <2>1. z.bit <= 0 + 1 /\ byte # <<>>
    BY <1>3, NoByte
  <2> QED BY <2>1, <1>3, <1>4, <1>5, <1>6 DEF InByte
<1> QED BY <1>6, <1>7 DEF Follows, Taken

\* Poll() with the edge before the present bit in the queue.
LEMMA PollBit ==
    ASSUME NEW u, NEW e \in Edge, NEW byte \in Payloads, NEW ph \in 0..(FrameTicks - 1),
           NEW exp \in Seq(Payloads), Len(exp) <= FifoSize, NEW t \in Ticks,
           NEW rg \in Nat, rg <= HalfBit,
           ph - BitAt(BitNo(ph)) <= rg, BeforeBit(u, e, byte, ph, exp, t),
           NEW x, x = SampleUntil(u, t), NEW y, y = [x EXCEPT !.fifo = <<>>],
           NEW z, z = PushEdge(y, e)
    PROVE  Taken(x, z, byte, ph, exp, t, rg)
<1> DEFINE c == BitNo(ph)
<1>0. /\ StopBit \in Nat /\ BitTicks \in Nat /\ FifoSize \in Nat /\ FifoSize > 0
      /\ ph \in Nat /\ ph < FrameTicks /\ FrameTicks \in Nat /\ TickModulus \in Nat
      /\ e.lineTicks \in Ticks
  BY UartBounds DEF Edge
<1>1. /\ c \in 0..StopBit /\ BitAt(c) \in Nat /\ BitAt(c) <= ph
  BY NextBit
<1>2. /\ byte # <<>> /\ c > 0 /\ e.level = LineLevel(byte, c)
      /\ Between(e.lineTicks, t) = ph - BitAt(c)
      /\ Open(u, byte, c - 1) /\ u.bit <= c
      /\ Between(u.start, t) = ph /\ exp = Append(u.fifo, byte)
  BY DEF BeforeBit
<1>3. ph <= BitAt(c) + HalfBit /\ HalfBit \in Nat /\ HalfBit < BitTicks
  <2>1. HalfBit \in Nat /\ HalfBit < BitTicks
    BY BitTimes
  <2> QED BY <2>1, <1>0, <1>1
<1> HIDE DEF c
<1>4. /\ InFrame(u, byte) /\ u.bit \in 0..StopBit /\ u.start \in Ticks /\ u.fifo \in Seq(Payloads)
      /\ \A k \in u.bit..(c - 1) : u.level = LineLevel(byte, k)
  BY <1>2 DEF Open, InFrame, Decoder
<1>5. Len(u.fifo) < FifoSize
  <2>1. Len(exp) = Len(u.fifo) + 1 /\ Len(u.fifo) \in Nat
    BY <1>2, <1>4, Appended
  <2> QED BY <2>1, <1>0
\* A bit that is sampled before the queued edge lies before it.
<1>6. ASSUME NEW k \in Nat, BitAt(k) < BitAt(c)
      PROVE  k < c
  <2>0. c \in Nat
    BY <1>0, <1>1
  <2>1. c \in Nat /\ (c < k => BitAt(c) + BitTicks <= BitAt(k)) /\ BitAt(k) \in Nat
    BY <2>0, BitTimes
  <2>2. k # c /\ ~(c < k)
    BY <2>1, <1>0, <1>1, <1>6
  <2> QED BY <2>1, <2>2
<1>7. ASSUME NEW k \in u.bit..StopBit, BitAt(k) < BitAt(c)
      PROVE  u.level = LineLevel(byte, k)
  <2>1. k \in Nat /\ u.bit <= k /\ c \in Nat /\ u.bit \in Nat
    BY <1>0, <1>1, <1>4
  <2>2. k < c
    BY <2>1, <1>6, <1>7
  <2>3. k \in u.bit..(c - 1)
    BY <2>1, <2>2
  <2> QED BY <2>3, <1>4
<1>8. Samples(u, byte, t, ph)
  <2>1. 2 * (ph - HalfBit) < TickModulus
    <3>1. 2 * FrameTicks < TickModulus
      BY UartBounds
    <3> QED BY <3>1, <1>0, <1>3
  <2>2. ASSUME NEW k \in u.bit..StopBit, BitAt(k) + HalfBit < ph
        PROVE  u.level = LineLevel(byte, k)
    <3>1. k \in Nat
      BY <1>0, <1>4
    <3>2. BitAt(k) \in Nat
      BY <3>1, BitTimes
    <3>3. BitAt(k) < BitAt(c)
      BY <3>2, <2>2, <1>0, <1>1, <1>3
    <3> QED BY <3>3, <1>7
  <2> QED BY <2>1, <2>2, <1>2, <1>4, <1>5 DEF Samples, Between
<1>9. ~(BitAt(StopBit) + HalfBit < ph)
  <2>1. BitAt(StopBit) \in Nat
    BY <1>0, BitTimes
  <2>2. BitAt(StopBit) + HalfBit < ph => BitAt(StopBit) < BitAt(c)
    BY <2>1, <1>0, <1>1, <1>3
  <2>3. ~(StopBit < c)
    BY <1>0, <1>1
  <2> QED BY <2>2, <2>3, <1>0, <1>6
<1>10. /\ InFrame(x, byte) /\ x.level = u.level /\ x.fifo = u.fifo /\ x.start = u.start
       /\ x.bit >= u.bit
       /\ x.bit = u.bit \/ BitAt(x.bit - 1) + HalfBit < ph
  <2>1. Caught(x, u, byte, ph)
    BY <1>0, <1>8, AllSampled
  <2>2. \/ BitAt(StopBit) + HalfBit < ph
        \/ /\ InFrame(x, byte) /\ x.level = u.level /\ x.fifo = u.fifo /\ x.start = u.start
           /\ x.bit >= u.bit
           /\ x.bit = u.bit \/ BitAt(x.bit - 1) + HalfBit < ph
    BY <2>1 DEF Caught
  <2> QED BY <2>2, <1>9, Zenon
<1>11. x.bit <= c /\ x.bit \in 0..StopBit /\ Decoder(x)
  <2>1. x.bit \in 0..StopBit /\ Decoder(x)
    BY <1>10 DEF InFrame
  <2>2. ASSUME x.bit > c
        PROVE  FALSE
    <3>0. c \in Nat /\ x.bit \in Nat /\ u.bit \in Nat /\ u.bit <= c
      BY <2>1, <1>0, <1>1, <1>2, <1>4
    <3>1. x.bit # u.bit /\ x.bit - 1 \in Nat /\ ~(x.bit - 1 < c)
      BY <3>0, <2>2
    <3>2. BitAt(x.bit - 1) \in Nat
      BY <3>1, BitTimes
    <3>3. BitAt(x.bit - 1) < BitAt(c)
      BY <3>1, <3>2, <1>0, <1>1, <1>3, <1>10
    <3> QED BY <3>1, <3>3, <1>6
  <2> QED BY <2>1, <2>2, <1>1
<1>12. /\ InFrame(y, byte) /\ y.fifo = <<>> /\ y.level = u.level /\ y.bit = x.bit
       /\ y.start = u.start
  BY <1>10, <1>11, FifoEmptied
<1>13. Samples(y, byte, e.lineTicks, BitAt(c))
  <2>1. Between(y.start, e.lineTicks) = BitAt(c)
    BY <1>0, <1>1, <1>2, <1>4, <1>12, BetweenTwo, SMTT(30)
  <2>2. 2 * (BitAt(c) - HalfBit) < TickModulus
    <3>1. 2 * FrameTicks < TickModulus
      BY UartBounds
    <3> QED BY <3>1, <1>0, <1>1, <1>3, SMTT(30)
  <2>3. Len(y.fifo) < FifoSize
    BY <1>0, <1>12
  <2>4. ASSUME NEW k \in y.bit..StopBit, BitAt(k) + HalfBit < BitAt(c)
        PROVE  y.level = LineLevel(byte, k)
    <3>1. k \in u.bit..StopBit /\ k \in Nat
      BY <1>0, <1>4, <1>10, <1>11, <1>12
    <3>2. BitAt(k) \in Nat
      BY <3>1, BitTimes
    <3>3. BitAt(k) < BitAt(c)
      BY <3>2, <2>4, <1>1, <1>3
    <3> QED BY <3>1, <3>3, <1>7, <1>12
  <2> QED BY <2>1, <2>2, <2>3, <2>4, <1>12 DEF Samples, Between
<1>14. /\ Open(z, byte, c) /\ z.bit = c /\ z.level = e.level /\ z.start = y.start
       /\ z.fifo = y.fifo
  <2>1. z = PushEdge(y, e) /\ e \in Edge /\ c \in 1..StopBit /\ y.bit <= c
    BY <1>0, <1>1, <1>2, <1>11, <1>12
  <2> QED BY ONLY <2>1, <1>2, <1>13, PushBit
<1>15. InByte(z, byte, ph, <<byte>>, t)
  <2>1. z.bit <= c + 1
    BY <1>1, <1>14
  <2>2. <<byte>> = Append(z.fifo, byte)
    BY <1>12, <1>14, Appended
  <2> QED BY <2>1, <2>2, <1>2, <1>12, <1>14 DEF InByte, c
<1>16. exp = x.fifo \o <<byte>> /\ <<byte>> \in Seq(Payloads) /\ x.fifo \in Seq(Payloads)
  <2>1. Append(u.fifo, byte) = u.fifo \o <<byte>> /\ <<byte>> \in Seq(Payloads)
    BY <1>4, Appended
  <2> QED BY <2>1, <1>2, <1>4, <1>10
<1> QED BY <1>15, <1>16 DEF Follows, Taken

\* The same with the queue.
Left(x, y, q, byte, ph, exp, t, rg) ==
    \E rest \in Seq(Payloads) : /\ x.fifo \in Seq(Payloads) /\ exp = x.fifo \o rest
                                /\ FollowedAt(FALSE, rg, q, y, byte, ph, rest, t)

\* Poll() in time, whatever is in the queue: the bytes taken are the first of those sent.
LEMMA PollFollowed ==
    ASSUME NEW u, NEW q \in Seq(Edge), NEW byte \in Payloads \cup {<<>>},
           NEW ph \in 0..(FrameTicks - 1), NEW exp \in Seq(Payloads), Len(exp) <= FifoSize,
           NEW t \in Ticks, NEW rg \in 0..ReadGap, rg <= HalfBit,
           FollowedAt(TRUE, rg, q, u, byte, ph, exp, t),
           NEW x, x = SampleUntil(u, t), NEW y, y = [x EXCEPT !.fifo = <<>>]
    PROVE  Left(x, y, q, byte, ph, exp, t, rg)
<1>0. FifoSize \in Nat /\ ReadGap \in Nat /\ rg \in Nat /\ HalfBit \in Nat /\ ph \in Nat
  <2>1. FifoSize \in Nat /\ ReadGap \in Nat
    BY UartBounds
  <2>2. HalfBit \in Nat
    BY BitTimes
  <2> QED BY <2>1, <2>2
<1>1. CASE q = <<>> /\ Follows(u, byte, ph, exp, t, ReadGap + rg)
  <2>1. PICK rest \in Seq(Payloads) : /\ x.fifo \in Seq(Payloads) /\ exp = x.fifo \o rest
                                      /\ Follows(y, byte, ph, rest, t, rg)
    <3>1. Taken(x, y, byte, ph, exp, t, rg)
      BY <1>1, PollFollows
    <3> QED BY <3>1 DEF Taken
  <2>2. PushEdges(y, q) = y
    BY <1>1, PushedNone
  <2>3. FollowedAt(FALSE, rg, q, y, byte, ph, rest, t)
    BY <2>1, <2>2 DEF FollowedAt
  <2> QED BY <2>1, <2>3 DEF Left
<1>2. CASE Len(q) = 1 /\ ButOne(u, q[1], byte, ph, exp, t, rg)
  <2> DEFINE e == q[1]
  <2>1. e \in Edge /\ PushEdges(y, q) = PushEdge(y, e)
    BY <1>2, PushedOne
  <2>2. ButOne(u, e, byte, ph, exp, t, rg) /\ e.lineTicks \in Ticks
    BY <1>2, <2>1 DEF Edge
  <2> HIDE DEF e
  <2>3. byte \in Payloads
    BY <2>2 DEF ButOne, BeforeByte, BeforeBit
  <2>4. ASSUME Closed(x), x.fifo \in Seq(Payloads), exp = Append(x.fifo, byte),
               ph <= rg, Between(e.lineTicks, t) = ph, e.level = FALSE
        PROVE  Taken(x, PushEdge(y, e), byte, ph, exp, t, rg)
    <3>1. Falling(e)
      BY <2>4 DEF Falling
    <3> QED BY <3>1, <2>1, <2>3, <2>4, <1>0, PollFirst
  <2>5. Taken(x, PushEdge(y, e), byte, ph, exp, t, rg)
    <3>1. CASE ph <= rg /\ BeforeByte(u, e, byte, ph, exp, t, ReadGap + rg)
      <4>1. e.level = FALSE /\ Between(e.lineTicks, t) = ph
        BY <3>1 DEF BeforeByte
      <4>2. CASE Closed(u) /\ exp = Append(u.fifo, byte)
        <5>1. x = u
          BY <4>2, SampleClosed DEF Closed
        <5>2. x.fifo \in Seq(Payloads)
          BY <5>1, <4>2 DEF Closed, Decoder
        <5> QED BY <5>1, <5>2, <4>1, <4>2, <3>1, <2>4
      <4>3. ASSUME NEW b \in Payloads, AtEnd(u, b, ph, t, ReadGap + rg),
                   exp = Append(Append(u.fifo, b), byte)
            PROVE  Closed(x) /\ x.fifo \in Seq(Payloads) /\ exp = Append(x.fifo, byte)
        <5>1. u.fifo \in Seq(Payloads)
          BY <4>3 DEF AtEnd, Open, InFrame, Decoder
        <5>2. Append(u.fifo, b) \in Seq(Payloads) /\ Len(Append(u.fifo, b)) = Len(u.fifo) + 1
              /\ Len(u.fifo) \in Nat
          BY <5>1
        <5>3. Len(exp) = Len(Append(u.fifo, b)) + 1
          BY <5>2, <4>3, <2>3, Appended
        <5>4. Len(u.fifo) < FifoSize
          BY <5>2, <5>3, <1>0
        <5>5. ReadGap + rg \in Nat /\ ReadGap + rg <= ReadGap + HalfBit
          BY <1>0
        <5>6. Closed(x) /\ x.fifo = Append(u.fifo, b)
          BY <5>4, <5>5, <4>3, <1>0, EndSampled
        <5> QED BY <5>2, <5>6, <4>3
      <4> QED BY <4>1, <4>2, <4>3, <3>1, <2>4 DEF BeforeByte
    <3>2. CASE ph - BitAt(BitNo(ph)) <= rg /\ BeforeBit(u, e, byte, ph, exp, t)
      BY <3>2, <2>1, <2>3, <1>0, PollBit
    <3> QED BY <3>1, <3>2, <2>2 DEF ButOne
  <2>6. PICK rest \in Seq(Payloads) : /\ x.fifo \in Seq(Payloads) /\ exp = x.fifo \o rest
                                      /\ Follows(PushEdge(y, e), byte, ph, rest, t, rg)
    BY <2>5 DEF Taken
  <2>7. FollowedAt(FALSE, rg, q, y, byte, ph, rest, t)
    BY <2>1, <2>6 DEF FollowedAt
  <2> QED BY <2>6, <2>7 DEF Left
<1> QED BY <1>1, <1>2 DEF FollowedAt

\* The thread empties the queue: the decoder has followed by itself.
LEMMA PopFollowed ==
    ASSUME NEW u, NEW q, NEW byte, NEW ph, NEW exp, NEW t, NEW rg \in 0..ReadGap,
           FollowedAt(FALSE, rg, q, u, byte, ph, exp, t)
    PROVE  FollowedAt(TRUE, 0, <<>>, PushEdges(u, q), byte, ph, exp, t)
<1> DEFINE v == PushEdges(u, q)
<1>1. Follows(v, byte, ph, exp, t, rg)
  BY DEF FollowedAt
<1> HIDE DEF v
<1>2. ASSUME NEW b, AtEnd(v, b, 0, t, rg)
      PROVE  AtEnd(v, b, 0, t, ReadGap + 0)
  <2>1. FrameTicks \in Nat /\ ReadGap \in Nat /\ rg \in Nat /\ rg <= ReadGap
    BY UartBounds
  <2>2. Between(v.start, t) \in (FrameTicks + 0)..(FrameTicks + rg)
    BY <1>2 DEF AtEnd
  <2>3. Between(v.start, t) \in (FrameTicks + 0)..(FrameTicks + (ReadGap + 0))
    BY <2>1, <2>2
  <2> QED BY <2>3, <1>2 DEF AtEnd
<1>3. Follows(v, byte, ph, exp, t, ReadGap + 0)
  BY <1>1, <1>2 DEF Follows
<1> QED BY <1>3 DEF FollowedAt, v

\* A byte begins, between two reads or during one.
LEMMA BeginFollowed ==
    ASSUME NEW rd \in BOOLEAN, NEW rg \in 0..ReadGap, NEW q \in Seq(Edge), NEW u,
           NEW exp \in Seq(Payloads), Len(exp) < FifoSize, NEW t \in Ticks,
           FollowedAt(rd, rg, q, u, <<>>, 0, exp, t),
           NEW e \in Edge, Falling(e), e.lineTicks = t, NEW b \in Payloads
    PROVE  FollowedAt(rd, rg, Append(q, e), u, b, 0, Append(exp, b), t)
<1>0. rg \in Nat
  BY UartBounds
<1>1. CASE rd
  <2>1. SUFFICES ASSUME rg <= HalfBit
                 PROVE  Len(Append(q, e)) = 1
                        /\ ButOne(u, Append(q, e)[1], b, 0, Append(exp, b), t, rg)
    BY <1>1 DEF FollowedAt
  <2>2. ~ButOne(u, q[1], <<>>, 0, exp, t, rg)
    BY DEF ButOne, BeforeByte, BeforeBit
  <2>3. q = <<>> /\ Follows(u, <<>>, 0, exp, t, ReadGap + rg)
    BY <2>1, <2>2, <1>1 DEF FollowedAt
  <2>4. ButOne(u, e, b, 0, Append(exp, b), t, rg)
    BY <2>3, <1>0, BeginQueued
  <2>5. Len(Append(q, e)) = 1 /\ Append(q, e)[1] = e
    BY <2>3
  <2> QED BY <2>4, <2>5
<1>2. CASE ~rd
  <2>1. Follows(PushEdges(u, q), <<>>, 0, exp, t, rg)
    BY <1>2 DEF FollowedAt
  <2>2. Follows(PushEdge(PushEdges(u, q), e), b, 0, Append(exp, b), t, rg)
    BY <2>1, BeginPushed
  <2> QED BY <2>2, <1>2, PushedNext DEF FollowedAt
<1> QED BY <1>1, <1>2

\* A tick without an edge, between two reads or during one.
LEMMA IdleFollowed ==
    ASSUME NEW rd \in BOOLEAN, NEW rg \in 0..(ReadGap - 1), NEW q \in Seq(Edge), NEW u,
           NEW byte \in Payloads \cup {<<>>}, NEW ph \in 0..(FrameTicks - 1),
           NEW exp, NEW t \in Ticks,
           FollowedAt(rd, rg, q, u, byte, ph, exp, t), LineStays(byte, ph),
           NEW byte2, NEW ph2, TickOf(byte, ph, byte2, ph2)
    PROVE  FollowedAt(rd, rg + 1, q, u, byte2, ph2, exp, NextTicks(t))
<1>0. rg \in Nat /\ ReadGap \in Nat /\ rg < ReadGap /\ HalfBit \in Nat
  <2>1. ReadGap \in Nat
    BY UartBounds
  <2>2. HalfBit \in Nat
    BY BitTimes
  <2> QED BY <2>1, <2>2
<1>1. CASE rd
  <2>1. SUFFICES ASSUME rg + 1 <= HalfBit
                 PROVE  \/ q = <<>> /\ Follows(u, byte2, ph2, exp, NextTicks(t), ReadGap + (rg + 1))
                        \/ Len(q) = 1 /\ ButOne(u, q[1], byte2, ph2, exp, NextTicks(t), rg + 1)
    BY <1>1 DEF FollowedAt
  <2>2. rg <= HalfBit
    BY <2>1, <1>0
  <2>3. CASE q = <<>> /\ Follows(u, byte, ph, exp, t, ReadGap + rg)
    <3>1. ReadGap + rg \in 0..(2 * ReadGap) /\ (ReadGap + rg) + 1 = ReadGap + (rg + 1)
      BY <1>0
    <3>2. Follows(u, byte2, ph2, exp, NextTicks(t), (ReadGap + rg) + 1)
      BY <3>1, <2>3, TickIdle
    <3> QED BY <3>1, <3>2, <2>3
  <2>4. CASE Len(q) = 1 /\ ButOne(u, q[1], byte, ph, exp, t, rg)
    <3>1. q[1] \in Edge
      BY <2>4, PushedOne
    <3>2. /\ byte # <<>> /\ ~(BitNo(ph + 1) > StopBit)
          /\ ButOne(u, q[1], byte, ph + 1, exp, NextTicks(t), rg + 1)
      BY <3>1, <2>1, <2>4, QueuedTick
    <3>3. byte2 = byte /\ ph2 = ph + 1
      BY <3>2 DEF TickOf
    <3> QED BY <3>2, <3>3, <2>4
  <2> QED BY <2>2, <2>3, <2>4, <1>1 DEF FollowedAt
<1>2. CASE ~rd
  <2>1. Follows(PushEdges(u, q), byte, ph, exp, t, rg)
    BY <1>2 DEF FollowedAt
  <2>2. rg \in 0..(2 * ReadGap)
    BY <1>0
  <2>3. Follows(PushEdges(u, q), byte2, ph2, exp, NextTicks(t), rg + 1)
    BY <2>1, <2>2, TickIdle
  <2> QED BY <2>3, <1>2 DEF FollowedAt
<1> QED BY <1>1, <1>2

\* A tick with an edge, between two reads or during one.
LEMMA EdgeFollowed ==
    ASSUME NEW rd \in BOOLEAN, NEW rg \in 0..(ReadGap - 1), NEW q \in Seq(Edge), NEW u,
           NEW byte \in Payloads, NEW ph \in 0..(FrameTicks - 1),
           NEW exp \in Seq(Payloads), Len(exp) <= FifoSize, NEW t \in Ticks,
           FollowedAt(rd, rg, q, u, byte, ph, exp, t), ~LineStays(byte, ph),
           NEW e \in Edge, e.lineTicks = NextTicks(t), e.level = LineLevel(byte, BitNo(ph + 1))
    PROVE  FollowedAt(rd, rg + 1, Append(q, e), u, byte, ph + 1, exp, NextTicks(t))
<1>0. rg \in Nat /\ ReadGap \in Nat /\ rg < ReadGap /\ HalfBit \in Nat
  <2>1. ReadGap \in Nat
    BY UartBounds
  <2>2. HalfBit \in Nat
    BY BitTimes
  <2> QED BY <2>1, <2>2
<1>1. CASE rd
  <2>1. SUFFICES ASSUME rg + 1 <= HalfBit
                 PROVE  Len(Append(q, e)) = 1
                        /\ ButOne(u, Append(q, e)[1], byte, ph + 1, exp, NextTicks(t), rg + 1)
    BY <1>1 DEF FollowedAt
  <2>2. rg <= HalfBit
    BY <2>1, <1>0
  <2>3. ~(Len(q) = 1 /\ ButOne(u, q[1], byte, ph, exp, t, rg))
    <3>1. SUFFICES ASSUME Len(q) = 1, ButOne(u, q[1], byte, ph, exp, t, rg) PROVE FALSE
      OBVIOUS
    <3>2. q[1] \in Edge
      BY <3>1, PushedOne
    <3> QED BY <3>1, <3>2, <2>1, QueuedTick
  <2>4. q = <<>> /\ Follows(u, byte, ph, exp, t, ReadGap + rg)
    BY <2>2, <2>3, <1>1 DEF FollowedAt
  <2>5. /\ (ph + 1) - BitAt(BitNo(ph + 1)) = 0
        /\ BeforeBit(u, e, byte, ph + 1, exp, NextTicks(t))
    BY <2>4, TickEdge
  <2>6. ButOne(u, e, byte, ph + 1, exp, NextTicks(t), rg + 1)
    BY <2>5, <1>0 DEF ButOne
  <2>7. Len(Append(q, e)) = 1 /\ Append(q, e)[1] = e
    BY <2>4
  <2> QED BY <2>6, <2>7
<1>2. CASE ~rd
  <2>1. Follows(PushEdges(u, q), byte, ph, exp, t, rg)
    BY <1>2 DEF FollowedAt
  <2>2. Follows(PushEdge(PushEdges(u, q), e), byte, ph + 1, exp, NextTicks(t), rg + 1)
    BY <2>1, TickEdge
  <2> QED BY <2>2, <1>2, PushedNext DEF FollowedAt
<1> QED BY <1>1, <1>2

\* The inductive invariant: nothing was garbled, and the decoder has followed the line as far
\* as its edges were taken, unless something was lost or Poll() came too late.
UartIInv == ~disturbed => ~garbled /\ UartTypes /\ Followed

\* BeginByte keeps the invariant.
LEMMA UartBegins ==
    ASSUME UartTypes, Followed, ~garbled, BeginByte, ~disturbed'
    PROVE  (~garbled /\ UartTypes /\ Followed)'
<1>0. /\ lineTicks \in Ticks /\ readGap \in 0..ReadGap /\ reading \in BOOLEAN
      /\ edges \in Seq(Edge) /\ expected \in Seq(Payloads) /\ Len(expected) <= FifoSize
      /\ sending = <<>> /\ phase = 0
  BY DEF UartTypes, BeginByte
<1>1. /\ sending' \in Payloads /\ phase' = 0 /\ expected' = Append(expected, sending')
      /\ lineTicks' = lineTicks /\ uart' = uart /\ reading' = reading /\ readGap' = readGap
      /\ garbled' = garbled /\ edges' = PushQueue(FALSE, lineTicks)
      /\ Len(expected) # FifoSize /\ Len(edges') # Len(edges)
  BY DEF BeginByte
<1>2. PICK b \in Payloads : b = sending'
  BY <1>1
<1>3. PICK e : e = [lineTicks |-> lineTicks, level |-> FALSE]
  OBVIOUS
<1>4. e \in Edge /\ Falling(e) /\ e.lineTicks = lineTicks
  BY <1>0, <1>3 DEF Edge, Falling
<1>5. edges' = Append(edges, e)
  BY <1>1, <1>3 DEF PushQueue
<1>6. Len(expected) < FifoSize /\ FifoSize \in Nat /\ Len(expected) \in Nat
  BY <1>0, <1>1, UartBounds
<1>7. FollowedAt(reading, readGap, edges, uart, <<>>, 0, expected, lineTicks)
  BY <1>0 DEF Followed
<1>8. FollowedAt(reading, readGap, Append(edges, e), uart, b, 0, Append(expected, b), lineTicks)
  BY <1>0, <1>4, <1>6, <1>7, BeginFollowed
<1>9. Followed'
  BY <1>1, <1>2, <1>5, <1>8 DEF Followed
<1>10. Append(expected, b) \in Seq(Payloads) /\ Len(Append(expected, b)) <= FifoSize
       /\ Append(edges, e) \in Seq(Edge)
  BY <1>0, <1>4, <1>6
<1>11. 0 \in 0..(FrameTicks - 1)
  BY UartBounds, BitTimes
<1>12. UartTypes'
  <2>1. sending' # <<>>
    BY <1>1, NoByte
  <2> QED BY <1>0, <1>1, <1>2, <1>5, <1>10, <1>11, <2>1 DEF UartTypes
<1> QED BY <1>1, <1>9, <1>12

\* LineTick keeps the invariant.
LEMMA UartTicks ==
    ASSUME UartTypes, Followed, ~garbled, LineTick, ~disturbed'
    PROVE  (~garbled /\ UartTypes /\ Followed)'
<1>0. /\ lineTicks \in Ticks /\ readGap \in 0..ReadGap /\ reading \in BOOLEAN
      /\ edges \in Seq(Edge) /\ expected \in Seq(Payloads) /\ Len(expected) <= FifoSize
      /\ sending \in Payloads \cup {<<>>} /\ phase \in 0..(FrameTicks - 1)
      /\ sending = <<>> => phase = 0
  BY DEF UartTypes
<1>1. /\ readGap < ReadGap /\ lineTicks' = NextTicks(lineTicks) /\ readGap' = readGap + 1
      /\ TickOf(sending, phase, sending', phase')
      /\ uart' = uart /\ reading' = reading /\ expected' = expected /\ garbled' = garbled
  BY DEF LineTick, NextTicks, TickOf, BitNo
<1>2. LineStays(sending, phase) => edges' = edges
  <2>1. phase + 1 \in Nat /\ StopBit \in Nat
    BY <1>0, UartBounds
  <2>2. BitNo(phase + 1) \in Nat
    BY <2>1, BitOf DEF BitNo
  <2>3. BitNo(phase + 1) > StopBit => ~(BitNo(phase + 1) <= StopBit)
    BY <2>1, <2>2
  <2> QED BY <2>3 DEF LineTick, LineStays, BitNo
<1>3. ~LineStays(sending, phase) =>
          /\ edges' = PushQueue(LineLevel(sending, BitNo(phase + 1)), lineTicks')
          /\ Len(edges') # Len(edges) /\ sending \in Payloads
  <2>1. SUFFICES ASSUME ~LineStays(sending, phase)
                 PROVE  /\ edges' = PushQueue(LineLevel(sending, BitNo(phase + 1)), lineTicks')
                        /\ Len(edges') # Len(edges) /\ sending \in Payloads
    OBVIOUS
  <2>2. /\ sending # <<>> /\ ~(BitNo(phase + 1) > StopBit)
        /\ LineLevel(sending, BitNo(phase + 1)) # LineLevel(sending, BitNo(phase))
    BY <2>1 DEF LineStays
  <2>3. BitNo(phase + 1) <= StopBit
    <3>1. phase + 1 \in Nat /\ StopBit \in Nat
      BY <1>0, UartBounds
    <3>2. BitNo(phase + 1) \in Nat
      BY <3>1, BitOf DEF BitNo
    <3> QED BY <3>1, <3>2, <2>2
  <2> QED BY <2>2, <2>3, <1>0 DEF LineTick, BitNo
<1>4. readGap \in 0..(ReadGap - 1) /\ readGap + 1 \in 0..ReadGap
  BY <1>0, <1>1, UartBounds
<1>5. NextTicks(lineTicks) \in Ticks
  BY <1>0, NextTick DEF NextTicks
<1>6. FollowedAt(reading, readGap, edges, uart, sending, phase, expected, lineTicks)
  BY DEF Followed
<1>7. sending' \in Payloads \cup {<<>>} /\ phase' \in 0..(FrameTicks - 1)
      /\ (sending' = <<>> => phase' = 0)
  <2>1. 0 \in 0..(FrameTicks - 1)
    BY UartBounds, BitTimes
  <2>2. CASE sending = <<>> \/ BitNo(phase + 1) > StopBit
    BY <2>1, <2>2, <1>1 DEF TickOf
  <2>3. CASE ~(sending = <<>> \/ BitNo(phase + 1) > StopBit)
    <3>1. sending' = sending /\ phase' = phase + 1 /\ sending # <<>>
      BY <2>3, <1>1 DEF TickOf
    <3>2. BitNo(phase + 1) <= StopBit
      <4>1. phase + 1 \in Nat /\ StopBit \in Nat
        BY <1>0, UartBounds
      <4>2. BitNo(phase + 1) \in Nat
        BY <4>1, BitOf DEF BitNo
      <4> QED BY <4>1, <4>2, <2>3
    <3>3. phase + 1 \in 0..(FrameTicks - 1)
      BY <3>2, <1>0, NextBit
    <3> QED BY <3>1, <3>3, <1>0
  <2> QED BY <2>2, <2>3
<1>8. CASE LineStays(sending, phase)
  <2>1. FollowedAt(reading, readGap + 1, edges, uart, sending', phase', expected, NextTicks(lineTicks))
    BY <1>0, <1>1, <1>4, <1>6, <1>8, IdleFollowed
  <2>2. Followed'
    BY <2>1, <1>1, <1>2, <1>8 DEF Followed
  <2>3. UartTypes'
    BY <1>0, <1>1, <1>2, <1>4, <1>5, <1>7, <1>8 DEF UartTypes
  <2> QED BY <2>2, <2>3, <1>1
<1>9. CASE ~LineStays(sending, phase)
  <2>1. PICK e : e = [lineTicks |-> NextTicks(lineTicks), level |-> LineLevel(sending, BitNo(phase + 1))]
    OBVIOUS
  <2>2. e \in Edge /\ e.lineTicks = NextTicks(lineTicks)
        /\ e.level = LineLevel(sending, BitNo(phase + 1)) /\ sending \in Payloads
    <3>1. LineLevel(sending, BitNo(phase + 1)) \in BOOLEAN
      BY DEF LineLevel
    <3>2. sending \in Payloads
      BY <1>3, <1>9
    <3> QED BY <3>1, <3>2, <2>1, <1>5 DEF Edge
  <2>3. edges' = Append(edges, e)
    BY <2>1, <1>1, <1>3, <1>9 DEF PushQueue
  <2>4. FollowedAt(reading, readGap + 1, Append(edges, e), uart, sending, phase + 1, expected,
                   NextTicks(lineTicks))
    BY <2>2, <1>0, <1>4, <1>6, <1>9, EdgeFollowed
  <2>5. sending' = sending /\ phase' = phase + 1
    BY <1>1, <1>9 DEF LineStays, TickOf
  <2>6. Followed'
    BY <2>3, <2>4, <2>5, <1>1 DEF Followed
  <2>7. Append(edges, e) \in Seq(Edge)
    BY <2>2, <1>0
  <2>8. UartTypes'
    BY <2>3, <2>7, <1>0, <1>1, <1>4, <1>5, <1>7 DEF UartTypes
  <2> QED BY <2>6, <2>8, <1>1
<1> QED BY <1>8, <1>9

\* PopEdges keeps the invariant.
LEMMA UartPops ==
    ASSUME UartTypes, Followed, ~garbled, PopEdges
    PROVE  (~garbled /\ UartTypes /\ Followed)'
<1>1. /\ reading = FALSE /\ uart' = PushEdges(uart, edges)
      /\ edges' = <<>> /\ readGap' = 0 /\ reading' = TRUE
      /\ lineTicks' = lineTicks /\ sending' = sending /\ phase' = phase
      /\ expected' = expected /\ garbled' = garbled /\ readGap \in 0..ReadGap
  BY DEF PopEdges, UartTypes
<1>2. FollowedAt(FALSE, readGap, edges, uart, sending, phase, expected, lineTicks)
  BY <1>1 DEF Followed
<1>3. FollowedAt(TRUE, 0, <<>>, PushEdges(uart, edges), sending, phase, expected, lineTicks)
  BY <1>1, <1>2, PopFollowed
<1>4. Followed'
  BY <1>1, <1>3 DEF Followed
<1>5. UartTypes'
  <2>1. <<>> \in Seq(Edge) /\ 0 \in 0..ReadGap
    BY UartBounds
  <2> QED BY <2>1, <1>1 DEF UartTypes
<1> QED BY <1>1, <1>4, <1>5

Parts(s, r, exp) ==
    /\ ~(Len(s) > Len(exp)) /\ SubSeq(exp, 1, Len(s)) = s
    /\ SubSeq(exp, Len(s) + 1, Len(exp)) = r /\ Len(r) <= Len(exp)

\* What Poll() takes of the bytes sent, and what it leaves.
LEMMA Parted ==
    ASSUME NEW s \in Seq(Payloads), NEW r \in Seq(Payloads)
    PROVE  Parts(s, r, s \o r)
<1>1. Len(s) \in Nat /\ Len(r) \in Nat /\ Len(s \o r) = Len(s) + Len(r)
  OBVIOUS
<1>2. SubSeq(s \o r, 1, Len(s)) = s
  OBVIOUS
<1>3. SubSeq(s \o r, Len(s) + 1, Len(s \o r)) = r
  OBVIOUS
<1> QED BY <1>1, <1>2, <1>3 DEF Parts

\* PollLine keeps the invariant, and takes the bytes that were sent.
LEMMA UartPolls ==
    ASSUME UartTypes, Followed, ~garbled, PollLine, ~disturbed'
    PROVE  (~garbled /\ UartTypes /\ Followed)'
<1>0. /\ lineTicks \in Ticks /\ readGap \in 0..ReadGap /\ reading \in BOOLEAN
      /\ edges \in Seq(Edge) /\ expected \in Seq(Payloads) /\ Len(expected) <= FifoSize
      /\ sending \in Payloads \cup {<<>>} /\ phase \in 0..(FrameTicks - 1)
      /\ sending = <<>> => phase = 0
  BY DEF UartTypes
<1>1. PICK x : x = SampleUntil(uart, lineTicks)
  OBVIOUS
<1>2. PICK y : y = [x EXCEPT !.fifo = <<>>]
  OBVIOUS
<1>3. PICK n : n = Len(x.fifo)
  OBVIOUS
<1>4. /\ reading = TRUE /\ uart' = y /\ reading' = FALSE
      /\ garbled' = (garbled \/ n > Len(expected) \/ SubSeq(expected, 1, n) # x.fifo)
      /\ expected' = SubSeq(expected, n + 1, Len(expected))
      /\ lineTicks' = lineTicks /\ sending' = sending /\ phase' = phase
      /\ edges' = edges /\ readGap' = readGap
  BY <1>0, <1>1, <1>2, <1>3 DEF PollLine
<1>5. readGap <= HalfBit
  <2>1. ~(readGap > BitTicks \div 2)
    BY DEF PollLine
  <2>2. ~(readGap > HalfBit)
    BY <2>1 DEF HalfBit
  <2>3. readGap \in Nat /\ HalfBit \in Nat
    BY <1>0, UartBounds, BitTimes
  <2> QED BY <2>2, <2>3
<1>6. FollowedAt(TRUE, readGap, edges, uart, sending, phase, expected, lineTicks)
  BY <1>4 DEF Followed
<1>7. PICK rest \in Seq(Payloads) :
         /\ x.fifo \in Seq(Payloads) /\ expected = x.fifo \o rest
         /\ FollowedAt(FALSE, readGap, edges, y, sending, phase, rest, lineTicks)
  <2>1. Left(x, y, edges, sending, phase, expected, lineTicks, readGap)
    BY <1>0, <1>1, <1>2, <1>5, <1>6, PollFollowed
  <2> QED BY <2>1 DEF Left
<1>8. /\ ~(n > Len(expected)) /\ SubSeq(expected, 1, n) = x.fifo
      /\ SubSeq(expected, n + 1, Len(expected)) = rest /\ Len(rest) <= Len(expected)
  <2>1. Parts(x.fifo, rest, expected)
    BY <1>7, Parted
  <2> QED BY <2>1, <1>3 DEF Parts
<1>9. garbled' = FALSE /\ expected' = rest
  BY <1>4, <1>8
<1>10. Followed'
  BY <1>4, <1>7, <1>9 DEF Followed
<1>11. Len(rest) <= FifoSize
  BY <1>0, <1>8, UartBounds
<1>12. UartTypes'
  BY <1>0, <1>4, <1>9, <1>11 DEF UartTypes
<1> QED BY <1>9, <1>10, <1>12

\* The invariant holds of an idle line.
LEMMA UartStarts == UartInit => UartIInv
<1>1. SUFFICES ASSUME UartInit PROVE ~garbled /\ UartTypes /\ Followed
  BY DEF UartIInv
<1>2. /\ lineTicks = 0 /\ sending = <<>> /\ phase = 0 /\ edges = <<>>
      /\ uart = [level |-> TRUE, inFrame |-> FALSE, start |-> 0, bit |-> 0,
                 data |-> [k \in 1..DataBits |-> FALSE], fifo |-> <<>>]
      /\ reading = FALSE /\ readGap = 0 /\ expected = <<>> /\ garbled = FALSE
  BY <1>1 DEF UartInit
<1>3. 0 \in Ticks /\ 0 \in 0..ReadGap /\ 0 \in 0..(FrameTicks - 1) /\ 0 <= FifoSize
  <2>1. TickModulus \in Nat /\ TickModulus > 0 /\ ReadGap \in Nat /\ FifoSize \in Nat
    BY UartBounds
  <2>2. FrameTicks \in Nat /\ FrameTicks > 0
    BY UartBounds, BitTimes
  <2> QED BY <2>1, <2>2 DEF Ticks
<1>4. UartTypes
  <2>1. <<>> \in Seq(Edge) /\ <<>> \in Seq(Payloads) /\ Len(<<>>) = 0
    OBVIOUS
  <2> QED BY <2>1, <1>2, <1>3 DEF UartTypes
<1>5. Closed(uart) /\ uart.fifo = <<>>
  BY <1>2 DEF Closed, Decoder, Fields
<1>6. Follows(uart, <<>>, 0, <<>>, 0, 0)
  BY <1>5 DEF Follows, HasAll
<1>7. Followed
  BY <1>2, <1>6, PushedNone DEF Followed, FollowedAt
<1> QED BY <1>2, <1>4, <1>7

\* However the ticks of the line, the edges, the reads of the thread and its preemptions
\* interleave, and wherever the counter wraps: the bytes taken by ReadDisplay() are the bytes
\* the display sent, in order, as long as no queue overflows and Poll() comes within half a bit
\* (EdgeUartDecoder::PushEdge, SampleUntil, Poll).
THEOREM UartCorrect == UartSpec => []BytesAsSent
<1>1. UartInit => UartIInv
  BY UartStarts
<1>2. UartIInv /\ [UartNext]_uartVars => UartIInv'
  <2>1. SUFFICES ASSUME UartIInv, [UartNext]_uartVars, ~disturbed'
                 PROVE  (~garbled /\ UartTypes /\ Followed)'
    BY DEF UartIInv
  <2>2. CASE UNCHANGED uartVars
    <3>1. ~disturbed
      BY <2>1, <2>2 DEF uartVars
    <3>2. ~garbled /\ UartTypes /\ Followed
      BY <3>1, <2>1 DEF UartIInv
    <3> QED BY <3>2, <2>2 DEF uartVars, UartTypes, Followed
  <2>3. CASE UartNext
    <3>1. ~garbled /\ UartTypes /\ Followed
      BY <2>1, <2>3 DEF UartIInv, UartNext
    <3> QED BY <3>1, <2>1, <2>3, UartBegins, UartTicks, UartPops, UartPolls DEF UartNext
  <2> QED BY <2>1, <2>2, <2>3
<1>3. UartIInv => BytesAsSent
  BY DEF UartIInv, BytesAsSent
<1> QED BY <1>1, <1>2, <1>3, PTL DEF UartSpec

=============================================================================
