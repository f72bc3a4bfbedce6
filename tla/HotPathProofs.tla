---------------------------- MODULE HotPathProofs ----------------------------
(***************************************************************************)
(* Proofs about HotPath, for any number of control cycles, any width of    *)
(* the sequence counter and any overlap it can tell apart.                 *)
(***************************************************************************)
EXTENDS HotPath, TLAPS

\* The members keep their types; angles are numbers of observer runs.
TypeInv ==
    /\ active \in Buffers /\ finished \in Buffers /\ observerBuffer \in Buffers
    /\ sc \in [Buffers -> Nat] /\ scOut \in [Buffers -> Nat] /\ sample \in [Buffers -> Nat]
    /\ pending \in BOOLEAN /\ irq \in BOOLEAN /\ wake \in BOOLEAN
    /\ overruns \in Nat /\ cycles \in Nat /\ reused \in Nat /\ torn \in Nat
    /\ used \in [sc : Int, out : Int]
    /\ pc \in Steps /\ mean \in Nat /\ runs \in Nat
    /\ sequence \in 0..(SequenceModulus - 1) /\ estimate \in [angle : Nat, speed : Nat]
    /\ observerCycles \in Nat
    /\ thread \in StepPcs /\ before \in 0..(SequenceModulus - 1)
    /\ copy \in [angle : Nat, speed : Nat]
    /\ overlap \in 0..MaxOverlap
    /\ refs \in [Buffers -> [d : 0..2, q : 0..2]] /\ refActive \in Buffers
    /\ steps \in 0..2 /\ ref \in [d : 0..2, q : 0..2]

\* While the observer writes, the buffer it has read is the active one, so that it
\* writes the other; what a finished cycle left behind is in the active buffer, except
\* between the flip and the clearing of observer_pending.
BufferInv ==
    /\ pc \in {"samples", "sc", "sc_out", "flip"} => active = finished
    /\ pc \in {"samples", "sc", "sc_out", "flip", "clear"} => pending
    /\ pending /\ pc # "clear" => observerBuffer = active

\* The active buffer has the angles of the last run in both halves, the other one gets
\* the angles of the next.
AngleInv ==
    /\ sc[active] = runs /\ scOut[active] = runs
    /\ pc \in {"sc_out", "flip"} => sc[1 - finished] = runs + 1
    /\ pc = "flip" => scOut[1 - finished] = runs + 1
    /\ used.sc = used.out /\ used.sc <= runs

\* The slot of the mailbox that is not active is written, the active one is whole.
RefInv ==
    /\ refs[refActive].d = refs[refActive].q
    /\ thread \in {"q", "flip"} => refs[1 - refActive].d = steps
    /\ thread = "flip" => refs[1 - refActive].q = steps
    /\ ref.d = ref.q

\* An overrun in the window between flip and clear pays for the cycle after it, which
\* reuses its angles without finding observer_pending set; an overrun during the read
\* of the samples pays for their mix.
OverrunInv ==
    /\ cycles - runs - (IF pending /\ pc # "clear" THEN 1 ELSE 0) <= overruns
    /\ reused + (IF used.sc = runs /\ (pc = "clear" \/ ~pending) THEN 1 ELSE 0) <= overruns
    /\ torn + (IF pc = "samples" /\ sample[finished] # mean THEN 1 ELSE 0) <= overruns

\* What may still be published, or has been, since the control thread read the sequence
\* is at most the number of control cycles since.
Outstanding == (IF irq THEN 1 ELSE 0) + (IF pc # "idle" THEN 1 ELSE 0)

\* k writes since the sequence was read: it is k writes ahead, and without one the words
\* that are copied are those of the estimate.
CopyInv ==
    /\ estimate.angle = estimate.speed
    /\ thread \in Copying =>
        \E k \in 0..MaxOverlap :
            /\ k + Outstanding <= overlap
            /\ sequence \in {before + 2 * k, before + 2 * k - SequenceModulus}
            /\ k = 0 /\ thread \in {"second", "check"} => copy.angle = estimate.angle
            /\ k = 0 /\ thread = "check" => copy.speed = estimate.speed

IInv == TypeInv /\ BufferInv /\ AngleInv /\ RefInv /\ OverrunInv /\ CopyInv

-----------------------------------------------------------------------------
(* What the contexts leave alone, and how the sequence moves               *)

\* The control thread leaves the control cycle and the observer alone.
LEMMA ThreadLeaves ==
    Step => UNCHANGED <<active, sc, scOut, sample, pending, observerBuffer, cycleVars,
                        observerVars, irq, sequence, estimate, observerCycles, ref>>
BY DEF Step, TakeWake, ReadSequence, CopyAngle, CopySpeed, CheckSequence, WriteRefD,
       WriteRefQ, FlipRef, ThreadRuns

\* The observer leaves the control thread and the control cycle alone.
LEMMA ObserverLeaves ==
    Observer => UNCHANGED <<sample, observerBuffer, cycleVars, threadVars, overlap, ref>>
BY DEF Observer, ObserverIsr, ReadSamples, WriteAngles, WriteOutputAngles, Flip,
       ClearPending, Publish, observerVars, lockVars

\* A write moves the sequence on by two, through zero at its end.
LEMMA SequenceMoves ==
    ASSUME NEW m \in Nat, m > 2, NEW s \in 0..(m - 1)
    PROVE  /\ (s + 2) % m \in 0..(m - 1)
           /\ (s + 2) % m = IF s + 2 < m THEN s + 2 ELSE s + 2 - m
<1>1. CASE s + 2 < m
  BY <1>1, SMT
<1>2. CASE s + 2 >= m
  BY <1>2, SMT
<1> QED
  BY <1>1, <1>2

-----------------------------------------------------------------------------
(* Every step keeps the parts of the invariant                             *)

LEMMA TypeStep ==
    ASSUME TypeInv, [Next]_vars PROVE TypeInv'
<1> USE HotPathAssumption DEF TypeInv, Buffers, Steps, StepPcs, Copying
<1>1. CASE OnControlCycle
  BY <1>1 DEF OnControlCycle, Boundary, cycleVars, observerVars, lockVars, threadVars
<1>2. CASE OnControlCycleBypassed
  BY <1>2 DEF OnControlCycleBypassed, Boundary, cycleVars, observerVars, lockVars,
     threadVars
<1>3. CASE ObserverIsr
  BY <1>3, ZenonT(60) DEF ObserverIsr, cycleVars, observerVars, lockVars, threadVars
<1>4. CASE ReadSamples
  BY <1>4 DEF ReadSamples, cycleVars, observerVars, lockVars, threadVars
<1>5. CASE WriteAngles
  BY <1>5 DEF WriteAngles, cycleVars, observerVars, lockVars, threadVars
<1>6. CASE WriteOutputAngles
  BY <1>6 DEF WriteOutputAngles, cycleVars, observerVars, lockVars, threadVars
<1>7. CASE Flip
  BY <1>7 DEF Flip, cycleVars, observerVars, lockVars, threadVars
<1>8. CASE ClearPending
  BY <1>8, ZenonT(60) DEF ClearPending, cycleVars, observerVars, lockVars, threadVars
<1>9. CASE Publish
  BY <1>9 DEF Publish, cycleVars, observerVars, lockVars, threadVars
<1>10. CASE TakeWake
  BY <1>10 DEF TakeWake, ThreadRuns, cycleVars, observerVars, lockVars, threadVars
<1>11. CASE ReadSequence
  BY <1>11 DEF ReadSequence, ThreadRuns, cycleVars, observerVars, lockVars, threadVars
<1>12. CASE CopyAngle
  BY <1>12 DEF CopyAngle, ThreadRuns, cycleVars, observerVars, lockVars, threadVars
<1>13. CASE CopySpeed
  BY <1>13 DEF CopySpeed, ThreadRuns, cycleVars, observerVars, lockVars, threadVars
<1>14. CASE CheckSequence
  BY <1>14 DEF CheckSequence, ThreadRuns, cycleVars, observerVars, lockVars, threadVars
<1>15. CASE WriteRefD
  <2>1. (steps + 1) % 3 \in 0..2
    BY SMT
  <2>2. /\ refs' \in [Buffers -> [d : 0..2, q : 0..2]] /\ steps' \in 0..2
        /\ thread' \in StepPcs
    BY <1>15, <2>1 DEF WriteRefD, ThreadRuns
  <2> QED
    BY <1>15, <2>2 DEF WriteRefD, ThreadRuns, cycleVars, observerVars, lockVars,
       threadVars
<1>16. CASE WriteRefQ
  BY <1>16 DEF WriteRefQ, ThreadRuns, cycleVars, observerVars, lockVars, threadVars
<1>17. CASE FlipRef
  BY <1>17 DEF FlipRef, ThreadRuns, cycleVars, observerVars, lockVars, threadVars
<1>18. CASE UNCHANGED vars
  BY <1>18 DEF vars, cycleVars, observerVars, lockVars, threadVars
<1> QED
  BY <1>1, <1>2, <1>3, <1>4, <1>5, <1>6, <1>7, <1>8, <1>9, <1>10, <1>11, <1>12, <1>13,
     <1>14, <1>15, <1>16, <1>17, <1>18 DEF Next, Observer, Step

LEMMA BufferStep ==
    ASSUME TypeInv, BufferInv, [Next]_vars PROVE BufferInv'
<1> USE DEF TypeInv, BufferInv, Buffers
<1>1. CASE OnControlCycle
  BY <1>1 DEF OnControlCycle, Boundary, cycleVars, observerVars
<1>2. CASE OnControlCycleBypassed
  BY <1>2 DEF OnControlCycleBypassed, Boundary, cycleVars, observerVars
<1>3. CASE ObserverIsr
  BY <1>3 DEF ObserverIsr, cycleVars, observerVars
<1>4. CASE ReadSamples
  BY <1>4 DEF ReadSamples, cycleVars, observerVars
<1>5. CASE WriteAngles
  BY <1>5 DEF WriteAngles, cycleVars, observerVars
<1>6. CASE WriteOutputAngles
  BY <1>6 DEF WriteOutputAngles, cycleVars, observerVars
<1>7. CASE Flip
  BY <1>7 DEF Flip, cycleVars, observerVars
<1>8. CASE ClearPending
  BY <1>8 DEF ClearPending, cycleVars, observerVars
<1>9. CASE Publish
  BY <1>9 DEF Publish, cycleVars, observerVars
<1>10. CASE Step
  BY <1>10, ThreadLeaves DEF cycleVars, observerVars
<1>11. CASE UNCHANGED vars
  BY <1>11 DEF vars, cycleVars, observerVars
<1> QED
  BY <1>1, <1>2, <1>3, <1>4, <1>5, <1>6, <1>7, <1>8, <1>9, <1>10, <1>11 DEF Next,
     Observer

LEMMA AngleStep ==
    ASSUME TypeInv, BufferInv, AngleInv, [Next]_vars PROVE AngleInv'
<1> USE DEF TypeInv, BufferInv, AngleInv, Buffers
<1>1. CASE OnControlCycle
  BY <1>1 DEF OnControlCycle, Boundary, cycleVars, observerVars
<1>2. CASE OnControlCycleBypassed
  BY <1>2 DEF OnControlCycleBypassed, Boundary, cycleVars, observerVars
<1>3. CASE ObserverIsr
  BY <1>3 DEF ObserverIsr, cycleVars, observerVars
<1>4. CASE ReadSamples
  BY <1>4 DEF ReadSamples, cycleVars, observerVars
<1>5. CASE WriteAngles
  BY <1>5 DEF WriteAngles, cycleVars, observerVars
<1>6. CASE WriteOutputAngles
  BY <1>6 DEF WriteOutputAngles, cycleVars, observerVars
<1>7. CASE Flip
  BY <1>7 DEF Flip, cycleVars, observerVars
<1>8. CASE ClearPending
  BY <1>8 DEF ClearPending, cycleVars, observerVars
<1>9. CASE Publish
  BY <1>9 DEF Publish, cycleVars, observerVars
<1>10. CASE Step
  BY <1>10, ThreadLeaves DEF cycleVars, observerVars
<1>11. CASE UNCHANGED vars
  BY <1>11 DEF vars, cycleVars, observerVars
<1> QED
  BY <1>1, <1>2, <1>3, <1>4, <1>5, <1>6, <1>7, <1>8, <1>9, <1>10, <1>11 DEF Next,
     Observer

LEMMA OverrunStep ==
    ASSUME TypeInv, BufferInv, AngleInv, OverrunInv, [Next]_vars PROVE OverrunInv'
<1> USE DEF TypeInv, BufferInv, AngleInv, OverrunInv, Buffers
<1>1. CASE OnControlCycle
  BY <1>1 DEF OnControlCycle, Boundary, cycleVars, observerVars
<1>2. CASE OnControlCycleBypassed
  BY <1>2 DEF OnControlCycleBypassed, Boundary, cycleVars, observerVars
<1>3. CASE ObserverIsr
  BY <1>3 DEF ObserverIsr, cycleVars, observerVars
<1>4. CASE ReadSamples
  BY <1>4 DEF ReadSamples, cycleVars, observerVars
<1>5. CASE WriteAngles
  BY <1>5 DEF WriteAngles, cycleVars, observerVars
<1>6. CASE WriteOutputAngles
  BY <1>6 DEF WriteOutputAngles, cycleVars, observerVars
<1>7. CASE Flip
  BY <1>7 DEF Flip, cycleVars, observerVars
<1>8. CASE ClearPending
  BY <1>8 DEF ClearPending, cycleVars, observerVars
<1>9. CASE Publish
  BY <1>9 DEF Publish, cycleVars, observerVars
<1>10. CASE Step
  BY <1>10, ThreadLeaves DEF cycleVars, observerVars
<1>11. CASE UNCHANGED vars
  BY <1>11 DEF vars, cycleVars, observerVars
<1> QED
  BY <1>1, <1>2, <1>3, <1>4, <1>5, <1>6, <1>7, <1>8, <1>9, <1>10, <1>11 DEF Next,
     Observer

LEMMA RefStep ==
    ASSUME TypeInv, RefInv, [Next]_vars PROVE RefInv'
<1> USE DEF TypeInv, RefInv, Buffers
<1>1. CASE OnControlCycle \/ OnControlCycleBypassed
  BY <1>1 DEF OnControlCycle, OnControlCycleBypassed, Boundary, threadVars
<1>2. CASE Observer
  BY <1>2, ObserverLeaves DEF threadVars
<1>3. CASE TakeWake \/ ReadSequence \/ CopyAngle \/ CopySpeed \/ CheckSequence
  BY <1>3 DEF TakeWake, ReadSequence, CopyAngle, CopySpeed, CheckSequence, ThreadRuns
<1>4. CASE WriteRefD
  BY <1>4 DEF WriteRefD, ThreadRuns
<1>5. CASE WriteRefQ
  BY <1>5 DEF WriteRefQ, ThreadRuns
<1>6. CASE FlipRef
  BY <1>6 DEF FlipRef, ThreadRuns
<1>7. CASE UNCHANGED vars
  BY <1>7 DEF vars, threadVars
<1> QED
  BY <1>1, <1>2, <1>3, <1>4, <1>5, <1>6, <1>7 DEF Next, Step

LEMMA CopyStep ==
    ASSUME TypeInv, TypeInv', CopyInv, [Next]_vars PROVE CopyInv'
<1> DEFINE Behind(k) ==
        /\ k + Outstanding <= overlap
        /\ sequence \in {before + 2 * k, before + 2 * k - SequenceModulus}
        /\ k = 0 /\ thread \in {"second", "check"} => copy.angle = estimate.angle
        /\ k = 0 /\ thread = "check" => copy.speed = estimate.speed
<1>0. /\ estimate.angle = estimate.speed
      /\ thread \in Copying => \E k \in 0..MaxOverlap : Behind(k)
  BY DEF CopyInv
<1> SUFFICES /\ estimate'.angle = estimate'.speed
             /\ thread' \in Copying => \E k \in 0..MaxOverlap : Behind(k)'
  BY DEF CopyInv
<1>1. CASE OnControlCycle \/ OnControlCycleBypassed
  <2>1. /\ UNCHANGED <<pc, lockVars, threadVars>> /\ irq'
        /\ thread \in Copying => overlap' = overlap + 1
    BY <1>1 DEF OnControlCycle, OnControlCycleBypassed, Boundary, observerVars
  <2>2. ASSUME NEW k \in 0..MaxOverlap, thread \in Copying, Behind(k) PROVE Behind(k)'
    BY <2>1, <2>2 DEF TypeInv, Outstanding, lockVars, threadVars
  <2> QED
    BY <1>0, <2>1, <2>2 DEF lockVars, threadVars
<1>2. CASE ObserverIsr
  <2>1. /\ UNCHANGED <<lockVars, threadVars, overlap>>
        /\ irq /\ ~irq' /\ pc = "idle"
    BY <1>2 DEF ObserverIsr
  <2>2. ASSUME NEW k \in 0..MaxOverlap, Behind(k) PROVE Behind(k)'
    BY <2>1, <2>2 DEF TypeInv, Outstanding, lockVars, threadVars
  <2> QED
    BY <1>0, <2>1, <2>2 DEF lockVars, threadVars
<1>3. CASE ReadSamples \/ WriteAngles \/ WriteOutputAngles \/ Flip \/ ClearPending
  <2>1. UNCHANGED <<lockVars, threadVars, overlap, irq>> /\ pc # "idle" /\ pc' # "idle"
    BY <1>3 DEF ReadSamples, WriteAngles, WriteOutputAngles, Flip, ClearPending
  <2> QED
    BY <1>0, <2>1 DEF Outstanding, lockVars, threadVars
<1>4. CASE Publish
  <2>1. /\ UNCHANGED <<irq, threadVars, overlap>>
        /\ pc # "idle" /\ pc' = "idle"
        /\ sequence' = (sequence + 2) % SequenceModulus
        /\ estimate' = [angle |-> runs, speed |-> runs]
    BY <1>4 DEF Publish
  <2>2. ASSUME NEW k \in 0..MaxOverlap, Behind(k)
        PROVE  k + 1 \in 0..MaxOverlap /\ Behind(k + 1)'
    <3>1. k + 1 + Outstanding' <= overlap' /\ overlap \in 0..MaxOverlap
      BY <2>1, <2>2 DEF TypeInv, Outstanding
    <3>2. k + 1 \in 0..MaxOverlap
      BY <2>1, <3>1, HotPathAssumption DEF Outstanding
    <3>3. sequence' \in {before + 2 * (k + 1), before + 2 * (k + 1) - SequenceModulus}
      <4>1. SequenceModulus \in Nat /\ SequenceModulus > 2
        BY <3>2, HotPathAssumption
      <4>2. sequence' = IF sequence + 2 < SequenceModulus THEN sequence + 2
                        ELSE sequence + 2 - SequenceModulus
        BY <2>1, <4>1, SequenceMoves DEF TypeInv
      <4> QED
        BY <2>2, <3>2, <4>1, <4>2, HotPathAssumption DEF TypeInv
    <3> QED
      BY <2>1, <3>1, <3>2, <3>3 DEF threadVars
  <2> QED
    BY <1>0, <2>1, <2>2 DEF threadVars
<1>5. CASE ReadSequence
  <2>1. Behind(0)'
    BY <1>5 DEF ReadSequence, ThreadRuns, TypeInv, Outstanding, observerVars
  <2> QED
    BY <1>0, <1>5, <2>1, HotPathAssumption DEF ReadSequence, ThreadRuns
<1>6. CASE CopyAngle
  BY <1>0, <1>6 DEF CopyAngle, ThreadRuns, Copying, TypeInv, Outstanding, observerVars
<1>7. CASE CopySpeed
  BY <1>0, <1>7 DEF CopySpeed, ThreadRuns, Copying, TypeInv, Outstanding, observerVars
<1>8. CASE TakeWake \/ CheckSequence \/ WriteRefD \/ WriteRefQ \/ FlipRef
  BY <1>0, <1>8 DEF TakeWake, CheckSequence, WriteRefD, WriteRefQ, FlipRef, ThreadRuns,
                    Copying
<1>9. CASE UNCHANGED vars
  BY <1>0, <1>9 DEF vars, Outstanding, observerVars, lockVars, threadVars
<1> QED
  BY <1>1, <1>2, <1>3, <1>4, <1>5, <1>6, <1>7, <1>8, <1>9 DEF Next, Observer, Step

-----------------------------------------------------------------------------
(* Theorems                                                                *)

\* The inductive invariant: it holds initially and every step of the three contexts
\* keeps it.
LEMMA Invariance == Spec => []IInv
<1>1. Init => IInv
  <2> SUFFICES ASSUME Init PROVE IInv
    OBVIOUS
  <2> USE DEF Init, Buffers
  <2>1. TypeInv
    <3>1. refs \in [Buffers -> [d : 0..2, q : 0..2]] /\ ref \in [d : 0..2, q : 0..2]
      OBVIOUS
    <3>2. used \in [sc : Int, out : Int]
      BY DEF NoAngles
    <3>3. 0 \in 0..(SequenceModulus - 1) /\ 0 \in 0..MaxOverlap
      BY HotPathAssumption
    <3>4. estimate \in [angle : Nat, speed : Nat] /\ copy \in [angle : Nat, speed : Nat]
      OBVIOUS
    <3>5. /\ sc \in [Buffers -> Nat] /\ scOut \in [Buffers -> Nat]
          /\ sample \in [Buffers -> Nat]
      OBVIOUS
    <3> QED
      BY <3>1, <3>2, <3>3, <3>4, <3>5 DEF TypeInv, Steps, StepPcs, Copying
  <2>2. BufferInv /\ AngleInv /\ OverrunInv
    BY DEF BufferInv, AngleInv, OverrunInv, NoAngles
  <2>3. RefInv /\ CopyInv
    BY DEF RefInv, CopyInv, Copying
  <2> QED
    BY <2>1, <2>2, <2>3 DEF IInv
<1>2. IInv /\ [Next]_vars => IInv'
  BY TypeStep, BufferStep, AngleStep, RefStep, OverrunStep, CopyStep DEF IInv
<1> QED
  BY <1>1, <1>2, PTL DEF Spec

\* Buffers, counters and the places of the three contexts keep their types, whatever
\* the width of the sequence counter.
THEOREM TypeCorrect == Spec => []TypeInv
<1>1. IInv => TypeInv
  BY DEF IInv
<1> QED
  BY <1>1, Invariance, PTL

\* The control cycle works on whole angles and on a whole reference, although it preempts
\* both of their writers anywhere.
THEOREM WholeSeen == Spec => []CycleSeesWhole
<1>1. IInv => CycleSeesWhole
  BY DEF IInv, AngleInv, RefInv, CycleSeesWhole
<1> QED
  BY <1>1, Invariance, PTL

\* observer_overruns accounts for every control cycle without an observer run, for every
\* reuse of angles and for every mix of samples.
THEOREM EveryLossCounted == Spec => []LossesCounted
<1>1. IInv => LossesCounted
  BY DEF IInv, TypeInv, OverrunInv, LossesCounted
<1> QED
  BY <1>1, Invariance, PTL

\* The control thread goes on with an estimate only if it is the published one, whole,
\* however the sequence has wrapped: no number of writes that fits the copy brings the
\* counter back to where it was.
THEOREM EstimateIsWhole == Spec => EstimateWhole
<1>1. ASSUME IInv, [Next]_vars, thread = "check", thread' = "d"
      PROVE  copy = estimate /\ copy.angle = copy.speed
  <2>1. sequence = before
    BY <1>1 DEF Next, OnControlCycle, OnControlCycleBypassed, Observer, ObserverIsr,
       ReadSamples, WriteAngles, WriteOutputAngles, Flip, ClearPending, Publish, Step,
       TakeWake, ReadSequence, CopyAngle, CopySpeed, CheckSequence, WriteRefD, WriteRefQ,
       FlipRef, ThreadRuns, vars, threadVars
  <2>2. PICK k \in 0..MaxOverlap :
          /\ sequence \in {before + 2 * k, before + 2 * k - SequenceModulus}
          /\ k = 0 => copy.angle = estimate.angle /\ copy.speed = estimate.speed
    BY <1>1 DEF IInv, CopyInv, Copying
  <2>3. k = 0
    BY <2>1, <2>2, <1>1, HotPathAssumption DEF IInv, TypeInv
  <2>4. copy.angle = estimate.angle /\ copy.speed = estimate.speed
    BY <2>2, <2>3
  <2> QED
    BY <2>4, <1>1 DEF IInv, TypeInv, CopyInv
<1>2. IInv /\ [Next]_vars
      => [thread = "check" /\ thread' = "d" => copy = estimate /\ copy.angle = copy.speed]_vars
  BY <1>1
<1> QED
  BY <1>2, Invariance, PTL DEF Spec, EstimateWhole
=============================================================================
