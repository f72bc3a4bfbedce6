------------------------------- MODULE HotPath -------------------------------
(***************************************************************************)
(* The hot path: control cycle, observer interrupt and control thread      *)
(* (src/current_control/current_control_isr.cpp, slow_update.cpp,          *)
(* outer_loop.cpp) over the hand-overs between them: the double buffer of  *)
(* angles (sub_step_buffer.hpp), the sequence lock of the estimate and the *)
(* mailbox of the current reference (mailbox.hpp), started by the two      *)
(* interrupts of hardware/zephyr_bcc/foc_stm32g4.cpp.                      *)
(*                                                                         *)
(* Priorities on one core: the control cycle preempts the observer between *)
(* any two of its accesses and is itself one step; both preempt the        *)
(* control thread.  Angles, estimates and references are reduced to the    *)
(* number of the run or step that wrote them.                              *)
(***************************************************************************)
EXTENDS Integers

CONSTANTS
    MaxCycles,      \* bound: control cycles of a behaviour that run the loop
    MaxOverlap,     \* bound: control cycles during one copy of the estimate
    SequenceModulus,\* values of SeqLock::sequence_ (2^32)
    CyclesPerStep   \* OuterLoop::kCyclesPerStep

\* "the writer runs once per control cycle and a copy takes far less".
ASSUME HotPathAssumption ==
    /\ MaxCycles \in Nat \ {0}
    /\ MaxOverlap \in Nat
    /\ SequenceModulus \in Nat /\ SequenceModulus % 2 = 0
    /\ 2 * MaxOverlap < SequenceModulus
    /\ CyclesPerStep \in Nat \ {0}

VARIABLES
    active,         \* DoubleBuffer::active
    sc, scOut,      \* per buffer: the observer run that wrote the angles
    sample,         \* per buffer: the control cycle that wrote the samples
    pending,        \* observer_pending
    observerBuffer, \* observer_buffer
    overruns,       \* observer_overruns
    cycles,         \* control cycles that ran the control loop
    used,           \* angles of the last of them
    reused,         \* history: how many used the same angles as the one before
    pc,             \* where the observer is in RunOnce()
    finished,       \* kFinishedBuffer
    mean,           \* the samples RunOnce() has read first
    runs,           \* history: observer runs that published
    torn,           \* history: of these, with samples of two cycles
    irq,            \* the observer interrupt is pending
    sequence, estimate,     \* SeqLock observer_: sequence_, its two words
    observerCycles, \* observer_cycles_
    wake,           \* g_control_wake
    thread,         \* where the control thread is in Step()
    before, copy,   \* kBefore, kCopy of SeqLock::Read()
    overlap,        \* control cycles since kBefore was read
    refs, refActive,\* Mailbox i_ref_mailbox: slots_, active_
    steps,          \* steps of the control thread, modulo 3
    ref             \* state.i_ref, the reference of the last control cycle

cycleVars == <<cycles, used, reused, overruns>>
observerVars == <<pc, finished, mean, runs, torn>>
lockVars == <<sequence, estimate, observerCycles, wake>>
threadVars == <<thread, before, copy, refs, refActive, steps>>
vars == <<active, sc, scOut, sample, pending, observerBuffer, cycleVars,
          observerVars, irq, lockVars, threadVars, overlap, ref>>

Buffers == {0, 1}
Steps == {"idle", "samples", "sc", "sc_out", "flip", "clear", "publish"}
Copying == {"first", "second", "check"}
StepPcs == {"wait", "sequence", "d", "q", "flip"} \cup Copying

\* Angles that no cycle has used yet; CurrentControlIsr::Init() writes run 0.
NoAngles == [sc |-> -1, out |-> -1]

Init ==
    /\ active = 0
    /\ sc = [b \in Buffers |-> 0] /\ scOut = [b \in Buffers |-> 0]
    /\ sample = [b \in Buffers |-> 0]
    /\ pending = FALSE /\ observerBuffer = 0
    /\ overruns = 0 /\ cycles = 0 /\ used = NoAngles /\ reused = 0
    /\ pc = "idle" /\ finished = 0 /\ mean = 0 /\ runs = 0 /\ torn = 0
    /\ irq = FALSE
    /\ sequence = 0 /\ estimate = [angle |-> 0, speed |-> 0]
    /\ observerCycles = 0 /\ wake = FALSE
    /\ thread = "wait" /\ before = 0 /\ copy = estimate /\ overlap = 0
    /\ refs = [b \in Buffers |-> [d |-> 0, q |-> 0]] /\ refActive = 0
    /\ steps = 0 /\ ref = refs[0]

-----------------------------------------------------------------------------
(* The control cycle                                                       *)

\* Every control cycle takes the reference and pends the observer interrupt.
Boundary ==
    /\ overlap < MaxOverlap \/ thread \notin Copying
    /\ overlap' = IF thread \in Copying THEN overlap + 1 ELSE 0
    /\ ref' = refs[refActive]
    /\ irq' = TRUE

\* Mutant: only an observer caught while it runs counts as late.
OnControlCycle_CountsRunning ==
    /\ cycles < MaxCycles
    /\ Boundary
    /\ cycles' = cycles + 1
    /\ overruns' = overruns + (IF pending /\ pc # "idle" THEN 1 ELSE 0)
    /\ used' = [sc |-> sc[active], out |-> scOut[active]]
    /\ reused' = reused + (IF used' = used THEN 1 ELSE 0)
    /\ sample' = [sample EXCEPT ![active] = cycles']
    /\ observerBuffer' = active
    /\ pending' = TRUE
    /\ UNCHANGED <<active, sc, scOut, observerVars, lockVars, threadVars>>

\* The angles of the active buffer; a pending observer counts as late.
OnControlCycle ==
    /\ cycles < MaxCycles
    /\ Boundary
    /\ cycles' = cycles + 1
    /\ overruns' = overruns + (IF pending THEN 1 ELSE 0)
    /\ used' = [sc |-> sc[active], out |-> scOut[active]]
    /\ reused' = reused + (IF used' = used THEN 1 ELSE 0)
    /\ sample' = [sample EXCEPT ![active] = cycles']
    /\ observerBuffer' = active
    /\ pending' = TRUE
    /\ UNCHANGED <<active, sc, scOut, observerVars, lockVars, threadVars>>

\* A latched trip or forced duties: no control loop, but the observer interrupt.
OnControlCycleBypassed ==
    /\ Boundary
    /\ UNCHANGED <<active, sc, scOut, sample, pending, observerBuffer, cycleVars,
                   observerVars, lockVars, threadVars>>

-----------------------------------------------------------------------------
(* SlowUpdate::RunOnce() in the observer interrupt                         *)

ObserverIsr ==
    /\ irq /\ pc = "idle"
    /\ irq' = FALSE
    /\ IF pending
       THEN /\ pc' = "samples"
            /\ finished' = observerBuffer
            /\ mean' = sample[observerBuffer]
       ELSE pc' = "publish" /\ UNCHANGED <<finished, mean>>
    /\ UNCHANGED <<active, sc, scOut, sample, pending, observerBuffer, cycleVars,
                   runs, torn, lockVars, threadVars, overlap, ref>>

\* u_dq, the timestamp and the single samples, after i_dq_mean.
ReadSamples ==
    /\ pc = "samples" /\ pc' = "sc"
    /\ torn' = torn + (IF sample[finished] # mean THEN 1 ELSE 0)
    /\ UNCHANGED <<active, sc, scOut, sample, pending, observerBuffer, cycleVars,
                   finished, mean, runs, irq, lockVars, threadVars, overlap, ref>>

\* Mutant: the observer writes the angles of the buffer it has read.
WriteAngles_InPlace ==
    /\ pc = "sc" /\ pc' = "sc_out"
    /\ sc' = [sc EXCEPT ![finished] = runs + 1]
    /\ UNCHANGED <<active, scOut, sample, pending, observerBuffer, cycleVars,
                   finished, mean, runs, torn, irq, lockVars, threadVars, overlap, ref>>

WriteAngles ==
    /\ pc = "sc" /\ pc' = "sc_out"
    /\ sc' = [sc EXCEPT ![1 - finished] = runs + 1]
    /\ UNCHANGED <<active, scOut, sample, pending, observerBuffer, cycleVars,
                   finished, mean, runs, torn, irq, lockVars, threadVars, overlap, ref>>

WriteOutputAngles ==
    /\ pc = "sc_out" /\ pc' = "flip"
    /\ scOut' = [scOut EXCEPT ![1 - finished] = runs + 1]
    /\ UNCHANGED <<active, sc, sample, pending, observerBuffer, cycleVars,
                   finished, mean, runs, torn, irq, lockVars, threadVars, overlap, ref>>

Flip ==
    /\ pc = "flip" /\ pc' = "clear"
    /\ active' = 1 - finished
    /\ runs' = runs + 1
    /\ UNCHANGED <<sc, scOut, sample, pending, observerBuffer, cycleVars,
                   finished, mean, torn, irq, lockVars, threadVars, overlap, ref>>

ClearPending ==
    /\ pc = "clear" /\ pc' = "publish"
    /\ pending' = FALSE
    /\ UNCHANGED <<active, sc, scOut, sample, observerBuffer, cycleVars,
                   finished, mean, runs, torn, irq, lockVars, threadVars, overlap, ref>>

\* Mutant: a write that does not move the sequence on.
Publish_KeepsSequence ==
    /\ pc = "publish" /\ pc' = "idle"
    /\ estimate' = [angle |-> runs, speed |-> runs]
    /\ observerCycles' = (observerCycles + 1) % CyclesPerStep
    /\ wake' = (wake \/ observerCycles' = 0)
    /\ UNCHANGED <<active, sc, scOut, sample, pending, observerBuffer, cycleVars,
                   finished, mean, runs, torn, irq, sequence, threadVars, overlap, ref>>

\* OnObserverCycle(): SeqLock::Write(), and the wake-up of the control thread.
Publish ==
    /\ pc = "publish" /\ pc' = "idle"
    /\ sequence' = (sequence + 2) % SequenceModulus
    /\ estimate' = [angle |-> runs, speed |-> runs]
    /\ observerCycles' = (observerCycles + 1) % CyclesPerStep
    /\ wake' = (wake \/ observerCycles' = 0)
    /\ UNCHANGED <<active, sc, scOut, sample, pending, observerBuffer, cycleVars,
                   finished, mean, runs, torn, irq, threadVars, overlap, ref>>

Observer ==
    ObserverIsr \/ ReadSamples \/ WriteAngles \/ WriteOutputAngles \/ Flip
    \/ ClearPending \/ Publish

-----------------------------------------------------------------------------
(* OuterLoop::Step() in the control thread                                 *)

\* The observer interrupt goes before the thread.
ThreadRuns(from, to) ==
    /\ pc = "idle" /\ ~irq
    /\ thread = from /\ thread' = to
    /\ UNCHANGED <<active, sc, scOut, sample, pending, observerBuffer, cycleVars,
                   observerVars, irq, sequence, estimate, observerCycles, ref>>

TakeWake ==
    /\ wake
    /\ ThreadRuns("wait", "sequence")
    /\ wake' = FALSE
    /\ UNCHANGED <<before, copy, refs, refActive, steps, overlap>>

ReadSequence ==
    /\ ThreadRuns("sequence", "first")
    /\ before' = sequence
    /\ overlap' = 0
    /\ UNCHANGED <<copy, refs, refActive, steps, wake>>

CopyAngle ==
    /\ ThreadRuns("first", "second")
    /\ copy' = [copy EXCEPT !.angle = estimate.angle]
    /\ UNCHANGED <<before, refs, refActive, steps, wake, overlap>>

CopySpeed ==
    /\ ThreadRuns("second", "check")
    /\ copy' = [copy EXCEPT !.speed = estimate.speed]
    /\ UNCHANGED <<before, refs, refActive, steps, wake, overlap>>

\* A write that overlapped the copy makes the reader start again.
CheckSequence ==
    /\ ThreadRuns("check", IF sequence = before THEN "d" ELSE "sequence")
    /\ UNCHANGED <<before, copy, refs, refActive, steps, wake, overlap>>

\* SetCurrentRef(): Mailbox::Write(), one word after the other.
WriteRefD ==
    /\ ThreadRuns("d", "q")
    /\ steps' = (steps + 1) % 3
    /\ refs' = [refs EXCEPT ![1 - refActive].d = steps']
    /\ UNCHANGED <<before, copy, refActive, wake, overlap>>

WriteRefQ ==
    /\ ThreadRuns("q", "flip")
    /\ refs' = [refs EXCEPT ![1 - refActive].q = steps]
    /\ UNCHANGED <<before, copy, refActive, steps, wake, overlap>>

FlipRef ==
    /\ ThreadRuns("flip", "wait")
    /\ refActive' = 1 - refActive
    /\ UNCHANGED <<before, copy, refs, steps, wake, overlap>>

Step ==
    TakeWake \/ ReadSequence \/ CopyAngle \/ CopySpeed \/ CheckSequence
    \/ WriteRefD \/ WriteRefQ \/ FlipRef

Next == OnControlCycle \/ OnControlCycleBypassed \/ Observer \/ Step

Spec == Init /\ [][Next]_vars

-----------------------------------------------------------------------------
(* Properties                                                              *)

\* sub_step_buffer.hpp: "the control cycle never observes a half-written angle
\* set", mailbox.hpp: the reader "never sees a half-written value": what the
\* control cycle works on is whole, although it preempts both writers between any
\* two writes.
CycleSeesWhole == used.sc = used.out /\ ref.d = ref.q

\* mailbox.hpp, SeqLock: "Returns a consistent copy of the last published value":
\* the step goes on with one estimate, which no write had replaced when the copy
\* was checked, however the sequence wraps.
EstimateWhole ==
    [][thread = "check" /\ thread' = "d" => copy = estimate /\ copy.angle = copy.speed]_vars

\* observer_overruns misses nothing: a control cycle whose samples never reach the
\* observer, also one whose observer_pending a preempted observer clears, has been
\* counted; and a control cycle runs on old angles, or the observer on samples of two
\* cycles, at most as often as overruns are counted.
LossesCounted ==
    /\ cycles - runs - (IF pending THEN 1 ELSE 0) <= overruns
    /\ reused <= overruns
    /\ torn <= overruns

-----------------------------------------------------------------------------
(* Statement of the documentation that the code does not keep              *)

\* sub_step_buffer.hpp: "When the observer is late (it has not flipped when the
\* next cycle starts), the control cycle counts an overrun and reuses the old
\* angles": the cycles that count are the cycles that reuse.
OverrunIsReuse ==
    [][cycles' # cycles /\ cycles > 0 => (overruns' # overruns <=> reused' # reused)]_vars
=============================================================================
