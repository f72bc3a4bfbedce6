-------------------------- MODULE PowerStageProofs --------------------------
(***************************************************************************)
(* Proofs about PowerStage for any sets of driver and saver threads.       *)
(***************************************************************************)
EXTENDS PowerStage, TLAPS

\* A thread inside Enable() or a save holds the lock, and is alone there.
LockInv ==
    /\ \A t \in Threads : pc[t] # "idle" => enableLock
    /\ OneLockHolder

\* Once the gate has seen MOE clear, nothing can set it before the release.
GateInv ==
    \A t \in Threads : pc[t] \in {"gate_external", "gate_fault", "saving"} => ~moe

\* Only drivers are inside Enable().
EnableInv == \A t \in Threads : pc[t] \in EnablePcs => t \in Drivers

\* The break input clears MOE and the timer ignores a write while it is active;
\* without this an acknowledged but still active break would latch BIF again
\* with the outputs on.
BreakInv == moe => external

IInv ==
    StageTypeOK /\ LockInv /\ GateInv /\ EnableInv /\ BreakInv
    /\ FaultDrivenOnlyInRecheck

-----------------------------------------------------------------------------

\* The initial states satisfy the inductive invariant: every thread is idle and
\* the outputs are off.
LEMMA InitIInv == StageInit => IInv
  BY DEF StageInit, IInv, StageTypeOK, LockInv, OneLockHolder, GateInv, EnableInv, BreakInv,
         FaultDrivenOnlyInRecheck, EnablePcs, SavePcs

\* Type correctness is preserved by every step.
LEMMA StepTypeOK == StageTypeOK /\ [StageNext]_stageVars => StageTypeOK'
<1> SUFFICES ASSUME StageTypeOK, [StageNext]_stageVars PROVE StageTypeOK'
  OBVIOUS
<1> USE DEF StageTypeOK, Threads, EnablePcs, SavePcs, Goto, Branch
<1>1. ASSUME NEW t \in Drivers, EnableLockTaken(t) \/ Disable(t) \/ ClearFault(t)
      PROVE  StageTypeOK'
  BY <1>1 DEF EnableLockTaken, Disable, ClearFault
<1>2. ASSUME NEW t \in Drivers, EnableStep(t) PROVE StageTypeOK'
  BY <1>2 DEF EnableStep, EnableReadMoe, EnableReadExternal, EnableReadFault,
       EnableWriteMoe, EnableRecheckFault, EnableUndo, EnableReadResult,
       EnableUnlock
<1>3. ASSUME NEW t \in Savers, HoldOffEnable(t) \/ GateStep(t) PROVE StageTypeOK'
  BY <1>3 DEF HoldOffEnable, GateStep, GateReadMoe, GateReadExternal,
       GateReadFault, ReleaseEnable
<1>4. CASE Trip \/ ExternalEnableDrops \/ ExternalEnableReturns
  BY <1>4 DEF Trip, ExternalEnableDrops, ExternalEnableReturns
<1>5. CASE UNCHANGED stageVars
  BY <1>5 DEF stageVars
<1>6. QED
  BY <1>1, <1>2, <1>3, <1>4, <1>5 DEF StageNext

\* The inductive invariant is preserved by every register access of every
\* thread, by the sample interrupt and by the break input.
LEMMA StepIInv == IInv /\ [StageNext]_stageVars => IInv'
<1> SUFFICES ASSUME IInv, [StageNext]_stageVars PROVE IInv'
  OBVIOUS
<1>0. StageTypeOK /\ StageTypeOK'
  BY StepTypeOK DEF IInv
<1> USE DEF StageTypeOK, Threads, IInv, LockInv, OneLockHolder, GateInv, EnableInv, BreakInv,
            FaultDrivenOnlyInRecheck, EnablePcs, SavePcs, RecheckPcs, Goto, Branch
<1>1. ASSUME NEW t \in Drivers, EnableLockTaken(t) PROVE IInv'
  BY <1>0, <1>1 DEF EnableLockTaken
<1>2. ASSUME NEW t \in Drivers, EnableStep(t) PROVE IInv'
  <2>1. CASE EnableReadMoe(t)
    BY <1>0, <2>1 DEF EnableReadMoe
  <2>2. CASE EnableReadExternal(t)
    BY <1>0, <2>2 DEF EnableReadExternal
  <2>3. CASE EnableReadFault(t)
    BY <1>0, <2>3 DEF EnableReadFault
  <2>4. CASE EnableWriteMoe(t)
    BY <1>0, <2>4 DEF EnableWriteMoe
  <2>5. CASE EnableRecheckFault(t)
    BY <1>0, <2>5 DEF EnableRecheckFault
  <2>6. CASE EnableUndo(t)
    BY <1>0, <2>6 DEF EnableUndo
  <2>7. CASE EnableReadResult(t)
    BY <1>0, <2>7 DEF EnableReadResult
  <2>8. CASE EnableUnlock(t)
    BY <1>0, <2>8 DEF EnableUnlock
  <2>9. QED
    BY <1>2, <2>1, <2>2, <2>3, <2>4, <2>5, <2>6, <2>7, <2>8 DEF EnableStep
<1>3. ASSUME NEW t \in Drivers, Disable(t) \/ ClearFault(t) PROVE IInv'
  <2>1. CASE Disable(t)
    BY <1>0, <2>1 DEF Disable
  <2>2. CASE ClearFault(t)
    BY <1>0, <2>2 DEF ClearFault
  <2>3. QED
    BY <1>3, <2>1, <2>2
<1>4. ASSUME NEW t \in Savers, HoldOffEnable(t) PROVE IInv'
  BY <1>0, <1>4 DEF HoldOffEnable
<1>5. ASSUME NEW t \in Savers, GateStep(t) PROVE IInv'
  <2>1. CASE GateReadMoe(t)
    BY <1>0, <2>1 DEF GateReadMoe
  <2>2. CASE GateReadExternal(t)
    BY <1>0, <2>2 DEF GateReadExternal
  <2>3. CASE GateReadFault(t)
    BY <1>0, <2>3 DEF GateReadFault
  <2>4. CASE ReleaseEnable(t)
    BY <1>0, <2>4 DEF ReleaseEnable
  <2>5. QED
    BY <1>5, <2>1, <2>2, <2>3, <2>4 DEF GateStep
<1>6. CASE Trip
  BY <1>0, <1>6 DEF Trip
<1>7. CASE ExternalEnableDrops
  BY <1>0, <1>7 DEF ExternalEnableDrops
<1>8. CASE ExternalEnableReturns
  BY <1>0, <1>8 DEF ExternalEnableReturns
<1>9. CASE UNCHANGED stageVars
  BY <1>0, <1>9 DEF stageVars
<1>10. QED
  BY <1>1, <1>2, <1>3, <1>4, <1>5, <1>6, <1>7, <1>8, <1>9 DEF StageNext

\* Every reachable state satisfies the inductive invariant.
THEOREM Inductive == StageSpec => []IInv
  BY InitIInv, StepIInv, PTL DEF StageSpec

\* PowerStage is type correct for any sets of threads.
THEOREM TypeCorrect == StageSpec => []StageTypeOK
<1>1. IInv => StageTypeOK
  BY DEF IInv
<1>2. QED
  BY <1>1, Inductive, PTL

\* settings_save_gate.hpp: for any number of driver and saver threads, no save
\* writes flash while the outputs are released.
THEOREM FlashSafe == StageSpec => []FlashWrittenWithOutputsOff
<1>1. IInv => FlashWrittenWithOutputsOff
  BY DEF IInv, GateInv, FlashWrittenWithOutputsOff, Threads
<1>2. QED
  BY <1>1, Inductive, PTL

\* foc_stm32g4.cpp PowerStageEnable(): outputs with a latched fault exist only
\* between the MOE write and the second BIF check of a running Enable().
THEOREM FaultSafe == StageSpec => []FaultDrivenOnlyInRecheck
<1>1. IInv => FaultDrivenOnlyInRecheck
  BY DEF IInv
<1>2. QED
  BY <1>1, Inductive, PTL

\* power_stage_interface.hpp enable_lock_: Enable() and a save exclude each
\* other, and so do two of either.
THEOREM LockExclusive == StageSpec => []OneLockHolder
<1>1. IInv => OneLockHolder
  BY DEF IInv, LockInv
<1>2. QED
  BY <1>1, Inductive, PTL
=============================================================================
