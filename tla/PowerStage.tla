----------------------------- MODULE PowerStage -----------------------------
(***************************************************************************)
(* Release and protection of the power stage                               *)
(* (hardware/power_stage_interface.hpp over the register accesses of       *)
(* hardware/zephyr_bcc/foc_stm32g4.cpp) and the settings save gate that    *)
(* shares its enable lock (src/settings_save_gate.hpp).                    *)
(*                                                                         *)
(* The unit of atomicity is one register access or one atomic_flag         *)
(* operation: the sample interrupt (Trip) and the break input act between  *)
(* any two of them.                                                        *)
(***************************************************************************)
EXTENDS Naturals

CONSTANTS
    Drivers,  \* threads that call Enable(), Disable() and ClearFault()
    Savers    \* threads that run a save behind the gate

Threads == Drivers \cup Savers

VARIABLES
    moe,        \* TIM_BDTR.MOE: the outputs follow the compare values
    bif,        \* TIM_SR.BIF: a break is latched
    external,   \* level of the external enable, which is the break input
    enableLock, \* PowerStageInterface::enable_lock_
    pc          \* per thread: the next register access of the running call

stageVars == <<moe, bif, external, enableLock, pc>>

-----------------------------------------------------------------------------
(* Positions inside Enable() and inside a save; each holds the lock.       *)

EnablePcs == {"en_moe", "en_external", "en_fault", "en_write",
              "en_recheck", "en_undo", "en_result", "en_unlock"}
SavePcs   == {"gate_moe", "gate_external", "gate_fault", "gate_release",
              "saving"}

\* Between setting MOE and the second look at BIF a trip may have been undone.
RecheckPcs == {"en_recheck", "en_undo"}

StageInit ==
    /\ moe = FALSE
    /\ bif \in BOOLEAN
    /\ external \in BOOLEAN
    /\ ~external => bif
    /\ enableLock = FALSE
    /\ pc = [t \in Threads |-> "idle"]

Goto(t, from, to) == pc[t] = from /\ pc' = [pc EXCEPT ![t] = to]

Branch(t, from, taken, yes, no) == Goto(t, from, IF taken THEN yes ELSE no)

-----------------------------------------------------------------------------
(* PowerStageInterface::Enable() around foc_stm32g4::PowerStageEnable()    *)

EnableLockTaken(t) ==
    /\ pc[t] = "idle"
    /\ ~enableLock
    /\ enableLock' = TRUE
    /\ pc' = [pc EXCEPT ![t] = "en_moe"]
    /\ UNCHANGED <<moe, bif, external>>

EnableReadMoe(t) ==
    /\ Branch(t, "en_moe", moe, "en_unlock", "en_external")
    /\ UNCHANGED <<moe, bif, external, enableLock>>

EnableReadExternal(t) ==
    /\ Branch(t, "en_external", external, "en_fault", "en_unlock")
    /\ UNCHANGED <<moe, bif, external, enableLock>>

EnableReadFault(t) ==
    /\ Branch(t, "en_fault", bif, "en_unlock", "en_write")
    /\ UNCHANGED <<moe, bif, external, enableLock>>

\* The timer ignores MOE while the break input is active.
EnableWriteMoe(t) ==
    /\ Goto(t, "en_write", "en_recheck")
    /\ moe' = external
    /\ UNCHANGED <<bif, external, enableLock>>

\* Mutant: no second look at BIF after the MOE write.
EnableRecheckFault_Dropped(t) ==
    /\ Goto(t, "en_recheck", "en_result")
    /\ UNCHANGED <<moe, bif, external, enableLock>>

EnableRecheckFault(t) ==
    /\ Branch(t, "en_recheck", bif, "en_undo", "en_result")
    /\ UNCHANGED <<moe, bif, external, enableLock>>

EnableUndo(t) ==
    /\ Goto(t, "en_undo", "en_unlock")
    /\ moe' = FALSE
    /\ UNCHANGED <<bif, external, enableLock>>

EnableReadResult(t) ==
    /\ Goto(t, "en_result", "en_unlock")
    /\ UNCHANGED <<moe, bif, external, enableLock>>

EnableUnlock(t) ==
    /\ Goto(t, "en_unlock", "idle")
    /\ enableLock' = FALSE
    /\ UNCHANGED <<moe, bif, external>>

EnableStep(t) ==
    \/ EnableReadMoe(t) \/ EnableReadExternal(t) \/ EnableReadFault(t)
    \/ EnableWriteMoe(t) \/ EnableRecheckFault(t) \/ EnableUndo(t)
    \/ EnableReadResult(t) \/ EnableUnlock(t)

-----------------------------------------------------------------------------
(* PowerStageSaveGate: HoldOffEnable(), GetState() == kDisabled, End()     *)

HoldOffEnable(t) ==
    /\ pc[t] = "idle"
    /\ ~enableLock
    /\ enableLock' = TRUE
    /\ pc' = [pc EXCEPT ![t] = "gate_moe"]
    /\ UNCHANGED <<moe, bif, external>>

\* Mutant: the gate tells a fault from disabled, but not enabled.
GateReadMoe_Ignored(t) ==
    /\ Goto(t, "gate_moe", "gate_external")
    /\ UNCHANGED <<moe, bif, external, enableLock>>

GateReadMoe(t) ==
    /\ Branch(t, "gate_moe", moe, "gate_release", "gate_external")
    /\ UNCHANGED <<moe, bif, external, enableLock>>

GateReadExternal(t) ==
    /\ Branch(t, "gate_external", external, "gate_fault", "gate_release")
    /\ UNCHANGED <<moe, bif, external, enableLock>>

GateReadFault(t) ==
    /\ Branch(t, "gate_fault", bif, "gate_release", "saving")
    /\ UNCHANGED <<moe, bif, external, enableLock>>

\* Mutant: a refused gate keeps the lock.
ReleaseEnable_AfterSaveOnly(t) ==
    /\ pc[t] = "saving"
    /\ pc' = [pc EXCEPT ![t] = "idle"]
    /\ enableLock' = FALSE
    /\ UNCHANGED <<moe, bif, external>>

\* ReleaseEnable(), after a refused or a finished save.
ReleaseEnable(t) ==
    /\ pc[t] \in {"gate_release", "saving"}
    /\ pc' = [pc EXCEPT ![t] = "idle"]
    /\ enableLock' = FALSE
    /\ UNCHANGED <<moe, bif, external>>

GateStep(t) ==
    GateReadMoe(t) \/ GateReadExternal(t) \/ GateReadFault(t) \/ ReleaseEnable(t)

-----------------------------------------------------------------------------
(* Single register accesses of a thread between its calls                  *)

Disable(t) ==
    /\ pc[t] = "idle"
    /\ moe' = FALSE
    /\ UNCHANGED <<bif, external, enableLock, pc>>

\* A break input that is still active latches BIF again at once.
ClearFault(t) ==
    /\ pc[t] = "idle"
    /\ bif' = ~external
    /\ UNCHANGED <<moe, external, enableLock, pc>>

-----------------------------------------------------------------------------
(* The sample interrupt and the break input, at any time                   *)

Trip ==
    /\ moe' = FALSE
    /\ bif' = TRUE
    /\ UNCHANGED <<external, enableLock, pc>>

ExternalEnableDrops ==
    /\ external
    /\ external' = FALSE
    /\ moe' = FALSE
    /\ bif' = TRUE
    /\ UNCHANGED <<enableLock, pc>>

ExternalEnableReturns ==
    /\ ~external
    /\ external' = TRUE
    /\ UNCHANGED <<moe, bif, enableLock, pc>>

-----------------------------------------------------------------------------

StageNext ==
    \/ \E t \in Drivers : EnableLockTaken(t) \/ EnableStep(t)
                          \/ Disable(t) \/ ClearFault(t)
    \/ \E t \in Savers : HoldOffEnable(t) \/ GateStep(t)
    \/ Trip
    \/ ExternalEnableDrops
    \/ ExternalEnableReturns

\* A started call runs to its end; nothing makes a thread start one.
StageFairness == \A t \in Threads : WF_stageVars(EnableStep(t) \/ GateStep(t))

StageSpec == StageInit /\ [][StageNext]_stageVars

-----------------------------------------------------------------------------
(* Properties                                                              *)

\* Every register and program counter keeps its type.
StageTypeOK ==
    /\ moe \in BOOLEAN
    /\ bif \in BOOLEAN
    /\ external \in BOOLEAN
    /\ enableLock \in BOOLEAN
    /\ pc \in [Threads -> {"idle"} \cup EnablePcs \cup SavePcs]

\* settings_save_gate.hpp, power_stage_interface.hpp: a stage found disabled
\* after HoldOffEnable() stays disabled until ReleaseEnable(), so flash is never
\* written with the outputs released, whatever the other threads do.
FlashWrittenWithOutputsOff ==
    \A t \in Savers : pc[t] = "saving" => ~moe

\* PowerStageEnable(): a trip between its BIF check and its MOE write is undone
\* only for the instant until the second BIF check: outputs with a latched fault
\* exist nowhere else.
FaultDrivenOnlyInRecheck ==
    moe /\ bif => \E t \in Drivers : pc[t] \in RecheckPcs

\* PowerStageInterface: the atomic flag lets one thread at a time into Enable()
\* or a save, although the two do not know of each other.
OneLockHolder ==
    \A t, u \in Threads : pc[t] # "idle" /\ pc[u] # "idle" => t = u

\* Every call finishes what it began: outputs that a trip raced on are switched off
\* again by the running Enable(), unless another thread acknowledges the fault
\* before, and the enable lock is never leaked: a refused gate, a finished save and
\* every return of PowerStageEnable() give it back.
CallsFinish ==
    /\ (moe /\ bif) ~> ~(moe /\ bif)
    /\ enableLock ~> ~enableLock
=============================================================================
