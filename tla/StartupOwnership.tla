-------------------------- MODULE StartupOwnership --------------------------
(***************************************************************************)
(* What the drive relies on in the startup aid (src/startup/hw_startup.hpp,*)
(* src/drive/drive_node.cpp): who holds the outputs in which stage of the  *)
(* bring-up, and that every end of it leaves them off.                     *)
(***************************************************************************)

VARIABLES
    startup,    \* stage of the run
    forceDuty,  \* the control cycle applies forced duties
    moe, bif, external, tripped

vars == <<startup, forceDuty, moe, bif, external, tripped>>

Active == startup \in {"phase1", "connect", "connect_wait", "phase2"}

Init ==
    /\ startup = "idle" /\ forceDuty = FALSE
    /\ moe = FALSE /\ external \in BOOLEAN /\ bif = ~external /\ tripped = FALSE

Start ==
    /\ ~Active
    /\ tripped' = FALSE
    /\ \/ startup' = "phase1" /\ forceDuty' = TRUE /\ moe' = TRUE
          /\ external /\ ~bif'
       \/ startup' = "idle" /\ forceDuty' = FALSE /\ moe' = moe
    /\ bif' \in {bif, FALSE}
    /\ UNCHANGED external

\* A step of the stage: its outputs stay on, at forced duties.
Work ==
    /\ startup \in {"phase1", "phase2"} /\ moe
    /\ forceDuty' = TRUE
    /\ startup' \in {startup} \cup (IF startup = "phase1" THEN {"connect"} ELSE {})
    /\ UNCHANGED <<moe, bif, external, tripped>>

SwitchOff ==
    /\ startup = "connect"
    /\ startup' = "connect_wait" /\ forceDuty' = TRUE /\ moe' = FALSE
    /\ UNCHANGED <<bif, external, tripped>>

SwitchOn ==
    /\ startup = "connect_wait"
    /\ bif' \in {bif, FALSE}
    /\ external /\ ~bif'
    /\ startup' = "phase2" /\ forceDuty' = TRUE /\ moe' = TRUE
    /\ UNCHANGED <<external, tripped>>

\* An abort, a lost stage, an overcurrent or a refused step.
Fail ==
    /\ Active
    /\ startup' = "fault" /\ forceDuty' = TRUE /\ moe' = FALSE
    /\ bif' \in {bif, FALSE}
    /\ UNCHANGED <<external, tripped>>

Finish ==
    /\ startup = "phase2" /\ moe
    /\ startup' = "done" /\ forceDuty' = FALSE /\ moe' = FALSE
    /\ UNCHANGED <<bif, external, tripped>>

TakeBack ==
    /\ ~Active
    /\ forceDuty' = FALSE
    /\ UNCHANGED <<startup, moe, bif, external, tripped>>

\* The power stage and the control cycle; none of it switches the outputs on.
Environment ==
    /\ moe' \in {moe, FALSE}
    /\ bif' \in BOOLEAN /\ external' \in BOOLEAN /\ tripped' \in BOOLEAN
    /\ UNCHANGED <<startup, forceDuty>>

Next ==
    Start \/ Work \/ SwitchOff \/ SwitchOn \/ Fail \/ Finish \/ TakeBack \/ Environment

Spec == Init /\ [][Next]_vars
=============================================================================
