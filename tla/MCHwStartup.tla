----------------------------- MODULE MCHwStartup -----------------------------
(***************************************************************************)
(* The bring-up for TLC, and the timers of the periodic messages, which    *)
(* report its status among others.  They share no state: a behaviour is    *)
(* one of the part it starts in.                                           *)
(***************************************************************************)
EXTENDS HwStartup, NodeTimers

VARIABLE part

mcVars == <<part, vars, timerVars>>

MCInit ==
  /\ part \in {"startup", "timers"}
  /\ Init /\ TimersInit
  /\ part # "startup" => external
  /\ part # "timers" => ~anonymous /\ allocation = 0 /\ telemetryPeriod = 0

MCNext ==
  \/ part = "startup" /\ Next /\ UNCHANGED <<part, timerVars>>
  \/ part = "timers" /\ TimersNext /\ UNCHANGED <<part, vars>>

MCSpec == MCInit /\ [][MCNext]_mcVars /\ Fairness
=============================================================================
