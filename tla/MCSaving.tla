------------------------------ MODULE MCSaving ------------------------------
(***************************************************************************)
(* The two sides of the save gate on small instances: the power stage with *)
(* the saves as the time they hold the enable lock, and the settings store *)
(* with the power stage as the state its gate looks at.  A behaviour is    *)
(* one of the side it starts in.                                           *)
(***************************************************************************)
EXTENDS PowerStage, SettingsStore

VARIABLE part

mcVars == <<part, stageVars, vars>>

\* The second register is a limit of the first.
MCValues == 0..2
MCFactory == [r \in 1..N |-> 0]
MCValid == {s \in [1..N -> MCValues] : s[2] >= s[1] \/ s[2] = 0}

MCInit ==
  /\ part \in {"stage", "store"}
  /\ StageInit /\ Init
  /\ part # "stage" => ~bif /\ external
  /\ part # "store" => \A r \in Registers : flash[r] = Absent

MCNext ==
  \/ part = "stage" /\ StageNext /\ UNCHANGED <<part, vars>>
  \/ part = "store" /\ Next /\ UNCHANGED <<part, stageVars>>

\* Running calls of the threads and a running save go on.
MCSpec == MCInit /\ [][MCNext]_mcVars /\ StageFairness /\ WF_vars(SaveStep)
=============================================================================
