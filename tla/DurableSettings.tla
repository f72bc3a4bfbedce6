--------------------------- MODULE DurableSettings ---------------------------
(***************************************************************************)
(* What the settings promise to the rest of the firmware                   *)
(* (lib/settings/settings_store.hpp, the contract of SettingsOperations):  *)
(* the live settings are valid, a save moves registers one by one to their *)
(* live value, success means that all of them are there, and a boot starts *)
(* from the saved settings or from the factory profile.                    *)
(***************************************************************************)
EXTENDS Naturals

CONSTANTS Registers, Values, Factory, Valid

VARIABLES
    live,    \* the settings the controller uses
    saved,   \* the settings a boot would read
    up,      \* the settings are loaded
    status   \* of the last save

vars == <<live, saved, up, status>>

Reports == {"success", "kPersistBlocked", "kIoError"}

Init ==
    /\ live = Factory
    /\ saved \in [Registers -> Values]
    /\ up = FALSE
    /\ status = "none"

Boot ==
    /\ ~up
    /\ up' = TRUE
    /\ live' = Factory \/ (saved \in Valid /\ live' = saved)
    /\ UNCHANGED <<saved, status>>

Change ==
    /\ up
    /\ live' \in Valid
    /\ UNCHANGED <<saved, up, status>>

Save ==
    /\ up
    /\ status' = "running"
    /\ UNCHANGED <<live, saved, up>>

SaveOne ==
    /\ status = "running"
    /\ \E r \in Registers : saved' = [saved EXCEPT ![r] = live[r]]
    /\ UNCHANGED <<live, up, status>>

Report ==
    /\ status = "running"
    /\ status' \in Reports
    /\ status' = "success" => saved = live
    /\ UNCHANGED <<live, saved, up>>

Crash ==
    /\ up' = FALSE
    /\ live' = Factory
    /\ status' = "none"
    /\ UNCHANGED saved

Next == Boot \/ Change \/ Save \/ SaveOne \/ Report \/ Crash

Spec == Init /\ [][Next]_vars
=============================================================================
