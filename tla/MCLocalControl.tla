--------------------------- MODULE MCLocalControl ---------------------------
(***************************************************************************)
(* The torque sources of the drive for TLC: the e-bike control with its    *)
(* inputs (crank and display) and the cart control.  The parts share no    *)
(* state here: a behaviour is one of the part it starts in.                *)
(***************************************************************************)
EXTENDS PedalAssist, DisplayLine, EbikeDrive, CartDrive

VARIABLE part

MCTorques == {-2, 0, 2}

MCVars == <<pedalVars, displayVars, ebikeDriveVars, cartVars, part>>

MCInit ==
    /\ part \in {"pedal", "display", "ebike", "cart"}
    /\ PedalInit /\ DisplayInit /\ EbikeInit /\ CartInit
    /\ part # "display" => /\ ~displayOn /\ sentLevel = 0 /\ bytesSent = 0
                           /\ displaySeed = DefaultSeed
    /\ part # "ebike" => ~blocked

MCNext ==
    \/ /\ part = "pedal" /\ PedalNext
       /\ UNCHANGED <<displayVars, ebikeDriveVars, cartVars, part>>
    \/ /\ part = "display" /\ DisplayNext
       /\ UNCHANGED <<pedalVars, ebikeDriveVars, cartVars, part>>
    \/ /\ part = "ebike" /\ EbikeNext
       /\ UNCHANGED <<pedalVars, displayVars, cartVars, part>>
    \/ /\ part = "cart" /\ CartNext
       /\ UNCHANGED <<pedalVars, displayVars, ebikeDriveVars, part>>

\* The fairness of the parts, each for the behaviours that explore it: the Cyphal
\* thread wakes at least every millisecond, so that the controls are updated again
\* and again although frames wake it earlier; the engage hold runs out; a display
\* that is on goes on sending.  Riders, senders and faults are not fair.
MCFairness ==
    /\ WF_pedalVars(part = "pedal" /\ Tick)
    /\ WF_pending(part = "pedal" /\ pending > 0 /\ ~pulsed /\ pending' = 0)
    /\ WF_displayVars(part = "display" /\ DisplayByte)
    /\ WF_displayVars(part = "display" /\ QuietPeriod)
    /\ WF_ebikeDriveVars(part = "ebike" /\ Spin)
    /\ SF_ebikeDriveVars(part = "ebike" /\ UpdateDemand)
    /\ SF_ebikeDriveVars(part = "ebike" /\ EngageHoldElapses)
    /\ WF_cartVars(part = "cart" /\ SpinCart)

MCSpec == MCInit /\ [][MCNext]_MCVars /\ MCFairness
=============================================================================
