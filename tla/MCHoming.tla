------------------------------ MODULE MCHoming ------------------------------
(***************************************************************************)
(* SpeedLoop for TLC with a shaft that turns forward or stands, a battery  *)
(* that limits nothing and a homing run: does the run find its stop?       *)
(***************************************************************************)
EXTENDS SpeedLoop

MCLimits == {<<4, 4>>}
MCSpeedMin == -2
=============================================================================
