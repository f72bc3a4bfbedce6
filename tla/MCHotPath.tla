------------------------------ MODULE MCHotPath ------------------------------
(* HotPath for TLC. *)
EXTENDS HotPath
=============================================================================
