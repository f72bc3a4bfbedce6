---------------------------- MODULE MCDriveNode -----------------------------
(* DriveNode for TLC. *)
EXTENDS DriveNode
=============================================================================
