--------------------------- MODULE MCCanTransport ---------------------------
(***************************************************************************)
(* The CAN transport on small instances: the transmit queues, the receive  *)
(* side with the watch on the bus, and the serial-line adapter of the      *)
(* simulation.  The three share no state; a behaviour is one of the part   *)
(* it starts in.                                                           *)
(***************************************************************************)
EXTENDS CanTx, CanRx, SlcanLine

VARIABLE part

mcVars == <<part, txVars, rxVars, slVars>>

MCInit == part \in {"tx", "rx", "slcan"} /\ TxInit /\ RxInit /\ SlInit

MCNext ==
  \/ part = "tx" /\ TxNext /\ UNCHANGED <<part, rxVars, slVars>>
  \/ part = "rx" /\ RxNext /\ UNCHANGED <<part, txVars, slVars>>
  \/ part = "slcan" /\ SlNext /\ UNCHANGED <<part, txVars, rxVars>>

(* The Cyphal thread runs again and again: it waits a millisecond at most. *)
MCSpec ==
  /\ MCInit /\ [][MCNext]_mcVars
  /\ WF_mcVars(part = "rx" /\ ThreadStep /\ UNCHANGED <<part, txVars, slVars>>)

=============================================================================
