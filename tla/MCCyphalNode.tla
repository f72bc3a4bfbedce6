---------------------------- MODULE MCCyphalNode ----------------------------
(***************************************************************************)
(* The Cyphal node for TLC: the allocation of its node-ID and the register *)
(* writes.  They share no state: one run explores each of them, the part,  *)
(* by itself.                                                              *)
(***************************************************************************)
EXTENDS CyphalNode, Registers

VARIABLE part

MCVars == <<cyphalVars, registerVars, part>>

MCInit ==
    /\ part \in {"node", "registers"}
    /\ NodeInit /\ RegistersInit
    /\ part # "node" => flash = [nodeId |-> 1, readiness |-> Follows, gain |-> 0]

MCNext ==
    \/ part = "node" /\ NodeNext /\ UNCHANGED <<registerVars, part>>
    \/ part = "registers" /\ RegistersNext /\ UNCHANGED <<cyphalVars, part>>

\* The fairness of the node, for the behaviours that explore it.
MCFairness ==
    /\ WF_round(part = "node" /\ round' = ~round)
    /\ SF_cyphalVars(part = "node" /\ AnswerOwn)
    /\ SF_cyphalVars(part = "node" /\ ReceiveAnswer(Own))

MCSpec == MCInit /\ [][MCNext]_MCVars /\ MCFairness
=============================================================================
