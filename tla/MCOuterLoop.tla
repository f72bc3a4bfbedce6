----------------------------- MODULE MCOuterLoop -----------------------------
(* OuterLoop for TLC: gains and positions are told apart by equality only. *)
EXTENDS OuterLoop, TLC

MCSymmetry == Permutations(Gains) \cup Permutations(Positions)
=============================================================================
