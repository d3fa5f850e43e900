---------------------------- MODULE MCBlockQueue ----------------------------
(***************************************************************************)
(* Instances of BlockQueue for TLC.                                        *)
(***************************************************************************)
EXTENDS BlockQueue, TLC

Symmetry == Permutations(Items) \cup Permutations(Consumers)
=============================================================================
