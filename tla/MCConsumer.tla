----------------------------- MODULE MCConsumer -----------------------------
(* Small instances of Consumer for TLC. *)
EXTENDS Consumer, TLC

MCSymmetry == Permutations(Instances) \cup Permutations(Replayers)
=============================================================================
