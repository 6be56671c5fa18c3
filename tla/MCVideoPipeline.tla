-------------------------- MODULE MCVideoPipeline --------------------------
(* Instances of VideoPipeline for TLC. *)
EXTENDS VideoPipeline, TLC

MCSymmetry == Permutations(Workers) \cup Permutations(Keys)
=============================================================================
