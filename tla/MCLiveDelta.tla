------------------------------ MODULE MCLiveDelta ------------------------------
(* Instances of LiveDelta: the plans are interchangeable. *)
EXTENDS LiveDelta, TLC

Symmetry == Permutations(Plan)
================================================================================
