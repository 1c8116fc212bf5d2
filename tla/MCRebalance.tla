------------------------------ MODULE MCRebalance ------------------------------
(* Instances of RebalanceCycle: the symbols are interchangeable. *)
EXTENDS RebalanceCycle, TLC

MCTarget == {-2, 0, 4}

Symmetry == Permutations(Symbol)
================================================================================
