-------------------------------- MODULE MCBudget --------------------------------
(* The model values of the budget store's runs are interchangeable. *)
EXTENDS BudgetProps, TLC

Symmetry == Permutations(Epoch) \cup Permutations(Run) \cup Permutations(Plan) \cup Permutations(Opener)
================================================================================
