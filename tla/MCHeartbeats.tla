----------------------------- MODULE MCHeartbeats -----------------------------
(* Instances of RunnerHeartbeats: the supervisor's service, the unit of its   *)
(* fast follow, an operator's delta runner, the epoch controller that the      *)
(* daily policy runs.                                                          *)
EXTENDS RunnerHeartbeats

MCFirst == [r \in Runners |-> IF r = "operator" THEN 3 ELSE 1]
================================================================================
