--------------------------- MODULE MCWorkerDispatch ---------------------------
EXTENDS WorkerDispatch
CONSTANTS r1, r2, p1, p2, a, b
Of(p, d) == [permit |-> p, payload |-> d]
(* Under one business request id, r1 is called with p1 and a; r2 retries the *)
(* batch with a permit of its own, or sends another batch with the same one. *)
TwoCalls == {[r \in Runs |-> IF r = r1 THEN Of(p1, a) ELSE other] :
               other \in {Of(p2, a), Of(p1, b)}}
=============================================================================
