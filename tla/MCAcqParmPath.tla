---------------------------- MODULE MCAcqParmPath ----------------------------
(* A small instance of AcqParmPath: two bytes of mask, a memory of three    *)
(* samples, frames of full length and frames cut short in mask or values.   *)
EXTENDS AcqParmPath_proofs

MCCmd == [b \in 0 .. 3 |-> IF b = 0 THEN "ACQ_PARMS" ELSE "NONE"]
MCRequests ==
  {<<0, m, 0, 3, n>> : m \in {0, 2, 3}, n \in {1, 3}}
    \union {<<0, 1, 0, 3>>, <<0, 2, 0, 0>>, <<0, 1, 0>>, <<0, 0>>}

ASSUME RequestsInStep
=============================================================================
