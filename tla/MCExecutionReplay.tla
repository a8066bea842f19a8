--------------------------- MODULE MCExecutionReplay ---------------------------
(***************************************************************************)
(* A small instance of ExecutionReplay: a capital of 1.0000005, a price of *)
(* 100 and a fee of 0.005 basis points, which is half a quantum per lot, so*)
(* that the rounding of money() matters.                                   *)
(***************************************************************************)
EXTENDS ExecutionReplay, TLC

\* Order keys are interchangeable: nothing in the reducer compares them.
Symmetry == Permutations(OrderKeys)
=============================================================================
