---------------------------- MODULE MCExecutionStore ----------------------------
(***************************************************************************)
(* A small instance of ExecutionStore: commands "buy" and "timeout", the   *)
(* latter leaving the order UNKNOWN; calculators that differ on "buy", the *)
(* newer of which no longer accepts "timeout".                             *)
(***************************************************************************)
EXTENDS ExecutionStore, TLC

CONSTANTS older, newer, buy, timeout

MCRejects == {<<newer, timeout>>}
MCRevised == {buy}
MCShows   == [b \in Bodies |-> IF b = timeout THEN {"UNKNOWN"} ELSE {}]

\* Handlers are interchangeable, and so are keys and configurations.
Symmetry == Permutations(Workers) \cup Permutations(Keys) \cup Permutations(Configs)
=============================================================================
