------------------------------ MODULE MCAutoTrading ------------------------------
(***************************************************************************)
(* Small instances of AutoTrading.                                         *)
(***************************************************************************)
EXTENDS AutoTrading
=============================================================================
