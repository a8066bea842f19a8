---------------------------- MODULE MCRowLists ----------------------------
(***************************************************************************)
(* A small instance of RowLists.                                           *)
(***************************************************************************)
EXTENDS RowLists
=============================================================================
