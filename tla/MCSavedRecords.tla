---------------------------- MODULE MCSavedRecords ----------------------------
(***************************************************************************)
(* A small instance of SavedRecords.                                       *)
(***************************************************************************)
EXTENDS SavedRecords
=============================================================================
