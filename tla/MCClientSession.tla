---------------------------- MODULE MCClientSession ----------------------------
(***************************************************************************)
(* A small instance of ClientSession.                                      *)
(***************************************************************************)
EXTENDS ClientSession
=============================================================================
