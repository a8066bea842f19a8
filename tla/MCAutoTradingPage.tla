--------------------------- MODULE MCAutoTradingPage ---------------------------
(***************************************************************************)
(* A small instance of AutoTradingPage.                                    *)
(***************************************************************************)
EXTENDS AutoTradingPage
=============================================================================
