---------------------------- MODULE MCPortfolioPage ----------------------------
(***************************************************************************)
(* A small instance of PortfolioPage.                                      *)
(***************************************************************************)
EXTENDS PortfolioPage
=============================================================================
