---------------------------- MODULE MCMarketViews ----------------------------
(***************************************************************************)
(* A small instance of MarketViews.                                        *)
(***************************************************************************)
EXTENDS MarketViews
=============================================================================
