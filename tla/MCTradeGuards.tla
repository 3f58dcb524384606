---------------------------- MODULE MCTradeGuards ----------------------------
(* TradeGuards for TLC.                                                      *)
EXTENDS TradeGuards
=============================================================================
