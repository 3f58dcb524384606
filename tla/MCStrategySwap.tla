--------------------------- MODULE MCStrategySwap ---------------------------
(* StrategySwap for TLC.                                                     *)
EXTENDS StrategySwap
CONSTANTS rl, lstm
Both == {rl, lstm}
=============================================================================
