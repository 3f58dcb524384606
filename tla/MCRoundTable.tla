---------------------------- MODULE MCRoundTable ----------------------------
(***************************************************************************)
(* RoundTable for TLC: the models, one of the heavy advisors and one of    *)
(* the light ones, with their default weights rounded to integers.         *)
(***************************************************************************)
EXTENDS RoundTable

CONSTANTS News, Guard

Table == {News, Guard}
DefaultWeight == [a \in {LSTM, RL, News, Guard} |-> IF a = Guard THEN 1 ELSE 25]
Buys == {60, 95}
Opinions == {0, 50, 100}
=============================================================================
