---------------------------- MODULE MCSafeguards ----------------------------
(***************************************************************************)
(* Safeguards for TLC, in units of 500 of a capital of 100 000.            *)
(***************************************************************************)
EXTENDS Safeguards

\* From 180 the portfolio stop is reached.  Drawdowns of 17, 31, 54, 71, 86 and
\* 103 % of the limit occur above it: each side of every threshold.
Account == {180, 189, 200, 219, 225}
=============================================================================
