------------------------- MODULE MCEngineLifecycle -------------------------
(***************************************************************************)
(* EngineLifecycle for TLC.                                                *)
(***************************************************************************)
EXTENDS EngineLifecycle, TLC

CONSTANTS rl, lstm, typo

Both == {rl, lstm}
Known == {rl}
Unknown == {typo}
Ranked == {lstm}

Symmetry == Permutations(Loops) \cup Permutations(Monitors)

=============================================================================
