---------------------------- MODULE MCKillSwitch ----------------------------
(***************************************************************************)
(* KillSwitch for TLC: two processes, so that a halt crosses Redis, and    *)
(* one or two users beside the global scope.                               *)
(***************************************************************************)
EXTENDS KillSwitch

=============================================================================
