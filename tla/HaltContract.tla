---------------------------- MODULE HaltContract ----------------------------
(***************************************************************************)
(* What the engine's processes may rely on of their kill switches, however *)
(* halts travel between them: the memory of a process takes up one halt at *)
(* a time, only of a scope that somebody tripped, and only a reset of the  *)
(* process or its restart takes one back.  Redis and the calls that are    *)
(* under way do not appear; KillSwitch implements this.  The halts of one  *)
(* process are what OrderExecution calls halted (its Restart is a reset of *)
(* the system and the halts then learned again).                           *)
(***************************************************************************)
CONSTANTS Procs, Users, System

Scopes == Users \cup {System}

VARIABLES
    halts,     \* the scopes that the memory of each process holds halted
    tripped    \* the scopes trip was ever called for

vars == <<halts, tripped>>

Init ==
    /\ halts = [p \in Procs |-> {}]
    /\ tripped = {}

Hold(p, s) == halts' = [halts EXCEPT ![p] = @ \cup {s}]

(* A trip is decided on what the process held some time ago: by now it may   *)
(* hold the halt, or that of the system.                                     *)
Trip(p, s) == Hold(p, s) /\ tripped' = tripped \cup {s}

(* A process learns of a halt, however late.                                 *)
Learn(p, s) == s \in tripped /\ Hold(p, s) /\ UNCHANGED tripped

(* A reset of the system ends the halts of the users as well; a process that *)
(* restarts looks the same.                                                  *)
Reset(p, s) ==
    /\ halts' = [halts EXCEPT ![p] = IF s = System THEN {} ELSE @ \ {s}]
    /\ UNCHANGED tripped

Next == \E p \in Procs, s \in Scopes : Trip(p, s) \/ Learn(p, s) \/ Reset(p, s)

Spec == Init /\ [][Next]_vars

=============================================================================
