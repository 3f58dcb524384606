---------------------------- MODULE TradeContract ----------------------------
(***************************************************************************)
(* What one execution promises, on whichever path it runs: a decision is   *)
(* cleared with the kill switch before an order is sent, an execution      *)
(* sends at most one order of its own, and a trade is recorded only after  *)
(* its order was filled (or a dry run stood in for it).  An execution may  *)
(* give up at any time, whatever became of its order.  Locks, compliance,  *)
(* polling and time are left to OrderExecution, which implements this.     *)
(* Not covered: the order that closes another position for a swap, sent    *)
(* and recorded without clearance or fill.                                 *)
(***************************************************************************)
CONSTANTS
    Tasks,      \* executions that may run at the same time
    Scopes,     \* what the kill switch halts
    System      \* the scope every execution obeys

VARIABLES
    phase,      \* phase[t]: how far execution t has come
    watched,    \* watched[t]: scopes whose halt t must respect
    order,      \* order[t]: the order of t at the broker
    booked,     \* booked[t]: the trade of t is recorded
    halted,     \* scopes that are halted
    dry         \* TRUE if a dry run replaces the broker; never changes

vars == <<phase, watched, order, booked, halted, dry>>

Phases == {"idle", "deciding", "cleared", "following", "over"}

Init ==
    /\ phase = [t \in Tasks |-> "idle"]
    /\ watched = [t \in Tasks |-> {}]
    /\ order = [t \in Tasks |-> "none"]
    /\ booked = [t \in Tasks |-> FALSE]
    /\ halted = {}
    /\ dry \in BOOLEAN

Begin(t) ==
    /\ phase[t] = "idle"
    /\ phase' = [phase EXCEPT ![t] = "deciding"]
    /\ \E w \in SUBSET Scopes : System \in w /\ watched' = [watched EXCEPT ![t] = w]
    /\ UNCHANGED <<order, booked, halted, dry>>

(* The only way to an order: no scope the execution obeys is halted. *)
Clear(t) ==
    /\ phase[t] = "deciding"
    /\ watched[t] \cap halted = {}
    /\ phase' = [phase EXCEPT ![t] = "cleared"]
    /\ UNCHANGED <<watched, order, booked, halted, dry>>

(* The execution follows its order, or leaves it to the broker. *)
Send(t) ==
    /\ phase[t] = "cleared"
    /\ order[t] = "none"
    /\ order' = [order EXCEPT ![t] = "open"]
    /\ \E p \in {"following", "over"} : phase' = [phase EXCEPT ![t] = p]
    /\ UNCHANGED <<watched, booked, halted, dry>>

DryRun(t) ==
    /\ phase[t] = "cleared"
    /\ dry
    /\ phase' = [phase EXCEPT ![t] = "following"]
    /\ UNCHANGED <<watched, order, booked, halted, dry>>

Settle(t) ==
    /\ order[t] = "open"
    /\ \E o \in {"filled", "dead"} : order' = [order EXCEPT ![t] = o]
    /\ UNCHANGED <<phase, watched, booked, halted, dry>>

(* Nothing is booked when the execution cancels its order. *)
Cancel(t) ==
    /\ phase[t] = "following"
    /\ order[t] = "open"
    /\ order' = [order EXCEPT ![t] = "dead"]
    /\ phase' = [phase EXCEPT ![t] = "over"]
    /\ UNCHANGED <<watched, booked, halted, dry>>

Book(t) ==
    /\ phase[t] = "following"
    /\ dry \/ order[t] = "filled"
    /\ booked' = [booked EXCEPT ![t] = TRUE]
    /\ phase' = [phase EXCEPT ![t] = "over"]
    /\ UNCHANGED <<watched, order, halted, dry>>

GiveUp(t) ==
    /\ phase[t] # "idle"
    /\ phase' = [phase EXCEPT ![t] = "over"]
    /\ UNCHANGED <<watched, order, booked, halted, dry>>

Finish(t) ==
    /\ phase[t] = "over"
    /\ phase' = [phase EXCEPT ![t] = "idle"]
    /\ watched' = [watched EXCEPT ![t] = {}]
    /\ order' = [order EXCEPT ![t] = "none"]
    /\ booked' = [booked EXCEPT ![t] = FALSE]
    /\ UNCHANGED <<halted, dry>>

Halt(s) ==
    /\ halted' = halted \cup {s}
    /\ UNCHANGED <<phase, watched, order, booked, dry>>

Reset ==
    /\ halted' \in SUBSET halted
    /\ UNCHANGED <<phase, watched, order, booked, dry>>

(* A crash forgets every execution; what was sent stays with the broker. *)
Crash ==
    /\ phase' = [t \in Tasks |-> "idle"]
    /\ watched' = [t \in Tasks |-> {}]
    /\ order' = [t \in Tasks |-> "none"]
    /\ booked' = [t \in Tasks |-> FALSE]
    /\ halted' \in SUBSET halted
    /\ UNCHANGED dry

Next ==
    \/ \E t \in Tasks :
          \/ Begin(t) \/ Clear(t) \/ Send(t) \/ DryRun(t) \/ Settle(t)
          \/ Cancel(t) \/ Book(t) \/ GiveUp(t) \/ Finish(t)
    \/ \E s \in Scopes : Halt(s)
    \/ Reset
    \/ Crash

Spec == Init /\ [][Next]_vars

=============================================================================
