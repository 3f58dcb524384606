------------------------------ MODULE Watchdogs ------------------------------
(***************************************************************************)
(* The watchdogs that trip the kill switch when trading fails silently:    *)
(* core/cycle_watchdog.py counts cycles without a completed evaluation,    *)
(* core/ml_watchdog.py times failures of the learned models.  Both are     *)
(* singletons that every trading loop alive writes to (trading_loop.py),   *)
(* and a reset of the kill switch resets the first of them.                *)
(*                                                                         *)
(* A cycle increments the counter and compares it in two statements with a *)
(* log and an alert between them.  The latency watchdog and manual trips   *)
(* are TripElsewhere.  Alerts change nothing here and are left out.        *)
(* Safeguards states what the constants are.                               *)
(***************************************************************************)
EXTENDS Naturals

CONSTANTS
    Loops,      \* trading loops alive at a time
    KillAt,     \* kill_threshold: empty cycles in a row that halt
    MLKill,     \* kill_threshold_sec of the ML watchdog, in ticks
    NoError,    \* first_error_time is None
    Operator    \* the operator, as a caller of kill_switch.reset

VARIABLES
    pc,           \* where each trading loop is
    empty,        \* _consecutive_empty; above KillAt all values are alike
    errorAge,     \* ticks since first_error_time, or NoError
    halted,       \* what kill_switch.is_halted() answers
    resetting     \* callers of kill_switch.reset amid it, see RiskManager

dogVars == <<pc, empty, errorAge>>

Goto(l, label) == pc' = [pc EXCEPT ![l] = label]

Init ==
    /\ pc = [l \in Loops |-> "off"]
    /\ empty = 0
    /\ errorAge = NoError

-----------------------------------------------------------------------------
(* Starts and resets.                                                        *)

(* kill_switch.reset up to the reset of the watchdog. *)
Release(caller) ==
    /\ halted' = FALSE
    /\ resetting' = resetting \cup {caller}

(* start_live_strategy resets a halted switch, then launches the loop. *)
Start(l) ==
    /\ pc[l] = "off"
    /\ Operator \notin resetting
    /\ Goto(l, "launch")
    /\ IF halted THEN Release(Operator) ELSE UNCHANGED <<halted, resetting>>
    /\ UNCHANGED <<empty, errorAge>>

Launch(l) ==
    /\ pc[l] = "launch"
    /\ Operator \notin resetting
    /\ Goto(l, "top")
    /\ UNCHANGED <<empty, errorAge, halted, resetting>>

(* The handler that resets the kill switch and starts nothing. *)
ResetHandler ==
    /\ Operator \notin resetting
    /\ Release(Operator)
    /\ UNCHANGED dogVars

(* Faulty variant: the counter survives the reset.                           *)
ResetForgetsWatchdog(caller) ==
    /\ caller \in resetting
    /\ resetting' = resetting \ {caller}
    /\ UNCHANGED <<dogVars, halted>>

(* The end of kill_switch.reset: cycle_watchdog.reset. *)
ResetWatchdog(caller) ==
    /\ caller \in resetting
    /\ resetting' = resetting \ {caller}
    /\ empty' = 0
    /\ UNCHANGED <<pc, errorAge, halted>>

(* The latency watchdog, a user of the API, another process. *)
TripElsewhere ==
    /\ halted' = TRUE
    /\ UNCHANGED <<dogVars, resetting>>

-----------------------------------------------------------------------------
(* A cycle of the trading loop.                                              *)

(* A halted loop ends. *)
Gate(l) ==
    /\ pc[l] = "top"
    /\ Goto(l, IF halted THEN "off" ELSE "cycle")
    /\ UNCHANGED <<empty, errorAge, halted, resetting>>

(* record_successful_cycle: one evaluation at least completed. *)
FullCycle(l) ==
    /\ pc[l] = "cycle"
    /\ empty' = 0
    /\ Goto(l, "top")
    /\ UNCHANGED <<errorAge, halted, resetting>>

(* Nothing to evaluate: market closed, no symbols. *)
IdleCycle(l) ==
    /\ pc[l] = "cycle"
    /\ Goto(l, "top")
    /\ UNCHANGED <<empty, errorAge, halted, resetting>>

(* record_empty_cycle up to its comparison. *)
EmptyCycle(l) ==
    /\ pc[l] = "cycle"
    /\ empty' = IF empty > KillAt THEN empty ELSE empty + 1
    /\ Goto(l, "check")
    /\ UNCHANGED <<errorAge, halted, resetting>>

(* Faulty variant: one cycle more than the threshold.                        *)
CompareLate(l) ==
    /\ pc[l] = "check"
    /\ halted' = (halted \/ empty = KillAt + 1)
    /\ Goto(l, "top")
    /\ UNCHANGED <<empty, errorAge, resetting>>

(* The comparison is for equality. *)
Compare(l) ==
    /\ pc[l] = "check"
    /\ halted' = (halted \/ empty = KillAt)
    /\ Goto(l, "top")
    /\ UNCHANGED <<empty, errorAge, resetting>>

(* Faulty variant: each failure starts the timer again.                      *)
MLErrorRestarts(l) ==
    /\ pc[l] = "cycle"
    /\ Goto(l, "failed")
    /\ errorAge' = IF halted THEN errorAge ELSE 0
    /\ halted' = (halted \/ (errorAge # NoError /\ errorAge >= MLKill))
    /\ UNCHANGED <<empty, resetting>>

(* A model failed: record_error.  The first failure starts the timer, a late *)
(* one trips the switch; nothing happens while halted.                       *)
MLError(l) ==
    /\ pc[l] = "cycle"
    /\ Goto(l, "failed")
    /\ errorAge' = IF ~halted /\ errorAge = NoError THEN 0 ELSE errorAge
    /\ halted' = (halted \/ (errorAge # NoError /\ errorAge >= MLKill))
    /\ UNCHANGED <<empty, resetting>>

(* The evaluation goes on without the vote of that model. *)
GoesOn(l) ==
    /\ pc[l] = "failed"
    /\ Goto(l, "cycle")
    /\ UNCHANGED <<empty, errorAge, halted, resetting>>

(* Faulty variant: an answer of a model counts as a completed evaluation.    *)
MLSuccessCounts(l) ==
    /\ pc[l] = "cycle"
    /\ errorAge' = NoError
    /\ empty' = 0
    /\ UNCHANGED <<pc, halted, resetting>>

(* record_success, of either model. *)
MLSuccess(l) ==
    /\ pc[l] = "cycle"
    /\ errorAge' = NoError
    /\ UNCHANGED <<pc, empty, halted, resetting>>

(* Time passes while the timer runs. *)
Tick ==
    /\ errorAge # NoError /\ errorAge < MLKill
    /\ errorAge' = errorAge + 1
    /\ UNCHANGED <<pc, empty, halted, resetting>>

(* Of the whole loop, for fairness: it is never stuck in a cycle. *)
LoopNext(l) ==
    \/ Launch(l) \/ Gate(l) \/ GoesOn(l)
    \/ FullCycle(l) \/ IdleCycle(l) \/ EmptyCycle(l) \/ Compare(l)

DogsNext ==
    \/ \E l \in Loops : Start(l) \/ LoopNext(l) \/ MLError(l) \/ MLSuccess(l)
    \/ ResetHandler
    \/ TripElsewhere
    \/ Tick

-----------------------------------------------------------------------------

DogsTypeOK ==
    /\ pc \in [Loops -> {"off", "launch", "top", "cycle", "failed", "check"}]
    /\ empty \in 0..(KillAt + 1)
    /\ errorAge \in Nat \cup {NoError}

(* ">= 5 empty cycles: Kill Switch Trip (Safe Halt)": as soon as the counter *)
(* is compared, a counter at the threshold finds the system halted, or is    *)
(* about to be reset with the halt.                                          *)
EmptyCyclesHalt ==
    empty >= KillAt /\ (\A l \in Loops : pc[l] # "check")
        => halted \/ resetting # {}

=============================================================================
