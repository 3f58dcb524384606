----------------------------- MODULE Safeguards -----------------------------
(***************************************************************************)
(* The safeguards together: the risk manager of a simulation, the trading  *)
(* loops with their watchdogs and the operator drive one kill switch.  The *)
(* switch is its answer in one process (KillSwitch has the details); what  *)
(* is kept of a reset is that the halt is released some time before the    *)
(* cycle watchdog forgets its count.                                       *)
(***************************************************************************)
EXTENDS Integers

CONSTANTS Capital, Limit, Equities, Loops, KillAt, MLKill, NoError,
          Risk, Operator

ASSUME SafeguardsAssumption ==
    /\ Capital \in Nat /\ Limit \in Nat \ {0}
    /\ Equities \subseteq Nat
    /\ Capital \in Equities
    /\ KillAt \in Nat \ {0}
    /\ MLKill \in Nat
    /\ NoError \notin Nat
    /\ Risk # Operator

VARIABLES
    equity, seen, peak, tradingHalted, reduced, unlock, since, portfolioStop,
    pc, empty, errorAge,
    halted, resetting

RM == INSTANCE RiskManager
Dogs == INSTANCE Watchdogs

riskVars == <<equity, seen, peak, tradingHalted, reduced, unlock, since, portfolioStop>>
dogVars == <<pc, empty, errorAge>>
vars == <<riskVars, dogVars, halted, resetting>>
Callers == {Risk, Operator}

Init ==
    /\ RM!Init
    /\ Dogs!Init
    /\ halted = FALSE
    /\ resetting = {}

RiskStep == RM!RiskNext /\ UNCHANGED dogVars

DogStep == Dogs!DogsNext /\ UNCHANGED riskVars

ResetStep == (\E c \in Callers : Dogs!ResetWatchdog(c)) /\ UNCHANGED riskVars

Next == RiskStep \/ DogStep \/ ResetStep

Spec == Init /\ [][Next]_vars

Do(A) == A /\ Next

(* A simulation keeps updating its risk manager and hours pass; a loop goes  *)
(* on with its cycle, a reset that began ends, and time passes.  Nothing is  *)
(* assumed of the market, of evaluations, of trips or of the operator.       *)
Fairness ==
    /\ WF_vars(Do(RM!UpdateEquity))
    /\ \A l \in Loops : WF_vars(Do(Dogs!LoopNext(l)))
    /\ \A c \in Callers : WF_vars(Do(Dogs!ResetWatchdog(c)))
    /\ WF_vars(Do(Dogs!Tick))

FairSpec == Spec /\ Fairness

-----------------------------------------------------------------------------

TypeOK ==
    /\ RM!RiskTypeOK
    /\ Dogs!DogsTypeOK
    /\ halted \in BOOLEAN
    /\ resetting \subseteq Callers

(* See RiskManager and Watchdogs. *)
ExposureFollowsDrawdown == RM!ExposureFollowsDrawdown
StopIsFinal == RM!StopIsFinal
EmptyCyclesHalt == Dogs!EmptyCyclesHalt

Recovered == ~portfolioStop /\ 10 * (peak - equity) <= 2 * Limit

(* A halt of the risk manager does not outlive the drawdown: once the        *)
(* account stays within 20 % of the limit below its peak, and never lost the *)
(* 7 % of the portfolio stop, trading opens, however long the halt lasted.   *)
HaltEndsWithDrawdown == <>[]Recovered => <>[]~tradingHalted

(* From some point on nothing succeeds and nobody resets the switch.         *)
NoResets == <>[][resetting' \subseteq resetting]_vars

(* Cycles that keep failing, with none complete in between, halt the system  *)
(* in the end: no reset, idle cycle or timing keeps the counter down.        *)
FailingCyclesHalt ==
    /\ NoResets
    /\ <>[][\A l \in Loops : ~Dogs!FullCycle(l)]_vars
    /\ []<>(\E l \in Loops : pc[l] = "check")
    => <>[]halted

(* Models that keep failing as long as the system runs, with no success of   *)
(* either in between, halt it in the end: the timer of the first failure     *)
(* runs on through all the others.                                           *)
FailingModelsHalt ==
    /\ NoResets
    /\ <>[][\A l \in Loops : ~Dogs!MLSuccess(l)]_vars
    /\ []<>(halted \/ \E l \in Loops : pc[l] = "failed")
    => <>[]halted

=============================================================================
