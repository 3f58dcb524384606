----------------------------- MODULE RoundTable -----------------------------
(***************************************************************************)
(* How a cycle of the trading loop evaluates its symbols (trading_loop.py, *)
(* orchestration/graph.py, round_table/): for each symbol all agents vote  *)
(* in parallel, the consensus of the votes becomes a signal if both        *)
(* learned models took part, and the signals are dispatched one after the  *)
(* other once every evaluation has ended.  One event loop runs all of it:  *)
(* steps interleave only where the code awaits.                            *)
(*                                                                         *)
(* The two models vote by running the active strategy, one at a time per   *)
(* symbol, and the strategy sends orders of its own.  What becomes of a    *)
(* submission is in OrderExecution, the other watchdogs are in Watchdogs.  *)
(* The gatekeeper is given an empty context and approves whatever it sees. *)
(***************************************************************************)
EXTENDS Integers, FiniteSetsExt

CONSTANTS
    Symbols,
    LSTM, RL,        \* the agents that ask the learned models
    Advisors,        \* the other agents, plugins among them
    Weight,          \* the weight of each agent
    BuyScores,       \* bound: what RL makes of the conviction of a BUY
    AdvisorScores,   \* bound: what advisors say, in percent
    Asked,           \* no vote yet
    Excluded,        \* a vote of weight 0: an abstention or a caught failure
    Lost,            \* timed out or raised: no vote
    Malformed,       \* a plugin returned something that is no vote
    Fallback,        \* the strategy run without a round table
    Dispatch,        \* _process_signal_event
    Nobody,
    KillAge,         \* kill_threshold_sec of the ML watchdog, in ticks
    NoError          \* first_error_time is None

Models == {LSTM, RL}
Agents == Models \cup Advisors
Special == {Asked, Excluded, Lost, Malformed}

ASSUME RoundTableAssumption ==
    /\ LSTM # RL /\ Models \cap Advisors = {}
    /\ IsFiniteSet(Advisors)
    /\ {Fallback, Dispatch, Nobody} \cap Models = {}
    /\ Fallback # Dispatch /\ Nobody # Fallback
    /\ Weight \in [Agents -> Nat]
    /\ BuyScores \subseteq 51..100 /\ AdvisorScores \subseteq 0..100
    /\ Special \cap Nat = {}
    /\ Asked # Excluded /\ Asked # Lost /\ Asked # Malformed
    /\ Excluded # Lost /\ Excluded # Malformed /\ Lost # Malformed
    /\ KillAge \in Nat /\ NoError \notin Nat

VARIABLES
    phase,      \* of each symbol: "idle", "voting", "fallback", "decided"
    vote,       \* of each agent on each symbol
    lock,       \* whose run of the strategy holds the lock of the symbol
    signal,     \* the signal of the evaluation
    traded,     \* history: who has sent orders for the symbol in this cycle
    errorAge,   \* of the ML watchdog: ticks since first_error_time
    halted      \* what kill_switch.is_halted() answers

cycleVars == <<phase, signal>>
dogVars == <<errorAge, halted>>
vars == <<cycleVars, vote, lock, traded, dogVars>>

Init ==
    /\ phase = [s \in Symbols |-> "idle"]
    /\ vote = [s \in Symbols |-> [a \in Agents |-> Lost]]
    /\ lock = [s \in Symbols |-> Nobody]
    /\ signal = [s \in Symbols |-> "none"]
    /\ traded = [s \in Symbols |-> {}]
    /\ errorAge = NoError
    /\ halted = FALSE

(* A cycle asks every agent about every symbol. *)
StartCycle ==
    /\ \A s \in Symbols : phase[s] = "idle"
    /\ ~halted
    /\ phase' = [s \in Symbols |-> "voting"]
    /\ vote' = [s \in Symbols |-> [a \in Agents |-> Asked]]
    /\ signal' = [s \in Symbols |-> "none"]
    /\ traded' = [s \in Symbols |-> {}]
    /\ UNCHANGED <<lock, dogVars>>

-----------------------------------------------------------------------------
(* Votes.                                                                    *)

(* Faulty variant: the conviction is added to 50 without being halved.       *)
ModelScoresUnscaled(m) ==
    IF m = LSTM THEN {25, 50, 75} ELSE {50} \cup {2 * b - 50 : b \in BuyScores}

(* What the agents make of the signal of the strategy: SELL, HOLD and BUY    *)
(* for LSTM; for RL the conviction, which is 0 unless the signal is BUY.     *)
ModelScores(m) == IF m = LSTM THEN {25, 50, 75} ELSE {50} \cup BuyScores

Waiting(s, a) == phase[s] = "voting" /\ vote[s][a] = Asked
Cast(s, a, v) == vote' = [vote EXCEPT ![s][a] = v]
Unlock(s, a) == lock' = [lock EXCEPT ![s] = IF @ = a THEN Nobody ELSE @]

(* record_success and record_error of the ML watchdog.                       *)
AgeAfter(age, failed) ==
    IF ~failed THEN NoError
    ELSE IF age = NoError /\ ~halted THEN 0 ELSE age
Kills(age, failed) == failed /\ age # NoError /\ age >= KillAge

RunStrategy(s, m) ==
    /\ Waiting(s, m)
    /\ lock[s] = Nobody
    /\ lock' = [lock EXCEPT ![s] = m]
    /\ UNCHANGED <<cycleVars, vote, traded, dogVars>>

(* The strategy sends an order; _submit_order_safe asks the kill switch. *)
StrategyTrades(s) ==
    /\ lock[s] # Nobody /\ lock[s] \notin traded[s]
    /\ ~halted
    /\ traded' = [traded EXCEPT ![s] = @ \cup {lock[s]}]
    /\ UNCHANGED <<cycleVars, vote, lock, dogVars>>

(* A signal becomes a vote, no signal an abstention. *)
ModelVotes(s, m) ==
    /\ Waiting(s, m)
    /\ lock[s] = m
    /\ \E v \in ModelScores(m) \cup {Excluded} : Cast(s, m, v)
    /\ Unlock(s, m)
    /\ errorAge' = NoError
    /\ UNCHANGED <<cycleVars, traded, halted>>

(* No strategy, or it raised: caught, and reported to the watchdog. *)
ModelFails(s, m) ==
    /\ Waiting(s, m)
    /\ Cast(s, m, Excluded)
    /\ Unlock(s, m)
    /\ errorAge' = AgeAfter(errorAge, TRUE)
    /\ halted' = (halted \/ Kills(errorAge, TRUE))
    /\ UNCHANGED <<cycleVars, traded>>

AdvisorVotes(s, a) ==
    /\ Waiting(s, a)
    /\ \E v \in AdvisorScores \cup {Excluded, Lost, Malformed} : Cast(s, a, v)
    /\ UNCHANGED <<cycleVars, lock, traded, dogVars>>

(* Faulty variant: a strategy that runs is not cancelled.                    *)
VoteTimesOutUnlessRunning(s, a) ==
    /\ Waiting(s, a)
    /\ lock[s] # a
    /\ Cast(s, a, Lost)
    /\ UNCHANGED <<cycleVars, lock, traded, dogVars>>

(* Faulty variant: the strategy that is cancelled keeps its lock.            *)
VoteTimesOutLocked(s, a) ==
    /\ Waiting(s, a)
    /\ Cast(s, a, Lost)
    /\ UNCHANGED <<cycleVars, lock, traded, dogVars>>

(* The 15 s of a vote: its coroutine is cancelled wherever it waits. *)
VoteTimesOut(s, a) ==
    /\ Waiting(s, a)
    /\ Cast(s, a, Lost)
    /\ Unlock(s, a)
    /\ UNCHANGED <<cycleVars, traded, dogVars>>

-----------------------------------------------------------------------------
(* Consensus.                                                                *)

Weighted(s) == {a \in Agents : vote[s][a] \notin Special}
TotalWeight(s) == SumFunctionOnSet(Weight, Weighted(s))
ScoreSum(s) ==
    SumFunctionOnSet([a \in Weighted(s) |-> Weight[a] * vote[s][a]], Weighted(s))

(* Faulty variant: it is enough that one of the models took part.            *)
AnyModelVoted(s) == \E m \in Models : vote[s][m] \notin Special

(* lstm_valid and rl_valid: without both there is no signal. *)
ModelsVoted(s) == \A m \in Models : vote[s][m] \notin Special

(* Faulty variant: the threshold of the HOLD zone.                           *)
ConsensusFromHalf(s) ==
    CASE ScoreSum(s) > 50 * TotalWeight(s) -> "BUY"
      [] ScoreSum(s) < 35 * TotalWeight(s) -> "SELL"
      [] OTHER -> "HOLD"

(* The weighted mean of the votes, as a signal.                              *)
Consensus(s) ==
    CASE ScoreSum(s) > 65 * TotalWeight(s) -> "BUY"
      [] ScoreSum(s) < 35 * TotalWeight(s) -> "SELL"
      [] OTHER -> "HOLD"

(* Faulty variant: a model that did not answer in time has not failed.       *)
ReportToleratingTimeouts(s) ==
    /\ errorAge' = NoError
    /\ UNCHANGED halted

(* The votes on s are reported to the watchdog: LSTM's, then RL's.  A model  *)
(* that failed and caught it returned a vote, which counts as a success.     *)
ReportModels(s) ==
    LET late(m) == vote[s][m] = Lost
        afterLSTM == AgeAfter(errorAge, late(LSTM))
    IN  /\ errorAge' = AgeAfter(afterLSTM, late(RL))
        /\ halted' = (halted \/ Kills(errorAge, late(LSTM)) \/ Kills(afterLSTM, late(RL)))

(* All votes are in.  Without any the evaluation ends with an error; a       *)
(* malformed one raises, and the graph falls back on the bare strategy.      *)
Tally(s) ==
    LET broken == \E a \in Agents : vote[s][a] = Malformed
    IN  /\ phase[s] = "voting"
        /\ \A a \in Agents : vote[s][a] # Asked
        /\ ReportModels(s)
        /\ phase' = [phase EXCEPT ![s] = IF broken THEN "fallback" ELSE "decided"]
        /\ lock' = [lock EXCEPT ![s] = IF broken THEN Fallback ELSE @]
        /\ signal' = [signal EXCEPT ![s] =
                        IF ~broken /\ ModelsVoted(s) THEN Consensus(s) ELSE @]
        /\ UNCHANGED <<vote, traded>>

(* The bare strategy returns a signal or nothing, fails, or is cancelled     *)
(* when the evaluation has taken 45 s.                                       *)
FallbackEnds(s) ==
    /\ phase[s] = "fallback"
    /\ \E sig \in {"BUY", "SELL", "HOLD", "none"} : signal' = [signal EXCEPT ![s] = sig]
    /\ phase' = [phase EXCEPT ![s] = "decided"]
    /\ Unlock(s, Fallback)
    /\ UNCHANGED <<vote, traded, dogVars>>

(* Once all evaluations have ended the loop goes through their signals; the  *)
(* order may be refused for reasons of its own.                              *)
DispatchSignal(s) ==
    /\ phase[s] = "decided"
    /\ \A t \in Symbols : phase[t] \in {"decided", "idle"}
    /\ phase' = [phase EXCEPT ![s] = "idle"]
    /\ \/ UNCHANGED traded
       \/ /\ signal[s] \in {"BUY", "SELL"} /\ ~halted
          /\ traded' = [traded EXCEPT ![s] = @ \cup {Dispatch}]
    /\ UNCHANGED <<vote, lock, signal, dogVars>>

-----------------------------------------------------------------------------
(* Surroundings.                                                             *)

Tick ==
    /\ errorAge # NoError /\ errorAge < KillAge
    /\ errorAge' = errorAge + 1
    /\ UNCHANGED <<cycleVars, vote, lock, traded, halted>>

(* Another watchdog or a user; a reset leaves the timer of the models. *)
TripOrReset ==
    /\ halted' = ~halted
    /\ UNCHANGED <<cycleVars, vote, lock, traded, errorAge>>

EvaluationNext(s) ==
    \/ \E m \in Models : RunStrategy(s, m) \/ ModelVotes(s, m) \/ ModelFails(s, m)
    \/ \E a \in Advisors : AdvisorVotes(s, a)
    \/ \E a \in Agents : VoteTimesOut(s, a)
    \/ StrategyTrades(s) \/ Tally(s) \/ FallbackEnds(s) \/ DispatchSignal(s)

Next == StartCycle \/ (\E s \in Symbols : EvaluationNext(s)) \/ Tick \/ TripOrReset

Spec == Init /\ [][Next]_vars

(* Timers expire, the event loop goes on, and a loop that is not halted      *)
(* starts its next cycle.  No agent has to answer.                           *)
Fairness ==
    /\ WF_vars(StartCycle) /\ WF_vars(Tick)
    /\ \A s \in Symbols :
          /\ \A a \in Agents : WF_vars(VoteTimesOut(s, a))
          /\ WF_vars(Tally(s))
          /\ WF_vars(FallbackEnds(s))
          /\ WF_vars(DispatchSignal(s))

FairSpec == Spec /\ Fairness

-----------------------------------------------------------------------------

TypeOK ==
    /\ phase \in [Symbols -> {"idle", "voting", "fallback", "decided"}]
    /\ vote \in [Symbols -> [Agents -> (0..100) \cup Special]]
    /\ lock \in [Symbols -> Models \cup {Fallback, Nobody}]
    /\ signal \in [Symbols -> {"none", "BUY", "SELL", "HOLD"}]
    /\ traded \in [Symbols -> SUBSET (Models \cup {Fallback, Dispatch})]
    /\ errorAge \in Nat \cup {NoError}
    /\ halted \in BOOLEAN

(* The signal came out of the round table, not out of the fallback. *)
ByRoundTable(s) == \A a \in Agents : vote[s][a] # Malformed

(* "Strict local dependency": a signal of the round table is dispatched only *)
(* if both models gave a vote that counts, however votes, failures, timeouts *)
(* and the halts of the watchdog were interleaved.                           *)
ModelsDecide ==
    \A s \in Symbols, m \in Models :
        Dispatch \in traded[s] /\ ByRoundTable(s) => vote[s][m] \notin Special

(* The weight of the agents whose vote is above 50, and below.               *)
Backing(s) == SumFunctionOnSet(Weight, {a \in Weighted(s) : vote[s][a] > 50})
Opposing(s) == SumFunctionOnSet(Weight, {a \in Weighted(s) : vote[s][a] < 50})

(* No signal rests on neutral votes: more than 30 % of the weight that       *)
(* counts has voted in the direction of the signal.                          *)
SignalsAreBacked ==
    \A s \in Symbols : ByRoundTable(s) =>
        /\ signal[s] = "BUY"  => 10 * Backing(s)  > 3 * TotalWeight(s)
        /\ signal[s] = "SELL" => 10 * Opposing(s) > 3 * TotalWeight(s)

(* Whoever holds the lock of a symbol is at work on it: a strategy that has  *)
(* returned, failed or been cancelled has given it back.  A lock that is     *)
(* kept would make every later vote and fallback on the symbol time out, and *)
(* its owner would still be taken for one that may trade.                    *)
LocksReturned ==
    \A s \in Symbols : \/ lock[s] = Nobody
                       \/ lock[s] = Fallback /\ phase[s] = "fallback"
                       \/ lock[s] \in Models /\ Waiting(s, lock[s])

(* Every evaluation ends, whoever never answers.                             *)
EvaluationsEnd == \A s \in Symbols : phase[s] = "voting" ~> phase[s] = "idle"

(* Two models that never answer again halt the system in the end: no vote of *)
(* another agent calms the watchdog.                                         *)
SilentModelsHalt ==
    /\ <>[][halted => halted']_vars
    /\ <>[](\A s \in Symbols, m \in Models : vote[s][m] \in {Asked, Lost})
    => <>[]halted

(* "Deterministic hard block before trade execution": orders for a symbol    *)
(* only once the gatekeeper has approved the consensus.                      *)
NoTradeBeforeGate ==
    \A s \in Symbols : traded[s] # {} =>
        phase[s] # "voting" /\ ByRoundTable(s) /\ ModelsVoted(s)

=============================================================================
