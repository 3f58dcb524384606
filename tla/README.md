# TLA+ models of the trading engine

Specifications of the parts of `aaagents-oss` that decide whether an order may
be sent, that send it, and that stop everything else from being sent.  Paths
below are relative to the repository.

## 1. The system

One Python process (the engine) runs an HTTP API, a *trading loop* thread, a
*monitor* thread and some watchdogs.  Every minute the trading loop evaluates
each symbol (a graph of agents, the *Round Table*, or a strategy of its own),
turns the result into a `SignalEvent`, and hands it to the order executor, which
fans it out to the tenants' broker accounts at Alpaca or, without tenants, to
the operator's account.  Several engine processes may share one Redis.

| Component | State | Operations | Interacts with | What makes it correct |
|---|---|---|---|---|
| Kill switch `core/kill_switch.py` | halted flag and user map in memory, mirrored as keys in Redis | `is_halted`, `check_halt`, `trip`, `reset` | called by order paths, trading loop, watchdogs, risk manager, HTTP; Redis | halts stay in their scope and reach every process |
| Order executor `core/engine/order_executor.py` | tenant caches; a Redis lock per user and symbol | `_process_signal_event`, `_execute_tenant_order` | guardian, kill switch, risk and portfolio managers, broker, Redis | lock exclusive, trades booked as filled, executions end |
| Strategies `core/strategies/*.py` | pending orders, cool-downs | `run_for_symbol`, `_submit_order_safe` | guardian, kill switch, broker (worker thread) | same gates as the executor |
| Compliance guardian `core/compliance.py` | daily counter, recent trades | `check_order`, `check_trade`, `reset_daily_limit` | all order paths, news poller | daily limit, no wash trades |
| Risk manager `core/risk_manager.py` | peak, halted, reduced, unlock threshold, portfolio stop | `update_account_equity` (called by the simulation only), `calculate_position_size` | kill switch, broker | drawdown stops trading, recovery resumes it |
| Portfolio manager `core/portfolio_manager.py` | positions, trade times, SELL counts | `should_open_new_position`, `can_sell_position`, `record_trade` | executor, broker | slots, cool-downs |
| Engine lifecycle `core/engine/{base,trading_loop,monitor_loop,simulation_runner}.py` | `_shutdown_event`, `strategy_running`, `monitor_running`, `is_simulation`, threads | start, stop, monitor cycle, trading cycle, simulation | everything | a stopped engine stops; one trading loop |
| Round Table `core/round_table/*.py`, `core/orchestration/graph.py` | weights, votes | `run_round_table`, consensus, gatekeeper | ML watchdog, strategies (run inside the models' votes) | no decision without both models, evaluations end |
| Agent registry `core/agent_registry.py` | active and pending strategy | `register`, `swap`, `commit_swap` | trading loop, monitor, HTTP | engine and registry mean the same strategy |
| Local state client `core/local_state_client.py` | keys with lifetimes | `get`, `set`, `delete`, lists | replaces Redis in desktop mode | behaves like Redis where it is used |
| Watchdogs `core/{cycle,latency,ml}_watchdog.py` | failure counters | `record_*`, `reset` | kill switch | silent failures halt trading |
| Limiters `core/{gemini_budget,alpaca_rate_limiter}.py` | counters under a lock | `check_and_increment`, `_throttle` | | |

Hard behaviours: executions of one signal interleave at every `await` and with
strategies and worker threads; locks expire under their owners; Redis and the
broker fail, answer late or not at all; agents vote late, break or never
answer; the process may restart between any two steps; halts and resets race with the checks that read them.  `PROJECT.json`
lists the most important hazards line by line.

## 2. Modules

| Module | Models |
|---|---|
| `KillSwitch` | `core/kill_switch.py` in several processes around one Redis; implements `HaltContract` |
| `HaltContract` | abstract: how the halts that a process holds may change, however they travel |
| `TradeContract` | abstract: what one execution of a signal promises, whatever its path |
| `OrderExecution` | the three order paths of one engine process: `_execute_tenant_order`, the global branch of `_process_signal_event`, `_submit_order_safe`; with the guardian's counter, the lock and the broker; implements `TradeContract` |
| `EngineLifecycle` | start, stop, monitor thread, trading loop threads and simulations of one engine process, over the events they share |
| `StrategySwap` | the agent registry, `active_strategy` of the engine, and the three kinds of thread that change them |
| `RiskManager`, `Watchdogs` | one risk manager; the cycle and ML watchdogs with the trading loops that feed them |
| `Safeguards` | the composition of the two around one kill switch, with an operator |
| `RoundTable` | how a cycle evaluates its symbols: votes, consensus, signals, dispatch |
| `TradeGuards` | the portfolio manager's and the wash trade memory's guards of one symbol |
| `*Proofs` | theorems about `KillSwitch`, `OrderExecution` (two), `EngineLifecycle`, `StrategySwap`, `Safeguards`, `RoundTable`, `TradeGuards` |
| `MC*` | the instances TLC checks |

How they meet:

* `KillSwitch` models what `is_halted` answers in each process; every other
  module models what one process does with the answer (`halted`), with trips and
  resets at any moment, or as `Safeguards` by the components that cause them.
* A `cycle` of a trading loop of `EngineLifecycle` is what `RoundTable` models
  (or the sequential run of LSTMDynamic); the runs of a strategy inside it are
  the evaluations of `TradeGuards`; what they and the dispatched signals submit
  are the executions of `OrderExecution`.  Two loops may be alive at a time,
  which `OneSequentialCycle` finds, so `StrategySwap` has two.
* `Watchdogs` and `RoundTable` both hold the timer of the ML watchdog: the one
  among resets and starts, the other among the votes that feed it.
* The steps of `EngineLifecycle` from `compare` to `build` are split further in
  `StrategySwap`, which in turn drops the events that end threads.

### KillSwitch

`localHalted` and `userHalted` are `_local_halted` and the true entries of
`_user_halted` of each process, `redis` the scopes whose key reads "true".
`calls` holds the calls that are under way, each at the statement it is about to
carry out:

| Step | Code |
|---|---|
| `get system`, `get user` | `kill_switch.py:44-70`: after the two early returns (`Ask`), the GETs of `is_halted`, with which `trip` begins as well |
| `cache` | the read found a halt: it is about to be stored in memory |
| `not halted` | it found none: `is_halted` answers so, or `trip` goes on to write the memory, whatever has changed there since (`TripMemory`) |
| `set`, `delete` | the SET of `trip`, the DEL of `reset`, after the memory was written |

`connected` is the outcome of the ping of `__init__`; `RedisFails` lets any
read or write raise, which the code swallows.  `tripped` is a history variable.

`HaltContract` keeps, of all this, the scopes each process holds halted
(`HeldHalts`: the flag and the map) and the scopes that were ever tripped.  A
process takes up one halt at a time, by a trip of its own or by
learning of one that was tripped; it gives them up by its own reset, which for
the system ends all of them, or by a restart.  A trip is decided on an answer of
`is_halted` that may be out of date when it takes effect, so the contract lets a
user's halt be taken up beside one of the system.  `Contract` is the refinement
mapping and `KeepsContract` the refinement.  It justifies the variable `halted` of
the other modules, which gains a scope at any moment and loses some only in a
reset or restart.

### OrderExecution

A task is one execution; `pc` names the statement it is at.

| Label | Code |
|---|---|
| `lock` | `order_executor.py:196-210`: acquire without blocking; without `lock()` (desktop mode) or with a failing Redis the execution raises before its `try` |
| `screen` | `212-382`: price, anti-churn, open position, portfolio, swap, size |
| `order`, `limit`, `count` | `384-453`: `check_order`, `check_trade`, `daily_trades += 1` |
| `dedupe` | `strategies/base.py:147-264`: market hours, open orders, buying power |
| `gate` | `kill_switch.check_halt` |
| `submit` | dry run or `submit_order`; may raise with or without the order at the broker |
| `poll`, `sleep`, `cancel` | `518-569`: poll every 2 s for 120 s, else cancel |
| `book` | `571-686`: record the trade; the hard sync of a failing SELL |
| `end` | `750-755`: release the lock, if still owned |

Paths differ where the code differs: the strategy path counts its trade after
the submission, asks only for a system halt, and ignores shadow mode; the
global path has no lock, no polling and no bookkeeping.

`Tick` lets two seconds pass: lock lifetimes shrink (an expired key becomes
free), sleeping tasks wake.  `BrokerDecides` fills or kills an open order at any
moment.  `Halt`, `Reset`, `ResetDailyLimit` and `Restart` happen at any moment;
`Restart` forgets everything of the process, and keeps what is in Redis.

Data left out: prices, quantities and the rules inside `check_order`, the
portfolio manager and the sizing are verdicts chosen nondeterministically, with
one exception: a BUY has size 0 while the system is halted (`Sized`).

`TradeContract` says what is common to the paths: a decision is cleared with the
kill switch, under the scopes the execution obeys, before its order is sent; an
execution sends at most one order of its own; a trade is recorded only if that
order was filled or a dry run replaced it; executions give up at any time.
`Phase` maps the labels to its five phases, `Contract` is the refinement mapping
and `KeepsContract` the refinement.  The close order of a portfolio swap and its
record in the portfolio (`closed`) are outside the contract: the code sends the one
before any of this, and writes the other at once, without looking for a fill.
`closed[t]` is what became of them: the order stays open or fills, and it is
recorded unless its submission raised (`SwapOut`).  `Closes` lists the combinations
an instance chooses from.

### EngineLifecycle

| Variable | Code |
|---|---|
| `shutdown`, `running`, `monitoring`, `simulating` | `_shutdown_event`, `strategy_running`, `monitor_running`, `is_simulation` |
| `active`, `target`, `chosen` | name of `active_strategy`, `config.ACTIVE_STRATEGY`, the class a monitor is about to instantiate |
| `halted`, `sims` | answer of `is_halted()`, simulation threads alive |
| `pc`, `ret` | where a thread is, and where `stop_strategy` returns to in it |
| `asked`, `failed` | history: last command (`ignored` if `stop_strategy` returned early, `unclear` if a start was in flight), and whether the session met a failure or a halt |

| Thread | Labels and code |
|---|---|
| caller (`Http`, `Timer`) | `reset` (`base.py:478-487`), `flags`, `join` (`stop_strategy`, `572-605`), `clear` (`499`), `account` (`531-555`), then both threads are launched (`557-567`) |
| monitor | `top` (`monitor_loop.py:31`, also its wait), `scan` (`33-74`), `compare` (`118-135`), `switch` (join, `137`), `check` (`163`), `build` (`165-250`), `join` |
| trading loop | `boot` (health check), `top` (`trading_loop.py:172`, also its sleeps), `gate` (`191`), `clock` (`197-237`), `cycle` (`239-566`) |

A thread slot is `dead` and may be launched again.  Between two labels a thread
makes no blocking call; joins end at any moment, since they give up after some
seconds.  The HTTP handlers are coroutines that never await, so commands
over HTTP exclude each other; the timer of `AUTO_START_STRATEGY` fires once and
runs beside them.  A launch waits for a free slot, which is the bound of the model.
Left out: news and heartbeat threads, and a start without broker.

### StrategySwap

`built`, `activeName` and `pending` are `_strategies`, `_active_name` and
`_pending_name` of the registry; `active`, `target` and `lock` are
`active_strategy`, `ACTIVE_STRATEGY` and `strategy_lock` of the engine.  An
instance is a name and a generation; two generations in turn tell a new instance
from the one it replaces.  The registry's own lock is held within one step
everywhere, so it needs no variable.  The handover is four steps, split where
another thread can come in: `ReadPending`, `Commit` (registry's lock), `CopyName`
and `Assign` (`strategy_lock`; the name is read before the dictionary).  The
monitor builds and registers under `strategy_lock` (`Build`, `Register`).

Two facts of the code simplify the model.  The position lock of `/api/strategy/swap`
(`api_routes.py:489`) calls `list_positions`, which the client does not have; the
exception handler goes on without the lock, so `Swap` has no such guard.  A switch
between the two strategies there are liquidates nothing.  The flag `shadow_mode`
of a swap is written and never read.

### RiskManager, Watchdogs, Safeguards

`RiskManager` is `update_account_equity` in one action, `UpdateEquity`, made of
the decisions it takes in order: portfolio stop, tier 1, circuit breaker, adaptive
unlock.  Its thresholds are exact, in tenths of the limit.  Time since the last
halt is one of the spans the code distinguishes.  The simulation keeps one risk
manager for all its runs; it has no `user_id`, so its trips and resets are those
of the whole system.  `SizePercent` is what the halts leave of a position size.

`Watchdogs` splits `record_empty_cycle` at its log and alert: the counter is
incremented (`EmptyCycle`) and compared (`Compare`) in two steps.  `kill_switch.reset`
releases the halt (`Release`) and then resets the cycle watchdog
(`ResetWatchdog`); `resetting` holds the callers in between, in both modules.
A model that fails puts its loop at `failed` until the evaluation goes on
(`GoesOn`), so that failures which change no counter can be told from none.
`Safeguards` owns `halted` and `resetting` and lets the risk manager, the
loops and an operator act on them.

### RoundTable

For each symbol `phase` is where its evaluation is, `vote` what each agent said:
a score in percent, or `Asked`, `Excluded` (weight 0: an abstention or a failure
that the agent caught), `Lost` (timed out or raised), `Malformed`.  The votes of
the two models run the active strategy, under the lock of the symbol
(`RunStrategy`, `lock`), and the strategy sends orders of its own
(`StrategyTrades`).  `Tally` ends the voting: it reports the models to the ML
watchdog, falls back on the bare strategy if a vote is malformed, and otherwise
makes a signal of the weighted mean if both models took part.  Signals are
dispatched when all evaluations of the cycle have ended.  `traded` is a history
variable.  The gatekeeper approves all it is asked: `_portfolio_context` is never
set, and its checks of an empty context pass.

### TradeGuards

One symbol.  `own[l]` is where its evaluation in the loop `l` waits: the lock of a
symbol is kept per event loop, so every trading loop that is alive evaluates the
symbol beside the others, on the one portfolio manager of the strategy.  `swap[o]`
is the sale of this position by the evaluation of another symbol, which takes no
lock of this one and never asks `can_sell_position`.  `trades`, `fresh` and `sells`
are what the portfolio manager remembers: trades recorded today, whether the last is
younger than half an hour, consecutive SELL signals.  `recent` is the wash trade
memory for the symbol: sides approved within 60 s.  `OwnCancelled` and
`SwapCancelled` are the 15 s of a vote: the coroutine is gone, a thread that sends
goes on, and nobody records its trade.  `Rebuild` is the monitor that builds the
strategy anew, with an empty portfolio manager; evaluations of the replaced one
(`old`) may still have an order approved and sent, which only the old manager
records.  So everything said of counts holds per portfolio manager: a rebuilt
strategy may buy up to the limit once more on the same day.  The
executor's own orders use another `user_id` in the guardian, so they are
`TradedElsewhere`.

A step is what a thread does between two waits.  CPython 3.12 switches threads at calls
and backward jumps, so the increment of a counter is whole; between the count of a
SELL and its test, and between the record of a sale and the clearing of the count,
the other loops come in.

## 3. Runs

| Run | Question | Bounds and why they are enough |
|---|---|---|
| `kill_switch` | Are halts scoped, do processes gain and lose them as the contract says, and do they propagate? | two processes (a halt crosses Redis once), one user beside the system, three calls in flight: a trip, a reset and a stale read can all overlap, each between any two of its statements; reads and writes may fail, processes restart |
| `order_execution` | Lock, bookkeeping, daily limit, halt; does every step keep the contract and bring its execution nearer to the end? | two executions, interchangeable (symmetry), over one tenant and the operator, one signal per path, each BUY with a swap whose sale is recorded unfilled (`Closes`) or without; the lock lives 2 polls and polling lasts 2, but time passes between the other steps too, so the lock expires under an owner that screens, submits or polls; limit 1 is where both race |
| `order_liveness` | Do executions end whose calls return, and do locks come free whatever returns? | two executions of one tenant's BUY, lock 1 poll, 2 polls |
| `order_lease` | "protected against parallel order submits by a distributed lock" | found |
| `engine_lifecycle` | Do threads keep to their statements, does a stop stick, and does a stopped engine only wind down? | two loops, one monitor, timer, one simulation, a configured name that no strategy has |
| `engine_liveness` | Does a stop end everything, a halt end trading, a start last? | two loops and two monitors, so that each can outlive its session and be revived by the next; no simulation and no timer, which keeps the graph within reach |
| `engine_cycle` | "sequentially: every buy sees the current buying power" | found with one session of LSTMDynamic |
| `safeguards` | Do sizes follow the drawdown, do halts end when they should, do failures halt? | five equities, on each side of every threshold; one loop; 2 empty cycles and 2 ticks to the kill |
| `round_table` | Do both models decide, are signals backed, do locks come back, do evaluations end, do silent models halt? | one symbol, both models, a heavy and a light advisor with their default weights, scores at both ends and in the middle; two symbols exceed the time of a run (the symbols share only the watchdog) |
| `round_table_gate` | "deterministic hard block before trade execution" | found |
| `trade_guards` | By how much can the daily limit be exceeded, do signalled sales keep the hold period, and do insisted sales get through? | two loops, as many as `engine_cycle` finds, and one other symbol; limit 1, where both race for the last trade; threshold 2, the first value at which something is counted up |
| `strategy_swap` | Do engine and registry agree, do swaps and the configured strategy take effect? | the two strategies there are, two loops, one monitor; stops stand for what a second session would do to the names |

What each property says is at its definition.  The least obvious ones:
`HaltPropagates` (a halt that stays in Redis sticks in each process, also after
resets that wiped its memory), `OvershootBounded` (how far concurrent executions exceed
the daily limit), `StopIsFinal` (no reset or recovery brings the sizes back after the portfolio
stop), `EmptyCyclesHalt` (holds for one loop; with two loops both increments can
come before both comparisons, and `==` then misses the threshold),
`HaltStopsOrders` (for every scope: what is still sent under a halt of the system or of
a user is at most one order of each execution that obeys this scope),
`ExecutionAdvances` (a count of the steps left that falls with every move: the
safety part of `ExecutionEnds`), `StopDrains` (while a stop is the last command no
trading cycle begins, and only monitors that were past their check launch a loop,
one each), `LocksReturned` (who holds the lock of a symbol is running: a vote
cancelled by its timeout gave it back), `SignalsAreBacked` (a signal has more than
30 % of the counting weight behind it: the thresholds of 65 and 35 % imply it, a
neutral table gives none),
`ViewsAgree` (outside a
handover or a registration the round table votes with the very instance that
the engine trades with), `InsistedSalesHappen` (hold period, wash trade memory and
pending orders together never keep a position for ever), `BuysPerDay` (buys recorded and on
their way exceed the daily limit by less than the number of loops; with one loop it
is the limit itself), `SignalledSalesInsisted` (the hold period for sales that SELL
signals ask for, not for those of a swap).

The runs with a quotation are expected to find a violation; what they found:

* `order_lease`: the lock expires after 12 s while its owner polls an open order
  for up to 120 s; the next signal for the same user and symbol submits again.
* `engine_cycle`: a start launches a loop and a monitor; the first monitor cycle
  sees no active strategy, clears `strategy_running`, joins the loop for 10 s, and
  launches another one.  The first loop, asleep in a closed market or in a slow
  call, finds `strategy_running` set again: two loops trade side by side.
* `round_table_gate`: a model votes by `run_for_symbol`, which sends the strategy's
  order itself, while others still vote and before the gatekeeper is asked.

Six more divergences can be read off the models by checking an invariant that
says otherwise; no run is kept for them:

* a halt that a process has cached stays in its memory after another process has
  reset it in Redis (`kill_switch.py:58`), though the class "uses Redis to
  synchronize state" (`kill_switch.py:17`): in `KillSwitch`, `localHalted[p]` with
  the system's scope not in `redis` and `calls` empty;
* the order that closes a position for a portfolio swap goes to the broker also in
  shadow mode (`order_executor.py:355`): in `OrderExecution`, `closed[t]` other than
  `NotClosed` with `conf.shadow`;
* the sale for such a swap is recorded in the statement after its submission, filled or
  not (`order_executor.py:356`), while of the signal's own order a comment says "prevent
  pm.record_trade from running for an unfilled order" (`order_executor.py:568`): in
  `OrderExecution`, `closed[t].booked` with `closed[t].order` not "filled";
* a strategy that makes room for another symbol sells a position it has just traded
  (`rl_execution.py:634`), since only SELL signals ask `can_sell_position`, though the
  portfolio manager means to "enforce minimum hold periods" (`portfolio_manager.py:72`):
  in `TradeGuards`, `SwapSent(o)` with `fresh` and `streak < Threshold`;
* with two trading loops alive, both evaluate a symbol, pass the test of the daily limit
  and record a buy, since the lock that "prevents parallel evaluations of the same
  symbol" (`rl_strategy.py:326`) is one of each event loop: in `TradeGuards` with two
  loops, `buys > MaxTrades`;
* a restart that fails to fetch the account leaves the event and all flags clear
  (`base.py:543`), so `/stop` returns early and answers success while a monitor in
  the middle of its switch launches a loop: in `EngineLifecycle`, `asked = "ignored"`
  with a loop alive, `running` set and `shutdown` clear.

### Fairness

`KillSwitch`: a call that began goes on, answered by Redis or refused (WF); the
trading loop asks `is_halted` every cycle, so a question that is open again and again
is asked (SF of `Ask`).  `HaltPropagates` also assumes, in the formula, that the
process is eventually no longer restarted or reset and that its reads of Redis no
longer miss a halt that is there.

`OrderExecution`: time passes (WF of `Tick`), and nothing else.  The code puts no time limit
on the calls of the broker at `order_executor.py:516`, `531` and `559`, and a call that
hangs is never counted as time waited; so `ExecutionEnds` says in its formula that it
speaks of an execution whose own calls return (`CallsReturn`), with any answer.
`LockComesFree` needs no such premise.

`EngineLifecycle`: every thread is scheduled and its blocking calls come back (WF
of `Work` per thread), simulations end; nothing is assumed of commands, trips and
resets.  `StopLasts` and `StartLasts` name in the formula which command is the last
one and `HaltStopsTrading` a halt that is not reset.  A session that met a failed
start, health check or build, or a halt, is outside `StartLasts`: the code gives it up.

`Safeguards`: the simulation goes on updating its risk manager and a loop goes on
with its cycle (WF), resets end, time passes.  Nothing is assumed of the market, of
the outcome of evaluations, of trips and resets; the properties name in their
formula which of these stay away, and that failures keep coming: `FailingModelsHalt`
that calls of `record_error` do as long as the system runs, whether or not they change
anything.

`RoundTable`: timers expire (`asyncio.wait_for`), the event loop goes on after them,
a loop that is not halted starts its next cycle.  No agent has to answer, and no
strategy has to come back.

`TradeGuards`: clocks run, the broker fills what it holds, the loops keep evaluating
(WF).  SF of `SellCounted` and `SellSent` says that a strategy which keeps saying SELL is one time not
stopped by the risk filter just when everything else allows the sale.
`InsistedSalesHappen` names in its formula what no longer interferes.

`StrategySwap`: loops and monitors go on (WF of their step); both repeat for ever with
a sleep in between.  `Disturbs` names stops, mode changes and failing builds.

## 4. Proofs

All by TLAPS, for every value of the constants that satisfies the `ASSUME` of
the module (finitely many tasks, distinct names, positive bounds).

| Theorem | Argument |
|---|---|
| `KillSwitchProofs!TypeCorrect`, `Scoped` | `HaltsAreScoped` is inductive once it also covers the calls in flight, which is why it does; `TypeOK` supports it |
| `KillSwitchProofs!ContractKept` | the refinement: a step on the memory of a process is a step of `HaltContract` on its halts, the rest changes none; a trip takes effect whatever has changed since its reads; that a halt read from Redis, however long ago, was tripped is `HaltsAreScoped` |
| `OrderExecutionProofs!TypeCorrect` | `TypeOK` with two facts about program points: only tenants are at the labels of the lock and the polling loop, and a sleeping task has polls left |
| `Exclusive` | `LeaseInv`: a free key has no lifetime left, and the key of a task that has held its lock for `age < LockTTL` is owned by it with `left + age = LockTTL`; two such tasks would both own the key |
| `Overshoot` | steps of one task move it into the set of counting tasks only below the limit, so `daily` plus the counting tasks grows only while it is within the bound; uses the finiteness of `Tasks` |
| `HaltStops` | `Draining`, for each scope: `late` plus the tasks past the gate that obey the scope never exceeds the number of tasks during its halt, since none of these passes the gate; without a halt nothing is late |
| `Booked` | for the signal's own order; `Recorded`: a task at `book` outside shadow mode has a filled order, and a filled order stays filled |
| `Advance` | `StepsFrom` orders the labels, and counts the polls left in the loop; a task in the loop has a poll left (`PollsLeft`, of `TypeInv`), so that waking up counts down as well |
| `OrderContractProofs!ContractKept` | the refinement: each action of `OrderExecution` is a step of `TradeContract`, or changes nothing it speaks of; `Unsent` (an execution before the end of its submission has no order at the broker) rules out a second order, `Recorded` a booking without a fill |
| `EngineLifecycleProofs!TypeCorrect` | `TypeOK` with `Returns`: `stop_strategy` returns to a statement of its own caller |
| `StopStays` | `Stopped`: after a stop that took effect the event is set and no caller is between the beginning of a start and its launch, the only place besides a new command that clears it |
| `StopAlwaysDrains` | `Stopped` keeps the event set and callers away from their launches, and every way into a cycle, a build or a launch but that of a monitor already in its build asks for the event; `Calm` is what all other steps share |
| `SafeguardsProofs!TypeCorrect`, `ExposureFollows`, `StopFinal` | `Tiers`: above 60 % of the limit the risk manager is reduced or halted, above the limit halted, and halted since the portfolio stop; an update keeps it because every unlock threshold lies below both tiers |
| `EmptyCyclesKill` | `Counted`: a counter above the threshold, also at a comparison, finds the halt or a reset under way; with one loop the counter cannot pass the threshold between an increment and its comparison |
| `RoundTableProofs!TypeCorrect`, `ModelsAlwaysDecide` | `DecisionInv`: votes change only while a symbol is voting, and then it has neither a signal nor a dispatched order; a signal appears in the tally from both models, or in a fallback |
| `SignalsAlwaysBacked` | a mean above 65 % needs more than 30 % of the weight on scores above 50 %, else at most 30 % · 100 + 70 % · 50 = 65 is reached; the sums over sets of agents are split and bounded by lemmas, each proved by induction in the form of a minimal counterexample (the subset order of a finite set is well-founded); votes do not change once a signal is made |
| `LocksAlwaysReturned` | a model that holds the lock is marked as asked, the fallback holds it in its phase only; every way a vote ends releases it |
| `TradeGuardsProofs!TypeCorrect`, `BuysLimited` | `BuysCounted`: recorded buys are among the recorded trades, so a loop passes the test only while fewer than the limit are recorded, and then at most all loops are on their way to a buy; uses the finiteness of `Loops` |
| `SignalledSalesHeld` | `sells <= streak`: whatever clears the history clears the count as well |
| `StrategySwapProofs!TypeCorrect` | with `Places` (who holds `strategy_lock`, and where) and `Reads` |
| `ViewsAlwaysAgree` | `Reads`: a monitor about to register has just built what the engine trades with, and a loop that copies an outdated name leaves the correction to the loop that outdated it, which is still at `copy` |

Only model-checked: `HaltPropagates`, `ExecutionEnds`, `LockComesFree`,
`StopLasts`, `HaltStopsTrading`, `StartLasts`, `HaltEndsWithDrawdown`,
`FailingCyclesHalt`, `FailingModelsHalt`, `EvaluationsEnd`, `SilentModelsHalt`,
`InsistedSalesHappen`, `SwapsTakeEffect`, `TargetPrevails`: liveness under fairness is
beyond this prover.  Of three of them the safety part is proved: `ContractKept` (halts that
a process holds, for `HaltPropagates`), `Advance` (`ExecutionEnds`) and
`StopAlwaysDrains` (`StopLasts`).  Every invariant and action property of a passing run
is a theorem.

## 5. Not modelled

* The rest of the portfolio manager: slots, scores, the debate about a swap.  They
  decide by floating-point scores on a view of the positions that the broker
  refreshes; `TradeGuards` leaves the outcome open.
* `reset_daily_limit` and `evaluate_new_trade` of the risk manager, the
  reconciliation service, `alpaca_rate_limiter`: nothing calls them at this commit
  outside tests.
* The local state client: a dictionary with lifetimes under one lock.  What the order
  paths feel of it, the missing `lock()`, is in `OrderExecution`.
* The Gemini budget: one counter under one lock.
* The pinging thread of the latency watchdog, news and heartbeat threads: of the
  first only its trips matter here; the others end with the first stop and keep no
  trading state.
* The inside of a simulation and of backtests: sequential replay of data; of it only
  the shared events (`EngineLifecycle`) and the risk manager are concurrent.
* Training and inference (`core/ml`, `models`, `core/learning`), exits and
  specialists: numeric heuristics over market data without shared state.
* Indicators (`pandas-ta`, vendored), data providers, authentication and storage, the
  React front end, scripts and migrations: most of the repository's lines, with
  nothing a model checker reaches.

Worth doing next: the two symbols of `RoundTable` with a smaller table, the
simulation threads of a second session in `EngineLifecycle` (`simulation_runner.py:380`),
and `InsistedSalesHappen` with the executor's lock of the same symbol.
