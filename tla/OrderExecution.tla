--------------------------- MODULE OrderExecution ---------------------------
(***************************************************************************)
(* Order execution in one engine process: how a signal becomes an order at *)
(* the broker.  Three code paths share the ComplianceGuardian's daily      *)
(* counter, the kill switch and the broker accounts:                       *)
(*                                                                         *)
(*   tenant    _execute_tenant_order of core/engine/order_executor.py: a   *)
(*             Redis lock per user and symbol, screening, compliance, kill *)
(*             switch, submission, polling, cancel, bookkeeping;           *)
(*   global    the branch of _process_signal_event without tenants;        *)
(*   strategy  _submit_order_safe of core/strategies/base.py.              *)
(*                                                                         *)
(* A task is one execution: a coroutine of an event loop or of a second    *)
(* loop thread.  A step ends where the code awaits or makes a network      *)
(* call, and threads may interleave between any two steps.                 *)
(*                                                                         *)
(* Abstractions: prices, sizes and the rules of the portfolio manager, of  *)
(* the risk manager and of check_order are nondeterministic verdicts; the  *)
(* lock lifetime and the polling loop are counted in polls (2 s).          *)
(***************************************************************************)
EXTENDS Naturals, FiniteSets

CONSTANTS
    Tasks,       \* executions that may run at the same time
    NoTask,      \* owner of a free lock
    NoSignal,    \* what an idle task executes
    Users,       \* tenants
    Operator,    \* the account of engine.api, without tenants
    System,      \* the global scope of the kill switch
    Symbols,     \* traded symbols
    Signals,     \* the signals the engine is fed with
    Closes,      \* what may have become of an order that closes another
                 \* position when its execution goes on
    Deployments, \* what get_redis returns ("redis", "local" or "none") and
                 \* whether config.SHADOW_MODE is set
    MaxDaily,    \* max_daily_trades
    LockTTL,     \* lifetime of the order lock in polls (12 s / 2 s)
    MaxPolls     \* polls before giving an order up (120 s / 2 s)

Accounts == Users \cup {Operator}
Sides == {"BUY", "SELL"}
SignalType ==
    [kind : {"tenant"}, acct : Users, sym : Symbols, side : Sides]
    \cup [kind : {"global", "strategy"}, acct : {Operator},
          sym : Symbols, side : Sides]

ASSUME OrderExecutionAssumption ==
    /\ IsFiniteSet(Tasks)
    /\ NoTask \notin Tasks
    /\ Operator \notin Users
    /\ System \notin Accounts
    /\ Signals \subseteq SignalType
    /\ NoSignal \notin Signals
    /\ Closes \subseteq [order : {"open", "filled"}, booked : BOOLEAN]
    /\ Deployments \subseteq [backend : {"redis", "local", "none"}, shadow : BOOLEAN]
    /\ MaxDaily \in Nat \ {0}
    /\ LockTTL \in Nat \ {0}
    /\ MaxPolls \in Nat \ {0}

Keys == Users \X Symbols                      \* order_lock:{user}:{symbol}
Scopes == Users \cup {System}                 \* what the kill switch halts

VARIABLES
    pc,        \* where each task is; "idle" when it executes nothing
    req,       \* the signal a task executes
    polls,     \* completed sleeps of the polling loop of a task
    order,     \* the main order of a task at the broker, "none" if not sent
    closed,    \* the order with which a task closed another position, as it
               \* stood when the task went on, and whether it was recorded
    booked,    \* TRUE once the tenant's PortfolioManager recorded the trade
    acquired,  \* TRUE while the task believes it holds its order lock
    age,       \* polls since the task acquired the lock, at most LockTTL
    lock,      \* owner of each order lock in Redis
    left,      \* remaining lifetime of each lock
    daily,     \* ComplianceGuardian.daily_trades
    halted,    \* scopes this process holds halted (KillSwitch.tla)
    late,      \* history: main orders sent under each halt since it began
    conf       \* how the process is deployed; never changes

execVars == <<req, polls, order, closed, booked, acquired, age>>
lockVars == <<lock, left>>
vars == <<pc, execVars, lockVars, daily, halted, late, conf>>

-----------------------------------------------------------------------------

Key(t) == <<req[t].acct, req[t].sym>>
Kind(t) == req[t].kind

(* The scopes check_halt looks at: a strategy passes no user_id. *)
HaltScopes(t) == {System} \cup IF Kind(t) = "strategy" THEN {} ELSE {req[t].acct}

NotClosed == [order |-> "none", booked |-> FALSE]

Goto(t, label) == pc' = [pc EXCEPT ![t] = label]

(* A statement of t that changes nothing here but where t is. *)
Step(t, from, to) ==
    /\ pc[t] = from
    /\ Goto(t, to)
    /\ UNCHANGED <<execVars, lockVars, daily, halted, late, conf>>

Init ==
    /\ pc = [t \in Tasks |-> "idle"]
    /\ req = [t \in Tasks |-> NoSignal]
    /\ polls = [t \in Tasks |-> 0]
    /\ order = [t \in Tasks |-> "none"]
    /\ booked = [t \in Tasks |-> FALSE]
    /\ acquired = [t \in Tasks |-> FALSE]
    /\ age = [t \in Tasks |-> 0]
    /\ lock = [k \in Keys |-> NoTask]
    /\ left = [k \in Keys |-> 0]
    /\ closed = [t \in Tasks |-> NotClosed]
    /\ daily = 0
    /\ halted = {}
    /\ late = [s \in Scopes |-> 0]
    /\ conf \in Deployments

-----------------------------------------------------------------------------
(* Beginning and end of an execution.                                        *)

(* A strategy that calls _submit_order_safe has screened its signal itself.  *)
EntryOf(s) ==
    CASE s.kind = "tenant"   -> "lock"
      [] s.kind = "global"   -> "screen"
      [] s.kind = "strategy" -> "order"

Start(t, s) ==
    /\ pc[t] = "idle"
    /\ Goto(t, EntryOf(s))
    /\ req' = [req EXCEPT ![t] = s]
    /\ UNCHANGED <<polls, closed, order, booked, acquired, age, lockVars,
                   daily, halted, late, conf>>

(* lock.acquire(blocking=False) on a free key.                               *)
AcquireLock(t) ==
    /\ pc[t] = "lock"
    /\ conf.backend = "redis"
    /\ lock[Key(t)] = NoTask
    /\ lock' = [lock EXCEPT ![Key(t)] = t]
    /\ left' = [left EXCEPT ![Key(t)] = LockTTL]
    /\ acquired' = [acquired EXCEPT ![t] = TRUE]
    /\ Goto(t, "screen")
    /\ UNCHANGED <<req, polls, closed, order, booked, age, daily, halted, late, conf>>

(* The key is taken: "Concurrent execution blocked".  Also the exits before  *)
(* the try block: Redis raises, or the LocalStateClient has no lock().       *)
LockRefused(t) ==
    /\ conf.backend \in {"redis", "local"}
    /\ Step(t, "lock", "end")

(* Without a Redis client the execution goes on with lock = None. *)
NoLock(t) ==
    /\ conf.backend = "none"
    /\ Step(t, "lock", "screen")

(* The locals of a task that is over.                                        *)
Forget(t) ==
    /\ Goto(t, "idle")
    /\ req' = [req EXCEPT ![t] = NoSignal]
    /\ polls' = [polls EXCEPT ![t] = 0]
    /\ order' = [order EXCEPT ![t] = "none"]
    /\ booked' = [booked EXCEPT ![t] = FALSE]
    /\ acquired' = [acquired EXCEPT ![t] = FALSE]
    /\ age' = [age EXCEPT ![t] = 0]
    /\ closed' = [closed EXCEPT ![t] = NotClosed]
    /\ UNCHANGED <<daily, halted, late, conf>>

(* Faulty variant: the release deletes the key whoever owns it by now.       *)
EndUnowned(t) ==
    /\ pc[t] = "end"
    /\ \/ /\ acquired[t]
          /\ lock' = [lock EXCEPT ![Key(t)] = NoTask]
          /\ left' = [left EXCEPT ![Key(t)] = 0]
       \/ UNCHANGED lockVars
    /\ Forget(t)

(* Every return of the path: the finally block releases the lock.  The       *)
(* release of an expired lock raises and is only logged, as is a release     *)
(* that does not reach Redis and leaves the lock to its lifetime.            *)
End(t) ==
    /\ pc[t] = "end"
    /\ \/ /\ acquired[t]
          /\ lock[Key(t)] = t
          /\ lock' = [lock EXCEPT ![Key(t)] = NoTask]
          /\ left' = [left EXCEPT ![Key(t)] = 0]
       \/ UNCHANGED lockVars
    /\ Forget(t)

-----------------------------------------------------------------------------
(* Screening: price, anti-churn, open position, portfolio, position size.    *)

(* calculate_position_size is 0 for a BUY while the system is halted; the    *)
(* global path sizes only a signal that carries no quantity.                 *)
Sized(t) == Kind(t) = "tenant" /\ req[t].side = "BUY" => System \notin halted

Screened(t) == Sized(t) /\ Step(t, "screen", "order")
ScreenedOut(t) == Step(t, "screen", "end")

(* The portfolio manager makes room for a BUY by closing another position:   *)
(* the close order goes straight to the broker, before size, compliance and  *)
(* kill switch are looked at.  It is recorded as soon as submit_order        *)
(* returns, filled or not, and nobody follows it.  What raises on the way,   *)
(* in submit_order or in record_trade, is only logged.                       *)
SwapOut(t) ==
    /\ pc[t] = "screen"
    /\ Kind(t) = "tenant"
    /\ req[t].side = "BUY"
    /\ \E c \in Closes : closed' = [closed EXCEPT ![t] = c]
    /\ \/ Sized(t) /\ Goto(t, "order")
       \/ Goto(t, "end")
    /\ UNCHANGED <<req, polls, order, booked, acquired, age, lockVars, daily,
                   halted, late, conf>>

-----------------------------------------------------------------------------
(* Compliance and kill switch.                                               *)

OrderApproved(t) == Step(t, "order", "limit")
OrderRejected(t) == Step(t, "order", "end")

(* Faulty variant: the limit is compared with > instead of >=.               *)
TradeAllowedAtLimit(t) ==
    /\ daily <= MaxDaily
    /\ Step(t, "limit", IF Kind(t) = "strategy" THEN "dedupe" ELSE "count")

(* check_trade; a strategy counts its trade only after the submission.       *)
TradeAllowed(t) ==
    /\ daily < MaxDaily
    /\ Step(t, "limit", IF Kind(t) = "strategy" THEN "dedupe" ELSE "count")

TradeRefused(t) ==
    /\ daily >= MaxDaily
    /\ Step(t, "limit", "end")

(* daily_trades += 1: before the kill switch on the executor paths, as the   *)
(* last statement of a strategy's submission.                                *)
CountTrade(t) ==
    /\ pc[t] = "count"
    /\ daily' = daily + 1
    /\ Goto(t, IF Kind(t) = "strategy" THEN "end" ELSE "gate")
    /\ UNCHANGED <<execVars, lockVars, halted, late, conf>>

(* A strategy looks for an open order of the same symbol and side, and at    *)
(* market hours and buying power; a failing query does not stop it.          *)
Dedupe(t) == Step(t, "dedupe", "gate")
DedupeRefused(t) == Step(t, "dedupe", "end")

(* Faulty variant: nobody asks the kill switch.                              *)
GateMissing(t) == Step(t, "gate", "submit")

(* kill_switch.check_halt raises if a scope it looks at is halted.           *)
GatePassed(t) ==
    /\ HaltScopes(t) \cap halted = {}
    /\ Step(t, "gate", "submit")

GateRaised(t) ==
    /\ HaltScopes(t) \cap halted # {}
    /\ Step(t, "gate", "end")

-----------------------------------------------------------------------------
(* Submission, polling, cancel, bookkeeping.                                 *)

(* Where a task goes once the broker has its order.                          *)
AfterSubmit(t) ==
    CASE Kind(t) = "tenant"   -> "poll"
      [] Kind(t) = "global"   -> "end"
      [] Kind(t) = "strategy" -> "count"

(* SHADOW_MODE replaces the broker by a dry run on the executor paths.       *)
DryRun(t) ==
    /\ conf.shadow
    /\ Kind(t) # "strategy"
    /\ Step(t, "submit", IF Kind(t) = "tenant" THEN "book" ELSE "end")

(* The broker accepts the main order of t. *)
Sent(t) ==
    /\ order' = [order EXCEPT ![t] = "open"]
    /\ late' = [s \in Scopes |-> IF s \in halted \cap HaltScopes(t)
                                 THEN late[s] + 1 ELSE late[s]]

Submit(t) ==
    /\ pc[t] = "submit"
    /\ conf.shadow => Kind(t) = "strategy"
    /\ Sent(t)
    /\ Goto(t, AfterSubmit(t))
    /\ UNCHANGED <<req, polls, closed, booked, acquired, age, lockVars, daily,
                   halted, conf>>

(* Faulty variant: a failed submission is tried again at once.               *)
SubmitRetried(t) ==
    /\ pc[t] = "submit"
    /\ conf.shadow => Kind(t) = "strategy"
    /\ Sent(t) \/ UNCHANGED <<order, late>>
    /\ UNCHANGED <<pc, req, polls, closed, booked, acquired, age, lockVars, daily,
                   halted, conf>>

(* submit_order raises, whether or not the broker accepted the order; or      *)
(* asyncio.wait_for gives a strategy up while an executor thread submits, and *)
(* the thread still sends the order.  Either way the statements after the     *)
(* submission are not executed.                                               *)
SubmitFailed(t) ==
    /\ pc[t] = "submit"
    /\ conf.shadow => Kind(t) = "strategy"
    /\ Sent(t) \/ UNCHANGED <<order, late>>
    /\ Goto(t, "end")
    /\ UNCHANGED <<req, polls, closed, booked, acquired, age, lockVars, daily,
                   halted, conf>>

(* Faulty variant: a dead order is taken for a finished one.                 *)
PollDeadBooks(t) ==
    /\ order[t] = "dead"
    /\ Step(t, "poll", "book")

PollFilled(t) ==
    /\ order[t] = "filled"
    /\ Step(t, "poll", "book")

PollDead(t) ==
    /\ order[t] = "dead"
    /\ Step(t, "poll", "cancel")

(* The order is still open, or the query raised: sleep and try again.        *)
PollAgain(t) == Step(t, "poll", "sleep")

(* Cancelling succeeds only on an open order; a failure is logged.           *)
Cancel(t) ==
    /\ pc[t] = "cancel"
    /\ \/ order[t] = "open" /\ order' = [order EXCEPT ![t] = "dead"]
       \/ UNCHANGED order
    /\ Goto(t, "end")
    /\ UNCHANGED <<req, polls, closed, booked, acquired, age, lockVars, daily,
                   halted, late, conf>>

(* record_trade, and for a failing SELL the hard sync against the broker,    *)
(* which records the trade only if the position is gone (404).               *)
Book(t) ==
    /\ pc[t] = "book"
    /\ \E b \in BOOLEAN : booked' = [booked EXCEPT ![t] = b]
    /\ Goto(t, "end")
    /\ UNCHANGED <<req, polls, closed, order, acquired, age, lockVars, daily,
                   halted, late, conf>>

Execute(t) ==
    /\ pc[t] # "idle"
    /\ \/ AcquireLock(t) \/ LockRefused(t) \/ NoLock(t)
       \/ Screened(t) \/ ScreenedOut(t) \/ SwapOut(t)
       \/ OrderApproved(t) \/ OrderRejected(t)
       \/ TradeAllowed(t) \/ TradeRefused(t) \/ CountTrade(t)
       \/ Dedupe(t) \/ DedupeRefused(t)
       \/ GatePassed(t) \/ GateRaised(t)
       \/ DryRun(t) \/ Submit(t) \/ SubmitFailed(t)
       \/ PollFilled(t) \/ PollDead(t) \/ PollAgain(t)
       \/ Cancel(t) \/ Book(t) \/ End(t)

-----------------------------------------------------------------------------
(* The environment: time, broker, kill switch, day change, crash.            *)

Held == {k \in Keys : lock[k] # NoTask}
Sleepers == {t \in Tasks : pc[t] = "sleep"}

(* Faulty variant: the lock is taken without a lifetime.                     *)
LapseNever == UNCHANGED <<lockVars, age>>

(* Redis lets a lock lapse at the end of its lifetime.                       *)
Lapse ==
    /\ left' = [k \in Keys |-> IF left[k] > 0 THEN left[k] - 1 ELSE 0]
    /\ lock' = [k \in Keys |-> IF left[k] > 1 THEN lock[k] ELSE NoTask]
    /\ age' = [t \in Tasks |-> IF acquired[t] /\ age[t] < LockTTL
                               THEN age[t] + 1 ELSE age[t]]

(* Faulty variants: waited <= max_wait_seconds, and waited never counted.    *)
WakeOnceMore ==
    /\ polls' = [t \in Tasks |-> IF t \in Sleepers THEN polls[t] + 1 ELSE polls[t]]
    /\ pc' = [t \in Tasks |-> IF t \notin Sleepers THEN pc[t]
                              ELSE IF polls[t] < MaxPolls THEN "poll" ELSE "cancel"]

WakeUncounted ==
    /\ pc' = [t \in Tasks |-> IF t \in Sleepers THEN "poll" ELSE pc[t]]
    /\ UNCHANGED polls

(* The sleepers wake, and who has slept long enough leaves the polling loop. *)
Wake ==
    /\ polls' = [t \in Tasks |-> IF t \in Sleepers THEN polls[t] + 1 ELSE polls[t]]
    /\ pc' = [t \in Tasks |-> IF t \notin Sleepers THEN pc[t]
                              ELSE IF polls[t] + 1 < MaxPolls THEN "poll" ELSE "cancel"]

(* Two seconds pass. *)
Tick ==
    /\ Held # {} \/ Sleepers # {}
    /\ Lapse
    /\ Wake
    /\ UNCHANGED <<req, order, closed, booked, acquired, daily, halted, late, conf>>

(* The broker fills an order, or cancels, expires or rejects it.             *)
BrokerDecides(t) ==
    /\ order[t] = "open"
    /\ \E o \in {"filled", "dead"} : order' = [order EXCEPT ![t] = o]
    /\ UNCHANGED <<pc, req, polls, closed, booked, acquired, age, lockVars, daily,
                   halted, late, conf>>

(* A halt reaches this process, by its own trip or read from Redis.          *)
Halt(s) ==
    /\ halted' = halted \cup {s}
    /\ UNCHANGED <<pc, execVars, lockVars, daily, late, conf>>

EndedHaltsForgotten == late' = [s \in Scopes |-> IF s \in halted' THEN late[s] ELSE 0]

Reset(s) ==
    /\ halted' = IF s = System THEN {} ELSE halted \ {s}
    /\ EndedHaltsForgotten
    /\ UNCHANGED <<pc, execVars, lockVars, daily, conf>>

(* New York calendar day, or start of a live session: reset_daily_limit.     *)
ResetDailyLimit ==
    /\ daily' = 0
    /\ UNCHANGED <<pc, execVars, lockVars, halted, late, conf>>

(* The engine process is killed and started again.  Orders and locks live    *)
(* on outside of it; halts come back if they were in Redis.                  *)
Restart ==
    /\ pc' = [t \in Tasks |-> "idle"]
    /\ req' = [t \in Tasks |-> NoSignal]
    /\ polls' = [t \in Tasks |-> 0]
    /\ order' = [t \in Tasks |-> "none"]
    /\ booked' = [t \in Tasks |-> FALSE]
    /\ acquired' = [t \in Tasks |-> FALSE]
    /\ age' = [t \in Tasks |-> 0]
    /\ closed' = [t \in Tasks |-> NotClosed]
    /\ daily' = 0
    /\ halted' \in SUBSET halted
    /\ EndedHaltsForgotten
    /\ UNCHANGED <<lockVars, conf>>

Next ==
    \/ \E t \in Tasks : Execute(t) \/ BrokerDecides(t) \/ \E s \in Signals : Start(t, s)
    \/ Tick
    \/ \E s \in Scopes : Halt(s) \/ Reset(s)
    \/ ResetDailyLimit
    \/ Restart

Spec == Init /\ [][Next]_vars

(* Time passes. *)
FairSpec == Spec /\ WF_vars(Tick)

-----------------------------------------------------------------------------

Labels == {"idle", "lock", "screen", "order", "limit", "count", "dedupe",
           "gate", "submit", "poll", "sleep", "cancel", "book", "end"}

TypeOK ==
    /\ pc \in [Tasks -> Labels]
    /\ req \in [Tasks -> Signals \cup {NoSignal}]
    /\ \A t \in Tasks : pc[t] # "idle" => req[t] \in Signals
    /\ polls \in [Tasks -> 0..MaxPolls]
    /\ order \in [Tasks -> {"none", "open", "filled", "dead"}]
    /\ booked \in [Tasks -> BOOLEAN]
    /\ acquired \in [Tasks -> BOOLEAN]
    /\ age \in [Tasks -> 0..LockTTL]
    /\ lock \in [Keys -> Tasks \cup {NoTask}]
    /\ left \in [Keys -> 0..LockTTL]
    /\ closed \in [Tasks -> Closes \cup {NotClosed}]
    /\ daily \in Nat
    /\ halted \subseteq Scopes
    /\ late \in [Scopes -> Nat]
    /\ conf \in Deployments

(* Tasks between the test of the daily limit and their own increment. *)
Counting == {t \in Tasks : \/ pc[t] = "count"
                           \/ /\ pc[t] \in {"dedupe", "gate", "submit"}
                              /\ Kind(t) = "strategy"}

(* Two executions never hold the order lock of one user and symbol within    *)
(* the lifetime of the lock: what the acquire and release of                 *)
(* _execute_tenant_order guarantee, whatever expires, fails or restarts.     *)
LeaseExclusive ==
    \A t, u \in Tasks :
        t # u /\ acquired[t] /\ acquired[u] /\ Key(t) = Key(u)
            => age[t] = LockTTL \/ age[u] = LockTTL

(* The portfolio manager of a tenant records the trade of a signal only if   *)
(* the broker filled its order (or the dry run stands in for it), whatever   *)
(* the polling loop, the cancel and a fill race for.  The order that closes  *)
(* another position for it is not covered: the code records it unfilled.     *)
BookedOnlyIfFilled ==
    \A t \in Tasks : booked[t] /\ ~conf.shadow => order[t] = "filled"

(* The daily limit is tested and incremented in separate statements of       *)
(* concurrent executions, so it can be overshot, but by no more than the     *)
(* other executions that passed the test at the same time.                   *)
OvershootBounded == daily + Cardinality(Counting) <= MaxDaily + Cardinality(Tasks) - 1

(* Under a halt the order flow it is about dries up, that of the system or   *)
(* of one user: what is still sent for its scope comes from executions that  *)
(* had passed check_halt, at most one order each.                            *)
HaltStopsOrders == \A s \in halted : late[s] <= Cardinality(Tasks)

(* Every call t makes to Redis or to the broker returns or raises, and the   *)
(* event loop goes on with t.  The code bounds none of these calls in time,  *)
(* so this is assumed where it is needed and nowhere else.                   *)
CallsReturn(t) == WF_vars(Execute(t))

(* Every execution whose calls return comes to its end, whether or not those *)
(* of the others do: an order that is never filled and queries that always   *)
(* fail keep it in the polling loop for no longer than it sleeps.            *)
ExecutionEnds ==
    \A t \in Tasks : CallsReturn(t) => (pc[t] # "idle" ~> pc[t] = "idle")

(* How many steps an execution has left at most: those to its submission and *)
(* two for each poll, or those after its last look at the order.             *)
ToSubmission(label) ==
    CASE label = "lock"   -> 7
      [] label = "screen" -> 6
      [] label = "order"  -> 5
      [] label = "limit"  -> 4
      [] label \in {"count", "dedupe"} -> 3
      [] label = "gate"   -> 2
      [] label = "submit" -> 1

Winding(label, kind) == \/ label \in {"cancel", "book"}
                        \/ label = "count" /\ kind = "strategy"

StepsFrom(label, kind, slept) ==
    CASE label = "idle"  -> 0
      [] label = "end"   -> 1
      [] Winding(label, kind) -> 2
      [] label = "sleep" -> 2 * (MaxPolls - slept) + 1
      [] label = "poll"  -> 2 * (MaxPolls - slept) + 2
      [] OTHER           -> 2 * MaxPolls + 2 + ToSubmission(label)

StepsLeft(t) == StepsFrom(pc[t], Kind(t), polls[t])

(* The safety part of ExecutionEnds: wherever an execution goes, through     *)
(* failing calls, the polling loop, a cancel or a restart, it has fewer      *)
(* steps left than before, so that none takes more than 2 * MaxPolls + 9.    *)
(* How long a step takes is not bounded.                                     *)
ExecutionAdvances ==
    [][\A t \in Tasks : pc[t] # "idle" /\ pc'[t] # pc[t]
          => StepsLeft(t)' \in 0..(StepsLeft(t) - 1)]_vars

(* No lock is lost: also if its release failed, its owner was killed or      *)
(* hangs in a call that never returns, the key becomes free again.           *)
LockComesFree == \A k \in Keys : lock[k] # NoTask ~> lock[k] = NoTask

(* "Positions are protected against parallel order submits by a distributed  *)
(* lock": two executions that took the lock of one user and symbol never have *)
(* their orders at the broker at the same time.                              *)
NoParallelSubmits ==
    \A t, u \in Tasks :
        t # u /\ acquired[t] /\ acquired[u] /\ Key(t) = Key(u)
            => order[t] = "none" \/ order[u] = "none"

-----------------------------------------------------------------------------
(* The contract of TradeContract, and how far an execution has come in it.   *)

(* What a strategy counts it has sent; the other paths count before.         *)
Phase(t) ==
    CASE pc[t] = "idle" -> "idle"
      [] pc[t] \in {"lock", "screen", "order", "limit", "dedupe", "gate"}
            \/ (pc[t] = "count" /\ Kind(t) # "strategy") -> "deciding"
      [] pc[t] = "submit" -> "cleared"
      [] pc[t] \in {"poll", "sleep", "cancel", "book"} -> "following"
      [] pc[t] = "end" \/ (pc[t] = "count" /\ Kind(t) = "strategy") -> "over"

Contract == INSTANCE TradeContract WITH
    Scopes  <- Accounts \cup {System},
    phase   <- [t \in Tasks |-> Phase(t)],
    watched <- [t \in Tasks |-> IF pc[t] = "idle" THEN {} ELSE HaltScopes(t)],
    dry     <- conf.shadow

(* All three paths keep one contract: an order only after check_halt let the *)
(* execution pass, at most one order of its own per execution whatever fails *)
(* or is retried, and its trade recorded only once this order is filled.     *)
(* The order that closes another position, and its record, are outside.      *)
KeepsContract == Contract!Spec

=============================================================================
