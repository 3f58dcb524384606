-------------------------- MODULE EngineLifecycle --------------------------
(***************************************************************************)
(* The life of a trading session in one engine process: commands start and *)
(* stop it, a monitor thread picks the strategy and launches the trading   *)
(* loop, and simulations run in between (core/engine/base.py,              *)
(* monitor_loop.py, trading_loop.py, simulation_runner.py).                *)
(*                                                                         *)
(* Threads are told to end through three events: shutdown is sticky and    *)
(* shared by all, running and monitoring belong to a kind of thread.  A    *)
(* thread looks at them only between its blocking calls, and joins give up *)
(* after some seconds, so threads of an earlier session may still be there *)
(* when the next one clears shutdown: that is what this module is about.   *)
(*                                                                         *)
(* A step ends where the code blocks: network calls, sleeps, joins.  Of a  *)
(* trading cycle only its beginning and end are modelled; its orders are   *)
(* the business of OrderExecution.  Left out: the handover of a pending    *)
(* swap at the end of a cycle, the watchdogs, and a start without broker.  *)
(***************************************************************************)
EXTENDS Naturals, FiniteSets

CONSTANTS
    Loops,       \* trading loop threads that may be alive at a time
    Monitors,    \* monitor threads that may be alive at a time
    Http,        \* the event loop, which handles one command at a time
    Timer,       \* the timer of AUTO_START_STRATEGY, which starts once
    AutoStart,   \* config.AUTO_START_STRATEGY
    Strategies,  \* the keys of STRATEGY_CLASSES
    Default,     \* RLStrategy
    Configured,  \* what config.ACTIVE_STRATEGY may be at the beginning
    None,        \* no active strategy
    MaxSims      \* simulation threads that may be alive at a time

Callers == {Http, Timer}
Stoppers == Callers \cup Monitors        \* threads that call stop_strategy
Threads == Loops \cup Stoppers
Names == Strategies \cup Configured

ASSUME EngineLifecycleAssumption ==
    /\ Http # Timer
    /\ AutoStart \in BOOLEAN
    /\ Loops \cap Stoppers = {}
    /\ Monitors \cap Callers = {}
    /\ Default \in Strategies
    /\ None \notin Names
    /\ MaxSims \in Nat

VARIABLES
    pc,          \* where each thread is
    ret,         \* where stop_strategy returns to in a thread that is in it
    chosen,      \* the strategy a monitor is about to switch to
    shutdown,    \* _shutdown_event
    running,     \* strategy_running
    monitoring,  \* monitor_running
    simulating,  \* is_simulation
    active,      \* name of active_strategy, or None
    target,      \* config.ACTIVE_STRATEGY
    halted,      \* what kill_switch.is_halted() answers
    sims,        \* simulation threads alive
    asked,       \* history: the last command and whether it took effect
    failed       \* history: the session met a failure or a halt

flags == <<shutdown, running, monitoring, simulating>>
names == <<active, target, chosen>>
history == <<asked, failed>>
vars == <<pc, ret, flags, names, halted, sims, history>>

Goto(t, label) == pc' = [pc EXCEPT ![t] = label]

(* Threads in the middle of start_live_strategy. *)
StartLabels == {"reset", "flags", "clear", "account"}
Starting == {c \in Callers : \/ pc[c] \in StartLabels
                             \/ pc[c] = "join" /\ ret[c] = "clear"}

Alive(T) == {t \in T : pc[t] # "dead"}
Free(T) == T \ Alive(T)

(* Where a caller is once its command is over. *)
Home(c) == IF c = Timer THEN "done" ELSE "idle"

Init ==
    /\ pc = [t \in Threads |-> IF t = Http THEN "idle"
                               ELSE IF t # Timer THEN "dead"
                               ELSE IF AutoStart THEN "armed" ELSE "done"]
    /\ ret = [t \in Stoppers |-> "none"]
    /\ chosen = [m \in Monitors |-> None]
    /\ shutdown = FALSE /\ running = FALSE /\ monitoring = FALSE
    /\ simulating = FALSE
    /\ active = None
    /\ target \in Configured
    /\ halted \in BOOLEAN
    /\ sims = 0
    /\ asked = "nothing"
    /\ failed = FALSE

-----------------------------------------------------------------------------
(* stop_strategy, called by commands, by a start and by monitors.            *)

Quiet == ~running /\ ~monitoring /\ ~simulating

(* Faulty variant: the threads are not told to end, only the flags cleared.  *)
StopFlagsQuietly(t, back) ==
    \/ Quiet /\ Goto(t, back) /\ UNCHANGED <<ret, flags>>
    \/ /\ ~Quiet
       /\ running' = FALSE
       /\ monitoring' = FALSE
       /\ Goto(t, "join")
       /\ ret' = [ret EXCEPT ![t] = back]
       /\ UNCHANGED <<shutdown, simulating>>

(* Up to the joins; it returns at once when no flag is set.                  *)
StopFlags(t, back) ==
    \/ Quiet /\ Goto(t, back) /\ UNCHANGED <<ret, flags>>
    \/ /\ ~Quiet
       /\ shutdown' = TRUE
       /\ running' = FALSE
       /\ monitoring' = FALSE
       /\ Goto(t, "join")
       /\ ret' = [ret EXCEPT ![t] = back]
       /\ UNCHANGED simulating

(* The joins are over, whether the threads ended or 3 s passed for each.     *)
StopJoined(t) ==
    /\ pc[t] = "join"
    /\ t \in Stoppers
    /\ active' = None
    /\ simulating' = FALSE
    /\ Goto(t, ret[t])
    /\ ret' = [ret EXCEPT ![t] = "none"]
    /\ UNCHANGED <<shutdown, running, monitoring, target, chosen, halted, sims,
                   history>>

(* POST /stop. *)
Stop ==
    /\ pc[Http] = "idle"
    /\ StopFlags(Http, "idle")
    /\ asked' = IF Starting # {} THEN "unclear"
                ELSE IF Quiet THEN "ignored" ELSE "stop"
    /\ UNCHANGED <<names, halted, sims, failed>>

-----------------------------------------------------------------------------
(* start_live_strategy, called by POST /start-live and by the timer.         *)

StartBegin(c) ==
    /\ pc[c] \in {"idle", "armed"}
    /\ shutdown' = FALSE
    /\ asked' = "start"
    /\ failed' = FALSE
    /\ Goto(c, "reset")
    /\ UNCHANGED <<ret, running, monitoring, simulating, names, halted, sims>>

(* A reset that fails is only logged. *)
StartReset(c) ==
    /\ pc[c] = "reset"
    /\ halted' \in {halted, FALSE}
    /\ Goto(c, "flags")
    /\ UNCHANGED <<ret, flags, names, sims, history>>

StartStops(c) ==
    /\ pc[c] = "flags"
    /\ StopFlags(c, "clear")
    /\ UNCHANGED <<names, halted, sims, history>>

(* Faulty variant: the new threads find the event of the inner stop set.     *)
StartClearForgets(c) ==
    /\ pc[c] = "clear"
    /\ simulating' = FALSE
    /\ Goto(c, "account")
    /\ UNCHANGED <<ret, shutdown, running, monitoring, names, halted, sims, history>>

StartClear(c) ==
    /\ pc[c] = "clear"
    /\ shutdown' = FALSE
    /\ simulating' = FALSE
    /\ Goto(c, "account")
    /\ UNCHANGED <<ret, running, monitoring, names, halted, sims, history>>

(* The account cannot be fetched and start_live_strategy raises.             *)
StartRaises(c) ==
    /\ pc[c] = "account"
    /\ failed' = TRUE
    /\ Goto(c, Home(c))
    /\ UNCHANGED <<ret, flags, names, halted, sims, asked>>

(* The risk manager cannot be made: stop_strategy and return False.          *)
StartFails(c) ==
    /\ pc[c] = "account"
    /\ failed' = TRUE
    /\ StopFlags(c, Home(c))
    /\ UNCHANGED <<names, halted, sims, asked>>

(* A new trading loop and a new monitor.                                     *)
StartLaunches(c) ==
    /\ pc[c] = "account"
    /\ running' = TRUE
    /\ monitoring' = TRUE
    /\ \E l \in Free(Loops), m \in Free(Monitors) :
          pc' = [pc EXCEPT ![c] = Home(c), ![l] = "boot", ![m] = "top"]
    /\ UNCHANGED <<ret, shutdown, simulating, names, halted, sims, history>>

Start(c) ==
    \/ StartReset(c) \/ StartStops(c) \/ StartClear(c)
    \/ StartLaunches(c) \/ StartRaises(c) \/ StartFails(c)

-----------------------------------------------------------------------------
(* run_strategy_async_wrapper and live_trading_loop.                         *)

(* A step of loop l that ends nothing but its own statement. *)
LoopStep(l, from, to) ==
    /\ pc[l] = from
    /\ Goto(l, to)
    /\ UNCHANGED <<ret, flags, names, halted, sims, history>>

HealthOk(l) == LoopStep(l, "boot", "top")

(* The startup health check raises RuntimeError. *)
HealthFails(l) ==
    /\ pc[l] = "boot"
    /\ running' = FALSE
    /\ failed' = TRUE
    /\ Goto(l, "dead")
    /\ UNCHANGED <<ret, shutdown, monitoring, simulating, names, halted, sims, asked>>

LoopOn(l) == running /\ ~shutdown /\ LoopStep(l, "top", "gate")
LoopEnds(l) == (~running \/ shutdown) /\ LoopStep(l, "top", "dead")

(* Faulty variant: the loop does not ask the kill switch. *)
NotHaltedUnasked(l) == LoopStep(l, "gate", "clock")

NotHalted(l) == ~halted /\ LoopStep(l, "gate", "clock")

(* A halt: the loop takes the whole session down. *)
FindsHalt(l) ==
    /\ pc[l] = "gate"
    /\ halted
    /\ shutdown' = TRUE
    /\ running' = FALSE
    /\ failed' = TRUE
    /\ Goto(l, "dead")
    /\ UNCHANGED <<ret, monitoring, simulating, names, halted, sims, asked>>

(* The market is closed: sleep.  After a clock call that raises, or an open  *)
(* market, the strategy may be missing, halted, or without symbols: sleep.   *)
SleepsClosed(l) == LoopStep(l, "clock", "top")
SleepsIdle(l) == ~shutdown /\ LoopStep(l, "clock", "top")
Trades(l) == ~shutdown /\ active # None /\ LoopStep(l, "clock", "cycle")
BreaksBefore(l) == shutdown /\ LoopStep(l, "clock", "dead")

(* End of a trading cycle: orders sent, sleep for a minute.                  *)
CycleEnds(l) == ~shutdown /\ LoopStep(l, "cycle", "top")
BreaksAfter(l) == shutdown /\ LoopStep(l, "cycle", "dead")

Loop(l) ==
    \/ HealthOk(l) \/ HealthFails(l) \/ LoopOn(l) \/ LoopEnds(l)
    \/ NotHalted(l) \/ FindsHalt(l)
    \/ SleepsClosed(l) \/ SleepsIdle(l) \/ Trades(l) \/ BreaksBefore(l)
    \/ CycleEnds(l) \/ BreaksAfter(l)

-----------------------------------------------------------------------------
(* run_strategy_monitor_loop.                                                *)

MonitorStep(m, from, to) ==
    /\ pc[m] = from
    /\ Goto(m, to)
    /\ UNCHANGED <<ret, flags, names, halted, sims, history>>

MonitorOn(m) == monitoring /\ ~shutdown /\ MonitorStep(m, "top", "scan")
MonitorEnds(m) == (~monitoring \/ shutdown) /\ MonitorStep(m, "top", "dead")

(* Regime and scan take a while; a cycle that raises waits for the next one, *)
(* as does every cycle at its end.                                           *)
Scanned(m) == ~shutdown /\ MonitorStep(m, "scan", "compare")
ScanBreaks(m) == shutdown /\ MonitorStep(m, "scan", "dead")
ScanFails(m) == MonitorStep(m, "scan", "top")

SameStrategy(m) == active = target /\ MonitorStep(m, "compare", "top")

(* Faulty variant: the name is taken for a known one. *)
SwitchBeginsUnchecked(m) ==
    /\ pc[m] = "compare"
    /\ active # target
    /\ running' = FALSE
    /\ chosen' = [chosen EXCEPT ![m] = target]
    /\ Goto(m, "switch")
    /\ UNCHANGED <<ret, shutdown, monitoring, simulating, active, target, halted,
                   sims, history>>

(* The old trading loop is told to end and joined for 10 s; an unknown name  *)
(* stands for RLStrategy.                                                    *)
SwitchBegins(m) ==
    /\ pc[m] = "compare"
    /\ active # target
    /\ running' = FALSE
    /\ chosen' = [chosen EXCEPT ![m] = IF target \in Strategies THEN target
                                       ELSE Default]
    /\ Goto(m, "switch")
    /\ UNCHANGED <<ret, shutdown, monitoring, simulating, active, target, halted,
                   sims, history>>

(* After the join; a liquidation may still take its time.                    *)
SwitchJoined(m) ==
    /\ pc[m] = "switch"
    /\ active' = None
    /\ Goto(m, "check")
    /\ UNCHANGED <<ret, flags, target, chosen, halted, sims, history>>

(* Faulty variant: the monitor does not look at the event after its join.    *)
SwitchGoesOnUnasked(m) == MonitorStep(m, "check", "build")

SwitchGoesOn(m) == ~shutdown /\ MonitorStep(m, "check", "build")

SwitchBreaks(m) ==
    /\ pc[m] = "check"
    /\ shutdown
    /\ chosen' = [chosen EXCEPT ![m] = None]
    /\ Goto(m, "dead")
    /\ UNCHANGED <<ret, flags, active, target, halted, sims, history>>

(* The account is fetched: the strategy, strategy_running and a new trading  *)
(* loop, whatever happened since the check.                                  *)
Relaunches(m) ==
    /\ pc[m] = "build"
    /\ active' = chosen[m]
    /\ chosen' = [chosen EXCEPT ![m] = None]
    /\ running' = TRUE
    /\ \E l \in Free(Loops) : pc' = [pc EXCEPT ![m] = "top", ![l] = "boot"]
    /\ UNCHANGED <<ret, shutdown, monitoring, simulating, target, halted, sims, history>>

(* Something raises before or after the strategy is made: stop_strategy.      *)
BuildFails(m) ==
    /\ pc[m] = "build"
    /\ failed' = TRUE
    /\ active' \in {active, chosen[m]}
    /\ StopFlags(m, "top")
    /\ chosen' = [chosen EXCEPT ![m] = None]
    /\ UNCHANGED <<target, halted, sims, asked>>

Monitor(m) ==
    \/ MonitorOn(m) \/ MonitorEnds(m)
    \/ Scanned(m) \/ ScanBreaks(m) \/ ScanFails(m)
    \/ SameStrategy(m) \/ SwitchBegins(m) \/ SwitchJoined(m)
    \/ SwitchGoesOn(m) \/ SwitchBreaks(m) \/ Relaunches(m) \/ BuildFails(m)

-----------------------------------------------------------------------------
(* Simulations, configuration and kill switch.                               *)

(* run_simulation_in_thread and its likes. *)
SimBegins ==
    /\ pc[Http] = "idle"
    /\ ~simulating
    /\ sims < MaxSims
    /\ simulating' = TRUE
    /\ shutdown' = FALSE
    /\ sims' = sims + 1
    /\ asked' = "sim"
    /\ UNCHANGED <<pc, ret, running, monitoring, names, halted, failed>>

(* A simulation is through, interrupted by shutdown, or fails.               *)
SimEnds ==
    /\ sims > 0
    /\ simulating' = FALSE
    /\ sims' = sims - 1
    /\ UNCHANGED <<pc, ret, shutdown, running, monitoring, names, halted, history>>

(* POST /set-strategy. *)
SetStrategy ==
    /\ pc[Http] = "idle"
    /\ target' \in Strategies
    /\ UNCHANGED <<pc, ret, flags, active, chosen, halted, sims, history>>

Trip ==
    /\ halted' = TRUE
    /\ failed' = TRUE
    /\ UNCHANGED <<pc, ret, flags, names, sims, asked>>

(* POST /reset-kill-switch, or the recovery of a risk manager.               *)
Reset ==
    /\ halted' = FALSE
    /\ UNCHANGED <<pc, ret, flags, names, sims, history>>

Work(t) ==
    \/ t \in Callers /\ Start(t)
    \/ t \in Stoppers /\ StopJoined(t)
    \/ t \in Loops /\ Loop(t)
    \/ t \in Monitors /\ Monitor(t)

Next ==
    \/ Stop
    \/ \E c \in Callers : StartBegin(c)
    \/ \E t \in Threads : Work(t)
    \/ SimBegins \/ SimEnds \/ SetStrategy \/ Trip \/ Reset

Spec == Init /\ [][Next]_vars

(* Every thread is scheduled, and every blocking call comes back.            *)
FairSpec == Spec /\ WF_vars(SimEnds) /\ \A t \in Threads : WF_vars(Work(t))

-----------------------------------------------------------------------------

LoopLabels == {"dead", "boot", "top", "gate", "clock", "cycle"}
MonitorLabels == {"dead", "top", "scan", "compare", "switch", "check", "build",
                  "join"}
CallerLabels == {"idle", "armed", "done", "join"} \cup StartLabels

TypeOK ==
    /\ pc \in [Threads -> LoopLabels \cup MonitorLabels \cup CallerLabels]
    /\ \A l \in Loops : pc[l] \in LoopLabels
    /\ \A m \in Monitors : pc[m] \in MonitorLabels
    /\ \A c \in Callers : pc[c] \in CallerLabels
    /\ ret \in [Stoppers -> {"none", "top", "clear", "idle", "done"}]
    /\ chosen \in [Monitors -> Strategies \cup {None}]
    /\ shutdown \in BOOLEAN /\ running \in BOOLEAN /\ monitoring \in BOOLEAN
    /\ simulating \in BOOLEAN
    /\ active \in Strategies \cup {None}
    /\ target \in Names
    /\ halted \in BOOLEAN
    /\ sims \in 0..MaxSims
    /\ asked \in {"nothing", "start", "stop", "ignored", "unclear", "sim"}
    /\ failed \in BOOLEAN

(* After a stop that took effect, until the next command, every thread that  *)
(* is still alive finds the shutdown event set whenever it looks, also a     *)
(* monitor in the middle of a switch and what it launches.                   *)
StopSticks == asked = "stop" => shutdown

Launched(l) == pc[l] = "dead" /\ pc'[l] # "dead"

(* A step that begins no trading cycle, launches no monitor, lets none past  *)
(* its check, and launches a loop only by a monitor that is past it.         *)
Drains ==
    /\ \A l \in Loops : pc'[l] = "cycle" => pc[l] = "cycle"
    /\ \A m \in Monitors : pc'[m] = "build" => pc[m] = "build"
    /\ \A m \in Monitors : pc[m] = "dead" => pc'[m] = "dead"
    /\ \A k, l \in Loops : Launched(k) /\ Launched(l) =>
          k = l /\ \E m \in Monitors : pc[m] = "build" /\ pc'[m] = "top"

(* After a stop that took effect, until the next command, a session can only *)
(* run dry: no trading cycle begins, and there are no more launches than     *)
(* monitors that had passed their check before the stop.                     *)
StopDrains == [][asked = "stop" /\ asked' = "stop" => Drains]_vars

(* A stop lasts: if no command follows it, the engine ends up without any    *)
(* live thread or simulation, whatever the threads were doing, and even if   *)
(* their joins gave up.                                                      *)
StopLasts ==
    <>[](asked = "stop") => <>[](Alive(Loops \cup Monitors) = {} /\ sims = 0)

(* A halt that stays ends the trading: from some time on no trading loop is  *)
(* in a cycle, and each one that starts or monitors still launch ends, even  *)
(* if commands keep clearing the shutdown event.                             *)
HaltStopsTrading ==
    <>[]halted => /\ <>[](\A l \in Loops : pc[l] # "cycle")
                  /\ \A l \in Loops : []<>(pc[l] = "dead")

(* A start that meets no failure and no halt, and that no other command      *)
(* follows, keeps a trading loop running, whatever is left of earlier        *)
(* sessions: remaining loops, monitors that switch, timers, simulations.     *)
StartLasts ==
    <>[](asked = "start" /\ ~failed) => []<>(running /\ Alive(Loops) # {})

(* "LSTMDynamic: sequentially, every buy sees the current buying power": no  *)
(* two trading loops are in a trading cycle at the same time.                *)
OneSequentialCycle == \A k, l \in Loops : pc[k] = "cycle" /\ pc[l] = "cycle" => k = l

=============================================================================
