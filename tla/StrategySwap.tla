---------------------------- MODULE StrategySwap ----------------------------
(***************************************************************************)
(* Which strategy trades: the registry the round table asks                *)
(* (agent_registry.py) and active_strategy of the engine, which the        *)
(* trading loop and the monitor use.  Three kinds of thread change them:   *)
(*                                                                         *)
(*   HTTP          asks for a graceful swap, sets the mode, stops          *)
(*   trading loop  commits a swap at the end of a cycle and then copies    *)
(*                 the registry's choice (trading_loop.py)                 *)
(*   monitor       replaces a strategy that is not the configured one by   *)
(*                 a new instance and registers it (monitor_loop.py)       *)
(*                                                                         *)
(* The copy and the replacement happen under strategy_lock, the commit     *)
(* only under the lock of the registry, so it can fall in between.  Two    *)
(* trading loops can be alive at a time (EngineLifecycle shows how).       *)
(*                                                                         *)
(* The position lock of the HTTP handler never refuses: its query is not a *)
(* method of the client, and a failed query lets the swap through.  A      *)
(* switch between the two strategies there are does not liquidate          *)
(* (STRATEGY_SWITCH_WITHOUT_LIQUIDATION).                                  *)
(***************************************************************************)
EXTENDS Naturals

CONSTANTS
    Names,       \* STRATEGY_CLASSES
    Loops,       \* trading loop threads
    Monitors,    \* monitor threads
    None

ASSUME StrategySwapAssumption ==
    /\ None \notin Names
    /\ Loops \cap Monitors = {}
    /\ None \notin Loops \cup Monitors

(* Instances of one strategy replace each other: two in turn are enough to   *)
(* tell the new one from the old one.  Generation 0: never built. *)
Generations == 0..2
Succeeding(g) == IF g = 1 THEN 2 ELSE 1
Instances == Names \X {1, 2}

VARIABLES
    pc,          \* where each thread is
    seen,        \* a loop: the name it read last; a monitor: its target name
    built,       \* _strategies: the generation registered under a name
    activeName,  \* _active_name
    pending,     \* _pending_name
    active,      \* active_strategy of the engine, or None
    lock,        \* holder of strategy_lock over several steps, or None
    target       \* config.ACTIVE_STRATEGY

registry == <<built, activeName, pending>>
engine == <<active, lock>>
vars == <<pc, seen, registry, engine, target>>

Threads == Loops \cup Monitors
Goto(t, label) == pc' = [pc EXCEPT ![t] = label]

Registered == {n \in Names : built[n] # 0}

(* get_active, as an instance *)
Instance(name) == IF name \in Registered THEN <<name, built[name]>> ELSE None

Init ==
    /\ pc = [t \in Threads |-> "idle"]
    /\ seen = [t \in Threads |-> None]
    /\ built = [n \in Names |-> 0]
    /\ activeName = None /\ pending = None
    /\ active = None /\ lock = None
    /\ target \in Names

-----------------------------------------------------------------------------
(* HTTP.                                                                     *)

(* Faulty variant: the name is not looked up.                                *)
SwapUnchecked(name) ==
    /\ pending = None
    /\ pending' = name
    /\ UNCHANGED <<pc, seen, built, activeName, engine, target>>

(* swap: refused while another one is pending and for an unknown name. *)
Swap(name) ==
    /\ pending = None /\ name \in Registered
    /\ pending' = name
    /\ UNCHANGED <<pc, seen, built, activeName, engine, target>>

SetMode(name) ==
    /\ target' = name
    /\ UNCHANGED <<pc, seen, registry, engine>>

(* stop_strategy; the threads of the next session take the places of these. *)
Stop ==
    /\ lock = None
    /\ active' = None
    /\ UNCHANGED <<pc, seen, registry, lock, target>>

-----------------------------------------------------------------------------
(* The trading loop.                                                         *)

(* A cycle needs a strategy. *)
StartCycle(l) ==
    /\ pc[l] = "idle" /\ active # None
    /\ Goto(l, "cycle")
    /\ UNCHANGED <<seen, registry, engine, target>>

(* At the end of the cycle it looks for a pending swap. *)
EndCycle(l) ==
    /\ pc[l] = "cycle"
    /\ Goto(l, IF pending = None THEN "idle" ELSE "handover")
    /\ UNCHANGED <<seen, registry, engine, target>>

(* The positions have been fetched; the name is read without the lock. *)
ReadPending(l) ==
    /\ pc[l] = "handover"
    /\ seen' = [seen EXCEPT ![l] = pending]
    /\ Goto(l, "commit")
    /\ UNCHANGED <<registry, engine, target>>

(* Faulty variant: the swap stays pending.                                   *)
CommitKeeps(l) ==
    /\ pc[l] = "commit"
    /\ activeName' = IF pending = None THEN activeName ELSE pending
    /\ Goto(l, "copy")
    /\ UNCHANGED <<seen, built, pending, engine, target>>

(* commit_swap: nothing to do if another loop was first. *)
Commit(l) ==
    /\ pc[l] = "commit"
    /\ activeName' = IF pending = None THEN activeName ELSE pending
    /\ pending' = None
    /\ Goto(l, "copy")
    /\ UNCHANGED <<seen, built, engine, target>>

(* Faulty variant: the loop goes on with the name it read before the commit. *)
CopyPending(l) ==
    /\ pc[l] = "copy" /\ lock = None
    /\ lock' = l
    /\ Goto(l, "assign")
    /\ UNCHANGED <<seen, registry, active, target>>

(* Under strategy_lock get_active reads the name, without the registry's ... *)
CopyName(l) ==
    /\ pc[l] = "copy" /\ lock = None
    /\ lock' = l
    /\ seen' = [seen EXCEPT ![l] = activeName]
    /\ Goto(l, "assign")
    /\ UNCHANGED <<registry, active, target>>

(* ... and then looks up the strategy. *)
Assign(l) ==
    /\ pc[l] = "assign"
    /\ active' = Instance(seen[l])
    /\ lock' = None
    /\ seen' = [seen EXCEPT ![l] = None]
    /\ Goto(l, "idle")
    /\ UNCHANGED <<registry, target>>

-----------------------------------------------------------------------------
(* The monitor.                                                              *)

ReadTarget(m) ==
    /\ pc[m] = "idle"
    /\ seen' = [seen EXCEPT ![m] = target]
    /\ Goto(m, "compare")
    /\ UNCHANGED <<registry, engine, target>>

(* Faulty variant: the monitor only starts a strategy where there is none.   *)
CompareMissing(m) ==
    /\ pc[m] = "compare" /\ lock = None
    /\ Goto(m, IF active # None THEN "idle" ELSE "clear")
    /\ UNCHANGED <<seen, registry, engine, target>>

Compare(m) ==
    /\ pc[m] = "compare" /\ lock = None
    /\ Goto(m, IF active # None /\ active[1] = seen[m] THEN "idle" ELSE "clear")
    /\ UNCHANGED <<seen, registry, engine, target>>

(* The loop has been told to end, and waited for. *)
Clear(m) ==
    /\ pc[m] = "clear" /\ lock = None
    /\ active' = None
    /\ Goto(m, "build")
    /\ UNCHANGED <<seen, registry, lock, target>>

(* The session is stopping, or the account or the new strategy fail. *)
Abandon(m) ==
    /\ pc[m] = "build"
    /\ Goto(m, "idle")
    /\ UNCHANGED <<seen, registry, engine, target>>

Build(m) ==
    /\ pc[m] = "build" /\ lock = None
    /\ lock' = m
    /\ active' = <<seen[m], Succeeding(built[seen[m]])>>
    /\ Goto(m, "register")
    /\ UNCHANGED <<seen, registry, target>>

(* register(set_active=True), still under strategy_lock. *)
Register(m) ==
    /\ pc[m] = "register"
    /\ built' = [built EXCEPT ![seen[m]] = Succeeding(@)]
    /\ activeName' = seen[m]
    /\ lock' = None
    /\ Goto(m, "idle")
    /\ UNCHANGED <<seen, pending, active, target>>

-----------------------------------------------------------------------------

LoopStep(l) ==
    \/ StartCycle(l) \/ EndCycle(l)
    \/ ReadPending(l) \/ Commit(l) \/ CopyName(l) \/ Assign(l)
MonitorStep(m) ==
    ReadTarget(m) \/ Compare(m) \/ Clear(m) \/ Build(m) \/ Register(m)

Next ==
    \/ \E name \in Names : Swap(name) \/ SetMode(name)
    \/ Stop
    \/ \E l \in Loops : LoopStep(l)
    \/ \E m \in Monitors : MonitorStep(m) \/ Abandon(m)

Spec == Init /\ [][Next]_vars

(* Both kinds of loop go on: trading_loop.py sleeps 60 s between cycles,     *)
(* monitor_loop.py waits STRATEGY_MONITOR_INTERVAL_SECONDS.                  *)
Fairness ==
    /\ \A l \in Loops : WF_vars(LoopStep(l))
    /\ \A m \in Monitors : WF_vars(MonitorStep(m))

FairSpec == Spec /\ Fairness

-----------------------------------------------------------------------------

TypeOK ==
    /\ pc \in [Threads -> {"idle", "cycle", "handover", "commit", "copy", "assign",
                           "compare", "clear", "build", "register"}]
    /\ seen \in [Threads -> Names \cup {None}]
    /\ built \in [Names -> Generations]
    /\ activeName \in Registered \cup {None}
    /\ pending \in Registered \cup {None}
    /\ active \in Instances \cup {None}
    /\ lock \in Threads \cup {None}
    /\ target \in Names

(* The round table votes with the strategy the engine trades with: unless a  *)
(* committed swap is still to be copied or a new instance to be registered,  *)
(* active_strategy is none or exactly the active one of the registry, also   *)
(* if a commit falls into a switch of the monitor or two loops hand over.    *)
ViewsAgree ==
    \/ \E l \in Loops : pc[l] \in {"copy", "assign"}
    \/ \E m \in Monitors : pc[m] = "register"
    \/ active = None
    \/ active = Instance(activeName)

(* Somebody stops the engine or sets its mode, or a new strategy fails. *)
Disturbs ==
    \/ active # None /\ active' = None /\ \A m \in Monitors : pc'[m] = pc[m]
    \/ target' # target
    \/ \E m \in Monitors : pc[m] = "build" /\ pc'[m] = "idle"

(* A swap that was accepted is carried out: the monitor's switches never     *)
(* keep the trading loop from the end of a cycle for ever.                   *)
SwapsTakeEffect == <>[][~Disturbs]_vars => (pending # None ~> pending = None)

(* The configured strategy prevails: once nobody asks for swaps any more the *)
(* engine trades and votes with an instance of ACTIVE_STRATEGY for good.     *)
TargetPrevails ==
    <>[][~Disturbs /\ (pending = None => pending' = None)]_vars =>
        <>[](active # None /\ active[1] = target /\ active = Instance(activeName))

=============================================================================
