----------------------- MODULE EngineLifecycleProofs -----------------------
(***************************************************************************)
(* Theorems about EngineLifecycle, for any number of threads and           *)
(* simulations: its types, that a stop that took effect sticks, and that   *)
(* the session then runs dry.                                              *)
(***************************************************************************)
EXTENDS EngineLifecycle, TLAPS

(* Where stop_strategy returns to: a start goes on or is over, a monitor     *)
(* waits for its next cycle.                                                 *)
Returns ==
    /\ \A c \in Callers : pc[c] = "join" => ret[c] \in {"clear", "idle", "done"}
    /\ \A m \in Monitors : pc[m] = "join" => ret[m] = "top"

TypeInv == TypeOK /\ Returns

LEMMA InitTyped == Init => TypeInv
<1> SUFFICES ASSUME Init PROVE TypeInv
  OBVIOUS
<1>1. /\ \A l \in Loops : pc[l] = "dead"
      /\ \A m \in Monitors : pc[m] = "dead"
      /\ \A c \in Callers : pc[c] \in {"idle", "armed", "done"}
  BY EngineLifecycleAssumption DEF Init, Threads, Stoppers, Callers
<1>2. pc \in [Threads -> {"idle", "armed", "done", "dead"}]
  BY DEF Init
<1>3. Returns
  BY <1>1 DEF Returns
<1>4. /\ ret \in [Stoppers -> {"none", "top", "clear", "idle", "done"}]
      /\ chosen \in [Monitors -> Strategies \cup {None}]
      /\ target \in Names
      /\ sims \in 0..MaxSims
  BY EngineLifecycleAssumption DEF Init, Names
<1> QED BY <1>1, <1>2, <1>3, <1>4
        DEF Init, TypeInv, TypeOK, LoopLabels, MonitorLabels, CallerLabels

(* A caller moves to a place of its own. *)
LEMMA CallerMoves ==
    ASSUME TypeInv, NEW c \in Callers, NEW to \in CallerLabels,
           to = "join" => ret'[c] \in {"clear", "idle", "done"},
           Goto(c, to), \A t \in Stoppers \ {c} : ret'[t] = ret[t]
    PROVE  /\ pc' \in [Threads -> LoopLabels \cup MonitorLabels \cup CallerLabels]
           /\ \A l \in Loops : pc'[l] \in LoopLabels
           /\ \A m \in Monitors : pc'[m] \in MonitorLabels
           /\ \A d \in Callers : pc'[d] \in CallerLabels
           /\ Returns'
  BY EngineLifecycleAssumption DEF TypeInv, TypeOK, Returns, Goto, Threads, Stoppers

(* So does a monitor, and so does a trading loop. *)
LEMMA MonitorMoves ==
    ASSUME TypeInv, NEW m \in Monitors, NEW to \in MonitorLabels,
           to = "join" => ret'[m] = "top",
           Goto(m, to), \A t \in Stoppers \ {m} : ret'[t] = ret[t]
    PROVE  /\ pc' \in [Threads -> LoopLabels \cup MonitorLabels \cup CallerLabels]
           /\ \A l \in Loops : pc'[l] \in LoopLabels
           /\ \A n \in Monitors : pc'[n] \in MonitorLabels
           /\ \A c \in Callers : pc'[c] \in CallerLabels
           /\ Returns'
  BY EngineLifecycleAssumption DEF TypeInv, TypeOK, Returns, Goto, Threads, Stoppers

LEMMA LoopMoves ==
    ASSUME TypeInv, NEW l \in Loops, NEW to \in LoopLabels, Goto(l, to), ret' = ret
    PROVE  /\ pc' \in [Threads -> LoopLabels \cup MonitorLabels \cup CallerLabels]
           /\ \A k \in Loops : pc'[k] \in LoopLabels
           /\ \A m \in Monitors : pc'[m] \in MonitorLabels
           /\ \A c \in Callers : pc'[c] \in CallerLabels
           /\ Returns'
  BY EngineLifecycleAssumption DEF TypeInv, TypeOK, Returns, Goto, Threads, Stoppers

-----------------------------------------------------------------------------

(* What stop_strategy leaves, whoever calls it. *)
LEMMA StopFlagsTyped ==
    ASSUME TypeInv, NEW t \in Stoppers, NEW back \in {"top", "clear", "idle", "done"},
           StopFlags(t, back)
    PROVE  /\ ret' \in [Stoppers -> {"none", "top", "clear", "idle", "done"}]
           /\ shutdown' \in BOOLEAN /\ running' \in BOOLEAN /\ monitoring' \in BOOLEAN
           /\ simulating' \in BOOLEAN
           /\ \E to \in {"join", back} :
                 Goto(t, to) /\ (to = "join" => ret'[t] = back)
           /\ \A u \in Stoppers \ {t} : ret'[u] = ret[u]
  BY DEF StopFlags, Goto, TypeInv, TypeOK, flags

LEMMA StartTyped ==
    ASSUME TypeInv, NEW c \in Callers, Start(c)
    PROVE  TypeInv'
<1>0. c \in Stoppers /\ Home(c) \in {"idle", "done"}
  BY DEF Stoppers, Home
<1>1. CASE StartReset(c)
  <2>1. Goto(c, "flags") /\ "flags" \in CallerLabels /\ ret' = ret
    BY <1>1 DEF StartReset, CallerLabels, StartLabels
  <2> QED BY <1>1, <2>1, CallerMoves DEF StartReset, TypeInv, TypeOK, flags, names, history
<1>2. CASE StartStops(c)
  <2>1. PICK to \in {"join", "clear"} : Goto(c, to) /\ (to = "join" => ret'[c] = "clear")
    BY <1>0, <1>2, StopFlagsTyped DEF StartStops
  <2>2. to \in CallerLabels
    BY DEF CallerLabels, StartLabels
  <2>3. /\ ret' \in [Stoppers -> {"none", "top", "clear", "idle", "done"}]
        /\ shutdown' \in BOOLEAN /\ running' \in BOOLEAN /\ monitoring' \in BOOLEAN
        /\ simulating' \in BOOLEAN
        /\ \A u \in Stoppers \ {c} : ret'[u] = ret[u]
    BY <1>0, <1>2, StopFlagsTyped DEF StartStops
  <2> QED BY <1>2, <2>1, <2>2, <2>3, CallerMoves
          DEF StartStops, TypeInv, TypeOK, names, history
<1>3. CASE StartClear(c)
  <2>1. Goto(c, "account") /\ "account" \in CallerLabels /\ ret' = ret
    BY <1>3 DEF StartClear, CallerLabels, StartLabels
  <2> QED BY <1>3, <2>1, CallerMoves DEF StartClear, TypeInv, TypeOK, names, history
<1>4. CASE StartLaunches(c)
  <2>1. PICK l \in Loops, m \in Monitors :
           pc' = [pc EXCEPT ![c] = Home(c), ![l] = "boot", ![m] = "top"]
    BY <1>4 DEF StartLaunches, Free
  <2>2. /\ pc' \in [Threads -> LoopLabels \cup MonitorLabels \cup CallerLabels]
        /\ \A k \in Loops : pc'[k] \in LoopLabels
        /\ \A n \in Monitors : pc'[n] \in MonitorLabels
        /\ \A d \in Callers : pc'[d] \in CallerLabels
    BY <1>0, <2>1, EngineLifecycleAssumption
    DEF TypeInv, TypeOK, Threads, Stoppers, LoopLabels, MonitorLabels, CallerLabels
  <2>3. Returns'
    BY <1>0, <1>4, <2>1, EngineLifecycleAssumption
    DEF StartLaunches, TypeInv, TypeOK, Returns, Threads, Stoppers
  <2> QED BY <1>4, <2>2, <2>3 DEF StartLaunches, TypeInv, TypeOK, names, history
<1>5. CASE StartRaises(c)
  <2>1. Goto(c, Home(c)) /\ Home(c) \in CallerLabels /\ Home(c) # "join" /\ ret' = ret
    BY <1>0, <1>5 DEF StartRaises, CallerLabels
  <2> QED BY <1>5, <2>1, CallerMoves DEF StartRaises, TypeInv, TypeOK, flags, names
<1>6. CASE StartFails(c)
  <2>1. PICK to \in {"join", Home(c)} : Goto(c, to) /\ (to = "join" => ret'[c] = Home(c))
    BY <1>0, <1>6, StopFlagsTyped DEF StartFails
  <2>2. to \in CallerLabels
    BY <1>0 DEF CallerLabels
  <2>3. /\ ret' \in [Stoppers -> {"none", "top", "clear", "idle", "done"}]
        /\ shutdown' \in BOOLEAN /\ running' \in BOOLEAN /\ monitoring' \in BOOLEAN
        /\ simulating' \in BOOLEAN
        /\ \A u \in Stoppers \ {c} : ret'[u] = ret[u]
    BY <1>0, <1>6, StopFlagsTyped DEF StartFails
  <2> QED BY <1>0, <1>6, <2>1, <2>2, <2>3, CallerMoves DEF StartFails, TypeInv, TypeOK, names
<1> QED BY <1>1, <1>2, <1>3, <1>4, <1>5, <1>6 DEF Start

LEMMA LoopTyped ==
    ASSUME TypeInv, NEW l \in Loops, Loop(l)
    PROVE  TypeInv'
<1>1. ASSUME NEW from, NEW to \in LoopLabels, LoopStep(l, from, to)
      PROVE  TypeInv'
  BY <1>1, LoopMoves DEF LoopStep, TypeInv, TypeOK, flags, names, history
<1>2. CASE HealthFails(l)
  BY <1>2, LoopMoves DEF HealthFails, LoopLabels, TypeInv, TypeOK, names
<1>3. CASE FindsHalt(l)
  BY <1>3, LoopMoves DEF FindsHalt, LoopLabels, TypeInv, TypeOK, names
<1> QED BY <1>1, <1>2, <1>3
        DEF Loop, HealthOk, LoopOn, LoopEnds, NotHalted, SleepsClosed, SleepsIdle,
            Trades, BreaksBefore, CycleEnds, BreaksAfter, LoopLabels

LEMMA MonitorTyped ==
    ASSUME TypeInv, NEW m \in Monitors, Monitor(m)
    PROVE  TypeInv'
<1>0. m \in Stoppers
  BY DEF Stoppers
<1>1. ASSUME NEW from, NEW to \in MonitorLabels \ {"join"}, MonitorStep(m, from, to)
      PROVE  TypeInv'
  BY <1>1, MonitorMoves DEF MonitorStep, TypeInv, TypeOK, flags, names, history
<1>2. CASE SwitchBegins(m)
  <2>1. chosen' \in [Monitors -> Strategies \cup {None}]
    BY <1>2, EngineLifecycleAssumption DEF SwitchBegins, TypeInv, TypeOK
  <2> QED BY <1>2, <2>1, MonitorMoves
          DEF SwitchBegins, MonitorLabels, TypeInv, TypeOK, history
<1>3. CASE SwitchJoined(m)
  BY <1>3, MonitorMoves DEF SwitchJoined, MonitorLabels, TypeInv, TypeOK, flags, history
<1>4. CASE SwitchBreaks(m)
  BY <1>4, MonitorMoves DEF SwitchBreaks, MonitorLabels, TypeInv, TypeOK, flags, history
<1>5. CASE Relaunches(m)
  <2>1. PICK l \in Loops : pc' = [pc EXCEPT ![m] = "top", ![l] = "boot"]
    BY <1>5 DEF Relaunches, Free
  <2>2. /\ pc' \in [Threads -> LoopLabels \cup MonitorLabels \cup CallerLabels]
        /\ \A k \in Loops : pc'[k] \in LoopLabels
        /\ \A n \in Monitors : pc'[n] \in MonitorLabels
        /\ \A d \in Callers : pc'[d] \in CallerLabels
    BY <1>0, <2>1, EngineLifecycleAssumption
    DEF TypeInv, TypeOK, Threads, Stoppers, LoopLabels, MonitorLabels
  <2>3. Returns'
    BY <1>0, <1>5, <2>1, EngineLifecycleAssumption
    DEF Relaunches, TypeInv, TypeOK, Returns, Threads, Stoppers
  <2> QED BY <1>5, <2>2, <2>3 DEF Relaunches, TypeInv, TypeOK, history
<1>6. CASE BuildFails(m)
  <2>1. PICK to \in {"join", "top"} : Goto(m, to) /\ (to = "join" => ret'[m] = "top")
    BY <1>0, <1>6, StopFlagsTyped DEF BuildFails
  <2>2. to \in MonitorLabels
    BY DEF MonitorLabels
  <2>3. /\ ret' \in [Stoppers -> {"none", "top", "clear", "idle", "done"}]
        /\ shutdown' \in BOOLEAN /\ running' \in BOOLEAN /\ monitoring' \in BOOLEAN
        /\ simulating' \in BOOLEAN
        /\ \A u \in Stoppers \ {m} : ret'[u] = ret[u]
    BY <1>0, <1>6, StopFlagsTyped DEF BuildFails
  <2>4. active' \in Strategies \cup {None} /\ chosen' \in [Monitors -> Strategies \cup {None}]
    BY <1>6 DEF BuildFails, TypeInv, TypeOK
  <2> QED BY <1>6, <2>1, <2>2, <2>3, <2>4, MonitorMoves DEF BuildFails, TypeInv, TypeOK
<1> QED BY <1>1, <1>2, <1>3, <1>4, <1>5, <1>6
        DEF Monitor, MonitorOn, MonitorEnds, Scanned, ScanBreaks, ScanFails,
            SameStrategy, SwitchGoesOn, MonitorLabels

(* The joins are over. *)
LEMMA JoinTyped ==
    ASSUME TypeInv, NEW t \in Stoppers, StopJoined(t)
    PROVE  TypeInv'
<1>1. pc[t] = "join" /\ Goto(t, ret[t]) /\ \A u \in Stoppers \ {t} : ret'[u] = ret[u]
  BY DEF StopJoined, TypeInv, TypeOK
<1>2. ret' \in [Stoppers -> {"none", "top", "clear", "idle", "done"}]
  BY DEF StopJoined, TypeInv, TypeOK
<1>3. CASE t \in Callers
  <2>1. ret[t] \in CallerLabels \ {"join"}
    BY <1>1, <1>3 DEF TypeInv, Returns, CallerLabels, StartLabels
  <2> QED BY <1>1, <1>2, <1>3, <2>1, CallerMoves DEF StopJoined, TypeInv, TypeOK, history
<1>4. CASE t \in Monitors
  <2>1. ret[t] = "top" /\ "top" \in MonitorLabels
    BY <1>1, <1>4 DEF TypeInv, Returns, MonitorLabels
  <2> QED BY <1>1, <1>2, <1>4, <2>1, MonitorMoves DEF StopJoined, TypeInv, TypeOK, history
<1> QED BY <1>3, <1>4 DEF Stoppers

(* Commands and the environment. *)
LEMMA StopTyped == TypeInv /\ Stop => TypeInv'
<1> SUFFICES ASSUME TypeInv, Stop PROVE TypeInv'
  OBVIOUS
<1>0. Http \in Stoppers /\ Http \in Callers
  BY DEF Stoppers, Callers
<1>1. PICK to \in {"join", "idle"} : Goto(Http, to) /\ (to = "join" => ret'[Http] = "idle")
  BY <1>0, StopFlagsTyped DEF Stop
<1>2. to \in CallerLabels
  BY DEF CallerLabels
<1>3. /\ ret' \in [Stoppers -> {"none", "top", "clear", "idle", "done"}]
      /\ shutdown' \in BOOLEAN /\ running' \in BOOLEAN /\ monitoring' \in BOOLEAN
      /\ simulating' \in BOOLEAN
      /\ \A u \in Stoppers \ {Http} : ret'[u] = ret[u]
  BY <1>0, StopFlagsTyped DEF Stop
<1> QED BY <1>0, <1>1, <1>2, <1>3, CallerMoves DEF Stop, TypeInv, TypeOK, names

LEMMA StartBeginTyped ==
    ASSUME TypeInv, NEW c \in Callers, StartBegin(c)
    PROVE  TypeInv'
  BY CallerMoves DEF StartBegin, CallerLabels, StartLabels, TypeInv, TypeOK, names

LEMMA WorldTyped ==
    TypeInv /\ (SimBegins \/ SimEnds \/ SetStrategy \/ Trip \/ Reset) => TypeInv'
<1> SUFFICES ASSUME TypeInv PROVE (SimBegins \/ SimEnds \/ SetStrategy \/ Trip \/ Reset)
                                    => TypeInv'
  OBVIOUS
<1>1. CASE SimBegins
  <2>1. sims' \in 0..MaxSims
    BY <1>1, EngineLifecycleAssumption DEF SimBegins, TypeInv, TypeOK
  <2> QED BY <1>1, <2>1 DEF SimBegins, TypeInv, TypeOK, Returns, names
<1>2. CASE SimEnds
  <2>1. sims' \in 0..MaxSims
    BY <1>2, EngineLifecycleAssumption DEF SimEnds, TypeInv, TypeOK
  <2> QED BY <1>2, <2>1 DEF SimEnds, TypeInv, TypeOK, Returns, names, history
<1>3. CASE SetStrategy
  BY <1>3 DEF SetStrategy, TypeInv, TypeOK, Returns, Names, flags, history
<1>4. CASE Trip \/ Reset
  BY <1>4 DEF Trip, Reset, TypeInv, TypeOK, Returns, flags, names, history
<1> QED BY <1>1, <1>2, <1>3, <1>4

-----------------------------------------------------------------------------

LEMMA NextTyped == TypeInv /\ [Next]_vars => TypeInv'
<1> SUFFICES ASSUME TypeInv, [Next]_vars PROVE TypeInv'
  OBVIOUS
<1>1. CASE UNCHANGED vars
  BY <1>1 DEF vars, flags, names, history, TypeInv, TypeOK, Returns
<1>2. CASE \E t \in Threads : Work(t)
  BY <1>2, StartTyped, JoinTyped, LoopTyped, MonitorTyped DEF Work
<1>3. CASE \E c \in Callers : StartBegin(c)
  BY <1>3, StartBeginTyped
<1> QED BY <1>1, <1>2, <1>3, StopTyped, WorldTyped DEF Next

(* Every reachable state has its types: threads stay at their own labels,    *)
(* stop_strategy returns where its caller goes on, only known strategies     *)
(* become active, and simulations stay within their bound.                   *)
THEOREM TypeCorrect == Spec => []TypeOK
<1>1. Init => TypeInv
  BY InitTyped
<1>2. TypeInv => TypeOK
  BY DEF TypeInv
<1> QED BY <1>1, <1>2, NextTyped, PTL DEF Spec

-----------------------------------------------------------------------------

(* The event set by a stop can only be cleared by a start or a simulation:   *)
(* after the stop, no start is in the middle of its statements.              *)
Stopped == asked = "stop" => shutdown /\ Starting = {}

(* Starting as a predicate of one caller. *)
Begun(c) == pc[c] \in StartLabels \/ (pc[c] = "join" /\ ret[c] = "clear")

LEMMA StoppedPointwise ==
    Stopped <=> (asked = "stop" => shutdown /\ \A c \in Callers : ~Begun(c))
  BY DEF Stopped, Starting, Begun

LEMMA StoppedStep == TypeInv /\ Stopped /\ [Next]_vars => Stopped'
<1> SUFFICES ASSUME TypeInv, Stopped, [Next]_vars, asked' = "stop"
             PROVE  shutdown' /\ \A c \in Callers : ~Begun(c)'
  BY DEF Stopped, Starting, Begun
<1>1. CASE asked # "stop"
  <2>1. Stop
    BY <1>1 DEF Next, Work, Start, Loop, Monitor, StopJoined, StartBegin, StartReset,
        StartStops, StartClear, StartLaunches, StartRaises, StartFails, HealthOk,
        HealthFails, LoopOn, LoopEnds, NotHalted, FindsHalt, SleepsClosed, SleepsIdle,
        Trades, BreaksBefore, CycleEnds, BreaksAfter, LoopStep, MonitorStep, MonitorOn,
        MonitorEnds, Scanned, ScanBreaks, ScanFails, SameStrategy, SwitchBegins,
        SwitchJoined, SwitchGoesOn, SwitchBreaks, Relaunches, BuildFails, SimBegins,
        SimEnds, SetStrategy, Trip, Reset, vars, history
  <2>2. Starting = {} /\ ~Quiet
    BY <2>1 DEF Stop
  <2>3. /\ shutdown'
        /\ pc' = [pc EXCEPT ![Http] = "join"]
        /\ ret' = [ret EXCEPT ![Http] = "idle"]
    BY <2>1, <2>2 DEF Stop, StopFlags, Goto
  <2> QED BY <2>2, <2>3
          DEF Begun, Starting, StartLabels, TypeInv, TypeOK, Threads, Stoppers
<1>2. CASE asked = "stop"
  <2>1. shutdown /\ \A c \in Callers : ~Begun(c)
    BY <1>2, StoppedPointwise
  <2>2. CASE \E c \in Callers : Start(c)
    BY <2>1, <2>2 DEF Begun, StartLabels, Start, StartReset, StartStops, StartClear,
        StartLaunches, StartRaises, StartFails
  <2>3. ASSUME NEW t \in Stoppers, StopJoined(t)
        PROVE  shutdown' /\ \A c \in Callers : ~Begun(c)'
    <3>1. t \in Callers => ret[t] \in {"idle", "done"}
      BY <2>1, <2>3 DEF StopJoined, Begun, TypeInv, Returns
    <3> QED BY <2>1, <2>3, <3>1, EngineLifecycleAssumption
            DEF StopJoined, Goto, Begun, StartLabels, TypeInv, TypeOK, Threads, Stoppers
  <2>4. ASSUME NEW l \in Loops, Loop(l)
        PROVE  shutdown' /\ \A c \in Callers : ~Begun(c)'
    <3>1. shutdown' /\ ret' = ret /\ \A c \in Callers : pc'[c] = pc[c]
      BY <2>1, <2>4, EngineLifecycleAssumption
      DEF Loop, HealthOk, HealthFails, LoopOn, LoopEnds, NotHalted, FindsHalt,
          SleepsClosed, SleepsIdle, Trades, BreaksBefore, CycleEnds, BreaksAfter,
          LoopStep, Goto, flags, TypeInv, TypeOK, Threads, Stoppers
    <3> QED BY <2>1, <3>1 DEF Begun
  <2>5. ASSUME NEW m \in Monitors, Monitor(m)
        PROVE  shutdown' /\ \A c \in Callers : ~Begun(c)'
    <3>0. m \in Stoppers /\ m \notin Callers
      BY EngineLifecycleAssumption DEF Stoppers
    <3>1. /\ shutdown'
          /\ \A c \in Callers : pc'[c] = pc[c] /\ ret'[c] = ret[c]
      <4>1. CASE BuildFails(m)
        BY <2>1, <3>0, <4>1 DEF BuildFails, StopFlags, Goto, flags, TypeInv, TypeOK,
            Threads, Stoppers
      <4>2. CASE Relaunches(m)
        BY <2>1, <3>0, <4>2, EngineLifecycleAssumption
        DEF Relaunches, Free, TypeInv, TypeOK, Threads, Stoppers
      <4> QED BY <2>1, <2>5, <3>0, <4>1, <4>2
        DEF Monitor, MonitorStep, MonitorOn, MonitorEnds, Scanned, ScanBreaks,
            ScanFails, SameStrategy, SwitchBegins, SwitchJoined, SwitchGoesOn,
            SwitchBreaks, Goto, flags, TypeInv, TypeOK, Threads, Stoppers
    <3> QED BY <2>1, <3>1 DEF Begun
  <2>6. CASE Stop
    <3>1. ~Quiet /\ Starting = {}
      BY <2>6 DEF Stop
    <3>2. /\ shutdown'
          /\ pc' = [pc EXCEPT ![Http] = "join"]
          /\ ret' = [ret EXCEPT ![Http] = "idle"]
      BY <2>6, <3>1 DEF Stop, StopFlags, Goto
    <3> QED BY <2>1, <3>2
            DEF Begun, StartLabels, TypeInv, TypeOK, Threads, Stoppers
  <2>7. CASE SimEnds \/ SetStrategy \/ Trip \/ Reset \/ UNCHANGED vars
    BY <2>1, <2>7 DEF SimEnds, SetStrategy, Trip, Reset, vars, flags, Begun
  <2>8. ~SimBegins /\ ~\E c \in Callers : StartBegin(c)
    BY DEF SimBegins, StartBegin
  <2> QED BY <2>2, <2>3, <2>4, <2>5, <2>6, <2>7, <2>8 DEF Next, Work
<1> QED BY <1>1, <1>2

(* After a stop that took effect, and until the next command, the shutdown   *)
(* event stays set, whatever timers, monitors and loops still do.            *)
THEOREM StopStays == Spec => []StopSticks
<1>1. Init => TypeInv /\ Stopped
  BY InitTyped DEF Init, Stopped
<1>2. Stopped => StopSticks
  BY DEF Stopped, StopSticks
<1> QED BY <1>1, <1>2, NextTyped, StoppedStep, PTL DEF Spec

-----------------------------------------------------------------------------
(* StopDrains.  Whatever would let a session go on asks for the event, which *)
(* Stopped finds set; only a monitor at "build" asks no more.                *)

(* What a step may change without launching or letting through anything. *)
Calm ==
    /\ \A l \in Loops : /\ pc'[l] = "cycle" => pc[l] = "cycle"
                        /\ ~Launched(l)
    /\ \A m \in Monitors : /\ pc'[m] = "build" => pc[m] = "build"
                           /\ pc[m] = "dead" => pc'[m] = "dead"

LEMMA CalmDrains == Calm => Drains
  BY DEF Calm, Drains

(* A thread that goes on where no session begins is calm. *)
LEMMA MoveIsCalm ==
    ASSUME TypeInv, NEW t \in Threads, NEW to, Goto(t, to),
           to \notin {"cycle", "build"}, pc[t] # "dead"
    PROVE  Calm
  BY DEF Calm, Launched, Goto, TypeInv, TypeOK

LEMMA StopFlagsCalm ==
    ASSUME TypeInv, NEW t \in Stoppers, NEW back, StopFlags(t, back),
           back \notin {"cycle", "build"}, pc[t] # "dead"
    PROVE  Calm
<1>1. t \in Threads
  BY DEF Threads
<1>2. Goto(t, back) \/ Goto(t, "join")
  BY DEF StopFlags
<1> QED BY <1>1, <1>2, MoveIsCalm

LEMMA DrainsStep ==
    ASSUME TypeInv, Stopped, [Next]_vars, asked = "stop", asked' = "stop"
    PROVE  Drains
<1>1. shutdown /\ \A c \in Callers : ~Begun(c)
  BY StoppedPointwise
<1>2. CASE \E c \in Callers : Start(c)
  BY <1>1, <1>2 DEF Begun, StartLabels, Start, StartReset, StartStops, StartClear,
      StartLaunches, StartRaises, StartFails
<1>3. ASSUME NEW t \in Stoppers, StopJoined(t) PROVE Calm
  <2>1. ret[t] \in {"clear", "idle", "done", "top"} /\ t \in Threads
    BY <1>3 DEF StopJoined, Stoppers, Threads, TypeInv, Returns
  <2> QED BY <1>3, <2>1, MoveIsCalm DEF StopJoined
<1>4. ASSUME NEW l \in Loops, Loop(l) PROVE Calm
  <2>1. l \in Threads
    BY DEF Threads
  <2>2. ASSUME NEW from, NEW to, LoopStep(l, from, to), from # "dead",
               to \notin {"cycle", "build"}
        PROVE  Calm
    BY <2>1, <2>2, MoveIsCalm DEF LoopStep
  <2>3. CASE HealthFails(l) \/ FindsHalt(l)
    BY <2>1, <2>3, MoveIsCalm DEF HealthFails, FindsHalt
  <2>4. ~Trades(l)
    BY <1>1 DEF Trades
  <2> QED BY <1>4, <2>2, <2>3, <2>4
          DEF Loop, HealthOk, LoopOn, LoopEnds, NotHalted, SleepsClosed, SleepsIdle,
              BreaksBefore, CycleEnds, BreaksAfter
<1>5. ASSUME NEW m \in Monitors, Monitor(m) PROVE Drains
  <2>1. m \in Threads /\ m \in Stoppers
    BY DEF Threads, Stoppers
  <2>2. ASSUME NEW from, NEW to, MonitorStep(m, from, to), from # "dead",
               to \notin {"cycle", "build"}
        PROVE  Drains
    BY <2>1, <2>2, MoveIsCalm, CalmDrains DEF MonitorStep
  <2>3. CASE SwitchBegins(m) \/ SwitchJoined(m) \/ SwitchBreaks(m)
    <3>1. PICK to \in {"switch", "check", "dead"} : Goto(m, to)
      BY <2>3 DEF SwitchBegins, SwitchJoined, SwitchBreaks
    <3> QED BY <2>1, <2>3, <3>1, MoveIsCalm, CalmDrains
            DEF SwitchBegins, SwitchJoined, SwitchBreaks
  <2>4. CASE BuildFails(m)
    BY <2>1, <2>4, StopFlagsCalm, CalmDrains DEF BuildFails
  <2>5. CASE Relaunches(m)
    <3>1. PICK l \in Loops : pc' = [pc EXCEPT ![m] = "top", ![l] = "boot"]
      BY <2>5 DEF Relaunches, Free
    <3>2. pc[m] = "build" /\ pc'[m] = "top" /\ m \notin Loops
      BY <2>1, <2>5, <3>1, EngineLifecycleAssumption
      DEF Relaunches, TypeInv, TypeOK, Stoppers
    <3>3. \A k \in Loops : Launched(k) => k = l
      BY <3>1, <3>2 DEF Launched, TypeInv, TypeOK, Threads
    <3>4. /\ \A k \in Loops : pc'[k] = "cycle" => pc[k] = "cycle"
          /\ \A n \in Monitors : pc'[n] = "build" => pc[n] = "build"
          /\ \A n \in Monitors : pc[n] = "dead" => pc'[n] = "dead"
      BY <3>1, <3>2, EngineLifecycleAssumption
      DEF TypeInv, TypeOK, Threads, Stoppers
    <3> QED BY <3>2, <3>3, <3>4 DEF Drains
  <2>6. ~SwitchGoesOn(m)
    BY <1>1 DEF SwitchGoesOn
  <2> QED BY <1>5, <2>2, <2>3, <2>4, <2>5, <2>6
          DEF Monitor, MonitorOn, MonitorEnds, Scanned, ScanBreaks, ScanFails,
              SameStrategy
<1>6. CASE Stop
  BY <1>6, StopFlagsCalm, CalmDrains DEF Stop, Stoppers, Callers
<1>7. CASE SimEnds \/ SetStrategy \/ Trip \/ Reset \/ UNCHANGED vars
  <2>1. pc' = pc
    BY <1>7 DEF SimEnds, SetStrategy, Trip, Reset, vars
  <2> QED BY <2>1 DEF Drains, Launched
<1>8. ~SimBegins /\ ~\E c \in Callers : StartBegin(c)
  BY DEF SimBegins, StartBegin
<1> QED BY <1>2, <1>3, <1>4, <1>5, <1>6, <1>7, <1>8, CalmDrains DEF Next, Work

(* From a stop that took effect to the next command no trading cycle begins, *)
(* and no more loops are launched than monitors were past their check,       *)
(* however many threads of earlier sessions are still alive.                 *)
THEOREM StopAlwaysDrains == Spec => StopDrains
<1>1. Init => TypeInv /\ Stopped
  BY InitTyped DEF Init, Stopped
<1>2. TypeInv /\ Stopped /\ [Next]_vars
        => [asked = "stop" /\ asked' = "stop" => Drains]_vars
  BY DrainsStep
<1> QED BY <1>1, <1>2, NextTyped, StoppedStep, PTL DEF Spec, StopDrains

=============================================================================
