-------------------------- MODULE StrategySwapProofs --------------------------
(***************************************************************************)
(* Proofs about the strategy in charge, for any strategies and any number  *)
(* of trading loops and monitors: types, and that the engine and the       *)
(* registry agree whenever no thread is between its two updates.           *)
(***************************************************************************)
EXTENDS StrategySwap, TLAPS

(* Each kind of thread keeps to its own places; strategy_lock is held over   *)
(* several steps in two of them. *)
Places ==
    /\ \A l \in Loops : pc[l] \in {"idle", "cycle", "handover", "commit", "copy", "assign"}
    /\ \A m \in Monitors : pc[m] \in {"idle", "compare", "clear", "build", "register"}
    /\ \A l \in Loops : pc[l] = "assign" <=> lock = l
    /\ \A m \in Monitors : pc[m] = "register" <=> lock = m

(* What a thread has read still counts when it uses it: a loop that copies   *)
(* an outdated name leaves the correction to the loop that outdated it.      *)
Reads ==
    /\ \A m \in Monitors : pc[m] # "idle" => seen[m] \in Names
    /\ \A m \in Monitors :
           pc[m] = "register" => active = <<seen[m], Succeeding(built[seen[m]])>>
    /\ \A l \in Loops :
           pc[l] = "assign" => seen[l] = activeName \/ \E k \in Loops : pc[k] = "copy"

Inv == TypeOK /\ Places /\ Reads /\ ViewsAgree

LEMMA InstanceType ==
    ASSUME TypeOK, NEW name
    PROVE  Instance(name) \in Instances \cup {None}
BY DEF TypeOK, Instance, Instances, Registered, Generations

LEMMA SucceedingType == \A g : Succeeding(g) \in {1, 2}
BY DEF Succeeding

LEMMA InitInv == Init => Inv
BY StrategySwapAssumption
   DEF Init, Inv, TypeOK, Places, Reads, ViewsAgree, Threads, Registered, Generations

LEMMA SwapInv ==
    ASSUME Inv, NEW name \in Names, Swap(name)
    PROVE  Inv'
BY DEF Swap, Inv, TypeOK, Places, Reads, ViewsAgree, Instance, Registered, Threads,
       registry, engine

LEMMA SetModeInv ==
    ASSUME Inv, NEW name \in Names, SetMode(name)
    PROVE  Inv'
BY DEF SetMode, Inv, TypeOK, Places, Reads, ViewsAgree, Instance, Registered, Threads,
       registry, engine

LEMMA StopInv ==
    ASSUME Inv, Stop
    PROVE  Inv'
BY StrategySwapAssumption
   DEF Stop, Inv, TypeOK, Places, Reads, ViewsAgree, Registered, Threads, registry

LEMMA StartCycleInv ==
    ASSUME Inv, NEW l \in Loops, StartCycle(l)
    PROVE  Inv'
<1>. USE StrategySwapAssumption DEF StartCycle, Goto, registry, engine, Threads
<1>1. TypeOK'
  BY InstanceType, SucceedingType DEF Inv, TypeOK, Registered, Instances, Places, Reads, Generations
<1>2. Places'
  BY DEF Inv, TypeOK, Places
<1>3. Reads'
  BY DEF Inv, TypeOK, Places, Reads
<1>4. ViewsAgree'
  BY DEF Inv, TypeOK, Places, Reads, ViewsAgree, Instance, Registered
<1>. QED
  BY <1>1, <1>2, <1>3, <1>4 DEF Inv

LEMMA EndCycleInv ==
    ASSUME Inv, NEW l \in Loops, EndCycle(l)
    PROVE  Inv'
<1>. USE StrategySwapAssumption DEF EndCycle, Goto, registry, engine, Threads
<1>1. TypeOK'
  BY InstanceType, SucceedingType DEF Inv, TypeOK, Registered, Instances, Places, Reads, Generations
<1>2. Places'
  BY DEF Inv, TypeOK, Places
<1>3. Reads'
  BY DEF Inv, TypeOK, Places, Reads
<1>4. ViewsAgree'
  BY DEF Inv, TypeOK, Places, Reads, ViewsAgree, Instance, Registered
<1>. QED
  BY <1>1, <1>2, <1>3, <1>4 DEF Inv

LEMMA ReadPendingInv ==
    ASSUME Inv, NEW l \in Loops, ReadPending(l)
    PROVE  Inv'
<1>. USE StrategySwapAssumption DEF ReadPending, Goto, registry, engine, Threads
<1>1. TypeOK'
  BY InstanceType, SucceedingType DEF Inv, TypeOK, Registered, Instances, Places, Reads, Generations
<1>2. Places'
  BY DEF Inv, TypeOK, Places
<1>3. Reads'
  BY DEF Inv, TypeOK, Places, Reads
<1>4. ViewsAgree'
  BY DEF Inv, TypeOK, Places, Reads, ViewsAgree, Instance, Registered
<1>. QED
  BY <1>1, <1>2, <1>3, <1>4 DEF Inv

LEMMA CommitInv ==
    ASSUME Inv, NEW l \in Loops, Commit(l)
    PROVE  Inv'
<1>. USE StrategySwapAssumption DEF Commit, Goto, registry, engine, Threads
<1>1. TypeOK'
  BY InstanceType, SucceedingType DEF Inv, TypeOK, Registered, Instances, Places, Reads, Generations
<1>2. Places'
  BY DEF Inv, TypeOK, Places
<1>3. Reads'
  BY DEF Inv, TypeOK, Places, Reads
<1>4. ViewsAgree'
  BY DEF Inv, TypeOK, Places, Reads, ViewsAgree, Instance, Registered
<1>. QED
  BY <1>1, <1>2, <1>3, <1>4 DEF Inv

LEMMA CopyNameInv ==
    ASSUME Inv, NEW l \in Loops, CopyName(l)
    PROVE  Inv'
<1>. USE StrategySwapAssumption DEF CopyName, Goto, registry, engine, Threads
<1>1. TypeOK'
  BY InstanceType, SucceedingType DEF Inv, TypeOK, Registered, Instances, Places, Reads, Generations
<1>2. Places'
  BY DEF Inv, TypeOK, Places
<1>3. Reads'
  BY DEF Inv, TypeOK, Places, Reads
<1>4. ViewsAgree'
  BY DEF Inv, TypeOK, Places, Reads, ViewsAgree, Instance, Registered
<1>. QED
  BY <1>1, <1>2, <1>3, <1>4 DEF Inv

LEMMA AssignInv ==
    ASSUME Inv, NEW l \in Loops, Assign(l)
    PROVE  Inv'
<1>. USE StrategySwapAssumption DEF Assign, Goto, registry, engine, Threads
<1>1. TypeOK'
  BY InstanceType, SucceedingType DEF Inv, TypeOK, Registered, Instances, Places, Reads, Generations
<1>2. Places'
  BY DEF Inv, TypeOK, Places
<1>3. Reads'
  BY DEF Inv, TypeOK, Places, Reads
<1>4. ViewsAgree'
  BY DEF Inv, TypeOK, Places, Reads, ViewsAgree, Instance, Registered
<1>. QED
  BY <1>1, <1>2, <1>3, <1>4 DEF Inv

LEMMA ReadTargetInv ==
    ASSUME Inv, NEW m \in Monitors, ReadTarget(m)
    PROVE  Inv'
<1>. USE StrategySwapAssumption DEF ReadTarget, Goto, registry, engine, Threads
<1>1. TypeOK'
  BY InstanceType, SucceedingType DEF Inv, TypeOK, Registered, Instances, Places, Reads, Generations
<1>2. Places'
  BY DEF Inv, TypeOK, Places
<1>3. Reads'
  BY DEF Inv, TypeOK, Places, Reads
<1>4. ViewsAgree'
  BY DEF Inv, TypeOK, Places, Reads, ViewsAgree, Instance, Registered
<1>. QED
  BY <1>1, <1>2, <1>3, <1>4 DEF Inv

LEMMA CompareInv ==
    ASSUME Inv, NEW m \in Monitors, Compare(m)
    PROVE  Inv'
<1>. USE StrategySwapAssumption DEF Compare, Goto, registry, engine, Threads
<1>1. TypeOK'
  BY InstanceType, SucceedingType DEF Inv, TypeOK, Registered, Instances, Places, Reads, Generations
<1>2. Places'
  BY DEF Inv, TypeOK, Places
<1>3. Reads'
  BY DEF Inv, TypeOK, Places, Reads
<1>4. ViewsAgree'
  BY DEF Inv, TypeOK, Places, Reads, ViewsAgree, Instance, Registered
<1>. QED
  BY <1>1, <1>2, <1>3, <1>4 DEF Inv

LEMMA ClearInv ==
    ASSUME Inv, NEW m \in Monitors, Clear(m)
    PROVE  Inv'
<1>. USE StrategySwapAssumption DEF Clear, Goto, registry, engine, Threads
<1>1. TypeOK'
  BY InstanceType, SucceedingType DEF Inv, TypeOK, Registered, Instances, Places, Reads, Generations
<1>2. Places'
  BY DEF Inv, TypeOK, Places
<1>3. Reads'
  BY DEF Inv, TypeOK, Places, Reads
<1>4. ViewsAgree'
  BY DEF Inv, TypeOK, Places, Reads, ViewsAgree, Instance, Registered
<1>. QED
  BY <1>1, <1>2, <1>3, <1>4 DEF Inv

LEMMA BuildInv ==
    ASSUME Inv, NEW m \in Monitors, Build(m)
    PROVE  Inv'
<1>. USE StrategySwapAssumption DEF Build, Goto, registry, engine, Threads
<1>1. TypeOK'
  BY InstanceType, SucceedingType DEF Inv, TypeOK, Registered, Instances, Places, Reads, Generations
<1>2. Places'
  BY DEF Inv, TypeOK, Places
<1>3. Reads'
  BY DEF Inv, TypeOK, Places, Reads
<1>4. ViewsAgree'
  BY DEF Inv, TypeOK, Places, Reads, ViewsAgree, Instance, Registered
<1>. QED
  BY <1>1, <1>2, <1>3, <1>4 DEF Inv

LEMMA RegisterInv ==
    ASSUME Inv, NEW m \in Monitors, Register(m)
    PROVE  Inv'
<1>. USE StrategySwapAssumption DEF Register, Goto, registry, engine, Threads
<1>1. TypeOK'
  BY InstanceType, SucceedingType DEF Inv, TypeOK, Registered, Instances, Places, Reads, Generations
<1>2. Places'
  BY DEF Inv, TypeOK, Places
<1>3. Reads'
  BY DEF Inv, TypeOK, Places, Reads
<1>4. ViewsAgree'
  <2>1. seen[m] \in Names /\ active = <<seen[m], Succeeding(built[seen[m]])>>
    BY DEF Inv, Places, Reads
  <2>2. built'[seen[m]] = Succeeding(built[seen[m]]) /\ activeName' = seen[m] /\ active' = active
    BY <2>1 DEF Inv, TypeOK
  <2>3. seen[m] \in Registered'
    BY <2>1, <2>2, SucceedingType DEF Registered
  <2>4. Instance(activeName)' = active'
    BY <2>1, <2>2, <2>3 DEF Instance
  <2>. QED
    BY <2>4 DEF ViewsAgree
<1>. QED
  BY <1>1, <1>2, <1>3, <1>4 DEF Inv

LEMMA AbandonInv ==
    ASSUME Inv, NEW m \in Monitors, Abandon(m)
    PROVE  Inv'
<1>. USE StrategySwapAssumption DEF Abandon, Goto, registry, engine, Threads
<1>1. TypeOK'
  BY InstanceType, SucceedingType DEF Inv, TypeOK, Registered, Instances, Places, Reads, Generations
<1>2. Places'
  BY DEF Inv, TypeOK, Places
<1>3. Reads'
  BY DEF Inv, TypeOK, Places, Reads
<1>4. ViewsAgree'
  BY DEF Inv, TypeOK, Places, Reads, ViewsAgree, Instance, Registered
<1>. QED
  BY <1>1, <1>2, <1>3, <1>4 DEF Inv

LEMMA StepInv == Inv /\ [Next]_vars => Inv'
<1>. SUFFICES ASSUME Inv, [Next]_vars PROVE Inv'
  OBVIOUS
<1>1. CASE UNCHANGED vars
  BY <1>1 DEF vars, registry, engine, Inv, TypeOK, Places, Reads, ViewsAgree, Instance,
              Registered, Threads
<1>2. CASE \E name \in Names : Swap(name) \/ SetMode(name)
  BY <1>2, SwapInv, SetModeInv
<1>3. CASE Stop
  BY <1>3, StopInv
<1>4. CASE \E l \in Loops : LoopStep(l)
  BY <1>4, StartCycleInv, EndCycleInv, ReadPendingInv, CommitInv, CopyNameInv, AssignInv
     DEF LoopStep
<1>5. CASE \E m \in Monitors : MonitorStep(m) \/ Abandon(m)
  BY <1>5, ReadTargetInv, CompareInv, ClearInv, BuildInv, RegisterInv, AbandonInv
     DEF MonitorStep
<1>. QED
  BY <1>1, <1>2, <1>3, <1>4, <1>5 DEF Next

THEOREM InvAlways == Spec => []Inv
BY InitInv, StepInv, PTL DEF Spec

(* Active and pending strategies are always registered ones, and every       *)
(* variable keeps its type. *)
THEOREM TypeCorrect == Spec => []TypeOK
<1>1. Inv => TypeOK
  BY DEF Inv
<1>. QED
  BY <1>1, InvAlways, PTL

(* Round table and engine use the same instance of the same strategy unless  *)
(* a thread is between its two updates, for any number of threads. *)
THEOREM ViewsAlwaysAgree == Spec => []ViewsAgree
<1>1. Inv => ViewsAgree
  BY DEF Inv
<1>. QED
  BY <1>1, InvAlways, PTL

=============================================================================
