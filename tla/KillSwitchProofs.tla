-------------------------- MODULE KillSwitchProofs --------------------------
(***************************************************************************)
(* Type correctness, the scoping of halts, and the refinement of the       *)
(* contract, for any number of processes, users and calls under way, with  *)
(* or without failing Redis writes.                                        *)
(***************************************************************************)
EXTENDS KillSwitch, TLAPS

(* Storing a halt keeps the types of the memory of the processes.            *)
LEMMA HaltMemoryTyped ==
    ASSUME TypeOK, NEW p \in Procs, NEW s \in Scopes, HaltMemory(p, s)
    PROVE  /\ localHalted' \in [Procs -> BOOLEAN]
           /\ userHalted' \in [Procs -> SUBSET Users]
<1>1. CASE s = System
  BY <1>1 DEF HaltMemory, TypeOK
<1>2. CASE s # System
  BY <1>2 DEF HaltMemory, TypeOK, Scopes
<1> QED
  BY <1>1, <1>2

(* A call begins, goes on and returns at one of the steps.                   *)
LEMMA CallsTyped ==
    ASSUME TypeOK, NEW p \in Procs, NEW s \in Scopes,
           \/ Ask(p, s) \/ GetSystem(p, s) \/ GetUser(p, s) \/ GetFails(p, s)
           \/ CacheHalt(p, s) \/ NotHalted(p, s) \/ TripMemory(p, s)
           \/ TripRedis(p, s) \/ ResetMemory(p, s) \/ ResetRedis(p, s)
    PROVE  calls' \subseteq Procs \X Scopes \X Steps
<1> DEFINE Calls == Procs \X Scopes \X Steps
<1> SUFFICES calls' \subseteq Calls
  OBVIOUS
<1>1. /\ <<p, s, "get system">> \in Calls /\ <<p, s, "get user">> \in Calls
      /\ <<p, s, "cache">> \in Calls /\ <<p, s, "not halted">> \in Calls
      /\ <<p, s, "set">> \in Calls /\ <<p, s, "delete">> \in Calls
      /\ <<p, System, "cache">> \in Calls
  BY DEF Scopes, Steps
<1>2. calls \subseteq Calls
  BY DEF TypeOK
<1> HIDE DEF Calls
<1>3. \A step, next : GoOn(p, s, step, next) /\ next \in Calls => calls' \subseteq Calls
  BY <1>2 DEF GoOn
<1>4. CASE Ask(p, s)
  <2>1. Begin(p, s, "get system") \/ Begin(p, s, "not halted")
    BY <1>4 DEF Ask
  <2> QED
    BY <1>1, <1>2, <2>1 DEF Begin
<1>5. CASE ResetMemory(p, s)
  BY <1>1, <1>2, <1>5 DEF ResetMemory, Begin
<1>6. CASE GetSystem(p, s)
  <2>1. \/ GoOn(p, s, "get system", <<p, System, "cache">>)
        \/ GoOn(p, s, "get system", <<p, s, "not halted">>)
        \/ GoOn(p, s, "get system", <<p, s, "get user">>)
    BY <1>6 DEF GetSystem
  <2> QED
    BY <1>1, <1>3, <2>1
<1>7. CASE GetUser(p, s)
  <2>1. \/ GoOn(p, s, "get user", <<p, s, "cache">>)
        \/ GoOn(p, s, "get user", <<p, s, "not halted">>)
    BY <1>7 DEF GetUser
  <2> QED
    BY <1>1, <1>3, <2>1
<1>8. CASE GetFails(p, s)
  BY <1>1, <1>3, <1>8 DEF GetFails
<1>9. CASE TripMemory(p, s)
  BY <1>1, <1>2, <1>3, <1>9 DEF TripMemory, Return
<1>10. CASE CacheHalt(p, s) \/ NotHalted(p, s) \/ TripRedis(p, s) \/ ResetRedis(p, s)
  BY <1>2, <1>10 DEF CacheHalt, NotHalted, TripRedis, ResetRedis, Return
<1> QED
  BY <1>4, <1>5, <1>6, <1>7, <1>8, <1>9, <1>10

(* Every variable of KillSwitch keeps its type.                              *)
THEOREM TypeCorrect == Spec => []TypeOK
<1>1. Init => TypeOK
  BY DEF Init, TypeOK
<1>2. TypeOK /\ [Next]_vars => TypeOK'
  <2> SUFFICES ASSUME TypeOK, [Next]_vars PROVE TypeOK'
    OBVIOUS
  <2> USE DEF TypeOK, memory
  <2>1. ASSUME NEW p \in Procs, Restart(p) PROVE TypeOK'
    BY <2>1 DEF Restart
  <2>2. ASSUME NEW p \in Procs, NEW s \in Scopes,
               \/ Ask(p, s) \/ GetSystem(p, s) \/ GetUser(p, s)
               \/ GetFails(p, s) \/ NotHalted(p, s)
        PROVE  TypeOK'
    <3>1. calls' \subseteq Procs \X Scopes \X Steps
      BY <2>2, CallsTyped
    <3> QED
      BY <2>2, <3>1 DEF Ask, GetSystem, GetUser, GetFails, NotHalted
  <2>3. ASSUME NEW p \in Procs, NEW s \in Scopes,
               CacheHalt(p, s) \/ TripMemory(p, s)
        PROVE  TypeOK'
    <3>1. /\ localHalted' \in [Procs -> BOOLEAN]
          /\ userHalted' \in [Procs -> SUBSET Users]
      BY <2>3, HaltMemoryTyped DEF CacheHalt, TripMemory
    <3>2. calls' \subseteq Procs \X Scopes \X Steps
      BY <2>3, CallsTyped
    <3> QED
      BY <2>3, <3>1, <3>2 DEF CacheHalt, TripMemory
  <2>4. ASSUME NEW p \in Procs, NEW s \in Scopes,
               TripRedis(p, s) \/ ResetRedis(p, s)
        PROVE  TypeOK'
    <3>1. calls' \subseteq Procs \X Scopes \X Steps
      BY <2>4, CallsTyped
    <3> QED
      BY <2>4, <3>1 DEF TripRedis, ResetRedis, WriteRedis
  <2>5. ASSUME NEW p \in Procs, NEW s \in Scopes, ResetMemory(p, s) PROVE TypeOK'
    <3>1. localHalted' \in [Procs -> BOOLEAN]
      BY <2>5 DEF ResetMemory, ClearMemory
    <3>2. userHalted' \in [Procs -> SUBSET Users]
      BY <2>5 DEF ResetMemory, ClearMemory
    <3>3. calls' \subseteq Procs \X Scopes \X Steps
      BY <2>5, CallsTyped
    <3> QED
      BY <2>5, <3>1, <3>2, <3>3 DEF ResetMemory
  <2>6. CASE UNCHANGED vars
    BY <2>6 DEF vars
  <2> QED
    BY <2>1, <2>2, <2>3, <2>4, <2>5, <2>6 DEF Next
<1> QED
  BY <1>1, <1>2, PTL DEF Spec

(* Storing the halt of a tripped scope in a process leaves halts scoped.     *)
LEMMA HaltMemoryScoped ==
    ASSUME TypeOK, HaltsAreScoped, NEW p \in Procs, NEW s \in tripped,
           HaltMemory(p, s), tripped \subseteq tripped'
    PROVE  \A q \in Procs : /\ localHalted'[q] => System \in tripped'
                            /\ userHalted'[q] \subseteq tripped'
  BY DEF TypeOK, HaltsAreScoped, HaltMemory, Scopes

(* The halt of one scope never appears under another one: whatever is        *)
(* halted in a process, in Redis, or in a call between the two was tripped.  *)
THEOREM Scoped == Spec => []HaltsAreScoped
<1>1. Init => HaltsAreScoped
  BY DEF Init, HaltsAreScoped
<1>2. TypeOK /\ HaltsAreScoped /\ [Next]_vars => HaltsAreScoped'
  <2> SUFFICES ASSUME TypeOK, HaltsAreScoped, [Next]_vars PROVE HaltsAreScoped'
    OBVIOUS
  <2>1. ASSUME NEW p \in Procs, Restart(p) PROVE HaltsAreScoped'
    BY <2>1 DEF Restart, HaltsAreScoped, TypeOK
  <2>2. ASSUME NEW p \in Procs, NEW s \in Scopes,
               Ask(p, s) \/ GetFails(p, s) \/ NotHalted(p, s)
        PROVE  HaltsAreScoped'
    BY <2>2 DEF Ask, GetFails, NotHalted, Begin, GoOn, Return, HaltsAreScoped, memory
  <2>3. ASSUME NEW p \in Procs, NEW s \in Scopes, GetSystem(p, s) PROVE HaltsAreScoped'
    BY <2>3 DEF GetSystem, GoOn, HaltsAreScoped, memory
  <2>4. ASSUME NEW p \in Procs, NEW s \in Scopes, GetUser(p, s) PROVE HaltsAreScoped'
    BY <2>4 DEF GetUser, GoOn, HaltsAreScoped, memory
  <2>5. ASSUME NEW p \in Procs, NEW s \in Scopes, CacheHalt(p, s) PROVE HaltsAreScoped'
    <3>1. s \in tripped
      BY <2>5 DEF CacheHalt, Return, HaltsAreScoped
    <3>2. \A q \in Procs : /\ localHalted'[q] => System \in tripped'
                           /\ userHalted'[q] \subseteq tripped'
      BY <2>5, <3>1, HaltMemoryScoped DEF CacheHalt
    <3> QED
      BY <2>5, <3>2 DEF CacheHalt, Return, HaltsAreScoped
  <2>6. ASSUME NEW p \in Procs, NEW s \in Scopes, TripMemory(p, s) PROVE HaltsAreScoped'
    <3>1. \A q \in Procs : /\ localHalted'[q] => System \in tripped'
                           /\ userHalted'[q] \subseteq tripped'
      BY <2>6 DEF TripMemory, HaltMemory, HaltsAreScoped, TypeOK, Scopes
    <3>2. calls' \subseteq calls \cup {<<p, s, "set">>}
      BY <2>6 DEF TripMemory, GoOn, Return
    <3>3. redis' = redis /\ tripped' = tripped \cup {s}
      BY <2>6 DEF TripMemory
    <3> QED
      BY <3>1, <3>2, <3>3 DEF HaltsAreScoped
  <2>7. ASSUME NEW p \in Procs, NEW s \in Scopes, TripRedis(p, s) PROVE HaltsAreScoped'
    <3>1. s \in tripped
      BY <2>7 DEF TripRedis, Return, HaltsAreScoped
    <3> QED
      BY <2>7, <3>1 DEF TripRedis, Return, WriteRedis, HaltsAreScoped, memory
  <2>8. ASSUME NEW p \in Procs, NEW s \in Scopes, ResetMemory(p, s) PROVE HaltsAreScoped'
    BY <2>8 DEF ResetMemory, ClearMemory, Begin, HaltsAreScoped, TypeOK
  <2>9. ASSUME NEW p \in Procs, NEW s \in Scopes, ResetRedis(p, s) PROVE HaltsAreScoped'
    BY <2>9 DEF ResetRedis, Return, WriteRedis, HaltsAreScoped, memory
  <2>10. CASE UNCHANGED vars
    BY <2>10 DEF vars, HaltsAreScoped
  <2> QED
    BY <2>1, <2>2, <2>3, <2>4, <2>5, <2>6, <2>7, <2>8, <2>9, <2>10 DEF Next
<1> QED
  BY <1>1, <1>2, TypeCorrect, PTL DEF Spec

-----------------------------------------------------------------------------
(* The refinement.  A step on the memory of p is a step of the contract on   *)
(* the halts of p; HaltsAreScoped says that a halt read from Redis, however  *)
(* long ago, was tripped.                                                    *)

Halts == [p \in Procs |-> HeldHalts(p)]

LEMMA MemoryAloneCounts ==
    ASSUME UNCHANGED memory PROVE Halts' = Halts
  BY DEF memory, Halts, HeldHalts

(* A halt that is stored is held by p from now on, and by p alone.           *)
LEMMA StoredIsHeld ==
    ASSUME TypeOK, NEW p \in Procs, NEW s \in Scopes, HaltMemory(p, s)
    PROVE  Halts' = [Halts EXCEPT ![p] = @ \cup {s}]
<1>1. ASSUME NEW q \in Procs
      PROVE  HeldHalts(q)' = IF q = p THEN HeldHalts(p) \cup {s} ELSE HeldHalts(q)
  <2>1. CASE s = System
    BY <2>1 DEF HaltMemory, HeldHalts, TypeOK
  <2>2. CASE s # System
    BY <2>2 DEF HaltMemory, HeldHalts, TypeOK
  <2> QED
    BY <2>1, <2>2
<1> QED
  BY <1>1 DEF Halts

(* A reset ends the halt of its scope, or all of them.                       *)
LEMMA ClearedIsReset ==
    ASSUME TypeOK, NEW p \in Procs, NEW s \in Scopes, ClearMemory(p, s)
    PROVE  Halts' = [Halts EXCEPT ![p] = IF s = System THEN {} ELSE @ \ {s}]
<1>1. ASSUME NEW q \in Procs
      PROVE  HeldHalts(q)' = IF q # p THEN HeldHalts(q)
                             ELSE IF s = System THEN {} ELSE HeldHalts(p) \ {s}
  <2>1. CASE s = System
    BY <2>1 DEF ClearMemory, HeldHalts, TypeOK
  <2>2. CASE s # System
    BY <2>2 DEF ClearMemory, HeldHalts, TypeOK
  <2> QED
    BY <2>1, <2>2
<1> QED
  BY <1>1 DEF Halts

LEMMA ContractInit == Init => Contract!Init
  BY DEF Init, Contract!Init, HeldHalts

LEMMA ContractNext ==
    ASSUME TypeOK, HaltsAreScoped, [Next]_vars
    PROVE  Contract!Next \/ UNCHANGED Contract!vars
<1> USE DEF Halts
<1>1. ASSUME NEW p \in Procs, Restart(p) PROVE Contract!Reset(p, System)
  <2>1. ASSUME NEW q \in Procs
        PROVE  HeldHalts(q)' = IF q = p THEN {} ELSE HeldHalts(q)
    BY <1>1 DEF Restart, HeldHalts, TypeOK
  <2> QED
    BY <1>1, <2>1 DEF Restart, Contract!Reset
<1>2. ASSUME NEW p \in Procs, NEW s \in Scopes, TripMemory(p, s) PROVE Contract!Trip(p, s)
  <2>1. HaltMemory(p, s) /\ tripped' = tripped \cup {s}
    BY <1>2 DEF TripMemory
  <2> QED
    BY <2>1, StoredIsHeld DEF Contract!Trip, Contract!Hold
<1>3. ASSUME NEW p \in Procs, NEW s \in Scopes, CacheHalt(p, s) PROVE Contract!Learn(p, s)
  <2>1. HaltMemory(p, s) /\ s \in tripped /\ tripped' = tripped
    BY <1>3 DEF CacheHalt, Return, HaltsAreScoped
  <2> QED
    BY <2>1, StoredIsHeld DEF Contract!Learn, Contract!Hold
<1>4. ASSUME NEW p \in Procs, NEW s \in Scopes, ResetMemory(p, s) PROVE Contract!Reset(p, s)
  <2>1. ClearMemory(p, s) /\ tripped' = tripped
    BY <1>4 DEF ResetMemory
  <2> QED
    BY <2>1, ClearedIsReset DEF Contract!Reset
<1>5. ASSUME NEW p \in Procs, NEW s \in Scopes,
             \/ Ask(p, s) \/ GetSystem(p, s) \/ GetUser(p, s) \/ GetFails(p, s)
             \/ NotHalted(p, s) \/ TripRedis(p, s) \/ ResetRedis(p, s)
      PROVE  UNCHANGED Contract!vars
  BY <1>5, MemoryAloneCounts DEF Ask, GetSystem, GetUser, GetFails, NotHalted,
     TripRedis, ResetRedis, Contract!vars
<1>6. CASE UNCHANGED vars
  BY <1>6, MemoryAloneCounts DEF vars, memory, Contract!vars
<1>7. System \in Scopes /\ Contract!Scopes = Scopes
  BY DEF Scopes, Contract!Scopes
<1> QED
  BY <1>1, <1>2, <1>3, <1>4, <1>5, <1>6, <1>7 DEF Next, Contract!Next

(* The kill switches around Redis implement HaltContract, for any processes, *)
(* users and calls in flight: what a process holds halted it took up from a  *)
(* trip, and only its own reset or restart ends it.                          *)
THEOREM ContractKept == Spec => KeepsContract
<1>1. Spec => [](TypeOK /\ HaltsAreScoped)
  BY TypeCorrect, Scoped, PTL
<1>2. TypeOK /\ HaltsAreScoped /\ [Next]_vars => [Contract!Next]_(Contract!vars)
  BY ContractNext
<1> QED
  BY <1>1, <1>2, ContractInit, PTL DEF Spec, KeepsContract, Contract!Spec

=============================================================================
