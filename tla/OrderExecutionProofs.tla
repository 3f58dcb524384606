------------------------ MODULE OrderExecutionProofs ------------------------
(***************************************************************************)
(* What holds of OrderExecution for any number of executions, users,       *)
(* symbols and signals, any daily limit, lock lifetime and polling time.   *)
(***************************************************************************)
EXTENDS OrderExecution, FiniteSetTheorems, TLAPS

(* Only a tenant's execution gets to the label "lock" or holds a lock.       *)
LockIsTenants ==
    \A t \in Tasks : pc[t] = "lock" \/ acquired[t]
                        => pc[t] # "idle" /\ Kind(t) = "tenant"

(* A task in the polling loop has polls left. *)
PollsLeft ==
    \A t \in Tasks : polls[t] < MaxPolls \/ pc[t] \in {"cancel", "end"}

TypeInv == TypeOK /\ LockIsTenants /\ PollsLeft

(* A tenant's signal names a key of the lock table.                          *)
LEMMA TenantKey ==
    ASSUME TypeOK, NEW t \in Tasks, pc[t] # "idle", Kind(t) = "tenant"
    PROVE  Key(t) \in Keys
  BY OrderExecutionAssumption DEF TypeOK, Key, Keys, Kind, SignalType

(* The signal a task executes is of one of the three kinds. *)
LEMMA KindOfTask ==
    ASSUME TypeOK, NEW t \in Tasks, pc[t] # "idle"
    PROVE  Kind(t) \in {"tenant", "global", "strategy"}
  BY OrderExecutionAssumption DEF TypeOK, Kind, SignalType

(* The initial states are typed. *)
LEMMA TypeInit == Init => TypeInv
  BY OrderExecutionAssumption DEF Init, TypeInv, TypeOK, LockIsTenants, PollsLeft, Labels

(* A statement that only moves t, but not to "lock", keeps the invariant.    *)
LEMMA StepTyped ==
    ASSUME TypeInv, NEW t \in Tasks, NEW from \in Labels \ {"idle", "cancel", "end"},
           NEW to \in Labels \ {"idle", "lock"}, Step(t, from, to)
    PROVE  TypeInv'
<1>1. TypeOK'
  BY DEF Step, Goto, TypeInv, TypeOK, execVars, lockVars
<1>2. LockIsTenants'
  BY DEF Step, Goto, TypeInv, TypeOK, LockIsTenants, Kind, execVars
<1>3. PollsLeft'
  BY DEF Step, Goto, TypeInv, TypeOK, PollsLeft, execVars
<1> QED
  BY <1>1, <1>2, <1>3 DEF TypeInv

(* Every step of an execution keeps the invariant.                           *)
LEMMA ExecuteTyped ==
    ASSUME TypeInv, NEW t \in Tasks, Execute(t)
    PROVE  TypeInv'
<1> USE DEF TypeInv
<1>1. CASE AcquireLock(t)
  <2>1. Key(t) \in Keys
    BY <1>1, TenantKey DEF AcquireLock, LockIsTenants
  <2>2. TypeOK'
    BY <1>1, <2>1, OrderExecutionAssumption DEF AcquireLock, Goto, TypeOK, Labels
  <2>3. LockIsTenants'
    BY <1>1 DEF AcquireLock, Goto, TypeOK, LockIsTenants, Kind
  <2>4. PollsLeft'
    BY <1>1, OrderExecutionAssumption DEF AcquireLock, Goto, TypeOK, PollsLeft
  <2> QED
    BY <2>2, <2>3, <2>4
<1>2. CASE End(t)
  <2>1. TypeOK'
    BY <1>2, OrderExecutionAssumption DEF End, Forget, Goto, TypeOK, Labels, lockVars
  <2>2. LockIsTenants'
    BY <1>2 DEF End, Forget, Goto, TypeOK, LockIsTenants, Kind
  <2>3. PollsLeft'
    BY <1>2, OrderExecutionAssumption DEF End, Forget, Goto, TypeOK, PollsLeft
  <2> QED
    BY <2>1, <2>2, <2>3
<1>3. CASE SwapOut(t)
  <2>1. TypeOK'
    BY <1>3 DEF SwapOut, Goto, TypeOK, Labels, lockVars
  <2>2. LockIsTenants'
    BY <1>3 DEF SwapOut, Goto, TypeOK, LockIsTenants, Kind
  <2>3. PollsLeft'
    BY <1>3, OrderExecutionAssumption DEF SwapOut, Goto, TypeOK, PollsLeft
  <2> QED
    BY <2>1, <2>2, <2>3
<1>4. CASE CountTrade(t)
  <2>1. TypeOK'
    BY <1>4 DEF CountTrade, Goto, TypeOK, Labels, execVars, lockVars
  <2>2. LockIsTenants'
    BY <1>4 DEF CountTrade, Goto, TypeOK, LockIsTenants, Kind, execVars
  <2>3. PollsLeft'
    BY <1>4, OrderExecutionAssumption DEF CountTrade, Goto, TypeOK, PollsLeft, execVars
  <2> QED
    BY <2>1, <2>2, <2>3
<1>5. CASE Submit(t) \/ SubmitFailed(t)
  <2>1. /\ order' \in [Tasks -> {"none", "open", "filled", "dead"}]
        /\ late' \in [Scopes -> Nat]
    BY <1>5 DEF Submit, SubmitFailed, Sent, TypeOK
  <2>2. AfterSubmit(t) \in Labels \ {"idle", "lock"}
    <3>1. pc[t] = "submit"
      BY <1>5 DEF Submit, SubmitFailed
    <3> QED
      BY <3>1, KindOfTask DEF AfterSubmit, Labels
  <2>3. PICK to \in Labels \ {"idle", "lock"} : Goto(t, to)
    BY <1>5, <2>2 DEF Submit, SubmitFailed, Labels
  <2>4. TypeOK'
    BY <1>5, <2>1, <2>3 DEF Submit, SubmitFailed, Goto, TypeOK, lockVars
  <2>5. LockIsTenants'
    BY <1>5, <2>3 DEF Submit, SubmitFailed, Goto, TypeOK, LockIsTenants, Kind
  <2>6. PollsLeft'
    BY <1>5, <2>3 DEF Submit, SubmitFailed, Goto, TypeOK, PollsLeft
  <2> QED
    BY <2>4, <2>5, <2>6
<1>6. CASE Cancel(t)
  <2>1. TypeOK'
    BY <1>6 DEF Cancel, Goto, TypeOK, Labels, lockVars
  <2>2. LockIsTenants'
    BY <1>6 DEF Cancel, Goto, TypeOK, LockIsTenants, Kind
  <2>3. PollsLeft'
    BY <1>6, OrderExecutionAssumption DEF Cancel, Goto, TypeOK, PollsLeft
  <2> QED
    BY <2>1, <2>2, <2>3
<1>7. CASE Book(t)
  <2>1. TypeOK'
    BY <1>7 DEF Book, Goto, TypeOK, Labels, lockVars
  <2>2. LockIsTenants'
    BY <1>7 DEF Book, Goto, TypeOK, LockIsTenants, Kind
  <2>3. PollsLeft'
    BY <1>7, OrderExecutionAssumption DEF Book, Goto, TypeOK, PollsLeft
  <2> QED
    BY <2>1, <2>2, <2>3
<1>8. CASE \/ LockRefused(t) \/ NoLock(t) \/ Screened(t) \/ ScreenedOut(t)
           \/ OrderApproved(t) \/ OrderRejected(t)
  BY <1>8, StepTyped DEF LockRefused, NoLock, Screened, ScreenedOut, OrderApproved,
                         OrderRejected, Labels
<1>9. CASE \/ TradeAllowed(t) \/ TradeRefused(t) \/ Dedupe(t) \/ DedupeRefused(t)
           \/ GatePassed(t) \/ GateRaised(t)
  BY <1>9, StepTyped DEF TradeAllowed, TradeRefused, Dedupe, DedupeRefused,
                         GatePassed, GateRaised, Labels
<1>10. CASE DryRun(t) \/ PollFilled(t) \/ PollDead(t) \/ PollAgain(t)
  BY <1>10, StepTyped DEF DryRun, PollFilled, PollDead, PollAgain, Labels
<1> QED
  BY <1>1, <1>2, <1>3, <1>4, <1>5, <1>6, <1>7, <1>8, <1>9, <1>10 DEF Execute

(* The passage of time keeps the invariant: a sleeper that wakes into the    *)
(* polling loop has polls left.                                              *)
LEMMA TickTyped == TypeInv /\ Tick => TypeInv'
<1> SUFFICES ASSUME TypeInv, Tick PROVE TypeInv'
  OBVIOUS
<1> USE OrderExecutionAssumption DEF TypeInv, Tick, Lapse, Wake
<1>1. left' \in [Keys -> 0..LockTTL] /\ lock' \in [Keys -> Tasks \cup {NoTask}]
  BY DEF TypeOK
<1>2. age' \in [Tasks -> 0..LockTTL]
  BY DEF TypeOK
<1>3. polls' \in [Tasks -> 0..MaxPolls]
  BY DEF TypeOK, PollsLeft, Sleepers
<1>4. pc' \in [Tasks -> Labels] /\ \A t \in Tasks : pc'[t] = pc[t] \/ pc[t] = "sleep"
  BY DEF TypeOK, Labels, Sleepers
<1>5. TypeOK'
  BY <1>1, <1>2, <1>3, <1>4 DEF TypeOK
<1>6. LockIsTenants'
  BY <1>4 DEF TypeOK, LockIsTenants, Kind, Sleepers
<1>7. PollsLeft'
  BY DEF TypeOK, PollsLeft, Sleepers
<1> QED
  BY <1>5, <1>6, <1>7

(* A signal that is taken up enters one of the three paths. *)
LEMMA StartTyped ==
    ASSUME TypeInv, NEW t \in Tasks, NEW s \in Signals, Start(t, s)
    PROVE  TypeInv'
<1> USE DEF TypeInv
<1>1. /\ EntryOf(s) \in Labels \ {"idle"}
      /\ EntryOf(s) = "lock" => s.kind = "tenant"
  BY OrderExecutionAssumption DEF EntryOf, SignalType, Labels
<1>2. pc' = [pc EXCEPT ![t] = EntryOf(s)] /\ req' = [req EXCEPT ![t] = s]
  BY DEF Start, Goto
<1>3. TypeOK'
  BY <1>1, <1>2 DEF Start, TypeOK, lockVars
<1>4. LockIsTenants'
  BY <1>1, <1>2 DEF Start, TypeOK, LockIsTenants, Kind
<1>5. PollsLeft'
  BY <1>2 DEF Start, TypeOK, PollsLeft
<1> QED
  BY <1>3, <1>4, <1>5

(* What the broker, an operator, the calendar or a restart does keeps it.    *)
LEMMA EnvironmentTyped ==
    ASSUME TypeInv,
           \/ \E t \in Tasks : BrokerDecides(t)
           \/ \E s \in Scopes : Halt(s) \/ Reset(s)
           \/ ResetDailyLimit
           \/ Restart
           \/ UNCHANGED vars
    PROVE  TypeInv'
<1> USE DEF TypeInv
<1>1. CASE \E t \in Tasks : BrokerDecides(t)
  BY <1>1 DEF BrokerDecides, TypeOK, LockIsTenants, PollsLeft, Kind, lockVars
<1>2. CASE \E s \in Scopes : Halt(s) \/ Reset(s)
  BY <1>2 DEF Halt, Reset, EndedHaltsForgotten, TypeOK, LockIsTenants, PollsLeft, Kind,
              execVars, lockVars
<1>3. CASE ResetDailyLimit
  BY <1>3 DEF ResetDailyLimit, TypeOK, LockIsTenants, PollsLeft, Kind, execVars, lockVars
<1>4. CASE Restart
  BY <1>4, OrderExecutionAssumption
     DEF Restart, EndedHaltsForgotten, TypeOK, LockIsTenants, PollsLeft, Kind, Labels, lockVars
<1>5. CASE UNCHANGED vars
  BY <1>5 DEF vars, TypeOK, LockIsTenants, PollsLeft, Kind, execVars, lockVars
<1> QED
  BY <1>1, <1>2, <1>3, <1>4, <1>5

(* The typing invariant of every behaviour. *)
LEMMA Typing == Spec => []TypeInv
<1>1. TypeInv /\ [Next]_vars => TypeInv'
  BY ExecuteTyped, StartTyped, TickTyped, EnvironmentTyped DEF Next
<1> QED
  BY TypeInit, <1>1, PTL DEF Spec

(* Every variable of OrderExecution keeps its type.                          *)
THEOREM TypeCorrect == Spec => []TypeOK
<1>1. TypeInv => TypeOK
  BY DEF TypeInv
<1> QED
  BY Typing, <1>1, PTL

-----------------------------------------------------------------------------
(* The lock: while an execution's lease runs, Redis names it as the owner.   *)

Fresh ==
    \A t \in Tasks : /\ ~acquired[t] => age[t] = 0
                     /\ acquired[t] => pc[t] # "lock"

LeaseRuns ==
    \A t \in Tasks :
        acquired[t] /\ age[t] < LockTTL
            => lock[Key(t)] = t /\ left[Key(t)] + age[t] = LockTTL

LeaseInv == TypeInv /\ Fresh /\ LeaseRuns

leaseVars == <<req, acquired, age, lockVars>>

(* A step that touches no lease and sends nobody to "lock" keeps the leases. *)
LEMMA LeaseUntouched ==
    ASSUME LeaseInv, UNCHANGED leaseVars,
           \A t \in Tasks : pc'[t] = "lock" => pc[t] = "lock"
    PROVE  Fresh' /\ LeaseRuns'
  BY DEF LeaseInv, Fresh, LeaseRuns, leaseVars, lockVars, Key

(* The steps of an execution between its acquire and its release are such.   *)
LEMMA ExecuteUntouched ==
    ASSUME TypeInv, NEW t \in Tasks, Execute(t), ~AcquireLock(t), ~End(t)
    PROVE  /\ UNCHANGED leaseVars
           /\ \A u \in Tasks : pc'[u] = "lock" => pc[u] = "lock"
<1> USE DEF TypeInv, TypeOK, leaseVars, lockVars, execVars, Goto
<1>1. ASSUME NEW from, NEW to, to # "lock", Step(t, from, to)
      PROVE  /\ UNCHANGED leaseVars
             /\ \A u \in Tasks : pc'[u] = "lock" => pc[u] = "lock"
  BY <1>1 DEF Step
<1>2. CASE \/ LockRefused(t) \/ NoLock(t) \/ Screened(t) \/ ScreenedOut(t)
           \/ OrderApproved(t) \/ OrderRejected(t)
           \/ TradeAllowed(t) \/ TradeRefused(t) \/ Dedupe(t) \/ DedupeRefused(t)
           \/ GatePassed(t) \/ GateRaised(t)
           \/ DryRun(t) \/ PollFilled(t) \/ PollDead(t) \/ PollAgain(t)
  <2>1. PICK from \in Labels, to \in Labels \ {"lock"} : Step(t, from, to)
    BY <1>2 DEF LockRefused, NoLock, Screened, ScreenedOut, OrderApproved,
                OrderRejected, TradeAllowed, TradeRefused, Dedupe, DedupeRefused,
                GatePassed, GateRaised, DryRun, PollFilled, PollDead, PollAgain,
                Labels
  <2> QED
    BY <2>1, <1>1
<1>3. CASE SwapOut(t) \/ CountTrade(t) \/ Cancel(t) \/ Book(t)
  BY <1>3 DEF SwapOut, CountTrade, Cancel, Book
<1>4. CASE Submit(t) \/ SubmitFailed(t)
  <2>1. pc[t] = "submit"
    BY <1>4 DEF Submit, SubmitFailed
  <2>2. AfterSubmit(t) # "lock"
    BY <2>1, KindOfTask DEF AfterSubmit
  <2> QED
    BY <1>4, <2>2 DEF Submit, SubmitFailed
<1> QED
  BY <1>2, <1>3, <1>4 DEF Execute

(* Acquiring takes only a free key, so it ends nobody else's running lease.  *)
LEMMA AcquireKeepsLeases ==
    ASSUME LeaseInv, NEW t \in Tasks, AcquireLock(t)
    PROVE  Fresh' /\ LeaseRuns'
<1> USE DEF LeaseInv, TypeInv, TypeOK
<1>1. Key(t) \in Keys /\ lock[Key(t)] = NoTask /\ ~acquired[t] /\ age[t] = 0
  BY TenantKey DEF AcquireLock, LockIsTenants, Fresh
<1>2. Fresh'
  BY <1>1 DEF AcquireLock, Fresh, Goto
<1>3. ASSUME NEW u \in Tasks, acquired'[u], age'[u] < LockTTL
      PROVE  lock'[Key(u)'] = u /\ left'[Key(u)'] + age'[u] = LockTTL
  <2>1. Key(u)' = Key(u) /\ age' = age
    BY DEF AcquireLock, Key
  <2>2. CASE u = t
    BY <1>1, <2>1, <2>2, OrderExecutionAssumption DEF AcquireLock
  <2>3. CASE u # t
    <3>1. lock[Key(u)] = u /\ left[Key(u)] + age[u] = LockTTL
      BY <1>3, <2>1, <2>3 DEF AcquireLock, LeaseRuns
    <3>2. Key(u) # Key(t)
      BY <1>1, <3>1, OrderExecutionAssumption
    <3> QED
      BY <2>1, <3>1, <3>2 DEF AcquireLock
  <2> QED
    BY <2>2, <2>3
<1> QED
  BY <1>2, <1>3 DEF LeaseRuns

(* The release deletes a key only if it still names the releaser.            *)
LEMMA EndKeepsLeases ==
    ASSUME LeaseInv, NEW t \in Tasks, End(t)
    PROVE  Fresh' /\ LeaseRuns'
<1> USE DEF LeaseInv, TypeInv, TypeOK
<1>1. Fresh'
  BY DEF End, Forget, Fresh, Goto
<1>2. ASSUME NEW u \in Tasks, acquired'[u], age'[u] < LockTTL
      PROVE  lock'[Key(u)'] = u /\ left'[Key(u)'] + age'[u] = LockTTL
  <2>1. u # t
    BY <1>2 DEF End, Forget
  <2>2. /\ Key(u)' = Key(u) /\ age'[u] = age[u] /\ acquired[u]
        /\ Key(u) \in Keys
    BY <1>2, <2>1, TenantKey DEF End, Forget, Key, LockIsTenants
  <2>3. lock[Key(u)] = u /\ left[Key(u)] + age[u] = LockTTL
    BY <1>2, <2>2 DEF LeaseRuns
  <2>4. \/ UNCHANGED lockVars
        \/ /\ lock[Key(t)] = t
           /\ lock' = [lock EXCEPT ![Key(t)] = NoTask]
           /\ left' = [left EXCEPT ![Key(t)] = 0]
    BY DEF End, Forget
  <2>5. CASE UNCHANGED lockVars
    BY <2>2, <2>3, <2>5 DEF lockVars
  <2>6. CASE /\ lock[Key(t)] = t
             /\ lock' = [lock EXCEPT ![Key(t)] = NoTask]
             /\ left' = [left EXCEPT ![Key(t)] = 0]
    <3>1. Key(u) # Key(t)
      BY <2>1, <2>3, <2>6
    <3> QED
      BY <2>2, <2>3, <2>6, <3>1
  <2> QED
    BY <2>4, <2>5, <2>6
<1> QED
  BY <1>1, <1>2 DEF LeaseRuns

(* Time takes as much from the lifetime of a lock as it adds to its age.     *)
LEMMA TickKeepsLeases ==
    ASSUME LeaseInv, Tick
    PROVE  Fresh' /\ LeaseRuns'
<1> USE DEF LeaseInv, TypeInv, TypeOK, Tick, Lapse, Wake
<1>1. Fresh'
  BY DEF Fresh, Sleepers
<1>2. ASSUME NEW u \in Tasks, acquired'[u], age'[u] < LockTTL
      PROVE  lock'[Key(u)'] = u /\ left'[Key(u)'] + age'[u] = LockTTL
  <2>1. Key(u)' = Key(u) /\ acquired[u] /\ Key(u) \in Keys
    BY <1>2, TenantKey DEF Key, LockIsTenants
  <2>2. age[u] < LockTTL /\ age'[u] = age[u] + 1
    BY <1>2, <2>1, OrderExecutionAssumption
  <2>3. lock[Key(u)] = u /\ left[Key(u)] + age[u] = LockTTL
    BY <2>1, <2>2 DEF LeaseRuns
  <2>4. left[Key(u)] > 1
    BY <1>2, <2>1, <2>2, <2>3, OrderExecutionAssumption
  <2>5. lock'[Key(u)] = lock[Key(u)] /\ left'[Key(u)] = left[Key(u)] - 1
    BY <2>1, <2>4
  <2>6. left[Key(u)] \in Nat /\ age[u] \in Nat
    BY <2>1
  <2> HIDE DEF TypeOK, Tick, Lapse, Wake
  <2> QED
    BY <2>1, <2>2, <2>3, <2>5, <2>6, OrderExecutionAssumption
<1> QED
  BY <1>1, <1>2 DEF LeaseRuns

(* Neither the start of an execution nor the environment ends a lease; a     *)
(* restart forgets that it held any.                                         *)
LEMMA OthersKeepLeases ==
    ASSUME LeaseInv,
           \/ \E t \in Tasks, s \in Signals : Start(t, s)
           \/ \E t \in Tasks : BrokerDecides(t)
           \/ \E s \in Scopes : Halt(s) \/ Reset(s)
           \/ ResetDailyLimit
           \/ Restart
           \/ UNCHANGED vars
    PROVE  Fresh' /\ LeaseRuns'
<1> USE DEF LeaseInv, TypeInv, TypeOK
<1>1. ASSUME NEW t \in Tasks, NEW s \in Signals, Start(t, s)
      PROVE  Fresh' /\ LeaseRuns'
  <2>1. ~acquired[t]
    BY <1>1 DEF Start, LockIsTenants
  <2>2. \A u \in Tasks : u # t => Key(u)' = Key(u) /\ pc'[u] = pc[u]
    BY <1>1 DEF Start, Goto, Key
  <2> QED
    BY <1>1, <2>1, <2>2 DEF Start, Fresh, LeaseRuns, lockVars
<1>2. CASE \/ \E t \in Tasks : BrokerDecides(t)
           \/ \E s \in Scopes : Halt(s) \/ Reset(s)
           \/ ResetDailyLimit
           \/ UNCHANGED vars
  <2>1. UNCHANGED leaseVars /\ UNCHANGED pc
    BY <1>2 DEF BrokerDecides, Halt, Reset, ResetDailyLimit, vars, execVars,
                lockVars, leaseVars
  <2> QED
    BY <2>1, LeaseUntouched
<1>3. CASE Restart
  BY <1>3 DEF Restart, Fresh, LeaseRuns
<1> QED
  BY <1>1, <1>2, <1>3

(* The leases of every behaviour. *)
LEMMA Leases == Spec => []LeaseInv
<1>1. Init => LeaseInv
  BY TypeInit DEF Init, LeaseInv, Fresh, LeaseRuns
<1>2. LeaseInv /\ [Next]_vars => LeaseInv'
  <2> SUFFICES ASSUME LeaseInv, [Next]_vars PROVE LeaseInv'
    OBVIOUS
  <2>1. TypeInv'
    BY ExecuteTyped, StartTyped, TickTyped, EnvironmentTyped DEF Next, LeaseInv
  <2>2. Fresh' /\ LeaseRuns'
    <3>1. ASSUME NEW t \in Tasks, Execute(t) PROVE Fresh' /\ LeaseRuns'
      BY <3>1, AcquireKeepsLeases, EndKeepsLeases, ExecuteUntouched, LeaseUntouched
         DEF LeaseInv
    <3> QED
      BY <3>1, TickKeepsLeases, OthersKeepLeases DEF Next
  <2> QED
    BY <2>1, <2>2 DEF LeaseInv
<1> QED
  BY <1>1, <1>2, PTL DEF Spec

(* At most one execution of a user and symbol is within its lock's lifetime, *)
(* whatever expires, fails to be released or is restarted.                   *)
THEOREM Exclusive == Spec => []LeaseExclusive
<1>1. LeaseInv => LeaseExclusive
  <2> SUFFICES ASSUME LeaseInv, NEW t \in Tasks, NEW u \in Tasks, t # u,
                      acquired[t], acquired[u], Key(t) = Key(u)
               PROVE  age[t] = LockTTL \/ age[u] = LockTTL
    BY DEF LeaseExclusive
  <2>1. age[t] \in 0..LockTTL /\ age[u] \in 0..LockTTL
    BY DEF LeaseInv, TypeInv, TypeOK
  <2>2. ~(age[t] < LockTTL /\ age[u] < LockTTL)
    BY DEF LeaseInv, LeaseRuns
  <2> QED
    BY <2>1, <2>2, OrderExecutionAssumption
<1> QED
  BY Leases, <1>1, PTL

-----------------------------------------------------------------------------
(* Counting over the tasks: the daily limit and the halt.                    *)

(* A set of tasks is finite and no larger than Tasks. *)
LEMMA TaskSets ==
    ASSUME NEW S \in SUBSET Tasks
    PROVE  /\ IsFiniteSet(S)
           /\ Cardinality(S) \in Nat
           /\ Cardinality(Tasks) \in Nat
           /\ Cardinality(S) <= Cardinality(Tasks)
           /\ \A R \in SUBSET S : /\ Cardinality(R) \in Nat
                                  /\ Cardinality(R) <= Cardinality(S)
           /\ \A t \in S : Cardinality(S \ {t}) = Cardinality(S) - 1
<1>1. IsFiniteSet(S) /\ Cardinality(S) <= Cardinality(Tasks)
  BY FS_Subset, OrderExecutionAssumption
<1>2. \A R \in SUBSET S : IsFiniteSet(R) /\ Cardinality(R) <= Cardinality(S)
  BY <1>1, FS_Subset
<1>3. \A t \in S : Cardinality(S \ {t}) = Cardinality(S) - 1
  BY <1>1, FS_RemoveElement
<1> QED
  BY <1>1, <1>2, <1>3, FS_CardinalityType, OrderExecutionAssumption

(* The executions that have passed check_halt of scope s, orders not yet sent. *)
Submitting(s) == {t \in Tasks : pc[t] = "submit" /\ s \in HaltScopes(t)}

(* Apart from the three steps that the bounds are about, an execution enters *)
(* neither set, and leaves the counters alone.                               *)
LEMMA ExecuteQuiet ==
    ASSUME TypeInv, NEW t \in Tasks, Execute(t)
    PROVE  /\ halted' = halted
           /\ ~TradeAllowed(t) /\ ~CountTrade(t) =>
                 Counting' \subseteq Counting /\ daily' = daily
           /\ ~Submit(t) /\ ~SubmitFailed(t) =>
                 /\ late' = late
                 /\ ~GatePassed(t) =>
                       \A s \in Scopes : Submitting(s)' \subseteq Submitting(s)
<1> USE DEF TypeInv, TypeOK, Counting, Submitting, HaltScopes, Kind, Goto, execVars
<1>1. CASE \/ LockRefused(t) \/ NoLock(t) \/ Screened(t) \/ ScreenedOut(t)
           \/ OrderApproved(t) \/ OrderRejected(t) \/ TradeAllowed(t) \/ TradeRefused(t)
  BY <1>1 DEF LockRefused, NoLock, Screened, ScreenedOut, OrderApproved,
              OrderRejected, TradeAllowed, TradeRefused, Step
<1>2. CASE \/ Dedupe(t) \/ DedupeRefused(t) \/ GatePassed(t) \/ GateRaised(t)
           \/ DryRun(t) \/ PollFilled(t) \/ PollDead(t) \/ PollAgain(t)
  BY <1>2 DEF Dedupe, DedupeRefused, GatePassed, GateRaised, DryRun, PollFilled,
              PollDead, PollAgain, Step
<1>3. CASE AcquireLock(t) \/ SwapOut(t) \/ Cancel(t) \/ Book(t)
  BY <1>3 DEF AcquireLock, SwapOut, Cancel, Book
<1>4. CASE End(t) \/ CountTrade(t)
  BY <1>4 DEF End, Forget, CountTrade
<1>5. CASE Submit(t) \/ SubmitFailed(t)
  <2>1. pc[t] = "submit" /\ Kind(t) \in {"tenant", "global", "strategy"}
    BY <1>5, KindOfTask DEF Submit, SubmitFailed
  <2> QED
    BY <1>5, <2>1 DEF Submit, SubmitFailed, AfterSubmit
<1> QED
  BY <1>1, <1>2, <1>3, <1>4, <1>5 DEF Execute

(* A step that sends nothing under scope s and lets nobody pass check_halt,  *)
(* and after which no order counts for a halt that is over.                  *)
ScopeQuiet(s) ==
    /\ Submitting(s)' \subseteq Submitting(s)
    /\ late'[s] \in {0, late[s]}
    /\ s \notin halted' => late'[s] = 0 \/ (s \notin halted /\ late'[s] = late[s])

(* Time and the environment enter neither set either.                        *)
LEMMA OthersQuiet ==
    ASSUME TypeInv,
           \/ \E t \in Tasks : BrokerDecides(t) \/ \E s \in Signals : Start(t, s)
           \/ Tick
           \/ \E s \in Scopes : Halt(s) \/ Reset(s)
           \/ ResetDailyLimit
           \/ Restart
           \/ UNCHANGED vars
    PROVE  /\ Counting' \subseteq Counting
           /\ daily' \in {0, daily}
           /\ \A z \in Scopes : ScopeQuiet(z)
<1> USE DEF TypeInv, TypeOK, Counting, Submitting, HaltScopes, Kind, Goto, ScopeQuiet
<1>1. CASE \E t \in Tasks : BrokerDecides(t)
  BY <1>1 DEF BrokerDecides
<1>2. ASSUME NEW t \in Tasks, NEW s \in Signals, Start(t, s)
      PROVE  /\ Counting' \subseteq Counting /\ daily' = daily /\ halted' = halted
             /\ late' = late
             /\ \A z \in Scopes : Submitting(z)' \subseteq Submitting(z)
  <2>1. EntryOf(s) \in {"lock", "screen", "order"}
    BY OrderExecutionAssumption DEF EntryOf, SignalType
  <2> QED
    BY <1>2, <2>1 DEF Start
<1>3. CASE Tick
  BY <1>3 DEF Tick, Lapse, Wake, Sleepers
<1>4. CASE \E s \in Scopes : Halt(s) \/ Reset(s)
  BY <1>4, OrderExecutionAssumption DEF Halt, Reset, EndedHaltsForgotten, execVars
<1>5. CASE ResetDailyLimit \/ UNCHANGED vars
  BY <1>5 DEF ResetDailyLimit, vars, execVars
<1>6. CASE Restart
  BY <1>6 DEF Restart, EndedHaltsForgotten
<1> QED
  BY <1>1, <1>2, <1>3, <1>4, <1>5, <1>6

(* The daily limit is overshot by at most the executions that passed its     *)
(* test together with the one that reached it.                               *)
THEOREM Overshoot == Spec => []OvershootBounded
<1>1. Init => OvershootBounded
  <2> SUFFICES ASSUME Init PROVE OvershootBounded
    OBVIOUS
  <2>1. Counting = {}
    BY DEF Init, Counting
  <2>2. daily = 0
    BY DEF Init
  <2> QED
    BY <2>1, <2>2, FS_EmptySet, TaskSets, OrderExecutionAssumption DEF OvershootBounded
<1>2. TypeInv /\ TypeInv' /\ OvershootBounded /\ [Next]_vars => OvershootBounded'
  <2> SUFFICES ASSUME TypeInv, TypeInv', OvershootBounded, [Next]_vars
               PROVE  OvershootBounded'
    OBVIOUS
  <2>1. Counting \in SUBSET Tasks /\ Counting' \in SUBSET Tasks
    BY DEF Counting
  <2>2. daily \in Nat /\ daily' \in Nat
    BY DEF TypeInv, TypeOK
  <2>3. CASE Counting' \subseteq Counting /\ daily' \in {0, daily}
    <3>1. /\ Cardinality(Counting') \in Nat /\ Cardinality(Counting) \in Nat
          /\ Cardinality(Tasks) \in Nat
          /\ Cardinality(Counting') <= Cardinality(Counting)
      BY <2>1, <2>3, TaskSets
    <3> QED
      BY <2>2, <2>3, <3>1, OrderExecutionAssumption DEF OvershootBounded
  <2>4. ASSUME NEW t \in Tasks, TradeAllowed(t) PROVE OvershootBounded'
    <3>1. /\ Cardinality(Counting') \in Nat /\ Cardinality(Tasks) \in Nat
          /\ Cardinality(Counting') <= Cardinality(Tasks)
      BY <2>1, TaskSets
    <3>2. daily' = daily /\ daily < MaxDaily
      BY <2>4 DEF TradeAllowed, Step
    <3> QED
      BY <2>2, <3>1, <3>2, OrderExecutionAssumption DEF OvershootBounded
  <2>5. ASSUME NEW t \in Tasks, CountTrade(t) PROVE OvershootBounded'
    <3>1. t \in Counting /\ Counting' \subseteq Counting \ {t} /\ daily' = daily + 1
      BY <2>5 DEF CountTrade, Counting, Goto, Kind, execVars, TypeInv, TypeOK
    <3>2. /\ Cardinality(Counting \ {t}) = Cardinality(Counting) - 1
          /\ Cardinality(Counting) \in Nat /\ Cardinality(Tasks) \in Nat
      BY <2>1, <3>1, TaskSets
    <3>3. /\ Cardinality(Counting') \in Nat
          /\ Cardinality(Counting') <= Cardinality(Counting \ {t})
      BY <2>1, <3>1, TaskSets
    <3> QED
      BY <2>2, <3>1, <3>2, <3>3, OrderExecutionAssumption DEF OvershootBounded
  <2> QED
    BY <2>3, <2>4, <2>5, ExecuteQuiet, OthersQuiet DEF Next
<1> QED
  BY <1>1, <1>2, Typing, PTL DEF Spec

(* What is late under a halt, and what may still become late.                *)
Draining ==
    \A s \in Scopes :
        /\ s \in halted => late[s] + Cardinality(Submitting(s)) <= Cardinality(Tasks)
        /\ s \notin halted => late[s] = 0

(* Under a halt at most one order of each execution it is about still goes   *)
(* to the broker: that of an execution that had passed check_halt before.    *)
THEOREM HaltStops == Spec => []HaltStopsOrders
<1>1. Init => Draining
  BY DEF Init, Draining
<1>2. TypeInv /\ TypeInv' /\ Draining /\ [Next]_vars => Draining'
  <2> SUFFICES ASSUME TypeInv, TypeInv', Draining, [Next]_vars, NEW s \in Scopes
               PROVE  /\ s \in halted' => late'[s] + Cardinality(Submitting(s)')
                                             <= Cardinality(Tasks)
                      /\ s \notin halted' => late'[s] = 0
    BY DEF Draining
  <2> DEFINE Drained == /\ s \in halted' => late'[s] + Cardinality(Submitting(s)')
                                               <= Cardinality(Tasks)
                        /\ s \notin halted' => late'[s] = 0
  <2>1. Submitting(s) \in SUBSET Tasks /\ Submitting(s)' \in SUBSET Tasks
    BY DEF Submitting
  <2>2. late[s] \in Nat /\ late'[s] \in Nat
    BY DEF TypeInv, TypeOK
  <2>3. /\ Cardinality(Submitting(s)) \in Nat /\ Cardinality(Submitting(s)') \in Nat
        /\ Cardinality(Tasks) \in Nat
        /\ Cardinality(Submitting(s)') <= Cardinality(Tasks)
    BY <2>1, TaskSets
  <2>4. /\ s \in halted => late[s] + Cardinality(Submitting(s)) <= Cardinality(Tasks)
        /\ s \notin halted => late[s] = 0
    BY DEF Draining
  <2>5. CASE ScopeQuiet(s)
    <3>1. Cardinality(Submitting(s)') <= Cardinality(Submitting(s))
      BY <2>1, <2>5, TaskSets DEF ScopeQuiet
    <3> QED
      BY <2>2, <2>3, <2>4, <2>5, <3>1 DEF ScopeQuiet
  <2>6. ASSUME NEW t \in Tasks, GatePassed(t) PROVE Drained
    <3>1. /\ HaltScopes(t) \cap halted = {} /\ halted' = halted /\ late' = late
          /\ req' = req /\ pc' = [pc EXCEPT ![t] = "submit"]
      BY <2>6 DEF GatePassed, Step, Goto, execVars
    <3>2. s \in halted => Submitting(s)' \subseteq Submitting(s)
      BY <3>1 DEF Submitting, HaltScopes, Kind, TypeInv, TypeOK
    <3>3. s \in halted => Cardinality(Submitting(s)') <= Cardinality(Submitting(s))
      BY <2>1, <3>2, TaskSets
    <3> QED
      BY <2>2, <2>3, <2>4, <3>1, <3>3
  <2>7. ASSUME NEW t \in Tasks, Submit(t) \/ SubmitFailed(t) PROVE Drained
    <3>1. halted' = halted /\ req' = req
      BY <2>7 DEF Submit, SubmitFailed
    <3>2. late'[s] = late[s] \/ (late'[s] = late[s] + 1 /\ s \in halted \cap HaltScopes(t))
      BY <2>7 DEF Submit, SubmitFailed, Sent
    <3>3. /\ pc[t] = "submit"
          /\ Submitting(s)' \subseteq Submitting(s) \ {t}
      <4>1. pc[t] = "submit" /\ Kind(t) \in {"tenant", "global", "strategy"}
        BY <2>7, KindOfTask DEF Submit, SubmitFailed, TypeInv
      <4> QED
        BY <2>7, <3>1, <4>1 DEF Submit, SubmitFailed, AfterSubmit, Submitting, Goto,
                                HaltScopes, Kind, TypeInv, TypeOK
    <3>4. Cardinality(Submitting(s)') <= Cardinality(Submitting(s))
      BY <2>1, <3>3, TaskSets
    <3>5. s \in HaltScopes(t) => Cardinality(Submitting(s)') <= Cardinality(Submitting(s)) - 1
      <4> SUFFICES ASSUME s \in HaltScopes(t)
                   PROVE  Cardinality(Submitting(s)') <= Cardinality(Submitting(s)) - 1
        OBVIOUS
      <4>1. t \in Submitting(s)
        BY <3>3 DEF Submitting
      <4>2. /\ Cardinality(Submitting(s) \ {t}) = Cardinality(Submitting(s)) - 1
            /\ Cardinality(Submitting(s)') <= Cardinality(Submitting(s) \ {t})
        BY <2>1, <3>3, <4>1, TaskSets
      <4> QED
        BY <4>2
    <3> QED
      BY <2>2, <2>3, <2>4, <3>1, <3>2, <3>4, <3>5
  <2>8. ASSUME NEW t \in Tasks, Execute(t), ~GatePassed(t), ~Submit(t), ~SubmitFailed(t)
        PROVE  ScopeQuiet(s)
    BY <2>8, ExecuteQuiet DEF ScopeQuiet
  <2> QED
    BY <2>5, <2>6, <2>7, <2>8, OthersQuiet DEF Next
<1>3. TypeInv /\ Draining => HaltStopsOrders
  <2> SUFFICES ASSUME TypeInv, Draining, NEW s \in halted
               PROVE  late[s] <= Cardinality(Tasks)
    BY DEF HaltStopsOrders
  <2>1. s \in Scopes /\ late[s] \in Nat
    BY DEF TypeInv, TypeOK
  <2>2. Submitting(s) \in SUBSET Tasks
    BY DEF Submitting
  <2>3. Cardinality(Submitting(s)) \in Nat /\ Cardinality(Tasks) \in Nat
    BY <2>2, TaskSets
  <2> QED
    BY <2>1, <2>3 DEF Draining
<1> QED
  BY <1>1, <1>2, <1>3, Typing, PTL DEF Spec

-----------------------------------------------------------------------------
(* The portfolio: what is recorded was filled.                               *)

Recorded ==
    \A t \in Tasks :
        /\ booked[t] => pc[t] = "end"
        /\ booked[t] \/ pc[t] = "book" => conf.shadow \/ order[t] = "filled"

(* A step of t that books nothing and leaves filled orders alone.            *)
LEMMA StepRecorded ==
    ASSUME TypeInv, Recorded, NEW t \in Tasks, NEW from \in Labels \ {"idle", "end"},
           NEW to \in Labels, Step(t, from, to),
           to = "book" => conf.shadow \/ order[t] = "filled"
    PROVE  Recorded'
  BY DEF Step, Goto, TypeInv, TypeOK, Recorded, execVars

(* Every step of an execution keeps Recorded: it books after a fill or a dry *)
(* run only, and no order is sent or cancelled after that.                   *)
LEMMA ExecuteRecorded ==
    ASSUME TypeInv, Recorded, NEW t \in Tasks, Execute(t)
    PROVE  Recorded'
<1> USE DEF TypeInv, TypeOK, Recorded, Goto, execVars
<1>1. CASE \/ LockRefused(t) \/ NoLock(t) \/ Screened(t) \/ ScreenedOut(t)
           \/ OrderApproved(t) \/ OrderRejected(t) \/ TradeAllowed(t) \/ TradeRefused(t)
           \/ Dedupe(t) \/ DedupeRefused(t) \/ GatePassed(t) \/ GateRaised(t)
           \/ PollDead(t) \/ PollAgain(t)
  <2>1. PICK from \in Labels \ {"idle", "end"}, to \in Labels \ {"book"} :
            Step(t, from, to)
    BY <1>1 DEF LockRefused, NoLock, Screened, ScreenedOut, OrderApproved,
                OrderRejected, TradeAllowed, TradeRefused, Dedupe, DedupeRefused,
                GatePassed, GateRaised, PollDead, PollAgain, Labels
  <2> QED
    BY <2>1, StepRecorded
<1>2. CASE DryRun(t) \/ PollFilled(t)
  BY <1>2, StepRecorded DEF DryRun, PollFilled, Labels
<1>3. CASE AcquireLock(t) \/ SwapOut(t) \/ CountTrade(t) \/ Cancel(t) \/ Book(t)
  BY <1>3 DEF AcquireLock, SwapOut, CountTrade, Cancel, Book
<1>4. CASE Submit(t) \/ SubmitFailed(t)
  <2>1. /\ pc[t] = "submit" /\ booked' = booked /\ conf' = conf
        /\ \A u \in Tasks \ {t} : order'[u] = order[u]
    BY <1>4 DEF Submit, SubmitFailed, Sent
  <2>2. Kind(t) \in {"tenant", "global", "strategy"}
    BY <2>1, KindOfTask
  <2>3. PICK to \in Labels \ {"book"} : pc' = [pc EXCEPT ![t] = to]
    BY <1>4, <2>2 DEF Submit, SubmitFailed, AfterSubmit, Labels
  <2> QED
    BY <2>1, <2>3
<1>5. CASE End(t)
  BY <1>5 DEF End, Forget
<1> QED
  BY <1>1, <1>2, <1>3, <1>4, <1>5 DEF Execute

(* So do time and the environment: the broker decides open orders only.      *)
LEMMA OthersRecorded ==
    ASSUME TypeInv, Recorded,
           \/ \E t \in Tasks : BrokerDecides(t) \/ \E s \in Signals : Start(t, s)
           \/ Tick
           \/ \E s \in Scopes : Halt(s) \/ Reset(s)
           \/ ResetDailyLimit
           \/ Restart
           \/ UNCHANGED vars
    PROVE  Recorded'
<1> USE DEF TypeInv, TypeOK, Recorded, Goto, execVars
<1>1. CASE \E t \in Tasks : BrokerDecides(t)
  BY <1>1 DEF BrokerDecides
<1>2. ASSUME NEW t \in Tasks, NEW s \in Signals, Start(t, s) PROVE Recorded'
  <2>1. EntryOf(s) # "book"
    BY OrderExecutionAssumption DEF EntryOf, SignalType
  <2> QED
    BY <1>2, <2>1 DEF Start
<1>3. CASE Tick
  BY <1>3 DEF Tick, Lapse, Wake, Sleepers
<1>4. CASE \/ \E s \in Scopes : Halt(s) \/ Reset(s)
           \/ ResetDailyLimit
           \/ UNCHANGED vars
  BY <1>4 DEF Halt, Reset, ResetDailyLimit, vars
<1>5. CASE Restart
  BY <1>5 DEF Restart
<1> QED
  BY <1>1, <1>2, <1>3, <1>4, <1>5

(* A tenant's portfolio records the live trade of a signal only if the order *)
(* of that signal was filled; the order of a swap is not meant.              *)
THEOREM Booked == Spec => []BookedOnlyIfFilled
<1>1. Init => Recorded
  BY DEF Init, Recorded
<1>2. TypeInv /\ Recorded /\ [Next]_vars => Recorded'
  BY ExecuteRecorded, OthersRecorded DEF Next
<1>3. Recorded => BookedOnlyIfFilled
  BY DEF Recorded, BookedOnlyIfFilled
<1> QED
  BY <1>1, <1>2, <1>3, Typing, PTL DEF Spec

-----------------------------------------------------------------------------
(* Progress: an execution never comes back to where it was.                  *)

(* Where an execution is says how many steps it has left.                    *)
LEMMA StepsCounted ==
    ASSUME NEW label \in Labels, NEW kind, NEW slept \in 0..MaxPolls
    PROVE  /\ label = "idle" => StepsFrom(label, kind, slept) = 0
           /\ label = "end" => StepsFrom(label, kind, slept) = 1
           /\ Winding(label, kind) => StepsFrom(label, kind, slept) = 2
           /\ label = "sleep" => StepsFrom(label, kind, slept) = 2 * (MaxPolls - slept) + 1
           /\ label = "poll" => StepsFrom(label, kind, slept) = 2 * (MaxPolls - slept) + 2
           /\ label \notin {"idle", "end", "sleep", "poll"} /\ ~Winding(label, kind)
                => /\ StepsFrom(label, kind, slept) = 2 * MaxPolls + 2 + ToSubmission(label)
                   /\ ToSubmission(label) \in 1..7
<1>1. CASE Winding(label, kind)
  <2>1. label \notin {"idle", "end", "sleep", "poll"}
    BY <1>1 DEF Winding
  <2> QED
    BY <1>1, <2>1 DEF StepsFrom
<1>2. CASE ~Winding(label, kind)
  <2>1. CASE label \in {"idle", "end", "sleep", "poll"}
    BY <1>2, <2>1 DEF StepsFrom
  <2>2. CASE label \notin {"idle", "end", "sleep", "poll"}
    <3>1. ToSubmission(label) \in 1..7
      BY <1>2, <2>2 DEF ToSubmission, Labels, Winding
    <3>2. StepsFrom(label, kind, slept) = 2 * MaxPolls + 2 + ToSubmission(label)
      BY <1>2, <2>2 DEF StepsFrom
    <3> QED
      BY <1>2, <2>2, <3>1, <3>2
  <2> QED
    BY <2>1, <2>2
<1> QED
  BY <1>1, <1>2

(* A move that counts fewer steps afterwards: the last step of the loop and  *)
(* everything before the submission count more than what follows.            *)
LEMMA StepsFewer ==
    ASSUME NEW kind, NEW slept \in 0..MaxPolls,
           NEW from \in Labels \ {"idle"}, NEW to \in Labels \ {from},
           from \in {"sleep", "poll"} => slept < MaxPolls,
           \/ to = "idle"
           \/ to = "end"
           \/ Winding(to, kind) /\ from # "end" /\ ~Winding(from, kind)
           \/ from = "submit" /\ to = "poll"
           \/ from = "poll" /\ to = "sleep"
           \/ /\ {from, to} \cap {"idle", "end", "sleep", "poll"} = {}
              /\ ~Winding(from, kind) /\ ~Winding(to, kind)
              /\ ToSubmission(to) < ToSubmission(from)
    PROVE  StepsFrom(to, kind, slept) \in 0..(StepsFrom(from, kind, slept) - 1)
<1> DEFINE F == StepsFrom(from, kind, slept)
           T == StepsFrom(to, kind, slept)
<1>0. MaxPolls \in Nat /\ slept \in Nat /\ slept <= MaxPolls
  BY OrderExecutionAssumption
<1>1. /\ from = "end" => F = 1
      /\ Winding(from, kind) => F = 2
      /\ from = "sleep" => F = 2 * (MaxPolls - slept) + 1
      /\ from = "poll" => F = 2 * (MaxPolls - slept) + 2
      /\ from \notin {"idle", "end", "sleep", "poll"} /\ ~Winding(from, kind)
            => F = 2 * MaxPolls + 2 + ToSubmission(from) /\ ToSubmission(from) \in 1..7
  BY StepsCounted
<1>2. /\ to = "idle" => T = 0
      /\ to = "end" => T = 1
      /\ Winding(to, kind) => T = 2
      /\ to = "sleep" => T = 2 * (MaxPolls - slept) + 1
      /\ to = "poll" => T = 2 * (MaxPolls - slept) + 2
      /\ to \notin {"idle", "end", "sleep", "poll"} /\ ~Winding(to, kind)
            => T = 2 * MaxPolls + 2 + ToSubmission(to) /\ ToSubmission(to) \in 1..7
  BY StepsCounted
<1> HIDE DEF F, T
<1>3. /\ F \in Nat /\ F > 0
      /\ from # "end" => F > 1
      /\ from # "end" /\ ~Winding(from, kind) => F > 2
      /\ from = "submit" => F = 2 * MaxPolls + 2 + ToSubmission(from) /\ F > 2 * MaxPolls + 2
  <2>1. ~Winding("submit", kind)
    BY DEF Winding
  <2>2. CASE from \in {"end", "sleep", "poll"}
    BY <1>0, <1>1, <2>2
  <2>3. CASE from \notin {"end", "sleep", "poll"} /\ Winding(from, kind)
    BY <1>0, <1>1, <2>1, <2>3
  <2>4. CASE from \notin {"end", "sleep", "poll"} /\ ~Winding(from, kind)
    BY <1>0, <1>1, <2>4
  <2> QED
    BY <2>2, <2>3, <2>4
<1>4. T \in Nat /\ T < F
  <2>1. CASE to \in {"idle", "end"}
    BY <1>2, <1>3, <2>1
  <2>2. CASE Winding(to, kind) /\ from # "end" /\ ~Winding(from, kind)
    BY <1>2, <1>3, <2>2
  <2>3. CASE from = "submit" /\ to = "poll"
    BY <1>0, <1>2, <1>3, <2>3
  <2>4. CASE from = "poll" /\ to = "sleep"
    BY <1>0, <1>1, <1>2, <2>4
  <2>5. CASE /\ {from, to} \cap {"idle", "end", "sleep", "poll"} = {}
             /\ ~Winding(from, kind) /\ ~Winding(to, kind)
             /\ ToSubmission(to) < ToSubmission(from)
    <3>1. /\ F = 2 * MaxPolls + 2 + ToSubmission(from) /\ ToSubmission(from) \in 1..7
          /\ T = 2 * MaxPolls + 2 + ToSubmission(to) /\ ToSubmission(to) \in 1..7
      BY <1>1, <1>2, <2>5
    <3> QED
      BY <1>0, <2>5, <3>1
  <2> QED
    BY <2>1, <2>2, <2>3, <2>4, <2>5
<1> QED
  BY <1>3, <1>4 DEF F, T

(* A move takes t to a label with fewer steps left, or t is over.            *)
Advances(t) == pc[t] # "idle" /\ pc'[t] # pc[t] => StepsLeft(t)' \in 0..(StepsLeft(t) - 1)

(* The others stay where they are while t takes a step.                      *)
LEMMA OnlyMoverAdvances ==
    ASSUME TypeInv, NEW t \in Tasks, NEW to, Goto(t, to), Advances(t)
    PROVE  \A u \in Tasks : Advances(u)
  BY DEF Goto, Advances, TypeInv, TypeOK

(* ... and t keeps its signal and its count of polls.                        *)
LEMMA MoveAdvances ==
    ASSUME TypeInv, NEW t \in Tasks, pc[t] # "idle", NEW to \in Labels \ {"idle"},
           Goto(t, to), UNCHANGED <<req, polls>>,
           to # pc[t] => StepsFrom(to, Kind(t), polls[t])
                           \in 0..(StepsFrom(pc[t], Kind(t), polls[t]) - 1)
    PROVE  \A u \in Tasks : Advances(u)
<1>1. pc'[t] = to
  BY DEF Goto, TypeInv, TypeOK
<1>2. StepsLeft(t)' = StepsFrom(to, Kind(t), polls[t])
  BY <1>1 DEF StepsLeft, Kind
<1> QED
  BY <1>1, <1>2, OnlyMoverAdvances DEF Advances, StepsLeft

(* Every statement of an execution advances it.                              *)
LEMMA ExecuteAdvances ==
    ASSUME TypeInv, NEW t \in Tasks, Execute(t)
    PROVE  \A u \in Tasks : Advances(u)
<1>1. /\ pc[t] \in Labels \ {"idle"}
      /\ polls[t] \in 0..MaxPolls
      /\ pc[t] \in {"sleep", "poll"} => polls[t] < MaxPolls
      /\ Kind(t) \in {"tenant", "global", "strategy"}
  BY KindOfTask DEF Execute, TypeInv, TypeOK, PollsLeft
<1>2. CASE \/ AcquireLock(t) \/ LockRefused(t) \/ NoLock(t)
           \/ Screened(t) \/ ScreenedOut(t) \/ SwapOut(t)
           \/ OrderApproved(t) \/ OrderRejected(t)
  <2>1. PICK to \in {"screen", "order", "limit", "end"} :
            /\ Goto(t, to) /\ UNCHANGED <<req, polls>>
            /\ pc[t] \in {"lock", "screen", "order"}
            /\ to = "screen" => pc[t] = "lock"
            /\ to = "order" => pc[t] = "screen"
            /\ to = "limit" => pc[t] = "order"
    BY <1>2 DEF AcquireLock, LockRefused, NoLock, Screened, ScreenedOut, SwapOut,
                OrderApproved, OrderRejected, Step, execVars
  <2>2. to = "end" \/ ( /\ {pc[t], to} \cap {"idle", "end", "sleep", "poll"} = {}
                        /\ ~Winding(pc[t], Kind(t)) /\ ~Winding(to, Kind(t))
                        /\ ToSubmission(to) < ToSubmission(pc[t]) )
    BY <2>1 DEF Winding, ToSubmission
  <2>3. StepsFrom(to, Kind(t), polls[t]) \in 0..(StepsFrom(pc[t], Kind(t), polls[t]) - 1)
    BY <1>1, <2>1, <2>2, StepsFewer DEF Labels
  <2> QED
    BY <1>1, <2>1, <2>3, MoveAdvances DEF Labels
<1>3. CASE \/ TradeAllowed(t) \/ TradeRefused(t) \/ CountTrade(t)
           \/ Dedupe(t) \/ DedupeRefused(t) \/ GatePassed(t) \/ GateRaised(t)
  <2>1. PICK to \in {"count", "dedupe", "gate", "submit", "end"} :
            /\ Goto(t, to) /\ UNCHANGED <<req, polls>>
            /\ pc[t] \in {"limit", "count", "dedupe", "gate"}
            /\ to = "count" => pc[t] = "limit" /\ Kind(t) # "strategy"
            /\ to = "dedupe" => pc[t] = "limit"
            /\ to = "gate" => pc[t] = "dedupe" \/ (pc[t] = "count" /\ Kind(t) # "strategy")
            /\ to = "submit" => pc[t] = "gate"
    BY <1>3 DEF TradeAllowed, TradeRefused, CountTrade, Dedupe, DedupeRefused,
                GatePassed, GateRaised, Step, execVars
  <2>2. to = "end" \/ ( /\ {pc[t], to} \cap {"idle", "end", "sleep", "poll"} = {}
                        /\ ~Winding(pc[t], Kind(t)) /\ ~Winding(to, Kind(t))
                        /\ ToSubmission(to) < ToSubmission(pc[t]) )
    BY <2>1 DEF Winding, ToSubmission
  <2>3. StepsFrom(to, Kind(t), polls[t]) \in 0..(StepsFrom(pc[t], Kind(t), polls[t]) - 1)
    BY <1>1, <2>1, <2>2, StepsFewer DEF Labels
  <2> QED
    BY <1>1, <2>1, <2>3, MoveAdvances DEF Labels
<1>4. CASE \/ DryRun(t) \/ Submit(t) \/ SubmitFailed(t)
           \/ PollFilled(t) \/ PollDead(t) \/ PollAgain(t)
           \/ Cancel(t) \/ Book(t)
  <2>1. PICK to \in {"poll", "sleep", "cancel", "book", "count", "end"} :
            /\ Goto(t, to) /\ UNCHANGED <<req, polls>>
            /\ pc[t] \in {"submit", "poll", "cancel", "book"}
            /\ to = "poll" => pc[t] = "submit"
            /\ to = "sleep" => pc[t] = "poll"
            /\ to \in {"cancel", "book"} => pc[t] \in {"submit", "poll"}
            /\ to = "count" => pc[t] = "submit" /\ Kind(t) = "strategy"
    BY <1>1, <1>4 DEF DryRun, Submit, SubmitFailed, AfterSubmit, PollFilled, PollDead,
                      PollAgain, Cancel, Book, Step, execVars
  <2>2. \/ to = "end"
        \/ Winding(to, Kind(t)) /\ pc[t] # "end" /\ ~Winding(pc[t], Kind(t))
        \/ pc[t] = "submit" /\ to = "poll"
        \/ pc[t] = "poll" /\ to = "sleep"
    BY <2>1 DEF Winding
  <2>3. pc[t] # to
    BY <2>1
  <2>4. StepsFrom(to, Kind(t), polls[t]) \in 0..(StepsFrom(pc[t], Kind(t), polls[t]) - 1)
    BY <1>1, <2>2, <2>3, StepsFewer DEF Labels
  <2> QED
    BY <1>1, <2>1, <2>4, MoveAdvances DEF Labels
<1>5. CASE End(t)
  <2>1. pc[t] = "end" /\ Goto(t, "idle") /\ pc'[t] = "idle"
    BY <1>5 DEF End, Forget, Goto, TypeInv, TypeOK
  <2>2. StepsLeft(t) = 1 /\ StepsLeft(t)' = 0
    BY <2>1 DEF StepsLeft, StepsFrom, Winding
  <2> QED
    BY <2>1, <2>2, OnlyMoverAdvances DEF Advances
<1> QED
  BY <1>2, <1>3, <1>4, <1>5 DEF Execute

(* A sleeper that wakes has one poll less, and a restart ends everything;    *)
(* nothing else moves an execution.                                          *)
LEMMA OthersAdvance ==
    ASSUME TypeInv, NEW u \in Tasks,
           \/ \E t \in Tasks : BrokerDecides(t) \/ \E s \in Signals : Start(t, s)
           \/ Tick
           \/ \E s \in Scopes : Halt(s) \/ Reset(s)
           \/ ResetDailyLimit
           \/ Restart
           \/ UNCHANGED vars
    PROVE  Advances(u)
<1>0. /\ MaxPolls \in Nat /\ polls[u] \in 0..MaxPolls /\ pc[u] \in Labels
      /\ pc[u] \in {"sleep", "poll"} => polls[u] < MaxPolls
  BY OrderExecutionAssumption DEF TypeInv, TypeOK, PollsLeft
<1>1. CASE Tick
  <2>1. pc'[u] # pc[u] =>
            /\ pc[u] = "sleep" /\ polls'[u] = polls[u] + 1 /\ polls[u] < MaxPolls
            /\ pc'[u] \in {"poll", "cancel"}
    BY <1>1 DEF Tick, Wake, Sleepers, TypeInv, PollsLeft
  <2>2. CASE pc[u] = "sleep" /\ pc'[u] \in {"poll", "cancel"} /\ polls[u] < MaxPolls
             /\ polls'[u] = polls[u] + 1
    <3>1. /\ StepsLeft(u) = 2 * (MaxPolls - polls[u]) + 1
          /\ StepsLeft(u)' \in {2, 2 * (MaxPolls - polls'[u]) + 2}
      BY <1>0, <2>2 DEF StepsLeft, StepsFrom, Winding
    <3> QED
      BY <1>0, <2>2, <3>1 DEF Advances
  <2> QED
    BY <2>1, <2>2 DEF Advances
<1>2. CASE \/ \E t \in Tasks : BrokerDecides(t)
           \/ \E s \in Scopes : Halt(s) \/ Reset(s)
           \/ ResetDailyLimit
           \/ UNCHANGED vars
  <2>1. pc' = pc
    BY <1>2 DEF BrokerDecides, Halt, Reset, ResetDailyLimit, vars
  <2> QED
    BY <2>1 DEF Advances
<1>3. ASSUME NEW t \in Tasks, NEW s \in Signals, Start(t, s) PROVE Advances(u)
  BY <1>3 DEF Start, Goto, Advances, TypeInv, TypeOK
<1>4. CASE Restart
  <2>1. pc'[u] = "idle"
    BY <1>4 DEF Restart
  <2>2. StepsLeft(u)' = 0
    BY <2>1 DEF StepsLeft, StepsFrom, Winding
  <2>3. pc[u] # "idle" => StepsFrom("idle", Kind(u), polls[u]) \in 0..(StepsLeft(u) - 1)
    BY <1>0, StepsFewer DEF StepsLeft, Labels
  <2>4. StepsFrom("idle", Kind(u), polls[u]) = 0
    BY DEF StepsFrom, Winding
  <2> QED
    BY <2>1, <2>2, <2>3, <2>4 DEF Advances
<1> QED
  BY <1>1, <1>2, <1>3, <1>4

(* Every execution, on any path, gets nearer to its end with every move, for *)
(* any number of polls; that it moves at all is the fairness of the loop.    *)
THEOREM Advance == Spec => ExecutionAdvances
<1>1. TypeInv /\ [Next]_vars =>
        [\A t \in Tasks : pc[t] # "idle" /\ pc'[t] # pc[t]
            => StepsLeft(t)' \in 0..(StepsLeft(t) - 1)]_vars
  <2> SUFFICES ASSUME TypeInv, [Next]_vars PROVE \A t \in Tasks : Advances(t)
    BY DEF Advances
  <2> QED
    BY ExecuteAdvances, OthersAdvance DEF Next
<1> QED
  BY <1>1, Typing, PTL DEF Spec, ExecutionAdvances

=============================================================================
