------------------------- MODULE OrderContractProofs -------------------------
(***************************************************************************)
(* OrderExecution implements TradeContract: every step of an execution, of *)
(* time, of the broker and of the kill switch is a step of the contract or *)
(* changes nothing the contract speaks of.                                 *)
(***************************************************************************)
EXTENDS OrderExecutionProofs

Watched(t) == IF pc[t] = "idle" THEN {} ELSE HaltScopes(t)
Phased == [t \in Tasks |-> Phase(t)]
Watching == [t \in Tasks |-> Watched(t)]

(* A step of the contract, or none. *)
ContractStep == Contract!Next \/ UNCHANGED Contract!vars

(* An execution that has not yet passed its submission has sent nothing.     *)
Unsent == \A t \in Tasks : Phase(t) \in {"idle", "deciding", "cleared"} => order[t] = "none"

(* Who neither moves nor gets another signal keeps its phase and scopes.     *)
LEMMA OthersKeep ==
    ASSUME TypeInv, NEW t \in Tasks,
           pc' = [pc EXCEPT ![t] = pc'[t]], req' = [req EXCEPT ![t] = req'[t]]
    PROVE  /\ Phased' = [Phased EXCEPT ![t] = Phase(t)']
           /\ Watching' = [Watching EXCEPT ![t] = Watched(t)']
           /\ \A u \in Tasks \ {t} : Phase(u)' = Phase(u) /\ Watched(u)' = Watched(u)
<1>1. \A u \in Tasks \ {t} : pc'[u] = pc[u] /\ req'[u] = req[u]
  BY DEF TypeInv, TypeOK
<1>2. \A u \in Tasks \ {t} : Phase(u)' = Phase(u) /\ Watched(u)' = Watched(u)
  BY <1>1 DEF Phase, Watched, HaltScopes, Kind
<1> QED
  BY <1>2 DEF Phased, Watching

(* The statements between which the contract sees nothing, or only that the  *)
(* execution gives up.                                                       *)
LEMMA MoveKeeps ==
    ASSUME TypeInv, Unsent, NEW t \in Tasks, NEW to \in Labels \ {"idle"}, pc[t] # "idle",
           pc' = [pc EXCEPT ![t] = to], UNCHANGED <<req, order, booked, halted, conf>>,
           Phase(t)' \in {Phase(t), "over"}
    PROVE  ContractStep /\ Unsent'
<1>1. /\ pc'[t] = to
      /\ pc' = [pc EXCEPT ![t] = pc'[t]]
      /\ req' = [req EXCEPT ![t] = req'[t]]
  BY DEF TypeInv, TypeOK
<1>2. /\ Phased' = [Phased EXCEPT ![t] = Phase(t)']
      /\ Watching' = [Watching EXCEPT ![t] = Watched(t)']
      /\ \A u \in Tasks \ {t} : Phase(u)' = Phase(u)
  BY <1>1, OthersKeep
<1>3. Watched(t)' = Watched(t)
  BY <1>1 DEF Watched, HaltScopes, Kind
<1>4. Watching' = Watching
  BY <1>2, <1>3 DEF Watching
<1>5. Unsent'
  BY <1>2 DEF Unsent
<1>6. CASE Phase(t)' = Phase(t)
  <2>1. Phased' = Phased
    BY <1>2, <1>6 DEF Phased
  <2> QED
    BY <1>4, <1>5, <2>1 DEF ContractStep, Contract!vars, Phased, Watching, Watched
<1>7. CASE Phase(t)' = "over"
  <2>1. Phase(t) # "idle"
    BY DEF Phase, TypeInv, TypeOK, Labels
  <2>2. Contract!GiveUp(t)
    BY <1>2, <1>4, <1>7, <2>1 DEF Contract!GiveUp, Phased, Watching, Watched
  <2> QED
    BY <1>5, <2>2 DEF ContractStep, Contract!Next
<1> QED
  BY <1>6, <1>7

(* Every step of an execution is one of the contract, which it advances by   *)
(* passing the gate, sending, cancelling, booking or ending.                 *)
LEMMA ExecuteKeeps ==
    ASSUME TypeInv, Recorded, Unsent, NEW t \in Tasks, Execute(t)
    PROVE  ContractStep /\ Unsent'
<1> USE DEF TypeInv
<1>0. /\ pc[t] # "idle"
      /\ pc \in [Tasks -> Labels]
      /\ req \in [Tasks -> Signals \cup {NoSignal}]
      /\ order \in [Tasks -> {"none", "open", "filled", "dead"}]
      /\ booked \in [Tasks -> BOOLEAN]
      /\ Kind(t) \in {"tenant", "global", "strategy"}
  BY KindOfTask DEF Execute, TypeOK
<1>1. CASE \/ LockRefused(t) \/ NoLock(t) \/ Screened(t) \/ ScreenedOut(t)
           \/ OrderApproved(t) \/ OrderRejected(t) \/ TradeAllowed(t) \/ TradeRefused(t)
  <2> USE DEF LockRefused, NoLock, Screened, ScreenedOut, OrderApproved, OrderRejected,
              TradeAllowed, TradeRefused
  <2>1. PICK to \in {"end", "screen", "order", "limit", "dedupe", "count"} :
            /\ pc' = [pc EXCEPT ![t] = to]
            /\ to = "count" => Kind(t) # "strategy"
    BY <1>1 DEF Step, Goto
  <2>2. UNCHANGED <<req, order, booked, halted, conf>>
    BY <1>1 DEF Step, execVars
  <2>3. pc[t] \in {"lock", "screen", "order", "limit"}
    BY <1>1 DEF Step
  <2>4. pc'[t] = to /\ Kind(t)' = Kind(t)
    BY <1>0, <2>1, <2>2 DEF Kind
  <2>5. Phase(t) = "deciding"
    BY <2>3 DEF Phase
  <2>6. Phase(t)' \in {"deciding", "over"}
    BY <2>1, <2>4 DEF Phase
  <2>7. to \in Labels \ {"idle"}
    BY DEF Labels
  <2> QED
    BY <1>0, <2>1, <2>2, <2>5, <2>6, <2>7, MoveKeeps
<1>2. CASE \/ Dedupe(t) \/ DedupeRefused(t) \/ GateRaised(t)
           \/ PollFilled(t) \/ PollDead(t) \/ PollAgain(t)
  <2> USE DEF Dedupe, DedupeRefused, GateRaised, PollFilled, PollDead, PollAgain
  <2>1. PICK to \in {"end", "gate", "book", "cancel", "sleep"} :
            /\ pc' = [pc EXCEPT ![t] = to]
            /\ to = "gate" => pc[t] = "dedupe"
            /\ to \in {"book", "cancel", "sleep"} => pc[t] = "poll"
    BY <1>2 DEF Step, Goto
  <2>2. UNCHANGED <<req, order, booked, halted, conf>>
    BY <1>2 DEF Step, execVars
  <2>3. pc'[t] = to
    BY <1>0, <2>1
  <2>4. Phase(t)' \in {Phase(t), "over"}
    BY <2>1, <2>3 DEF Phase
  <2>5. to \in Labels \ {"idle"}
    BY DEF Labels
  <2> QED
    BY <1>0, <2>1, <2>2, <2>4, <2>5, MoveKeeps
<1>3. CASE AcquireLock(t) \/ SwapOut(t) \/ CountTrade(t)
  <2>1. PICK to \in {"end", "screen", "order", "gate"} :
            /\ pc' = [pc EXCEPT ![t] = to]
            /\ to \in {"screen", "order"} => pc[t] \in {"lock", "screen"}
            /\ to = "gate" => pc[t] = "count" /\ Kind(t) # "strategy"
    BY <1>3 DEF AcquireLock, SwapOut, CountTrade, Goto
  <2>2. UNCHANGED <<req, order, booked, halted, conf>>
    BY <1>3 DEF AcquireLock, SwapOut, CountTrade, execVars
  <2>3. pc'[t] = to
    BY <1>0, <2>1
  <2>4. Phase(t)' \in {Phase(t), "over"}
    BY <2>1, <2>3 DEF Phase
  <2>5. to \in Labels \ {"idle"}
    BY DEF Labels
  <2> QED
    BY <1>0, <2>1, <2>2, <2>4, <2>5, MoveKeeps
<1>4. CASE GatePassed(t)
  <2>1. /\ pc[t] = "gate" /\ pc' = [pc EXCEPT ![t] = "submit"]
        /\ HaltScopes(t) \cap halted = {}
        /\ UNCHANGED <<req, order, booked, halted, conf>>
    BY <1>4 DEF GatePassed, Step, Goto, execVars
  <2>2. pc'[t] = "submit" /\ Phase(t) = "deciding" /\ Phase(t)' = "cleared"
    BY <1>0, <2>1 DEF Phase
  <2>3. Watched(t) = HaltScopes(t) /\ Watched(t)' = Watched(t)
    BY <1>0, <2>1, <2>2 DEF Watched, HaltScopes, Kind
  <2>4. /\ Phased' = [Phased EXCEPT ![t] = "cleared"]
        /\ Watching' = Watching
        /\ \A u \in Tasks \ {t} : Phase(u)' = Phase(u)
    BY <1>0, <2>1, <2>2, <2>3, OthersKeep DEF Watching
  <2>5. Contract!Clear(t)
    BY <2>1, <2>2, <2>3, <2>4 DEF Contract!Clear, Phased, Watching, Watched
  <2>6. Unsent'
    BY <2>1, <2>2, <2>4 DEF Unsent
  <2> QED
    BY <2>5, <2>6 DEF ContractStep, Contract!Next
<1>5. CASE DryRun(t)
  <2>1. /\ conf.shadow /\ Kind(t) # "strategy" /\ pc[t] = "submit"
        /\ UNCHANGED <<req, order, booked, halted, conf>>
        /\ pc' = [pc EXCEPT ![t] = IF Kind(t) = "tenant" THEN "book" ELSE "end"]
    BY <1>5 DEF DryRun, Step, Goto, execVars
  <2>2. CASE Kind(t) = "tenant"
    <3>1. pc'[t] = "book" /\ Phase(t) = "cleared" /\ Phase(t)' = "following"
      BY <1>0, <2>1, <2>2 DEF Phase
    <3>2. Watched(t)' = Watched(t)
      BY <1>0, <2>1, <3>1 DEF Watched, HaltScopes, Kind
    <3>3. /\ Phased' = [Phased EXCEPT ![t] = "following"]
          /\ Watching' = Watching
          /\ \A u \in Tasks \ {t} : Phase(u)' = Phase(u)
      BY <1>0, <2>1, <2>2, <3>1, <3>2, OthersKeep DEF Watching
    <3>4. Contract!DryRun(t)
      BY <2>1, <3>1, <3>3 DEF Contract!DryRun, Phased, Watching, Watched
    <3>5. Unsent'
      BY <2>1, <3>1, <3>3 DEF Unsent
    <3> QED
      BY <3>4, <3>5 DEF ContractStep, Contract!Next
  <2>3. CASE Kind(t) # "tenant"
    <3>1. pc' = [pc EXCEPT ![t] = "end"] /\ pc'[t] = "end" /\ Phase(t)' = "over"
      BY <1>0, <2>1, <2>3 DEF Phase
    <3> QED
      BY <1>0, <2>1, <3>1, MoveKeeps DEF Labels
  <2> QED
    BY <2>2, <2>3
<1>6. CASE Submit(t) \/ SubmitFailed(t)
  <2>1. /\ pc[t] = "submit"
        /\ UNCHANGED <<req, booked, halted, conf>>
        /\ order' = order \/ order' = [order EXCEPT ![t] = "open"]
    BY <1>6 DEF Submit, SubmitFailed, Sent
  <2>2. PICK to \in {"poll", "end", "count"} :
            /\ pc' = [pc EXCEPT ![t] = to]
            /\ to = "count" => Kind(t) = "strategy"
            /\ to # "end" => order' = [order EXCEPT ![t] = "open"]
    BY <1>0, <1>6 DEF Submit, SubmitFailed, Sent, AfterSubmit, Goto
  <2>3. pc'[t] = to /\ Kind(t)' = Kind(t)
    BY <1>0, <2>1, <2>2 DEF Kind
  <2>4. Phase(t) = "cleared" /\ Phase(t)' \in {"following", "over"}
    BY <2>1, <2>2, <2>3 DEF Phase
  <2>5. Watched(t)' = Watched(t)
    BY <1>0, <2>1, <2>2, <2>3 DEF Watched, HaltScopes
  <2>6. /\ Phased' = [Phased EXCEPT ![t] = Phase(t)']
        /\ Watching' = Watching
        /\ \A u \in Tasks \ {t} : Phase(u)' = Phase(u)
    BY <1>0, <2>1, <2>2, <2>3, <2>5, OthersKeep DEF Watching
  <2>7. Unsent'
    BY <1>0, <2>1, <2>4, <2>6 DEF Unsent
  <2>8. CASE order' = [order EXCEPT ![t] = "open"]
    <3>1. Contract!Send(t)
      BY <2>1, <2>4, <2>6, <2>8 DEF Contract!Send, Unsent, Phased, Watching, Watched
    <3> QED
      BY <2>7, <3>1 DEF ContractStep, Contract!Next
  <2>9. CASE order' = order /\ to = "end"
    <3>1. Phase(t)' = "over"
      BY <2>3, <2>9 DEF Phase
    <3> QED
      BY <1>0, <2>1, <2>2, <2>9, <3>1, MoveKeeps DEF Labels
  <2> QED
    BY <2>1, <2>2, <2>8, <2>9
<1>7. CASE Cancel(t) \/ Book(t)
  <2>1. /\ pc[t] \in {"cancel", "book"} /\ pc' = [pc EXCEPT ![t] = "end"]
        /\ UNCHANGED <<req, halted, conf>>
    BY <1>7 DEF Cancel, Book, Goto
  <2>2. pc'[t] = "end" /\ Phase(t) = "following" /\ Phase(t)' = "over"
    BY <1>0, <2>1 DEF Phase
  <2>3. CASE UNCHANGED <<order, booked>>
    BY <1>0, <2>1, <2>2, <2>3, MoveKeeps DEF Labels
  <2>4. Watched(t)' = Watched(t)
    BY <1>0, <2>1, <2>2 DEF Watched, HaltScopes, Kind
  <2>5. /\ Phased' = [Phased EXCEPT ![t] = "over"]
        /\ Watching' = Watching
        /\ \A u \in Tasks \ {t} : Phase(u)' = Phase(u)
    BY <1>0, <2>1, <2>2, <2>4, OthersKeep DEF Watching
  <2>6. CASE order[t] = "open" /\ order' = [order EXCEPT ![t] = "dead"] /\ booked' = booked
    <3>1. Contract!Cancel(t)
      BY <2>1, <2>2, <2>5, <2>6 DEF Contract!Cancel, Phased, Watching, Watched
    <3>2. Unsent'
      BY <1>0, <2>2, <2>5, <2>6 DEF Unsent
    <3> QED
      BY <3>1, <3>2 DEF ContractStep, Contract!Next
  <2>7. CASE pc[t] = "book" /\ order' = order /\ booked' = [booked EXCEPT ![t] = TRUE]
    <3>1. Contract!Book(t)
      BY <2>1, <2>2, <2>5, <2>7 DEF Contract!Book, Recorded, Phased, Watching, Watched
    <3>2. Unsent'
      BY <2>2, <2>5, <2>7 DEF Unsent
    <3> QED
      BY <3>1, <3>2 DEF ContractStep, Contract!Next
  <2>8. CASE pc[t] = "book" /\ order' = order /\ booked' = [booked EXCEPT ![t] = FALSE]
    <3>1. ~booked[t]
      BY <2>8 DEF Recorded
    <3>2. booked' = booked
      BY <1>0, <2>8, <3>1
    <3> QED
      BY <2>3, <2>8, <3>2
  <2> QED
    BY <1>7, <2>3, <2>6, <2>7, <2>8 DEF Cancel, Book
<1>8. CASE End(t)
  <2>1. /\ pc[t] = "end" /\ pc' = [pc EXCEPT ![t] = "idle"]
        /\ req' = [req EXCEPT ![t] = NoSignal]
        /\ order' = [order EXCEPT ![t] = "none"]
        /\ booked' = [booked EXCEPT ![t] = FALSE]
        /\ UNCHANGED <<halted, conf>>
    BY <1>8 DEF End, Forget, Goto
  <2>2. /\ pc'[t] = "idle" /\ req'[t] = NoSignal
        /\ Phase(t) = "over" /\ Phase(t)' = "idle" /\ Watched(t)' = {}
    BY <1>0, <2>1 DEF Phase, Watched
  <2>3. /\ Phased' = [Phased EXCEPT ![t] = "idle"]
        /\ Watching' = [Watching EXCEPT ![t] = {}]
        /\ \A u \in Tasks \ {t} : Phase(u)' = Phase(u)
    BY <1>0, <2>1, <2>2, OthersKeep
  <2>4. Contract!Finish(t)
    BY <2>1, <2>2, <2>3 DEF Contract!Finish, Phased, Watching, Watched
  <2>5. Unsent'
    BY <1>0, <2>1, <2>3 DEF Unsent
  <2> QED
    BY <2>4, <2>5 DEF ContractStep, Contract!Next
<1> QED
  BY <1>1, <1>2, <1>3, <1>4, <1>5, <1>6, <1>7, <1>8 DEF Execute

(* So is every step of the environment; time only wakes who follows an order.*)
LEMMA OthersInContract ==
    ASSUME TypeInv, Unsent,
           \/ \E t \in Tasks : BrokerDecides(t) \/ \E s \in Signals : Start(t, s)
           \/ Tick
           \/ \E s \in Scopes : Halt(s) \/ Reset(s)
           \/ ResetDailyLimit
           \/ Restart
           \/ UNCHANGED vars
    PROVE  ContractStep /\ Unsent'
<1> USE DEF TypeInv
<1>0. /\ pc \in [Tasks -> Labels]
      /\ req \in [Tasks -> Signals \cup {NoSignal}]
      /\ order \in [Tasks -> {"none", "open", "filled", "dead"}]
  BY DEF TypeOK
<1>1. ASSUME NEW t \in Tasks, BrokerDecides(t) PROVE ContractStep /\ Unsent'
  <2>1. /\ UNCHANGED <<pc, req, booked, halted, conf>> /\ order[t] = "open"
        /\ \E o \in {"filled", "dead"} : order' = [order EXCEPT ![t] = o]
    BY <1>1 DEF BrokerDecides
  <2>2. \A u \in Tasks : Phase(u)' = Phase(u) /\ Watched(u)' = Watched(u)
    BY <2>1 DEF Phase, Watched, HaltScopes, Kind
  <2>3. Contract!Settle(t)
    BY <2>1, <2>2 DEF Contract!Settle, Phased, Watching, Watched
  <2>4. Unsent'
    BY <1>0, <2>1, <2>2 DEF Unsent
  <2> QED
    BY <2>3, <2>4 DEF ContractStep, Contract!Next
<1>2. ASSUME NEW t \in Tasks, NEW s \in Signals, Start(t, s) PROVE ContractStep /\ Unsent'
  <2>1. /\ pc[t] = "idle" /\ pc' = [pc EXCEPT ![t] = EntryOf(s)]
        /\ req' = [req EXCEPT ![t] = s]
        /\ UNCHANGED <<order, booked, halted, conf>>
    BY <1>2 DEF Start, Goto
  <2>2. pc'[t] \in {"lock", "screen", "order"} /\ req'[t] = s
    BY <1>0, <2>1, OrderExecutionAssumption DEF EntryOf, SignalType
  <2>3. Phase(t) = "idle" /\ Phase(t)' = "deciding"
    BY <2>1, <2>2 DEF Phase
  <2>4. Watched(t)' \in SUBSET (Accounts \cup {System}) /\ System \in Watched(t)'
    BY <2>2, OrderExecutionAssumption DEF Watched, HaltScopes, Kind, SignalType, Accounts
  <2>5. /\ Phased' = [Phased EXCEPT ![t] = "deciding"]
        /\ Watching' = [Watching EXCEPT ![t] = Watched(t)']
        /\ \A u \in Tasks \ {t} : Phase(u)' = Phase(u)
    BY <1>0, <2>1, <2>2, <2>3, OthersKeep
  <2>6. Contract!Begin(t)
    BY <2>1, <2>3, <2>4, <2>5 DEF Contract!Begin, Phased, Watching, Watched
  <2>7. Unsent'
    BY <2>1, <2>3, <2>5 DEF Unsent
  <2> QED
    BY <2>6, <2>7 DEF ContractStep, Contract!Next
<1>3. CASE Tick \/ ResetDailyLimit \/ UNCHANGED vars
  <2>1. UNCHANGED <<req, order, booked, halted, conf>>
    BY <1>3 DEF Tick, ResetDailyLimit, vars, execVars
  <2>2. \A u \in Tasks : pc'[u] = pc[u] \/ (pc[u] = "sleep" /\ pc'[u] \in {"poll", "cancel"})
    BY <1>3 DEF Tick, Wake, Sleepers, ResetDailyLimit, vars
  <2>3. \A u \in Tasks : Phase(u)' = Phase(u) /\ Watched(u)' = Watched(u)
    BY <2>1, <2>2 DEF Phase, Watched, HaltScopes, Kind
  <2> QED
    BY <2>1, <2>3 DEF ContractStep, Contract!vars, Phased, Watching, Watched, Unsent
<1>4. CASE \E s \in Scopes : Halt(s) \/ Reset(s)
  <2>1. UNCHANGED <<pc, req, order, booked, conf>>
    BY <1>4 DEF Halt, Reset, execVars
  <2>2. \A u \in Tasks : Phase(u)' = Phase(u) /\ Watched(u)' = Watched(u)
    BY <2>1 DEF Phase, Watched, HaltScopes, Kind
  <2>3. \/ \E s \in Accounts \cup {System} : halted' = halted \cup {s}
        \/ halted' \in SUBSET halted
    BY <1>4 DEF Halt, Reset, Scopes, Accounts
  <2>4. Contract!Reset \/ \E s \in Accounts \cup {System} : Contract!Halt(s)
    BY <2>1, <2>2, <2>3 DEF Contract!Reset, Contract!Halt, Phased, Watching, Watched
  <2> QED
    BY <2>1, <2>2, <2>4 DEF ContractStep, Contract!Next, Unsent
<1>5. CASE Restart
  <2>1. \A u \in Tasks : Phase(u)' = "idle" /\ Watched(u)' = {}
    BY <1>5 DEF Restart, Phase, Watched
  <2>2. Contract!Crash
    BY <1>5, <2>1 DEF Restart, Contract!Crash, Phased, Watching, Watched
  <2>3. Unsent'
    BY <1>5 DEF Restart, Unsent
  <2> QED
    BY <2>2, <2>3 DEF ContractStep, Contract!Next
<1> QED
  BY <1>1, <1>2, <1>3, <1>4, <1>5

(* OrderExecution implements the contract: no path, failure, retry, restart  *)
(* or interleaving sends the order of a signal without a clearance, sends it *)
(* twice, or records its trade unfilled.                                     *)
THEOREM ContractKept == Spec => KeepsContract
<1>1. Init => Contract!Init /\ Unsent
  <2> SUFFICES ASSUME Init PROVE Contract!Init /\ Unsent
    OBVIOUS
  <2>1. \A t \in Tasks : Phase(t) = "idle" /\ Watched(t) = {}
    BY DEF Init, Phase, Watched
  <2>2. conf.shadow \in BOOLEAN
    BY OrderExecutionAssumption DEF Init
  <2> QED
    BY <2>1, <2>2 DEF Init, Contract!Init, Unsent, Phased, Watching, Watched
<1>2. TypeInv /\ Recorded /\ Unsent /\ [Next]_vars => ContractStep /\ Unsent'
  BY ExecuteKeeps, OthersInContract DEF Next
<1>3. Init => Recorded
  BY DEF Init, Recorded
<1>4. TypeInv /\ Recorded /\ [Next]_vars => Recorded'
  BY ExecuteRecorded, OthersRecorded DEF Next
<1>5. ContractStep => [Contract!Next]_Contract!vars
  BY DEF ContractStep
<1> QED
  BY <1>1, <1>2, <1>3, <1>4, <1>5, Typing, PTL DEF Spec, KeepsContract, Contract!Spec

=============================================================================
