-------------------------- MODULE RoundTableProofs --------------------------
(***************************************************************************)
(* Proofs about RoundTable: its types, that the two models take part in    *)
(* every signal of the round table that is dispatched, and that votes of   *)
(* its own direction back every signal.                                    *)
(***************************************************************************)
EXTENDS RoundTable, FiniteSetTheorems, WellFoundedInduction, TLAPS

Votes == (0..100) \cup Special

LEMMA ScoresAreVotes ==
    ASSUME NEW m \in Models PROVE ModelScores(m) \subseteq Votes
BY RoundTableAssumption DEF ModelScores, Votes

LEMMA AgesAreAges ==
    ASSUME NEW age \in Nat \cup {NoError}, NEW failed
    PROVE  AgeAfter(age, failed) \in Nat \cup {NoError}
BY DEF AgeAfter

(* A vote is cast and a lock given back within their types.                  *)
LEMMA CastKeepsType ==
    ASSUME TypeOK, NEW s \in Symbols, NEW a \in Agents, NEW v \in Votes, Cast(s, a, v)
    PROVE  vote' \in [Symbols -> [Agents -> Votes]]
BY DEF TypeOK, Cast, Votes

LEMMA UnlockKeepsType ==
    ASSUME TypeOK, NEW s \in Symbols, NEW a, Unlock(s, a)
    PROVE  lock' \in [Symbols -> Models \cup {Fallback, Nobody}]
BY DEF TypeOK, Unlock

LEMMA TypeInit == Init => TypeOK
<1> SUFFICES ASSUME Init PROVE TypeOK
    OBVIOUS
<1>1. [a \in Agents |-> Lost] \in [Agents -> Votes]
    BY DEF Special, Votes
<1>2. vote \in [Symbols -> [Agents -> Votes]]
    BY <1>1 DEF Init
<1> QED BY <1>2 DEF Init, TypeOK, Votes

LEMMA TypeNext == TypeOK /\ [Next]_vars => TypeOK'
<1> SUFFICES ASSUME TypeOK, [Next]_vars PROVE TypeOK'
    OBVIOUS
<1> USE DEF TypeOK, Votes
<1>1. CASE StartCycle
    BY <1>1 DEF StartCycle, dogVars, Special
<1>2. ASSUME NEW s \in Symbols, EvaluationNext(s) PROVE TypeOK'
    <2>1. ASSUME NEW m \in Models, RunStrategy(s, m) PROVE TypeOK'
        BY <2>1 DEF RunStrategy, cycleVars, dogVars
    <2>2. ASSUME NEW m \in Models, ModelVotes(s, m) PROVE TypeOK'
        <3>1. PICK v \in ModelScores(m) \cup {Excluded} : Cast(s, m, v)
            BY <2>2 DEF ModelVotes
        <3>2. v \in Votes /\ m \in Agents
            BY ScoresAreVotes DEF Special, Agents
        <3>3. vote' \in [Symbols -> [Agents -> Votes]]
            BY <3>1, <3>2, CastKeepsType
        <3>4. lock' \in [Symbols -> Models \cup {Fallback, Nobody}]
            BY <2>2, UnlockKeepsType DEF ModelVotes
        <3> QED BY <2>2, <3>3, <3>4 DEF ModelVotes, cycleVars
    <2>3. ASSUME NEW m \in Models, ModelFails(s, m) PROVE TypeOK'
        <3>1. vote' \in [Symbols -> [Agents -> Votes]]
            BY <2>3, CastKeepsType DEF ModelFails, Special, Agents
        <3>2. lock' \in [Symbols -> Models \cup {Fallback, Nobody}]
            BY <2>3, UnlockKeepsType DEF ModelFails
        <3>3. errorAge' \in Nat \cup {NoError}
            BY <2>3, AgesAreAges DEF ModelFails
        <3>4. halted' \in BOOLEAN
            BY <2>3 DEF ModelFails
        <3> QED BY <2>3, <3>1, <3>2, <3>3, <3>4 DEF ModelFails, cycleVars
    <2>4. ASSUME NEW a \in Advisors, AdvisorVotes(s, a) PROVE TypeOK'
        <3>1. PICK v \in AdvisorScores \cup {Excluded, Lost, Malformed} : Cast(s, a, v)
            BY <2>4 DEF AdvisorVotes
        <3>2. v \in Votes /\ a \in Agents
            BY RoundTableAssumption DEF Special, Agents
        <3>3. vote' \in [Symbols -> [Agents -> Votes]]
            BY <3>1, <3>2, CastKeepsType
        <3> QED BY <2>4, <3>3 DEF AdvisorVotes, cycleVars, dogVars
    <2>5. ASSUME NEW a \in Agents, VoteTimesOut(s, a) PROVE TypeOK'
        <3>1. vote' \in [Symbols -> [Agents -> Votes]]
            BY <2>5, CastKeepsType DEF VoteTimesOut, Special
        <3>2. lock' \in [Symbols -> Models \cup {Fallback, Nobody}]
            BY <2>5, UnlockKeepsType DEF VoteTimesOut
        <3> QED BY <2>5, <3>1, <3>2 DEF VoteTimesOut, cycleVars, dogVars
    <2>6. CASE StrategyTrades(s)
        BY <2>6 DEF StrategyTrades, cycleVars, dogVars
    <2>7. CASE Tally(s)
        <3>1. /\ errorAge' = AgeAfter(AgeAfter(errorAge, vote[s][LSTM] = Lost),
                                      vote[s][RL] = Lost)
              /\ halted' \in BOOLEAN
            BY <2>7 DEF Tally, ReportModels
        <3>2. errorAge' \in Nat \cup {NoError}
            BY <3>1, AgesAreAges
        <3>3. Consensus(s) \in {"BUY", "SELL", "HOLD"}
            BY DEF Consensus
        <3>4. signal' \in [Symbols -> {"none", "BUY", "SELL", "HOLD"}]
            BY <2>7, <3>3 DEF Tally
        <3>5. lock' \in [Symbols -> Models \cup {Fallback, Nobody}]
            BY <2>7 DEF Tally
        <3>6. phase' \in [Symbols -> {"idle", "voting", "fallback", "decided"}]
            BY <2>7 DEF Tally
        <3> QED BY <2>7, <3>1, <3>2, <3>4, <3>5, <3>6 DEF Tally
    <2>8. CASE FallbackEnds(s)
        <3>1. lock' \in [Symbols -> Models \cup {Fallback, Nobody}]
            BY <2>8, UnlockKeepsType DEF FallbackEnds
        <3> QED BY <2>8, <3>1 DEF FallbackEnds, dogVars
    <2>9. CASE DispatchSignal(s)
        BY <2>9 DEF DispatchSignal, dogVars
    <2> QED BY <1>2, <2>1, <2>2, <2>3, <2>4, <2>5, <2>6, <2>7, <2>8, <2>9 DEF EvaluationNext
<1>3. CASE Tick
    BY <1>3 DEF Tick, cycleVars
<1>4. CASE TripOrReset
    BY <1>4 DEF TripOrReset, cycleVars
<1>5. CASE UNCHANGED vars
    BY <1>5 DEF vars, cycleVars, dogVars
<1> QED BY <1>1, <1>2, <1>3, <1>4, <1>5 DEF Next

(* Every step keeps the variables within their types.                        *)
THEOREM TypeCorrect == Spec => []TypeOK
BY TypeInit, TypeNext, PTL DEF Spec

-----------------------------------------------------------------------------
(* ModelsDecide.  Votes change only while a symbol is voting, and then it    *)
(* has neither a signal nor a dispatched order.  A signal appears with the   *)
(* tally, from both models, or in a fallback, that is not ByRoundTable.      *)

NothingDecided(s) == signal[s] = "none" /\ Dispatch \notin traded[s]

Decisive(s) ==
    signal[s] # "none" \/ Dispatch \in traded[s] => ~ByRoundTable(s) \/ ModelsVoted(s)

SymbolInv(s) ==
    /\ phase[s] = "voting" => NothingDecided(s)
    /\ phase[s] = "fallback" => ~ByRoundTable(s)
    /\ Decisive(s)

DecisionInv == \A s \in Symbols : SymbolInv(s)

LEMMA DecisionInit == Init => DecisionInv
BY DEF Init, DecisionInv, SymbolInv, NothingDecided, Decisive

(* A vote leaves the decisions alone.                                        *)
LEMMA VotingKeepsDecisions ==
    ASSUME TypeOK, DecisionInv, NEW s \in Symbols, NEW a \in Agents, NEW v \in Votes,
           Waiting(s, a), Cast(s, a, v), UNCHANGED <<cycleVars, traded>>
    PROVE  DecisionInv'
<1> SUFFICES ASSUME NEW t \in Symbols PROVE SymbolInv(t)'
    BY DEF DecisionInv
<1>1. SymbolInv(t)
    BY DEF DecisionInv
<1>2. CASE t = s
    BY <1>1, <1>2 DEF SymbolInv, NothingDecided, Decisive, Waiting, cycleVars
<1>3. CASE t # s
    <2>1. vote'[t] = vote[t]
        BY <1>3 DEF Cast, TypeOK
    <2> QED BY <1>1, <2>1 DEF SymbolInv, NothingDecided, Decisive, ByRoundTable,
                              ModelsVoted, cycleVars
<1> QED BY <1>2, <1>3

LEMMA DecisionNext == TypeOK /\ DecisionInv /\ [Next]_vars => DecisionInv'
<1> SUFFICES ASSUME TypeOK, DecisionInv, [Next]_vars PROVE DecisionInv'
    OBVIOUS
<1> DEFINE Untouched == UNCHANGED <<phase, signal, traded, vote>>
<1>0. Untouched => DecisionInv'
    BY DEF DecisionInv, SymbolInv, NothingDecided, Decisive, ByRoundTable, ModelsVoted
<1>1. CASE StartCycle
    BY <1>1 DEF StartCycle, DecisionInv, SymbolInv, NothingDecided, Decisive
<1>2. ASSUME NEW s \in Symbols, EvaluationNext(s) PROVE DecisionInv'
    <2>1. ASSUME NEW m \in Models, RunStrategy(s, m) PROVE DecisionInv'
        BY <1>0, <2>1 DEF RunStrategy, cycleVars
    <2>2. ASSUME NEW m \in Models, ModelVotes(s, m) PROVE DecisionInv'
        <3>1. PICK v \in ModelScores(m) \cup {Excluded} : Cast(s, m, v)
            BY <2>2 DEF ModelVotes
        <3>2. v \in Votes /\ m \in Agents
            BY ScoresAreVotes DEF Special, Agents, Votes
        <3> QED BY <2>2, <3>1, <3>2, VotingKeepsDecisions DEF ModelVotes
    <2>3. ASSUME NEW m \in Models, ModelFails(s, m) PROVE DecisionInv'
        <3>1. Excluded \in Votes /\ m \in Agents
            BY DEF Special, Agents, Votes
        <3> QED BY <2>3, <3>1, VotingKeepsDecisions DEF ModelFails
    <2>4. ASSUME NEW a \in Advisors, AdvisorVotes(s, a) PROVE DecisionInv'
        <3>1. PICK v \in AdvisorScores \cup {Excluded, Lost, Malformed} : Cast(s, a, v)
            BY <2>4 DEF AdvisorVotes
        <3>2. v \in Votes /\ a \in Agents
            BY RoundTableAssumption DEF Special, Agents, Votes
        <3> QED BY <2>4, <3>1, <3>2, VotingKeepsDecisions DEF AdvisorVotes
    <2>5. ASSUME NEW a \in Agents, VoteTimesOut(s, a) PROVE DecisionInv'
        <3>1. Lost \in Votes
            BY DEF Special, Votes
        <3> QED BY <2>5, <3>1, VotingKeepsDecisions DEF VoteTimesOut
    <2> DEFINE Goal(t) == SymbolInv(t)'
    <2>6. CASE StrategyTrades(s)
        <3>1. lock[s] # Dispatch
            BY <2>6, RoundTableAssumption DEF StrategyTrades, TypeOK
        <3>2. \A t \in Symbols : Dispatch \in traded'[t] <=> Dispatch \in traded[t]
            BY <2>6, <3>1 DEF StrategyTrades, TypeOK
        <3> QED BY <2>6, <3>2 DEF StrategyTrades, DecisionInv, SymbolInv, NothingDecided,
                                  Decisive, ByRoundTable, ModelsVoted, cycleVars
    <2>7. CASE Tally(s)
        <3> SUFFICES ASSUME NEW t \in Symbols PROVE SymbolInv(t)'
            BY DEF DecisionInv
        <3>1. SymbolInv(t) /\ (ByRoundTable(t)' <=> ByRoundTable(t))
                           /\ (ModelsVoted(t)' <=> ModelsVoted(t))
            BY <2>7 DEF Tally, DecisionInv, ByRoundTable, ModelsVoted
        <3>2. CASE t # s
            BY <2>7, <3>1, <3>2 DEF Tally, SymbolInv, NothingDecided, Decisive, TypeOK
        <3>3. CASE t = s
            <4>1. NothingDecided(s)
                BY <2>7, <3>1, <3>3 DEF Tally, SymbolInv
            <4>2. CASE ByRoundTable(s)
                <5>1. /\ phase'[s] = "decided" /\ traded' = traded
                      /\ signal'[s] = IF ModelsVoted(s) THEN Consensus(s) ELSE signal[s]
                    BY <2>7, <4>2 DEF Tally, ByRoundTable, TypeOK
                <5> QED BY <3>1, <3>3, <4>1, <4>2, <5>1 DEF SymbolInv, NothingDecided, Decisive
            <4>3. CASE ~ByRoundTable(s)
                <5>1. phase'[s] = "fallback"
                    BY <2>7, <4>3 DEF Tally, ByRoundTable, TypeOK
                <5> QED BY <3>1, <3>3, <4>3, <5>1 DEF SymbolInv, Decisive
            <4> QED BY <4>2, <4>3
        <3> QED BY <3>2, <3>3
    <2>8. CASE FallbackEnds(s)
        BY <2>8 DEF FallbackEnds, DecisionInv, SymbolInv, NothingDecided, Decisive,
                    ByRoundTable, ModelsVoted, TypeOK
    <2>9. CASE DispatchSignal(s)
        BY <2>9 DEF DispatchSignal, DecisionInv, SymbolInv, NothingDecided, Decisive,
                    ByRoundTable, ModelsVoted, TypeOK
    <2> QED BY <1>2, <2>1, <2>2, <2>3, <2>4, <2>5, <2>6, <2>7, <2>8, <2>9 DEF EvaluationNext
<1>3. CASE Tick
    BY <1>0, <1>3 DEF Tick, cycleVars
<1>4. CASE TripOrReset
    BY <1>0, <1>4 DEF TripOrReset, cycleVars
<1>5. CASE UNCHANGED vars
    BY <1>0, <1>5 DEF vars, cycleVars
<1> QED BY <1>1, <1>2, <1>3, <1>4, <1>5 DEF Next

LEMMA DecisionsFromModels == DecisionInv => ModelsDecide
BY DEF DecisionInv, SymbolInv, Decisive, ModelsDecide, ModelsVoted

(* No dispatched signal of the round table lacks the vote of a model, for    *)
(* any symbols, agents, weights and scores.                                  *)
THEOREM ModelsAlwaysDecide == Spec => []ModelsDecide
BY TypeInit, TypeNext, DecisionInit, DecisionNext, DecisionsFromModels, PTL DEF Spec

-----------------------------------------------------------------------------
(* Sums over finite sets: the element the definition takes first, and the    *)
(* function from the parts of a set to their sums that it computes.          *)

Pick(T) == CHOOSE x \in T : TRUE

IsPartialSum(g, f, S) ==
    g = [T \in SUBSET S |-> IF T = {} THEN 0 ELSE f[Pick(T)] + g[T \ {Pick(T)}]]

(* Induction: a set of subsets has one that contains no other of them.       *)
LEMMA MinimalSubset ==
    ASSUME NEW S, IsFiniteSet(S), NEW B \in SUBSET SUBSET S, B # {}
    PROVE  \E T \in B : \A U \in B : ~(U \subseteq T /\ U # T)
<1>1. B \subseteq FiniteSubsetsOf(S)
    BY FS_FiniteSubsetsOfFinite
<1>2. \E T \in B : \A U \in B : <<U, T>> \notin StrictSubsetOrdering(S)
    BY <1>1, FS_StrictSubsetOrderingWellFounded, WFMin
<1> QED BY <1>2 DEF StrictSubsetOrdering

(* The definition of the library, spelled out.                               *)
LEMMA SumIsChosen ==
    ASSUME NEW f, NEW S
    PROVE  SumFunctionOnSet(f, S) = (CHOOSE g : IsPartialSum(g, f, S))[S]
BY DEF SumFunctionOnSet, FoldFunctionOnSet, MapThenFoldSet, IsPartialSum, Pick

(* A partial sum is determined by what it sums, and so is its restriction.   *)
LEMMA PartialSumUnique ==
    ASSUME NEW f, NEW S, IsFiniteSet(S), NEW T \in SUBSET S,
           NEW g, IsPartialSum(g, f, S), NEW h, IsPartialSum(h, f, T)
    PROVE  \A U \in SUBSET T : g[U] = h[U]
<1> DEFINE Differ == {U \in SUBSET T : g[U] # h[U]}
<1>1. SUFFICES ASSUME Differ # {} PROVE FALSE
    OBVIOUS
<1>2. PICK U \in Differ : \A V \in Differ : ~(V \subseteq U /\ V # U)
    <2>1. Differ \in SUBSET SUBSET S
        OBVIOUS
    <2> HIDE DEF Differ
    <2> QED BY <1>1, <2>1, MinimalSubset
<1>3. U # {}
    BY DEF IsPartialSum
<1>4. Pick(U) \in U
    BY <1>3 DEF Pick
<1>5. U \ {Pick(U)} \notin Differ
    BY <1>2, <1>4
<1>6. g[U \ {Pick(U)}] = h[U \ {Pick(U)}]
    BY <1>5
<1> QED BY <1>3, <1>6 DEF IsPartialSum

(* Every finite set has its partial sums, so that SumFunctionOnSet sums.     *)
LEMMA SumExists ==
    ASSUME NEW f, NEW S, IsFiniteSet(S)
    PROVE  \E g : IsPartialSum(g, f, S)
<1> DEFINE Sum(T) == SumFunctionOnSet(f, T)
           Bad == {T \in SUBSET S : ~\E g : IsPartialSum(g, f, T)}
<1>1. SUFFICES ASSUME Bad # {} PROVE FALSE
    OBVIOUS
<1>2. PICK T \in Bad : \A U \in Bad : ~(U \subseteq T /\ U # T)
    <2>1. Bad \in SUBSET SUBSET S
        OBVIOUS
    <2> HIDE DEF Bad
    <2> QED BY <1>1, <2>1, MinimalSubset
<1> DEFINE p == Pick(T)
           h == [U \in SUBSET T |-> IF U = {} THEN 0
                                    ELSE IF U = T THEN f[p] + Sum(T \ {p}) ELSE Sum(U)]
<1>3. ASSUME NEW U \in SUBSET T, U # T
      PROVE  IsPartialSum(CHOOSE g : IsPartialSum(g, f, U), f, U)
    BY <1>2, <1>3
<1>4. ASSUME NEW U \in SUBSET T, U # T, U # {}
      PROVE  Sum(U) = f[Pick(U)] + Sum(U \ {Pick(U)})
    <2> DEFINE V == U \ {Pick(U)}
               gU == CHOOSE g : IsPartialSum(g, f, U)
               gV == CHOOSE g : IsPartialSum(g, f, V)
    <2>1. V # T /\ V \in SUBSET U
        BY <1>4
    <2>2. IsPartialSum(gU, f, U) /\ IsPartialSum(gV, f, V)
        BY <1>3, <1>4, <2>1
    <2>3. IsFiniteSet(U)
        BY FS_Subset
    <2>4. gU[V] = gV[V]
        <3> HIDE DEF gU, gV, V
        <3> QED BY <2>1, <2>2, <2>3, PartialSumUnique
    <2>5. gU[U] = f[Pick(U)] + gU[V]
        BY <1>4, <2>2 DEF IsPartialSum
    <2> QED BY <2>4, <2>5, SumIsChosen
<1>5. ASSUME NEW U \in SUBSET T, U # {}
      PROVE  Sum(U \ {Pick(U)}) = h[U \ {Pick(U)}]
    <2>1. Pick(U) \in U
        BY <1>5 DEF Pick
    <2> DEFINE V == U \ {Pick(U)}
    <2>2. V \in SUBSET T /\ V # T
        BY <2>1
    <2>3. CASE V = {}
        <3>1. IsPartialSum(CHOOSE g : IsPartialSum(g, f, {}), f, {})
            BY <1>3, <2>2, <2>3
        <3>2. Sum({}) = 0
            BY <3>1, SumIsChosen DEF IsPartialSum
        <3> QED BY <2>3, <3>2
    <2>4. CASE V # {}
        BY <2>2, <2>4
    <2> QED BY <2>3, <2>4
<1>6. ASSUME NEW U \in SUBSET T, U # {}
      PROVE  h[U] = f[Pick(U)] + h[U \ {Pick(U)}]
    BY <1>4, <1>5, <1>6
<1>7. IsPartialSum(h, f, T)
    <2> HIDE DEF h
    <2>1. DOMAIN h = SUBSET T /\ h = [U \in SUBSET T |-> h[U]] /\ h[{}] = 0
        BY DEF h
    <2> QED BY <1>6, <2>1 DEF IsPartialSum
<1> QED BY <1>2, <1>7

(* Nothing adds up to 0.                                                     *)
LEMMA SumOfNothing ==
    ASSUME NEW f PROVE SumFunctionOnSet(f, {}) = 0
<1>1. IsPartialSum(CHOOSE g : IsPartialSum(g, f, {}), f, {})
    BY SumExists, FS_EmptySet
<1> QED BY <1>1, SumIsChosen DEF IsPartialSum

(* The element the definition takes first, and the rest.                     *)
LEMMA SumOfPicked ==
    ASSUME NEW f, NEW S, IsFiniteSet(S), S # {}
    PROVE  SumFunctionOnSet(f, S) = f[Pick(S)] + SumFunctionOnSet(f, S \ {Pick(S)})
<1> DEFINE V == S \ {Pick(S)}
           gS == CHOOSE g : IsPartialSum(g, f, S)
           gV == CHOOSE g : IsPartialSum(g, f, V)
<1>1. IsPartialSum(gS, f, S)
    BY SumExists
<1>2. IsFiniteSet(V)
    BY FS_Subset
<1>3. IsPartialSum(gV, f, V)
    BY <1>2, SumExists
<1>4. gS[V] = gV[V]
    <2>1. V \in SUBSET S
        OBVIOUS
    <2> HIDE DEF gS, gV, V
    <2> QED BY <1>1, <1>3, <2>1, PartialSumUnique
<1>5. gS[S] = f[Pick(S)] + gS[V]
    BY <1>1 DEF IsPartialSum
<1> QED BY <1>4, <1>5, SumIsChosen

(* Integers add up to an integer, over every part of the set.                *)
LEMMA SumIsInteger ==
    ASSUME NEW f, NEW S, IsFiniteSet(S), \A x \in S : f[x] \in Int
    PROVE  \A T \in SUBSET S : SumFunctionOnSet(f, T) \in Int
<1> DEFINE Bad == {T \in SUBSET S : SumFunctionOnSet(f, T) \notin Int}
<1>1. SUFFICES ASSUME Bad # {} PROVE FALSE
    OBVIOUS
<1>2. PICK T \in Bad : \A U \in Bad : ~(U \subseteq T /\ U # T)
    <2>1. Bad \in SUBSET SUBSET S
        OBVIOUS
    <2> HIDE DEF Bad
    <2> QED BY <1>1, <2>1, MinimalSubset
<1>3. T # {}
    BY SumOfNothing
<1>4. Pick(T) \in T
    BY <1>3 DEF Pick
<1>5. SumFunctionOnSet(f, T \ {Pick(T)}) \in Int
    BY <1>2, <1>4
<1>6. IsFiniteSet(T)
    BY FS_Subset
<1> QED BY <1>3, <1>4, <1>5, <1>6, SumOfPicked

(* Any element and the rest: the order of the summands does not matter.      *)
LEMMA SumOfElement ==
    ASSUME NEW f, NEW S, IsFiniteSet(S), \A x \in S : f[x] \in Int, NEW a \in S
    PROVE  SumFunctionOnSet(f, S) = f[a] + SumFunctionOnSet(f, S \ {a})
<1> DEFINE Sum(T) == SumFunctionOnSet(f, T)
           Bad == {T \in SUBSET S : \E x \in T : Sum(T) # f[x] + Sum(T \ {x})}
<1>1. SUFFICES ASSUME Bad # {} PROVE FALSE
    OBVIOUS
<1>2. PICK T \in Bad : \A U \in Bad : ~(U \subseteq T /\ U # T)
    <2>1. Bad \in SUBSET SUBSET S
        OBVIOUS
    <2> HIDE DEF Bad
    <2> QED BY <1>1, <2>1, MinimalSubset
<1>3. PICK x \in T : Sum(T) # f[x] + Sum(T \ {x})
    OBVIOUS
<1> DEFINE y == Pick(T)
<1>4. y \in T
    BY DEF Pick
<1>5. IsFiniteSet(T)
    BY FS_Subset
<1>6. Sum(T) = f[y] + Sum(T \ {y})
    BY <1>5, SumOfPicked
<1>7. x # y
    BY <1>3, <1>6
<1> DEFINE R == T \ {x, y}
<1>8. Sum(T \ {y}) = f[x] + Sum(R)
    <2>1. x \in T \ {y} /\ (T \ {y}) \ {x} = R
        BY <1>7
    <2>2. T \ {y} \notin Bad
        BY <1>2, <1>4
    <2> HIDE DEF y, R
    <2> QED BY <2>1, <2>2
<1>9. Sum(T \ {x}) = f[y] + Sum(R)
    <2>1. y \in T \ {x} /\ (T \ {x}) \ {y} = R
        BY <1>4, <1>7
    <2>2. T \ {x} \notin Bad
        BY <1>2
    <2> HIDE DEF y, R
    <2> QED BY <2>1, <2>2
<1>10. f[x] \in Int /\ f[y] \in Int /\ Sum(R) \in Int
    BY <1>4, SumIsInteger
<1> HIDE DEF Sum, y, R
<1> QED BY <1>3, <1>6, <1>8, <1>9, <1>10

(* A sum is that over a part of the set and that over the remainder.         *)
LEMMA SumSplits ==
    ASSUME NEW f, NEW S, IsFiniteSet(S), \A x \in S : f[x] \in Int, NEW H \in SUBSET S
    PROVE  SumFunctionOnSet(f, S) = SumFunctionOnSet(f, H) + SumFunctionOnSet(f, S \ H)
<1> DEFINE Sum(T) == SumFunctionOnSet(f, T)
           Bad == {T \in SUBSET S : Sum(T) # Sum(T \cap H) + Sum(T \ H)}
<1>1. SUFFICES Bad = {}
    <2>1. S \notin Bad => Sum(S) = Sum(S \cap H) + Sum(S \ H)
        OBVIOUS
    <2>2. S \cap H = H
        OBVIOUS
    <2> QED BY <2>1, <2>2
<1>2. SUFFICES ASSUME Bad # {} PROVE FALSE
    OBVIOUS
<1>3. PICK T \in Bad : \A U \in Bad : ~(U \subseteq T /\ U # T)
    <2>1. Bad \in SUBSET SUBSET S
        OBVIOUS
    <2> HIDE DEF Bad
    <2> QED BY <1>2, <2>1, MinimalSubset
<1>4. PICK x : x \in T
    <2>1. {} \cap H = {} /\ {} \ H = {}
        OBVIOUS
    <2>2. Sum({}) = 0
        BY SumOfNothing
    <2>3. {} \notin Bad
        BY <2>1, <2>2
    <2> QED BY <2>3
<1> DEFINE R == T \ {x}
<1>5. Sum(R) = Sum(R \cap H) + Sum(R \ H)
    BY <1>3, <1>4
<1>6. IsFiniteSet(T) /\ IsFiniteSet(T \cap H) /\ IsFiniteSet(T \ H)
    BY FS_Subset
<1>7. /\ f[x] \in Int
      /\ \A U \in SUBSET S : Sum(U) \in Int
    BY <1>4, SumIsInteger
<1>8. Sum(T) = f[x] + Sum(R)
    BY <1>4, <1>6, SumOfElement
<1>9. CASE x \in H
    <2>1. R \cap H = (T \cap H) \ {x} /\ R \ H = T \ H /\ x \in T \cap H
        BY <1>4, <1>9
    <2>2. Sum(T \cap H) = f[x] + Sum(R \cap H)
        BY <1>6, <2>1, SumOfElement
    <2>3. Sum(R \ H) = Sum(T \ H)
        BY <2>1
    <2>4. Sum(T \ H) \in Int /\ Sum(R \cap H) \in Int /\ Sum(R) \in Int
        BY <1>7
    <2>5. Sum(T) # Sum(T \cap H) + Sum(T \ H)
        BY <1>3
    <2> HIDE DEF Sum, R, Bad
    <2> QED BY <1>5, <1>7, <1>8, <2>2, <2>3, <2>4, <2>5
<1>10. CASE x \notin H
    <2>1. R \ H = (T \ H) \ {x} /\ R \cap H = T \cap H /\ x \in T \ H
        BY <1>4, <1>10
    <2>2. Sum(T \ H) = f[x] + Sum(R \ H)
        BY <1>6, <2>1, SumOfElement
    <2>3. Sum(R \cap H) = Sum(T \cap H)
        BY <2>1
    <2>4. Sum(T \cap H) \in Int /\ Sum(R \ H) \in Int /\ Sum(R) \in Int
        BY <1>7
    <2>5. Sum(T) # Sum(T \cap H) + Sum(T \ H)
        BY <1>3
    <2> HIDE DEF Sum, R, Bad
    <2> QED BY <1>5, <1>7, <1>8, <2>2, <2>3, <2>4, <2>5
<1> QED BY <1>9, <1>10

(* Bounds of the summands bound the sum.                                     *)
LEMMA SumWithin ==
    ASSUME NEW f, NEW w, NEW S, IsFiniteSet(S), NEW lo \in Int, NEW hi \in Int,
           \A x \in S : /\ f[x] \in Int /\ w[x] \in Int
                        /\ lo * w[x] <= f[x] /\ f[x] <= hi * w[x]
    PROVE  /\ lo * SumFunctionOnSet(w, S) <= SumFunctionOnSet(f, S)
           /\ SumFunctionOnSet(f, S) <= hi * SumFunctionOnSet(w, S)
<1> DEFINE F(T) == SumFunctionOnSet(f, T)
           W(T) == SumFunctionOnSet(w, T)
           Within(T) == lo * W(T) <= F(T) /\ F(T) <= hi * W(T)
           Bad == {T \in SUBSET S : ~Within(T)}
<1>1. SUFFICES ASSUME Bad # {} PROVE FALSE
    OBVIOUS
<1>2. PICK T \in Bad : \A U \in Bad : ~(U \subseteq T /\ U # T)
    <2>1. Bad \in SUBSET SUBSET S
        OBVIOUS
    <2> HIDE DEF Bad
    <2> QED BY <1>1, <2>1, MinimalSubset
<1>3. PICK x : x \in T
    <2>1. T # {}
        BY SumOfNothing
    <2> QED BY <2>1
<1> DEFINE R == T \ {x}
<1>4. Within(R)
    BY <1>2, <1>3
<1>5. IsFiniteSet(T)
    BY FS_Subset
<1>6. F(T) = f[x] + F(R) /\ W(T) = w[x] + W(R)
    BY <1>3, <1>5, SumOfElement
<1>7. F(R) \in Int /\ W(R) \in Int
    BY SumIsInteger
<1>8. f[x] \in Int /\ w[x] \in Int /\ lo * w[x] <= f[x] /\ f[x] <= hi * w[x]
    BY <1>3
<1>9. Within(T)
    <2> HIDE DEF F, W, R
    <2>1. lo * W(T) = lo * w[x] + lo * W(R) /\ hi * W(T) = hi * w[x] + hi * W(R)
        BY <1>6, <1>7, <1>8
    <2> QED BY <1>4, <1>6, <1>7, <1>8, <2>1
<1> QED BY <1>9

-----------------------------------------------------------------------------
(* SignalsAreBacked.  A vote above 50 weighs in with at most 100, any other  *)
(* with at most 50: 65 % of the weight needs 30 % of it above 50.  Below,    *)
(* votes that are not under 50 weigh in with at least 50, the others with    *)
(* nothing or more.  A signal appears in the tally, with the votes it was    *)
(* made of, and these change only once the signal is gone.                   *)

Backed(s) ==
    ByRoundTable(s) =>
        /\ signal[s] = "BUY"  => 10 * Backing(s)  > 3 * TotalWeight(s)
        /\ signal[s] = "SELL" => 10 * Opposing(s) > 3 * TotalWeight(s)

(* The weights that count are finitely many naturals, the votes percents.    *)
LEMMA WeightedVotes ==
    ASSUME TypeOK, NEW s \in Symbols
    PROVE  /\ IsFiniteSet(Weighted(s))
           /\ \A a \in Weighted(s) : Weight[a] \in Nat /\ vote[s][a] \in 0..100
<1>1. IsFiniteSet(Models)
    <2>1. IsFiniteSet({LSTM}) /\ IsFiniteSet({RL})
        BY FS_Singleton
    <2>2. Models = {LSTM} \cup {RL}
        BY DEF Models
    <2> QED BY <2>1, <2>2, FS_Union
<1>2. IsFiniteSet(Agents)
    BY <1>1, FS_Union, RoundTableAssumption DEF Agents
<1>3. Weighted(s) \subseteq Agents
    BY DEF Weighted
<1>4. IsFiniteSet(Weighted(s))
    BY <1>2, <1>3, FS_Subset
<1>5. \A a \in Weighted(s) : Weight[a] \in Nat
    BY <1>3, RoundTableAssumption
<1>6. \A a \in Weighted(s) : vote[s][a] \in 0..100
    BY DEF Weighted, TypeOK
<1> QED BY <1>4, <1>5, <1>6

(* The weighted votes of some agents lie between the bounds of their votes.  *)
LEMMA VotesWithin ==
    ASSUME TypeOK, NEW s \in Symbols, NEW H \in SUBSET Weighted(s),
           NEW lo \in Int, NEW hi \in Int,
           \A a \in H : lo <= vote[s][a] /\ vote[s][a] <= hi
    PROVE  LET score == [a \in Weighted(s) |-> Weight[a] * vote[s][a]]
           IN  /\ SumFunctionOnSet(Weight, H) \in Int
               /\ SumFunctionOnSet(score, H) \in Int
               /\ lo * SumFunctionOnSet(Weight, H) <= SumFunctionOnSet(score, H)
               /\ SumFunctionOnSet(score, H) <= hi * SumFunctionOnSet(Weight, H)
<1> DEFINE score == [a \in Weighted(s) |-> Weight[a] * vote[s][a]]
<1>1. IsFiniteSet(H)
    BY WeightedVotes, FS_Subset
<1>2. ASSUME NEW a \in H
      PROVE  /\ score[a] \in Int /\ Weight[a] \in Int
             /\ lo * Weight[a] <= score[a] /\ score[a] <= hi * Weight[a]
    <2>1. Weight[a] \in Nat /\ vote[s][a] \in Int
        BY WeightedVotes
    <2>2. lo <= vote[s][a] /\ vote[s][a] <= hi
        BY <1>2
    <2>3. score[a] = Weight[a] * vote[s][a]
        OBVIOUS
    <2> HIDE DEF score
    <2> QED BY <2>1, <2>2, <2>3
<1> HIDE DEF score
<1>3. SumFunctionOnSet(Weight, H) \in Int /\ SumFunctionOnSet(score, H) \in Int
    BY <1>1, <1>2, SumIsInteger
<1>4. /\ lo * SumFunctionOnSet(Weight, H) <= SumFunctionOnSet(score, H)
      /\ SumFunctionOnSet(score, H) <= hi * SumFunctionOnSet(Weight, H)
    BY <1>1, <1>2, SumWithin
<1> QED BY <1>3, <1>4 DEF score

(* The sums of the consensus fall into those of some agents and the others.  *)
LEMMA SumsSplit ==
    ASSUME TypeOK, NEW s \in Symbols, NEW H \in SUBSET Weighted(s)
    PROVE  LET score == [a \in Weighted(s) |-> Weight[a] * vote[s][a]]
               others == Weighted(s) \ H
           IN  /\ TotalWeight(s) = SumFunctionOnSet(Weight, H)
                                   + SumFunctionOnSet(Weight, others)
               /\ ScoreSum(s) = SumFunctionOnSet(score, H)
                                + SumFunctionOnSet(score, others)
<1> DEFINE score == [a \in Weighted(s) |-> Weight[a] * vote[s][a]]
<1>1. \A a \in Weighted(s) : Weight[a] \in Int /\ score[a] \in Int
    <2> SUFFICES ASSUME NEW a \in Weighted(s) PROVE Weight[a] \in Int /\ score[a] \in Int
        OBVIOUS
    <2>1. Weight[a] \in Nat /\ vote[s][a] \in Nat
        BY WeightedVotes
    <2> QED BY <2>1
<1>2. IsFiniteSet(Weighted(s))
    BY WeightedVotes
<1>3. ScoreSum(s) = SumFunctionOnSet(score, Weighted(s))
    BY DEF ScoreSum
<1> HIDE DEF score
<1>4. ScoreSum(s) = SumFunctionOnSet(score, H) + SumFunctionOnSet(score, Weighted(s) \ H)
    BY <1>1, <1>2, <1>3, SumSplits
<1>5. TotalWeight(s) = SumFunctionOnSet(Weight, H) + SumFunctionOnSet(Weight, Weighted(s) \ H)
    BY <1>1, <1>2, SumSplits DEF TotalWeight
<1> QED BY <1>4, <1>5 DEF score

(* The thresholds of the consensus leave no room for neutral majorities.     *)
LEMMA ConsensusBacked ==
    ASSUME TypeOK, NEW s \in Symbols
    PROVE  /\ Consensus(s) = "BUY"  => 10 * Backing(s)  > 3 * TotalWeight(s)
           /\ Consensus(s) = "SELL" => 10 * Opposing(s) > 3 * TotalWeight(s)
<1> DEFINE score == [a \in Weighted(s) |-> Weight[a] * vote[s][a]]
           For == {a \in Weighted(s) : vote[s][a] > 50}
           Against == {a \in Weighted(s) : vote[s][a] < 50}
           W(H) == SumFunctionOnSet(Weight, H)
           F(H) == SumFunctionOnSet(score, H)
<1>1. \A a \in Weighted(s) : vote[s][a] \in 0..100
    BY WeightedVotes
<1>2. ASSUME NEW H \in SUBSET Weighted(s), NEW lo \in Int, NEW hi \in Int,
             \A a \in H : lo <= vote[s][a] /\ vote[s][a] <= hi
      PROVE  /\ W(H) \in Int /\ F(H) \in Int
             /\ lo * W(H) <= F(H) /\ F(H) <= hi * W(H)
    BY <1>2, VotesWithin
<1>3. /\ \A a \in For : 0 <= vote[s][a] /\ vote[s][a] <= 100
      /\ \A a \in Weighted(s) \ For : 0 <= vote[s][a] /\ vote[s][a] <= 50
      /\ \A a \in Against : 0 <= vote[s][a] /\ vote[s][a] <= 100
      /\ \A a \in Weighted(s) \ Against : 50 <= vote[s][a] /\ vote[s][a] <= 100
    BY <1>1
<1>4. /\ TotalWeight(s) = W(For) + W(Weighted(s) \ For)
      /\ ScoreSum(s) = F(For) + F(Weighted(s) \ For)
    BY SumsSplit
<1>5. /\ TotalWeight(s) = W(Against) + W(Weighted(s) \ Against)
      /\ ScoreSum(s) = F(Against) + F(Weighted(s) \ Against)
    BY SumsSplit
<1>6. Backing(s) = W(For) /\ Opposing(s) = W(Against)
    BY DEF Backing, Opposing
<1>7. /\ Consensus(s) = "BUY" => ScoreSum(s) > 65 * TotalWeight(s)
      /\ Consensus(s) = "SELL" => ScoreSum(s) < 35 * TotalWeight(s)
    BY DEF Consensus
<1>8. For \in SUBSET Weighted(s) /\ Against \in SUBSET Weighted(s)
    OBVIOUS
<1> HIDE DEF W, F, For, Against, score
<1>9. ScoreSum(s) > 65 * TotalWeight(s) => 10 * W(For) > 3 * TotalWeight(s)
    <2>1. W(For) \in Int /\ F(For) \in Int /\ F(For) <= 100 * W(For)
        BY <1>2, <1>3, <1>8
    <2>2. /\ W(Weighted(s) \ For) \in Int /\ F(Weighted(s) \ For) \in Int
          /\ F(Weighted(s) \ For) <= 50 * W(Weighted(s) \ For)
        BY <1>2, <1>3
    <2> QED BY <1>4, <2>1, <2>2
<1>10. ScoreSum(s) < 35 * TotalWeight(s) => 10 * W(Against) > 3 * TotalWeight(s)
    <2>1. W(Against) \in Int /\ F(Against) \in Int /\ 0 * W(Against) <= F(Against)
        BY <1>2, <1>3, <1>8
    <2>2. /\ W(Weighted(s) \ Against) \in Int /\ F(Weighted(s) \ Against) \in Int
          /\ 50 * W(Weighted(s) \ Against) <= F(Weighted(s) \ Against)
        BY <1>2, <1>3
    <2> QED BY <1>5, <2>1, <2>2
<1> QED BY <1>6, <1>7, <1>9, <1>10

(* With its votes and its signal, or without a signal, a symbol stays backed. *)
LEMMA SameVotesSameBacking ==
    ASSUME NEW s \in Symbols, vote'[s] = vote[s]
    PROVE  /\ ByRoundTable(s)' <=> ByRoundTable(s)
           /\ Backing(s)' = Backing(s) /\ Opposing(s)' = Opposing(s)
           /\ TotalWeight(s)' = TotalWeight(s)
<1>1. ByRoundTable(s)' <=> ByRoundTable(s)
    BY DEF ByRoundTable
<1>2. Weighted(s)' = Weighted(s)
    BY DEF Weighted
<1>3. TotalWeight(s)' = TotalWeight(s)
    BY <1>2 DEF TotalWeight
<1>4. Backing(s)' = Backing(s) /\ Opposing(s)' = Opposing(s)
    BY <1>2 DEF Backing, Opposing
<1> QED BY <1>1, <1>3, <1>4

LEMMA BackingKept ==
    ASSUME NEW s \in Symbols, Backed(s), vote'[s] = vote[s], signal'[s] = signal[s]
    PROVE  Backed(s)'
BY SameVotesSameBacking DEF Backed

LEMMA NoSignalIsBacked ==
    ASSUME NEW s \in Symbols, signal'[s] = "none" PROVE Backed(s)'
BY DEF Backed

LEMMA BackingInit == Init => SignalsAreBacked
BY DEF Init, SignalsAreBacked

(* A vote on s is cast when s has no signal, and it is no vote on another.   *)
LEMMA VotingKeepsBacking ==
    ASSUME TypeOK, DecisionInv, \A t \in Symbols : Backed(t),
           NEW s \in Symbols, NEW a \in Agents, NEW v \in Votes,
           Waiting(s, a), Cast(s, a, v), UNCHANGED cycleVars
    PROVE  \A t \in Symbols : Backed(t)'
<1> TAKE t \in Symbols
<1>1. signal' = signal
    BY DEF cycleVars
<1>2. CASE t = s
    <2>1. signal[s] = "none"
        BY DEF DecisionInv, SymbolInv, NothingDecided, Waiting
    <2> QED BY <1>1, <1>2, <2>1, NoSignalIsBacked
<1>3. CASE t # s
    <2>1. vote'[t] = vote[t]
        BY <1>3 DEF Cast, TypeOK
    <2> QED BY <1>1, <2>1, BackingKept
<1> QED BY <1>2, <1>3

LEMMA BackingNext ==
    TypeOK /\ DecisionInv /\ SignalsAreBacked /\ [Next]_vars => SignalsAreBacked'
<1> SUFFICES ASSUME TypeOK, DecisionInv, \A t \in Symbols : Backed(t), [Next]_vars
             PROVE  \A t \in Symbols : Backed(t)'
    BY DEF SignalsAreBacked, Backed
<1>0. UNCHANGED <<vote, signal>> => \A t \in Symbols : Backed(t)'
    BY BackingKept
<1>1. CASE StartCycle
    BY <1>1, NoSignalIsBacked DEF StartCycle
<1>2. ASSUME NEW s \in Symbols, EvaluationNext(s) PROVE \A t \in Symbols : Backed(t)'
    <2>1. ASSUME NEW m \in Models, RunStrategy(s, m) PROVE \A t \in Symbols : Backed(t)'
        BY <1>0, <2>1 DEF RunStrategy, cycleVars
    <2>2. ASSUME NEW m \in Models, ModelVotes(s, m) PROVE \A t \in Symbols : Backed(t)'
        <3>1. PICK v \in ModelScores(m) \cup {Excluded} : Cast(s, m, v)
            BY <2>2 DEF ModelVotes
        <3>2. v \in Votes /\ m \in Agents
            BY ScoresAreVotes DEF Special, Agents, Votes
        <3> QED BY <2>2, <3>1, <3>2, VotingKeepsBacking DEF ModelVotes
    <2>3. ASSUME NEW m \in Models, ModelFails(s, m) PROVE \A t \in Symbols : Backed(t)'
        <3>1. Excluded \in Votes /\ m \in Agents
            BY DEF Special, Agents, Votes
        <3> QED BY <2>3, <3>1, VotingKeepsBacking DEF ModelFails
    <2>4. ASSUME NEW a \in Advisors, AdvisorVotes(s, a) PROVE \A t \in Symbols : Backed(t)'
        <3>1. PICK v \in AdvisorScores \cup {Excluded, Lost, Malformed} : Cast(s, a, v)
            BY <2>4 DEF AdvisorVotes
        <3>2. v \in Votes /\ a \in Agents
            BY RoundTableAssumption DEF Special, Agents, Votes
        <3> QED BY <2>4, <3>1, <3>2, VotingKeepsBacking DEF AdvisorVotes
    <2>5. ASSUME NEW a \in Agents, VoteTimesOut(s, a) PROVE \A t \in Symbols : Backed(t)'
        <3>1. Lost \in Votes
            BY DEF Special, Votes
        <3> QED BY <2>5, <3>1, VotingKeepsBacking DEF VoteTimesOut
    <2>6. CASE StrategyTrades(s)
        BY <1>0, <2>6 DEF StrategyTrades, cycleVars
    <2>7. CASE Tally(s)
        <3> TAKE t \in Symbols
        <3>1. vote'[t] = vote[t]
            BY <2>7 DEF Tally
        <3>2. CASE signal'[t] = signal[t]
            BY <3>1, <3>2, BackingKept
        <3>3. CASE signal'[t] # signal[t]
            <4>1. t = s /\ signal'[t] = Consensus(t)
                BY <2>7, <3>3 DEF Tally, TypeOK
            <4> QED BY <3>1, <4>1, ConsensusBacked, SameVotesSameBacking DEF Backed
        <3> QED BY <3>2, <3>3
    <2>8. CASE FallbackEnds(s)
        <3> TAKE t \in Symbols
        <3>1. vote'[t] = vote[t]
            BY <2>8 DEF FallbackEnds
        <3>2. CASE t = s
            <4>1. ~ByRoundTable(t)
                BY <2>8, <3>2 DEF FallbackEnds, DecisionInv, SymbolInv
            <4> QED BY <3>1, <4>1, SameVotesSameBacking DEF Backed
        <3>3. CASE t # s
            <4>1. signal'[t] = signal[t]
                BY <2>8, <3>3 DEF FallbackEnds, TypeOK
            <4> QED BY <3>1, <4>1, BackingKept
        <3> QED BY <3>2, <3>3
    <2>9. CASE DispatchSignal(s)
        BY <1>0, <2>9 DEF DispatchSignal
    <2> QED BY <1>2, <2>1, <2>2, <2>3, <2>4, <2>5, <2>6, <2>7, <2>8, <2>9 DEF EvaluationNext
<1>3. CASE Tick
    BY <1>0, <1>3 DEF Tick, cycleVars
<1>4. CASE TripOrReset
    BY <1>0, <1>4 DEF TripOrReset, cycleVars
<1>5. CASE UNCHANGED vars
    BY <1>0, <1>5 DEF vars, cycleVars
<1> QED BY <1>1, <1>2, <1>3, <1>4, <1>5 DEF Next

(* Every BUY or SELL of the round table has more than 30 % of the weight     *)
(* that counts on its own side, however many agents with whatever weights    *)
(* vote, and until the next cycle.                                           *)
THEOREM SignalsAlwaysBacked == Spec => []SignalsAreBacked
BY TypeInit, TypeNext, DecisionInit, DecisionNext, BackingInit, BackingNext, PTL DEF Spec

-----------------------------------------------------------------------------
(* LocksReturned.  A model takes the lock while its vote is outstanding and  *)
(* gives it back with the vote, whatever the vote is; when a symbol is       *)
(* tallied no vote is outstanding, so that the fallback finds the lock free. *)

(* A vote on s that gives back the lock, or is cast by another than a model. *)
LEMMA VotingReturnsLocks ==
    ASSUME TypeOK, LocksReturned, NEW s \in Symbols, NEW a \in Agents, NEW v,
           Waiting(s, a), Cast(s, a, v), UNCHANGED phase,
           Unlock(s, a) \/ (a \notin Models /\ UNCHANGED lock)
    PROVE  LocksReturned'
<1> SUFFICES ASSUME NEW t \in Symbols, lock'[t] # Nobody
             PROVE  \/ lock'[t] = Fallback /\ phase'[t] = "fallback"
                    \/ /\ lock'[t] \in Models
                       /\ phase'[t] = "voting" /\ vote'[t][lock'[t]] = Asked
    BY DEF LocksReturned, Waiting
<1>1. lock'[t] = lock[t] /\ (t = s => lock[t] # a)
    <2>1. CASE Unlock(s, a)
        BY <2>1 DEF Unlock, TypeOK
    <2>2. CASE a \notin Models /\ UNCHANGED lock
        <3>1. t = s => lock[t] \in Models
            BY <2>2 DEF LocksReturned, Waiting
        <3> QED BY <2>2, <3>1
    <2> QED BY <2>1, <2>2
<1>2. \/ lock[t] = Fallback /\ phase[t] = "fallback"
      \/ lock[t] \in Models /\ Waiting(t, lock[t])
    BY <1>1 DEF LocksReturned
<1>3. \A b \in Agents : t # s \/ b # a => vote'[t][b] = vote[t][b]
    BY DEF Cast, TypeOK
<1> QED BY <1>1, <1>2, <1>3 DEF Waiting, Agents

LEMMA LocksNext == TypeOK /\ LocksReturned /\ [Next]_vars => LocksReturned'
<1> SUFFICES ASSUME TypeOK, LocksReturned, [Next]_vars PROVE LocksReturned'
    OBVIOUS
<1>0. UNCHANGED <<phase, vote, lock>> => LocksReturned'
    BY DEF LocksReturned, Waiting
<1>1. CASE StartCycle
    BY <1>1 DEF StartCycle, LocksReturned, Waiting
<1>2. ASSUME NEW s \in Symbols, EvaluationNext(s) PROVE LocksReturned'
    <2>1. ASSUME NEW m \in Models, RunStrategy(s, m) PROVE LocksReturned'
        BY <2>1 DEF RunStrategy, LocksReturned, Waiting, TypeOK, cycleVars
    <2>2. ASSUME NEW m \in Models, ModelVotes(s, m) PROVE LocksReturned'
        BY <2>2, VotingReturnsLocks DEF ModelVotes, Agents, cycleVars
    <2>3. ASSUME NEW m \in Models, ModelFails(s, m) PROVE LocksReturned'
        BY <2>3, VotingReturnsLocks DEF ModelFails, Agents, cycleVars
    <2>4. ASSUME NEW a \in Advisors, AdvisorVotes(s, a) PROVE LocksReturned'
        BY <2>4, VotingReturnsLocks, RoundTableAssumption
        DEF AdvisorVotes, Agents, cycleVars
    <2>5. ASSUME NEW a \in Agents, VoteTimesOut(s, a) PROVE LocksReturned'
        BY <2>5, VotingReturnsLocks DEF VoteTimesOut, cycleVars
    <2>6. CASE StrategyTrades(s)
        BY <1>0, <2>6 DEF StrategyTrades, cycleVars
    <2>7. CASE Tally(s)
        <3>1. phase[s] = "voting" /\ lock[s] = Nobody
            BY <2>7 DEF Tally, LocksReturned, Waiting, Agents
        <3> QED BY <2>7, <3>1 DEF Tally, LocksReturned, Waiting, TypeOK
    <2>8. CASE FallbackEnds(s)
        BY <2>8, RoundTableAssumption
        DEF FallbackEnds, Unlock, LocksReturned, Waiting, TypeOK
    <2>9. CASE DispatchSignal(s)
        BY <2>9 DEF DispatchSignal, LocksReturned, Waiting, TypeOK
    <2> QED BY <1>2, <2>1, <2>2, <2>3, <2>4, <2>5, <2>6, <2>7, <2>8, <2>9 DEF EvaluationNext
<1>3. CASE Tick
    BY <1>0, <1>3 DEF Tick, cycleVars
<1>4. CASE TripOrReset
    BY <1>0, <1>4 DEF TripOrReset, cycleVars
<1>5. CASE UNCHANGED vars
    BY <1>0, <1>5 DEF vars, cycleVars
<1> QED BY <1>1, <1>2, <1>3, <1>4, <1>5 DEF Next

(* No strategy keeps the lock of a symbol beyond its vote or its fallback,   *)
(* whoever fails, times out or answers nothing.                              *)
THEOREM LocksAlwaysReturned == Spec => []LocksReturned
<1>1. Init => LocksReturned
    BY DEF Init, LocksReturned
<1> QED BY <1>1, TypeInit, TypeNext, LocksNext, PTL DEF Spec

=============================================================================
