-------------------------- MODULE SafeguardsProofs --------------------------
(***************************************************************************)
(* The safeguards, for any capital, limit, course of the equity and        *)
(* thresholds: types, sizes that follow the drawdown, the finality of the  *)
(* portfolio stop, and, for one trading loop at a time, the threshold of   *)
(* the cycle watchdog.                                                     *)
(***************************************************************************)
EXTENDS Safeguards, TLAPS

(* What a step of the watchdogs leaves alone.                                *)
LEMMA DogStepFrame == DogStep => UNCHANGED riskVars
BY DEF DogStep

(* Every variable keeps its type.                                            *)
THEOREM TypeCorrect == Spec => []TypeOK
<1>1. Init => TypeOK
  <2>1. RM!Init => RM!RiskTypeOK
    BY SafeguardsAssumption DEF RM!Init, RM!RiskTypeOK
  <2>2. Dogs!Init => Dogs!DogsTypeOK
    BY SafeguardsAssumption DEF Dogs!Init, Dogs!DogsTypeOK
  <2> QED
    BY <2>1, <2>2 DEF Init, TypeOK
<1>2. TypeOK /\ [Next]_vars => TypeOK'
  <2> SUFFICES ASSUME TypeOK, [Next]_vars PROVE TypeOK'
    OBVIOUS
  <2> USE DEF TypeOK, RM!RiskTypeOK, Dogs!DogsTypeOK, Callers
  <2>1. CASE RiskStep
    <3>1. UNCHANGED dogVars
      BY <2>1 DEF RiskStep
    <3>2. ASSUME RM!UpdateEquity PROVE TypeOK'
      BY <3>1, <3>2 DEF RM!UpdateEquity, RM!UnlockAt, RM!ReducedAt, RM!Opens,
         RM!BreakerFires, RM!StopFires, RM!StopReached, dogVars
    <3>3. ASSUME RM!MarketMoves PROVE TypeOK'
      BY <3>1, <3>3 DEF RM!MarketMoves, RM!state, dogVars
    <3>4. ASSUME RM!HoursPass PROVE TypeOK'
      BY <3>1, <3>4 DEF RM!HoursPass, RM!account, dogVars
    <3> QED
      BY <2>1, <3>2, <3>3, <3>4 DEF RiskStep, RM!RiskNext
  <2>2. CASE DogStep
    <3>1. UNCHANGED riskVars
      BY <2>2 DEF DogStep
    <3> DEFINE Typed == /\ Dogs!DogsTypeOK
                        /\ halted \in BOOLEAN
                        /\ resetting \subseteq Callers
    <3> USE SafeguardsAssumption DEF Dogs!Goto
    <3>1a. ASSUME NEW l \in Loops, Dogs!Start(l) PROVE Typed'
      <4>1. CASE halted
        BY <3>1a, <4>1 DEF Dogs!Start, Dogs!Release
      <4>2. CASE ~halted
        BY <3>1a, <4>2 DEF Dogs!Start
      <4> QED
        BY <4>1, <4>2
    <3>2. ASSUME NEW l \in Loops, Dogs!Launch(l) PROVE Typed'
      BY <3>2 DEF Dogs!Launch
    <3>3. ASSUME NEW l \in Loops, \/ Dogs!Gate(l) \/ Dogs!IdleCycle(l)
                                  \/ Dogs!FullCycle(l) \/ Dogs!GoesOn(l)
          PROVE Typed'
      BY <3>3 DEF Dogs!Gate, Dogs!IdleCycle, Dogs!FullCycle, Dogs!GoesOn
    <3>4. ASSUME NEW l \in Loops, Dogs!EmptyCycle(l) PROVE Typed'
      BY <3>4 DEF Dogs!EmptyCycle
    <3>5. ASSUME NEW l \in Loops, Dogs!Compare(l) PROVE Typed'
      <4>1. halted' \in BOOLEAN
        BY <3>5, Zenon DEF Dogs!Compare
      <4> QED
        BY <3>5, <4>1 DEF Dogs!Compare
    <3>6. ASSUME NEW l \in Loops, Dogs!MLError(l) \/ Dogs!MLSuccess(l) PROVE Typed'
      <4>1. halted' \in BOOLEAN
        BY <3>6, Zenon DEF Dogs!MLError, Dogs!MLSuccess
      <4> QED
        BY <3>6, <4>1 DEF Dogs!MLError, Dogs!MLSuccess
    <3>7. ASSUME Dogs!ResetHandler \/ Dogs!TripElsewhere PROVE Typed'
      BY <3>7 DEF Dogs!ResetHandler, Dogs!Release, Dogs!TripElsewhere, Dogs!dogVars
    <3>8. ASSUME Dogs!Tick PROVE Typed'
      BY <3>8 DEF Dogs!Tick
    <3>9. Typed'
      BY <2>2, <3>1a, <3>2, <3>3, <3>4, <3>5, <3>6, <3>7, <3>8
         DEF DogStep, Dogs!DogsNext, Dogs!LoopNext
    <3> QED
      BY <3>1, <3>9 DEF riskVars
  <2>3. CASE ResetStep
    BY <2>3, SafeguardsAssumption DEF ResetStep, Dogs!ResetWatchdog, riskVars
  <2>4. CASE UNCHANGED vars
    BY <2>4 DEF vars, riskVars, dogVars
  <2> QED
    BY <2>1, <2>2, <2>3, <2>4 DEF Next
<1> QED
  BY <1>1, <1>2, PTL DEF Spec

(* What a reader of sizes needs to know of the risk manager: the tiers are   *)
(* in force as of the last update, and a portfolio stop halts.               *)
Tiers ==
    /\ RM!Above(peak - seen, 6) => reduced \/ tradingHalted
    /\ RM!Above(peak - seen, 10) => tradingHalted
    /\ portfolioStop => tradingHalted

(* An update puts the tiers in force: it opens trading only below half of    *)
(* the limit.                                                                *)
LEMMA UpdateKeepsTiers ==
    ASSUME TypeOK, Tiers, RM!UpdateEquity
    PROVE  Tiers'
<1> DEFINE d == peak' - equity
<1> USE DEF TypeOK, RM!RiskTypeOK
<1>1. /\ d \in Int /\ Limit \in Nat \ {0}
      /\ peak' - seen' = d
  BY SafeguardsAssumption DEF RM!UpdateEquity
<1>2. /\ tradingHalted' = ((tradingHalted \/ RM!StopFires \/ RM!BreakerFires(d)) /\ ~RM!Opens(d))
      /\ reduced' = (RM!ReducedAt(d) /\ ~RM!Opens(d))
      /\ portfolioStop' = (portfolioStop \/ RM!StopReached)
  BY Zenon DEF RM!UpdateEquity
<1>3. RM!Above(d, 10) => RM!Above(d, 6)
  BY <1>1 DEF RM!Above
<1>4. RM!Opens(d) => /\ ~RM!Above(d, 6)
                     /\ ~portfolioStop' 
  <2> SUFFICES ASSUME RM!Opens(d) PROVE ~RM!Above(d, 6) /\ ~portfolioStop'
    OBVIOUS
  <2>1. RM!UnlockAt(d) \in {2, 3, 5} /\ ~RM!Above(d, RM!UnlockAt(d))
    BY DEF RM!Opens, RM!UnlockAt
  <2>2. ~RM!Above(d, 6)
    BY <1>1, <2>1 DEF RM!Above
  <2>3. ~portfolioStop'
    BY <1>2 DEF RM!Opens, RM!StopFires
  <2> QED
    BY <2>2, <2>3
<1>5. RM!Above(peak - seen, 6)' = RM!Above(d, 6) /\ RM!Above(peak - seen, 10)' = RM!Above(d, 10)
  BY <1>1 DEF RM!Above
<1>6. RM!Above(d, 6) => reduced' \/ tradingHalted'
  BY <1>2, <1>4, Zenon DEF RM!ReducedAt
<1>7. RM!Above(d, 10) => tradingHalted'
  BY <1>2, <1>3, <1>4, Zenon DEF RM!BreakerFires
<1>8. portfolioStop' => tradingHalted'
  BY <1>2, <1>4, Zenon DEF RM!StopFires, Tiers
<1> QED
  BY <1>5, <1>6, <1>7, <1>8 DEF Tiers

LEMMA TiersHold == Spec => []Tiers
<1>1. Init => Tiers
  BY SafeguardsAssumption DEF Init, RM!Init, Tiers, RM!Above
<1>2. TypeOK /\ Tiers /\ [Next]_vars => Tiers'
  <2> SUFFICES ASSUME TypeOK, Tiers, [Next]_vars PROVE Tiers'
    OBVIOUS
  <2>1. CASE RiskStep
    <3>1. CASE RM!UpdateEquity
      BY <3>1, UpdateKeepsTiers
    <3>2. CASE RM!MarketMoves
      BY <3>2 DEF RM!MarketMoves, RM!state, Tiers, RM!Above
    <3>3. CASE RM!HoursPass
      BY <3>3 DEF RM!HoursPass, RM!account, Tiers, RM!Above
    <3> QED
      BY <2>1, <3>1, <3>2, <3>3 DEF RiskStep, RM!RiskNext
  <2>2. CASE UNCHANGED riskVars
    BY <2>2 DEF riskVars, Tiers, RM!Above
  <2> QED
    BY <2>1, <2>2, DogStepFrame DEF Next, ResetStep, vars
<1> QED
  BY <1>1, <1>2, TypeCorrect, PTL DEF Spec

(* Sizes follow the drawdown that was seen last.                             *)
THEOREM ExposureFollows == Spec => []ExposureFollowsDrawdown
<1>1. TypeOK /\ Tiers => ExposureFollowsDrawdown
  BY DEF TypeOK, RM!RiskTypeOK, Tiers, ExposureFollowsDrawdown,
     RM!ExposureFollowsDrawdown, RM!SizePercent
<1> QED
  BY <1>1, TypeCorrect, TiersHold, PTL

(* After the portfolio stop this risk manager never sizes a position again.  *)
THEOREM StopFinal == Spec => []StopIsFinal
<1>1. Tiers => StopIsFinal
  BY DEF Tiers, StopIsFinal, RM!StopIsFinal, RM!SizePercent
<1> QED
  BY <1>1, TiersHold, PTL

-----------------------------------------------------------------------------

(* A counter above the threshold never lost its halt, also at a comparison.  *)
Counted == EmptyCyclesHalt /\ (empty > KillAt => halted \/ resetting # {})

(* With one trading loop at a time, a counter at the threshold halts.        *)
THEOREM EmptyCyclesKill ==
    ASSUME \A l, m \in Loops : l = m
    PROVE  Spec => []EmptyCyclesHalt
<1>1. Init => Counted
  BY SafeguardsAssumption DEF Init, Dogs!Init, Counted, EmptyCyclesHalt, Dogs!EmptyCyclesHalt
<1>2. TypeOK /\ Counted /\ [Next]_vars => Counted'
  <2> SUFFICES ASSUME TypeOK, Counted, [Next]_vars PROVE Counted'
    OBVIOUS
  <2> USE SafeguardsAssumption
      DEF TypeOK, Dogs!DogsTypeOK, Counted, EmptyCyclesHalt, Dogs!EmptyCyclesHalt, Dogs!Goto
  <2>1. CASE RiskStep
    BY <2>1 DEF RiskStep, dogVars, RM!RiskNext, RM!UpdateEquity, RM!MarketMoves, RM!HoursPass
  <2>2. CASE DogStep
    <3>1. ASSUME NEW l \in Loops, Dogs!Start(l) \/ Dogs!Launch(l) PROVE Counted'
      BY <3>1 DEF Dogs!Start, Dogs!Launch, Dogs!Release
    <3>2. ASSUME NEW l \in Loops, \/ Dogs!Gate(l) \/ Dogs!IdleCycle(l)
                                  \/ Dogs!FullCycle(l) \/ Dogs!GoesOn(l)
          PROVE Counted'
      BY <3>2 DEF Dogs!Gate, Dogs!IdleCycle, Dogs!FullCycle, Dogs!GoesOn
    <3>3. ASSUME NEW l \in Loops, Dogs!EmptyCycle(l) PROVE Counted'
      BY <3>3 DEF Dogs!EmptyCycle
    <3>4. ASSUME NEW l \in Loops, Dogs!Compare(l) PROVE Counted'
      <4>1. UNCHANGED <<empty, resetting>> /\ halted' = (halted \/ empty = KillAt)
        BY <3>4 DEF Dogs!Compare
      <4>2. empty = KillAt \/ empty > KillAt \/ ~(empty >= KillAt)
        OBVIOUS
      <4>3. empty >= KillAt => halted' \/ resetting' # {}
        BY <4>1, <4>2, Zenon
      <4>4. empty > KillAt => empty >= KillAt
        OBVIOUS
      <4> QED
        BY <4>1, <4>3, <4>4, Zenon
    <3>5. ASSUME NEW l \in Loops, Dogs!MLError(l) \/ Dogs!MLSuccess(l) PROVE Counted'
      BY <3>5 DEF Dogs!MLError, Dogs!MLSuccess
    <3>6. CASE Dogs!ResetHandler \/ Dogs!TripElsewhere \/ Dogs!Tick
      BY <3>6 DEF Dogs!ResetHandler, Dogs!Release, Dogs!TripElsewhere, Dogs!Tick, Dogs!dogVars
    <3> QED
      BY <2>2, <3>1, <3>2, <3>3, <3>4, <3>5, <3>6 DEF DogStep, Dogs!DogsNext, Dogs!LoopNext
  <2>3. CASE ResetStep
    BY <2>3 DEF ResetStep, Dogs!ResetWatchdog
  <2>4. CASE UNCHANGED vars
    BY <2>4 DEF vars, dogVars
  <2> QED
    BY <2>1, <2>2, <2>3, <2>4 DEF Next
<1>3. Counted => EmptyCyclesHalt
  BY DEF Counted
<1> QED
  BY <1>1, <1>2, <1>3, TypeCorrect, PTL DEF Spec

=============================================================================
