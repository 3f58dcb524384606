-------------------------- MODULE TradeGuardsProofs --------------------------
(***************************************************************************)
(* Proofs about the guards of a strategy's trades: types, the daily limit  *)
(* and the hold period of signalled sales, for any number of loops and     *)
(* other symbols, every limit and every threshold.                         *)
(***************************************************************************)
EXTENDS TradeGuards, FiniteSetTheorems, TLAPS

(* Every buy recorded is one of the trades, as long as they are told apart;  *)
(* each buy on its way was let through while there was room for one.         *)
BuysCounted ==
    /\ trades <= MaxTrades => buys <= trades
    /\ BuysPerDay

(* The strategy never counts more SELL signals than there were. *)
SignalsCounted == sells <= streak

Inv == TypeOK /\ BuysCounted /\ SignalsCounted

LEMMA Numbers ==
    /\ MaxTrades \in Nat /\ MaxTrades >= 1 /\ MaxTrades + 1 \in Nat
    /\ Threshold \in Nat /\ Threshold >= 1
    /\ Cardinality(Loops) \in Nat /\ Cardinality(Loops) >= 1
<1>1. Cardinality(Loops) \in Nat /\ Cardinality(Loops) # 0
  BY TradeGuardsAssumption, FS_CardinalityType, FS_EmptySet
<1>. QED
  BY <1>1, TradeGuardsAssumption

(* The loops on their way to a buy are at most as many as there are. *)
LEMMA BuyingFinite ==
    /\ IsFiniteSet(Buying) /\ Cardinality(Buying) \in Nat
    /\ Cardinality(Buying) <= Cardinality(Loops)
BY TradeGuardsAssumption, FS_Subset, FS_CardinalityType DEF Buying

LEMMA BuyingFiniteNext ==
    /\ IsFiniteSet(Buying') /\ Cardinality(Buying') \in Nat
    /\ Cardinality(Buying') <= Cardinality(Loops)
BY TradeGuardsAssumption, FS_Subset, FS_CardinalityType DEF Buying

LEMMA FewerBuying ==
    ASSUME Buying' \subseteq Buying
    PROVE  Cardinality(Buying') <= Cardinality(Buying)
BY BuyingFinite, FS_Subset

(* Where the evaluation of a loop goes when it takes a step. *)
LEMMA MoveBuying ==
    ASSUME TypeOK, NEW l \in Loops, NEW from, NEW to, Moves(l, from, to),
           to \in {"buying", "buy", "bought"} => own[l] \in {"buying", "buy", "bought"}
    PROVE  Buying' \subseteq Buying
BY DEF TypeOK, Moves, Buying

LEMMA InitInv == Init => Inv
<1>. SUFFICES ASSUME Init PROVE Inv
  OBVIOUS
<1>1. /\ trades \in 0..(MaxTrades + 1) /\ sells \in 0..Threshold /\ streak \in 0..Threshold
      /\ buys \in Nat /\ buys <= trades /\ SignalsCounted
  BY Numbers DEF Init, SignalsCounted
<1>2. held \in BOOLEAN /\ fresh \in BOOLEAN /\ open \subseteq Sides /\ recent \subseteq Sides
  BY Zenon DEF Init
<1>3. BuysPerDay
  BY Numbers, BuyingFinite DEF Init, BuysPerDay
<1>. QED
  BY <1>1, <1>2, <1>3 DEF Init, Inv, TypeOK, BuysCounted

LEMMA CappedType ==
    ASSUME NEW n \in Nat, NEW max \in Nat
    PROVE  Capped(n + 1, max) \in 0..max /\ (n + 1 <= max => Capped(n + 1, max) = n + 1)
                                        /\ (max < n + 1 => Capped(n + 1, max) = max)
BY DEF Capped

LEMMA RecordTradeType ==
    ASSUME Inv, RecordTrade
    PROVE  /\ trades' \in 0..(MaxTrades + 1) /\ fresh' \in BOOLEAN
           /\ trades' <= MaxTrades => buys + 1 <= trades'
<1>1. trades \in Nat /\ buys \in Nat /\ (trades <= MaxTrades => buys <= trades)
  BY DEF Inv, TypeOK, BuysCounted
<1>2. trades' = Capped(trades + 1, MaxTrades + 1) /\ fresh' \in BOOLEAN
  BY DEF RecordTrade
<1>. QED
  BY <1>1, <1>2, CappedType, Numbers

LEMMA CountSellType ==
    ASSUME Inv, CountSell
    PROVE  sells' \in 0..Threshold /\ streak' \in 0..Threshold /\ sells' <= streak'
<1>1. sells \in Nat /\ streak \in Nat /\ Threshold \in Nat /\ sells <= streak
  BY Numbers DEF Inv, TypeOK, SignalsCounted
<1>. QED
  BY <1>1 DEF CountSell, Capped

LEMMA ApproveType ==
    ASSUME Inv, NEW side \in Sides, Refuse(side) \/ Approve(side)
    PROVE  recent' \subseteq Sides
BY DEF Inv, TypeOK, Refuse, Approve

(* Steps that touch no number of the manager and bring no loop closer to a   *)
(* buy keep what the numbers promise.                                        *)
LEMMA NumbersKept ==
    ASSUME Inv, TypeOK', Buying' \subseteq Buying,
           trades' = trades, buys' = buys, sells' <= streak'
    PROVE  Inv'
<1>1. Cardinality(Buying') <= Cardinality(Buying)
  BY FewerBuying
<1>. QED
  BY <1>1, Numbers, BuyingFinite, BuyingFiniteNext
     DEF Inv, TypeOK, BuysCounted, BuysPerDay, SignalsCounted

(* A trade that is not a buy. *)
LEMMA TradeRecorded ==
    ASSUME Inv, TypeOK', Buying' \subseteq Buying,
           RecordTrade, buys' = buys, sells' <= streak'
    PROVE  Inv'
<1>1. Cardinality(Buying') <= Cardinality(Buying)
  BY FewerBuying
<1>2. trades' <= MaxTrades => buys + 1 <= trades'
  BY RecordTradeType
<1>. QED
  BY <1>1, <1>2, Numbers, BuyingFinite, BuyingFiniteNext
     DEF Inv, TypeOK, BuysCounted, BuysPerDay, SignalsCounted

-----------------------------------------------------------------------------

LEMMA SellStepInv ==
    ASSUME Inv, NEW l \in Loops, SellStep(l)
    PROVE  Inv'
<1>. USE DEF manager, broker
<1>1. ASSUME SellCounted(l) PROVE Inv'
  <2>1. sells' \in 0..Threshold /\ streak' \in 0..Threshold /\ sells' <= streak'
    BY <1>1, CountSellType DEF SellCounted
  <2>2. Buying' \subseteq Buying
    BY <1>1, MoveBuying DEF SellCounted, Inv
  <2>3. TypeOK'
    BY <1>1, <2>1 DEF SellCounted, Moves, Inv, TypeOK
  <2>. QED
    BY <1>1, <2>1, <2>2, <2>3, NumbersKept DEF SellCounted
<1>2. ASSUME SellSent(l) PROVE Inv'
  <2>1. recent' \subseteq Sides
    BY <1>2, ApproveType DEF SellSent, Sides
  <2>2. Buying' \subseteq Buying
    BY <1>2, MoveBuying DEF SellSent, Inv
  <2>3. TypeOK'
    BY <1>2, <2>1 DEF SellSent, Moves, Inv, TypeOK
  <2>. QED
    BY <1>2, <2>2, <2>3, NumbersKept DEF SellSent, Inv, SignalsCounted
<1>3. ASSUME OwnAccepted(l) PROVE Inv'
  <2>1. Buying' \subseteq Buying
    BY <1>3, MoveBuying DEF OwnAccepted, Inv, Moves
  <2>2. TypeOK'
    BY <1>3 DEF OwnAccepted, Moves, Inv, TypeOK, Sides
  <2>. QED
    BY <1>3, <2>1, <2>2, NumbersKept DEF OwnAccepted, Inv, SignalsCounted
<1>4. ASSUME SellRecorded(l) PROVE Inv'
  <2>1. trades' \in 0..(MaxTrades + 1) /\ fresh' \in BOOLEAN
    BY <1>4, RecordTradeType DEF SellRecorded
  <2>2. Buying' \subseteq Buying
    BY <1>4, MoveBuying DEF SellRecorded, Inv
  <2>3. TypeOK'
    BY <1>4, <2>1 DEF SellRecorded, Moves, Inv, TypeOK
  <2>. QED
    BY <1>4, <2>2, <2>3, TradeRecorded DEF SellRecorded, Inv, SignalsCounted
<1>5. ASSUME SignalsCleared(l) PROVE Inv'
  <2>1. Buying' \subseteq Buying
    BY <1>5, MoveBuying DEF SignalsCleared, Inv
  <2>2. TypeOK'
    BY <1>5, Numbers DEF SignalsCleared, Moves, Inv, TypeOK
  <2>. QED
    BY <1>5, <2>1, <2>2, NumbersKept DEF SignalsCleared
<1>. QED
  BY <1>1, <1>2, <1>3, <1>4, <1>5 DEF SellStep

(* The test of the daily limit: it lets one more loop through. *)
LEMMA BuyInv ==
    ASSUME Inv, NEW l \in Loops, Buy(l)
    PROVE  Inv'
<1>1. TypeOK' /\ trades' = trades /\ buys' = buys /\ sells' = 0 /\ streak' = streak
  BY Numbers DEF Buy, Moves, Inv, TypeOK, broker
<1>2. buys < MaxTrades /\ buys \in Nat
  BY Numbers DEF Buy, CanOpen, Inv, TypeOK, BuysCounted
<1>3. BuysPerDay'
  BY <1>1, <1>2, Numbers, BuyingFiniteNext DEF BuysPerDay
<1>. QED
  BY <1>1, <1>3 DEF Inv, TypeOK, BuysCounted, SignalsCounted

(* A buy that is recorded is no longer on its way. *)
LEMMA BuyRecordedInv ==
    ASSUME Inv, NEW l \in Loops, BuyRecorded(l)
    PROVE  Inv'
<1>1. /\ trades' \in 0..(MaxTrades + 1) /\ fresh' \in BOOLEAN
      /\ trades' <= MaxTrades => buys + 1 <= trades'
  BY RecordTradeType DEF BuyRecorded
<1>2. TypeOK' /\ buys' = buys + 1 /\ sells' = sells /\ streak' = streak
  BY <1>1 DEF BuyRecorded, Moves, Inv, TypeOK, broker
<1>3. l \in Buying /\ Buying' = Buying \ {l}
  BY DEF BuyRecorded, Moves, Buying, Inv, TypeOK
<1>4. Cardinality(Buying') = Cardinality(Buying) - 1
  BY <1>3, BuyingFinite, FS_RemoveElement
<1>5. BuysPerDay'
  BY <1>2, <1>4, Numbers, BuyingFinite DEF BuysPerDay, Inv, TypeOK, BuysCounted
<1>. QED
  BY <1>1, <1>2, <1>5 DEF Inv, TypeOK, BuysCounted, SignalsCounted

LEMMA EvaluationInv ==
    ASSUME Inv, NEW l \in Loops, EvaluationStep(l)
    PROVE  Inv'
<1>. USE DEF manager, broker
<1>. DEFINE Quiet == /\ TypeOK' /\ Buying' \subseteq Buying
                     /\ trades' = trades /\ buys' = buys /\ sells' <= streak'
<1>q. Quiet => Inv'
  BY NumbersKept
<1>1. ASSUME ReadPosition(l) PROVE Quiet
  <2>1. Buying' \subseteq Buying
    BY <1>1, MoveBuying DEF ReadPosition, Inv
  <2>. QED
    BY <1>1, <2>1 DEF ReadPosition, Moves, Inv, TypeOK, SignalsCounted
<1>2. ASSUME NoTrade(l) PROVE Quiet
  <2>1. Buying' \subseteq Buying
    BY <1>2, MoveBuying DEF NoTrade, Inv
  <2>. QED
    BY <1>2, <2>1 DEF NoTrade, Moves, Inv, TypeOK, SignalsCounted
<1>3. ASSUME Hold(l) PROVE Quiet
  <2>1. Buying' \subseteq Buying
    BY <1>3, MoveBuying DEF Hold, Inv
  <2>. QED
    BY <1>3, <2>1, Numbers DEF Hold, Moves, Inv, TypeOK
<1>4. ASSUME SellRefused(l) PROVE Quiet
  <2>1. recent' \subseteq Sides
    BY <1>4, ApproveType DEF SellRefused, Sides
  <2>2. Buying' \subseteq Buying
    BY <1>4, MoveBuying DEF SellRefused, Inv
  <2>. QED
    BY <1>4, <2>1, <2>2 DEF SellRefused, Moves, Inv, TypeOK, SignalsCounted
<1>5. ASSUME BuyRefused(l) PROVE Quiet
  <2>1. recent' \subseteq Sides
    BY <1>5, ApproveType DEF BuyRefused, Sides
  <2>2. Buying' \subseteq Buying
    BY <1>5, MoveBuying DEF BuyRefused, Inv
  <2>. QED
    BY <1>5, <2>1, <2>2 DEF BuyRefused, Moves, Inv, TypeOK, SignalsCounted
<1>6. ASSUME BuySent(l) PROVE Quiet
  <2>1. recent' \subseteq Sides
    BY <1>6, ApproveType DEF BuySent, Sides
  <2>2. Buying' \subseteq Buying
    BY <1>6, MoveBuying DEF BuySent, Inv, Moves
  <2>. QED
    BY <1>6, <2>1, <2>2 DEF BuySent, Moves, Inv, TypeOK, SignalsCounted
<1>7. ASSUME OwnRejected(l) PROVE Quiet
  <2>1. Buying' \subseteq Buying
    BY <1>7, MoveBuying DEF OwnRejected, Inv
  <2>. QED
    BY <1>7, <2>1 DEF OwnRejected, Moves, Inv, TypeOK, SignalsCounted
<1>8. ASSUME OwnCancelled(l) PROVE Quiet
  <2>1. Buying' \subseteq Buying
    BY <1>8, MoveBuying DEF OwnCancelled, Inv
  <2>. QED
    BY <1>8, <2>1 DEF OwnCancelled, Moves, Inv, TypeOK, SignalsCounted, Sides
<1>. HIDE DEF Quiet
<1>. QED
  BY <1>q, <1>1, <1>2, <1>3, <1>4, <1>5, <1>6, <1>7, <1>8, SellStepInv, BuyInv, BuyRecordedInv
     DEF EvaluationStep

LEMMA SwapInv ==
    ASSUME Inv, NEW o \in Others, SwapStep(o)
    PROVE  Inv'
<1>. USE DEF manager, broker
<1>1. Buying' \subseteq Buying
  BY DEF SwapStep, SwapSent, SwapRefused, SwapAccepted, SwapRecorded, SwapCancelled, Buying
<1>2. ASSUME SwapSent(o) PROVE Inv'
  <2>1. recent' \subseteq Sides
    BY <1>2, ApproveType DEF SwapSent, Sides
  <2>2. TypeOK'
    BY <1>2, <2>1 DEF SwapSent, SwapMoves, Inv, TypeOK
  <2>. QED
    BY <1>1, <1>2, <2>2, NumbersKept DEF SwapSent, Inv, SignalsCounted
<1>3. ASSUME SwapRefused(o) PROVE Inv'
  <2>1. recent' \subseteq Sides
    BY <1>3, ApproveType DEF SwapRefused, Sides
  <2>2. trades' \in 0..(MaxTrades + 1) /\ fresh' \in BOOLEAN
    BY <1>3, RecordTradeType DEF SwapRefused
  <2>3. TypeOK'
    BY <1>3, <2>1, <2>2 DEF SwapRefused, Inv, TypeOK
  <2>. QED
    BY <1>1, <1>3, <2>3, TradeRecorded DEF SwapRefused, Inv, SignalsCounted
<1>4. ASSUME SwapAccepted(o) PROVE Inv'
  <2>1. TypeOK'
    BY <1>4 DEF SwapAccepted, SwapMoves, Inv, TypeOK, Sides
  <2>. QED
    BY <1>1, <1>4, <2>1, NumbersKept DEF SwapAccepted, Inv, SignalsCounted
<1>5. ASSUME SwapRecorded(o) PROVE Inv'
  <2>1. trades' \in 0..(MaxTrades + 1) /\ fresh' \in BOOLEAN
    BY <1>5, RecordTradeType DEF SwapRecorded
  <2>2. TypeOK'
    BY <1>5, <2>1 DEF SwapRecorded, SwapMoves, Inv, TypeOK
  <2>. QED
    BY <1>1, <1>5, <2>2, TradeRecorded DEF SwapRecorded, Inv, SignalsCounted
<1>6. ASSUME SwapCancelled(o) PROVE Inv'
  <2>1. TypeOK'
    BY <1>6 DEF SwapCancelled, SwapMoves, Inv, TypeOK, Sides
  <2>. QED
    BY <1>1, <1>6, <2>1, NumbersKept DEF SwapCancelled, Inv, SignalsCounted
<1>. QED
  BY <1>2, <1>3, <1>4, <1>5, <1>6 DEF SwapStep

(* A portfolio manager starts with nothing counted; no loop buys with it yet. *)
LEMMA RebuildInv ==
    ASSUME Inv, Rebuild
    PROVE  Inv'
<1>1. TypeOK'
  <2>1. fresh' \in BOOLEAN
    BY Zenon DEF Rebuild
  <2>2. /\ trades' \in 0..(MaxTrades + 1) /\ sells' \in 0..Threshold
        /\ streak' \in 0..Threshold /\ buys' \in Nat
    BY Numbers DEF Rebuild
  <2>3. held' \in BOOLEAN /\ open' \subseteq Sides /\ recent' \subseteq Sides
    BY DEF Rebuild, Inv, TypeOK, broker
  <2>4. own' \in [Loops -> {"idle", "old"}] /\ swap' \in [Others -> {"idle", "old"}]
    BY DEF Rebuild
  <2>. QED
    BY <2>1, <2>2, <2>3, <2>4 DEF TypeOK
<1>2. buys' = 0 /\ trades' = 0 /\ sells' = 0 /\ streak' = 0
  BY DEF Rebuild
<1>3. BuysPerDay'
  BY <1>2, Numbers, BuyingFiniteNext DEF BuysPerDay
<1>. QED
  BY <1>1, <1>2, <1>3 DEF Inv, BuysCounted, SignalsCounted

LEMMA OldInv ==
    ASSUME Inv, OldStep
    PROVE  Inv'
<1>. USE DEF manager, broker
<1>1. ASSUME OldApproved PROVE Inv'
  <2>1. recent' \subseteq Sides
    BY <1>1, ApproveType DEF OldApproved, OldSides, Sides
  <2>2. TypeOK' /\ Buying' \subseteq Buying
    BY <1>1, <2>1 DEF OldApproved, Inv, TypeOK, Buying
  <2>. QED
    BY <1>1, <2>2, NumbersKept DEF OldApproved, Inv, SignalsCounted
<1>2. ASSUME OldAccepted PROVE Inv'
  <2>1. TypeOK' /\ Buying' \subseteq Buying
    BY <1>2 DEF OldAccepted, OldSides, Sides, Inv, TypeOK, Buying
  <2>. QED
    BY <1>2, <2>1, NumbersKept DEF OldAccepted, Inv, SignalsCounted
<1>3. ASSUME NEW l \in Loops, OldEnds(l) PROVE Inv'
  <2>1. Buying' \subseteq Buying
    BY <1>3, MoveBuying DEF OldEnds, Inv
  <2>2. TypeOK'
    BY <1>3 DEF OldEnds, Moves, Inv, TypeOK
  <2>. QED
    BY <1>3, <2>1, <2>2, NumbersKept DEF OldEnds, Inv, SignalsCounted
<1>4. ASSUME NEW o \in Others, OldSwapEnds(o) PROVE Inv'
  <2>1. TypeOK' /\ Buying' \subseteq Buying
    BY <1>4 DEF OldSwapEnds, SwapMoves, Inv, TypeOK, Buying
  <2>. QED
    BY <1>4, <2>1, NumbersKept DEF OldSwapEnds, Inv, SignalsCounted
<1>. QED
  BY <1>1, <1>2, <1>3, <1>4, RebuildInv DEF OldStep

LEMMA SurroundingsInv ==
    ASSUME Inv,
           \/ Clocks \/ TradedElsewhere \/ NewsApproved
           \/ \E side \in Sides : Filled(side) \/ Dropped(side)
    PROVE  Inv'
<1>. USE DEF manager, broker
<1>1. Buying' \subseteq Buying
  BY DEF Clocks, HoldEnds, NewDay, WindowPasses, TradedElsewhere, NewsApproved, Filled,
         Dropped, Buying
<1>2. TypeOK'
  <2>1. CASE Clocks
    <3>1. CASE HoldEnds
      <4>1. fresh' \in BOOLEAN
        BY <3>1, Zenon DEF HoldEnds
      <4>. QED
        BY <3>1, <4>1 DEF HoldEnds, Inv, TypeOK
    <3>2. CASE NewDay
      BY <3>2, Numbers DEF NewDay, Inv, TypeOK
    <3>3. CASE \E side \in Sides : WindowPasses(side)
      BY <3>3 DEF WindowPasses, Inv, TypeOK
    <3>. QED
      BY <2>1, <3>1, <3>2, <3>3 DEF Clocks
  <2>2. CASE TradedElsewhere
    BY <2>2 DEF TradedElsewhere, Inv, TypeOK
  <2>3. CASE NewsApproved
    BY <2>3 DEF NewsApproved, Approve, Sides, Inv, TypeOK
  <2>4. CASE \E side \in Sides : Filled(side) \/ Dropped(side)
    BY <2>4 DEF Filled, Dropped, Inv, TypeOK
  <2>. QED
    BY <2>1, <2>2, <2>3, <2>4
<1>3. CASE NewDay
  <2>1. BuysPerDay'
    BY <1>3, Numbers, BuyingFiniteNext DEF NewDay, BuysPerDay
  <2>. QED
    BY <1>2, <1>3, <2>1 DEF NewDay, Inv, BuysCounted, SignalsCounted
<1>4. CASE ~NewDay
  <2>1. trades' = trades /\ buys' = buys /\ sells' = sells /\ streak' = streak
    BY <1>4 DEF Clocks, HoldEnds, WindowPasses, TradedElsewhere, NewsApproved, Filled, Dropped
  <2>. QED
    BY <1>1, <1>2, <2>1, NumbersKept DEF Inv, SignalsCounted
<1>. QED
  BY <1>3, <1>4

LEMMA StepInv == Inv /\ [Next]_vars => Inv'
<1>. SUFFICES ASSUME Inv, [Next]_vars PROVE Inv'
  OBVIOUS
<1>1. CASE UNCHANGED vars
  <2>1. TypeOK' /\ Buying' \subseteq Buying
    BY <1>1 DEF vars, broker, manager, Inv, TypeOK, Buying
  <2>. QED
    BY <1>1, <2>1, NumbersKept DEF vars, manager, Inv, SignalsCounted
<1>2. CASE Next
  BY <1>2, EvaluationInv, SwapInv, OldInv, SurroundingsInv DEF Next
<1>. QED
  BY <1>1, <1>2

THEOREM InvAlways == Spec => []Inv
BY InitInv, StepInv, PTL DEF Spec

(* The state of the guards keeps its types. *)
THEOREM TypeCorrect == Spec => []TypeOK
<1>1. Inv => TypeOK
  BY DEF Inv
<1>. QED
  BY <1>1, InvAlways, PTL

(* However many loops evaluate a symbol with one portfolio manager, the buys *)
(* of a day exceed the daily limit by less than their number, whatever the   *)
(* evaluations of other symbols record between test and record of a buy and  *)
(* however often the strategy is built anew. *)
THEOREM BuysLimited == Spec => []BuysPerDay
<1>1. Inv => BuysPerDay
  BY DEF Inv, BuysCounted
<1>. QED
  BY <1>1, InvAlways, PTL

LEMMA OnlySellSentSends ==
    ASSUME Inv, Next, NEW l \in Loops, own[l] # "sell", own'[l] = "sell"
    PROVE  SellSent(l)
<1>. USE DEF Inv, TypeOK, Moves
<1>1. \A o \in Others : ~SwapStep(o)
  BY DEF SwapStep, SwapSent, SwapRefused, SwapAccepted, SwapRecorded, SwapCancelled
<1>2. ~Clocks
  BY DEF Clocks, HoldEnds, NewDay, WindowPasses
<1>3. ~(\E side \in Sides : Filled(side) \/ Dropped(side)) /\ ~TradedElsewhere /\ ~NewsApproved
  BY DEF Filled, Dropped, TradedElsewhere, NewsApproved
<1>4. ~OldStep
  BY DEF OldStep, Rebuild, OldApproved, OldAccepted, OldEnds, OldSwapEnds
<1>5. PICK k \in Loops : EvaluationStep(k)
  BY <1>1, <1>2, <1>3, <1>4 DEF Next
<1>6. ~(\/ ReadPosition(k) \/ NoTrade(k) \/ Hold(k) \/ SellRefused(k) \/ Buy(k)
        \/ BuyRefused(k) \/ BuySent(k) \/ BuyRecorded(k) \/ OwnRejected(k) \/ OwnCancelled(k))
  BY DEF ReadPosition, NoTrade, Hold, SellRefused, Buy, BuyRefused, BuySent, BuyRecorded,
         OwnRejected, OwnCancelled
<1>7. ~(SellCounted(k) \/ OwnAccepted(k) \/ SellRecorded(k) \/ SignalsCleared(k))
  BY DEF SellCounted, OwnAccepted, SellRecorded, SignalsCleared
<1>8. SellSent(k)
  BY <1>5, <1>6, <1>7 DEF EvaluationStep, SellStep
<1>. QED
  BY <1>8 DEF SellSent

(* A sale that a SELL signal of the symbol asks for gets past the hold       *)
(* period of can_sell_position only after a full run of SELL signals, in     *)
(* whichever loops they were counted.  It says nothing of sales for a swap.  *)
THEOREM SignalledSalesHeld == Spec => SignalledSalesInsisted
<1>1. ASSUME Inv, [Next]_vars
      PROVE  [\A l \in Loops :
                own[l] # "sell" /\ own'[l] = "sell" /\ fresh => streak' >= Threshold]_vars
  <2>. SUFFICES ASSUME Next, NEW l \in Loops, own[l] # "sell", own'[l] = "sell", fresh
                PROVE  streak' >= Threshold
    BY <1>1
  <2>1. SellSent(l)
    BY <1>1, OnlySellSentSends
  <2>2. sells >= Threshold /\ streak' = streak
    BY <2>1 DEF SellSent, CanSell, manager
  <2>3. sells \in 0..Threshold /\ streak \in 0..Threshold /\ sells <= streak
    BY <1>1 DEF Inv, TypeOK, SignalsCounted
  <2>. QED
    BY <2>2, <2>3, Numbers
<1>. QED
  BY <1>1, InvAlways, PTL DEF Spec, SignalledSalesInsisted

=============================================================================
