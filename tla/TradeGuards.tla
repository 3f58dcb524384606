---------------------------- MODULE TradeGuards ----------------------------
(***************************************************************************)
(* What guards the trades of a strategy in one symbol: the portfolio       *)
(* manager (portfolio_manager.py: trades a day, hold period, consecutive   *)
(* SELL signals) and the wash trade memory of the compliance guardian      *)
(* (compliance.py), as rl_execution.py and _submit_order_safe use them.    *)
(*                                                                         *)
(* The lock of a symbol belongs to a strategy and an event loop, so every  *)
(* trading loop that is alive evaluates the symbol beside the others, all  *)
(* with the one portfolio manager of the strategy.  Evaluations of other   *)
(* symbols close this position to make room and take no lock of it.  Any   *)
(* of them can be cancelled by the time limit of a vote wherever it waits. *)
(* A strategy built anew starts with an empty portfolio manager, while     *)
(* evaluations of the replaced one go on.  The news poller asks for        *)
(* approval of orders it then never sends.                                 *)
(*                                                                         *)
(* What a thread does between two waits (an await, a call of the broker)   *)
(* is one step, except that a SELL signal is counted before the count is   *)
(* tested and a sale recorded before the count is cleared.                 *)
(*                                                                         *)
(* Scores, features and the other positions of the portfolio are left out: *)
(* what they decide is left open.                                          *)
(***************************************************************************)
EXTENDS Naturals, FiniteSets

CONSTANTS
    Loops,       \* event loops that evaluate the symbol
    Others,      \* evaluations of other symbols
    MaxTrades,   \* MAX_TRADES_PER_SYMBOL_PER_DAY
    Threshold    \* CONSECUTIVE_SELL_BYPASS_THRESHOLD

ASSUME TradeGuardsAssumption ==
    /\ IsFiniteSet(Loops) /\ Loops # {}
    /\ MaxTrades \in Nat \ {0} /\ Threshold \in Nat \ {0}

Sides == {"buy", "sell"}
Opposite(side) == IF side = "buy" THEN "sell" ELSE "buy"
Capped(n, max) == IF n > max THEN max ELSE n

VARIABLES
    own,       \* by loop: where its evaluation of the symbol waits
    swap,      \* by other symbol: where its sale of this one waits
    held,      \* the account holds the symbol
    open,      \* sides of the orders at the broker that are not filled
    trades,    \* trades recorded today, at most MaxTrades + 1 told apart
    fresh,     \* the last recorded trade is less than half an hour old
    sells,     \* _consecutive_sell_signals, at most Threshold told apart
    recent,    \* sides of the orders approved in the last 60 s
    streak,    \* history: SELL signals since the last HOLD or recorded sale
    buys       \* history: buys recorded today

broker == <<held, open>>
manager == <<trades, fresh, sells, streak, buys>>
vars == <<own, swap, broker, manager, recent>>

Init ==
    /\ own = [l \in Loops |-> "idle"] /\ swap = [o \in Others |-> "idle"]
    /\ held \in BOOLEAN
    /\ open = {} /\ recent = {}
    /\ trades = 0 /\ sells = 0 /\ streak = 0 /\ buys = 0
    /\ fresh = FALSE

-----------------------------------------------------------------------------
(* The portfolio manager.                                                    *)

(* Faulty variant: a trade counts when it is sent and when it is recorded.    *)
RecordTradeTwice ==
    /\ trades' = Capped(trades + 1, MaxTrades + 1) + 1
    /\ fresh' = TRUE

(* record_trade, with the cool-down it starts. *)
RecordTrade ==
    /\ trades' = Capped(trades + 1, MaxTrades + 1)
    /\ fresh' = TRUE

(* record_sell_signal. *)
CountSell ==
    /\ sells' = Capped(sells + 1, Threshold)
    /\ streak' = Capped(streak + 1, Threshold)

(* can_sell_position. *)
CanSell == ~fresh \/ sells >= Threshold

(* Faulty variant: a trade beyond the limit.                                 *)
CanOpenOnceMore == trades <= MaxTrades

(* should_open_new_position: below the daily limit.  With a full portfolio   *)
(* the cool-down and a debate can refuse as well, which NoTrade allows.      *)
CanOpen == trades < MaxTrades

-----------------------------------------------------------------------------
(* _submit_order_safe up to the thread that sends the order.                 *)

(* check_order finds no opposite order in its memory, and remembers this one *)
Approve(side) ==
    /\ Opposite(side) \notin recent
    /\ recent' = recent \cup {side}

(* Refused: before it is remembered, or after that, by the daily limit, the  *)
(* clock, a pending order or the buying power.  A pending order lets this    *)
(* one through when the broker cannot list it. *)
Refuse(side) == Approve(side) \/ UNCHANGED recent

-----------------------------------------------------------------------------
(* The evaluation of the symbol in a loop.                                   *)

Moves(l, from, to) == own[l] \in from /\ own' = [own EXCEPT ![l] = to]

(* It reads the position; a failed read is taken for no position. *)
ReadPosition(l) ==
    /\ \/ Moves(l, {"idle"}, "flat")
       \/ held /\ Moves(l, {"idle"}, "in")
    /\ UNCHANGED <<swap, broker, manager, recent>>

(* No features, BUY in position, SELL without one, or a refusal before the   *)
(* signal is counted. *)
NoTrade(l) ==
    /\ Moves(l, {"in", "flat"}, "idle")
    /\ UNCHANGED <<swap, broker, manager, recent>>

(* Faulty variant: HOLD leaves the count of SELL signals.                    *)
HoldCounts(l) ==
    /\ Moves(l, {"in", "flat"}, "idle")
    /\ streak' = 0
    /\ UNCHANGED <<swap, broker, trades, fresh, sells, buys, recent>>

Hold(l) ==
    /\ Moves(l, {"in", "flat"}, "idle")
    /\ sells' = 0 /\ streak' = 0
    /\ UNCHANGED <<swap, broker, trades, fresh, buys, recent>>

(* SELL in position is counted. *)
SellCounted(l) ==
    /\ Moves(l, {"in"}, "selling")
    /\ CountSell
    /\ UNCHANGED <<swap, broker, trades, fresh, buys, recent>>

(* The risk filter, the hold period or _submit_order_safe stop it. *)
SellRefused(l) ==
    /\ Moves(l, {"selling"}, "idle")
    /\ Refuse("sell")
    /\ UNCHANGED <<swap, broker, manager>>

SellSent(l) ==
    /\ Moves(l, {"selling"}, "sell")
    /\ CanSell
    /\ Approve("sell")
    /\ UNCHANGED <<swap, broker, manager>>

(* A BUY the portfolio manager allows; the close of another position and a   *)
(* pause may come first. *)
Buy(l) ==
    /\ Moves(l, {"flat"}, "buying")
    /\ CanOpen
    /\ sells' = 0
    /\ UNCHANGED <<swap, broker, trades, fresh, streak, buys, recent>>

BuyRefused(l) ==
    /\ Moves(l, {"buying"}, "idle")
    /\ Refuse("buy")
    /\ UNCHANGED <<swap, broker, manager>>

BuySent(l) ==
    /\ Moves(l, {"buying"}, "buy")
    /\ Approve("buy")
    /\ UNCHANGED <<swap, broker, manager>>

(* The call of the broker returns in its thread: accepted or not. *)
OwnAccepted(l) ==
    /\ \/ Moves(l, {"buy"}, "bought") /\ open' = open \cup {"buy"}
       \/ /\ Moves(l, {"sell"}, "sold") /\ open' = open \cup {"sell"}
          /\ held /\ "sell" \notin open
    /\ UNCHANGED <<swap, held, manager, recent>>

OwnRejected(l) ==
    /\ Moves(l, Sides, "idle")
    /\ UNCHANGED <<swap, broker, manager, recent>>

BuyRecorded(l) ==
    /\ Moves(l, {"bought"}, "idle")
    /\ RecordTrade
    /\ buys' = buys + 1
    /\ UNCHANGED <<swap, broker, sells, streak, recent>>

SellRecorded(l) ==
    /\ Moves(l, {"sold"}, "recorded")
    /\ RecordTrade
    /\ UNCHANGED <<swap, broker, sells, streak, buys, recent>>

(* clear_sell_signals_after_sale. *)
SignalsCleared(l) ==
    /\ Moves(l, {"recorded"}, "idle")
    /\ sells' = 0 /\ streak' = 0
    /\ UNCHANGED <<swap, broker, trades, fresh, buys, recent>>

(* Cancelled by the time limit of the vote where it awaits something, also   *)
(* when the answer has come but not been taken up; a thread that sends an    *)
(* order goes on, and nobody records its trade. *)
OwnCancelled(l) ==
    /\ Moves(l, {"in", "flat", "buying", "buy", "bought", "sell", "sold"}, "idle")
    /\ \/ UNCHANGED open
       \/ own[l] = "buy" /\ open' = open \cup {"buy"}
       \/ own[l] = "sell" /\ held /\ open' = open \cup {"sell"}
    /\ UNCHANGED <<swap, held, manager, recent>>

-----------------------------------------------------------------------------
(* Another symbol takes the place.  Nobody asks can_sell_position, and the   *)
(* sale is recorded whatever came of it. *)

SwapMoves(o, from, to) == swap[o] \in from /\ swap' = [swap EXCEPT ![o] = to]

SwapSent(o) ==
    /\ SwapMoves(o, {"idle"}, "sell")
    /\ held
    /\ Approve("sell")
    /\ UNCHANGED <<own, broker, manager>>

SwapRefused(o) ==
    /\ swap[o] = "idle" /\ held
    /\ Refuse("sell")
    /\ RecordTrade
    /\ UNCHANGED <<own, swap, broker, sells, streak, buys>>

SwapAccepted(o) ==
    /\ SwapMoves(o, {"sell"}, "sold")
    /\ held /\ "sell" \notin open
    /\ open' = open \cup {"sell"}
    /\ UNCHANGED <<own, held, manager, recent>>

SwapRecorded(o) ==
    /\ SwapMoves(o, {"sell", "sold"}, "idle")
    /\ RecordTrade
    /\ UNCHANGED <<own, broker, sells, streak, buys, recent>>

SwapCancelled(o) ==
    /\ SwapMoves(o, {"sell", "sold"}, "idle")
    /\ \/ UNCHANGED open
       \/ swap[o] = "sell" /\ held /\ open' = open \cup {"sell"}
    /\ UNCHANGED <<own, held, manager, recent>>

-----------------------------------------------------------------------------
(* The strategy is built anew, with a portfolio manager of its own.          *)

(* The evaluations of the replaced strategy go on with the old manager,      *)
(* which counts no more; where they wait is forgotten. *)
Rebuild ==
    /\ own' = [l \in Loops |-> IF own[l] = "idle" THEN "idle" ELSE "old"]
    /\ swap' = [o \in Others |-> IF swap[o] = "idle" THEN "idle" ELSE "old"]
    /\ trades' = 0 /\ sells' = 0 /\ streak' = 0 /\ buys' = 0
    /\ fresh' = FALSE
    /\ UNCHANGED <<broker, recent>>

(* Sides of the orders that evaluations of a replaced strategy may still send. *)
OldSides ==
    IF \E l \in Loops : own[l] = "old" THEN Sides
    ELSE IF \E o \in Others : swap[o] = "old" THEN {"sell"} ELSE {}

OldApproved ==
    /\ \E side \in OldSides : Approve(side)
    /\ UNCHANGED <<own, swap, broker, manager>>

OldAccepted ==
    /\ \E side \in OldSides : (side = "sell" => held) /\ open' = open \cup {side}
    /\ UNCHANGED <<own, swap, held, manager, recent>>

OldEnds(l) ==
    /\ Moves(l, {"old"}, "idle")
    /\ UNCHANGED <<swap, broker, manager, recent>>

OldSwapEnds(o) ==
    /\ SwapMoves(o, {"old"}, "idle")
    /\ UNCHANGED <<own, broker, manager, recent>>

-----------------------------------------------------------------------------
(* Surroundings.                                                             *)

Filled(side) ==
    /\ side \in open
    /\ open' = open \ {side}
    /\ held' = (side = "buy")
    /\ UNCHANGED <<own, swap, manager, recent>>

(* The broker drops an order at the end of the day. *)
Dropped(side) ==
    /\ side \in open
    /\ open' = open \ {side}
    /\ UNCHANGED <<own, swap, held, manager, recent>>

(* The order executor and the user trade the same account; they use other    *)
(* names in the compliance guardian and other portfolio managers. *)
TradedElsewhere ==
    /\ held' = ~held
    /\ UNCHANGED <<own, swap, open, manager, recent>>

(* The news poller has a BUY approved and discards it. *)
NewsApproved ==
    /\ Approve("buy")
    /\ UNCHANGED <<own, swap, broker, manager>>

(* Faulty variant: the age of an entry is not tested, and old entries leave  *)
(* the memory only when another order is approved.                           *)
WindowPassesOnApproval(side) ==
    /\ side \in recent /\ Opposite(side) \in recent
    /\ recent' = recent \ {side}
    /\ UNCHANGED <<own, swap, broker, manager>>

(* 60 s after an approval. *)
WindowPasses(side) ==
    /\ side \in recent
    /\ recent' = recent \ {side}
    /\ UNCHANGED <<own, swap, broker, manager>>

(* Half an hour after a trade. *)
HoldEnds ==
    /\ fresh
    /\ fresh' = FALSE
    /\ UNCHANGED <<own, swap, broker, trades, sells, streak, buys, recent>>

NewDay ==
    /\ trades > 0
    /\ trades' = 0 /\ buys' = 0
    /\ UNCHANGED <<own, swap, broker, fresh, sells, streak, recent>>

-----------------------------------------------------------------------------

SellStep(l) ==
    SellCounted(l) \/ SellSent(l) \/ OwnAccepted(l) \/ SellRecorded(l) \/ SignalsCleared(l)
EvaluationStep(l) ==
    \/ ReadPosition(l) \/ NoTrade(l) \/ Hold(l) \/ SellStep(l) \/ SellRefused(l)
    \/ Buy(l) \/ BuyRefused(l) \/ BuySent(l) \/ BuyRecorded(l)
    \/ OwnRejected(l) \/ OwnCancelled(l)
SwapStep(o) ==
    SwapSent(o) \/ SwapRefused(o) \/ SwapAccepted(o) \/ SwapRecorded(o) \/ SwapCancelled(o)
OldStep ==
    \/ Rebuild \/ OldApproved \/ OldAccepted
    \/ \E l \in Loops : OldEnds(l)
    \/ \E o \in Others : OldSwapEnds(o)
Clocks == HoldEnds \/ NewDay \/ (\E side \in Sides : WindowPasses(side))

Next ==
    \/ \E l \in Loops : EvaluationStep(l)
    \/ \E o \in Others : SwapStep(o)
    \/ OldStep \/ Clocks
    \/ \E side \in Sides : Filled(side) \/ Dropped(side)
    \/ TradedElsewhere \/ NewsApproved

Spec == Init /\ [][Next]_vars

(* Clocks run, the broker fills what it holds, the loops keep evaluating.  A *)
(* SELL that is allowed again and again is one day also signalled.           *)
Fairness ==
    /\ WF_vars(HoldEnds)
    /\ \A side \in Sides : WF_vars(WindowPasses(side)) /\ WF_vars(Filled(side))
    /\ \A l \in Loops :
        /\ WF_vars(EvaluationStep(l) \/ OldEnds(l))
        /\ SF_vars(SellCounted(l)) /\ SF_vars(SellSent(l))
    /\ \A o \in Others : WF_vars(SwapRecorded(o))

FairSpec == Spec /\ Fairness

-----------------------------------------------------------------------------

TypeOK ==
    /\ own \in [Loops -> {"idle", "in", "flat", "buying", "buy", "bought",
                          "selling", "sell", "sold", "recorded", "old"}]
    /\ swap \in [Others -> {"idle", "sell", "sold", "old"}]
    /\ held \in BOOLEAN
    /\ open \subseteq Sides
    /\ trades \in 0..(MaxTrades + 1)
    /\ fresh \in BOOLEAN
    /\ sells \in 0..Threshold /\ streak \in 0..Threshold
    /\ recent \subseteq Sides
    /\ buys \in Nat

(* Of the sales a SELL signal of the symbol itself asks for, none gets past  *)
(* the hold period before that many SELL signals with no HOLD and no cleared *)
(* sale in between, though several loops count, reset and clear the signals  *)
(* of one portfolio manager at once.  Sales for a swap (rl_execution.py:634) *)
(* are not meant: they ask for no hold period.                               *)
SignalledSalesInsisted ==
    [][\A l \in Loops : own[l] # "sell" /\ own'[l] = "sell" /\ fresh => streak' >= Threshold]_vars

Buying == {l \in Loops : own[l] \in {"buying", "buy", "bought"}}

(* The buys a portfolio manager records on a day, and those on their way,    *)
(* exceed the limit by less than the loops that are alive, though evaluations*)
(* of other symbols record trades between the test of the limit and the      *)
(* record of a buy.  With one loop the limit holds as it is.                 *)
BuysPerDay == buys + Cardinality(Buying) <= MaxTrades + Cardinality(Loops) - 1

(* Nobody approves news of the symbol, trades it elsewhere, for a swap or    *)
(* with a replaced strategy, its evaluations end by themselves, read the     *)
(* position and say SELL. *)
SellersUndisturbed ==
    [][/\ ~NewsApproved /\ ~TradedElsewhere /\ ~OldApproved /\ ~OldAccepted
       /\ \A o \in Others : ~SwapSent(o) /\ ~SwapRefused(o)
       /\ \A l \in Loops :
            /\ ~OwnCancelled(l) /\ ~OwnRejected(l) /\ ~Buy(l)
            /\ ~(held /\ own'[l] = "flat") /\ (own'[l] = "old" => own[l] = "old")
       /\ ~Dropped("sell")]_vars

(* A position the strategy insists on selling is sold: neither the hold      *)
(* period, nor the wash trade memory, nor pending orders keep it for ever.   *)
InsistedSalesHappen == <>SellersUndisturbed => <>(~held)

=============================================================================
