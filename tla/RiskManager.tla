----------------------------- MODULE RiskManager -----------------------------
(***************************************************************************)
(* One RiskManager of core/risk_manager.py: what each look at the equity   *)
(* of an account does to the size of new positions and to the kill switch. *)
(* The only caller of update_account_equity is the simulation, whose risk  *)
(* manager is built once and kept for all simulations that follow; it has  *)
(* no user_id, so that it trips and resets the switch of the whole system. *)
(*                                                                         *)
(* Shares of the drawdown limit are in tenths.  Time is kept as one of the *)
(* three spans the code tells apart: up to 2, up to 4 and above 4 hours.   *)
(* Left out: the scaling of a size by volatility, confidence and cash, and *)
(* the learned rules.  Safeguards states what the constants are.           *)
(***************************************************************************)
EXTENDS Integers

CONSTANTS
    Capital,    \* total_capital, also session_start_equity
    Limit,      \* daily_drawdown_limit, 17.5 % of the capital
    Equities,   \* bound: the values the account takes
    Risk        \* this risk manager, as a caller of kill_switch.reset

VARIABLES
    equity,          \* equity of the account
    seen,            \* history: the equity at the last update
    peak,            \* peak_daily_equity
    tradingHalted,   \* trading_halted
    reduced,         \* trading_reduced
    unlock,          \* unlock_recovery_percent, in tenths
    since,           \* time since last_halt_time: "never", "2h", "4h", "later"
    portfolioStop,   \* _portfolio_stop_triggered
    halted,          \* what kill_switch.is_halted() answers
    resetting        \* callers of kill_switch.reset that have released the
                     \* halt, but not yet reset the cycle watchdog

account == <<equity, seen, peak>>
state == <<tradingHalted, reduced, unlock, since, portfolioStop>>
riskVars == <<account, state>>

Init ==
    /\ equity = Capital /\ seen = Capital /\ peak = Capital
    /\ tradingHalted = FALSE /\ reduced = FALSE
    /\ unlock = 5
    /\ since = "never"
    /\ portfolioStop = FALSE

-----------------------------------------------------------------------------

(* Down 7 % from the start of the session. *)
StopReached == 100 * (Capital - equity) >= 7 * Capital

(* A drawdown d is above the given tenths of the limit. *)
Above(d, tenths) == 10 * d > tenths * Limit

(* The first time the portfolio stop is reached it halts. *)
StopFires == StopReached /\ ~portfolioStop

(* The circuit breaker at drawdown d: not if anything halted before. *)
BreakerFires(d) == Above(d, 10) /\ ~tradingHalted /\ ~StopFires

(* Tier 1: half size above 60 %, full size again at 50 %, frozen in a halt.  *)
ReducedAt(d) ==
    IF tradingHalted \/ StopFires THEN reduced
    ELSE Above(d, 6) \/ (reduced /\ Above(d, 5))

(* Faulty variant: the threshold rises with the time the halt lasts.         *)
UnlockRising(d) ==
    CASE BreakerFires(d)   -> 5
      [] ~BreakerFires(d) /\ tradingHalted /\ since = "4h"    -> 7
      [] ~BreakerFires(d) /\ tradingHalted /\ since = "later" -> 8
      [] OTHER -> unlock

(* The share of the limit below which a halt ends: the longer, the lower.    *)
UnlockAt(d) ==
    CASE BreakerFires(d)   -> 5
      [] ~BreakerFires(d) /\ tradingHalted /\ since = "4h"    -> 3
      [] ~BreakerFires(d) /\ tradingHalted /\ since = "later" -> 2
      [] OTHER -> unlock

(* Faulty variant: a portfolio stop is forgotten when the equity is back.    *)
OpensAfterStop(d) == tradingHalted /\ ~StopFires /\ ~Above(d, UnlockAt(d))

(* Faulty variant: only a halt that lasted for hours ends.                   *)
OpensLate(d) ==
    /\ tradingHalted /\ since = "4h"
    /\ ~portfolioStop /\ ~StopFires
    /\ ~Above(d, UnlockAt(d))

(* The halt ends: recovered, and the portfolio stop was never reached.  A    *)
(* halt that begins in this very update cannot end in it.                    *)
Opens(d) ==
    /\ tradingHalted
    /\ ~portfolioStop /\ ~StopFires
    /\ ~Above(d, UnlockAt(d))

(* update_account_equity.  It trips the kill switch with either halt, and    *)
(* resets it when its own halt ends, whoever else has tripped it since; that *)
(* call returns before the next update.                                      *)
UpdateEquity ==
    LET newPeak == IF equity > peak THEN equity ELSE peak
        d == newPeak - equity
        fires == StopFires \/ BreakerFires(d)
        opens == Opens(d)
    IN  /\ Risk \notin resetting
        /\ seen' = equity
        /\ peak' = newPeak
        /\ tradingHalted' = ((tradingHalted \/ fires) /\ ~opens)
        /\ reduced' = (ReducedAt(d) /\ ~opens)
        /\ unlock' = UnlockAt(d)
        /\ since' = IF BreakerFires(d) THEN "2h" ELSE IF opens THEN "never" ELSE since
        /\ portfolioStop' = (portfolioStop \/ StopReached)
        /\ halted' = ((halted \/ fires) /\ ~opens)
        /\ resetting' = IF opens THEN resetting \cup {Risk} ELSE resetting
        /\ UNCHANGED equity

(* The market moves the account. *)
MarketMoves ==
    /\ \E e \in Equities : equity' = e
    /\ UNCHANGED <<seen, peak, state, halted, resetting>>

(* Two hours pass. *)
HoursPass ==
    /\ since \in {"2h", "4h"}
    /\ since' = IF since = "2h" THEN "4h" ELSE "later"
    /\ UNCHANGED <<account, tradingHalted, reduced, unlock, portfolioStop,
                   halted, resetting>>

(* What calculate_position_size leaves of a size, in percent. *)
SizePercent ==
    IF tradingHalted \/ halted THEN 0 ELSE IF reduced THEN 50 ELSE 100

RiskNext == UpdateEquity \/ MarketMoves \/ HoursPass

-----------------------------------------------------------------------------

RiskTypeOK ==
    /\ equity \in Equities /\ seen \in Equities /\ peak \in Equities
    /\ tradingHalted \in BOOLEAN
    /\ reduced \in BOOLEAN
    /\ unlock \in {2, 3, 5}
    /\ since \in {"never", "2h", "4h", "later"}
    /\ portfolioStop \in BOOLEAN

(* Sizes follow the drawdown seen last, whatever way the equity came there   *)
(* and however the halts, unlocks and hours in between were interleaved: at  *)
(* most half above 60 % of the limit, nothing above the limit.               *)
ExposureFollowsDrawdown ==
    /\ Above(peak - seen, 6) => SizePercent <= 50
    /\ Above(peak - seen, 10) => SizePercent = 0

(* "Keep halted; do not allow unlock for portfolio stop": after a loss of    *)
(* 7 % nothing makes this risk manager size a position again, and it does    *)
(* not release the kill switch that others may have reset and tripped since. *)
StopIsFinal == portfolioStop => tradingHalted /\ SizePercent = 0

=============================================================================
