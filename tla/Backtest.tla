------------------------------ MODULE Backtest ------------------------------
(***************************************************************************)
(* The backtest harness (crates/hedge-signals/src/bin/backtest_harness.rs):*)
(* it replays the ticks of a session, manages one simulated position per   *)
(* symbol and accounts for the closed trades.  The strategy is             *)
(* CompositeAlphaBreakout, whose brackets are 1.5 and 4.5 ATR wide; which  *)
(* tick it fires on, and on which side, is left open.                      *)
(***************************************************************************)
EXTENDS Integers, Sequences

CONSTANTS
    BtSymbols, BtPrices,
    BtAtr,            \* the average true range of every snapshot
    BtQty, BtCosts,   \* quantity, and fee plus slippage of a round trip
    BreakerOff,       \* HEDGE_NO_CIRCUIT_BREAKER
    MaxTrades, MaxTickNo, MaxBtDay

ASSUME BacktestAssumption ==
    BtPrices \subseteq Int /\ BtAtr \in Int /\ BtQty \in Int /\ BtCosts \in Int

VARIABLES
    btPos,        \* pos_map; side is the byte of the signal
    btRealized,   \* realized_pnl_paise
    btPeak, btMaxDd,
    btDay, btLosses,       \* current_day, daily_losses
    btWins,
    btTrades,     \* closed trades, for the properties
    btTicks

btVars == <<btPos, btRealized, btPeak, btMaxDd, btDay, btLosses, btWins, btTrades, btTicks>>

(* Side::as_u8 of the signal engine. *)
SideByte(buy) == IF buy THEN 0 ELSE 1

BtFlat == [open |-> FALSE, side |-> 0, entry |-> 0, initial |-> 0, stop |-> 0,
         target |-> 0, even |-> FALSE]

BtInit ==
    /\ btPos = [y \in BtSymbols |-> BtFlat]
    /\ btRealized = 0 /\ btPeak = 0 /\ btMaxDd = 0
    /\ btDay = 0 /\ btLosses = 0 /\ btWins = 0
    /\ btTrades = <<>> /\ btTicks = 0

(* The harness takes byte 1 for a buy and byte 2 for a sell. *)
Multiplier(p) == IF p.side = 1 THEN 1 ELSE -1
Spread(p) == IF p.entry > p.initial THEN p.entry - p.initial ELSE p.initial - p.entry

Exits(p, ltp, late) ==
    \/ p.side = 1 /\ (ltp <= p.stop \/ ltp >= p.target)
    \/ p.side = 2 /\ (ltp >= p.stop \/ ltp <= p.target)
    \/ late

Tighter(p, a, b) == IF (a > b) = (p.side = 1) THEN a ELSE b

(* Breakeven at 1 R, half the risk locked in at 1.5 R, an ATR trail at 2 R, *)
(* in this order on one tick.                                              *)
Trailed(p, ltp) ==
    LET gain == (ltp - p.entry) * Multiplier(p)
        risk == Spread(p)
        rr(num, den) == risk > 0 /\ den * gain >= num * risk
        even == IF rr(1, 1) /\ ~p.even THEN [p EXCEPT !.stop = p.entry, !.even = TRUE] ELSE p
        lock == IF rr(3, 2)
                THEN [even EXCEPT !.stop = Tighter(p, @, p.entry + Multiplier(p) * ((risk + 1) \div 2))]
                ELSE even
    IN  IF rr(2, 1)
        THEN [lock EXCEPT !.stop = Tighter(p, @, ltp - Multiplier(p) * 2 * BtAtr)]
        ELSE lock

(* Peak and drawdown of the realised profit after a close. *)
Drawdown(realized) ==
    IF realized > btPeak
    THEN btPeak' = realized /\ UNCHANGED btMaxDd
    ELSE /\ btMaxDd' = IF btPeak - realized > btMaxDd THEN btPeak - realized ELSE btMaxDd
         /\ UNCHANGED btPeak
DrawdownOfLoss(realized) ==
    /\ btMaxDd' = IF -realized > btMaxDd THEN -realized ELSE btMaxDd
    /\ btPeak' = IF realized > btPeak THEN realized ELSE btPeak
UpdateDrawdown(realized) == Drawdown(realized)

Entered(ltp, buy) ==
    LET dir == IF buy THEN 1 ELSE -1
        at  == ltp - dir * ((3 * BtAtr + 1) \div 2)
    IN  [open |-> TRUE, side |-> SideByte(buy), entry |-> ltp, initial |-> at, stop |-> at,
         target |-> ltp + dir * ((9 * BtAtr + 1) \div 2), even |-> FALSE]

(***************************************************************************)
(* One tick: roll the day, manage the open position, then, unless the      *)
(* breaker has tripped, take the signal if the symbol is flat.  sig is     *)
(* "none", "buy" or "sell".                                                *)
(***************************************************************************)
BtTick(y, ltp, day, late, sig) ==
    LET p      == btPos[y]
        closes == p.open /\ Exits(p, ltp, late)
        pnl    == (ltp - p.entry) * Multiplier(p) * BtQty
        net    == pnl - BtCosts
        before == IF day # btDay THEN 0 ELSE btLosses
        losses == IF closes /\ net <= 0 THEN before + 1 ELSE before
        kept   == IF closes THEN BtFlat ELSE IF p.open THEN Trailed(p, ltp) ELSE p
        enters == sig # "none" /\ (BreakerOff \/ losses < 3) /\ ~kept.open
    IN  /\ btTicks < MaxTickNo /\ btTicks' = btTicks + 1
        /\ day >= btDay /\ Len(btTrades) < MaxTrades
        /\ btDay' = day
        /\ btLosses' = losses
        /\ btPos' = [btPos EXCEPT ![y] = IF enters THEN Entered(ltp, sig = "buy") ELSE kept]
        /\ IF closes
           THEN /\ btRealized' = btRealized + net
                /\ UpdateDrawdown(btRealized + net)
                /\ btWins' = IF net > 0 THEN btWins + 1 ELSE btWins
                /\ btTrades' = Append(btTrades, [buy |-> p.side = SideByte(TRUE),
                                   entry |-> p.entry, exit |-> ltp, pnl |-> pnl, net |-> net])
           ELSE UNCHANGED <<btRealized, btPeak, btMaxDd, btWins, btTrades>>

BtNext ==
    \E y \in BtSymbols, ltp \in BtPrices, day \in 0..MaxBtDay, late \in BOOLEAN,
       sig \in {"none", "buy", "sell"} : BtTick(y, ltp, day, late, sig)

BtSpec == BtInit /\ [][BtNext]_btVars

-----------------------------------------------------------------------------
(* The realised profit after each of the closed trades, and before them.   *)
BtEquity(trades) ==
    LET e[i \in 0..Len(trades)] == IF i = 0 THEN 0 ELSE e[i - 1] + trades[i].net IN e

(* max_drawdown is the largest fall of the realised profit from an earlier *)
(* level (the flat start included) to a later one, whatever the order of   *)
(* wins and losses (backtest_harness.rs, the peak / drawdown update).      *)
DrawdownIsLargestFall ==
    LET n == Len(btTrades)
        e == BtEquity(btTrades)
    IN  /\ \E i \in 0..n, j \in 0..n : i <= j /\ btMaxDd = e[i] - e[j]
        /\ \A i \in 0..n, j \in 0..n : i <= j => e[i] - e[j] <= btMaxDd

(* The comment on SimPos.side: "1 for Buy, 2 for Sell (matching            *)
(* hedge-signals)".  If the bytes matched, a bought position would earn    *)
(* when the price rises and a sold one when it falls.                      *)
TradesEarnTheirSide ==
    \A i \in DOMAIN btTrades :
        LET t == btTrades[i]
        IN  t.pnl = (t.exit - t.entry) * (IF t.buy THEN 1 ELSE -1) * BtQty
=============================================================================
