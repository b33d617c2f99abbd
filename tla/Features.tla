------------------------------ MODULE Features ------------------------------
(***************************************************************************)
(* The feature-extraction engine (crates/hedge-features): the per-symbol   *)
(* state every tick is folded into, one operator per indicator, applied in *)
(* the order of process_tick_into_state, and the snapshot computed after.  *)
(*                                                                         *)
(* Prices and quantities are integers; an f64 accumulator is an integer    *)
(* number of thousandths.  A logarithmic return is kept as the pair of     *)
(* prices it is computed from.                                             *)
(***************************************************************************)
EXTENDS Integers, Sequences, FiniteSets, FiniteSetsExt, Functions, SequencesExt

CONSTANTS
    FeatSymbols,
    FeatTicks,        \* ticks: records with ltp, qty, buy, sell
    Pressures,        \* values of the of.pressure feed, in thousandths
    AtrWindow, MomentumWindow, VolWindow, CompressionWindow, DonchianWindow,
    SlopeLookback, RsiWindow, AdxWindow, SweepLookahead,
    EmaFast, EmaSlow, EmaTrend,
    DeltaWindow, DeltaCapacity,
    TickGaps,         \* nanoseconds between two ticks of a symbol
    MaxFeatTicks, MaxResets

ASSUME FeatureAssumption ==
    /\ SlopeLookback \in Nat \ {0} /\ DeltaCapacity \in Nat \ {0}
    /\ AtrWindow \in Nat \ {0} /\ DonchianWindow \in Nat \ {0}
    /\ MomentumWindow \in Nat \ {0} /\ VolWindow \in Nat \ {0}
    /\ DeltaWindow \in Nat /\ TickGaps \subseteq Nat
    /\ \A t \in FeatTicks : {t.ltp, t.qty, t.buy, t.sell} \subseteq Nat

VARIABLES
    feat,      \* DashMap<SymbolId, Mutex<FeatureState>>
    snap,      \* the last snapshot of each symbol
    ticksIn,   \* ticks folded in since the last reset of the symbol
    resets

featVars == <<feat, snap, ticksIn, resets>>

(* RingWindow::push: the oldest element falls out of a full window. *)
Push(w, x, n) == IF Len(w) < n THEN Append(w, x) ELSE Append(Tail(w), x)
AbsDiff(a, b) == IF a > b THEN a - b ELSE b - a
Round(thousandths) == (thousandths + 500) \div 1000
ClampUnit(x) == IF x > 1000 THEN 1000 ELSE IF x < -1000 THEN -1000 ELSE x
NoBreak == -1

FeatureState ==
    [count |-> 0, last |-> 0, prev |-> 0, ts |-> 0,
     num |-> 0, den |-> 0,
     tr |-> <<>>, prevClose |-> 0, barHigh |-> 0, barLow |-> 0,
     fast |-> 0, slow |-> 0, trend |-> 0, fastHistory |-> <<>>,
     gain |-> 0, loss |-> 0, rsi |-> 0,
     adxTr |-> 0, adxUp |-> 0, adxDown |-> 0, adxDx |-> 0, adx |-> 0,
     channel |-> <<>>, momentum |-> <<>>, returns |-> <<>>,
     samples |-> <<>>, delta |-> 0, prices |-> <<>>,
     high |-> 0, low |-> 0,
     highIdx |-> NoBreak, highPx |-> 0, lowIdx |-> NoBreak, lowPx |-> 0, sweep |-> 0,
     buy |-> 0, sell |-> 0, imbalance |-> 0, flow |-> 0]

(***************************************************************************)
(* One operator per incremental/*.rs.                                      *)
(***************************************************************************)
(* The book differential decides the sign, the price change breaks a tie.  *)
SignVolume(s, t) ==
    LET book == (t.buy - s.buy) - (t.sell - s.sell)
    IN  IF book > 0 \/ (book = 0 /\ s.last # 0 /\ t.ltp > s.last) THEN t.qty
        ELSE IF book < 0 \/ (book = 0 /\ s.last # 0 /\ t.ltp < s.last) THEN -t.qty
        ELSE 0

(* Samples older than the cutoff stay in the ring and are skipped. *)
SumSince(samples, cutoff) ==
    SumFunction([i \in DOMAIN samples |-> IF samples[i].ts >= cutoff THEN samples[i].signed ELSE 0])

RollingDeltaUpdate(s, t) ==
    LET samples == Push(s.samples, [ts |-> t.ts, signed |-> SignVolume(s, t)], DeltaCapacity)
    IN  [s EXCEPT !.samples = samples, !.delta = SumSince(samples, t.ts - DeltaWindow)]

LiquidityUpdate(s, t) ==
    [s EXCEPT !.buy = t.buy, !.sell = t.sell,
              !.imbalance = ClampUnit((1000 * (t.buy - t.sell))
                                \div (IF t.buy + t.sell < 1 THEN 1 ELSE t.buy + t.sell))]

VwapUpdate(s, t) == [s EXCEPT !.num = @ + t.ltp * t.qty, !.den = @ + t.qty]

(* High and low of a tick are its price, so the true range is the distance *)
(* to the previous close, and the bar is overwritten with the new price.   *)
AtrUpdate(s, t) ==
    [s EXCEPT !.tr = Push(@, IF s.count = 0 THEN 0 ELSE AbsDiff(t.ltp, s.prevClose), AtrWindow),
              !.prevClose = t.ltp, !.barHigh = t.ltp, !.barLow = t.ltp]

Smooth(acc, price, period, seeded) ==
    IF seeded THEN acc + (2 * (1000 * price - acc)) \div (period + 1) ELSE 1000 * price

EmaUpdate(s, t) ==
    LET fast == Smooth(s.fast, t.ltp, EmaFast, s.count > 0)
    IN  [s EXCEPT !.fast = fast,
                  !.slow = Smooth(@, t.ltp, EmaSlow, s.count > 0),
                  !.trend = Smooth(@, t.ltp, EmaTrend, s.count > 0),
                  !.fastHistory = Push(@, Round(fast), SlopeLookback)]

VolatilityUpdate(s, t) ==
    IF s.last > 0 /\ t.ltp > 0 THEN [s EXCEPT !.returns = Push(@, <<s.last, t.ltp>>, VolWindow)] ELSE s

MomentumUpdate(s, t) == [s EXCEPT !.momentum = Push(@, t.ltp, MomentumWindow)]

CandleUpdate(s, t) ==
    [s EXCEPT !.prices = Push(@, t.ltp, CompressionWindow),
              !.high = IF @ = 0 \/ t.ltp > @ THEN t.ltp ELSE @,
              !.low = IF @ = 0 \/ t.ltp < @ THEN t.ltp ELSE @]

(* Runs after CandleUpdate, so high and low already include the tick.  A   *)
(* failed high within the lookahead gives -1, a failed low +1; the low     *)
(* side is evaluated last.                                                 *)
SweepUpdate(s, t) ==
    LET newHigh == s.high > 0 /\ t.ltp >= s.high /\ t.ltp > s.highPx
        newLow  == s.low > 0 /\ t.ltp <= s.low /\ (s.lowPx = 0 \/ t.ltp < s.lowPx)
        hIdx == IF newHigh THEN s.count ELSE s.highIdx
        hPx  == IF newHigh THEN t.ltp ELSE s.highPx
        lIdx == IF newLow THEN s.count ELSE s.lowIdx
        lPx  == IF newLow THEN t.ltp ELSE s.lowPx
        fresh(i) == i # NoBreak /\ s.count - i \in 1..SweepLookahead
        decayed(i) == IF i # NoBreak /\ s.count - i > SweepLookahead THEN NoBreak ELSE i
    IN  [s EXCEPT !.highIdx = decayed(hIdx), !.highPx = hPx,
                  !.lowIdx = decayed(lIdx), !.lowPx = lPx,
                  !.sweep = IF fresh(lIdx) /\ t.ltp > lPx THEN 1
                            ELSE IF fresh(hIdx) /\ t.ltp < hPx THEN -1 ELSE 0]

(* prev is still the price of two ticks ago here: the roll comes last. *)
RsiUpdate(s, t) ==
    LET change == t.ltp - s.prev
        n == IF s.count < RsiWindow THEN s.count ELSE RsiWindow
        mean(avg, x) == (avg * (n - 1) + 1000 * x) \div n
        g == mean(s.gain, IF change > 0 THEN change ELSE 0)
        l == mean(s.loss, IF change > 0 THEN 0 ELSE -change)
    IN  IF s.count = 0 THEN [s EXCEPT !.rsi = 0]
        ELSE [s EXCEPT !.gain = g, !.loss = l,
                       !.rsi = IF l = 0 THEN 100 ELSE (100 * g) \div (g + l)]

DonchianUpdate(s, t) == [s EXCEPT !.channel = Push(@, t.ltp, DonchianWindow)]

\* Wilder's smoothing of a sum x by a new value d.
AdxSmooth(s, x, d) ==
    CASE s.count < AdxWindow -> x + d
      [] s.count = AdxWindow -> x \div AdxWindow
      [] s.count > AdxWindow -> x - x \div AdxWindow + d

\* True range and directional movements.  AtrUpdate has run: barHigh and
\* barLow are the price of this very tick.
AdxMoves(s, t) ==
    LET up   == t.ltp - s.barHigh
        down == s.barLow - t.ltp
    IN  [tr   |-> AdxSmooth(s, s.adxTr, 1000 * AbsDiff(t.ltp, s.prev)),
         up   |-> AdxSmooth(s, s.adxUp, IF up > down /\ up > 0 THEN 1000 * up ELSE 0),
         down |-> AdxSmooth(s, s.adxDown, IF down > up /\ down > 0 THEN 1000 * down ELSE 0)]

\* The directional index, smoothed once it has been collected.
AdxIndex(s, t) ==
    LET m  == AdxMoves(s, t)
        dx == IF m.tr > 0 /\ m.up + m.down > 0
              THEN (100 * AbsDiff(m.up, m.down)) \div (m.up + m.down) ELSE 0
    IN  IF s.count <= 2 * AdxWindow THEN dx ELSE (s.adxDx * (AdxWindow - 1) + dx) \div AdxWindow

AdxUpdate(s, t) ==
    LET m == AdxMoves(s, t)
        r == [s EXCEPT !.adxTr = m.tr, !.adxUp = m.up, !.adxDown = m.down]
    IN  IF s.count = 0 THEN [s EXCEPT !.adx = 0]
        ELSE IF s.count > AdxWindow THEN [r EXCEPT !.adxDx = AdxIndex(s, t), !.adx = AdxIndex(s, t)]
        ELSE r

Roll(s, t) == [s EXCEPT !.count = @ + 1, !.prev = s.last, !.last = t.ltp, !.ts = t.ts]

(***************************************************************************)
(* The values read out after the fold.                                     *)
(***************************************************************************)
BreakoutPressure(s) ==
    LET range == s.high - s.low
        volume == IF AbsDiff(s.delta, 0) > 100 THEN 100 ELSE AbsDiff(s.delta, 0)
    IN  IF 0 \in {s.last, s.high, s.low} \/ range <= 0 THEN 0
        ELSE (10 * volume * ((s.last - s.low) - (s.high - s.last))) \div range

CompressionZone(s) ==
    LET range == Max(ToSet(s.prices)) - Min(ToSet(s.prices))
        atr   == SumFunction(s.tr) \div Len(s.tr)
        score == 1000 - (1000 * range) \div atr
    IN  IF Len(s.prices) < CompressionWindow \/ atr <= 0 THEN 0
        ELSE IF score < 0 THEN 0 ELSE score

(* Open, high, low and close of a tick are two prices: a body without      *)
(* wicks, so the shape is a doji or a marubozu.                            *)
CandleShape(s) == IF s.last = 0 \/ s.prev = 0 \/ s.last = s.prev THEN "doji" ELSE "marubozu"

Snapshot(s, t) ==
    [price |-> t.ltp,
     vwap |-> IF s.den = 0 THEN 0 ELSE s.num \div s.den,
     atr |-> SumFunction(s.tr) \div Len(s.tr),
     fast |-> Round(s.fast), slow |-> Round(s.slow), trend |-> Round(s.trend),
     slope |-> IF Len(s.fastHistory) < SlopeLookback THEN 0
               ELSE (1000 * (Round(s.fast) - Head(s.fastHistory)))
                        \div (IF SlopeLookback = 1 THEN 1 ELSE SlopeLookback - 1),
     returns |-> s.returns,
     momentum |-> IF Len(s.momentum) < 2 \/ Head(s.momentum) = 0 THEN 0
                  ELSE (1000 * (t.ltp - Head(s.momentum))) \div Head(s.momentum),
     rsi |-> s.rsi, adx |-> s.adx,
     upper |-> Max(ToSet(s.channel)), lower |-> Min(ToSet(s.channel)),
     delta |-> s.delta, imbalance |-> s.imbalance, flow |-> s.flow,
     candle |-> CandleShape(s),
     pressure |-> BreakoutPressure(s), compression |-> CompressionZone(s),
     sweep |-> s.sweep, ts |-> t.ts]

Indicators(s, t) ==
    LET s1 == LiquidityUpdate(RollingDeltaUpdate(s, t), t)
        s2 == EmaUpdate(AtrUpdate(VwapUpdate(s1, t), t), t)
        s3 == CandleUpdate(MomentumUpdate(VolatilityUpdate(s2, t), t), t)
        s4 == RsiUpdate(SweepUpdate(s3, t), t)
    IN  AdxUpdate(DonchianUpdate(s4, t), t)

ProcessTick(s, t) == Roll(Indicators(s, t), t)
RollFirst(s, t) == Indicators(Roll(s, t), t)
FoldTick(s, t) == ProcessTick(s, t)

-----------------------------------------------------------------------------
FeatInit ==
    /\ feat = [y \in FeatSymbols |-> FeatureState]
    /\ snap = [y \in FeatSymbols |-> Snapshot(
            [FeatureState EXCEPT !.tr = <<0>>, !.channel = <<0>>, !.prices = <<0>>],
            [ltp |-> 0, ts |-> 0])]
    /\ ticksIn = [y \in FeatSymbols |-> <<>>]
    /\ resets = 0

IngestTickFeat(y, t, gap) ==
    LET at == [ltp |-> t.ltp, qty |-> t.qty, buy |-> t.buy, sell |-> t.sell,
               ts |-> feat[y].ts + gap]
        s  == FoldTick(feat[y], at)
    IN  /\ Len(ticksIn[y]) < MaxFeatTicks
        /\ feat' = [feat EXCEPT ![y] = s]
        /\ snap' = [snap EXCEPT ![y] = Snapshot(s, at)]
        /\ ticksIn' = [ticksIn EXCEPT ![y] = Append(@, at)]
        /\ UNCHANGED resets

IngestPressure(y, v) ==
    /\ feat[y].flow # ClampUnit(v)
    /\ feat' = [feat EXCEPT ![y].flow = ClampUnit(v)]
    /\ UNCHANGED <<snap, ticksIn, resets>>

(* reset_symbol: the whole state goes, the windows included. *)
ResetSymbol(y) ==
    /\ resets < MaxResets /\ feat[y] # FeatureState
    /\ feat' = [feat EXCEPT ![y] = FeatureState]
    /\ ticksIn' = [ticksIn EXCEPT ![y] = <<>>]
    /\ resets' = resets + 1
    /\ UNCHANGED snap

FeatNext ==
    \E y \in FeatSymbols :
        \/ \E t \in FeatTicks, gap \in TickGaps : IngestTickFeat(y, t, gap)
        \/ \E v \in Pressures : IngestPressure(y, v)
        \/ ResetSymbol(y)

FeatSpec == FeatInit /\ [][FeatNext]_featVars

-----------------------------------------------------------------------------
(* The last n elements of a sequence. *)
LastOf(s, n) == SubSeq(s, IF Len(s) > n THEN Len(s) - n + 1 ELSE 1, Len(s))

(* What a batch computation reads off the ticks since the last reset: the  *)
(* prices, turnover and volume, the true ranges, the pairs the returns are *)
(* computed from, and the volume of a tick signed by the one before it.    *)
PricesOf(log) == [i \in 1..Len(log) |-> log[i].ltp]
TurnoverOf(log) == [i \in 1..Len(log) |-> log[i].ltp * log[i].qty]
VolumeOf(log) == [i \in 1..Len(log) |-> log[i].qty]
RangesOf(log) ==
    [i \in 1..Len(log) |-> IF i = 1 THEN 0 ELSE AbsDiff(log[i].ltp, log[i - 1].ltp)]
ReturnsOf(log) == [i \in 1..(Len(log) - 1) |-> <<log[i].ltp, log[i + 1].ltp>>]
AllPriced(log) == \A i \in 1..Len(log) : log[i].ltp > 0
Priced == Nat \ {0}
SignedAt(log, i) ==
    LET t == log[i]
        b == IF i = 1 THEN t.buy - t.sell
             ELSE (t.buy - log[i - 1].buy) - (t.sell - log[i - 1].sell)
        move == IF i = 1 \/ log[i - 1].ltp = 0 THEN 0 ELSE t.ltp - log[i - 1].ltp
        sign == IF b # 0 THEN b ELSE move
    IN  IF sign > 0 THEN t.qty ELSE IF sign < 0 THEN -t.qty ELSE 0

(* What the incremental state computes is what a batch computation over    *)
(* the ticks since the last reset would: VWAP, ATR, channel, momentum,     *)
(* returns and the 30-second delta, whatever ticks, gaps and resets come   *)
(* (engine.rs process_tick_into_state, incremental/*.rs "Update contract").*)
(* A tick with price zero has no logarithm and gives no return.            *)
IncrementalIsBatch ==
    \A y \in FeatSymbols :
        LET log  == ticksIn[y]
            n    == Len(log)
            vol  == SumFunction(VolumeOf(log))
            tr   == LastOf(RangesOf(log), AtrWindow)
            live == {i \in 1..n : log[i].ts >= log[n].ts - DeltaWindow /\ i > n - DeltaCapacity}
            old  == Head(LastOf(PricesOf(log), MomentumWindow))
        IN  n > 0 =>
            /\ snap[y].vwap = IF vol = 0 THEN 0 ELSE SumFunction(TurnoverOf(log)) \div vol
            /\ snap[y].atr = SumFunction(tr) \div Len(tr)
            /\ snap[y].upper = Max(ToSet(LastOf(PricesOf(log), DonchianWindow)))
            /\ snap[y].lower = Min(ToSet(LastOf(PricesOf(log), DonchianWindow)))
            /\ snap[y].momentum = IF old = 0 THEN 0 ELSE (1000 * (log[n].ltp - old)) \div old
            /\ snap[y].returns \in Seq(Priced \X Priced)
            /\ AllPriced(log) => snap[y].returns = LastOf(ReturnsOf(log), VolWindow)
            /\ snap[y].delta = SumFunction([i \in 1..n |-> IF i \in live THEN SignedAt(log, i) ELSE 0])

(* sweep.rs says: +1.0 if a fresh high was tagged within the last three    *)
(* ticks and the price has reverted below it.  The strategy that reads the *)
(* value (LiquiditySweepReversal) sells on a positive one.                 *)
HighSweepIsPositive ==
    \A y \in FeatSymbols :
        LET s == feat[y]
        IN  /\ s.highIdx # NoBreak /\ s.count - 1 - s.highIdx \in 1..SweepLookahead
            /\ s.last < s.highPx
            /\ ~(s.lowIdx # NoBreak /\ s.count - 1 - s.lowIdx \in 1..SweepLookahead /\ s.last > s.lowPx)
            => s.sweep = 1
=============================================================================
