------------------------------- MODULE Signals -------------------------------
(***************************************************************************)
(* The signal engine (crates/hedge-signals): the seven registered          *)
(* strategies as functions of a feature snapshot, the gates around them,   *)
(* the publication of the signals of one snapshot on NATS and on the Redis *)
(* stream, and the task that follows ops.warmode.start / .end.             *)
(*                                                                         *)
(* Prices are integers; every ratio (pressure, slope, momentum,            *)
(* confidence) is an integer number of thousandths.                        *)
(***************************************************************************)
EXTENDS Integers, Sequences, FiniteSets, SequencesExt

CONSTANTS
    Snapshots,      \* the feature snapshots the engine may receive
    PrevDays,       \* previous-day memories: records with high and low
    SignalConfigs,  \* configurations update_config may install
    WarFloors,      \* confidence floors of ops.warmode.start
    OiExpansion,    \* "none": no OiCache bound; else what it answers
    MaxSnapshots,   \* bound: snapshots received
    MaxWarEvents    \* bound: ops.warmode events published

VARIABLES
    sigCfg,     \* RwLock<SignalEngineConfig>
    prevDay,    \* previous_day, per symbol; NoPrev where there is none
    snapOut,    \* signals evaluate returned for the current snapshot
    toSend,     \* those of them not yet handled by the publish loop
    pubAt,      \* "nats" or "xadd": which await of publish is next
    onNats,     \* signals of the current snapshot on sig.emitted
    onStream,   \* signals of the current snapshot on hedge.hot.signals
    hasStream,  \* with_redis was called
    warTask,    \* run_warmode_subscriber is running
    warSubs,    \* its subscriptions that are still open
    warInbox,   \* undelivered ops.warmode events per subscription
    snapsIn,   \* snapshots received so far
    warEvents   \* ops.warmode events published so far

sigVars == <<sigCfg, prevDay, snapOut, toSend, pubAt, onNats, onStream,
             hasStream, warTask, warSubs, warInbox, snapsIn, warEvents>>

NoPrev == [high |-> 0, low |-> 0]
SigSymbols == {s.symbol : s \in Snapshots}

SizeOf(x) == IF x < 0 THEN -x ELSE x
Sign(x) == IF x > 0 THEN 1 ELSE IF x < 0 THEN -1 ELSE 0
Clamp01(x) == IF x < 0 THEN 0 ELSE IF x > 1000 THEN 1000 ELSE x
Capped(x) == IF SizeOf(x) > 1000 THEN 1000 ELSE SizeOf(x)
(* f64::round of half / 2, for half >= 0 *)
RoundHalf(half) == (half + 1) \div 2

(***************************************************************************)
(* A signal: its strategy, its side (1 buys, -1 sells), its confidence and *)
(* its bracket.  None is the empty set and Some(sig) a singleton.          *)
(***************************************************************************)
RiskProfile(entry, side, stopDist, tpDist) ==
    [stop |-> entry - side * stopDist, take |-> entry + side * tpDist]

Some(strategy, s, side, confidence, profile) ==
    {[strategy |-> strategy, symbol |-> s.symbol, side |-> side,
      confidence |-> Clamp01(confidence), bracket |-> profile]}

AtrProfile(entry, side, atr) ==
    RiskProfile(entry, side, RoundHalf(3 * atr), RoundHalf(5 * atr))

EntryOf(first, second) == IF first > 0 THEN first ELSE second

OpeningRange(s, prev) ==
    LET side  == Sign(s.pressure)
        level == IF side = 1 THEN prev.high ELSE prev.low
    IN  IF /\ SizeOf(s.pressure) >= 500
           /\ SizeOf(s.slope) >= 100
           /\ Sign(s.slope) = side
           /\ level > 0 => side * s.vwap >= side * level
        THEN Some("orb", s, side, SizeOf(s.pressure), AtrProfile(s.vwap, side, s.atr))
        ELSE {}

VwapPullback(s) ==
    LET band == s.atr \div 2
        side == Sign(s.fast - s.slow)
        dist == SizeOf(s.fast - s.vwap)
        gap  == (1000 * SizeOf(s.fast - s.slow)) \div s.atr
    IN  IF s.atr > 0 /\ band > 0 /\ dist <= band /\ side # 0
           /\ side * s.fast >= side * s.vwap
        THEN Some("vwap", s, side,
                  (500 * (band - dist)) \div band + Capped(gap) \div 2,
                  AtrProfile(s.fast, side, s.atr))
        ELSE {}

MomentumBreakout(s) ==
    LET side == Sign(s.momentum)
    IN  IF /\ SizeOf(s.momentum) >= 5
           /\ SizeOf(s.pressure) >= 500
           /\ Sign(s.pressure) = side
           /\ Sign(s.slope) = side
           /\ Sign(s.fast - s.slow) = side
        THEN Some("momentum", s, side,
                  (Capped(s.pressure) + Capped(20 * s.momentum)) \div 2,
                  AtrProfile(EntryOf(s.fast, s.vwap), side, s.atr))
        ELSE {}

(* A sweep of the highs (positive) is faded by selling, provided the slope *)
(* and the order flow already point that way.                              *)
SweepReversal(s) ==
    LET side == -Sign(s.sweep)
    IN  IF /\ SizeOf(s.sweep) >= 500
           /\ Sign(s.slope) = side
           /\ SizeOf(s.flow) >= 200
           /\ Sign(s.flow) = side
        THEN Some("sweep", s, side, (Capped(s.sweep) + Capped(s.flow)) \div 2,
                  AtrProfile(EntryOf(s.vwap, s.fast), side, s.atr))
        ELSE {}

SweepContinuation(s) ==
    LET side == Sign(s.sweep)
    IN  IF /\ SizeOf(s.sweep) >= 500
           /\ Sign(s.flow) = side
           /\ SizeOf(s.flow) >= 200
        THEN Some("sweep", s, side, (Capped(s.sweep) + Capped(s.flow)) \div 2,
                  AtrProfile(EntryOf(s.vwap, s.fast), side, s.atr))
        ELSE {}

LiquiditySweep(s) == SweepReversal(s)

OptionsOi(s) ==
    LET side == Sign(s.pressure)
    IN  IF OiExpansion = "fresh" /\ SizeOf(s.pressure) >= 400
        THEN Some("oi", s, side, SizeOf(s.pressure),
                  AtrProfile(EntryOf(s.vwap, s.fast), side, s.atr))
        ELSE {}

VolCompression(s) ==
    LET side == Sign(s.pressure)
    IN  IF s.compression > 500 /\ SizeOf(s.pressure) > 500
        THEN Some("compression", s, side,
                  (Capped(s.compression) + Capped(s.pressure)) \div 2,
                  AtrProfile(EntryOf(s.vwap, s.fast), side, s.atr))
        ELSE {}

(* The breakout is tested before the breakdown, so a degenerate channel    *)
(* (upper = lower = price) counts as a breakout.                           *)
CompositeAlpha(s) ==
    LET side == IF s.price >= s.upper THEN 1 ELSE -1
    IN  IF /\ s.nifty
           /\ s.atr >= 100
           /\ s.price >= s.upper \/ s.price <= s.lower
           /\ Sign(s.price - s.fast) = side
           /\ Sign(s.slow - s.trend) = side
        THEN Some("composite", s, side, 800 + SizeOf(s.flow) \div 5,
                  RiskProfile(s.price, side, RoundHalf(3 * s.atr), RoundHalf(9 * s.atr)))
        ELSE {}

StrategyOrder == <<"orb", "vwap", "momentum", "sweep", "oi", "compression", "composite">>

StrategyEvaluate(id, s, prev) ==
    CASE id = "orb"         -> OpeningRange(s, prev)
      [] id = "vwap"        -> VwapPullback(s)
      [] id = "momentum"    -> MomentumBreakout(s)
      [] id = "sweep"       -> LiquiditySweep(s)
      [] id = "oi"          -> OptionsOi(s)
      [] id = "compression" -> VolCompression(s)
      [] id = "composite"   -> CompositeAlpha(s)

EnabledIn(id, regime) ==
    CASE id \in {"orb", "vwap", "momentum", "oi"} ->
             regime \notin {"sideways", "liquidity_crisis", "low_participation"}
      [] id = "sweep"       -> regime \notin {"trending", "liquidity_crisis"}
      [] id = "compression" -> regime \notin {"trending", "panic"}
      [] id = "composite"   -> regime \in {"trending", "high_volatility"}

(***************************************************************************)
(* Gates.  A strategy the toggle map does not mention is enabled; the      *)
(* engine passes no sector, so only blocked symbols gate.                  *)
(***************************************************************************)
CheckGates(id, s, c) ==
    /\ id \notin c.off
    /\ EnabledIn(id, c.regime)
    /\ s.symbol \notin c.news

CheckWarMode(sig, c) == c.war => sig.confidence >= c.floor

DefaultConfig ==
    [regime |-> "trending", off |-> {}, war |-> FALSE, floor |-> 700, news |-> {}]

Survivors(id, s, c, prev) ==
    IF CheckGates(id, s, c)
    THEN {sig \in StrategyEvaluate(id, s, prev) : CheckWarMode(sig, c)}
    ELSE {}

(* The surviving signals, in registration order. *)
PushSignal(out, found) == IF found = {} THEN out ELSE Append(out, CHOOSE sig \in found : TRUE)

EvaluateStrategies(s, c, prev) ==
    FoldLeft(LAMBDA out, id : PushSignal(out, Survivors(id, s, c, prev)), <<>>, StrategyOrder)

SigInit ==
    /\ sigCfg = DefaultConfig
    /\ prevDay = [y \in SigSymbols |-> NoPrev]
    /\ snapOut = <<>> /\ toSend = <<>> /\ pubAt = "nats"
    /\ onNats = <<>> /\ onStream = <<>>
    /\ hasStream \in BOOLEAN
    /\ warTask = TRUE /\ warSubs = {"start", "end"}
    /\ warInbox = [q \in {"start", "end"} |-> <<>>]
    /\ snapsIn = 0 /\ warEvents = 0

(***************************************************************************)
(* The feature loop: one snapshot is evaluated under one copy of the       *)
(* configuration, then its signals are published one after the other.      *)
(***************************************************************************)
IngestSnapshot(s) ==
    /\ toSend = <<>> /\ snapsIn < MaxSnapshots
    /\ snapOut' = EvaluateStrategies(s, sigCfg, prevDay[s.symbol])
    /\ toSend' = snapOut'
    /\ onNats' = <<>> /\ onStream' = <<>>
    /\ snapsIn' = snapsIn + 1
    /\ UNCHANGED <<sigCfg, prevDay, pubAt, hasStream, warTask, warSubs, warInbox, warEvents>>

PublishNats ==
    /\ toSend # <<>> /\ pubAt = "nats"
    /\ onNats' = Append(onNats, Head(toSend))
    /\ IF hasStream THEN pubAt' = "xadd" /\ UNCHANGED toSend
                    ELSE toSend' = Tail(toSend) /\ UNCHANGED pubAt
    /\ UNCHANGED <<sigCfg, prevDay, snapOut, onStream, hasStream,
                   warTask, warSubs, warInbox, snapsIn, warEvents>>

PublishStream ==
    /\ toSend # <<>> /\ pubAt = "xadd"
    /\ onStream' = Append(onStream, Head(toSend))
    /\ toSend' = Tail(toSend) /\ pubAt' = "nats"
    /\ UNCHANGED <<sigCfg, prevDay, snapOut, onNats, hasStream,
                   warTask, warSubs, warInbox, snapsIn, warEvents>>

(* The `?` of ingest_feature_snapshot: the first failure, on either sink,   *)
(* gives up the remaining signals of the snapshot.                         *)
AbortRest == /\ toSend' = <<>> /\ pubAt' = "nats"
SkipOne   == /\ toSend' = Tail(toSend) /\ pubAt' = "nats"
AfterFailure == AbortRest

PublishFails ==
    /\ toSend # <<>>
    /\ AfterFailure
    /\ UNCHANGED <<sigCfg, prevDay, snapOut, onNats, onStream, hasStream,
                   warTask, warSubs, warInbox, snapsIn, warEvents>>

UpdateConfig(c) ==
    /\ c # sigCfg
    /\ sigCfg' = c
    /\ UNCHANGED <<prevDay, snapOut, toSend, pubAt, onNats, onStream, hasStream,
                   warTask, warSubs, warInbox, snapsIn, warEvents>>

UpsertPreviousDay(y, p) ==
    /\ prevDay[y] # p
    /\ prevDay' = [prevDay EXCEPT ![y] = p]
    /\ UNCHANGED <<sigCfg, snapOut, toSend, pubAt, onNats, onStream, hasStream,
                   warTask, warSubs, warInbox, snapsIn, warEvents>>

(***************************************************************************)
(* The War_Mode task.  Start and end arrive on two subscriptions that      *)
(* select! serves in any order; an error on either one ends the task.      *)
(***************************************************************************)
WarPublish(q, floor) ==
    /\ warEvents < MaxWarEvents
    /\ warEvents' = warEvents + 1
    /\ warInbox' = IF warTask /\ q \in warSubs
                   THEN [warInbox EXCEPT ![q] = Append(@, floor)]
                   ELSE warInbox
    /\ UNCHANGED <<sigCfg, prevDay, snapOut, toSend, pubAt, onNats, onStream,
                   hasStream, warTask, warSubs, snapsIn>>

WarRecv(q) ==
    /\ warTask /\ warInbox[q] # <<>>
    /\ sigCfg' = IF q = "start"
                 THEN [sigCfg EXCEPT !.war = TRUE, !.floor = Head(warInbox[q])]
                 ELSE [sigCfg EXCEPT !.war = FALSE]
    /\ warInbox' = [warInbox EXCEPT ![q] = Tail(@)]
    /\ UNCHANGED <<prevDay, snapOut, toSend, pubAt, onNats, onStream, hasStream,
                   warTask, warSubs, snapsIn, warEvents>>

WarSubscriptionLost(q) ==
    /\ warTask /\ q \in warSubs
    /\ warSubs' = warSubs \ {q}
    /\ warTask' = FALSE
    /\ warInbox' = [p \in {"start", "end"} |-> <<>>]
    /\ UNCHANGED <<sigCfg, prevDay, snapOut, toSend, pubAt, onNats, onStream,
                   hasStream, snapsIn, warEvents>>

SigNext ==
    \/ \E s \in Snapshots : IngestSnapshot(s)
    \/ PublishNats \/ PublishStream \/ PublishFails
    \/ \E c \in SignalConfigs : UpdateConfig(c)
    \/ \E y \in SigSymbols, p \in PrevDays : UpsertPreviousDay(y, p)
    \/ \E q \in {"start", "end"}, f \in WarFloors : WarPublish(q, f)
    \/ \E q \in {"start", "end"} : WarRecv(q) \/ WarSubscriptionLost(q)

SigSpec == SigInit /\ [][SigNext]_sigVars

-----------------------------------------------------------------------------
(* The three strategies that read the slope of the fast average never      *)
(* contradict each other: on one snapshot the opening-range breakout, the  *)
(* momentum breakout and the sweep reversal all buy or all sell, although  *)
(* the reversal derives its side from the opposite of the sweep            *)
(* (strategies/orb.rs, momentum_breakout.rs, liquidity_sweep_reversal.rs). *)
SlopeStrategiesAgree ==
    \A i, j \in DOMAIN snapOut :
        {snapOut[i].strategy, snapOut[j].strategy} \subseteq {"orb", "momentum", "sweep"}
            => snapOut[i].side = snapOut[j].side

(* Whatever fails, a sink holds a prefix of the signals of a snapshot in   *)
(* registration order, and the Redis stream never holds a signal that NATS *)
(* does not: a reader that sees the third signal has seen the first two    *)
(* (engine.rs ingest_feature_snapshot and publish).                        *)
SinksHoldPrefixes ==
    /\ onNats = SubSeq(snapOut, 1, Len(onNats))
    /\ onStream = SubSeq(onNats, 1, Len(onStream))

(* What bin/main.rs says of run_warmode_subscriber: a drop on one of the   *)
(* two subjects does not stop the other.                                   *)
OneDropKeepsTheOther ==
    warSubs # {} => warTask
=============================================================================
