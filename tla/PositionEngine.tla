---------------------------- MODULE PositionEngine ----------------------------
(***************************************************************************)
(* hedge-position's PositionEngine (engine.rs) with the fill arithmetic    *)
(* (pnl.rs, position.rs) and the aggregate risk state (risk_state.rs).     *)
(* The binary runs a fill consumer and a tick consumer as two tasks on a   *)
(* shared engine.  Each position has a mutex, the aggregate another; the   *)
(* atomic steps of on_fill and on_tick are their lock acquisitions:        *)
(*   mutate one position; (on_tick) throttle; walk the positions one by    *)
(*   one; read the previous peak; store the aggregate; publish; send.      *)
(*                                                                         *)
(* Prices and quantities are small integers: paise and shares.             *)
(***************************************************************************)
EXTENDS Integers

CONSTANTS
    NumSymbols,    \* symbols are numbered in the order DashMap iterates over them
    FillTasks,     \* tasks that call on_fill
    TickTasks,     \* tasks that call on_tick
    Fills,         \* inputs: [symbol, side, qty, px]
    Marks,         \* inputs: tick prices
    BaseCapital,
    Throttle,      \* pos_update_throttle_ns
    MaxFills,      \* bound on the number of fills
    MaxTime        \* bound on the clock

Symbols == 1..NumSymbols
Tasks == FillTasks \cup TickTasks

ASSUME PositionAssumption ==
    /\ NumSymbols \in Nat
    /\ Fills \subseteq [symbol: Symbols, side: {"Buy", "Sell"}, qty: Nat, px: Nat]
    /\ Marks \subseteq Nat
    /\ BaseCapital \in Int /\ Throttle \in Nat

VARIABLES
    book,        \* positions: book[s] = [qty, avg, realized, unrealized, mark]
    tracked,     \* the symbols that have an entry in the map
    aggregate,   \* EngineState.aggregate
    published,   \* EngineState.last_published_aggregate
    lastEmit,    \* EngineState.last_emit_ns
    posCall,        \* posCall[t]: locals of task t's on_fill or on_tick
    now,         \* the wall clock the callers read
    \* history
    cash,        \* cash[s]: proceeds of the sells minus cost of the buys
    slack,       \* slack[s]: most the average-price truncations can have shifted
    fills,       \* how many fills there were
    alone        \* no other call has overlapped the last one that began

vars == <<book, tracked, aggregate, published, lastEmit, posCall, now, cash, slack, fills, alone>>
historyVars == <<cash, slack, fills>>

Flat == [qty |-> 0, avg |-> 0, realized |-> 0, unrealized |-> 0, mark |-> 0]

\* TraderRiskState::fresh
Fresh(capital) == [exposure |-> 0, drawdown |-> 0, margin |-> capital, peak |-> capital]

NothingPublished == [exposure |-> -1, drawdown |-> 0, margin |-> 0, peak |-> 0]

IdlePosCall == [pc |-> "idle", kind |-> "none", symbol |-> 0, at |-> 0, next |-> 0,
             exposure |-> 0, realized |-> 0, unrealized |-> 0, prevPeak |-> 0,
             result |-> Fresh(0), update |-> FALSE]

Init ==
    /\ book = [s \in Symbols |-> Flat]
    /\ tracked = {}
    /\ aggregate = Fresh(BaseCapital)
    /\ published = NothingPublished
    /\ lastEmit = [s \in Symbols |-> 0]
    /\ posCall = [t \in Tasks |-> IdlePosCall]
    /\ now = 0
    /\ cash = [s \in Symbols |-> 0]
    /\ slack = [s \in Symbols |-> 0]
    /\ fills = 0
    /\ alone = TRUE

(***************************************************************************)
(* Fill arithmetic (pnl.rs)                                                *)
(***************************************************************************)
Abs(x) == IF x < 0 THEN -x ELSE x
Least(a, b) == IF a <= b THEN a ELSE b
Greatest(a, b) == IF a >= b THEN a ELSE b

Signed(f) == IF f.side = "Buy" THEN f.qty ELSE -f.qty

\* The fill adds to the position or opens one.
SameDirection(qty, f) == (qty > 0 /\ f.side = "Buy") \/ (qty < 0 /\ f.side = "Sell")

\* Volume-weighted average entry price, truncated to whole paise.
Vwap(qty, avg, f) == (Abs(qty) * avg + f.qty * f.px) \div (Abs(qty) + f.qty)

\* Mutant of NewAvg: the leg opened by a flip inherits the old entry price.
FlipKeepsAvg(qty, avg, f) ==
    IF f.qty = 0 THEN avg
    ELSE IF qty = 0 THEN f.px
    ELSE IF SameDirection(qty, f) THEN Vwap(qty, avg, f)
    ELSE IF f.qty = Abs(qty) THEN 0 ELSE avg

\* apply_fill_inner, new_avg_entry_px: open, scale, close, flip.
NewAvg(qty, avg, f) ==
    IF f.qty = 0 THEN avg
    ELSE IF qty = 0 THEN f.px
    ELSE IF SameDirection(qty, f) THEN Vwap(qty, avg, f)
    ELSE IF f.qty < Abs(qty) THEN avg
    ELSE IF f.qty = Abs(qty) THEN 0
    ELSE f.px

\* apply_fill_inner, delta_realized_paise: only the closed slice realizes PnL.
DeltaRealized(qty, avg, f) ==
    LET closed == Least(Abs(qty), f.qty) IN
    IF f.qty = 0 \/ qty = 0 \/ SameDirection(qty, f) THEN 0
    ELSE IF qty > 0 THEN (f.px - avg) * closed
    ELSE (avg - f.px) * closed

\* unrealized_pnl_paise: zero until the first mark.
Unrealized(qty, avg, mark) == IF qty = 0 \/ mark = 0 THEN 0 ELSE (mark - avg) * qty

\* Mutant of Filled: the cached unrealized PnL is left as it was.
FilledStale(p, f) ==
    [p EXCEPT !.qty = p.qty + Signed(f),
              !.avg = NewAvg(p.qty, p.avg, f),
              !.realized = p.realized + DeltaRealized(p.qty, p.avg, f)]

\* Position::apply_fill
Filled(p, f) ==
    LET qty == p.qty + Signed(f)
        avg == NewAvg(p.qty, p.avg, f)
    IN [qty |-> qty, avg |-> avg,
        realized |-> p.realized + DeltaRealized(p.qty, p.avg, f),
        unrealized |-> Unrealized(qty, avg, p.mark), mark |-> p.mark]

\* Position::apply_mark, and the flat branch of on_tick.
Marked(p, px) == [p EXCEPT !.mark = px, !.unrealized = Unrealized(p.qty, p.avg, px)]

\* Position::exposure_paise
Exposure(p) == Abs(p.qty) * p.avg

(***************************************************************************)
(* The aggregate (risk_state.rs)                                           *)
(***************************************************************************)
PeakEquity(equity, prev) == Greatest(equity, prev)

\* aggregate_state over the sums of the positions.
AggregateState(exposure, realized, unrealized, prevPeak) ==
    LET equity == BaseCapital + realized + unrealized
        newPeak == PeakEquity(equity, prevPeak)
    IN [exposure |-> exposure, drawdown |-> Greatest(newPeak - equity, 0),
        margin |-> BaseCapital + realized - exposure, peak |-> newPeak]

(***************************************************************************)
(* on_fill and on_tick                                                     *)
(***************************************************************************)
At(t, l) == posCall[t].pc = l

\* No call is running.
Quiet == \A t \in Tasks : At(t, "idle")

Begin(t, kind, s, l) ==
    /\ posCall' = [posCall EXCEPT ![t] = [IdlePosCall EXCEPT !.pc = l, !.kind = kind, !.symbol = s,
                                                    !.at = now, !.next = 1]]
    /\ alone' = Quiet

\* Step 1 of on_fill: create the entry if need be, fold the fill in.
ApplyFill(t, f) ==
    LET s == f.symbol
        p == book[s] IN
    /\ At(t, "idle")
    /\ fills < MaxFills
    /\ book' = [book EXCEPT ![s] = Filled(@, f)]
    /\ tracked' = tracked \cup {s}
    /\ Begin(t, "fill", s, "walk")
    /\ cash' = [cash EXCEPT ![s] = @ - Signed(f) * f.px]
    /\ slack' = [slack EXCEPT ![s] =
                   IF SameDirection(p.qty, f) THEN @ + Abs(p.qty) + f.qty - 1 ELSE @]
    /\ fills' = fills + 1
    /\ UNCHANGED <<aggregate, published, lastEmit, now>>

\* Step 1 of on_tick: nothing without an entry; a flat entry takes the mark and
\* the call returns; an open position is marked.
ApplyTick(t, s, px) ==
    /\ At(t, "idle")
    /\ s \in tracked
    /\ book' = [book EXCEPT ![s] = Marked(@, px)]
    /\ IF book[s].qty = 0 THEN UNCHANGED <<posCall, alone>> ELSE Begin(t, "tick", s, "throttle")
    /\ UNCHANGED <<tracked, aggregate, published, lastEmit, now, historyVars>>

SaturatingSub(a, b) == IF a >= b THEN a - b ELSE 0

\* Step 2 of on_tick: pos.update at most once per throttle interval.
ThrottleUpdate(t) ==
    LET s == posCall[t].symbol IN
    /\ At(t, "throttle")
    /\ IF SaturatingSub(posCall[t].at, lastEmit[s]) >= Throttle
       THEN /\ lastEmit' = [lastEmit EXCEPT ![s] = posCall[t].at]
            /\ posCall' = [posCall EXCEPT ![t].pc = "walk", ![t].update = TRUE]
       ELSE /\ posCall' = [posCall EXCEPT ![t].pc = "walk"]
            /\ UNCHANGED lastEmit
    /\ UNCHANGED <<book, tracked, aggregate, published, now, historyVars, alone>>

\* recompute_aggregate: the positions are cloned one by one, each under its lock.
WalkPosition(t) ==
    LET c == posCall[t]
        p == book[c.next] IN
    /\ At(t, "walk")
    /\ posCall' = [posCall EXCEPT ![t] =
                  [c EXCEPT !.exposure = @ + Exposure(p), !.realized = @ + p.realized,
                            !.unrealized = @ + p.unrealized, !.next = @ + 1,
                            !.pc = IF c.next = NumSymbols THEN "peak" ELSE "walk"]]
    /\ UNCHANGED <<book, tracked, aggregate, published, lastEmit, now, historyVars, alone>>

\* recompute_aggregate: the previous peak is read under one acquisition ...
ReadPeak(t) ==
    /\ At(t, "peak")
    /\ posCall' = [posCall EXCEPT ![t].pc = "store", ![t].prevPeak = aggregate.peak]
    /\ UNCHANGED <<book, tracked, aggregate, published, lastEmit, now, historyVars, alone>>

\* ... and the result stored under another.
StoreAggregate(t) ==
    LET c == posCall[t]
        new == AggregateState(c.exposure, c.realized, c.unrealized, c.prevPeak) IN
    /\ At(t, "store")
    /\ aggregate' = new
    /\ posCall' = [posCall EXCEPT ![t].pc = "publish", ![t].result = new]
    /\ UNCHANGED <<book, tracked, published, lastEmit, now, historyVars, alone>>

\* Last acquisition: a fill always emits its position and the aggregate; a tick
\* emits the aggregate only when it differs from the last one.
Publish(t) ==
    LET c == posCall[t] IN
    /\ At(t, "publish")
    /\ published' = c.result
    /\ IF c.kind = "fill"
       THEN /\ lastEmit' = [lastEmit EXCEPT ![c.symbol] = c.at]
            /\ posCall' = [posCall EXCEPT ![t].pc = "send", ![t].update = TRUE]
       ELSE /\ posCall' = [posCall EXCEPT ![t].pc = "send"]
            /\ UNCHANGED lastEmit
    /\ UNCHANGED <<book, tracked, aggregate, now, historyVars, alone>>

\* publish_events: what the call returned goes out after its locks are released.
Send(t) ==
    /\ At(t, "send")
    /\ posCall' = [posCall EXCEPT ![t] = IdlePosCall]
    /\ UNCHANGED <<book, tracked, aggregate, published, lastEmit, now, historyVars, alone>>

\* set_strategy_allocations: of what is modelled, it can only create the entry.
SetStrategyAllocations(s) ==
    /\ tracked' = tracked \cup {s}
    /\ UNCHANGED <<book, aggregate, published, lastEmit, posCall, now, historyVars, alone>>

Tick ==
    /\ now < MaxTime
    /\ now' = now + 1
    /\ UNCHANGED <<book, tracked, aggregate, published, lastEmit, posCall, historyVars, alone>>

Recompute(t) == WalkPosition(t) \/ ReadPeak(t) \/ StoreAggregate(t) \/ Publish(t) \/ Send(t)

Next ==
    \/ \E t \in FillTasks, f \in Fills : ApplyFill(t, f)
    \/ \E t \in TickTasks : \/ ThrottleUpdate(t)
                            \/ \E s \in Symbols, px \in Marks : ApplyTick(t, s, px)
    \/ \E t \in Tasks : Recompute(t)
    \/ \E s \in Symbols : SetStrategyAllocations(s)
    \/ Tick

Spec == Init /\ [][Next]_vars

(***************************************************************************)
(* Properties                                                              *)
(***************************************************************************)
Position == [qty: Int, avg: Nat, realized: Int, unrealized: Int, mark: Nat]
RiskState == [exposure: Int, drawdown: Nat, margin: Int, peak: Int]
PosCall == [pc: {"idle", "throttle", "walk", "peak", "store", "publish", "send"},
         kind: {"none", "fill", "tick"}, symbol: Symbols \cup {0}, at: Nat, next: Nat,
         exposure: Int, realized: Int, unrealized: Int, prevPeak: Int,
         result: RiskState, update: BOOLEAN]

\* Every variable has its type; average prices and drawdowns are not negative.
PositionTypeOK ==
    /\ book \in [Symbols -> Position]
    /\ tracked \subseteq Symbols
    /\ aggregate \in RiskState
    /\ published \in RiskState
    /\ lastEmit \in [Symbols -> Nat]
    /\ posCall \in [Tasks -> PosCall]
    /\ now \in Nat
    /\ cash \in [Symbols -> Int]
    /\ slack \in [Symbols -> Nat]
    /\ fills \in Nat
    /\ alone \in BOOLEAN

\* Conservation of cash (R8.6, pnl.rs 105-190): after any sequence of opening,
\* scaling, closing and flipping fills the realized PnL is the cash that moved
\* plus the cost basis of what is held, up to the truncations of the average
\* price; a flat position has no basis and a flat entry price.
Drift(s) == book[s].realized - cash[s] - book[s].qty * book[s].avg

CashConserved ==
    \A s \in Symbols :
        /\ -slack[s] <= Drift(s) /\ Drift(s) <= slack[s]
        /\ book[s].qty = 0 => book[s].avg = 0

\* The sums over a book, from first principles.
SumOver(f) ==
    LET upTo[n \in 0..NumSymbols] == IF n = 0 THEN 0 ELSE upTo[n - 1] + f[n]
    IN upTo[NumSymbols]

Equity == BaseCapital + SumOver([s \in Symbols |->
              book[s].realized + Unrealized(book[s].qty, book[s].avg, book[s].mark)])

Accurate(state) ==
    /\ state.exposure = SumOver([s \in Symbols |-> Exposure(book[s])])
    /\ state.peak - state.drawdown = Equity

\* A fill or tick handled while no other call is running leaves the aggregate and
\* the last pos.risk_state describing the positions as they are (R8.5, engine.rs
\* recompute_aggregate): whatever overlapping calls left behind before it, in any
\* order of fills and ticks, with marks remembered on flat positions.
AggregateIsCurrent ==
    Quiet /\ alone => Accurate(aggregate) /\ (published # NothingPublished => Accurate(published))

\* "aggregate_exposure_paise = Sum |position_i.quantity| × position_i.avg_entry_px,
\* drawdown_paise = peak_equity_paise - (base_capital + total_pnl_paise)"
\* (risk_state.rs:11-14): at rest the aggregate is that of the positions, also
\* after calls that overlapped.  TLC refutes it with two tasks.
RiskStateIsCurrent == Quiet => Accurate(aggregate)

\* "The caller threads the previous peak through every call so
\* `peak_equity_paise` is monotonic across the session" (risk_state.rs:82-83).
PeakIsMonotonic == [][aggregate'.peak >= aggregate.peak]_vars

\* What of it holds with the two tasks of the binary: only a call that another one
\* overlapped can store a lower peak (engine.rs 347-359).
PeakHolds == [][alone => aggregate'.peak >= aggregate.peak]_vars
=============================================================================
