------------------------ MODULE PositionEngineProofs ------------------------
(***************************************************************************)
(* Theorems about hedge-position, for any number of symbols, fills and     *)
(* marks.  Under any interleaving of fill and tick tasks the variables     *)
(* keep their types, no sequence of fills creates or loses cash, only a    *)
(* call that another one overlaps can lower the peak, and a call that runs *)
(* by itself leaves the aggregate of the positions.                        *)
(***************************************************************************)
EXTENDS PositionEngine, DataInduction, TLAPS

USE DEF historyVars

(***************************************************************************)
(* Arithmetic                                                              *)
(***************************************************************************)
\* Products of the integers the fill arithmetic multiplies.
LEMMA Products ==
    /\ \A a, b \in Nat : a * b \in Nat
    /\ \A a, b \in Int : a * b \in Int
    /\ \A a, b, c \in Int : (a - b) * c = a * c - b * c
    /\ \A a, b, c \in Int : (a + b) * c = a * c + b * c
    /\ \A a, b \in Int : (-a) * b = -(a * b)
    /\ \A a, b \in Int : a * b = b * a
  OBVIOUS

\* What truncating a quotient loses.
LEMMA Quotient ==
    ASSUME NEW a \in Nat, NEW n \in Nat \ {0}
    PROVE  /\ a \div n \in Nat
           /\ a - n * (a \div n) \in 0..(n - 1)
  OBVIOUS

\* A fill, as on_fill receives it.
FillInput == [symbol: Symbols, side: {"Buy", "Sell"}, qty: Nat, px: Nat]

\* Vwap is a price, and the volume at that price is worth at most a share
\* short of what was paid for it.
LEMMA VwapBounds ==
    ASSUME NEW qty \in Int, NEW avg \in Nat, NEW f \in FillInput, qty # 0
    PROVE  LET n == Abs(qty) + f.qty
               paid == Abs(qty) * avg + f.qty * f.px
           IN /\ n \in Nat \ {0} /\ paid \in Nat
              /\ Vwap(qty, avg, f) \in Nat
              /\ paid - n * Vwap(qty, avg, f) \in 0..(n - 1)
  <1> DEFINE n == Abs(qty) + f.qty
             paid == Abs(qty) * avg + f.qty * f.px
  <1>1. Abs(qty) \in Nat \ {0} /\ f.qty \in Nat /\ f.px \in Nat
    BY DEF Abs, FillInput
  <1>2. n \in Nat \ {0}
    BY <1>1
  <1>3. Abs(qty) * avg \in Nat /\ f.qty * f.px \in Nat
    BY <1>1, Products
  <1>4. paid \in Nat
    BY <1>3
  <1>5. Vwap(qty, avg, f) = paid \div n
    BY DEF Vwap
  <1> HIDE DEF n, paid
  <1>6. paid \div n \in Nat /\ paid - n * (paid \div n) \in 0..(n - 1)
    BY <1>2, <1>4, Quotient
  <1> QED BY <1>2, <1>4, <1>5, <1>6 DEF n, paid

\* An average entry price is a price; a position that is flat has none.
LEMMA AvgTyped ==
    ASSUME NEW qty \in Int, NEW avg \in Nat, NEW f \in FillInput
    PROVE  /\ NewAvg(qty, avg, f) \in Nat
           /\ DeltaRealized(qty, avg, f) \in Int
           /\ Signed(f) \in Int
  <1>1. f.qty \in Nat /\ f.px \in Nat /\ f.side \in {"Buy", "Sell"} /\ Abs(qty) \in Nat
    BY DEF FillInput, Abs
  <1>2. NewAvg(qty, avg, f) \in Nat
    <2>1. CASE qty = 0
      BY <1>1, <2>1 DEF NewAvg
    <2>2. CASE qty # 0
      BY <1>1, <2>2, VwapBounds DEF NewAvg
    <2> QED BY <2>1, <2>2
  <1>3. Least(Abs(qty), f.qty) \in Int /\ f.px - avg \in Int /\ avg - f.px \in Int
    BY <1>1 DEF Least
  <1>4. /\ (f.px - avg) * Least(Abs(qty), f.qty) \in Int
        /\ (avg - f.px) * Least(Abs(qty), f.qty) \in Int
    BY <1>3, Products
  <1> QED BY <1>1, <1>2, <1>4 DEF DeltaRealized, Signed

\* Unrealized PnL is an amount.
LEMMA UnrealizedTyped ==
    ASSUME NEW qty \in Int, NEW avg \in Nat, NEW mark \in Nat
    PROVE  Unrealized(qty, avg, mark) \in Int
  <1>1. mark - avg \in Int
    OBVIOUS
  <1>2. (mark - avg) * qty \in Int
    BY <1>1, Products
  <1> QED BY <1>2 DEF Unrealized

\* Position::apply_fill and Position::apply_mark yield positions.
LEMMA FilledTyped ==
    ASSUME NEW p \in Position, NEW f \in FillInput
    PROVE  Filled(p, f) \in Position
  <1>1. p.qty \in Int /\ p.avg \in Nat /\ p.realized \in Int /\ p.mark \in Nat
    BY DEF Position
  <1> DEFINE q == p.qty + Signed(f)
             v == NewAvg(p.qty, p.avg, f)
             r == p.realized + DeltaRealized(p.qty, p.avg, f)
             u == Unrealized(q, v, p.mark)
  <1>2. /\ Signed(f) \in Int /\ NewAvg(p.qty, p.avg, f) \in Nat
        /\ DeltaRealized(p.qty, p.avg, f) \in Int
    BY <1>1, AvgTyped
  <1>5. q \in Int /\ v \in Nat /\ r \in Int
    BY <1>1, <1>2
  <1> HIDE DEF q, v, r
  <1>3. u \in Int
    BY <1>1, <1>5, UnrealizedTyped
  <1>4. Filled(p, f) = [qty |-> q, avg |-> v, realized |-> r, unrealized |-> u, mark |-> p.mark]
    BY DEF Filled, q, v, r
  <1> HIDE DEF u
  <1> QED BY <1>1, <1>3, <1>4, <1>5 DEF Position

\* A marked position is a position.
LEMMA MarkedTyped ==
    ASSUME NEW p \in Position, NEW px \in Nat
    PROVE  Marked(p, px) \in Position
  <1>1. Unrealized(p.qty, p.avg, px) \in Int
    BY UnrealizedTyped DEF Position
  <1> QED BY <1>1 DEF Position, Marked

(***************************************************************************)
(* Type correctness                                                        *)
(***************************************************************************)
\* A running call is about a symbol, and its walk is within the book.
CallsOK ==
    \A t \in Tasks :
        /\ posCall[t].pc # "idle" => posCall[t].symbol \in Symbols
        /\ posCall[t].pc \in {"throttle", "walk"} => posCall[t].next \in Symbols

\* The first step of a call keeps the types.
LEMMA BeginTyped ==
    ASSUME PositionTypeOK, CallsOK, NEW t \in Tasks, NEW kind \in {"fill", "tick"},
           NEW s \in Symbols, NEW l \in {"walk", "throttle"},
           Begin(t, kind, s, l)
    PROVE  posCall' \in [Tasks -> PosCall] /\ CallsOK' /\ alone' \in BOOLEAN
  <1> DEFINE c == [IdlePosCall EXCEPT !.pc = l, !.kind = kind, !.symbol = s,
                                      !.at = now, !.next = 1]
  <1>1. IdlePosCall \in PosCall
    BY DEF IdlePosCall, PosCall, RiskState, Fresh
  <1>2. 1 \in Symbols /\ now \in Nat /\ s \in Symbols \cup {0}
    BY PositionAssumption DEF PositionTypeOK, Symbols
  <1>3. c \in PosCall
    BY <1>1, <1>2 DEF PosCall
  <1>4. c.symbol = s /\ c.next = 1
    BY <1>1 DEF PosCall
  <1> HIDE DEF c
  <1>5. posCall' = [posCall EXCEPT ![t] = c]
    BY DEF Begin, c
  <1>6. alone' \in BOOLEAN
    BY Zenon DEF Begin, Quiet
  <1> QED BY <1>2, <1>3, <1>4, <1>5, <1>6 DEF PositionTypeOK, CallsOK

\* Each step of a call keeps the types.
LEMMA RecomputeTyped ==
    ASSUME PositionTypeOK, CallsOK, NEW t \in Tasks, Recompute(t) \/ ThrottleUpdate(t)
    PROVE  PositionTypeOK' /\ CallsOK'
  <1> USE DEF At
  <1>0. /\ posCall \in [Tasks -> PosCall] /\ posCall[t] \in PosCall /\ BaseCapital \in Int
        /\ aggregate \in RiskState /\ published \in RiskState /\ NumSymbols \in Nat
        /\ lastEmit \in [Symbols -> Nat]
    BY PositionAssumption DEF PositionTypeOK
  <1>1. ASSUME NEW c \in PosCall, posCall' = [posCall EXCEPT ![t] = c],
               c.pc # "idle" => c.symbol \in Symbols, c.pc \in {"throttle", "walk"} => c.next \in Symbols
        PROVE  posCall' \in [Tasks -> PosCall] /\ CallsOK'
    BY <1>0, <1>1 DEF CallsOK
  <1>2. CASE WalkPosition(t)
    <2> DEFINE c == posCall[t]
               p == book[c.next]
               n == [c EXCEPT !.exposure = @ + Exposure(p), !.realized = @ + p.realized,
                              !.unrealized = @ + p.unrealized, !.next = @ + 1,
                              !.pc = IF c.next = NumSymbols THEN "peak" ELSE "walk"]
    <2>1. c.pc = "walk" /\ c.next \in Symbols /\ c.symbol \in Symbols /\ p \in Position
      BY <1>2 DEF WalkPosition, CallsOK, PositionTypeOK
    <2>2. Exposure(p) \in Int
      <3>1. Abs(p.qty) \in Int /\ p.avg \in Int
        BY <2>1 DEF Position, Abs
      <3> QED BY <3>1, Products DEF Exposure
    <2>3. p.realized \in Int /\ p.unrealized \in Int
      BY <2>1 DEF Position
    <2> HIDE DEF p
    <2>4. /\ n \in PosCall /\ n.symbol = c.symbol /\ n.next = c.next + 1
          /\ n.pc = IF c.next = NumSymbols THEN "peak" ELSE "walk"
      <3>1. /\ c.exposure + Exposure(p) \in Int /\ c.realized + p.realized \in Int
            /\ c.unrealized + p.unrealized \in Int /\ c.next + 1 \in Nat
        BY <1>0, <2>2, <2>3 DEF PosCall
      <3>2. (IF c.next = NumSymbols THEN "peak" ELSE "walk") \in {"peak", "walk"}
        OBVIOUS
      <3> QED BY <1>0, <3>1, <3>2 DEF PosCall
    <2>5. n.pc \in {"peak", "walk"} /\ (n.pc = "walk" => n.next \in Symbols)
      BY <1>0, <2>1, <2>4 DEF Symbols
    <2>7. posCall' = [posCall EXCEPT ![t] = n]
      BY <1>2 DEF WalkPosition, p
    <2> HIDE DEF n
    <2>8. posCall' \in [Tasks -> PosCall] /\ CallsOK'
      BY <1>1, <2>1, <2>4, <2>5, <2>7
    <2> QED BY <1>2, <2>8 DEF WalkPosition, PositionTypeOK
  <1>3. CASE ReadPeak(t)
    <2> DEFINE n == [posCall[t] EXCEPT !.pc = "store", !.prevPeak = aggregate.peak]
    <2>1. n \in PosCall /\ n.symbol = posCall[t].symbol /\ n.pc = "store"
      BY <1>0 DEF PosCall, RiskState
    <2>2. posCall' = [posCall EXCEPT ![t] = n] /\ posCall[t].symbol \in Symbols
      BY <1>0, <1>3 DEF ReadPeak, CallsOK
    <2> HIDE DEF n
    <2>3. posCall' \in [Tasks -> PosCall] /\ CallsOK'
      BY <1>1, <2>1, <2>2
    <2> QED BY <1>3, <2>3 DEF ReadPeak, PositionTypeOK
  <1>4. CASE StoreAggregate(t)
    <2> DEFINE c == posCall[t]
               new == AggregateState(c.exposure, c.realized, c.unrealized, c.prevPeak)
               n == [c EXCEPT !.pc = "publish", !.result = new]
    <2>1. /\ c.exposure \in Int /\ c.realized \in Int /\ c.unrealized \in Int
          /\ c.prevPeak \in Int
      BY <1>0 DEF PosCall
    <2>2. new \in RiskState
      BY <1>0, <2>1 DEF AggregateState, PeakEquity, Greatest, RiskState
    <2> HIDE DEF new
    <2>3. n \in PosCall /\ n.symbol = c.symbol /\ n.pc = "publish"
      BY <1>0, <2>2 DEF PosCall
    <2>4. posCall' = [posCall EXCEPT ![t] = n] /\ c.symbol \in Symbols /\ aggregate' = new
      BY <1>0, <1>4 DEF StoreAggregate, CallsOK, new
    <2> HIDE DEF n
    <2>5. posCall' \in [Tasks -> PosCall] /\ CallsOK'
      BY <1>1, <2>3, <2>4
    <2> QED BY <1>4, <2>2, <2>4, <2>5 DEF StoreAggregate, PositionTypeOK
  <1>5. ASSUME NEW l \in {"walk", "send"}, NEW b \in BOOLEAN,
               posCall' = [posCall EXCEPT ![t].pc = l, ![t].update = b],
               posCall[t].pc # "idle", l = "walk" => posCall[t].next \in Symbols
        PROVE  posCall' \in [Tasks -> PosCall] /\ CallsOK'
    <2> DEFINE n == [posCall[t] EXCEPT !.pc = l, !.update = b]
    <2>1. n \in PosCall /\ n.symbol = posCall[t].symbol /\ n.pc = l /\ n.next = posCall[t].next
      BY <1>0 DEF PosCall
    <2>2. posCall' = [posCall EXCEPT ![t] = n] /\ posCall[t].symbol \in Symbols
      BY <1>0, <1>5 DEF CallsOK
    <2> HIDE DEF n
    <2> QED BY <1>1, <1>5, <2>1, <2>2
  <1>6. ASSUME NEW l \in {"walk", "send"}, posCall' = [posCall EXCEPT ![t].pc = l],
               posCall[t].pc # "idle", l = "walk" => posCall[t].next \in Symbols
        PROVE  posCall' \in [Tasks -> PosCall] /\ CallsOK'
    <2>1. posCall' = [posCall EXCEPT ![t].pc = l, ![t].update = posCall[t].update]
      BY <1>0, <1>6 DEF PosCall
    <2>2. posCall[t].update \in BOOLEAN
      BY <1>0 DEF PosCall
    <2> QED BY <1>5, <1>6, <2>1, <2>2
  <1>7. /\ posCall[t].pc # "idle" => posCall[t].symbol \in Symbols
        /\ posCall[t].at \in Nat
    BY <1>0 DEF CallsOK, PosCall
  <1>8. CASE ThrottleUpdate(t)
    <2>1. posCall[t].next \in Symbols
      BY <1>8 DEF ThrottleUpdate, CallsOK
    <2>2. posCall' \in [Tasks -> PosCall] /\ CallsOK'
      BY <1>5, <1>6, <1>8, <2>1 DEF ThrottleUpdate
    <2>3. lastEmit' \in [Symbols -> Nat]
      BY <1>0, <1>7, <1>8 DEF ThrottleUpdate
    <2> QED BY <1>8, <2>2, <2>3 DEF ThrottleUpdate, PositionTypeOK
  <1>9. CASE Publish(t)
    <2>1. posCall' \in [Tasks -> PosCall] /\ CallsOK'
      BY <1>5, <1>6, <1>9 DEF Publish
    <2>2. lastEmit' \in [Symbols -> Nat] /\ published' \in RiskState
      BY <1>0, <1>7, <1>9 DEF Publish, PosCall
    <2> QED BY <1>9, <2>1, <2>2 DEF Publish, PositionTypeOK
  <1>10. CASE Send(t)
    <2>1. IdlePosCall \in PosCall /\ IdlePosCall.pc = "idle"
      BY DEF IdlePosCall, PosCall, RiskState, Fresh
    <2>2. posCall' \in [Tasks -> PosCall] /\ CallsOK'
      BY <1>1, <1>10, <2>1 DEF Send
    <2> QED BY <1>10, <2>2 DEF Send, PositionTypeOK
  <1> QED BY <1>2, <1>3, <1>4, <1>8, <1>9, <1>10 DEF Recompute

\* hedge-position boots flat.
LEMMA PositionTypeInit == Init => PositionTypeOK /\ CallsOK
  <1> SUFFICES ASSUME Init PROVE PositionTypeOK /\ CallsOK
    OBVIOUS
  <1>1. IdlePosCall \in PosCall /\ IdlePosCall.pc = "idle"
    BY DEF IdlePosCall, PosCall, RiskState, Fresh
  <1>2. Flat \in Position /\ Fresh(BaseCapital) \in RiskState /\ NothingPublished \in RiskState
    BY PositionAssumption DEF Flat, Position, Fresh, RiskState, NothingPublished
  <1> QED BY <1>1, <1>2 DEF Init, PositionTypeOK, CallsOK

\* Every step of every task keeps the types.
LEMMA PositionTypeNext ==
    ASSUME PositionTypeOK, CallsOK, [Next]_vars
    PROVE  PositionTypeOK' /\ CallsOK'
  <1>1. ASSUME NEW t \in FillTasks, NEW f \in Fills, ApplyFill(t, f)
        PROVE  PositionTypeOK' /\ CallsOK'
    <2> DEFINE s == f.symbol
               p == book[s]
    <2>1. f \in FillInput /\ t \in Tasks /\ s \in Symbols
      BY PositionAssumption DEF FillInput, Tasks
    <2>2. p \in Position /\ Filled(p, f) \in Position
      BY <2>1, FilledTyped DEF PositionTypeOK
    <2>3. book' \in [Symbols -> Position] /\ tracked' \subseteq Symbols
      BY <1>1, <2>1, <2>2 DEF ApplyFill, PositionTypeOK
    <2>4. posCall' \in [Tasks -> PosCall] /\ CallsOK' /\ alone' \in BOOLEAN
      <3>1. Begin(t, "fill", s, "walk")
        BY <1>1 DEF ApplyFill
      <3> QED BY <2>1, <3>1, BeginTyped
    <2>5. cash' \in [Symbols -> Int]
      <3>1. Signed(f) \in Int /\ f.px \in Int
        BY <2>1 DEF FillInput, Signed
      <3>2. Signed(f) * f.px \in Int
        BY <3>1, Products
      <3> QED BY <1>1, <2>1, <3>2 DEF ApplyFill, PositionTypeOK
    <2>6. slack' \in [Symbols -> Nat]
      <3>1. slack[s] \in Nat /\ f.qty \in Nat /\ p.qty \in Int
        BY <2>1, <2>2 DEF PositionTypeOK, FillInput, Position
      <3>2. SameDirection(p.qty, f) => slack[s] + Abs(p.qty) + f.qty - 1 \in Nat
        BY <3>1 DEF SameDirection, Abs
      <3> QED BY <1>1, <2>1, <3>1, <3>2 DEF ApplyFill, PositionTypeOK
    <2> QED BY <1>1, <2>3, <2>4, <2>5, <2>6 DEF ApplyFill, PositionTypeOK
  <1>2. ASSUME NEW t \in TickTasks, NEW s \in Symbols, NEW px \in Marks, ApplyTick(t, s, px)
        PROVE  PositionTypeOK' /\ CallsOK'
    <2>1. t \in Tasks /\ px \in Nat /\ book[s] \in Position /\ book[s].qty \in Int
      BY PositionAssumption DEF Tasks, PositionTypeOK, Position
    <2>2. book' \in [Symbols -> Position]
      BY <1>2, <2>1, MarkedTyped DEF ApplyTick, PositionTypeOK
    <2>3. posCall' \in [Tasks -> PosCall] /\ CallsOK' /\ alone' \in BOOLEAN
      <3>1. CASE book[s].qty = 0
        BY <1>2, <3>1 DEF ApplyTick, PositionTypeOK, CallsOK
      <3>2. CASE book[s].qty # 0
        <4>1. Begin(t, "tick", s, "throttle")
          BY <1>2, <3>2 DEF ApplyTick
        <4> QED BY <2>1, <4>1, BeginTyped
      <3> QED BY <3>1, <3>2
    <2> QED BY <1>2, <2>2, <2>3 DEF ApplyTick, PositionTypeOK
  <1>3. ASSUME NEW t \in TickTasks, ThrottleUpdate(t) PROVE PositionTypeOK' /\ CallsOK'
    BY <1>3, RecomputeTyped DEF Tasks
  <1>4. ASSUME NEW t \in Tasks, Recompute(t) PROVE PositionTypeOK' /\ CallsOK'
    BY <1>4, RecomputeTyped
  <1>5. ASSUME NEW s \in Symbols, SetStrategyAllocations(s) PROVE PositionTypeOK' /\ CallsOK'
    BY <1>5 DEF SetStrategyAllocations, PositionTypeOK, CallsOK
  <1>6. CASE Tick
    BY <1>6 DEF Tick, PositionTypeOK, CallsOK
  <1>7. CASE UNCHANGED vars
    BY <1>7 DEF vars, PositionTypeOK, CallsOK
  <1> QED BY <1>1, <1>2, <1>3, <1>4, <1>5, <1>6, <1>7 DEF Next

\* However fills, ticks and allocations interleave, prices stay non-negative and
\* every walk stays within the book (engine.rs, pnl.rs, risk_state.rs).
THEOREM PositionTypes == Spec => []PositionTypeOK
  <1>1. PositionTypeOK /\ CallsOK /\ [Next]_vars => PositionTypeOK' /\ CallsOK'
    BY PositionTypeNext
  <1> QED BY <1>1, PositionTypeInit, PTL DEF Spec

(***************************************************************************)
(* Conservation of cash                                                    *)
(***************************************************************************)
\* Realized PnL beyond the cash that moved and the basis of what is held.
Gap(realized, paid, qty, avg) == realized - paid - qty * avg

\* One fill: outside scaling the balance is exact; scaling in shifts it by the
\* truncation of the new average; a position the fill flattens has no price.
LEMMA FillConserves ==
    ASSUME NEW qty \in Int, NEW avg \in Nat, NEW f \in FillInput, NEW realized \in Int,
           NEW paid \in Int, qty = 0 => avg = 0
    PROVE  LET q == qty + Signed(f)
               v == NewAvg(qty, avg, f)
               old == Gap(realized, paid, qty, avg)
               new == Gap(realized + DeltaRealized(qty, avg, f), paid - Signed(f) * f.px, q, v)
               bound == IF SameDirection(qty, f) THEN Abs(qty) + f.qty - 1 ELSE 0
           IN /\ new - old \in (-bound)..bound
              /\ old \in Int /\ new \in Int /\ bound \in Nat
              /\ q = 0 => v = 0
  <1> DEFINE q == qty + Signed(f)
             v == NewAvg(qty, avg, f)
             dr == DeltaRealized(qty, avg, f)
             m == f.qty
             px == f.px
             moved == Signed(f) * px
             basis == qty * avg
             newBasis == q * v
             old == Gap(realized, paid, qty, avg)
             new == Gap(realized + dr, paid - moved, q, v)
             bound == IF SameDirection(qty, f) THEN Abs(qty) + m - 1 ELSE 0
  <1>1. /\ m \in Nat /\ px \in Nat /\ f.side \in {"Buy", "Sell"} /\ Abs(qty) \in Nat
        /\ Signed(f) = IF f.side = "Buy" THEN m ELSE -m
    BY DEF FillInput, Abs, Signed
  <1>2. Signed(f) \in Int /\ q \in Int /\ v \in Nat /\ dr \in Int
    BY AvgTyped
  <1>3. moved \in Int /\ basis \in Int /\ newBasis \in Int
    <2> HIDE DEF q, v
    <2> QED BY <1>1, <1>2, Products
  <1>4. /\ old = realized - paid - basis /\ new = (realized + dr) - (paid - moved) - newBasis
    BY DEF Gap
  <1>5. /\ old \in Int /\ new \in Int /\ new - old = dr + moved - newBasis + basis
    <2> HIDE DEF old, new, moved, basis, newBasis, dr
    <2> QED BY <1>2, <1>3, <1>4
  <1>6. bound \in Nat
    BY <1>1 DEF SameDirection, Abs
  <1>7. /\ dr + moved - newBasis + basis \in (-bound)..bound
        /\ q = 0 => v = 0
    <2>1. CASE m = 0
      <3>1. Signed(f) = 0 /\ q = qty /\ v = avg /\ dr = 0
        <4>1. Signed(f) = 0
          <5>1. CASE f.side = "Buy"
            BY <1>1, <2>1, <5>1
          <5>2. CASE f.side = "Sell"
            <6>1. Signed(f) = 0 - m
              BY <1>1, <5>2
            <6> QED BY <2>1, <6>1
          <5> QED BY <1>1, <5>1, <5>2
        <4>2. v = avg /\ dr = 0
          BY <2>1 DEF NewAvg, DeltaRealized
        <4> QED BY <4>1, <4>2
      <3>2. moved = 0 /\ newBasis = basis
        BY <1>1, <3>1
      <3> HIDE DEF moved, basis, newBasis, dr, bound, q, v
      <3> QED BY <1>3, <1>6, <3>1, <3>2
    <2>2. CASE m # 0 /\ qty = 0
      <3>1. v = px /\ dr = 0 /\ q = Signed(f) /\ Signed(f) # 0
        BY <1>1, <2>2 DEF NewAvg, DeltaRealized
      <3>2. moved = newBasis /\ basis = 0
        BY <2>2, <3>1
      <3> HIDE DEF moved, basis, newBasis, dr, bound, q, v
      <3> QED BY <1>2, <1>3, <1>6, <3>1, <3>2
    <2>3. CASE m # 0 /\ qty # 0 /\ SameDirection(qty, f)
      <3> DEFINE n == Abs(qty) + m
                 worth == Abs(qty) * avg + m * px
                 vol == n * v
      <3>1. v = Vwap(qty, avg, f) /\ dr = 0 /\ bound = n - 1
        <4>1. v = Vwap(qty, avg, f)
          BY <2>3 DEF NewAvg
        <4>2. dr = 0
          BY <2>3 DEF DeltaRealized
        <4>3. bound = n - 1
          BY <1>1, <2>3 DEF SameDirection
        <4> QED BY <4>1, <4>2, <4>3
      <3>2. n \in Nat \ {0} /\ worth \in Nat /\ worth - vol \in 0..(n - 1)
        BY <2>3, <3>1, VwapBounds
      <3>3. vol \in Int
        <4> HIDE DEF n, v
        <4> QED BY <1>2, <3>2, Products
      <3>4. CASE qty > 0 /\ f.side = "Buy"
        <4>1. Signed(f) = m /\ Abs(qty) = qty /\ q = n /\ q # 0
          BY <1>1, <3>2, <3>4 DEF Abs
        <4>2. moved = m * px /\ basis = Abs(qty) * avg /\ newBasis = vol
          BY <4>1
        <4>3. m * px \in Int /\ Abs(qty) * avg \in Int
          BY <1>1, Products
        <4>4. moved + basis = worth
          BY <4>2, <4>3
        <4> HIDE DEF moved, basis, newBasis, dr, bound, q, v, n, worth, vol
        <4> QED BY <1>3, <3>1, <3>2, <3>3, <4>1, <4>2, <4>4
      <3>5. CASE qty < 0 /\ f.side = "Sell"
        <4>1. Signed(f) = -m /\ Abs(qty) = -qty /\ q = -n /\ q # 0
          BY <1>1, <3>2, <3>5 DEF Abs
        <4>2. newBasis = -vol
          <5> HIDE DEF n, v, q
          <5> QED BY <1>2, <3>2, <4>1, Products
        <4>3. /\ moved = -(m * px) /\ basis = -(Abs(qty) * avg)
              /\ m * px \in Int /\ Abs(qty) * avg \in Int
          BY <1>1, <4>1, Products
        <4>4. moved + basis = -worth
          BY <4>3
        <4> HIDE DEF moved, basis, newBasis, dr, bound, q, v, n, worth, vol
        <4> QED BY <1>3, <3>1, <3>2, <3>3, <4>1, <4>2, <4>4
      <3> QED BY <2>3, <3>4, <3>5 DEF SameDirection
    <2>4. CASE m # 0 /\ qty # 0 /\ ~SameDirection(qty, f)
      <3> DEFINE closed == Least(Abs(qty), m)
                 sold == closed * px
                 cost == closed * avg
                 all == m * px
      <3>1. closed \in Nat /\ sold \in Int /\ cost \in Int /\ all \in Int /\ bound = 0
        BY <1>1, <2>4, Products DEF Least
      <3>2. \/ qty > 0 /\ f.side = "Sell" /\ Signed(f) = -m /\ Abs(qty) = qty /\ q = qty - m
            \/ qty < 0 /\ f.side = "Buy" /\ Signed(f) = m /\ Abs(qty) = -qty /\ q = qty + m
        BY <1>1, <2>4 DEF SameDirection, Abs
      <3>3. CASE qty > 0
        <4>1. /\ Signed(f) = -m /\ Abs(qty) = qty /\ q = qty - m
          BY <3>2, <3>3
        <4>2. dr = (px - avg) * closed
          BY <2>4, <3>3 DEF DeltaRealized
        <4>3. dr = sold - cost
          <5> HIDE DEF closed
          <5> QED BY <1>1, <3>1, <4>2, Products
        <4>4. moved = -all
          BY <1>1, <4>1, Products
        <4>5. newBasis - basis = sold - all - cost /\ (q = 0 => v = 0)
          <5>1. CASE m < qty
            <6>1. closed = m /\ v = avg /\ q # 0
              BY <1>1, <2>4, <4>1, <5>1 DEF Least, NewAvg
            <6>2. newBasis = basis - m * avg
              BY <1>1, <4>1, <6>1, Products
            <6> QED BY <1>3, <3>1, <6>1, <6>2
          <5>2. CASE m = qty
            <6>1. closed = m /\ v = 0 /\ q = 0
              BY <1>1, <2>4, <4>1, <5>2 DEF Least, NewAvg
            <6>2. newBasis = 0 /\ basis = cost /\ sold = all
              BY <5>2, <6>1
            <6> QED BY <1>3, <3>1, <6>1, <6>2
          <5>3. CASE m > qty
            <6>1. closed = qty /\ v = px /\ q # 0
              BY <1>1, <2>4, <4>1, <5>3 DEF Least, NewAvg
            <6>2. newBasis = sold - all /\ basis = cost
              BY <1>1, <4>1, <6>1, Products
            <6> QED BY <1>3, <3>1, <6>1, <6>2
          <5> QED BY <1>1, <5>1, <5>2, <5>3
        <4> HIDE DEF moved, basis, newBasis, dr, bound, q, v, sold, cost, all, closed
        <4> QED BY <1>3, <3>1, <4>3, <4>4, <4>5
      <3>4. CASE qty < 0
        <4>1. /\ Signed(f) = m /\ Abs(qty) = -qty /\ q = qty + m
          BY <3>2, <3>4
        <4>2. dr = (avg - px) * closed
          BY <2>4, <3>4 DEF DeltaRealized
        <4>3. dr = cost - sold
          <5> HIDE DEF closed
          <5> QED BY <1>1, <3>1, <4>2, Products
        <4>4. moved = all
          BY <4>1
        <4>5. newBasis - basis = all - sold + cost /\ (q = 0 => v = 0)
          <5>1. CASE m < -qty
            <6>1. closed = m /\ v = avg /\ q # 0
              BY <1>1, <2>4, <4>1, <5>1 DEF Least, NewAvg
            <6>2. newBasis = basis + m * avg
              BY <1>1, <4>1, <6>1, Products
            <6> QED BY <1>3, <3>1, <6>1, <6>2
          <5>2. CASE m = -qty
            <6>1. closed = m /\ v = 0 /\ q = 0 /\ qty = -m
              BY <1>1, <2>4, <4>1, <5>2 DEF Least, NewAvg
            <6>2. newBasis = 0 /\ basis = -cost /\ sold = all
              BY <1>1, <6>1, Products
            <6> QED BY <1>3, <3>1, <6>1, <6>2
          <5>3. CASE m > -qty
            <6>1. closed = -qty /\ v = px /\ q # 0
              BY <1>1, <2>4, <4>1, <5>3 DEF Least, NewAvg
            <6>2. newBasis = all - sold /\ basis = -cost
              BY <1>1, <4>1, <6>1, Products
            <6> QED BY <1>3, <3>1, <6>1, <6>2
          <5> QED BY <1>1, <5>1, <5>2, <5>3
        <4> HIDE DEF moved, basis, newBasis, dr, bound, q, v, sold, cost, all, closed
        <4> QED BY <1>3, <3>1, <4>3, <4>4, <4>5
      <3> QED BY <2>4, <3>3, <3>4
    <2> QED BY <2>1, <2>2, <2>3, <2>4
  <1> QED BY <1>5, <1>6, <1>7

\* Whatever leaves quantities, prices, realized PnL and cash alone conserves them.
LEMMA QuietConserves ==
    ASSUME CashConserved, UNCHANGED <<cash, slack>>,
           \A s \in Symbols : /\ book'[s].qty = book[s].qty /\ book'[s].avg = book[s].avg
                              /\ book'[s].realized = book[s].realized
    PROVE  CashConserved'
  BY DEF CashConserved, Drift

\* One fill, folded into the book.
LEMMA ApplyFillConserves ==
    ASSUME PositionTypeOK, CashConserved, NEW t \in FillTasks, NEW f \in Fills, ApplyFill(t, f)
    PROVE  CashConserved'
  <1> DEFINE s == f.symbol
             p == book[s]
             extra == IF SameDirection(p.qty, f) THEN Abs(p.qty) + f.qty - 1 ELSE 0
             old == Gap(p.realized, cash[s], p.qty, p.avg)
             new == Gap(p.realized + DeltaRealized(p.qty, p.avg, f), cash[s] - Signed(f) * f.px,
                        p.qty + Signed(f), NewAvg(p.qty, p.avg, f))
  <1>1. /\ f \in FillInput /\ s \in Symbols /\ p \in Position /\ cash[s] \in Int
        /\ slack[s] \in Nat /\ book \in [Symbols -> Position] /\ cash \in [Symbols -> Int]
        /\ slack \in [Symbols -> Nat]
    BY PositionAssumption DEF FillInput, PositionTypeOK
  <1>2. p.qty \in Int /\ p.avg \in Nat /\ p.realized \in Int /\ (p.qty = 0 => p.avg = 0)
    BY <1>1 DEF Position, CashConserved
  <1>3. /\ new - old \in (-extra)..extra /\ old \in Int /\ new \in Int /\ extra \in Nat
        /\ p.qty + Signed(f) = 0 => NewAvg(p.qty, p.avg, f) = 0
    BY <1>1, <1>2, FillConserves
  <1>4. /\ book' = [book EXCEPT ![s] = Filled(p, f)]
        /\ cash' = [cash EXCEPT ![s] = @ - Signed(f) * f.px]
        /\ slack' = [slack EXCEPT ![s] =
                       IF SameDirection(p.qty, f) THEN @ + Abs(p.qty) + f.qty - 1 ELSE @]
    BY DEF ApplyFill
  <1>5. slack'[s] = slack[s] + extra
    <2>1. Abs(p.qty) \in Nat /\ f.qty \in Nat
      BY <1>1, <1>2 DEF Abs, FillInput
    <2>2. CASE SameDirection(p.qty, f)
      BY <1>1, <1>4, <2>1, <2>2
    <2>3. CASE ~SameDirection(p.qty, f)
      BY <1>1, <1>4, <2>3
    <2> QED BY <2>2, <2>3
  <1>6. /\ book'[s].realized = p.realized + DeltaRealized(p.qty, p.avg, f)
        /\ book'[s].qty = p.qty + Signed(f) /\ book'[s].avg = NewAvg(p.qty, p.avg, f)
        /\ cash'[s] = cash[s] - Signed(f) * f.px
    BY <1>1, <1>4 DEF Filled
  <1>7. Drift(s)' = new /\ Drift(s) = old
    BY <1>6 DEF Drift, Gap
  <1>8. -slack[s] <= old /\ old <= slack[s]
    BY <1>1, <1>7 DEF CashConserved
  <1>9. -slack'[s] <= Drift(s)' /\ Drift(s)' <= slack'[s]
    <2> HIDE DEF old, new, extra
    <2> QED BY <1>1, <1>3, <1>5, <1>7, <1>8
  <1>10. ASSUME NEW z \in Symbols, z # s
         PROVE  book'[z] = book[z] /\ cash'[z] = cash[z] /\ slack'[z] = slack[z]
    BY <1>1, <1>4, <1>10
  <1> SUFFICES ASSUME NEW z \in Symbols
               PROVE  /\ -slack'[z] <= Drift(z)' /\ Drift(z)' <= slack'[z]
                      /\ book'[z].qty = 0 => book'[z].avg = 0
    BY DEF CashConserved
  <1>11. CASE z = s
    <2> HIDE DEF s
    <2> QED BY <1>3, <1>6, <1>9, <1>11
  <1>12. CASE z # s
    BY <1>10, <1>12 DEF CashConserved, Drift
  <1> QED BY <1>11, <1>12

\* Marks, walks and publications leave the balance alone.
LEMMA ConservedNext ==
    ASSUME PositionTypeOK, CashConserved, [Next]_vars
    PROVE  CashConserved'
  <1>1. ASSUME NEW t \in FillTasks, NEW f \in Fills, ApplyFill(t, f) PROVE CashConserved'
    BY <1>1, ApplyFillConserves
  <1>2. ASSUME NEW t \in TickTasks, NEW s \in Symbols, NEW px \in Marks, ApplyTick(t, s, px)
        PROVE  CashConserved'
    <2>1. book' = [book EXCEPT ![s] = Marked(@, px)] /\ UNCHANGED <<cash, slack>>
      BY <1>2 DEF ApplyTick
    <2>2. \A z \in Symbols : /\ book'[z].qty = book[z].qty /\ book'[z].avg = book[z].avg
                             /\ book'[z].realized = book[z].realized
      BY <2>1 DEF PositionTypeOK, Position, Marked
    <2> QED BY <2>1, <2>2, QuietConserves
  <1>3. CASE UNCHANGED <<book, cash, slack>>
    BY <1>3, QuietConserves
  <1> QED BY <1>1, <1>2, <1>3
       DEF Next, ThrottleUpdate, Recompute, WalkPosition, ReadPeak, StoreAggregate, Publish, Send,
           SetStrategyAllocations, Tick, vars

\* However fills open, scale, close and flip, and however the tasks interleave,
\* realized PnL is the cash that moved plus the basis of what is held, up to the
\* truncations of the average price (R8.6, pnl.rs 105-190).
THEOREM CashIsConserved == Spec => []CashConserved
  <1>1. Init => CashConserved
    BY DEF Init, CashConserved, Drift, Flat
  <1>2. PositionTypeOK /\ CashConserved /\ [Next]_vars => CashConserved'
    BY ConservedNext
  <1> QED BY <1>1, <1>2, PositionTypes, PTL DEF Spec

(***************************************************************************)
(* Calls that run by themselves                                            *)
(*                                                                         *)
(* With the two tasks of the binary the peak can fall: a call that read    *)
(* the peak before another one raised it stores the older value.  `alone'  *)
(* says that the last call to begin found no other one running, and that   *)
(* none has begun since.                                                   *)
(***************************************************************************)
\* Then it is the only one that can be running.
Solo == alone => \A t, u \in Tasks : posCall[t].pc # "idle" /\ posCall[u].pc # "idle" => t = u

\* A call that begins by itself finds every task idle, and changes only its own.
LEMMA BeginSolo ==
    ASSUME posCall \in [Tasks -> PosCall], NEW t \in Tasks, NEW kind, NEW s,
           NEW l \in {"throttle", "walk"}, Begin(t, kind, s, l), alone'
    PROVE  \A u \in Tasks \ {t} : posCall'[u].pc = "idle"
  <1>1. Quiet
    BY Zenon DEF Begin
  <1>2. posCall' = [posCall EXCEPT ![t] = posCall'[t]]
    BY DEF Begin
  <1> QED BY <1>1, <1>2 DEF Quiet, At

\* A running call that moves on leaves the other tasks as they are.
LEMMA CallMoves ==
    ASSUME posCall \in [Tasks -> PosCall], NEW t \in Tasks, ThrottleUpdate(t) \/ Recompute(t)
    PROVE  /\ posCall[t].pc # "idle" /\ alone' = alone
           /\ \A u \in Tasks \ {t} : posCall'[u] = posCall[u]
  BY DEF ThrottleUpdate, Recompute, WalkPosition, ReadPeak, StoreAggregate, Publish, Send, At

\* So it finds them idle, and leaves them idle, when it runs by itself.
LEMMA SoloMoves ==
    ASSUME posCall \in [Tasks -> PosCall], Solo, alone', NEW t \in Tasks,
           ThrottleUpdate(t) \/ Recompute(t)
    PROVE  alone /\ \A u \in Tasks \ {t} : posCall'[u].pc = "idle"
  <1>1. /\ posCall[t].pc # "idle" /\ alone' = alone
        /\ \A u \in Tasks \ {t} : posCall'[u] = posCall[u]
    BY CallMoves
  <1>2. alone
    BY <1>1, Zenon
  <1>3. \A u \in Tasks : posCall[u].pc # "idle" => t = u
    BY <1>1, <1>2, Zenon DEF Solo
  <1> QED BY <1>1, <1>2, <1>3

\* No step makes a second call of one that runs by itself.
LEMMA SoloNext ==
    ASSUME PositionTypeOK, Solo, [Next]_vars
    PROVE  Solo'
  <1>0. posCall \in [Tasks -> PosCall] /\ TickTasks \subseteq Tasks /\ FillTasks \subseteq Tasks
    BY DEF PositionTypeOK, Tasks
  <1> SUFFICES ASSUME alone'
               PROVE  \A t, u \in Tasks :
                         posCall'[t].pc # "idle" /\ posCall'[u].pc # "idle" => t = u
    BY Zenon DEF Solo
  <1>1. ASSUME NEW t \in Tasks, \A u \in Tasks \ {t} : posCall'[u].pc = "idle"
        PROVE  \A v, u \in Tasks : posCall'[v].pc # "idle" /\ posCall'[u].pc # "idle" => v = u
    BY <1>1
  <1>2. ASSUME NEW t \in FillTasks, NEW f \in Fills, ApplyFill(t, f)
        PROVE  \A u \in Tasks \ {t} : posCall'[u].pc = "idle"
    <2>1. Begin(t, "fill", f.symbol, "walk")
      BY <1>2 DEF ApplyFill
    <2> QED BY <1>0, <2>1, BeginSolo
  <1>3. ASSUME posCall' = posCall, alone' = alone
        PROVE  \A t, u \in Tasks :
                  posCall'[t].pc # "idle" /\ posCall'[u].pc # "idle" => t = u
    BY <1>3, Zenon DEF Solo
  <1>4. ASSUME NEW t \in TickTasks, NEW s \in Symbols, NEW px \in Marks, ApplyTick(t, s, px)
        PROVE  \A v, u \in Tasks :
                  posCall'[v].pc # "idle" /\ posCall'[u].pc # "idle" => v = u
    <2>1. CASE book[s].qty = 0
      BY <1>3, <1>4, <2>1 DEF ApplyTick
    <2>2. CASE book[s].qty # 0
      <3>1. Begin(t, "tick", s, "throttle")
        BY <1>4, <2>2 DEF ApplyTick
      <3> QED BY <1>0, <1>1, <3>1, BeginSolo
    <2> QED BY <2>1, <2>2
  <1>5. ASSUME NEW t \in Tasks, ThrottleUpdate(t) \/ Recompute(t)
        PROVE  \A u \in Tasks \ {t} : posCall'[u].pc = "idle"
    BY <1>0, <1>5, SoloMoves
  <1>6. CASE UNCHANGED <<posCall, alone>>
    BY <1>3, <1>6
  <1> QED BY <1>0, <1>1, <1>2, <1>4, <1>5, <1>6 DEF Next, SetStrategyAllocations, Tick, vars

\* At boot nothing runs.
LEMMA SoloInit == Init => Solo
  BY DEF Init, Solo, IdlePosCall

\* A call that is about to store, and runs by itself, read the peak that still stands.
PeakInv ==
    alone => \A t \in Tasks : posCall[t].pc = "store" => posCall[t].prevPeak = aggregate.peak

\* Every step keeps it, and keeps the peak of a call that runs by itself.
LEMMA PeakNext ==
    ASSUME PositionTypeOK, Solo, PeakInv, [Next]_vars
    PROVE  PeakInv' /\ (alone => aggregate'.peak >= aggregate.peak)
  <1>0. /\ posCall \in [Tasks -> PosCall] /\ aggregate \in RiskState /\ aggregate.peak \in Int
        /\ TickTasks \subseteq Tasks /\ FillTasks \subseteq Tasks
    BY DEF PositionTypeOK, RiskState, Tasks
  <1>1. ASSUME NEW t \in Tasks, alone', posCall'[t].pc # "store",
               \A u \in Tasks \ {t} : posCall'[u].pc = "idle"
        PROVE  \A u \in Tasks : posCall'[u].pc = "store" => posCall'[u].prevPeak = aggregate'.peak
    BY <1>1
  <1>2. ASSUME NEW t \in Tasks, ThrottleUpdate(t) \/ Recompute(t), alone
        PROVE  /\ \A u \in Tasks :
                     posCall'[u].pc = "store" => posCall'[u].prevPeak = aggregate'.peak
               /\ aggregate'.peak >= aggregate.peak
    <2>0. alone'
      BY <1>0, <1>2, CallMoves, Zenon
    <2>1. \A u \in Tasks \ {t} : posCall'[u].pc = "idle"
      BY <1>0, <1>2, <2>0, SoloMoves
    <2>2. CASE StoreAggregate(t)
      <3> DEFINE c == posCall[t]
                 new == AggregateState(c.exposure, c.realized, c.unrealized, c.prevPeak)
      <3>1. c.pc = "store" /\ c.realized \in Int /\ c.unrealized \in Int
        BY <1>0, <2>2 DEF StoreAggregate, At, PosCall
      <3>2. c.prevPeak = aggregate.peak
        BY <1>2, <3>1, Zenon DEF PeakInv
      <3>3. new.peak = Greatest(BaseCapital + c.realized + c.unrealized, c.prevPeak)
        BY DEF AggregateState, PeakEquity
      <3>4. new.peak >= aggregate.peak
        BY <1>0, <3>1, <3>2, <3>3, PositionAssumption DEF Greatest
      <3>5. aggregate' = new /\ posCall'[t].pc = "publish"
        BY <1>0, <2>2 DEF StoreAggregate, PosCall
      <3> HIDE DEF new
      <3> QED BY <1>1, <2>0, <2>1, <3>4, <3>5
    <2>3. CASE ReadPeak(t)
      <3>1. aggregate' = aggregate /\ posCall'[t].prevPeak = aggregate.peak
        BY <1>0, <2>3 DEF ReadPeak, PosCall
      <3> QED BY <1>0, <2>1, <3>1
    <2>4. CASE WalkPosition(t)
      <3>1. /\ aggregate' = aggregate
            /\ posCall'[t].pc = IF posCall[t].next = NumSymbols THEN "peak" ELSE "walk"
        BY <1>0, <2>4 DEF WalkPosition, PosCall
      <3> QED BY <1>0, <1>1, <2>0, <2>1, <3>1
    <2>5. CASE Publish(t) \/ Send(t) \/ ThrottleUpdate(t)
      <3>1. aggregate' = aggregate /\ posCall'[t].pc \in {"send", "idle", "walk"}
        BY <1>0, <2>5 DEF Publish, Send, ThrottleUpdate, IdlePosCall, PosCall
      <3> QED BY <1>0, <1>1, <2>0, <2>1, <3>1
    <2> QED BY <1>2, <2>2, <2>3, <2>4, <2>5 DEF Recompute
  <1>3. ASSUME NEW t \in Tasks, NEW kind, NEW s, NEW l \in {"throttle", "walk"},
               Begin(t, kind, s, l), alone'
        PROVE  \A u \in Tasks : posCall'[u].pc = "store" => posCall'[u].prevPeak = aggregate'.peak
    <2>1. posCall'[t].pc = l
      BY <1>0, <1>3 DEF Begin, IdlePosCall
    <2> QED BY <1>0, <1>1, <1>3, <2>1, BeginSolo
  <1>4. ASSUME NEW t \in FillTasks, NEW f \in Fills, ApplyFill(t, f)
        PROVE  PeakInv' /\ aggregate' = aggregate
    <2>1. Begin(t, "fill", f.symbol, "walk") /\ aggregate' = aggregate
      BY <1>4 DEF ApplyFill
    <2> QED BY <1>0, <1>3, <2>1 DEF PeakInv
  <1>5. ASSUME NEW t \in TickTasks, NEW s \in Symbols, NEW px \in Marks, ApplyTick(t, s, px)
        PROVE  PeakInv' /\ aggregate' = aggregate
    <2>1. CASE book[s].qty = 0
      BY <1>5, <2>1 DEF ApplyTick, PeakInv
    <2>2. CASE book[s].qty # 0
      <3>1. Begin(t, "tick", s, "throttle") /\ aggregate' = aggregate
        BY <1>5, <2>2 DEF ApplyTick
      <3> QED BY <1>0, <1>3, <3>1 DEF PeakInv
    <2> QED BY <2>1, <2>2
  <1>6. ASSUME NEW t \in Tasks, ThrottleUpdate(t) \/ Recompute(t)
        PROVE  PeakInv' /\ (alone => aggregate'.peak >= aggregate.peak)
    <2>1. alone' = alone
      BY <1>0, <1>6, CallMoves
    <2> QED BY <1>2, <1>6, <2>1 DEF PeakInv
  <1>7. CASE UNCHANGED <<aggregate, posCall, alone>>
    BY <1>0, <1>7 DEF PeakInv
  <1> QED BY <1>0, <1>4, <1>5, <1>6, <1>7 DEF Next, SetStrategyAllocations, Tick, vars

\* Under any interleaving of fills and ticks, only a call that another one overlaps
\* can lower the peak ("monotonic across the session", risk_state.rs 82-83): one
\* that runs by itself stores an aggregate that dominates the last one.
THEOREM PeakRises == Spec => PeakHolds
  <1>1. Init => PeakInv
    BY DEF Init, PeakInv, IdlePosCall
  <1>2. PositionTypeOK /\ Solo /\ PeakInv /\ [Next]_vars
          => PeakInv' /\ [alone => aggregate'.peak >= aggregate.peak]_vars
    BY PeakNext
  <1>3. PositionTypeOK /\ Solo /\ [Next]_vars => Solo'
    BY SoloNext
  <1> QED BY <1>1, <1>2, <1>3, SoloInit, PositionTypes, PTL DEF Spec, PeakHolds

(***************************************************************************)
(* The aggregate                                                           *)
(***************************************************************************)
\* The partial sums of a function over the symbols, as the equation they solve.
SumsBy(f, u) == u = [n \in 0..NumSymbols |-> IF n = 0 THEN 0 ELSE u[n - 1] + f[n]]
UpTo(f) == CHOOSE u : SumsBy(f, u)

\* They are numbers, each one the last and the next value, and end in the sum.
LEMMA SumsUp ==
    ASSUME NEW f \in [Symbols -> Int]
    PROVE  /\ SumOver(f) = UpTo(f)[NumSymbols]
           /\ UpTo(f)[0] = 0
           /\ \A n \in 0..NumSymbols : UpTo(f)[n] \in Int
           /\ \A n \in Symbols : UpTo(f)[n] = UpTo(f)[n - 1] + f[n]
  <1> DEFINE op == [p \in (1..NumSymbols) \X Int |-> p[2] + f[p[1]]]
             u == UpTo(f)
  <1>0. NumSymbols \in Nat
    BY PositionAssumption
  <1>1. SumOver(f) = u[NumSymbols]
    BY DEF SumOver, UpTo, SumsBy
  <1>2. op \in [(1..NumSymbols) \X Int -> Int]
    BY DEF Symbols
  <1>3. \A n \in 1..NumSymbols, v \in Int : op[<<n, v>>] = v + f[n]
    OBVIOUS
  <1> HIDE DEF op
  <1>4. NumberSteps(NumSymbols, Int, 0, op)
    BY <1>0, <1>2 DEF NumberSteps
  <1>5. PICK h : NumberSolution(NumSymbols, Int, 0, op, h)
    BY <1>4, NumberRecursion
  <1>6. SumsBy(f, h)
    <2>1. h \in [0..NumSymbols -> Int] /\ h[0] = 0
      BY <1>5 DEF NumberSolution
    <2>2. ASSUME NEW n \in 0..NumSymbols, n # 0 PROVE h[n] = h[n - 1] + f[n]
      <3>1. n \in 1..NumSymbols /\ n - 1 \in 0..NumSymbols
        BY <1>0, <2>2
      <3>2. h[n] = op[<<n, h[n - 1]>>] /\ h[n - 1] \in Int
        BY <1>5, <2>1, <3>1 DEF NumberSolution
      <3> QED BY <1>3, <3>1, <3>2
    <2> QED BY <2>1, <2>2 DEF SumsBy
  <1>7. SumsBy(f, u)
    BY <1>6 DEF UpTo
  <1> HIDE DEF u
  <1>8. /\ u[0] = 0
        /\ \A n \in 1..NumSymbols : u[n] = u[n - 1] + f[n]
    <2>1. \A n \in 0..NumSymbols : u[n] = IF n = 0 THEN 0 ELSE u[n - 1] + f[n]
      BY <1>7 DEF SumsBy
    <2>2. 0 \in 0..NumSymbols /\ \A n \in 1..NumSymbols : n \in 0..NumSymbols /\ n # 0
      BY <1>0
    <2> QED BY <2>1, <2>2
  <1> DEFINE T == {n \in 0..NumSymbols : u[n] \in Int}
  <1>9. 0 \in T
    BY <1>0, <1>8
  <1>10. ASSUME NEW n \in 0..NumSymbols, n \in T, n < NumSymbols PROVE n + 1 \in T
    <2>1. n + 1 \in 1..NumSymbols /\ (n + 1) - 1 = n
      BY <1>0, <1>10
    <2>2. f[n + 1] \in Int
      BY <2>1 DEF Symbols
    <2>3. u[n + 1] = u[n] + f[n + 1]
      BY <1>8, <2>1
    <2> QED BY <1>10, <2>1, <2>2, <2>3
  <1>11. 0..NumSymbols \subseteq T
    <2> HIDE DEF T
    <2> QED BY <1>0, <1>9, <1>10, NumberInduction
  <1> QED BY <1>1, <1>8, <1>11 DEF u, Symbols

\* What each position of a book adds to the exposure and to the equity.
Exposures(b) == [s \in Symbols |-> Exposure(b[s])]
Worths(b) == [s \in Symbols |-> b[s].realized + Unrealized(b[s].qty, b[s].avg, b[s].mark)]

\* They are integers.
LEMMA WorthsTyped ==
    ASSUME NEW b \in [Symbols -> Position]
    PROVE  Exposures(b) \in [Symbols -> Int] /\ Worths(b) \in [Symbols -> Int]
  <1>1. ASSUME NEW s \in Symbols
        PROVE  /\ Exposure(b[s]) \in Int
               /\ b[s].realized + Unrealized(b[s].qty, b[s].avg, b[s].mark) \in Int
    <2>1. /\ b[s].qty \in Int /\ b[s].avg \in Nat /\ b[s].mark \in Nat
          /\ b[s].realized \in Int
      BY DEF Position
    <2>2. Abs(b[s].qty) \in Int /\ b[s].avg \in Int
      BY <2>1 DEF Abs
    <2>3. Exposure(b[s]) \in Int
      BY <2>2, Products DEF Exposure
    <2>4. Unrealized(b[s].qty, b[s].avg, b[s].mark) \in Int
      BY <2>1, UnrealizedTyped
    <2> QED BY <2>1, <2>3, <2>4
  <1> QED BY <1>1 DEF Exposures, Worths

\* The state a describes the book b.
Describes(a, b) ==
    /\ a.exposure = SumOver(Exposures(b))
    /\ a.peak - a.drawdown = BaseCapital + SumOver(Worths(b))

\* A call has summed up the first n positions of the book b.
SummedTo(c, b, n) ==
    /\ c.exposure = UpTo(Exposures(b))[n]
    /\ c.realized + c.unrealized = UpTo(Worths(b))[n]

\* While a call runs by itself its walk has the sums of the positions behind it,
\* and what it stores, publishes and leaves is accurate.
AloneInv ==
    /\ Quiet => /\ Describes(aggregate, book)
                /\ published # NothingPublished => Describes(published, book)
    /\ \A t \in Tasks :
          /\ posCall[t].pc \in {"throttle", "walk"} => SummedTo(posCall[t], book, posCall[t].next - 1)
          /\ posCall[t].pc \in {"peak", "store"} => SummedTo(posCall[t], book, NumSymbols)
          /\ posCall[t].pc \in {"publish", "send"} => Describes(aggregate, book)
          /\ posCall[t].pc = "publish" => posCall[t].result = aggregate
          /\ posCall[t].pc = "send" => published = aggregate

\* The unrealized profit a position caches is current, in any interleaving.
CachedInv ==
    \A s \in Symbols : book[s].unrealized = Unrealized(book[s].qty, book[s].avg, book[s].mark)

AggregateInv ==
    /\ CachedInv
    /\ alone => AloneInv

\* The other tasks are idle after a step of t.
AloneSteps(t) == \A u \in Tasks \ {t} : posCall'[u].pc = "idle"

\* A call that begins has summed up nothing.
LEMMA BeginSums ==
    ASSUME posCall \in [Tasks -> PosCall], book' \in [Symbols -> Position], alone',
           NEW t \in Tasks, NEW kind, NEW s, NEW l \in {"throttle", "walk"},
           Begin(t, kind, s, l)
    PROVE  AloneInv'
  <1>1. /\ posCall'[t].pc = l /\ posCall'[t].next = 1 /\ posCall'[t].exposure = 0
        /\ posCall'[t].realized = 0 /\ posCall'[t].unrealized = 0
    BY DEF Begin, IdlePosCall
  <1>2. Exposures(book') \in [Symbols -> Int] /\ Worths(book') \in [Symbols -> Int]
    BY WorthsTyped
  <1>3. UpTo(Exposures(book'))[0] = 0 /\ UpTo(Worths(book'))[0] = 0
    BY <1>2, SumsUp
  <1>4. SummedTo(posCall'[t], book', posCall'[t].next - 1)
    BY <1>1, <1>3 DEF SummedTo
  <1>5. \A u \in Tasks \ {t} : posCall'[u].pc = "idle"
    BY BeginSolo
  <1>6. ~Quiet'
    BY <1>1 DEF Quiet, At
  <1> QED BY <1>1, <1>4, <1>5, <1>6 DEF AloneInv

\* A call that moves on without a new sum.
LEMMA MoveKeepsSums ==
    ASSUME AloneInv, NEW t \in Tasks, AloneSteps(t), posCall[t].pc # "idle", posCall'[t].pc # "idle",
           book' = book,
           \/ /\ posCall[t].pc = "throttle" /\ posCall'[t].pc = "walk"
              /\ posCall'[t].next = posCall[t].next
           \/ posCall[t].pc = "peak" /\ posCall'[t].pc = "store",
           posCall'[t].exposure = posCall[t].exposure,
           posCall'[t].realized = posCall[t].realized,
           posCall'[t].unrealized = posCall[t].unrealized
    PROVE  AloneInv'
  <1>1. \A u \in Tasks \ {t} : posCall'[u].pc = "idle"
    BY DEF AloneSteps
  <1>2. ~Quiet'
    BY DEF Quiet, At
  <1> QED BY <1>1, <1>2 DEF AloneInv, SummedTo

\* The walk adds one position to the sums.
LEMMA WalkSums ==
    ASSUME PositionTypeOK, CallsOK, CachedInv, AloneInv, NEW t \in Tasks, AloneSteps(t),
           WalkPosition(t)
    PROVE  AloneInv'
  <1> DEFINE c == posCall[t]
             p == book[c.next]
             n == c.next
             E == UpTo(Exposures(book))
             W == UpTo(Worths(book))
  <1>0. posCall \in [Tasks -> PosCall] /\ c \in PosCall /\ NumSymbols \in Nat
    BY PositionAssumption DEF PositionTypeOK
  <1>1. c.pc = "walk" /\ n \in Symbols /\ p \in Position /\ book' = book
    BY DEF WalkPosition, At, CallsOK, PositionTypeOK
  <1>2. /\ posCall'[t].exposure = c.exposure + Exposure(p)
        /\ posCall'[t].realized = c.realized + p.realized
        /\ posCall'[t].unrealized = c.unrealized + p.unrealized
        /\ posCall'[t].next = n + 1
        /\ posCall'[t].pc = IF n = NumSymbols THEN "peak" ELSE "walk"
    BY <1>0 DEF WalkPosition, PosCall
  <1>3. c.exposure = E[n - 1] /\ c.realized + c.unrealized = W[n - 1]
    BY <1>1 DEF AloneInv, SummedTo
  <1>4. p.unrealized = Unrealized(p.qty, p.avg, p.mark)
    BY <1>1 DEF CachedInv
  <1>5. Exposures(book) \in [Symbols -> Int] /\ Worths(book) \in [Symbols -> Int]
    BY WorthsTyped DEF PositionTypeOK
  <1>6. /\ E[n] = E[n - 1] + Exposures(book)[n]
        /\ W[n] = W[n - 1] + Worths(book)[n]
    BY <1>1, <1>5, SumsUp
  <1>7. Exposures(book)[n] = Exposure(p) /\ Worths(book)[n] = p.realized + p.unrealized
    BY <1>1, <1>4 DEF Exposures, Worths
  <1>8. /\ c.realized \in Int /\ c.unrealized \in Int /\ p.realized \in Int /\ p.unrealized \in Int
        /\ n \in Int
    BY <1>0, <1>1 DEF PosCall, Position, Symbols
  <1> HIDE DEF E, W, p, n
  <1>9. posCall'[t].exposure = E[n] /\ posCall'[t].realized + posCall'[t].unrealized = W[n]
    <2>1. posCall'[t].exposure = E[n]
      BY <1>2, <1>3, <1>6, <1>7
    <2>2. \A x, y, z, w \in Int : (x + z) + (y + w) = (x + y) + (z + w)
      OBVIOUS
    <2>3. (c.realized + p.realized) + (c.unrealized + p.unrealized)
             = (c.realized + c.unrealized) + (p.realized + p.unrealized)
      BY <1>8, <2>2
    <2> QED BY <1>2, <1>3, <1>6, <1>7, <2>1, <2>3
  <1>10. SummedTo(posCall'[t], book', n)
    BY <1>1, <1>9 DEF SummedTo, E, W
  <1>11. \A u \in Tasks \ {t} : posCall'[u].pc = "idle"
    BY DEF AloneSteps
  <1>12. ~Quiet'
    BY <1>2 DEF Quiet, At
  <1>13. (n + 1) - 1 = n
    BY <1>8
  <1>14. CASE n = NumSymbols
    BY <1>1, <1>2, <1>10, <1>11, <1>12, <1>14 DEF AloneInv
  <1>15. CASE n # NumSymbols
    BY <1>1, <1>2, <1>10, <1>11, <1>12, <1>13, <1>15 DEF AloneInv
  <1> QED BY <1>14, <1>15

\* The aggregate that is stored describes the book.
LEMMA StoreDescribes ==
    ASSUME PositionTypeOK, AloneInv, NEW t \in Tasks, AloneSteps(t), StoreAggregate(t)
    PROVE  AloneInv'
  <1> DEFINE c == posCall[t]
             new == AggregateState(c.exposure, c.realized, c.unrealized, c.prevPeak)
             q == BaseCapital + c.realized + c.unrealized
  <1>0. posCall \in [Tasks -> PosCall] /\ c \in PosCall /\ BaseCapital \in Int
    BY PositionAssumption DEF PositionTypeOK
  <1>1. /\ c.pc = "store" /\ aggregate' = new /\ book' = book
        /\ posCall'[t].pc = "publish" /\ posCall'[t].result = new
    BY <1>0 DEF StoreAggregate, At, PosCall
  <1>2. /\ c.exposure = SumOver(Exposures(book))
        /\ c.realized + c.unrealized = SumOver(Worths(book))
    BY <1>1, WorthsTyped, SumsUp DEF AloneInv, SummedTo, PositionTypeOK
  <1>3. c.realized \in Int /\ c.unrealized \in Int /\ c.prevPeak \in Int
    BY <1>0 DEF PosCall
  <1>4. q \in Int /\ q = BaseCapital + (c.realized + c.unrealized)
    BY <1>0, <1>3
  <1>5. /\ new.exposure = c.exposure /\ new.peak = Greatest(q, c.prevPeak)
        /\ new.drawdown = Greatest(new.peak - q, 0)
    BY DEF AggregateState, PeakEquity
  <1> HIDE DEF new, q
  <1>6. new.peak - new.drawdown = q
    BY <1>3, <1>4, <1>5 DEF Greatest
  <1>7. Describes(new, book)
    BY <1>2, <1>4, <1>5, <1>6 DEF Describes
  <1>8. \A u \in Tasks \ {t} : posCall'[u].pc = "idle"
    BY DEF AloneSteps
  <1>9. ~Quiet'
    BY <1>1 DEF Quiet, At
  <1> QED BY <1>1, <1>7, <1>8, <1>9 DEF AloneInv

\* What is published and left behind is what was stored.
LEMMA SendLeaves ==
    ASSUME PositionTypeOK, AloneInv, NEW t \in Tasks, AloneSteps(t), Publish(t) \/ Send(t)
    PROVE  AloneInv'
  <1>0. posCall \in [Tasks -> PosCall] /\ posCall[t] \in PosCall
    BY DEF PositionTypeOK
  <1>1. book' = book /\ aggregate' = aggregate
    BY DEF Publish, Send
  <1>2. \A u \in Tasks \ {t} : posCall'[u].pc = "idle"
    BY DEF AloneSteps
  <1>3. CASE Publish(t)
    <2>1. posCall[t].pc = "publish" /\ posCall'[t].pc = "send" /\ published' = posCall[t].result
      BY <1>0, <1>3 DEF Publish, At, PosCall
    <2>2. published' = aggregate /\ Describes(aggregate, book)
      BY <2>1 DEF AloneInv
    <2>3. ~Quiet'
      BY <2>1 DEF Quiet, At
    <2> QED BY <1>1, <1>2, <2>1, <2>2, <2>3 DEF AloneInv
  <1>4. CASE Send(t)
    <2>1. posCall[t].pc = "send" /\ posCall'[t].pc = "idle" /\ published' = published
      BY <1>0, <1>4 DEF Send, At, IdlePosCall
    <2>2. published' = aggregate /\ Describes(aggregate, book)
      BY <2>1 DEF AloneInv
    <2> QED BY <1>1, <1>2, <2>1, <2>2 DEF AloneInv
  <1> QED BY <1>3, <1>4

\* A mark on a flat position is worth nothing.
LEMMA FlatMark ==
    ASSUME NEW b \in [Symbols -> Position], NEW s \in Symbols, NEW px, b[s].qty = 0
    PROVE  /\ Exposures([b EXCEPT ![s] = Marked(@, px)]) = Exposures(b)
           /\ Worths([b EXCEPT ![s] = Marked(@, px)]) = Worths(b)
  <1> DEFINE d == [b EXCEPT ![s] = Marked(@, px)]
  <1>1. ASSUME NEW z \in Symbols
        PROVE  /\ d[z].qty = b[z].qty /\ d[z].avg = b[z].avg /\ d[z].realized = b[z].realized
               /\ z # s => d[z].mark = b[z].mark
    <2>1. b[z] \in Position
      OBVIOUS
    <2> QED BY <2>1 DEF Marked, Position
  <1> HIDE DEF d
  <1>2. ASSUME NEW z \in Symbols
        PROVE  /\ Exposure(d[z]) = Exposure(b[z])
               /\ Unrealized(d[z].qty, d[z].avg, d[z].mark) = Unrealized(b[z].qty, b[z].avg, b[z].mark)
    <2>1. CASE z = s
      BY <1>1, <2>1 DEF Unrealized, Exposure
    <2>2. CASE z # s
      BY <1>1, <2>2 DEF Exposure
    <2> QED BY <2>1, <2>2
  <1>3. Exposures(d) = Exposures(b) /\ Worths(d) = Worths(b)
    BY <1>1, <1>2 DEF Exposures, Worths
  <1> QED BY <1>3 DEF d

\* The unrealized profit a position caches follows its fills and its marks.
LEMMA CachedNext ==
    ASSUME PositionTypeOK, CachedInv, [Next]_vars
    PROVE  CachedInv'
  <1>0. book \in [Symbols -> Position]
    BY DEF PositionTypeOK
  <1>1. ASSUME NEW t \in FillTasks, NEW f \in Fills, ApplyFill(t, f) PROVE CachedInv'
    <2> DEFINE s == f.symbol
    <2>1. s \in Symbols /\ book' = [book EXCEPT ![s] = Filled(book[s], f)]
      BY <1>1, PositionAssumption DEF ApplyFill
    <2>2. ASSUME NEW z \in Symbols
          PROVE  book'[z].unrealized = Unrealized(book'[z].qty, book'[z].avg, book'[z].mark)
      <3>1. CASE z = s
        <4>1. book'[z] = Filled(book[s], f)
          BY <1>0, <2>1, <3>1
        <4> QED BY <4>1 DEF Filled
      <3>2. CASE z # s
        <4>1. book'[z] = book[z]
          BY <1>0, <2>1, <3>2
        <4> QED BY <4>1 DEF CachedInv
      <3> QED BY <3>1, <3>2
    <2> QED BY <2>2 DEF CachedInv
  <1>2. ASSUME NEW t \in TickTasks, NEW s \in Symbols, NEW px \in Marks, ApplyTick(t, s, px)
        PROVE  CachedInv'
    <2>1. book' = [book EXCEPT ![s] = Marked(@, px)]
      BY <1>2 DEF ApplyTick
    <2>2. ASSUME NEW z \in Symbols
          PROVE  book'[z].unrealized = Unrealized(book'[z].qty, book'[z].avg, book'[z].mark)
      <3>1. CASE z = s
        <4>1. book'[z] = Marked(book[s], px) /\ book[s] \in Position
          BY <1>0, <2>1, <3>1
        <4> QED BY <4>1 DEF Marked, Position
      <3>2. CASE z # s
        <4>1. book'[z] = book[z]
          BY <1>0, <2>1, <3>2
        <4> QED BY <4>1 DEF CachedInv
      <3> QED BY <3>1, <3>2
    <2> QED BY <2>2 DEF CachedInv
  <1>3. CASE book' = book
    BY <1>3 DEF CachedInv
  <1> QED BY <1>1, <1>2, <1>3
       DEF Next, ThrottleUpdate, Recompute, WalkPosition, ReadPeak, StoreAggregate, Publish, Send,
           SetStrategyAllocations, Tick, vars

\* Every step, whichever task takes it, keeps the aggregate of a call that runs by
\* itself accurate.
LEMMA AggregateNext ==
    ASSUME PositionTypeOK, CallsOK, PositionTypeOK', Solo, AggregateInv, [Next]_vars
    PROVE  AggregateInv'
  <1>0. /\ posCall \in [Tasks -> PosCall] /\ book \in [Symbols -> Position]
        /\ book' \in [Symbols -> Position]
        /\ TickTasks \subseteq Tasks /\ FillTasks \subseteq Tasks
    BY DEF PositionTypeOK, Tasks
  <1>a. CachedInv /\ (alone => AloneInv)
    BY Zenon DEF AggregateInv
  <1>b. CachedInv'
    BY <1>a, CachedNext
  <1> SUFFICES ASSUME alone' PROVE AloneInv'
    BY <1>b, Zenon DEF AggregateInv
  <1>1. ASSUME NEW t \in FillTasks, NEW f \in Fills, ApplyFill(t, f) PROVE AloneInv'
    <2>1. Begin(t, "fill", f.symbol, "walk")
      BY <1>1 DEF ApplyFill
    <2> QED BY <1>0, <2>1, BeginSums
  <1>2. ASSUME NEW t \in TickTasks, NEW s \in Symbols, NEW px \in Marks, ApplyTick(t, s, px)
        PROVE  AloneInv'
    <2>1. CASE book[s].qty = 0
      <3>1. /\ UNCHANGED <<aggregate, published, posCall, alone>>
            /\ book' = [book EXCEPT ![s] = Marked(@, px)]
        BY <1>2, <2>1 DEF ApplyTick
      <3>2. AloneInv
        BY <1>a, <3>1, Zenon
      <3>3. Exposures(book') = Exposures(book) /\ Worths(book') = Worths(book)
        BY <1>0, <2>1, <3>1, FlatMark
      <3>4. \A a : Describes(a, book') <=> Describes(a, book)
        BY <3>3 DEF Describes
      <3>5. \A c, n : SummedTo(c, book', n) <=> SummedTo(c, book, n)
        BY <3>3 DEF SummedTo
      <3>6. Quiet' <=> Quiet
        BY <3>1 DEF Quiet, At
      <3> QED BY <3>1, <3>2, <3>4, <3>5, <3>6 DEF AloneInv
    <2>2. CASE book[s].qty # 0
      <3>1. Begin(t, "tick", s, "throttle")
        BY <1>2, <2>2 DEF ApplyTick
      <3> QED BY <1>0, <3>1, BeginSums
    <2> QED BY <2>1, <2>2
  <1>3. ASSUME NEW t \in Tasks, ThrottleUpdate(t) \/ Recompute(t) PROVE AloneInv'
    <2>1. alone /\ AloneSteps(t)
      BY <1>0, <1>3, SoloMoves DEF AloneSteps
    <2>2. AloneInv
      BY <1>a, <2>1
    <2>3. CASE ThrottleUpdate(t) \/ ReadPeak(t)
      <3>1. /\ posCall[t].pc # "idle" /\ posCall'[t].pc # "idle" /\ book' = book
            /\ \/ /\ posCall[t].pc = "throttle" /\ posCall'[t].pc = "walk"
                  /\ posCall'[t].next = posCall[t].next
               \/ posCall[t].pc = "peak" /\ posCall'[t].pc = "store"
            /\ posCall'[t].exposure = posCall[t].exposure
            /\ posCall'[t].realized = posCall[t].realized
            /\ posCall'[t].unrealized = posCall[t].unrealized
        <4>1. CASE ThrottleUpdate(t)
          BY <1>0, <4>1 DEF ThrottleUpdate, At, PosCall
        <4>2. CASE ReadPeak(t)
          BY <1>0, <4>2 DEF ReadPeak, At, PosCall
        <4> QED BY <2>3, <4>1, <4>2
      <3> QED BY <2>1, <2>2, <3>1, MoveKeepsSums
    <2> QED BY <1>3, <1>a, <2>1, <2>2, <2>3, WalkSums, StoreDescribes, SendLeaves DEF Recompute
  <1>4. CASE UNCHANGED <<book, aggregate, published, posCall, alone>>
    <2>1. AloneInv
      BY <1>a, <1>4, Zenon
    <2> QED BY <1>4, <2>1 DEF AloneInv, Quiet, At
  <1> QED BY <1>0, <1>1, <1>2, <1>3, <1>4 DEF Next, SetStrategyAllocations, Tick, vars

\* Under any interleaving of fills and ticks, a call that runs by itself leaves the
\* aggregate and the last pos.risk_state describing the positions as they are, for
\* any number of symbols and whatever overlapping calls stored before it (R8.5,
\* engine.rs recompute_aggregate, risk_state.rs aggregate_state).
THEOREM AggregateStaysCurrent == Spec => []AggregateIsCurrent
  <1>1. Init => AggregateInv
    <2> SUFFICES ASSUME Init PROVE AggregateInv
      OBVIOUS
    <2> DEFINE Z == [s \in Symbols |-> 0]
    <2>1. /\ book = [s \in Symbols |-> Flat] /\ aggregate = Fresh(BaseCapital)
          /\ published = NothingPublished /\ \A t \in Tasks : posCall[t].pc = "idle"
      BY DEF Init, IdlePosCall
    <2>2. Exposures(book) = Z /\ Worths(book) = Z
      BY <2>1 DEF Exposures, Worths, Flat, Exposure, Unrealized, Abs
    <2>3. SumOver(Z) = 0
      <3> DEFINE u == UpTo(Z)
                 T == {n \in 0..NumSymbols : u[n] = 0}
      <3>0. NumSymbols \in Nat /\ Z \in [Symbols -> Int] /\ \A n \in Symbols : Z[n] = 0
        BY PositionAssumption
      <3> HIDE DEF Z
      <3>1. SumOver(Z) = u[NumSymbols] /\ u[0] = 0 /\ \A n \in Symbols : u[n] = u[n - 1] + Z[n]
        BY <3>0, SumsUp
      <3> HIDE DEF u
      <3>2. 0 \in T
        BY <3>0, <3>1
      <3>3. ASSUME NEW n \in 0..NumSymbols, n \in T, n < NumSymbols PROVE n + 1 \in T
        <4>1. n + 1 \in Symbols /\ (n + 1) - 1 = n /\ n + 1 \in 0..NumSymbols
          BY <3>0, <3>3 DEF Symbols
        <4>2. u[n + 1] = u[n] + 0
          BY <3>0, <3>1, <4>1
        <4> QED BY <3>3, <4>1, <4>2
      <3>4. NumSymbols \in T
        <4> HIDE DEF T
        <4>1. 0..NumSymbols \subseteq T
          BY <3>0, <3>2, <3>3, NumberInduction
        <4> QED BY <3>0, <4>1
      <3> QED BY <3>1, <3>4
    <2>4. Describes(aggregate, book)
      <3> HIDE DEF Z
      <3> QED BY <2>1, <2>2, <2>3, PositionAssumption DEF Describes, Fresh
    <2>5. CachedInv
      BY <2>1 DEF CachedInv, Flat, Unrealized
    <2> HIDE DEF Z
    <2>6. AloneInv
      BY <2>1, <2>4 DEF AloneInv
    <2> QED BY <2>5, <2>6, Zenon DEF AggregateInv
  <1>2. PositionTypeOK /\ CallsOK /\ PositionTypeOK' /\ Solo /\ AggregateInv /\ [Next]_vars
          => AggregateInv'
    BY AggregateNext
  <1>3. AggregateInv => AggregateIsCurrent
    <2>1. Describes(aggregate, book) <=> Accurate(aggregate)
      BY DEF Describes, Accurate, Exposures, Worths, Equity
    <2>2. Describes(published, book) <=> Accurate(published)
      BY DEF Describes, Accurate, Exposures, Worths, Equity
    <2> QED BY <2>1, <2>2, Zenon DEF AggregateInv, AloneInv, AggregateIsCurrent
  <1>4. PositionTypeOK /\ CallsOK /\ [Next]_vars => PositionTypeOK' /\ CallsOK'
    BY PositionTypeNext
  <1>5. PositionTypeOK /\ Solo /\ [Next]_vars => Solo'
    BY SoloNext
  <1> QED BY <1>1, <1>2, <1>3, <1>4, <1>5, PositionTypeInit, SoloInit, PTL DEF Spec
=============================================================================
