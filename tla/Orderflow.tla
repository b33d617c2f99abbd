------------------------------ MODULE Orderflow ------------------------------
(***************************************************************************)
(* The order-flow engine (crates/hedge-orderflow) for one symbol: the live *)
(* book, the bucketed window of aggressor volume, the event detector with  *)
(* its pending spoof candidates, and the heatmap.  The engine's mutex      *)
(* makes ingest_book and ingest_tick atomic; symbols do not interact.      *)
(***************************************************************************)
EXTENDS Integers, Sequences, SequencesExt

CONSTANTS
    BookUpdates,      \* books the feed may send: records with bid and ask, best level first
    FlowPrices, FlowQtys,   \* prices and quantities of trades
    MaxLevels,        \* MAX_BOOK_LEVELS
    BucketNs, Buckets,      \* bucket size and ROLLING_DELTA_BUCKETS
    GapTicks, SpoofMultiple, SpoofWindow, MedianWindow, PendingCapacity, MaxEvents,
    MaxFlowTime, MaxFlowTicks, MaxBooks

(* The default window is exactly ROLLING_DELTA_BUCKETS buckets long. *)
FlowWindow == Buckets * BucketNs
ASSUME OrderflowAssumption ==
    /\ Buckets \in Nat \ {0} /\ BucketNs \in Nat \ {0}
    /\ PendingCapacity \in Nat \ {0}
    /\ FlowQtys \subseteq Nat

VARIABLES
    ofBook,      \* LiveBook
    closed,      \* RollingDelta.buckets
    openBucket,  \* RollingDelta.open, or NoBucket
    qtyHistory, pendingOrders,   \* Detector
    heatmap,     \* last value sent on the watch channel
    ofOut,       \* events of the last snapshot
    ofNow, ofTicks, ofBooks,
    traded       \* trades recorded so far, for the properties

ofVars == <<ofBook, closed, openBucket, qtyHistory, pendingOrders, heatmap, ofOut,
            ofNow, ofTicks, ofBooks, traded>>

NoBucket == [start |-> -1, buyer |-> 0, seller |-> 0]
NoLevel == [price |-> 0, qty |-> 0]
EmptyBook == [bid |-> <<>>, ask |-> <<>>, seq |-> 0]
Pushed(w, x, n) == IF Len(w) < n THEN Append(w, x) ELSE Append(Tail(w), x)
Level(levels, i) == IF i \in DOMAIN levels THEN levels[i] ELSE NoLevel
Rows(b) == [i \in 1..MaxLevels |-> [bid |-> Level(b.bid, i), ask |-> Level(b.ask, i)]]

OfInit ==
    /\ ofBook = EmptyBook
    /\ closed = <<>> /\ openBucket = NoBucket
    /\ qtyHistory = <<>> /\ pendingOrders = <<>>
    /\ heatmap = Rows(EmptyBook)
    /\ ofOut = <<>> /\ ofNow = 0 /\ ofTicks = 0 /\ ofBooks = 0 /\ traded = <<>>

(***************************************************************************)
(* RollingDelta                                                            *)
(***************************************************************************)
ClosedBuckets(bucket) == Pushed(closed, bucket, Buckets)
ClosedOneShort(bucket) == Pushed(closed, bucket, Buckets - 1)
CloseBucket(bucket) == ClosedBuckets(bucket)

BucketStart(at) == (at \div BucketNs) * BucketNs

DeltaRecord(buyer, seller) ==
    LET start == BucketStart(ofNow)
    IN  IF openBucket.start = start
        THEN /\ openBucket' = [openBucket EXCEPT !.buyer = @ + buyer, !.seller = @ + seller]
             /\ UNCHANGED closed
        ELSE /\ openBucket' = [start |-> start, buyer |-> buyer, seller |-> seller]
             /\ closed' = IF openBucket = NoBucket THEN closed ELSE CloseBucket(openBucket)

(* buyer_volume and seller_volume: the closed buckets and the open one, those *)
(* that start before the cutoff excepted.                                  *)
Total(s, volume(_)) == SumFunction([i \in DOMAIN s |-> volume(s[i])])
IsLive(start) == start >= ofNow - FlowWindow
BuyerVolume == Total(Append(closed, openBucket),
                     LAMBDA b : IF b # NoBucket /\ IsLive(b.start) THEN b.buyer ELSE 0)
SellerVolume == Total(Append(closed, openBucket),
                      LAMBDA b : IF b # NoBucket /\ IsLive(b.start) THEN b.seller ELSE 0)

(***************************************************************************)
(* Detector                                                                *)
(***************************************************************************)
LiquidityGap(side, levels) ==
    IF Len(levels) >= 2 /\
       (IF levels[1].price > levels[2].price THEN levels[1].price - levels[2].price
                                             ELSE levels[2].price - levels[1].price) > GapTicks
    THEN <<[kind |-> "gap", side |-> side, level |-> levels[1].price, filled |-> 0]>>
    ELSE <<>>

StillPresent(p, b) ==
    LET top == IF p.side = "buy" THEN b.bid ELSE b.ask
    IN  top # <<>> /\ top[1].price = p.price /\ top[1].qty >= p.qty \div 2

(* Gone within the window with less than a quarter filled: a spoof.  Gone  *)
(* or not, a candidate older than the window is dropped silently.          *)
IsSpoof(p, b) ==
    ~StillPresent(p, b) /\ ofNow - p.placed <= SpoofWindow /\ p.filled < p.qty \div 4
Watched(p, b) == ~IsSpoof(p, b) /\ ofNow - p.placed <= SpoofWindow

RollingMedian(history) ==
    LET s == SortSeq(history, LAMBDA a, b : a < b)
        n == Len(s)
    IN  IF n = 0 THEN 0
        ELSE IF n % 2 = 0 THEN (s[n \div 2] + s[n \div 2 + 1]) \div 2
        ELSE s[n \div 2 + 1]

Candidate(side, top) ==
    [side |-> side, price |-> top.price, qty |-> top.qty, placed |-> ofNow, filled |-> 0]

(* A full ring gives up its oldest candidate, the first of them on a tie.  *)
Register(pend, c) ==
    LET oldest == CHOOSE i \in DOMAIN pend :
                      /\ \A j \in DOMAIN pend : pend[i].placed <= pend[j].placed
                      /\ \A j \in 1..(i - 1) : pend[j].placed > pend[i].placed
    IN  IF \E i \in DOMAIN pend : pend[i].side = c.side /\ pend[i].price = c.price THEN pend
        ELSE IF Len(pend) < PendingCapacity THEN Append(pend, c)
        ELSE [pend EXCEPT ![oldest] = c]
RegisterAlways(pend, c) ==
    IF Len(pend) < PendingCapacity THEN Append(pend, c) ELSE [pend EXCEPT ![1] = c]
TryRegister(pend, c) == Register(pend, c)

RegisterIfLarge(pend, side, levels, threshold) ==
    IF levels # <<>> /\ levels[1].qty > threshold
    THEN TryRegister(pend, Candidate(side, levels[1])) ELSE pend

TopQty(levels) == IF levels = <<>> THEN 0 ELSE levels[1].qty

ObserveBook(b) ==
    LET spoofs  == SelectSeq(pendingOrders, LAMBDA p : IsSpoof(p, b))
        kept    == SelectSeq(pendingOrders, LAMBDA p : Watched(p, b))
        events  == LiquidityGap("buy", b.bid) \o LiquidityGap("sell", b.ask)
                   \o [i \in DOMAIN spoofs |-> [kind |-> "spoof", side |-> spoofs[i].side,
                           level |-> spoofs[i].price, filled |-> spoofs[i].filled]]
        top     == IF TopQty(b.bid) > TopQty(b.ask) THEN TopQty(b.bid) ELSE TopQty(b.ask)
        history == Pushed(qtyHistory, top, MedianWindow)
        median  == RollingMedian(history)
        bids    == RegisterIfLarge(kept, "buy", b.bid, SpoofMultiple * median)
    IN  /\ ofOut' = SubSeq(events, 1, IF Len(events) > MaxEvents THEN MaxEvents ELSE Len(events))
        /\ qtyHistory' = history
        /\ pendingOrders' = IF median > 0
                            THEN RegisterIfLarge(bids, "sell", b.ask, SpoofMultiple * median)
                            ELSE kept

(* ingest_book: an update that is not newer than the last one is dropped   *)
(* before anything else is touched.                                        *)
Truncated(levels) == SubSeq(levels, 1, IF Len(levels) > MaxLevels THEN MaxLevels ELSE Len(levels))

IngestBook(u, ts) ==
    LET b == [bid |-> Truncated(u.bid), ask |-> Truncated(u.ask), seq |-> ts]
    IN  /\ ofBooks < MaxBooks
        /\ ofBooks' = ofBooks + 1
        /\ IF ts <= ofBook.seq /\ ofBook.seq # 0
           THEN UNCHANGED <<ofBook, heatmap, ofOut, qtyHistory, pendingOrders>>
           ELSE /\ ofBook' = b
                /\ heatmap' = Rows(b)
                /\ ObserveBook(b)
        /\ UNCHANGED <<closed, openBucket, ofNow, ofTicks, traded>>

(* The aggressor of a trade, with both tops needed to see a seller. *)
Aggressor(px) ==
    IF ofBook.ask = <<>> THEN "none"
    ELSE IF px >= ofBook.ask[1].price THEN "buy"
    ELSE IF ofBook.bid # <<>> /\ px <= ofBook.bid[1].price THEN "sell"
    ELSE "none"

TradeEvents(px, qty) ==
    LET top == IF Aggressor(px) = "buy" THEN ofBook.ask[1] ELSE ofBook.bid[1]
        e(k) == [kind |-> k, side |-> IF Aggressor(px) = "buy" THEN "sell" ELSE "buy",
                 level |-> top.price, filled |-> 0]
    IN  IF qty > 0 /\ Aggressor(px) # "none" /\ qty > top.qty
        THEN <<e("absorption"), e("hidden")>> ELSE <<>>

(* ingest_tick: the volume goes to the window, the trade to the candidates *)
(* at its price on either side; filled candidates leave.                   *)
IngestTick(px, qty) ==
    LET buyer  == IF ofBook.ask # <<>> /\ px >= ofBook.ask[1].price THEN qty ELSE 0
        seller == IF ofBook.bid # <<>> /\ px <= ofBook.bid[1].price THEN qty ELSE 0
        hit(p) == IF p.price = px THEN [p EXCEPT !.filled = @ + qty] ELSE p
    IN  /\ ofTicks < MaxFlowTicks
        /\ ofTicks' = ofTicks + 1
        /\ IF buyer # 0 \/ seller # 0
           THEN /\ DeltaRecord(buyer, seller)
                /\ traded' = Append(traded, [at |-> ofNow, buyer |-> buyer, seller |-> seller])
           ELSE UNCHANGED <<closed, openBucket, traded>>
        /\ ofOut' = TradeEvents(px, qty)
        /\ pendingOrders' = SelectSeq([i \in DOMAIN pendingOrders |-> hit(pendingOrders[i])],
                                      LAMBDA p : p.filled < p.qty)
        /\ UNCHANGED <<ofBook, heatmap, qtyHistory, ofNow, ofBooks>>

ClockTick ==
    /\ ofNow < MaxFlowTime
    /\ ofNow' = ofNow + 1
    /\ UNCHANGED <<ofBook, closed, openBucket, qtyHistory, pendingOrders, heatmap, ofOut,
                   ofTicks, ofBooks, traded>>

OfNext ==
    \/ \E u \in BookUpdates, ts \in 1..MaxBooks : IngestBook(u, ts)
    \/ \E px \in FlowPrices, q \in FlowQtys : IngestTick(px, q)
    \/ ClockTick

OfSpec == OfInit /\ [][OfNext]_ofVars

-----------------------------------------------------------------------------
(* No recorded volume inside the window is forgotten: the N closed buckets *)
(* and the open one hold every trade whose bucket starts at or after the   *)
(* cutoff, the N + 1 buckets such a window can straddle included           *)
(* (metrics.rs RollingDelta::record, buyer_volume, seller_volume).         *)
VolumeNotForgotten ==
    LET live(t) == IsLive(BucketStart(t.at))
    IN  /\ BuyerVolume = Total(traded, LAMBDA t : IF live(t) THEN t.buyer ELSE 0)
        /\ SellerVolume = Total(traded, LAMBDA t : IF live(t) THEN t.seller ELSE 0)

(* The candidates of the spoof detector are bounded and distinct: one per  *)
(* side and price, none of them already filled, so an order that leaves    *)
(* the book is reported once (events.rs try_register_pending).             *)
OneCandidatePerLevel ==
    /\ Len(pendingOrders) <= PendingCapacity
    /\ \A i, j \in DOMAIN pendingOrders :
        /\ pendingOrders[i].filled < pendingOrders[i].qty
        /\ i # j => \/ pendingOrders[i].side # pendingOrders[j].side
                    \/ pendingOrders[i].price # pendingOrders[j].price

(* What events.rs says of a spoof: it disappears "without any fill         *)
(* recorded against it".                                                   *)
SpoofWasNeverFilled ==
    \A i \in DOMAIN ofOut : ofOut[i].kind = "spoof" => ofOut[i].filled = 0
=============================================================================
