-------------------------- MODULE SimulatedBroker --------------------------
(***************************************************************************)
(* hedge-broker-simulated: the in-process broker of replay and tests.  It  *)
(* keeps a book of seeded liquidity per symbol and a record per order; an  *)
(* order takes what the book offers when it is submitted and is not        *)
(* matched again.  Every call is atomic under the broker's mutex, so the   *)
(* interleavings are those of whole calls by several clients; each call    *)
(* ends with one broker.metric message.                                    *)
(***************************************************************************)
EXTENDS Integers, Sequences, FiniteSets, SequencesExt, FiniteSetsExt, Functions

CONSTANTS
    SimSymbols,   \* symbols
    SimPrices,    \* prices, in paise
    SimQtys,      \* quantities of an order or of a level
    MaxSimOrders, \* bound: submissions
    MaxSeeds      \* bound: set_book calls

\* 0 stands for no limit price.
ASSUME SimAssumption ==
    SimPrices \subseteq Nat \ {0} /\ IsFiniteSet(SimPrices) /\ SimQtys \subseteq Nat

VARIABLES
    books,      \* State.books: per symbol and side, the quantity per price
    simOrders,  \* State.orders: a record per id
    simNext,    \* State.next_id
    simReady,   \* ReadyState
    simMetric,  \* last broker.metric message: operation and error
    seeds       \* set_book calls

simVars == <<books, simOrders, simNext, simReady, simMetric, seeds>>

Sides == {"buy", "sell"}
NoBook == [side \in Sides |-> [p \in SimPrices |-> 0]]
Unseeded == SimSymbols \ DOMAIN books

SimInit ==
    /\ books = <<>> /\ simOrders = <<>> /\ simNext = 0
    /\ simReady \in {"ready", "config_error"} \* SimulatedBrokerConfig.ready_at_construction
    /\ simMetric = [op |-> "none", error |-> FALSE] /\ seeds = 0

\* record_metric, the last thing every call does.
Metric(op, error) == simMetric' = [op |-> op, error |-> error]
With(f, k, v) == [x \in DOMAIN f \cup {k} |-> IF x = k THEN v ELSE f[x]]

-----------------------------------------------------------------------------
(* The order book.  The quantity a buy finds is on the ask side: books are  *)
(* kept by the side of the order that takes from them.                     *)

Better(side, p, q) == IF side = "buy" THEN p < q ELSE p > q
Within(side, p, limit) == limit = 0 \/ (IF side = "buy" THEN p <= limit ELSE p >= limit)

\* consume_asks and consume_bids: each level gives what is left of the order
\* after all better levels within the limit; limit 0 stands for None.
ConsumeStep(level, side, qty, limit) ==
    [p \in SimPrices |->
        LET ahead == SumFunctionOnSet(level, {q \in SimPrices : Better(side, q, p)})
            left == qty - ahead
        IN  IF ~Within(side, p, limit) \/ left <= 0 THEN 0 ELSE Min({level[p], left})]

\* Mutant: the remaining quantity is not reduced by a level that was emptied.
ConsumeAgain(level, side, qty, limit) ==
    [p \in SimPrices |-> IF Within(side, p, limit) THEN Min({level[p], qty}) ELSE 0]

Consume(level, side, qty, limit) == ConsumeStep(level, side, qty, limit)

FilledQty(fills) == SumFunction(fills)
Notional(fills) == SumFunction([p \in SimPrices |-> p * fills[p]])

\* OrderRecord::new and apply_fills.
FilledState(filled, qty, fills) ==
    IF \A p \in SimPrices : fills[p] = 0 THEN "Submitted"
    ELSE IF filled >= qty THEN "Filled" ELSE "PartiallyFilled"

Booked(sym, side, qty, limit, fills) ==
    LET filled == FilledQty(fills)
    IN  [sym |-> sym, side |-> side, qty |-> qty, limit |-> limit, fills |-> fills, filled |-> filled,
         avg |-> IF filled = 0 THEN 0 ELSE Notional(fills) \div filled,
         state |-> FilledState(filled, qty, fills)]

Terminal(o) == o.state \in {"Filled", "Cancelled", "Rejected"}

-----------------------------------------------------------------------------
(* The calls. *)

\* do_submit with a book: an id, the fills, the record.
SimSubmit(sym, side, qty, limit) ==
    /\ simReady = "ready" /\ simNext < MaxSimOrders /\ sym \in DOMAIN books
    /\ LET fills == Consume(books[sym][side], side, qty, limit)
       IN  /\ books' = [books EXCEPT ![sym][side] = [p \in SimPrices |-> @[p] - fills[p]]]
           /\ simOrders' = With(simOrders, simNext + 1, Booked(sym, side, qty, limit, fills))
    /\ simNext' = simNext + 1 /\ Metric("submit", FALSE)
    /\ UNCHANGED <<simReady, seeds>>

\* No book: rejected, and the id is used up.
SimReject(sym) ==
    /\ simReady = "ready" /\ simNext < MaxSimOrders /\ sym \in Unseeded
    /\ simNext' = simNext + 1 /\ Metric("submit", TRUE)
    /\ UNCHANGED <<books, simOrders, simReady, seeds>>

\* Not ready, an unknown id, a terminal order or a quantity below what is
\* filled: the call fails and changes nothing else.
SimRefuse(op, id) ==
    /\ simReady = "ready" =>
          /\ op # "submit"
          /\ id \in DOMAIN simOrders => \/ Terminal(simOrders[id])
                                        \/ op = "modify" /\ \E q \in SimQtys : q < simOrders[id].filled
    /\ Metric(op, TRUE)
    /\ UNCHANGED <<books, simOrders, simNext, simReady, seeds>>

\* apply_modification: quantity (not below what is filled) and limit, each
\* optional (0 for None); the order is not matched again, its state stays.
SimModify(id, qty, limit) ==
    /\ simReady = "ready" /\ id \in DOMAIN simOrders
    /\ ~Terminal(simOrders[id]) /\ (qty # 0 => qty >= simOrders[id].filled)
    /\ simOrders' = [simOrders EXCEPT ![id].qty = IF qty = 0 THEN @ ELSE qty,
                                      ![id].limit = IF limit = 0 THEN @ ELSE limit]
    /\ Metric("modify", FALSE)
    /\ UNCHANGED <<books, simNext, simReady, seeds>>

SimCancel(id) ==
    /\ simReady = "ready" /\ id \in DOMAIN simOrders /\ ~Terminal(simOrders[id])
    /\ simOrders' = [simOrders EXCEPT ![id].state = "Cancelled"] /\ Metric("cancel", FALSE)
    /\ UNCHANGED <<books, simNext, simReady, seeds>>

\* do_status: informational, allowed while disconnected; fails on a
\* configuration error or an unknown id.
SimStatus(id) ==
    /\ Metric("status", simReady = "config_error" \/ id \notin DOMAIN simOrders)
    /\ UNCHANGED <<books, simOrders, simNext, simReady, seeds>>

\* set_book replaces the symbol's book, OrderBook::from_levels; it matches nothing.
SetBook(sym, side, p, q) ==
    /\ seeds < MaxSeeds /\ seeds' = seeds + 1
    /\ LET b == [NoBook EXCEPT ![side] = [r \in SimPrices |-> IF r <= p THEN q ELSE 0]]
       IN  books' = With(books, sym, b)
    /\ UNCHANGED <<simOrders, simNext, simReady, simMetric>>

\* force_ready, force_config_error, force_disconnected.
ForceReady(r) ==
    /\ simReady' = r
    /\ UNCHANGED <<books, simOrders, simNext, simMetric, seeds>>

SimNextStep ==
    \/ \E sym \in SimSymbols, side \in Sides, q \in SimQtys, l \in SimPrices \cup {0} : SimSubmit(sym, side, q, l)
    \/ \E sym \in SimSymbols : SimReject(sym)
    \/ \E id \in 1..MaxSimOrders :
          \/ \E op \in {"submit", "modify", "cancel"} : SimRefuse(op, id)
          \/ SimCancel(id) \/ SimStatus(id)
          \/ \E q \in SimQtys \cup {0}, l \in SimPrices \cup {0} : SimModify(id, q, l)
    \/ \E sym \in SimSymbols, side \in Sides, p \in SimPrices, q \in SimQtys : SetBook(sym, side, p, q)
    \/ \E r \in {"ready", "config_error", "disconnected"} : ForceReady(r)

SimSpec == SimInit /\ [][SimNextStep]_simVars

-----------------------------------------------------------------------------
(* Properties. *)

\* An order that finds one side of a book as before and leaves it as after took
\* the best prices first.
WellMatched(o, before, after) ==
    LET at == {p \in SimPrices : o.fills[p] > 0}
    IN  /\ \A p \in at : Within(o.side, p, o.limit)
        /\ \A p \in SimPrices : after[p] + o.fills[p] = before[p] /\ after[p] >= 0
        /\ \A p \in at, q \in SimPrices : Better(o.side, q, p) => after[q] = 0
        /\ o.filled <= o.qty
        /\ o.filled < o.qty => \A p \in SimPrices : Within(o.side, p, o.limit) => after[p] = 0
        /\ at # {} => Min(at) <= o.avg /\ o.avg <= Max(at)

NewOrdersMatched ==
    \A id \in DOMAIN simOrders' \ DOMAIN simOrders :
        LET o == simOrders'[id]
        IN  WellMatched(o, books[o.sym][o.side], books'[o.sym][o.side])

\* A submission takes the best prices first: it leaves nothing at a price
\* better than one it took, stops short of its quantity only when nothing is
\* left within its limit, never takes more than it asked for or than the book
\* had, and its average lies between its best and its worst price.
BestPriceFirst == [][NewOrdersMatched]_simVars

\* The transition table of apply_fills: an order that is filled to its
\* quantity is Filled.
FullIsFilled ==
    \A id \in DOMAIN simOrders :
        LET o == simOrders[id] IN o.filled > 0 /\ o.filled = o.qty => o.state \in {"Filled", "Cancelled"}

=============================================================================
