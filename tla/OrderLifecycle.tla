--------------------------- MODULE OrderLifecycle ---------------------------
(***************************************************************************)
(* The per-order state machine of hedge-exec (lifecycle.rs): the           *)
(* OrderLifecycleTracker and its legal-edge table, as operators on a       *)
(* tracker value.  A tracker is a record                                   *)
(*   [state, requested, filled, broker, id]                                *)
(* the average price, which no guard reads, is left out.  Every operation  *)
(* that can fail is a pair: CanX says when the Rust method returns Ok, X   *)
(* is the tracker it leaves.  When CanX is false the method returns Err    *)
(* and the tracker is unchanged.                                           *)
(***************************************************************************)
EXTENDS Naturals

NoId == <<>>      \* broker_order_id = None; ids are non-empty tuples

States == {"New", "Submitted", "PartiallyFilled", "Filled", "Cancelled", "Rejected"}

Terminal == {"Filled", "Cancelled", "Rejected"}

\* The legal-edge table.
IsLegalTransition(from, to) ==
    \/ from = "New" /\ to = "Submitted"
    \/ from = "Submitted" /\ to \in {"PartiallyFilled", "Filled", "Cancelled", "Rejected"}
    \/ from = "PartiallyFilled" /\ to \in {"PartiallyFilled", "Filled", "Cancelled"}

Tracker(brokers, ids) ==
    [state: States, requested: Nat, filled: Nat, broker: brokers, id: ids \cup {NoId}]

NewTracker(broker, qty) ==
    [state |-> "New", requested |-> qty, filled |-> 0, broker |-> broker, id |-> NoId]

\* transition_no_fill: the state changes, and the broker id when one is given.
Moved(t, to, id) ==
    [t EXCEPT !.state = to, !.id = IF id = NoId THEN @ ELSE id]

\* Mutant of CanSubmit: an order that is submitted can be submitted again.
CanResubmit(t) == t.state \in {"New", "Submitted"}

CanSubmit(t) == IsLegalTransition(t.state, "Submitted")
Submit(t, id) == Moved(t, "Submitted", id)

CanCancel(t) == IsLegalTransition(t.state, "Cancelled")
Cancel(t) == Moved(t, "Cancelled", NoId)

CanReject(t) == IsLegalTransition(t.state, "Rejected")
Reject(t) == Moved(t, "Rejected", NoId)

\* partial_fill takes the broker's CUMULATIVE quantity.
FillTarget(t, cum) ==
    IF cum >= t.requested /\ t.requested > 0 THEN "Filled" ELSE "PartiallyFilled"

\* Mutant of CanFill: a report older than the tracker is applied.
CanFillOutOfOrder(t, cum) ==
    /\ cum <= t.requested
    /\ IsLegalTransition(t.state, FillTarget(t, cum))

CanFill(t, cum) ==
    /\ cum >= t.filled              \* "fill regression"
    /\ cum <= t.requested           \* "fill overflow"
    /\ IsLegalTransition(t.state, FillTarget(t, cum))

\* Mutant of Fill: the cumulative quantity is added to the tracker's.
FillAdding(t, cum) == [t EXCEPT !.filled = @ + cum, !.state = FillTarget(t, cum)]

Fill(t, cum) == [t EXCEPT !.filled = cum, !.state = FillTarget(t, cum)]
=============================================================================
