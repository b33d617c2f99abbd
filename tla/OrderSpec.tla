------------------------------ MODULE OrderSpec ------------------------------
(***************************************************************************)
(* What the Execution_Engine promises about ONE order, whatever the        *)
(* interleaving of submissions, fill reports and cancels: an order that    *)
(* was never seen is opened once, works for a while, and is closed once.   *)
(* The executed quantity never shrinks, never exceeds what was asked, and  *)
(* moves only while the order is working; an order closed as "done" is     *)
(* completely executed, one closed as "refused" was never executed, and a  *)
(* closed order never changes again.                                       *)
(***************************************************************************)
EXTENDS Naturals

CONSTANT Quantities       \* the sizes an order can be opened with
VARIABLE order            \* [phase, requested, filled]

Unseen == [phase |-> "unseen", requested |-> 0, filled |-> 0]

Init == order = Unseen

Open(q) ==
    /\ order = Unseen
    /\ order' = [phase |-> "opened", requested |-> q, filled |-> 0]

Accept ==
    /\ order.phase = "opened"
    /\ order' = [order EXCEPT !.phase = "working"]

Execute(n) ==
    /\ order.phase = "working"
    /\ order.filled <= n /\ n <= order.requested
    /\ order' = [order EXCEPT
                   !.filled = n,
                   !.phase = IF n = order.requested /\ n > 0 THEN "done" ELSE "working"]

Withdraw ==
    /\ order.phase = "working"
    /\ order' = [order EXCEPT !.phase = "withdrawn"]

Refuse ==
    /\ order.phase \in {"opened", "working"}
    /\ order.filled = 0
    /\ order' = [order EXCEPT !.phase = "refused"]

Next ==
    \/ \E q \in Quantities : Open(q)
    \/ \E n \in 0..order.requested : Execute(n)
    \/ Accept
    \/ Withdraw
    \/ Refuse

Spec == Init /\ [][Next]_order
=============================================================================
