---------------------------- MODULE MCExecution ----------------------------
(***************************************************************************)
(* Small sets of approvals for model-checking ExecutionEngine.             *)
(***************************************************************************)
EXTENDS ExecutionEngine

CONSTANTS c1, c2      \* correlation ids (model values)

Approval(c, q, n, ok) == [cid |-> c, qty |-> q, seq |-> n, valid |-> ok]

\* One order of three units, filled in pieces.
SingleOrder == {Approval(c1, 3, 1, TRUE)}

\* Two approvals under one correlation id, and one under another whose bytes
\* translate_intent does not know.
TwiceApproved == {Approval(c1, 1, 1, TRUE), Approval(c1, 1, 2, TRUE)}
UnreadableOrder == {Approval(c2, 1, 3, FALSE)}

\* The first order with its quantity tampered with: nobody signs this one.
TamperedOrder == {Approval(c1, 2, 1, TRUE)}

SignedBodies == TwiceApproved \cup UnreadableOrder
AllBodies == SignedBodies \cup TamperedOrder
=============================================================================
