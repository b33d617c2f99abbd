---------------------------- MODULE MCRiskInputs ----------------------------
(***************************************************************************)
(* The Risk_Engine under two kinds of input, one of them per behaviour:    *)
(* PnL that swings and an operator who halts, or holdings and cooldowns    *)
(* that change.  Each meets gates of its own; the product of the two is    *)
(* not explored.                                                           *)
(***************************************************************************)
EXTENDS MCRisk

VARIABLE moving \* what moves in this behaviour

InputsInit == moving \in {"pnl", "book"} /\ Init

InputsNext ==
    /\ Next
    /\ UNCHANGED moving
    /\ moving = "pnl" => UNCHANGED <<bookVars, cooling, promised>>
    /\ moving = "book" => UNCHANGED <<pnlVars, killVars>>

InputsSpec == InputsInit /\ [][InputsNext]_<<vars, moving>>
=============================================================================
