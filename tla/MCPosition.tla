------------------------------ MODULE MCPosition ------------------------------
(* Small instances of PositionEngine. *)
EXTENDS PositionEngine

\* Both sides, quantities that close, scale and flip, prices whose average of
\* two is truncated.
OneSymbolFills == [symbol: {1}, side: {"Buy", "Sell"}, qty: {1, 2}, px: {2, 5}]
TwoSymbolFills ==
    {[symbol |-> 1, side |-> "Buy", qty |-> 1, px |-> 2],
     [symbol |-> 1, side |-> "Buy", qty |-> 2, px |-> 4],
     [symbol |-> 1, side |-> "Sell", qty |-> 2, px |-> 5],
     [symbol |-> 2, side |-> "Sell", qty |-> 1, px |-> 2]}
=============================================================================
