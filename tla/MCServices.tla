---------------------------- MODULE MCServices -----------------------------
(***************************************************************************)
(* Small sets of signals and approvals for model-checking TradingServices. *)
(***************************************************************************)
EXTENDS TradingServices

CONSTANTS c1, c2       \* correlation ids (model values)
CONSTANT reliance      \* a listed symbol (model value)

SignalOf(c, sym, side) == [cid |-> c, symbol |-> sym, side |-> side]

\* A buy and a sell of one symbol.
BothSides == {SignalOf(c1, reliance, "none"), SignalOf(c2, reliance, "sell")}

\* The sell is one that hedge-demo-synth made up.
DemoSell == {SignalOf(c2, reliance, "sell")}

MarketPrice == [s \in Symbols |-> 30000]
=============================================================================
