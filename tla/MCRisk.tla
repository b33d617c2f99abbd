------------------------------- MODULE MCRisk -------------------------------
(***************************************************************************)
(* Small input sets for model-checking RiskEngine.                         *)
(***************************************************************************)
EXTENDS RiskEngine

CONSTANTS s1, s2      \* symbols (model values)

Signal(s, size, px) == [symbol |-> s, maxSize |-> size, price |-> px]
Holding(s, q, px) == [symbol |-> s, qty |-> q, price |-> px]

\* One signal of one share.
OneSignal == {Signal(s1, 1, 1)}

\* A priced and an unpriced signal, one without a size limit of its own (zero).
MixedSignals == {Signal(s1, 2, 1), Signal(s2, 3, 2), Signal(s1, 0, 0)}

\* Flat, a gain, a loss at the drawdown limit, and one at both limits.
Swings == {<<0, 0>>, <<1, 0>>, <<0, -1>>}
DeepSwings == {<<0, 0>>, <<0, -2>>}

Holdings == {Holding(s1, 0, 1), Holding(s1, 2, 1), Holding(s2, 1, 2)}
=============================================================================
