------------------------------ MODULE MCPlatform ------------------------------
(***************************************************************************)
(* The parts of the platform around the order path, on small instances.    *)
(* They are separate processes and libraries that share no state, so a     *)
(* behaviour follows one of them, chosen at the start, and leaves the      *)
(* others as they are at start-up: every reachable state of every part is  *)
(* checked, without the products of unrelated states.                      *)
(***************************************************************************)
EXTENDS Supervisor, Replay, WarmCache, SimulatedBroker, Bus, UpstoxFeed, Signals,
        Backtest, Features, Orderflow, LiveBrokers, RiskRestart, DemoSynth

VARIABLE part \* the part this behaviour follows

Parts == {"supervisor", "replay", "cache", "simulator", "bus", "upstox", "signals",
          "backtest", "features", "orderflow", "live", "restart", "synth"}

\* Start-up is a choice in three parts; a behaviour about another part fixes it.
PlatformInit ==
    /\ part \in Parts
    /\ SupInit /\ RpInit /\ WcInit /\ SimInit /\ BusInit /\ UpInit /\ SigInit /\ BtInit
    /\ FeatInit /\ OfInit /\ LiveInit /\ RestartInit /\ SynthInit
    /\ part = "simulator" \/ simReady = "ready"
    /\ part = "signals" \/ hasStream
    /\ part = "live" \/ (adapter = "zerodha" /\ missing = {})

\* The part that is followed takes its step, the others stand still.
PlatformNext ==
    /\ UNCHANGED part
    /\ IF part = "supervisor" THEN SupNext ELSE UNCHANGED supVars
    /\ IF part = "cache" THEN WcNext ELSE UNCHANGED wcVars
    /\ IF part = "backtest" THEN BtNext ELSE UNCHANGED btVars
    /\ IF part = "features" THEN FeatNext ELSE UNCHANGED featVars
    /\ IF part = "orderflow" THEN OfNext ELSE UNCHANGED ofVars
    /\ IF part = "restart" THEN RestartNext ELSE UNCHANGED restartVars
    /\ IF part = "synth" THEN SynthNext ELSE UNCHANGED synthVars
    /\ IF part = "signals" THEN SigNext ELSE UNCHANGED sigVars
    /\ IF part = "bus" THEN BusNext ELSE UNCHANGED busVars
    /\ IF part = "upstox" THEN UpNext ELSE UNCHANGED upVars
    /\ IF part = "replay" THEN RpNext ELSE UNCHANGED rpVars
    /\ IF part = "simulator" THEN SimNextStep ELSE UNCHANGED simVars
    /\ IF part = "live" THEN LiveNext ELSE UNCHANGED liveVars

PlatformVars == <<part, supVars, rpVars, wcVars, simVars, busVars, upVars, sigVars, btVars,
                  featVars, ofVars, liveVars, restartVars, synthVars>>

PlatformSpec == PlatformInit /\ [][PlatformNext]_PlatformVars

-----------------------------------------------------------------------------
(* Values of the constants. *)

TwoUnderlyings == <<"u1", "u2">>

\* Rising and falling prices, with and without volume, both sides of the book heavier.
SomeTicks == {[ltp |-> p, qty |-> q, buy |-> b, sell |-> 2] :
                 p \in {0, 10, 15}, q \in {0, 30}, b \in {1, 3}}

\* Paise with a zero to pad, and a market order.
SomeIntents ==
    {[side |-> "buy", kind |-> "limit", venue |-> "nse", symbol |-> "s", qty |-> 1, paise |-> 1005],
     [side |-> "sell", kind |-> "market", venue |-> "bse", symbol |-> "s", qty |-> 1, paise |-> 0]}
SomeChanges == {[qty |-> <<2>>, paise |-> <<995>>]}

\* A quiet book, a large order, one with more levels than are kept, one side empty.
Lvl(p, q) == [price |-> p, qty |-> q]
SomeBooks ==
    {[bid |-> <<Lvl(2, 1)>>, ask |-> <<Lvl(4, 1)>>],
     [bid |-> <<Lvl(2, 12)>>, ask |-> <<Lvl(4, 1)>>],
     [bid |-> <<Lvl(2, 30), Lvl(1, 1), Lvl(1, 1)>>, ask |-> <<Lvl(4, 9), Lvl(9, 1)>>],
     [bid |-> <<>>, ask |-> <<Lvl(4, 1)>>]}

\* Snapshots on both sides of every threshold the strategies compare with.
QuietSnapshot ==
    [symbol |-> "n", nifty |-> TRUE, price |-> 10, vwap |-> 10, atr |-> 4, fast |-> 11,
     slow |-> 10, trend |-> 9, slope |-> 0, momentum |-> 0, pressure |-> 0, flow |-> 0,
     compression |-> 0, sweep |-> 0, upper |-> 20, lower |-> 1]
SomeSnapshots ==
    {[QuietSnapshot EXCEPT !.pressure = p, !.slope = w, !.momentum = w \div 5, !.sweep = v,
                           !.flow = f, !.slow = 10 + d, !.compression = 600] :
        p \in {-600, 500}, w \in {-100, 100}, v \in {-500, 500}, d \in {0, 2}, f \in {-300, 300}}
    \cup {[QuietSnapshot EXCEPT !.atr = 100, !.price = 30]}
SomePrevDays == {[high |-> 12, low |-> 8]}
SomeConfigs ==
    {[regime |-> "news_driven", off |-> {}, war |-> FALSE, floor |-> 700, news |-> {}],
     [regime |-> "high_volatility", off |-> {"vwap"}, war |-> FALSE, floor |-> 700, news |-> {}]}
=============================================================================
