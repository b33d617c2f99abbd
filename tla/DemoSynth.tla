----------------------------- MODULE DemoSynth -----------------------------
(***************************************************************************)
(* hedge-demo-synth: generators that publish synthetic, tagged messages on  *)
(* every subject the cockpit shows, and back off from a subject while a     *)
(* real publisher is alive on it.                                           *)
(*                                                                         *)
(* Every message, synthetic or real, comes back through the suppression     *)
(* subscriber.  The subject of a message is its family; one symbol stands   *)
(* for the basket.  Random figures are choices; figures nothing reads back  *)
(* are left out.  The tick generator looks at the registry, moves the price *)
(* board and publishes while the subscriber runs on another thread, so its  *)
(* check is a step of its own.                                              *)
(***************************************************************************)
EXTENDS Integers, Sequences, FiniteSets

CONSTANTS RealSubjects,     \* subjects on which a real publisher may appear
          RealPrices,       \* prices of real ticks
          SynthPrices,      \* prices the random walk may reach
          AnchorPrice,      \* anchor_paise of the symbol
          SuppressionWindow,
          BusCapacity,      \* capacity of the SignalBus
          MaxOnWire,        \* bound on messages not yet seen by the subscriber
          MaxSignals,       \* bound on synthetic signals
          MaxSynthTime      \* bound on the clock

VARIABLES synthTime,
          suppressedUntil,  \* SuppressionRegistry: subject -> instant, 0 for none
          board,            \* LtpBoard: the symbol's price, 0 for none
          wire,             \* messages on their way to the subscriber
          tickDue,          \* the tick generator has passed its check
          sending,          \* the signal generator's signal, until the bus has room
          signalBus,        \* SignalBus: signals waiting for the trade chain
          chain,            \* the signal process_signal is working on
          holding,          \* positions[symbol]: signed quantity and average
          emittedSignals,   \* signals published so far
          realSent          \* history: subjects a real publisher has used

synthVars == <<synthTime, suppressedUntil, board, wire, tickDue, sending, signalBus, chain,
               holding, emittedSignals, realSent>>

SynthSubjects ==
    {"md.tick", "md.book", "md.oi", "md.breadth.sector", "md.breadth.volatility",
     "md.connection", "of.event", "of.heatmap", "feat.update", "sig.emitted", "ai.rank",
     "ai.news.impact", "ai.psych.stability", "ai.psych.intervention",
     "risk.decision.approved", "risk.decision.rejected", "risk.killswitch.activated",
     "risk.target.reached", "risk.cooldown", "pos.update", "pos.risk_state", "exec.order",
     "exec.fill", "exec.trade.closed", "obs.latency", "obs.budget.breach",
     "ops.action.replay"}

Resting == [phase |-> "none"]
NoHolding == [qty |-> 0, avg |-> 0]

-----------------------------------------------------------------------------
(* The registry.                                                             *)

AllowPublish(s) == synthTime >= suppressedUntil[s]

\* A payload that carries "_synth": true is the generators' own.
IsSynthEchoTag(m) == m.synth

\* A bug: the tag is looked for where it never is.
IsSynthEchoNever(m) == FALSE

IsSynthEcho(m) == IsSynthEchoTag(m)

RecordMessage(m) ==
    IF IsSynthEcho(m) THEN suppressedUntil
    ELSE [suppressedUntil EXCEPT ![m.subject] = synthTime + SuppressionWindow]

-----------------------------------------------------------------------------
(* Publishing.                                                               *)

SynthTag(s, price) == [subject |-> s, synth |-> TRUE, price |-> price]

\* What a generator with subject s puts on the wire: nothing while suppressed.
Offer(s, price) == IF AllowPublish(s) THEN <<SynthTag(s, price)>> ELSE <<>>

\* One turn of a generator that keeps no state the others read.
Generate(s) ==
    /\ Len(wire) < MaxOnWire
    /\ AllowPublish(s)
    /\ wire' = Append(wire, SynthTag(s, 0))
    /\ UNCHANGED <<synthTime, suppressedUntil, board, tickDue, sending, signalBus, chain, holding,
                   emittedSignals, realSent>>

BookGen == Generate("md.book")
OiGen == Generate("md.oi")
SectorGen == Generate("md.breadth.sector")
VolatilityGen == Generate("md.breadth.volatility")
ConnectionGen == Generate("md.connection")
EventGen == Generate("of.event")
HeatmapGen == Generate("of.heatmap")
FeatureGen == Generate("feat.update")
NewsGen == Generate("ai.news.impact")
StabilityGen == Generate("ai.psych.stability")
InterventionGen == Generate("ai.psych.intervention")
KillAndTargetGen ==
    \E s \in {"risk.killswitch.activated", "risk.target.reached"} : Generate(s)
AggregateGen == Generate("pos.risk_state")
ReplayGen == Generate("ops.action.replay")

\* A latency record and its aggregate share a subject and a check; a breach
\* adds a message on a subject with a check of its own.
LatencyGen ==
    /\ Len(wire) < MaxOnWire
    /\ AllowPublish("obs.latency")
    /\ \E breach \in BOOLEAN :
         wire' = wire \o <<SynthTag("obs.latency", 0), SynthTag("obs.latency", 0)>>
                      \o IF breach THEN Offer("obs.budget.breach", 0) ELSE <<>>
    /\ UNCHANGED <<synthTime, suppressedUntil, board, tickDue, sending, signalBus, chain, holding,
                   emittedSignals, realSent>>

\* The tick generator: the check, then a step of the walk and the message.
TickCheck ==
    /\ ~tickDue
    /\ AllowPublish("md.tick")
    /\ tickDue' = TRUE
    /\ UNCHANGED <<synthTime, suppressedUntil, board, wire, sending, signalBus, chain, holding,
                   emittedSignals, realSent>>

StepQuote ==
    /\ tickDue
    /\ Len(wire) < MaxOnWire
    /\ tickDue' = FALSE
    /\ \E p \in SynthPrices : board' = p /\ wire' = Append(wire, SynthTag("md.tick", p))
    /\ UNCHANGED <<synthTime, suppressedUntil, sending, signalBus, chain, holding, emittedSignals,
                   realSent>>

LastPrice == IF board = 0 THEN AnchorPrice ELSE board

\* The signal generator publishes, then hands the signal to the trade chain,
\* waiting for room on the bus.
SignalGen ==
    /\ emittedSignals < MaxSignals
    /\ sending = <<>>
    /\ Len(wire) < MaxOnWire
    /\ AllowPublish("sig.emitted")
    /\ wire' = Append(wire, SynthTag("sig.emitted", 0))
    /\ \E side \in {"buy", "sell"} : sending' = <<[side |-> side, price |-> LastPrice]>>
    /\ emittedSignals' = emittedSignals + 1
    /\ UNCHANGED <<synthTime, suppressedUntil, board, tickDue, signalBus, chain, holding,
                   realSent>>

SignalSend ==
    /\ sending # <<>>
    /\ Len(signalBus) < BusCapacity
    /\ signalBus' = signalBus \o sending
    /\ sending' = <<>>
    /\ UNCHANGED <<synthTime, suppressedUntil, board, wire, tickDue, chain, holding,
                   emittedSignals, realSent>>

-----------------------------------------------------------------------------
(* The trade chain: one signal at a time, through rank, decision, order,      *)
(* fills and position.                                                       *)

ChainReceive ==
    /\ chain = Resting
    /\ signalBus # <<>>
    /\ chain' = [phase |-> "signal", sig |-> Head(signalBus)]
    /\ signalBus' = Tail(signalBus)
    /\ UNCHANGED <<synthTime, suppressedUntil, board, wire, tickDue, sending, holding,
                   emittedSignals, realSent>>

ChainDecide ==
    /\ chain.phase = "signal"
    /\ Len(wire) < MaxOnWire
    /\ \E approved, cool \in BOOLEAN :
         /\ wire' = wire \o Offer("ai.rank", 0)
                         \o Offer(IF approved THEN "risk.decision.approved"
                                  ELSE "risk.decision.rejected", 0)
                         \o IF cool THEN Offer("risk.cooldown", 0) ELSE <<>>
         /\ chain' = IF approved THEN [chain EXCEPT !.phase = "approved"] ELSE Resting
    /\ UNCHANGED <<synthTime, suppressedUntil, board, tickDue, sending, signalBus, holding,
                   emittedSignals, realSent>>

\* The order, of two units in one or two fills.
ChainSubmit ==
    /\ chain.phase = "approved"
    /\ Len(wire) < MaxOnWire
    /\ wire' = wire \o Offer("exec.order", 0)
    /\ \E fills \in 1..2 :
         chain' = [phase |-> "filling", sig |-> chain.sig, left |-> fills, filled |-> 0,
                   each |-> 2 \div fills]
    /\ UNCHANGED <<synthTime, suppressedUntil, board, tickDue, sending, signalBus, holding,
                   emittedSignals, realSent>>

ChainFill ==
    /\ chain.phase = "filling" /\ chain.left > 0
    /\ Len(wire) < MaxOnWire
    /\ wire' = wire \o Offer("exec.fill", 0)
    /\ chain' = [chain EXCEPT !.left = @ - 1, !.filled = @ + chain.each]
    /\ UNCHANGED <<synthTime, suppressedUntil, board, tickDue, sending, signalBus, holding,
                   emittedSignals, realSent>>

Direction(q) == IF q > 0 THEN 1 ELSE IF q < 0 THEN -1 ELSE 0
Units(q) == IF q < 0 THEN -q ELSE q

\* The position after a fill: same sign as before, the notionals are added
\* and averaged (also when the fill reduces the position); otherwise the trade
\* counts as closed (also when there was none) and the average starts afresh.
Settled(h, signed, price) ==
    LET q == h.qty + signed
    IN  IF q # 0 /\ Direction(q) = Direction(h.qty)
        THEN [qty |-> q, avg |-> (Units(h.qty) * h.avg + Units(signed) * price) \div Units(q)]
        ELSE [qty |-> q, avg |-> price]

ClosesTrade(h, signed) ==
    LET q == h.qty + signed IN ~(q # 0 /\ Direction(q) = Direction(h.qty))

ChainSettle ==
    /\ chain.phase = "filling" /\ chain.left = 0
    /\ Len(wire) < MaxOnWire
    /\ LET signed == IF chain.sig.side = "buy" THEN chain.filled ELSE -chain.filled
           start == IF holding = NoHolding THEN [qty |-> 0, avg |-> chain.sig.price]
                    ELSE holding
       IN  /\ holding' = Settled(start, signed, chain.sig.price)
           /\ wire' = wire \o (IF ClosesTrade(start, signed)
                               THEN Offer("exec.trade.closed", 0) ELSE <<>>)
                           \o Offer("pos.update", 0)
    /\ chain' = Resting
    /\ UNCHANGED <<synthTime, suppressedUntil, board, tickDue, sending, signalBus, emittedSignals,
                   realSent>>

-----------------------------------------------------------------------------
(* The world and the subscriber.                                             *)

RealPublish(s, price) ==
    /\ Len(wire) < MaxOnWire
    /\ wire' = Append(wire, [subject |-> s, synth |-> FALSE, price |-> price])
    /\ realSent' = realSent \union {s}
    /\ UNCHANGED <<synthTime, suppressedUntil, board, tickDue, sending, signalBus, chain, holding,
                   emittedSignals>>

\* A real tick also moves the board.
SuppressionSubscriber ==
    /\ wire # <<>>
    /\ LET m == Head(wire)
       IN  /\ suppressedUntil' = RecordMessage(m)
           /\ board' = IF m.subject = "md.tick" /\ ~m.synth THEN m.price ELSE board
    /\ wire' = Tail(wire)
    /\ UNCHANGED <<synthTime, tickDue, sending, signalBus, chain, holding, emittedSignals,
                   realSent>>

SynthClock ==
    /\ synthTime < MaxSynthTime
    /\ synthTime' = synthTime + 1
    /\ UNCHANGED <<suppressedUntil, board, wire, tickDue, sending, signalBus, chain, holding,
                   emittedSignals, realSent>>

SynthInit ==
    /\ synthTime = 0
    /\ suppressedUntil = [s \in SynthSubjects |-> 0]
    /\ board = 0
    /\ wire = <<>>
    /\ tickDue = FALSE
    /\ sending = <<>> /\ signalBus = <<>>
    /\ chain = Resting
    /\ holding = NoHolding
    /\ emittedSignals = 0
    /\ realSent = {}

SynthNext ==
    \/ BookGen \/ OiGen \/ SectorGen \/ VolatilityGen \/ ConnectionGen \/ EventGen
    \/ HeatmapGen \/ FeatureGen \/ NewsGen \/ StabilityGen \/ InterventionGen
    \/ KillAndTargetGen \/ AggregateGen \/ ReplayGen \/ LatencyGen
    \/ TickCheck \/ StepQuote \/ SignalGen \/ SignalSend
    \/ ChainReceive \/ ChainDecide \/ ChainSubmit \/ ChainFill \/ ChainSettle
    \/ \E s \in RealSubjects, p \in RealPrices : RealPublish(s, p)
    \/ SuppressionSubscriber
    \/ SynthClock

SynthSpec == SynthInit /\ [][SynthNext]_synthVars

-----------------------------------------------------------------------------
\* A generator is only ever silenced by a real publisher: the messages of the
\* generators themselves, which all come back through the subscriber, never
\* suppress their own subject (suppression.rs: "Synth's own publishes therefore
\* never cause self-suppression"; record_message, synth_tag).
SilencedByRealOnly ==
    \A s \in SynthSubjects : ~AllowPublish(s) => s \in realSent

\* While a real publisher is alive the board shows its price: no synthetic
\* price replaces a real one on a suppressed subject (ltp_board.rs: "when a real
\* publisher is producing, downstream synth events follow the real prices").
BoardFollowsReal ==
    [][board' # board /\ ~AllowPublish("md.tick") => board' \in RealPrices]_synthVars

\* exec.trade.closed is published "when round-trip closes" (trade_chain.rs).
ClosedMeansClosed ==
    [][wire' # wire /\ wire' # <<>> /\ Len(wire') > Len(wire)
         /\ \E k \in Len(wire) + 1..Len(wire') : wire'[k].subject = "exec.trade.closed"
       => holding.qty # 0]_synthVars
=============================================================================
