------------------------------ MODULE RiskEngine ------------------------------
(***************************************************************************)
(* hedge-risk's RiskEngine (engine.rs) with its RiskState (state.rs,       *)
(* cooldown.rs, target.rs, volatility.rs) and the kill switch.  evaluate   *)
(* runs concurrently on several tasks.  Its atomic steps are               *)
(*   the lock-free kill-switch load and the session-time check;            *)
(*   all the gates, sizing and minting, under the state mutex;             *)
(*   the two steps of KillSwitch's activate when the drawdown gate fails.  *)
(* The subscriber tasks that feed the state (PnL, positions, cooldowns,    *)
(* volatility, broker latency, profit target) take the same mutex, and     *)
(* operators engage the switch at any time.                                *)
(*                                                                         *)
(* Money and sizes are small integers; the product of the warm-cache       *)
(* factors is any value between zero and the base risk.                    *)
(***************************************************************************)
EXTENDS KillSwitch, Integers, Sequences

CONSTANTS
    Evaluators,        \* tasks that call evaluate
    Operators,         \* tasks that engage the kill switch from outside
    Symbols,
    BrokerIds,         \* the brokers of the latency gate
    Signals,           \* inputs: [symbol, maxSize, price]
    PnlInputs,         \* inputs: <<realized, unrealized>>
    BookInputs,        \* inputs: [symbol, qty, price]
    Expiries,          \* inputs: cooldown expiries
    RealizedInputs,    \* inputs: realized PnL of the profit-target tracker
    AdaptiveRisks,     \* inputs: base risk times the clamped warm-cache factors
    Capital, MaxDailyLoss, MaxDrawdown,
    MaxPositionPerSymbol, MaxPositionPortfolio, MaxNotional, MaxExposurePerSymbol,
    MaxTradesPerSession,
    UpperBand,         \* the profit target
    Policy,            \* post-target policy
    SessionEnd,        \* the session is open from time 0 to SessionEnd
    MaxTime, MaxMints  \* bounds

ASSUME RiskAssumption ==
    /\ SwitchUsers = Evaluators \cup Operators
    /\ Evaluators \cap Operators = {}
    /\ "MaxDrawdown" \in Reasons
    /\ BrokerIds # {}
    /\ Signals \subseteq [symbol: Symbols, maxSize: Nat, price: Nat]
    /\ PnlInputs \subseteq Int \X Int
    /\ BookInputs \subseteq [symbol: Symbols, qty: Nat, price: Nat]
    /\ Expiries \subseteq Nat /\ RealizedInputs \subseteq Int /\ AdaptiveRisks \subseteq Nat
    /\ {Capital, MaxDailyLoss, MaxDrawdown, MaxPositionPerSymbol, MaxPositionPortfolio,
        MaxNotional, MaxExposurePerSymbol, MaxTradesPerSession, UpperBand} \subseteq Nat
    /\ Policy \in {"ReduceSizeToZero", "StopForSession", "HalveSize", "Continue"}

VARIABLES
    realized, unrealized, peak, drawdown,        \* PnL aggregates, paise
    position, exposure, portfolio, notional,     \* what is held, per symbol and in all
    cooling,      \* cooling[s]: expiry of s's cooldown, 0 when it has no entry
    volatile,     \* symbols whose realized volatility is above the threshold
    slow,         \* brokers whose latency is above the threshold
    reached,      \* target.crossed
    now,          \* the clock
    sequence,     \* the AtomicU64 mixed into every token
    eval,         \* eval[e]: locals of an evaluate call
    \* history
    minted,       \* approvals, as [sequence, symbol, qty, ...]
    halted,       \* an evaluation has been refused for drawdown
    promised,     \* promised[s]: the latest expiry ever engaged for s
    crossedOnce,  \* the realized PnL was at the upper band in this session
    lossHit       \* the total PnL was at the daily limit in this session

pnlVars == <<realized, unrealized, peak, drawdown>>
bookVars == <<position, exposure, portfolio, notional>>
marketVars == <<cooling, volatile, slow, reached>>
riskHistory == <<minted, halted, promised, crossedOnce, lossHit>>
stateVars == <<pnlVars, bookVars, marketVars, now, sequence>>
vars == <<killVars, realized, unrealized, peak, drawdown, position, exposure, portfolio,
          notional, cooling, volatile, slow, reached, now, sequence, eval,
          minted, halted, promised, crossedOnce, lossHit>>

NoSignal == [symbol |-> "none", maxSize |-> 0, price |-> 0]
IdleEval == [pc |-> "idle", signal |-> NoSignal, afterHalt |-> FALSE]

\* RiskState::new
FreshState ==
    /\ realized = 0 /\ unrealized = 0 /\ peak = Capital /\ drawdown = 0
    /\ position = [s \in Symbols |-> 0]
    /\ exposure = [s \in Symbols |-> 0]
    /\ portfolio = 0 /\ notional = 0
    /\ cooling = [s \in Symbols |-> 0]
    /\ volatile = {} /\ slow = {} /\ reached = FALSE

Init ==
    /\ KillInit
    /\ FreshState
    /\ now = 0
    /\ sequence = 1
    /\ eval = [e \in Evaluators |-> IdleEval]
    /\ minted = {}
    /\ halted = FALSE
    /\ promised = [s \in Symbols |-> 0]
    /\ crossedOnce = FALSE /\ lossHit = FALSE

Larger(a, b) == IF a >= b THEN a ELSE b
Smaller(a, b) == IF a <= b THEN a ELSE b

(***************************************************************************)
(* The gates, in the order evaluate_inner applies them.                    *)
(***************************************************************************)
Total == realized + unrealized

\* The quantity the position, leverage and exposure gates assume.
Prospective(sig) == Larger(sig.maxSize, 1)

ShouldReject == reached /\ Policy \in {"ReduceSizeToZero", "StopForSession"}
ShouldHalve == reached /\ Policy = "HalveSize"

\* The counters of frequency.rs are only moved by FrequencyCounters::record,
\* which nothing in the service calls: would_breach always counts zero trades.
CountedTrades == 0

Gates == <<"MaxDailyLoss", "MaxDrawdown", "TradeFrequency", "MaxPosition", "MaxLeverage",
           "MaxExposure", "SlippageCooldown", "VolatilityBlock", "BrokerLatencyBlock",
           "ProfitTargetReached", "AdaptiveRiskZero">>

Breached(gate, sig, adaptive) ==
    LET s == sig.symbol
        q == Prospective(sig) IN
    CASE gate = "MaxDailyLoss" -> Total <= -MaxDailyLoss
      [] gate = "MaxDrawdown" -> drawdown >= MaxDrawdown
      [] gate = "TradeFrequency" -> CountedTrades + 1 > MaxTradesPerSession
      [] gate = "MaxPosition" -> \/ position[s] + q > MaxPositionPerSymbol
                                 \/ portfolio + q > MaxPositionPortfolio
      [] gate = "MaxLeverage" -> Capital > 0 /\ notional + sig.price * q > MaxNotional
      [] gate = "MaxExposure" -> exposure[s] + sig.price * q > MaxExposurePerSymbol
      [] gate = "SlippageCooldown" -> cooling[s] > now
      [] gate = "VolatilityBlock" -> s \in volatile
      [] gate = "BrokerLatencyBlock" -> BrokerIds \subseteq slow
      [] gate = "ProfitTargetReached" -> ShouldReject
      [] gate = "AdaptiveRiskZero" -> adaptive = 0

Passes(sig, adaptive) == \A i \in DOMAIN Gates : ~Breached(Gates[i], sig, adaptive)

\* The first gate that is breached decides the rejection.
StopsAt(gate, sig, adaptive) ==
    \E i \in DOMAIN Gates :
        /\ Gates[i] = gate
        /\ Breached(gate, sig, adaptive)
        /\ \A j \in 1..(i - 1) : ~Breached(Gates[j], sig, adaptive)

\* Mutant of SizedQuantity: the signal's own limit is not applied.
UncappedQuantity(sig, adaptive) ==
    LET shares == IF sig.price > 0 THEN adaptive \div sig.price ELSE 0
    IN Larger(IF ShouldHalve THEN shares \div 2 ELSE shares, 1)

\* Sizing: shares for the adaptive risk, halved past the target, capped by the
\* signal's own limit, and never zero.
SizedQuantity(sig, adaptive) ==
    LET shares == IF sig.price > 0 THEN adaptive \div sig.price ELSE 0
        halved == IF ShouldHalve THEN shares \div 2 ELSE shares
    IN Larger(Smaller(halved, sig.maxSize), 1)

(***************************************************************************)
(* evaluate                                                                *)
(***************************************************************************)
InSession == now <= SessionEnd

\* Kill switch and session time are checked before the lock is taken; a call
\* that fails either returns at once and changes nothing.
BeginEvaluate(e, sig) ==
    /\ eval[e].pc = "idle"
    /\ sequence <= MaxMints
    /\ ~killed
    /\ InSession
    /\ eval' = [eval EXCEPT ![e] = [pc |-> "gates", signal |-> sig, afterHalt |-> halted]]
    /\ UNCHANGED <<killVars, stateVars, riskHistory>>

NextSequence == sequence + 1

Mint(e, qty) ==
    /\ minted' = minted \cup {[sequence |-> sequence, symbol |-> eval[e].signal.symbol,
                               qty |-> qty, afterHalt |-> eval[e].afterHalt]}
    /\ sequence' = NextSequence

\* Everything under the state mutex.
ApplyGates(e) ==
    \E adaptive \in AdaptiveRisks :
        LET sig == eval[e].signal IN
        /\ eval[e].pc = "gates"
        /\ IF Passes(sig, adaptive)
           THEN Mint(e, SizedQuantity(sig, adaptive))
           ELSE UNCHANGED <<minted, sequence>>
        /\ eval' = [eval EXCEPT ![e] =
                      IF StopsAt("MaxDrawdown", sig, adaptive) THEN [@ EXCEPT !.pc = "halt"]
                      ELSE IdleEval]
        /\ UNCHANGED <<killVars, pnlVars, bookVars, marketVars, now,
                       halted, promised, crossedOnce, lossHit>>

\* Mutant of Halt: the gate rejects without engaging the switch.
RejectOnly(e) ==
    /\ eval[e].pc = "halt"
    /\ halted' = TRUE
    /\ eval' = [eval EXCEPT ![e] = IdleEval]
    /\ UNCHANGED <<killVars, stateVars, minted, promised, crossedOnce, lossHit>>

\* The drawdown gate calls activate(MaxDrawdown) before it rejects.
Halt(e) ==
    /\ eval[e].pc = "halt"
    /\ \/ Engage(e, "MaxDrawdown") /\ eval' = [eval EXCEPT ![e].pc = "halting"] /\ UNCHANGED halted
       \/ killed /\ halted' = TRUE /\ eval' = [eval EXCEPT ![e] = IdleEval] /\ UNCHANGED killVars
    /\ UNCHANGED <<stateVars, minted, promised, crossedOnce, lossHit>>

HaltReason(e) ==
    /\ eval[e].pc = "halting"
    /\ WriteReason(e)
    /\ halted' = TRUE
    /\ eval' = [eval EXCEPT ![e] = IdleEval]
    /\ UNCHANGED <<stateVars, minted, promised, crossedOnce, lossHit>>

\* The trader, the psychology engine, the supervisor or AI governance.
OperatorHalt(o, r) ==
    /\ Engage(o, r) \/ WriteReason(o)
    /\ UNCHANGED <<stateVars, eval, riskHistory>>

(***************************************************************************)
(* The subscriber tasks: one mutator of RiskState each, under the mutex.   *)
(***************************************************************************)
\* Mutant of NewPeak: gains do not advance the peak.
FixedPeak(equity) == peak

NewPeak(equity) == Larger(peak, equity)

UpdatePnl(r, u) ==
    LET equity == Capital + r + u IN
    /\ realized' = r
    /\ unrealized' = u
    /\ peak' = NewPeak(equity)
    /\ drawdown' = NewPeak(equity) - equity
    /\ lossHit' = (lossHit \/ r + u <= -MaxDailyLoss)
    /\ UNCHANGED <<killVars, bookVars, marketVars, now, sequence, eval,
                   minted, halted, promised, crossedOnce>>

\* External: the positions the Position_Engine reports for one symbol.
UpdateBook(b) ==
    LET s == b.symbol
        value == b.qty * b.price IN
    /\ position' = [position EXCEPT ![s] = b.qty]
    /\ exposure' = [exposure EXCEPT ![s] = value]
    /\ portfolio' = portfolio - position[s] + b.qty
    /\ notional' = notional - exposure[s] + value
    /\ UNCHANGED <<killVars, pnlVars, marketVars, now, sequence, eval, riskHistory>>

\* Mutant of Extended: the latest engagement wins.
Replaced(old, expiry) == expiry

\* CooldownRegistry::engage never shortens a cooldown.
Extended(old, expiry) == Larger(old, expiry)

EngageCooldown(s, expiry) ==
    /\ cooling' = [cooling EXCEPT ![s] = Extended(@, expiry)]
    /\ promised' = [promised EXCEPT ![s] = Larger(@, expiry)]
    /\ UNCHANGED <<killVars, pnlVars, bookVars, volatile, slow, reached, now, sequence,
                   eval, minted, halted, crossedOnce, lossHit>>

\* CooldownRegistry::prune drops the expired entries.
PruneCooldowns ==
    /\ cooling' = [s \in Symbols |-> IF cooling[s] <= now THEN 0 ELSE cooling[s]]
    /\ UNCHANGED <<killVars, pnlVars, bookVars, volatile, slow, reached, now, sequence,
                   eval, riskHistory>>

\* VolatilityTable::update and BrokerLatencyTable::record.
UpdateMarket(s, b) ==
    /\ volatile' \in {volatile, volatile \cup {s}, volatile \ {s}}
    /\ slow' \in {slow, slow \cup {b}, slow \ {b}}
    /\ UNCHANGED <<killVars, pnlVars, bookVars, cooling, reached, now, sequence,
                   eval, riskHistory>>

\* Mutant of Crossing: the crossing is forgotten when the PnL falls back.
CrossingNow(r) == r >= UpperBand

\* TargetState::record_realized latches the crossing.
Crossing(r) == reached \/ r >= UpperBand

RecordRealized(r) ==
    /\ reached' = Crossing(r)
    /\ crossedOnce' = (crossedOnce \/ r >= UpperBand)
    /\ UNCHANGED <<killVars, pnlVars, bookVars, cooling, volatile, slow, now, sequence,
                   eval, minted, halted, promised, lossHit>>

\* RiskState::reset_session: cooldowns, volatility and latency span the boundary.
ResetSession ==
    /\ realized' = 0 /\ unrealized' = 0 /\ peak' = Capital /\ drawdown' = 0
    /\ position' = [s \in Symbols |-> 0]
    /\ exposure' = [s \in Symbols |-> 0]
    /\ portfolio' = 0 /\ notional' = 0
    /\ reached' = FALSE
    /\ crossedOnce' = FALSE /\ lossHit' = FALSE
    /\ UNCHANGED <<killVars, cooling, volatile, slow, now, sequence, eval,
                   minted, halted, promised>>

Tick ==
    /\ now < MaxTime
    /\ now' = now + 1
    /\ UNCHANGED <<killVars, pnlVars, bookVars, marketVars, sequence, eval, riskHistory>>

(***************************************************************************)
(* The specification                                                       *)
(***************************************************************************)
EvaluateStep(e) == ApplyGates(e) \/ Halt(e) \/ HaltReason(e)

Next ==
    \/ \E e \in Evaluators : EvaluateStep(e) \/ (\E sig \in Signals : BeginEvaluate(e, sig))
    \/ \E o \in Operators, r \in Reasons : OperatorHalt(o, r)
    \/ \E p \in PnlInputs : UpdatePnl(p[1], p[2])
    \/ \E b \in BookInputs : UpdateBook(b)
    \/ \E s \in Symbols, x \in Expiries : EngageCooldown(s, x)
    \/ PruneCooldowns
    \/ \E s \in Symbols, b \in BrokerIds : UpdateMarket(s, b)
    \/ \E r \in RealizedInputs : RecordRealized(r)
    \/ ResetSession
    \/ Tick

Spec == Init /\ [][Next]_vars

(***************************************************************************)
(* Properties                                                              *)
(***************************************************************************)
Evaluation == [pc: {"idle", "gates", "halt", "halting"}, signal: Signals \cup {NoSignal},
               afterHalt: BOOLEAN]
Approval == [sequence: Nat, symbol: Symbols, qty: Nat, afterHalt: BOOLEAN]

\* Every variable has its type; the drawdown is never negative.
RiskTypeOK ==
    /\ KillTypeOK
    /\ realized \in Int /\ unrealized \in Int /\ peak \in Int /\ drawdown \in Nat
    /\ position \in [Symbols -> Nat] /\ exposure \in [Symbols -> Nat]
    /\ portfolio \in Int /\ notional \in Int
    /\ cooling \in [Symbols -> Nat]
    /\ volatile \subseteq Symbols /\ slow \subseteq BrokerIds
    /\ reached \in BOOLEAN
    /\ now \in Nat /\ sequence \in Nat
    /\ eval \in [Evaluators -> Evaluation]
    /\ minted \subseteq Approval
    /\ halted \in BOOLEAN /\ crossedOnce \in BOOLEAN /\ lossHit \in BOOLEAN
    /\ promised \in [Symbols -> Nat]

\* A drawdown breach is final (R5.5, engine.rs 235-249): once an evaluation has
\* been refused for drawdown the switch stays engaged, and no evaluation that
\* starts later approves anything, even when the PnL has recovered.
HaltIsFinal ==
    /\ halted => killed
    /\ \A m \in minted : ~m.afterHalt

\* An approval fits under every size limit at the moment it is minted, although
\* the gates look at the prospective and not at the sized quantity (engine.rs
\* 272-328 against 441-458).  With no capital there is no leverage limit (299).
FitsLimits(sig, qty) ==
    LET s == sig.symbol IN
    /\ position[s] + qty <= MaxPositionPerSymbol
    /\ portfolio + qty <= MaxPositionPortfolio
    /\ Capital > 0 => notional + sig.price * qty <= MaxNotional
    /\ exposure[s] + sig.price * qty <= MaxExposurePerSymbol

NewApprovals == minted' \ minted

ApprovalFitsLimits ==
    [][\A m \in NewApprovals :
         \E e \in Evaluators : eval'[e] # eval[e] /\ FitsLimits(eval[e].signal, m.qty)]_vars

\* Nothing is approved for a symbol before the latest cooldown ever engaged for it
\* has expired, whatever shorter cooldowns, prunes and session resets came in
\* between (cooldown.rs 94-142).
CooldownHonoured ==
    [][\A m \in NewApprovals : promised[m.symbol] <= now]_vars

\* After the profit target has been reached nothing is approved for the rest of
\* the session, even if realized PnL falls back (target.rs 76-109).
TargetIsFinal ==
    [][NewApprovals # {} /\ Policy \in {"ReduceSizeToZero", "StopForSession"}
         => ~crossedOnce]_vars

\* No two approvals carry the same sequence number, so no two tokens are equal
\* (approval.rs 18-24, engine.rs 471).
TokensAreDistinct ==
    \A m, n \in minted : m.sequence = n.sequence => m = n

(***************************************************************************)
(* Statements of the documentation that the code does not keep.            *)
(***************************************************************************)
\* R5.2: once the daily loss limit is reached all entries are blocked "for the
\* remainder of the Trading_Session".
DailyLossBlocksSession == [][NewApprovals # {} => ~lossHit]_vars
=============================================================================
