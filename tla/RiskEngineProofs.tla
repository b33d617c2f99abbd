--------------------------- MODULE RiskEngineProofs ---------------------------
(***************************************************************************)
(* The Risk_Engine's latches, for every number of evaluators, operators    *)
(* and symbols: a drawdown halt, a cooldown and a reached profit target    *)
(* cannot be undone by anything that happens in between, and no two        *)
(* approvals are alike.                                                    *)
(***************************************************************************)
EXTENDS RiskEngine, FiniteSetTheorems, TLAPS

USE DEF killVars, pnlVars, bookVars, marketVars, riskHistory, stateVars

\* The parts of RiskTypeOK the latches need.
LatchTypeOK ==
    /\ killed \in BOOLEAN
    /\ reason \in Reasons \cup {NoReason}
    /\ use \in [SwitchUsers -> Use]
    /\ cause \in Reasons \cup {NoReason}
    /\ eval \in [Evaluators -> Evaluation]
    /\ minted \subseteq Approval
    /\ sequence \in Nat /\ now \in Nat
    /\ cooling \in [Symbols -> Nat] /\ promised \in [Symbols -> Nat]
    /\ halted \in BOOLEAN /\ reached \in BOOLEAN /\ crossedOnce \in BOOLEAN

\* Nobody resets the switch; the one task that engaged it, if it has not written
\* the reason yet, carries the cause, and the reason is still empty.
SwitchOK ==
    /\ reason # NoReason => killed /\ reason = cause
    /\ \A u \in SwitchUsers :
        /\ use[u].pc # "clear"
        /\ use[u].pc = "write" => killed /\ reason = NoReason /\ use[u].arg = cause
    /\ \A u, v \in SwitchUsers : use[u].pc = "write" /\ use[v].pc = "write" => u = v
    /\ \A e \in Evaluators : eval[e].pc = "halting" <=> use[e].pc = "write"

\* Evaluations that are under way started before any halt.
HaltOK ==
    /\ halted => killed
    /\ \A e \in Evaluators : ~eval[e].afterHalt
    /\ \A e \in Evaluators : eval[e].pc = "gates" => eval[e].signal \in Signals
    /\ \A m \in minted : ~m.afterHalt

\* Sequence numbers handed out are behind the counter.
SequenceOK ==
    /\ \A m \in minted : m.sequence < sequence
    /\ \A m, n \in minted : m.sequence = n.sequence => m = n

\* A cooldown in force is the longest one ever promised.
CooldownOK ==
    \A s \in Symbols : /\ cooling[s] <= promised[s]
                       /\ promised[s] > now => cooling[s] = promised[s]

TargetOK == crossedOnce <=> reached

\* The inductive invariant.
LatchInv == LatchTypeOK /\ SwitchOK /\ HaltOK /\ SequenceOK /\ CooldownOK /\ TargetOK

\* A new engine has no halt, no cooldown and no tokens.
LEMMA LatchInit == Init => LatchInv
  <1> SUFFICES ASSUME Init PROVE LatchInv
    OBVIOUS
  <1> USE DEF Init, KillInit, FreshState, IdleEval, IdleUse
  <1>1. LatchTypeOK
    BY DEF LatchTypeOK, Use, Evaluation
  <1>2. SwitchOK
    BY RiskAssumption DEF SwitchOK
  <1>3. HaltOK /\ SequenceOK /\ CooldownOK /\ TargetOK
    BY DEF HaltOK, SequenceOK, CooldownOK, TargetOK
  <1> QED BY <1>1, <1>2, <1>3 DEF LatchInv

\* Starting an evaluation disturbs no latch.
LEMMA BeginKeeps ==
    ASSUME LatchInv, NEW e \in Evaluators, NEW sig \in Signals, BeginEvaluate(e, sig)
    PROVE  LatchInv'
  <1> USE DEF LatchInv, BeginEvaluate
  <1>1. LatchTypeOK'
    BY DEF LatchTypeOK, Evaluation
  <1>2. SwitchOK'
    BY DEF LatchTypeOK, SwitchOK
  <1>3. HaltOK'
    BY DEF LatchTypeOK, HaltOK
  <1>4. SequenceOK' /\ CooldownOK' /\ TargetOK'
    BY DEF SequenceOK, CooldownOK, TargetOK
  <1> QED BY <1>1, <1>2, <1>3, <1>4

\* Sizing yields a natural number.
LEMMA SizedInNat ==
    ASSUME NEW sig \in Signals, NEW a \in AdaptiveRisks
    PROVE  SizedQuantity(sig, a) \in Nat
  <1>1. sig.maxSize \in Nat /\ sig.price \in Nat /\ a \in Nat
    BY RiskAssumption
  <1>2. sig.price > 0 => a \div sig.price \in Nat
    BY <1>1
  <1>3. \A n \in Nat : n \div 2 \in Nat
    OBVIOUS
  <1> QED BY <1>1, <1>2, <1>3 DEF SizedQuantity, Larger, Smaller

\* A minted approval is the one new member of `minted`.
LEMMA ApplyGatesKeeps ==
    ASSUME LatchInv, NEW e \in Evaluators, ApplyGates(e)
    PROVE  LatchInv'
  <1> USE DEF LatchInv
  <1>1. PICK a \in AdaptiveRisks :
            LET sig == eval[e].signal IN
            /\ eval[e].pc = "gates"
            /\ IF Passes(sig, a) THEN Mint(e, SizedQuantity(sig, a))
               ELSE UNCHANGED <<minted, sequence>>
            /\ eval' = [eval EXCEPT ![e] =
                          IF StopsAt("MaxDrawdown", sig, a) THEN [@ EXCEPT !.pc = "halt"]
                          ELSE IdleEval]
            /\ UNCHANGED <<killVars, pnlVars, bookVars, marketVars, now,
                           halted, promised, crossedOnce, lossHit>>
    BY DEF ApplyGates
  <1>2. eval[e].signal \in Signals /\ eval[e].signal.symbol \in Symbols /\ ~eval[e].afterHalt
    BY <1>1, RiskAssumption DEF HaltOK
  <1> DEFINE qty == SizedQuantity(eval[e].signal, a)
             new == [sequence |-> sequence, symbol |-> eval[e].signal.symbol,
                     qty |-> qty, afterHalt |-> eval[e].afterHalt]
  <1>3. qty \in Nat
    BY <1>2, SizedInNat
  <1>4. \/ minted' = minted /\ sequence' = sequence
        \/ minted' = minted \cup {new} /\ sequence' = sequence + 1
    BY <1>1 DEF Mint, NextSequence
  <1> HIDE DEF qty
  <1>5. new \in Approval
    BY <1>2, <1>3 DEF LatchTypeOK, Approval, Evaluation
  <1>6. eval' \in [Evaluators -> Evaluation] /\ eval'[e].pc \in {"halt", "idle"}
        /\ ~eval'[e].afterHalt /\ \A d \in Evaluators \ {e} : eval'[d] = eval[d]
    BY <1>1, <1>2 DEF LatchTypeOK, Evaluation, IdleEval
  <1>7. LatchTypeOK'
    BY <1>1, <1>4, <1>5, <1>6 DEF LatchTypeOK
  <1>8. SwitchOK'
    BY <1>1, <1>6 DEF SwitchOK
  <1>9. HaltOK'
    BY <1>1, <1>2, <1>4, <1>6 DEF HaltOK
  <1>10. SequenceOK'
    BY <1>4, <1>5 DEF SequenceOK, LatchTypeOK, Approval
  <1>11. CooldownOK' /\ TargetOK'
    BY <1>1 DEF CooldownOK, TargetOK
  <1> QED BY <1>7, <1>8, <1>9, <1>10, <1>11

\* The drawdown gate, the operators, and the reason each of them records.
LEMMA SwitchKeeps ==
    ASSUME LatchInv,
           \/ \E e \in Evaluators : Halt(e) \/ HaltReason(e)
           \/ \E o \in Operators, r \in Reasons : OperatorHalt(o, r)
    PROVE  LatchInv'
  <1> USE RiskAssumption, NoReasonAssumption
  <1> USE DEF LatchInv
  \* Engaging makes u the only task that has a reason to write.
  <1>1. ASSUME NEW u \in SwitchUsers, NEW r \in Reasons, Engage(u, r)
        PROVE  /\ killed' = TRUE /\ reason' = NoReason /\ cause' = r
               /\ use' \in [SwitchUsers -> Use]
               /\ use'[u] = [pc |-> "write", arg |-> r]
               /\ \A v \in SwitchUsers \ {u} : use'[v] = use[v] /\ use[v].pc = "idle"
    BY <1>1 DEF LatchTypeOK, SwitchOK, Engage, Use
  \* Writing the reason leaves no writer.
  <1>2. ASSUME NEW u \in SwitchUsers, WriteReason(u)
        PROVE  /\ killed /\ killed' = killed /\ cause' = cause /\ reason' = cause'
               /\ use' \in [SwitchUsers -> Use]
               /\ \A v \in SwitchUsers : use'[v].pc = "idle"
               /\ \A v \in SwitchUsers \ {u} : use'[v] = use[v]
               /\ use[u].pc = "write"
    BY <1>2 DEF LatchTypeOK, SwitchOK, WriteReason, Use, IdleUse
  <1>3. ASSUME NEW e \in Evaluators, Halt(e) PROVE LatchInv'
    <2>1. e \in SwitchUsers
      OBVIOUS
    <2>2. /\ eval' \in [Evaluators -> Evaluation]
          /\ \A d \in Evaluators \ {e} : eval'[d] = eval[d]
          /\ ~eval'[e].afterHalt /\ eval'[e].pc # "gates"
          /\ eval[e].pc = "halt"
      <3>1. CASE eval' = [eval EXCEPT ![e].pc = "halting"]
        BY <1>3, <3>1 DEF LatchTypeOK, HaltOK, Halt, Evaluation
      <3>2. CASE eval' = [eval EXCEPT ![e] = IdleEval]
        BY <1>3, <3>2 DEF LatchTypeOK, Halt, Evaluation, IdleEval
      <3> QED BY <1>3, <3>1, <3>2 DEF Halt
    <2>3. SequenceOK' /\ CooldownOK' /\ TargetOK'
      BY <1>3 DEF Halt, SequenceOK, CooldownOK, TargetOK
    <2>4. CASE Engage(e, "MaxDrawdown") /\ eval' = [eval EXCEPT ![e].pc = "halting"]
               /\ UNCHANGED halted
      <3>1. eval'[e].pc = "halting"
        BY <2>4 DEF LatchTypeOK, Evaluation
      <3>2. LatchTypeOK'
        BY <1>1, <1>3, <2>1, <2>2, <2>4, ZenonT(60) DEF LatchTypeOK, Halt
      <3>3. SwitchOK'
        <4>1. \A v \in SwitchUsers \ {e} : use'[v] = use[v] /\ use[v].pc = "idle"
          BY <1>1, <2>1, <2>4
        <4>2. /\ killed' = TRUE /\ reason' = NoReason /\ cause' = "MaxDrawdown"
              /\ use'[e] = [pc |-> "write", arg |-> "MaxDrawdown"]
          BY <1>1, <2>1, <2>4
        <4> QED BY <2>2, <3>1, <4>1, <4>2 DEF SwitchOK
      <3>4. HaltOK'
        BY <1>1, <1>3, <2>1, <2>2, <2>4 DEF HaltOK, Halt
      <3> QED BY <2>3, <3>2, <3>3, <3>4
    <2>5. CASE killed /\ halted' = TRUE /\ eval' = [eval EXCEPT ![e] = IdleEval]
               /\ UNCHANGED killVars
      <3>1. LatchTypeOK'
        BY <1>3, <2>2, <2>5 DEF LatchTypeOK, Halt
      <3>2. eval'[e].pc = "idle"
        BY <2>5 DEF LatchTypeOK, IdleEval
      <3>3. SwitchOK'
        BY <2>1, <2>2, <2>5, <3>2 DEF SwitchOK
      <3>4. HaltOK'
        BY <1>3, <2>2, <2>5 DEF HaltOK, Halt
      <3> QED BY <2>3, <3>1, <3>3, <3>4
    <2> QED BY <1>3, <2>4, <2>5 DEF Halt
  <1>4. ASSUME NEW e \in Evaluators, HaltReason(e) PROVE LatchInv'
    <2>1. e \in SwitchUsers /\ WriteReason(e)
      BY <1>4 DEF HaltReason
    <2>2. /\ eval' \in [Evaluators -> Evaluation]
          /\ \A d \in Evaluators \ {e} : eval'[d] = eval[d]
          /\ ~eval'[e].afterHalt /\ eval'[e].pc = "idle"
      BY <1>4 DEF LatchTypeOK, HaltOK, HaltReason, Evaluation, IdleEval
    <2>3. SequenceOK' /\ CooldownOK' /\ TargetOK'
      BY <1>4 DEF HaltReason, SequenceOK, CooldownOK, TargetOK
    <2>4. LatchTypeOK'
      BY <1>2, <1>4, <2>1, <2>2 DEF LatchTypeOK, HaltReason
    <2>5. SwitchOK'
      BY <1>2, <2>1, <2>2 DEF SwitchOK
    <2>6. HaltOK'
      BY <1>2, <1>4, <2>1, <2>2 DEF HaltOK, HaltReason
    <2> QED BY <2>3, <2>4, <2>5, <2>6
  <1>5. ASSUME NEW o \in Operators, NEW r \in Reasons, OperatorHalt(o, r) PROVE LatchInv'
    <2>1. o \in SwitchUsers /\ o \notin Evaluators
      OBVIOUS
    <2>2. SequenceOK' /\ CooldownOK' /\ TargetOK'
      BY <1>5 DEF OperatorHalt, SequenceOK, CooldownOK, TargetOK
    <2>3. CASE Engage(o, r)
      <3>1. LatchTypeOK'
        BY <1>1, <1>5, <2>1, <2>3, ZenonT(60) DEF LatchTypeOK, OperatorHalt
      <3>2. SwitchOK'
        <4>1. \A v \in SwitchUsers \ {o} : use'[v] = use[v] /\ use[v].pc = "idle"
          BY <1>1, <2>1, <2>3
        <4>2. /\ killed' = TRUE /\ reason' = NoReason /\ cause' = r /\ eval' = eval
              /\ use'[o] = [pc |-> "write", arg |-> r]
          BY <1>1, <1>5, <2>1, <2>3 DEF OperatorHalt
        <4> QED BY <2>1, <4>1, <4>2 DEF SwitchOK
      <3>3. HaltOK'
        BY <1>1, <1>5, <2>1, <2>3 DEF HaltOK, OperatorHalt
      <3> QED BY <2>2, <3>1, <3>2, <3>3
    <2>4. CASE WriteReason(o)
      <3>1. LatchTypeOK'
        BY <1>2, <1>5, <2>1, <2>4 DEF LatchTypeOK, OperatorHalt
      <3>2. SwitchOK' /\ HaltOK'
        BY <1>2, <1>5, <2>1, <2>4 DEF SwitchOK, HaltOK, OperatorHalt, LatchTypeOK
      <3> QED BY <2>2, <3>1, <3>2
    <2> QED BY <1>5, <2>3, <2>4 DEF OperatorHalt
  <1> QED BY <1>3, <1>4, <1>5

\* The subscriber tasks and the clock.
LEMMA FeedKeeps ==
    ASSUME LatchInv,
           \/ \E p \in PnlInputs : UpdatePnl(p[1], p[2])
           \/ \E b \in BookInputs : UpdateBook(b)
           \/ \E s \in Symbols, x \in Expiries : EngageCooldown(s, x)
           \/ PruneCooldowns
           \/ \E s \in Symbols, b \in BrokerIds : UpdateMarket(s, b)
           \/ \E r \in RealizedInputs : RecordRealized(r)
           \/ ResetSession \/ Tick \/ UNCHANGED vars
    PROVE  LatchInv'
  <1> USE RiskAssumption DEF LatchInv
  <1>1. ASSUME UNCHANGED <<killVars, now, sequence, eval, minted, halted, cooling, promised,
                           reached, crossedOnce>>
        PROVE  LatchInv'
    BY <1>1 DEF LatchTypeOK, SwitchOK, HaltOK, SequenceOK, CooldownOK, TargetOK
  <1>2. ASSUME UNCHANGED <<killVars, sequence, eval, minted, halted>>
        PROVE  SwitchOK' /\ HaltOK' /\ SequenceOK'
    BY <1>2 DEF SwitchOK, HaltOK, SequenceOK
  <1>3. ASSUME NEW s \in Symbols, NEW x \in Expiries, EngageCooldown(s, x) PROVE LatchInv'
    <2>1. LatchTypeOK'
      BY <1>3 DEF LatchTypeOK, EngageCooldown, Extended, Larger
    <2>2. CooldownOK' /\ TargetOK'
      BY <1>3 DEF LatchTypeOK, CooldownOK, TargetOK, EngageCooldown, Extended, Larger
    <2> QED BY <1>2, <1>3, <2>1, <2>2 DEF EngageCooldown
  <1>4. CASE PruneCooldowns
    <2>1. LatchTypeOK' /\ CooldownOK' /\ TargetOK'
      BY <1>4 DEF LatchTypeOK, CooldownOK, TargetOK, PruneCooldowns
    <2> QED BY <1>2, <1>4, <2>1 DEF PruneCooldowns
  <1>5. ASSUME NEW r \in RealizedInputs, RecordRealized(r) PROVE LatchInv'
    <2>1. LatchTypeOK' /\ CooldownOK'
      BY <1>5 DEF LatchTypeOK, CooldownOK, RecordRealized, Crossing
    <2>2. TargetOK'
      BY <1>5 DEF LatchTypeOK, TargetOK, RecordRealized, Crossing
    <2> QED BY <1>2, <1>5, <2>1, <2>2 DEF RecordRealized
  <1>6. CASE ResetSession
    <2>1. LatchTypeOK' /\ CooldownOK' /\ TargetOK'
      BY <1>6 DEF LatchTypeOK, CooldownOK, TargetOK, ResetSession
    <2> QED BY <1>2, <1>6, <2>1 DEF ResetSession
  <1>7. CASE Tick
    <2>1. LatchTypeOK' /\ CooldownOK' /\ TargetOK'
      BY <1>7 DEF LatchTypeOK, CooldownOK, TargetOK, Tick
    <2> QED BY <1>2, <1>7, <2>1 DEF Tick
  <1>8. ASSUME NEW p \in PnlInputs, UpdatePnl(p[1], p[2]) PROVE LatchInv'
    BY <1>1, <1>8 DEF UpdatePnl
  <1>9. ASSUME NEW b \in BookInputs, UpdateBook(b) PROVE LatchInv'
    BY <1>1, <1>9 DEF UpdateBook
  <1>10. ASSUME NEW s \in Symbols, NEW b \in BrokerIds, UpdateMarket(s, b) PROVE LatchInv'
    BY <1>1, <1>10 DEF UpdateMarket
  <1>12. CASE UNCHANGED vars
    BY <1>1, <1>12 DEF vars
  <1> QED
    BY <1>3, <1>4, <1>5, <1>6, <1>7, <1>8, <1>9, <1>10, <1>12

\* No step of an evaluation, of the operator or of a RiskState mutator undoes a latch.
LEMMA LatchNext == LatchInv /\ [Next]_vars => LatchInv'
  <1> SUFFICES ASSUME LatchInv, [Next]_vars PROVE LatchInv'
    OBVIOUS
  <1> QED BY BeginKeeps, ApplyGatesKeeps, SwitchKeeps, FeedKeeps DEF Next, EvaluateStep

\* The inductive invariant holds in every reachable state.
THEOREM LatchInvariant == Spec => []LatchInv
  BY LatchInit, LatchNext, PTL DEF Spec

\* A drawdown breach is final: once an evaluation was refused for drawdown the
\* switch stays engaged, and nothing that starts later is approved (engine.rs
\* 197-249).
THEOREM HaltFinal == Spec => []HaltIsFinal
  <1>1. LatchInv => HaltIsFinal
    BY DEF LatchInv, HaltOK, HaltIsFinal
  <1> QED BY <1>1, LatchInvariant, PTL

\* With several tasks racing to engage the switch, the reason on record is the
\* one of the task that engaged it (kill_switch.rs 92-105).
THEOREM ReasonCause == Spec => []ReasonIsCause
  <1>1. LatchInv => ReasonIsCause
    BY DEF LatchInv, SwitchOK, ReasonIsCause
  <1> QED BY <1>1, LatchInvariant, PTL

\* No two approvals of one engine share a sequence number (engine.rs 471).
THEOREM DistinctTokens == Spec => []TokensAreDistinct
  <1>1. LatchInv => TokensAreDistinct
    BY DEF LatchInv, SequenceOK, TokensAreDistinct
  <1> QED BY <1>1, LatchInvariant, PTL

(***************************************************************************)
(* Action properties: what minting an approval implies.                    *)
(***************************************************************************)
\* Only ApplyGates and only when every gate passes.
LEMMA MintingPasses ==
    ASSUME LatchInv, [Next]_vars, NEW m \in NewApprovals
    PROVE  \E e \in Evaluators, a \in AdaptiveRisks :
             LET sig == eval[e].signal IN
             /\ sig \in Signals
             /\ Passes(sig, a)
             /\ m.symbol = sig.symbol
             /\ m.qty = SizedQuantity(sig, a)
             /\ eval[e].pc = "gates" /\ eval'[e].pc # "gates"
  <1>1. minted' # minted
    BY DEF NewApprovals
  <1>2. PICK e \in Evaluators : ApplyGates(e)
    BY <1>1 DEF Next, vars, EvaluateStep, BeginEvaluate, Halt, HaltReason, OperatorHalt,
                UpdatePnl, UpdateBook, EngageCooldown, PruneCooldowns, UpdateMarket,
                RecordRealized, ResetSession, Tick
  <1>3. PICK a \in AdaptiveRisks :
            LET sig == eval[e].signal IN
            /\ eval[e].pc = "gates"
            /\ IF Passes(sig, a) THEN Mint(e, SizedQuantity(sig, a))
               ELSE UNCHANGED <<minted, sequence>>
            /\ eval' = [eval EXCEPT ![e] =
                          IF StopsAt("MaxDrawdown", sig, a) THEN [@ EXCEPT !.pc = "halt"]
                          ELSE IdleEval]
    BY <1>2 DEF ApplyGates
  <1>4. Passes(eval[e].signal, a) /\ Mint(e, SizedQuantity(eval[e].signal, a))
    BY <1>1, <1>3
  <1>5. m = [sequence |-> sequence, symbol |-> eval[e].signal.symbol,
             qty |-> SizedQuantity(eval[e].signal, a), afterHalt |-> eval[e].afterHalt]
    BY <1>4 DEF Mint, NewApprovals
  <1>6. eval'[e].pc # "gates"
    BY <1>3 DEF LatchInv, LatchTypeOK, Evaluation, IdleEval
  <1>7. eval[e].signal \in Signals
    BY <1>3 DEF LatchInv, HaltOK
  <1> QED BY <1>3, <1>4, <1>5, <1>6, <1>7

\* What passing all the gates means for the cooldown, the target and the limits.
LEMMA PassingGates ==
    ASSUME NEW sig, NEW a, Passes(sig, a)
    PROVE  /\ ~(cooling[sig.symbol] > now)
           /\ ~ShouldReject
           /\ ~(position[sig.symbol] + Prospective(sig) > MaxPositionPerSymbol)
           /\ ~(portfolio + Prospective(sig) > MaxPositionPortfolio)
           /\ Capital > 0 => ~(notional + sig.price * Prospective(sig) > MaxNotional)
           /\ ~(exposure[sig.symbol] + sig.price * Prospective(sig) > MaxExposurePerSymbol)
  <1>1. {4, 5, 6, 7, 10} \subseteq DOMAIN Gates
    BY DEF Gates
  <1>2. /\ Gates[4] = "MaxPosition" /\ Gates[5] = "MaxLeverage" /\ Gates[6] = "MaxExposure"
        /\ Gates[7] = "SlippageCooldown" /\ Gates[10] = "ProfitTargetReached"
    BY DEF Gates
  <1>3. /\ ~Breached("MaxPosition", sig, a) /\ ~Breached("MaxLeverage", sig, a)
        /\ ~Breached("MaxExposure", sig, a) /\ ~Breached("SlippageCooldown", sig, a)
        /\ ~Breached("ProfitTargetReached", sig, a)
    BY <1>1, <1>2 DEF Passes
  <1> QED BY <1>3 DEF Breached

\* Nothing is approved for a symbol before its latest cooldown has expired
\* (cooldown.rs 94-142, engine.rs 332-339).
THEOREM CooldownKept == Spec => CooldownHonoured
  <1>1. LatchInv /\ [Next]_vars => [\A m \in NewApprovals : promised[m.symbol] <= now]_vars
    <2> SUFFICES ASSUME LatchInv, [Next]_vars, NEW m \in NewApprovals
                 PROVE  promised[m.symbol] <= now
      OBVIOUS
    <2>1. PICK e \in Evaluators, a \in AdaptiveRisks :
              /\ eval[e].signal \in Signals /\ Passes(eval[e].signal, a)
              /\ m.symbol = eval[e].signal.symbol
      BY MintingPasses
    <2>2. ~(cooling[m.symbol] > now) /\ m.symbol \in Symbols
      BY <2>1, PassingGates, RiskAssumption
    <2> QED BY <2>2 DEF LatchInv, LatchTypeOK, CooldownOK
  <1> QED BY <1>1, LatchInvariant, PTL DEF Spec, CooldownHonoured

\* After the profit target nothing is approved for the rest of the session
\* (target.rs 76-109, engine.rs 389-396).
THEOREM TargetFinal == Spec => TargetIsFinal
  <1>1. LatchInv /\ [Next]_vars =>
            [NewApprovals # {} /\ Policy \in {"ReduceSizeToZero", "StopForSession"}
               => ~crossedOnce]_vars
    <2> SUFFICES ASSUME LatchInv, [Next]_vars, NEW m \in NewApprovals,
                        Policy \in {"ReduceSizeToZero", "StopForSession"}
                 PROVE  ~crossedOnce
      OBVIOUS
    <2>1. PICK e \in Evaluators, a \in AdaptiveRisks : Passes(eval[e].signal, a)
      BY MintingPasses
    <2>2. ~ShouldReject
      BY <2>1, PassingGates
    <2> QED BY <2>2 DEF LatchInv, TargetOK, ShouldReject
  <1> QED BY <1>1, LatchInvariant, PTL DEF Spec, TargetIsFinal

(***************************************************************************)
(* Type correctness, and the size limits, which need the types of the book.*)
(***************************************************************************)
LEMMA CapitalInNat == Capital \in Nat
  BY RiskAssumption

\* The initial state is well-typed.
LEMMA TypeInit == Init => RiskTypeOK
  <1> SUFFICES ASSUME Init PROVE RiskTypeOK
    OBVIOUS
  <1> USE DEF Init, KillInit, FreshState
  <1>1. KillTypeOK
    BY DEF KillTypeOK, Use, IdleUse
  <1>2. eval \in [Evaluators -> Evaluation]
    BY DEF Evaluation, IdleEval
  <1>3. /\ realized \in Int /\ unrealized \in Int /\ peak \in Int /\ drawdown \in Nat
        /\ portfolio \in Int /\ notional \in Int
        /\ now \in Nat /\ sequence \in Nat
    BY CapitalInNat
  <1>4. /\ position \in [Symbols -> Nat] /\ exposure \in [Symbols -> Nat]
        /\ cooling \in [Symbols -> Nat] /\ promised \in [Symbols -> Nat]
    OBVIOUS
  <1> QED BY <1>1, <1>2, <1>3, <1>4 DEF RiskTypeOK

\* Every step keeps the types.
LEMMA TypeNext == RiskTypeOK /\ LatchInv /\ LatchInv' /\ [Next]_vars => RiskTypeOK'
  <1> SUFFICES ASSUME RiskTypeOK, LatchInv, LatchInv', [Next]_vars PROVE RiskTypeOK'
    OBVIOUS
  <1> USE RiskAssumption DEF RiskTypeOK, KillTypeOK
  \* What LatchInv' already says of the new state.
  <1>1. /\ killed' \in BOOLEAN /\ reason' \in Reasons \cup {NoReason}
        /\ use' \in [SwitchUsers -> Use] /\ cause' \in Reasons \cup {NoReason}
        /\ eval' \in [Evaluators -> Evaluation] /\ minted' \subseteq Approval
        /\ sequence' \in Nat /\ now' \in Nat
        /\ cooling' \in [Symbols -> Nat] /\ promised' \in [Symbols -> Nat]
        /\ halted' \in BOOLEAN /\ reached' \in BOOLEAN /\ crossedOnce' \in BOOLEAN
    BY DEF LatchInv, LatchTypeOK
  <1>2. ASSUME UNCHANGED <<engagements, signalled, pnlVars, bookVars, volatile, slow,
                           lossHit>>
        PROVE  RiskTypeOK'
    BY <1>1, <1>2
  <1>3. ASSUME NEW e \in Evaluators, NEW sig \in Signals, BeginEvaluate(e, sig)
        PROVE  RiskTypeOK'
    BY <1>2, <1>3 DEF BeginEvaluate
  <1>4. ASSUME NEW e \in Evaluators, ApplyGates(e) PROVE RiskTypeOK'
    BY <1>1, <1>4 DEF ApplyGates
  <1>5. ASSUME NEW e \in Evaluators, Halt(e) PROVE RiskTypeOK'
    BY <1>1, <1>5 DEF Halt, Engage
  <1>6. ASSUME NEW e \in Evaluators, HaltReason(e) PROVE RiskTypeOK'
    BY <1>1, <1>6 DEF HaltReason, WriteReason
  <1>7. ASSUME NEW o \in Operators, NEW r \in Reasons, OperatorHalt(o, r) PROVE RiskTypeOK'
    BY <1>1, <1>7 DEF OperatorHalt, Engage, WriteReason
  <1>8. ASSUME NEW p \in PnlInputs, UpdatePnl(p[1], p[2]) PROVE RiskTypeOK'
    <2>1. p[1] \in Int /\ p[2] \in Int
      OBVIOUS
    <2>2. realized' \in Int /\ unrealized' \in Int /\ peak' \in Int /\ drawdown' \in Nat
      BY <1>8, <2>1 DEF UpdatePnl, NewPeak, Larger
    <2>3. lossHit' \in BOOLEAN
      BY <1>8 DEF UpdatePnl
    <2> QED BY <1>1, <1>8, <2>2, <2>3 DEF UpdatePnl
  <1>9. ASSUME NEW b \in BookInputs, UpdateBook(b) PROVE RiskTypeOK'
    <2>1. b.symbol \in Symbols /\ b.qty \in Nat /\ b.qty * b.price \in Nat
      OBVIOUS
    <2> QED BY <1>1, <1>9, <2>1 DEF UpdateBook
  <1>10. ASSUME NEW s \in Symbols, NEW x \in Expiries, EngageCooldown(s, x) PROVE RiskTypeOK'
    BY <1>2, <1>10 DEF EngageCooldown
  <1>11. ASSUME NEW s \in Symbols, NEW b \in BrokerIds, UpdateMarket(s, b) PROVE RiskTypeOK'
    BY <1>1, <1>11 DEF UpdateMarket
  <1>12. ASSUME NEW r \in RealizedInputs, RecordRealized(r) PROVE RiskTypeOK'
    BY <1>2, <1>12 DEF RecordRealized
  <1>13. CASE ResetSession
    <2>1. peak' \in Int
      BY <1>13, CapitalInNat DEF ResetSession
    <2>2. /\ position' \in [Symbols -> Nat] /\ exposure' \in [Symbols -> Nat]
          /\ portfolio' \in Int /\ notional' \in Int
          /\ realized' \in Int /\ unrealized' \in Int /\ drawdown' \in Nat
      BY <1>13 DEF ResetSession
    <2>3. /\ lossHit' \in BOOLEAN /\ volatile' = volatile /\ slow' = slow
          /\ engagements' = engagements /\ signalled' = signalled
      BY <1>13 DEF ResetSession
    <2> QED BY <1>1, <2>1, <2>2, <2>3
  <1>14. CASE PruneCooldowns \/ Tick \/ UNCHANGED vars
    BY <1>2, <1>14 DEF PruneCooldowns, Tick, vars
  <1> QED
    BY <1>3, <1>4, <1>5, <1>6, <1>7, <1>8, <1>9, <1>10, <1>11, <1>12, <1>13, <1>14
    DEF Next, EvaluateStep

\* Type correctness of the Risk_Engine; the drawdown is never negative (state.rs
\* 145-161).
THEOREM TypeCorrect == Spec => []RiskTypeOK
  BY TypeInit, TypeNext, LatchInvariant, PTL DEF Spec

\* The sized quantity never exceeds the prospective one the gates looked at.
LEMMA SizedWithinProspective ==
    ASSUME NEW sig \in Signals, NEW a \in AdaptiveRisks
    PROVE  /\ SizedQuantity(sig, a) \in Nat /\ Prospective(sig) \in Nat
           /\ SizedQuantity(sig, a) <= Prospective(sig)
  <1>1. sig.maxSize \in Nat /\ sig.price \in Nat /\ a \in Nat
    BY RiskAssumption
  <1>2. sig.price > 0 => a \div sig.price \in Nat
    BY <1>1
  <1>3. \A n \in Nat : n \div 2 \in Nat
    OBVIOUS
  <1> QED BY <1>1, <1>2, <1>3 DEF SizedQuantity, Prospective, Larger, Smaller

\* A larger quantity at the same price is not worth less.
LEMMA ProductMonotone ==
    ASSUME NEW p \in Nat, NEW x \in Nat, NEW y \in Nat, x <= y
    PROVE  p * x \in Nat /\ p * y \in Nat /\ p * x <= p * y
  OBVIOUS

\* An approval fits under the position, leverage and exposure limits at the moment
\* it is minted (engine.rs 272-328, 441-458).
THEOREM LimitsKept == Spec => ApprovalFitsLimits
  <1>1. RiskTypeOK /\ LatchInv /\ [Next]_vars =>
            [\A m \in NewApprovals :
               \E e \in Evaluators : eval'[e] # eval[e] /\ FitsLimits(eval[e].signal, m.qty)]_vars
    <2> SUFFICES ASSUME RiskTypeOK, LatchInv, [Next]_vars, NEW m \in NewApprovals
                 PROVE  \E e \in Evaluators :
                          eval'[e] # eval[e] /\ FitsLimits(eval[e].signal, m.qty)
      OBVIOUS
    <2>1. PICK e \in Evaluators, a \in AdaptiveRisks :
              /\ eval[e].signal \in Signals /\ Passes(eval[e].signal, a)
              /\ m.qty = SizedQuantity(eval[e].signal, a)
              /\ eval[e].pc = "gates" /\ eval'[e].pc # "gates"
      BY MintingPasses
    <2> DEFINE sig == eval[e].signal
               q == Prospective(sig)
    <2>2. m.qty \in Nat /\ q \in Nat /\ m.qty <= q /\ sig.price \in Nat /\ sig.symbol \in Symbols
      BY <2>1, SizedWithinProspective, RiskAssumption
    <2>3. /\ sig.price * m.qty \in Nat /\ sig.price * q \in Nat
          /\ sig.price * m.qty <= sig.price * q
      BY <2>2, ProductMonotone
    <2>4. /\ ~(position[sig.symbol] + q > MaxPositionPerSymbol)
          /\ ~(portfolio + q > MaxPositionPortfolio)
          /\ Capital > 0 => ~(notional + sig.price * q > MaxNotional)
          /\ ~(exposure[sig.symbol] + sig.price * q > MaxExposurePerSymbol)
      BY <2>1, PassingGates
    <2>5. /\ position[sig.symbol] \in Int /\ exposure[sig.symbol] \in Int
          /\ portfolio \in Int /\ notional \in Int
          /\ MaxPositionPerSymbol \in Int /\ MaxPositionPortfolio \in Int
          /\ MaxNotional \in Int /\ MaxExposurePerSymbol \in Int
      BY <2>2, RiskAssumption DEF RiskTypeOK
    <2>6. FitsLimits(sig, m.qty)
      <3> DEFINE cost == sig.price * m.qty
                 cap == sig.price * q
      <3> HIDE DEF cost, cap, q
      <3>1. cost \in Nat /\ cap \in Nat /\ cost <= cap
        BY <2>3 DEF cost, cap
      <3>2. /\ Capital > 0 => notional + cost <= MaxNotional
            /\ exposure[sig.symbol] + cost <= MaxExposurePerSymbol
        BY <2>4, <2>5, <3>1 DEF cap
      <3>3. position[sig.symbol] + m.qty <= MaxPositionPerSymbol
            /\ portfolio + m.qty <= MaxPositionPortfolio
        BY <2>2, <2>4, <2>5
      <3> QED BY <3>2, <3>3 DEF FitsLimits, cost
    <2>7. eval'[e] # eval[e]
      BY <2>1
    <2> QED BY <2>6, <2>7
  <1> QED BY <1>1, TypeCorrect, LatchInvariant, PTL DEF Spec, ApprovalFitsLimits

(***************************************************************************)
(* One signal per engagement                                               *)
(***************************************************************************)
\* The activate calls that have engaged the switch and not returned.
Writing == {u \in SwitchUsers : use[u].pc = "write"}

\* A step that neither engages nor returns keeps the count.
LEMMA SignalQuiet ==
    ASSUME OneSignalPerEngagement, UNCHANGED <<use, engagements, signalled>>
    PROVE  OneSignalPerEngagement'
  BY DEF OneSignalPerEngagement

\* The call that engages the switch is the only one on its way.
LEMMA EngageCounts ==
    ASSUME RiskTypeOK, LatchInv, OneSignalPerEngagement,
           NEW u \in SwitchUsers, NEW r \in Reasons, Engage(u, r)
    PROVE  OneSignalPerEngagement'
  <1>1. use \in [SwitchUsers -> Use] /\ engagements \in Nat /\ signalled \in Nat
    BY DEF RiskTypeOK, KillTypeOK
  <1>2. Writing = {}
    BY DEF LatchInv, SwitchOK, Engage, Writing
  <1>3. Writing' = {u}
    BY <1>1, <1>2 DEF Engage, Writing, Use
  <1>4. Cardinality({}) = 0 /\ Cardinality({u}) = 1
    BY FS_EmptySet, FS_Singleton
  <1>5. engagements' = engagements + 1 /\ signalled' = signalled
    BY DEF Engage
  <1>6. engagements = signalled + Cardinality(Writing)
    BY DEF OneSignalPerEngagement, Writing
  <1>7. engagements' = signalled' + Cardinality(Writing')
    BY <1>1, <1>2, <1>3, <1>4, <1>5, <1>6
  <1> QED BY <1>7 DEF OneSignalPerEngagement, Writing

\* When it has written its reason, none is.
LEMMA WriteCounts ==
    ASSUME RiskTypeOK, LatchInv, OneSignalPerEngagement, NEW u \in SwitchUsers, WriteReason(u)
    PROVE  OneSignalPerEngagement'
  <1>1. use \in [SwitchUsers -> Use] /\ engagements \in Nat /\ signalled \in Nat
    BY DEF RiskTypeOK, KillTypeOK
  <1>2. Writing = {u}
    BY DEF LatchInv, SwitchOK, WriteReason, Writing
  <1>3. Writing' = {}
    BY <1>1, <1>2 DEF WriteReason, Writing, IdleUse
  <1>4. Cardinality({}) = 0 /\ Cardinality({u}) = 1
    BY FS_EmptySet, FS_Singleton
  <1>5. engagements' = engagements /\ signalled' = signalled + 1
    BY DEF WriteReason
  <1>6. engagements = signalled + Cardinality(Writing)
    BY DEF OneSignalPerEngagement, Writing
  <1>7. engagements' = signalled' + Cardinality(Writing')
    BY <1>1, <1>2, <1>3, <1>4, <1>5, <1>6
  <1> QED BY <1>7 DEF OneSignalPerEngagement, Writing

\* Every step of every task keeps the count.
LEMMA SignalNext ==
    ASSUME RiskTypeOK, LatchInv, OneSignalPerEngagement, [Next]_vars
    PROVE  OneSignalPerEngagement'
  <1>1. ASSUME UNCHANGED killVars PROVE OneSignalPerEngagement'
    BY <1>1, SignalQuiet
  <1>2. ASSUME NEW e \in Evaluators, EvaluateStep(e) PROVE OneSignalPerEngagement'
    <2>1. e \in SwitchUsers /\ "MaxDrawdown" \in Reasons
      BY RiskAssumption
    <2>2. CASE ApplyGates(e)
      BY <1>1, <2>2 DEF ApplyGates
    <2>3. CASE Halt(e)
      BY <1>1, <2>1, <2>3, EngageCounts DEF Halt
    <2>4. CASE HaltReason(e)
      BY <2>1, <2>4, WriteCounts DEF HaltReason
    <2> QED BY <1>2, <2>2, <2>3, <2>4 DEF EvaluateStep
  <1>3. ASSUME NEW o \in Operators, NEW r \in Reasons, OperatorHalt(o, r)
        PROVE  OneSignalPerEngagement'
    <2>1. o \in SwitchUsers
      BY RiskAssumption
    <2> QED BY <1>3, <2>1, EngageCounts, WriteCounts DEF OperatorHalt
  <1>4. ASSUME NEW e \in Evaluators, NEW sig \in Signals, BeginEvaluate(e, sig)
        PROVE  OneSignalPerEngagement'
    BY <1>1, <1>4 DEF BeginEvaluate
  <1>5. CASE \/ \E p \in PnlInputs : UpdatePnl(p[1], p[2])
             \/ \E b \in BookInputs : UpdateBook(b)
             \/ \E s \in Symbols, x \in Expiries : EngageCooldown(s, x)
             \/ PruneCooldowns
             \/ \E s \in Symbols, b \in BrokerIds : UpdateMarket(s, b)
             \/ \E r \in RealizedInputs : RecordRealized(r)
             \/ ResetSession \/ Tick
    <2>1. UNCHANGED killVars
      BY <1>5 DEF UpdatePnl, UpdateBook, EngageCooldown, PruneCooldowns, UpdateMarket,
         RecordRealized, ResetSession, Tick
    <2> QED BY <1>1, <2>1
  <1>6. CASE UNCHANGED vars
    BY <1>1, <1>6 DEF vars
  <1> QED BY <1>2, <1>3, <1>4, <1>5, <1>6 DEF Next

\* However many tasks race to engage the switch, exactly one activate call
\* returns true for an engagement, once it has recorded its reason
\* (kill_switch.rs 86-105).
THEOREM OneSignal == Spec => []OneSignalPerEngagement
  <1>1. Init => OneSignalPerEngagement
    <2> SUFFICES ASSUME Init PROVE OneSignalPerEngagement
      OBVIOUS
    <2>1. Writing = {} /\ engagements = 0 /\ signalled = 0
      BY DEF Init, KillInit, IdleUse, Writing
    <2>2. Cardinality(Writing) = 0
      BY <2>1, FS_EmptySet
    <2>3. engagements = signalled + Cardinality(Writing)
      BY <2>1, <2>2
    <2> QED BY <2>3 DEF OneSignalPerEngagement, Writing
  <1>2. RiskTypeOK /\ LatchInv /\ OneSignalPerEngagement /\ [Next]_vars => OneSignalPerEngagement'
    BY SignalNext
  <1> QED BY <1>1, <1>2, TypeCorrect, LatchInvariant, PTL DEF Spec
=============================================================================
