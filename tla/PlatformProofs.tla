--------------------------- MODULE PlatformProofs ---------------------------
(***************************************************************************)
(* The parts around the order path, for every value of their constants:    *)
(* the confidence cache, the live broker adapters, the suppression         *)
(* registry of the demo generators, the sinks of the signal engine, the    *)
(* announcements of the Upstox feed, the recorder and the player of a      *)
(* session, the drawdown of a back-test, the trade counters of the         *)
(* Risk_Engine, the matching of the simulated broker and the volume window *)
(* of the order-flow engine.  They share no state; each section is about   *)
(* one of them.                                                            *)
(***************************************************************************)
EXTENDS WarmCache, LiveBrokers, DemoSynth, Signals, UpstoxFeed, Replay, Backtest,
        RiskRestart, SimulatedBroker, Orderflow, DataInduction, SequenceTheorems, TLAPS

-----------------------------------------------------------------------------
(* The confidence map and its insertion queue (hedge-warmcache). *)

CacheInv == order \in Seq(Trades) /\ QueueNamesTheMap

\* The cache starts empty.
LEMMA CacheInit == WcInit => CacheInv
BY WarmCacheAssumption DEF WcInit, CacheInv, QueueNamesTheMap, IsInjective, Range

\* A key that is not queued can be queued: the queue names it once.
LEMMA QueueAppend ==
    ASSUME NEW S, NEW q \in Seq(S), NEW c \in S, IsInjective(q), c \notin Range(q)
    PROVE  /\ Append(q, c) \in Seq(S) /\ Len(Append(q, c)) = Len(q) + 1
           /\ IsInjective(Append(q, c)) /\ Range(Append(q, c)) = Range(q) \cup {c}
<1> DEFINE a == Append(q, c)
           n == Len(q)
<1>1. n \in Nat /\ DOMAIN q = 1..n OBVIOUS
<1>2. a \in Seq(S) /\ Len(a) = n + 1 /\ DOMAIN a = 1..(n + 1)
      /\ a[n + 1] = c /\ \A i \in 1..n : a[i] = q[i]
  OBVIOUS
<1> HIDE DEF a, n
<1>3. \A i \in 1..(n + 1) : i = n + 1 \/ i \in 1..n BY <1>1
<1>4. n + 1 \in 1..(n + 1) /\ \A i \in 1..n : i \in 1..(n + 1) BY <1>1
<1>5. Range(a) = Range(q) \cup {c} BY <1>1, <1>2, <1>3, <1>4 DEF Range
<1>6. \A i \in 1..n : q[i] # c BY <1>1 DEF Range
<1>7. IsInjective(a) BY <1>1, <1>2, <1>3, <1>6 DEF IsInjective
<1> QED BY <1>2, <1>5, <1>7 DEF a, n

\* Taking the head out of a queue takes its key, and only that, out of it.
LEMMA QueueTail ==
    ASSUME NEW S, NEW q \in Seq(S), q # <<>>, IsInjective(q)
    PROVE  /\ Tail(q) \in Seq(S) /\ Len(Tail(q)) = Len(q) - 1
           /\ IsInjective(Tail(q)) /\ Range(Tail(q)) = Range(q) \ {Head(q)}
<1> DEFINE t == Tail(q)
           n == Len(q)
<1>1. n \in Nat /\ n >= 1 /\ DOMAIN q = 1..n /\ Head(q) = q[1] OBVIOUS
<1>2. t \in Seq(S) /\ Len(t) = n - 1 /\ DOMAIN t = 1..(n - 1) /\ \A i \in 1..(n - 1) : t[i] = q[i + 1]
  OBVIOUS
<1> HIDE DEF t, n
<1>3. \A i \in 1..(n - 1) : i + 1 \in 1..n /\ i + 1 # 1 BY <1>1
<1>4. \A i \in 1..n : i # 1 => i - 1 \in 1..(n - 1) /\ (i - 1) + 1 = i BY <1>1
<1>5. 1 \in 1..n BY <1>1
<1>6. \A x \in Range(t) : x \in Range(q) \ {Head(q)}
  <2> SUFFICES ASSUME NEW x \in Range(t) PROVE x \in Range(q) \ {Head(q)} OBVIOUS
  <2>1. PICK i \in 1..(n - 1) : t[i] = x BY <1>2 DEF Range
  <2>2. i + 1 \in 1..n /\ q[i + 1] = x /\ i + 1 # 1 BY <2>1, <1>2, <1>3
  <2>3. x # q[1] BY <2>2, <1>1, <1>5 DEF IsInjective
  <2> QED BY <2>2, <2>3, <1>1 DEF Range
<1>7. \A x \in Range(q) \ {Head(q)} : x \in Range(t)
  <2> SUFFICES ASSUME NEW x \in Range(q) \ {Head(q)} PROVE x \in Range(t) OBVIOUS
  <2>1. PICK i \in 1..n : q[i] = x BY <1>1 DEF Range
  <2>2. i # 1 BY <2>1, <1>1
  <2>3. i - 1 \in 1..(n - 1) /\ t[i - 1] = x BY <2>1, <2>2, <1>2, <1>4
  <2> QED BY <2>3, <1>2 DEF Range
<1>8. IsInjective(t)
  <2> SUFFICES ASSUME NEW i \in 1..(n - 1), NEW j \in 1..(n - 1), t[i] = t[j] PROVE i = j
    BY <1>2 DEF IsInjective
  <2>1. i + 1 = j + 1 BY <1>1, <1>2, <1>3 DEF IsInjective
  <2> QED BY <2>1
<1> QED BY <1>2, <1>6, <1>7, <1>8 DEF t, n

\* The one action that touches queue and map keeps them in step.
LEMMA InsertKeeps ==
    ASSUME CacheInv, NEW c \in Trades, NEW score, NEW ts, LruInsert(c, score, ts)
    PROVE  CacheInv'
<1> USE DEF CacheInv
<1> DEFINE put == Put1(conf, c, [score |-> score, ts |-> ts])
           queue == IF c \in DOMAIN conf THEN order ELSE Append(order, c)
           out == IF Len(queue) > LruSize THEN {Head(queue)} ELSE {}
<1>1. /\ order' = (IF out = {} THEN queue ELSE Tail(queue))
      /\ conf' = [x \in DOMAIN put \ out |-> put[x]]
  BY DEF LruInsert, InsertStep
<1>2. DOMAIN put = DOMAIN conf \cup {c} BY DEF Put1
<1>3. DOMAIN conf' = (DOMAIN conf \cup {c}) \ out BY <1>1, <1>2
<1>4. /\ queue \in Seq(Trades) /\ IsInjective(queue) /\ Range(queue) = DOMAIN conf \cup {c}
      /\ Len(queue) <= LruSize + 1
  <2>1. Len(order) \in Nat /\ Len(order) <= LruSize /\ LruSize \in Nat
    BY WarmCacheAssumption DEF QueueNamesTheMap
  <2>2. CASE c \in DOMAIN conf BY <2>1, <2>2 DEF QueueNamesTheMap
  <2>3. CASE c \notin DOMAIN conf
    <3>1. c \notin Range(order) BY <2>3 DEF QueueNamesTheMap
    <3>2. /\ Append(order, c) \in Seq(Trades) /\ Len(Append(order, c)) = Len(order) + 1
          /\ IsInjective(Append(order, c)) /\ Range(Append(order, c)) = Range(order) \cup {c}
      BY <3>1, QueueAppend DEF QueueNamesTheMap
    <3> QED BY <2>1, <2>3, <3>2 DEF QueueNamesTheMap
  <2> QED BY <2>2, <2>3
<1> HIDE DEF queue, put
<1>5. CASE Len(queue) > LruSize
  <2>1. out = {Head(queue)} /\ order' = Tail(queue) BY <1>1, <1>5
  <2>2. Len(queue) \in Nat /\ LruSize \in Nat /\ queue # <<>> BY <1>4, <1>5, WarmCacheAssumption
  <2>3. /\ Tail(queue) \in Seq(Trades) /\ Len(Tail(queue)) = Len(queue) - 1
        /\ IsInjective(Tail(queue)) /\ Range(Tail(queue)) = Range(queue) \ {Head(queue)}
    BY <1>4, <2>2, QueueTail
  <2>4. Len(Tail(queue)) <= LruSize BY <1>4, <2>2, <2>3
  <2> QED BY <1>3, <1>4, <2>1, <2>3, <2>4 DEF QueueNamesTheMap
<1>6. CASE ~(Len(queue) > LruSize)
  <2>1. out = {} /\ order' = queue BY <1>1, <1>6
  <2>2. Len(queue) \in Nat /\ LruSize \in Nat BY <1>4, WarmCacheAssumption
  <2>3. Len(queue) <= LruSize BY <1>6, <2>2
  <2> QED BY <1>3, <1>4, <2>1, <2>3 DEF QueueNamesTheMap
<1> QED BY <1>5, <1>6

\* Every message and every tick of the clock keeps queue and map in step.
LEMMA CacheNext == CacheInv /\ [WcNext]_wcVars => CacheInv'
<1> SUFFICES ASSUME CacheInv, [WcNext]_wcVars PROVE CacheInv' OBVIOUS
<1>1. ASSUME UNCHANGED <<conf, order>> PROVE CacheInv'
  BY <1>1 DEF CacheInv, QueueNamesTheMap, IsInjective, Range
<1>2. ASSUME NEW c \in Trades, NEW v \in Scores, NEW ts \in ProducerStamps, HandleRank(c, v, ts)
      PROVE  CacheInv'
  BY <1>2, InsertKeeps DEF HandleRank
<1>3. CASE UNCHANGED wcVars BY <1>1, <1>3 DEF wcVars
<1> QED
  BY <1>1, <1>2, <1>3 DEF WcNext, HandleRegime, HandlePsych, HandlePriority, HandleNews, CacheTick

\* Map and insertion queue never part: the queue names the keys of the map,
\* each once, and never more than the capacity (ConfidenceLru::insert).
THEOREM QueueIsTheMap == WcSpec => []QueueNamesTheMap
<1>1. CacheInv => QueueNamesTheMap BY DEF CacheInv
<1> QED BY <1>1, CacheInit, CacheNext, PTL DEF WcSpec
-----------------------------------------------------------------------------
(* The readiness cache of the five live adapters. *)

\* An adapter that does not fail closed has credentials the broker has not
\* refused by status or code, and so had every call that is under way.
ReadyInv ==
    /\ DOMAIN liveCalls = LiveCallers
    /\ readyState # "config_error" => verdict # "refused"
    /\ CodedRefusalCloses

\* A new adapter fails closed unless its credentials are complete.
LEMMA ReadyInit == LiveInit => ReadyInv
BY DEF LiveInit, ReadyInv, CodedRefusalCloses, StartState, NoCall

\* A call begins only on an adapter that is not closed; ready() may always.
LEMMA BeginKeeps ==
    ASSUME ReadyInv, NEW c \in LiveCallers, NEW op, NEW form, AdapterBegin(c, op, form)
    PROVE  ReadyInv'
<1>1. PICK new : /\ liveCalls' = [liveCalls EXCEPT ![c] = new]
                 /\ new.phase = "sent" /\ new.op # "ready" => new.verdict # "refused"
                 /\ readyState' \in {readyState, "config_error"} /\ verdict' = verdict
  BY DEF AdapterBegin, ReadyInv, FailsClosed
<1>2. /\ DOMAIN liveCalls' = LiveCallers
      /\ \A d \in LiveCallers : liveCalls'[d] = IF d = c THEN new ELSE liveCalls[d]
  BY <1>1 DEF ReadyInv
<1> QED BY <1>1, <1>2 DEF ReadyInv, CodedRefusalCloses

\* The results each client makes of an answer: "auth" for a refusal by status
\* or code, and "ok" only for an answer with status 200 that is none.
Classifies(op, answer, result) ==
    /\ answer[1] \in {401, 403} \/ answer[2] = "unauth" => result = "auth"
    /\ result = "ok" => answer[1] = 200 /\ answer[2] \notin {"unauth", "session"}

\* An answer closes the adapter when it refuses the credentials, opens it when
\* it shows them accepted, and otherwise leaves a closed adapter closed.
LEMMA AnswerKeeps ==
    ASSUME ReadyInv, NEW c \in LiveCallers, NEW op, NEW answer, NEW result,
           Classifies(op, answer, result),
           readyState' = UpdateReady(readyState, result),
           verdict' = SaysOfCredentials(answer, verdict),
           NEW new, liveCalls' = [liveCalls EXCEPT ![c] = new], new.phase = "answered"
    PROVE  ReadyInv'
<1>1. /\ DOMAIN liveCalls' = LiveCallers
      /\ \A d \in LiveCallers : liveCalls'[d] = IF d = c THEN new ELSE liveCalls[d]
  BY DEF ReadyInv
<1>2. readyState' # "config_error" => verdict' # "refused"
  <2>1. CASE answer[1] \in {401, 403} \/ answer[2] = "unauth"
    BY <2>1 DEF Classifies, UpdateReady, UpdateReadyStep
  <2>2. CASE ~(answer[1] \in {401, 403} \/ answer[2] = "unauth") /\ result = "ok"
    BY <2>2 DEF Classifies, SaysOfCredentials
  <2>3. CASE ~(answer[1] \in {401, 403} \/ answer[2] = "unauth") /\ result # "ok"
    <3>1. readyState' # "config_error" => readyState # "config_error"
      BY <2>3 DEF UpdateReady, UpdateReadyStep
    <3>2. verdict' = "refused" => verdict = "refused" BY <2>3 DEF SaysOfCredentials
    <3> QED BY <3>1, <3>2 DEF ReadyInv
  <2> QED BY <2>1, <2>2, <2>3
<1>3. CodedRefusalCloses' BY <1>1 DEF ReadyInv, CodedRefusalCloses
<1> QED BY <1>1, <1>2, <1>3 DEF ReadyInv

\* The answers of an interface and what the client of each adapter makes of
\* them.
LEMMA AnswersClassified ==
    ASSUME NEW op, NEW answer \in Answers
    PROVE  /\ adapter = "zerodha" => Classifies(op, answer, Outcome(op, answer, KiteResult))
           /\ adapter = "upstox" => Classifies(op, answer, Outcome(op, answer, UpstoxResult))
           /\ adapter = "dhan" => Classifies(op, answer, Outcome(op, answer, DhanResult))
           /\ adapter = "shoonya" => Classifies(op, answer, Outcome(op, answer, ShoonyaResult))
           /\ adapter = "angelone" => Classifies(op, answer, Outcome(op, answer, SmartApiResult))
<1> USE DEF Answers, BodyErrors, Outcome, HttpError, Classifies, Refusals
<1>1. adapter = "zerodha" => Classifies(op, answer, Outcome(op, answer, KiteResult)) BY DEF KiteResult
<1>2. adapter = "upstox" => Classifies(op, answer, Outcome(op, answer, UpstoxResult)) BY DEF UpstoxResult
<1>3. adapter = "dhan" => Classifies(op, answer, Outcome(op, answer, DhanResult)) BY DEF DhanResult
<1>4. adapter = "shoonya" => Classifies(op, answer, Outcome(op, answer, ShoonyaResult))
  BY DEF ShoonyaResult
<1>5. adapter = "angelone" => Classifies(op, answer, Outcome(op, answer, SmartApiResult))
  BY DEF SmartApiResult, SmartApiCode
<1> QED BY <1>1, <1>2, <1>3, <1>4, <1>5

\* A return only frees its caller.
LEMMA ReturnKeeps ==
    ASSUME ReadyInv, NEW c \in LiveCallers, AdapterReturn(c)
    PROVE  ReadyInv'
<1>1. liveCalls' = [liveCalls EXCEPT ![c] = NoCall] /\ UNCHANGED <<readyState, verdict>> BY DEF AdapterReturn
<1>2. /\ DOMAIN liveCalls' = LiveCallers
      /\ \A d \in LiveCallers : liveCalls'[d] = IF d = c THEN NoCall ELSE liveCalls[d]
  BY <1>1 DEF ReadyInv
<1> QED BY <1>1, <1>2 DEF ReadyInv, CodedRefusalCloses, NoCall

\* The steps of each adapter.
LEMMA ZerodhaKeeps == ASSUME ReadyInv, NEW c \in LiveCallers, ZerodhaBroker(c) PROVE ReadyInv'
<1>1. CASE Operation(c, KiteForm, KiteChange) BY <1>1, BeginKeeps DEF Operation
<1>2. CASE AdapterAnswer(c, KiteResult, ZerodhaReady, KiteStates)
  <2> DEFINE result(a) == Outcome(liveCalls[c].op, a, KiteResult)
             new(a, w) == Answered(liveCalls[c].op, result(a), StateOf(KiteStates, w))
  <2>1. PICK answer \in Answers, word \in Words :
            /\ readyState' = UpdateReady(readyState, result(answer))
            /\ verdict' = SaysOfCredentials(answer, verdict)
            /\ liveCalls' = [liveCalls EXCEPT ![c] = new(answer, word)]
    BY <1>2 DEF AdapterAnswer, ZerodhaReady
  <2>2. Classifies(liveCalls[c].op, answer, result(answer)) BY AnswersClassified DEF ZerodhaBroker
  <2>3. new(answer, word).phase = "answered" BY DEF Answered
  <2> HIDE DEF result, new
  <2> QED BY <2>1, <2>2, <2>3, AnswerKeeps
<1> QED BY <1>1, <1>2, ReturnKeeps DEF ZerodhaBroker
\* The same machine with the parts of Upstox.
LEMMA UpstoxKeeps == ASSUME ReadyInv, NEW c \in LiveCallers, UpstoxBroker(c) PROVE ReadyInv'
<1>1. CASE Operation(c, UpstoxBody, UpstoxChange) BY <1>1, BeginKeeps DEF Operation
<1>2. CASE AdapterAnswer(c, UpstoxResult, UpstoxReady, UpstoxStates)
  <2> DEFINE result(a) == Outcome(liveCalls[c].op, a, UpstoxResult)
             new(a, w) == Answered(liveCalls[c].op, result(a), StateOf(UpstoxStates, w))
  <2>1. PICK answer \in Answers, word \in Words :
            /\ readyState' = UpdateReady(readyState, result(answer))
            /\ verdict' = SaysOfCredentials(answer, verdict)
            /\ liveCalls' = [liveCalls EXCEPT ![c] = new(answer, word)]
    BY <1>2 DEF AdapterAnswer, UpstoxReady
  <2>2. Classifies(liveCalls[c].op, answer, result(answer)) BY AnswersClassified DEF UpstoxBroker
  <2>3. new(answer, word).phase = "answered" BY DEF Answered
  <2> HIDE DEF result, new
  <2> QED BY <2>1, <2>2, <2>3, AnswerKeeps
<1> QED BY <1>1, <1>2, ReturnKeeps DEF UpstoxBroker

\* The same machine with the parts of Dhan.
LEMMA DhanKeeps == ASSUME ReadyInv, NEW c \in LiveCallers, DhanBroker(c) PROVE ReadyInv'
<1>1. CASE Operation(c, DhanBody, DhanChange) BY <1>1, BeginKeeps DEF Operation
<1>2. CASE AdapterAnswer(c, DhanResult, DhanReady, DhanStates)
  <2> DEFINE result(a) == Outcome(liveCalls[c].op, a, DhanResult)
             new(a, w) == Answered(liveCalls[c].op, result(a), StateOf(DhanStates, w))
  <2>1. PICK answer \in Answers, word \in Words :
            /\ readyState' = UpdateReady(readyState, result(answer))
            /\ verdict' = SaysOfCredentials(answer, verdict)
            /\ liveCalls' = [liveCalls EXCEPT ![c] = new(answer, word)]
    BY <1>2 DEF AdapterAnswer, DhanReady
  <2>2. Classifies(liveCalls[c].op, answer, result(answer)) BY AnswersClassified DEF DhanBroker
  <2>3. new(answer, word).phase = "answered" BY DEF Answered
  <2> HIDE DEF result, new
  <2> QED BY <2>1, <2>2, <2>3, AnswerKeeps
<1> QED BY <1>1, <1>2, ReturnKeeps DEF DhanBroker

\* The same machine with the parts of Shoonya.
LEMMA ShoonyaKeeps == ASSUME ReadyInv, NEW c \in LiveCallers, ShoonyaBroker(c) PROVE ReadyInv'
<1>1. CASE Operation(c, ShoonyaJData, ShoonyaChange) BY <1>1, BeginKeeps DEF Operation
<1>2. CASE AdapterAnswer(c, ShoonyaResult, ShoonyaReady, ShoonyaStates)
  <2> DEFINE result(a) == Outcome(liveCalls[c].op, a, ShoonyaResult)
             new(a, w) == Answered(liveCalls[c].op, result(a), StateOf(ShoonyaStates, w))
  <2>1. PICK answer \in Answers, word \in Words :
            /\ readyState' = UpdateReady(readyState, result(answer))
            /\ verdict' = SaysOfCredentials(answer, verdict)
            /\ liveCalls' = [liveCalls EXCEPT ![c] = new(answer, word)]
    BY <1>2 DEF AdapterAnswer, ShoonyaReady
  <2>2. Classifies(liveCalls[c].op, answer, result(answer)) BY AnswersClassified DEF ShoonyaBroker
  <2>3. new(answer, word).phase = "answered" BY DEF Answered
  <2> HIDE DEF result, new
  <2> QED BY <2>1, <2>2, <2>3, AnswerKeeps
<1> QED BY <1>1, <1>2, ReturnKeeps DEF ShoonyaBroker

\* The same machine with the parts of AngelOne.
LEMMA AngelOneKeeps == ASSUME ReadyInv, NEW c \in LiveCallers, AngelOneBroker(c) PROVE ReadyInv'
<1>1. CASE Operation(c, SmartApiBody, SmartApiChange) BY <1>1, BeginKeeps DEF Operation
<1>2. CASE AdapterAnswer(c, SmartApiResult, AngelOneReady, SmartApiStates)
  <2> DEFINE result(a) == Outcome(liveCalls[c].op, a, SmartApiResult)
             new(a, w) == Answered(liveCalls[c].op, result(a), StateOf(SmartApiStates, w))
  <2>1. PICK answer \in Answers, word \in Words :
            /\ readyState' = UpdateReady(readyState, result(answer))
            /\ verdict' = SaysOfCredentials(answer, verdict)
            /\ liveCalls' = [liveCalls EXCEPT ![c] = new(answer, word)]
    BY <1>2 DEF AdapterAnswer, AngelOneReady
  <2>2. Classifies(liveCalls[c].op, answer, result(answer)) BY AnswersClassified DEF AngelOneBroker
  <2>3. new(answer, word).phase = "answered" BY DEF Answered
  <2> HIDE DEF result, new
  <2> QED BY <2>1, <2>2, <2>3, AnswerKeeps
<1> QED BY <1>1, <1>2, ReturnKeeps DEF AngelOneBroker

\* Every step of every caller keeps the invariant.
LEMMA ReadyNext == ReadyInv /\ [LiveNext]_liveVars => ReadyInv'
<1> SUFFICES ASSUME ReadyInv, [LiveNext]_liveVars PROVE ReadyInv' OBVIOUS
<1>1. CASE UNCHANGED liveVars BY <1>1 DEF liveVars, ReadyInv, CodedRefusalCloses
<1> QED
  BY <1>1, ZerodhaKeeps, UpstoxKeeps, DhanKeeps, ShoonyaKeeps, AngelOneKeeps DEF LiveNext

\* However many calls of an adapter overlap, and whatever their answers and
\* their order, no order, change, cancellation or query is begun after the
\* broker refused the credentials by status or error code until an answer shows
\* them accepted (map_status, classify_smartapi_error,
\* update_ready_from_result, fail_closed_if_misconfigured).
THEOREM RefusalCloses == LiveSpec => []CodedRefusalCloses
<1>1. ReadyInv => CodedRefusalCloses BY DEF ReadyInv
<1> QED BY <1>1, ReadyInit, ReadyNext, PTL DEF LiveSpec

-----------------------------------------------------------------------------
(* The suppression registry of the demo generators (hedge-demo-synth). *)

Messages == [subject : SynthSubjects \cup RealSubjects, synth : BOOLEAN,
             price : SynthPrices \cup RealPrices \cup {0}]
Synthetic == {m \in Messages : m.synth}

\* A message without the tag is of a real publisher, and a subject none of
\* them used was never suppressed.
SuppressionInv ==
    /\ synthTime \in Nat
    /\ wire \in Seq(Messages)
    /\ \A i \in DOMAIN wire : ~wire[i].synth => wire[i].subject \in realSent
    /\ DOMAIN suppressedUntil = SynthSubjects
    /\ \A s \in SynthSubjects : s \notin realSent => suppressedUntil[s] = 0

\* The generators start with an empty registry.
LEMMA SuppressionInit == SynthInit => SuppressionInv
BY DEF SynthInit, SuppressionInv

\* What a generator offers carries the tag.
LEMMA OfferTagged ==
    ASSUME NEW s \in SynthSubjects, NEW p \in SynthPrices \cup {0}
    PROVE  Offer(s, p) \in Seq(Synthetic) /\ SynthTag(s, p) \in Synthetic
<1>1. SynthTag(s, p) \in Synthetic BY DEF SynthTag, Synthetic, Messages
<1> QED BY <1>1 DEF Offer

\* A step that only adds tagged messages to the wire keeps the invariant.
LEMMA TaggedKeeps ==
    ASSUME SuppressionInv, NEW more \in Seq(Synthetic), wire' = wire \o more,
           UNCHANGED <<synthTime, suppressedUntil, realSent>>
    PROVE  SuppressionInv'
<1> USE DEF SuppressionInv
<1>1. more \in Seq(Messages) /\ \A i \in 1..Len(more) : more[i].synth
  BY DEF Synthetic
<1>2. /\ wire' \in Seq(Messages) /\ DOMAIN wire' = 1..(Len(wire) + Len(more))
      /\ \A i \in 1..(Len(wire) + Len(more)) :
            wire'[i] = IF i <= Len(wire) THEN wire[i] ELSE more[i - Len(wire)]
  BY <1>1
<1>3. Len(wire) \in Nat /\ Len(more) \in Nat /\ DOMAIN wire = 1..Len(wire) BY <1>1
<1>4. \A i \in DOMAIN wire' : ~wire'[i].synth => wire'[i].subject \in realSent
  <2> SUFFICES ASSUME NEW i \in DOMAIN wire', ~wire'[i].synth PROVE wire'[i].subject \in realSent
    OBVIOUS
  <2>1. CASE i <= Len(wire) BY <2>1, <1>2, <1>3
  <2>2. CASE i > Len(wire)
    <3>1. i - Len(wire) \in 1..Len(more) /\ wire'[i] = more[i - Len(wire)] BY <2>2, <1>2, <1>3
    <3> QED BY <3>1, <1>1
  <2> QED BY <2>1, <2>2, <1>2, <1>3
<1> QED BY <1>2, <1>4

\* The same for one message appended.
LEMMA AppendKeeps ==
    ASSUME SuppressionInv, NEW m \in Messages, wire' = Append(wire, m),
           UNCHANGED <<synthTime, suppressedUntil>>, realSent \subseteq realSent',
           ~m.synth => m.subject \in realSent'
    PROVE  SuppressionInv'
<1> USE DEF SuppressionInv
<1>1. /\ wire' \in Seq(Messages) /\ Len(wire) \in Nat
      /\ \A i \in DOMAIN wire' : wire'[i] = m \/ (i \in DOMAIN wire /\ wire'[i] = wire[i])
  OBVIOUS
<1> QED BY <1>1
\* Two pieces put on the wire one after the other are one piece.
LEMMA PiecesJoin ==
    ASSUME NEW w \in Seq(Messages), NEW x \in Seq(Synthetic), NEW y \in Seq(Synthetic)
    PROVE  x \o y \in Seq(Synthetic) /\ (w \o x) \o y = w \o (x \o y)
<1>1. x \in Seq(Messages) /\ y \in Seq(Messages) BY DEF Synthetic
<1>2. (w \o x) \o y = w \o (x \o y) BY <1>1, ConcatAssociative
<1> QED BY <1>2

\* One turn of a stateless generator.
LEMMA GenerateKeeps ==
    ASSUME SuppressionInv, NEW s \in SynthSubjects, Generate(s)
    PROVE  SuppressionInv'
<1>1. wire' = Append(wire, SynthTag(s, 0)) /\ UNCHANGED <<synthTime, suppressedUntil, realSent>>
  BY DEF Generate
<1>2. SynthTag(s, 0) \in Messages /\ SynthTag(s, 0).synth BY OfferTagged DEF Synthetic
<1> QED BY <1>1, <1>2, AppendKeeps

\* The price, latency and signal generators.
LEMMA GeneratorKeeps == SuppressionInv /\ (LatencyGen \/ StepQuote \/ SignalGen) => SuppressionInv'
<1> SUFFICES ASSUME SuppressionInv, LatencyGen \/ StepQuote \/ SignalGen PROVE SuppressionInv' OBVIOUS
<1>1. CASE LatencyGen
  <2> DEFINE x == <<SynthTag("obs.latency", 0), SynthTag("obs.latency", 0)>>
             y == Offer("obs.budget.breach", 0)
  <2>1. UNCHANGED <<synthTime, suppressedUntil, realSent>> BY <1>1 DEF LatencyGen
  <2>2. wire' = (wire \o x) \o y \/ wire' = (wire \o x) \o <<>> BY <1>1 DEF LatencyGen
  <2>3. x \in Seq(Synthetic) /\ y \in Seq(Synthetic) /\ <<>> \in Seq(Synthetic)
    BY OfferTagged DEF SynthSubjects
  <2>4. wire \in Seq(Messages) BY DEF SuppressionInv
  <2> HIDE DEF x, y
  <2>5. /\ x \o y \in Seq(Synthetic) /\ (wire \o x) \o y = wire \o (x \o y)
        /\ x \o <<>> \in Seq(Synthetic) /\ (wire \o x) \o <<>> = wire \o (x \o <<>>)
    BY <2>3, <2>4, PiecesJoin
  <2> QED BY <2>1, <2>2, <2>5, TaggedKeeps
<1>2. CASE StepQuote
  <2>1. PICK p \in SynthPrices : wire' = Append(wire, SynthTag("md.tick", p)) BY <1>2 DEF StepQuote
  <2>2. UNCHANGED <<synthTime, suppressedUntil, realSent>> BY <1>2 DEF StepQuote
  <2>3. SynthTag("md.tick", p) \in Messages /\ SynthTag("md.tick", p).synth
    BY OfferTagged DEF Synthetic, SynthSubjects
  <2> QED BY <2>1, <2>2, <2>3, AppendKeeps
<1>3. CASE SignalGen
  <2>1. wire' = Append(wire, SynthTag("sig.emitted", 0)) /\ UNCHANGED <<synthTime, suppressedUntil, realSent>>
    BY <1>3 DEF SignalGen
  <2>2. SynthTag("sig.emitted", 0) \in Messages /\ SynthTag("sig.emitted", 0).synth
    BY OfferTagged DEF Synthetic, SynthSubjects
  <2> QED BY <2>1, <2>2, AppendKeeps
<1> QED BY <1>1, <1>2, <1>3

\* The steps of the trade chain.
LEMMA ChainKeeps ==
    SuppressionInv /\ (ChainDecide \/ ChainSubmit \/ ChainFill \/ ChainSettle) => SuppressionInv'
<1> SUFFICES ASSUME SuppressionInv, ChainDecide \/ ChainSubmit \/ ChainFill \/ ChainSettle
             PROVE  SuppressionInv'
  OBVIOUS
<1>1. wire \in Seq(Messages) /\ <<>> \in Seq(Synthetic) BY DEF SuppressionInv
<1>2. \A s \in SynthSubjects : Offer(s, 0) \in Seq(Synthetic) BY OfferTagged
<1>3. CASE ChainDecide
  <2>1. UNCHANGED <<synthTime, suppressedUntil, realSent>> BY <1>3 DEF ChainDecide
  <2>2. PICK approved \in BOOLEAN, cool \in BOOLEAN :
          wire' = wire \o Offer("ai.rank", 0)
                       \o Offer(IF approved THEN "risk.decision.approved"
                                ELSE "risk.decision.rejected", 0)
                       \o IF cool THEN Offer("risk.cooldown", 0) ELSE <<>>
    BY <1>3 DEF ChainDecide
  <2> DEFINE x == Offer("ai.rank", 0)
             y == Offer(IF approved THEN "risk.decision.approved" ELSE "risk.decision.rejected", 0)
             z == IF cool THEN Offer("risk.cooldown", 0) ELSE <<>>
  <2>3. x \in Seq(Synthetic) /\ y \in Seq(Synthetic) /\ z \in Seq(Synthetic)
    BY <1>1, <1>2 DEF SynthSubjects
  <2>4. wire' = ((wire \o x) \o y) \o z BY <2>2
  <2> HIDE DEF x, y, z
  <2>5. x \o y \in Seq(Synthetic) /\ (wire \o x) \o y = wire \o (x \o y) BY <1>1, <2>3, PiecesJoin
  <2>6. /\ (x \o y) \o z \in Seq(Synthetic)
        /\ (wire \o (x \o y)) \o z = wire \o ((x \o y) \o z)
    BY <1>1, <2>3, <2>5, PiecesJoin
  <2> QED BY <2>1, <2>4, <2>5, <2>6, TaggedKeeps
<1>4. CASE ChainSubmit
  <2>1. wire' = wire \o Offer("exec.order", 0) /\ UNCHANGED <<synthTime, suppressedUntil, realSent>>
    BY <1>4 DEF ChainSubmit
  <2>2. Offer("exec.order", 0) \in Seq(Synthetic) BY <1>2 DEF SynthSubjects
  <2> QED BY <2>1, <2>2, TaggedKeeps
<1>5. CASE ChainFill
  <2>1. wire' = wire \o Offer("exec.fill", 0) /\ UNCHANGED <<synthTime, suppressedUntil, realSent>>
    BY <1>5 DEF ChainFill
  <2>2. Offer("exec.fill", 0) \in Seq(Synthetic) BY <1>2 DEF SynthSubjects
  <2> QED BY <2>1, <2>2, TaggedKeeps
<1>6. CASE ChainSettle
  <2>1. UNCHANGED <<synthTime, suppressedUntil, realSent>> BY <1>6 DEF ChainSettle
  <2> DEFINE x == Offer("exec.trade.closed", 0)
             y == Offer("pos.update", 0)
  <2>2. wire' = (wire \o x) \o y \/ wire' = (wire \o <<>>) \o y BY <1>6 DEF ChainSettle
  <2>3. x \in Seq(Synthetic) /\ y \in Seq(Synthetic) BY <1>2 DEF SynthSubjects
  <2> HIDE DEF x, y
  <2>4. /\ x \o y \in Seq(Synthetic) /\ (wire \o x) \o y = wire \o (x \o y)
        /\ <<>> \o y \in Seq(Synthetic) /\ (wire \o <<>>) \o y = wire \o (<<>> \o y)
    BY <1>1, <2>3, PiecesJoin
  <2> QED BY <2>1, <2>2, <2>4, TaggedKeeps
<1> QED BY <1>3, <1>4, <1>5, <1>6

\* The subscriber: an echo changes nothing, a real message is of a subject its
\* publisher has used.
LEMMA SubscriberKeeps == SuppressionInv /\ SuppressionSubscriber => SuppressionInv'
<1> SUFFICES ASSUME SuppressionInv, SuppressionSubscriber PROVE SuppressionInv' OBVIOUS
<1> USE DEF SuppressionInv
<1> DEFINE m == Head(wire)
<1>1. /\ wire # <<>> /\ wire' = Tail(wire) /\ suppressedUntil' = RecordMessage(m)
      /\ UNCHANGED <<synthTime, realSent>>
  BY DEF SuppressionSubscriber
<1>2. m = wire[1] /\ 1 \in DOMAIN wire /\ ~m.synth => m.subject \in realSent BY <1>1
<1>3. /\ wire' \in Seq(Messages)
      /\ \A i \in DOMAIN wire' : i + 1 \in DOMAIN wire /\ wire'[i] = wire[i + 1]
  BY <1>1
<1>4. ~m.synth => m.subject \in realSent BY <1>1
<1> HIDE DEF m
<1>5. /\ DOMAIN suppressedUntil' = SynthSubjects
      /\ \A s \in SynthSubjects : s \notin realSent => suppressedUntil'[s] = 0
  <2>1. CASE m.synth BY <2>1, <1>1 DEF RecordMessage, IsSynthEcho, IsSynthEchoTag
  <2>2. CASE ~m.synth
    <3>1. suppressedUntil' = [suppressedUntil EXCEPT ![m.subject] = synthTime + SuppressionWindow]
      BY <2>2, <1>1 DEF RecordMessage, IsSynthEcho, IsSynthEchoTag
    <3> QED BY <2>2, <3>1, <1>4
  <2> QED BY <2>1, <2>2
<1> QED BY <1>1, <1>3, <1>5

\* Every step keeps the invariant.
LEMMA SuppressionNext == SuppressionInv /\ [SynthNext]_synthVars => SuppressionInv'
<1> SUFFICES ASSUME SuppressionInv, [SynthNext]_synthVars PROVE SuppressionInv' OBVIOUS
<1>1. CASE \/ BookGen \/ OiGen \/ SectorGen \/ VolatilityGen \/ ConnectionGen \/ EventGen
           \/ HeatmapGen \/ FeatureGen \/ NewsGen \/ StabilityGen \/ InterventionGen
           \/ KillAndTargetGen \/ AggregateGen \/ ReplayGen
  <2>1. PICK s \in SynthSubjects : Generate(s)
    BY <1>1 DEF BookGen, OiGen, SectorGen, VolatilityGen, ConnectionGen, EventGen, HeatmapGen,
                FeatureGen, NewsGen, StabilityGen, InterventionGen, KillAndTargetGen, AggregateGen,
                ReplayGen, SynthSubjects
  <2> QED BY <2>1, GenerateKeeps
<1>2. ASSUME UNCHANGED <<synthTime, suppressedUntil, wire, realSent>> PROVE SuppressionInv'
  BY <1>2 DEF SuppressionInv
<1>3. CASE TickCheck \/ SignalSend \/ ChainReceive BY <1>2, <1>3 DEF TickCheck, SignalSend, ChainReceive
<1>4. ASSUME NEW s \in RealSubjects, NEW p \in RealPrices, RealPublish(s, p) PROVE SuppressionInv'
  <2> DEFINE m == [subject |-> s, synth |-> FALSE, price |-> p]
  <2>1. /\ wire' = Append(wire, m) /\ realSent' = realSent \cup {s}
        /\ UNCHANGED <<synthTime, suppressedUntil>>
    BY <1>4 DEF RealPublish
  <2>2. m \in Messages /\ m.subject = s BY DEF Messages
  <2> QED BY <2>1, <2>2, AppendKeeps
<1>5. CASE SynthClock BY <1>5 DEF SynthClock, SuppressionInv
<1>6. CASE UNCHANGED synthVars BY <1>2, <1>6 DEF synthVars
<1> QED
  BY <1>1, <1>3, <1>4, <1>5, <1>6, GeneratorKeeps, ChainKeeps, SubscriberKeeps DEF SynthNext

\* The generators never silence themselves: a subject is suppressed only if a
\* real publisher has used it, although every synthetic message comes back
\* through the subscriber (record_message, synth_tag).
THEOREM OnlyRealSilences == SynthSpec => []SilencedByRealOnly
<1>1. SuppressionInv => SilencedByRealOnly BY DEF SuppressionInv, SilencedByRealOnly, AllowPublish
<1> QED BY <1>1, SuppressionInit, SuppressionNext, PTL DEF SynthSpec
-----------------------------------------------------------------------------
(* The two sinks of a snapshot's signals (hedge-signals). *)

\* A sequence that agrees with another from some place on is a window of it.
LEMMA WindowIs ==
    ASSUME NEW S, NEW p \in Seq(S), NEW q \in Seq(S), NEW k \in Nat, k + Len(p) <= Len(q),
           \A i \in 1..Len(p) : p[i] = q[k + i]
    PROVE  p = SubSeq(q, k + 1, k + Len(p))
<1> DEFINE w == SubSeq(q, k + 1, k + Len(p))
           n == Len(p)
<1>1. n \in Nat /\ Len(q) \in Nat OBVIOUS
<1>2. \A i \in (k + 1)..(k + n) : q[i] \in S BY <1>1
<1>3. /\ w \in Seq(S)
      /\ Len(w) = IF k + 1 <= k + n THEN (k + n) - (k + 1) + 1 ELSE 0
      /\ \A i \in 1..((k + n) - (k + 1) + 1) : w[i] = q[(k + 1) + i - 1]
  BY <1>1, <1>2, SubSeqProperties
<1>4. Len(w) = n BY <1>1, <1>3
<1>5. \A i \in 1..n : w[i] = p[i]
  <2> SUFFICES ASSUME NEW i \in 1..n PROVE w[i] = p[i] OBVIOUS
  <2>1. i \in 1..((k + n) - (k + 1) + 1) /\ (k + 1) + i - 1 = k + i BY <1>1
  <2> QED BY <2>1, <1>3
<1> HIDE DEF w
<1>6. p = w BY <1>3, <1>4, <1>5, SeqEqual
<1> QED BY <1>6 DEF w

\* One sequence begins another.
Begins(p, q) == Len(p) <= Len(q) /\ \A i \in 1..Len(p) : p[i] = q[i]

\* Appending the next element of q to a sequence that begins q keeps both what
\* it begins and what begins it.
LEMMA AppendBegins ==
    ASSUME NEW S, NEW p \in Seq(S), NEW q \in Seq(S), NEW x \in S, Begins(p, q),
           Len(p) + 1 <= Len(q), x = q[Len(p) + 1]
    PROVE  /\ Append(p, x) \in Seq(S) /\ Len(Append(p, x)) = Len(p) + 1
           /\ Begins(Append(p, x), q)
           /\ \A r \in Seq(S) : Begins(r, p) => Begins(r, Append(p, x))
<1> DEFINE a == Append(p, x)
           k == Len(p)
<1>1. a \in Seq(S) /\ Len(a) = k + 1 /\ a[k + 1] = x /\ \A i \in 1..k : a[i] = p[i]
  BY AppendProperties
<1>2. k \in Nat /\ Len(q) \in Nat OBVIOUS
<1> HIDE DEF a
<1>3. Begins(a, q)
  <2>1. \A i \in 1..k : p[i] = q[i] BY DEF Begins
  <2> HIDE DEF k
  <2>2. \A i \in 1..(k + 1) : i = k + 1 \/ i \in 1..k BY <1>2
  <2>3. a[k + 1] = q[k + 1] BY <1>1 DEF k
  <2>4. k + 1 <= Len(q) BY DEF k
  <2> QED BY <1>1, <2>1, <2>2, <2>3, <2>4 DEF Begins
<1>4. ASSUME NEW r \in Seq(S), Begins(r, p) PROVE Begins(r, a)
  <2>1. Len(r) \in Nat /\ Len(r) <= k /\ \A i \in 1..Len(r) : r[i] = p[i] BY <1>4 DEF Begins
  <2> HIDE DEF k
  <2>2. Len(r) <= k + 1 /\ \A i \in 1..Len(r) : i \in 1..k BY <1>2, <2>1
  <2> QED BY <1>1, <2>1, <2>2 DEF Begins
<1> QED BY <1>1, <1>3, <1>4 DEF a

\* The tail of a sequence that ends q ends q too.
LEMMA TailEnds ==
    ASSUME NEW S, NEW t \in Seq(S), NEW q \in Seq(S), t # <<>>, Len(t) <= Len(q),
           \A i \in 1..Len(t) : t[i] = q[Len(q) - Len(t) + i]
    PROVE  /\ Tail(t) \in Seq(S) /\ Len(Tail(t)) = Len(t) - 1
           /\ \A i \in 1..(Len(t) - 1) : Tail(t)[i] = q[Len(q) - (Len(t) - 1) + i]
           /\ Head(t) \in S /\ Head(t) = q[Len(q) - Len(t) + 1]
           /\ Len(t) \in Nat /\ Len(t) >= 1
<1> DEFINE u == Tail(t)
           m == Len(t)
           n == Len(q)
<1>1. u \in Seq(S) /\ Len(u) = m - 1 /\ (\A i \in 1..(m - 1) : u[i] = t[i + 1]) /\ Head(t) = t[1]
  OBVIOUS
<1>2. m \in Nat /\ n \in Nat /\ m >= 1 OBVIOUS
<1>3. t[1] \in S /\ 1 \in 1..m BY <1>2
<1>4. \A i \in 1..m : t[i] = q[n - m + i] OBVIOUS
<1> HIDE DEF u, m, n
<1>5. ASSUME NEW i \in 1..(m - 1) PROVE u[i] = q[n - (m - 1) + i]
  <2>1. i + 1 \in 1..m /\ n - m + (i + 1) = n - (m - 1) + i BY <1>2
  <2> QED BY <1>1, <1>4, <2>1
<1>6. t[1] = q[n - m + 1] BY <1>3, <1>4
<1> QED BY <1>1, <1>2, <1>3, <1>5, <1>6 DEF u, m, n

\* The greatest element of a finite set of integers is one of its elements.
LEMMA MaxIsMember ==
    ASSUME NEW S, IsFiniteSet(S), S \subseteq Int, NEW t \in SUBSET S, t # {}
    PROVE  Max(t) \in t
<1>1. IsFiniteSet(t) /\ t \subseteq Int BY FS_Subset
<1>2. \E m \in t : \A k \in t : k <= m BY <1>1, GreatestInteger
<1>3. \E m \in t : \A k \in t : m >= k BY <1>1, <1>2
<1> QED BY <1>3 DEF Max

\* The signals the strategies can emit.
SignalSet ==
    UNION {StrategyEvaluate(StrategyOrder[i], s, p) :
              i \in 1..7, s \in Snapshots, p \in PrevDays \cup {NoPrev}}

\* The signals still to send are the end of the snapshot's signals; the sinks
\* hold what precedes them, NATS one more while the XADD is awaited.
SinkInv ==
    /\ snapOut \in Seq(SignalSet) /\ toSend \in Seq(SignalSet) /\ onNats \in Seq(SignalSet) /\ onStream \in Seq(SignalSet)
    /\ hasStream \in BOOLEAN /\ prevDay \in [SigSymbols -> PrevDays \cup {NoPrev}]
    /\ Begins(onNats, snapOut) /\ Begins(onStream, onNats)
    /\ pubAt = "nats" \/ (pubAt = "xadd" /\ hasStream /\ toSend # <<>>)
    /\ toSend # <<>> =>
          /\ Len(toSend) <= Len(snapOut)
          /\ \A i \in 1..Len(toSend) : toSend[i] = snapOut[Len(snapOut) - Len(toSend) + i]
          /\ Len(onNats) = Len(snapOut) - Len(toSend) + (IF pubAt = "xadd" THEN 1 ELSE 0)
          /\ hasStream => Len(onStream) = Len(snapOut) - Len(toSend)

\* The loop over the strategies, as the equation its fold solves.
EvaluatesBy(s, c, p, g) ==
    g = [t \in SUBSET DOMAIN StrategyOrder |->
            IF t = {} THEN <<>>
            ELSE PushSignal(g[t \ {Max(t)}], Survivors(StrategyOrder[Max(t)], s, c, p))]

\* evaluate_strategies returns a Vec of signals.
LEMMA EvaluatesToSignals ==
    ASSUME NEW s \in Snapshots, NEW c, NEW p \in PrevDays \cup {NoPrev}
    PROVE  EvaluateStrategies(s, c, p) \in Seq(SignalSet)
<1> DEFINE S == DOMAIN StrategyOrder
           V == Seq(SignalSet)
           found(i) == Survivors(StrategyOrder[i], s, c, p)
           op == [q \in S \X V |-> PushSignal(q[2], found(q[1]))]
           pick == [t \in SUBSET S |-> Max(t)]
           g == CHOOSE h : EvaluatesBy(s, c, p, h)
<1>1. EvaluateStrategies(s, c, p) = g[S]
  BY DEF EvaluateStrategies, FoldLeft, MapThenFoldSet, EvaluatesBy
<1>2. S = 1..7 BY DEF StrategyOrder
<1>3. IsFiniteSet(S) /\ S \subseteq Int
  <2>1. \A b \in Int : IsFiniteSet(1..b) BY FS_Interval
  <2>2. 7 \in Int /\ 1..7 \subseteq Int OBVIOUS
  <2>3. IsFiniteSet(1..7) BY Zenon, <2>1, <2>2
  <2> HIDE DEF S
  <2> QED BY Zenon, <1>2, <2>2, <2>3
<1>4. ASSUME NEW t \in SUBSET S, t # {} PROVE Max(t) \in t BY <1>3, <1>4, MaxIsMember
<1>5. ASSUME NEW i \in S, NEW v \in V PROVE PushSignal(v, found(i)) \in V
  <2>1. found(i) \subseteq StrategyEvaluate(StrategyOrder[i], s, p) BY DEF Survivors
  <2>2. StrategyEvaluate(StrategyOrder[i], s, p) \subseteq SignalSet BY <1>2 DEF SignalSet
  <2> HIDE DEF found
  <2>3. CASE found(i) = {} BY <2>3 DEF PushSignal
  <2>4. CASE found(i) # {}
    <3>1. (CHOOSE sig \in found(i) : TRUE) \in SignalSet BY <2>1, <2>2, <2>4
    <3> QED BY <2>4, <3>1 DEF PushSignal
  <2> QED BY <2>3, <2>4
<1> HIDE DEF found
<1>6. op \in [S \X V -> V] BY <1>5
<1>7. <<>> \in V OBVIOUS
<1>8. PICK h \in [SUBSET S -> V] :
        \A t \in SUBSET S : h[t] = IF t = {} THEN <<>> ELSE op[<<pick[t], h[t \ {pick[t]}]>>]
  <2>1. SubsetSteps(S, V, <<>>, op, pick)
    <3>1. \A t \in SUBSET S : t # {} => pick[t] \in t BY <1>4
    <3> HIDE DEF S, V, op, pick
    <3> QED BY <1>3, <1>6, <1>7, <3>1 DEF SubsetSteps
  <2>2. PICK h : SubsetSolution(S, V, <<>>, op, pick, h) BY <2>1, SubsetRecursion
  <2> QED BY <2>2 DEF SubsetSolution
<1>9. EvaluatesBy(s, c, p, h)
  <2>1. ASSUME NEW t \in SUBSET S, t # {} PROVE h[t] = PushSignal(h[t \ {Max(t)}], found(Max(t)))
    <3>1. Max(t) \in S /\ t \ {Max(t)} \in SUBSET S BY <1>4, <2>1
    <3>2. h[t \ {Max(t)}] \in V BY <1>8, <3>1
    <3>3. h[t] = op[<<Max(t), h[t \ {Max(t)}]>>] BY <1>8, <2>1
    <3>4. <<Max(t), h[t \ {Max(t)}]>> \in S \X V BY <3>1, <3>2
    <3> QED BY <3>3, <3>4
  <2>2. h[{}] = <<>> BY <1>8
  <2> HIDE DEF V
  <2> QED BY <1>8, <2>1, <2>2 DEF EvaluatesBy, found
<1>10. EvaluatesBy(s, c, p, g) BY <1>9
<1> HIDE DEF g
<1>11. \A t \in SUBSET S : g[t] = IF t = {} THEN <<>> ELSE PushSignal(g[t \ {Max(t)}], found(Max(t)))
  BY <1>10 DEF EvaluatesBy, found
<1> DEFINE T == {t \in SUBSET S : g[t] \in V}
<1>12. {} \in T BY <1>7, <1>11
<1>13. ASSUME NEW t \in SUBSET S, t # {}, \A x \in t : t \ {x} \in T PROVE t \in T
  <2>1. g[t \ {Max(t)}] \in V /\ Max(t) \in S BY <1>4, <1>13
  <2>2. g[t] = PushSignal(g[t \ {Max(t)}], found(Max(t))) BY <1>11, <1>13
  <2>3. g[t] \in V BY <1>5, <2>1, <2>2
  <2> QED BY <2>3
<1>14. S \in T
  <2> HIDE DEF S, T
  <2>1. SUBSET S \subseteq T BY <1>3, <1>12, <1>13, SubsetInduction
  <2> QED BY <2>1
<1> QED BY <1>1, <1>14

\* Sinks that begin the snapshot's signals hold prefixes of them.
LEMMA SinksArePrefixes == ASSUME SinkInv PROVE SinksHoldPrefixes
<1>1. Len(onNats) \in Nat /\ Len(onStream) \in Nat BY DEF SinkInv
<1>2. onNats = SubSeq(snapOut, 0 + 1, 0 + Len(onNats))
  <2>1. \A i \in 1..Len(onNats) : onNats[i] = snapOut[0 + i] BY <1>1 DEF SinkInv, Begins
  <2>2. 0 + Len(onNats) <= Len(snapOut) BY <1>1 DEF SinkInv, Begins
  <2> QED BY <2>1, <2>2, WindowIs DEF SinkInv
<1>3. onStream = SubSeq(onNats, 0 + 1, 0 + Len(onStream))
  <2>1. \A i \in 1..Len(onStream) : onStream[i] = onNats[0 + i] BY <1>1 DEF SinkInv, Begins
  <2>2. 0 + Len(onStream) <= Len(onNats) BY <1>1 DEF SinkInv, Begins
  <2> QED BY <2>1, <2>2, WindowIs DEF SinkInv
<1> QED BY <1>1, <1>2, <1>3 DEF SinksHoldPrefixes

\* The engine starts with empty sinks.
LEMMA SinkInit == ASSUME SigInit PROVE SinkInv
BY DEF SigInit, SinkInv, Begins

\* A new snapshot empties the sinks.
LEMMA SnapshotKeeps ==
    ASSUME SinkInv, NEW s \in Snapshots, IngestSnapshot(s)
    PROVE  SinkInv'
<1>1. /\ toSend = <<>> /\ snapOut' = EvaluateStrategies(s, sigCfg, prevDay[s.symbol])
      /\ toSend' = snapOut' /\ onNats' = <<>> /\ onStream' = <<>> /\ UNCHANGED <<pubAt, hasStream, prevDay>>
  BY DEF IngestSnapshot
<1>2. snapOut' \in Seq(SignalSet)
  <2>1. prevDay[s.symbol] \in PrevDays \cup {NoPrev} BY DEF SinkInv, SigSymbols
  <2> QED BY <1>1, <2>1, EvaluatesToSignals
<1>3. pubAt = "nats" BY <1>1 DEF SinkInv
<1>4. Len(snapOut') \in Nat BY <1>2
<1> QED BY <1>1, <1>2, <1>3, <1>4 DEF SinkInv, Begins

\* What a pending signal is: the one after those NATS or the stream holds.
LEMMA NextSignal ==
    ASSUME SinkInv, toSend # <<>>
    PROVE  /\ Tail(toSend) \in Seq(SignalSet) /\ Len(Tail(toSend)) = Len(toSend) - 1
           /\ \A i \in 1..(Len(toSend) - 1) :
                 Tail(toSend)[i] = snapOut[Len(snapOut) - (Len(toSend) - 1) + i]
           /\ Head(toSend) \in SignalSet /\ Head(toSend) = snapOut[Len(snapOut) - Len(toSend) + 1]
           /\ Len(toSend) \in Nat /\ Len(toSend) >= 1
           /\ Len(snapOut) \in Nat /\ Len(toSend) <= Len(snapOut)
BY TailEnds DEF SinkInv

\* The publication on NATS: the next signal of the snapshot.
LEMMA PublishNatsKeeps == ASSUME SinkInv, PublishNats PROVE SinkInv'
<1> DEFINE n == Len(snapOut)
           m == Len(toSend)
<1>1. /\ toSend # <<>> /\ pubAt = "nats" /\ onNats' = Append(onNats, Head(toSend))
      /\ UNCHANGED <<snapOut, onStream, hasStream, prevDay>>
      /\ IF hasStream THEN pubAt' = "xadd" /\ toSend' = toSend ELSE toSend' = Tail(toSend) /\ pubAt' = pubAt
  BY DEF PublishNats
<1>2. /\ snapOut \in Seq(SignalSet) /\ toSend \in Seq(SignalSet) /\ onNats \in Seq(SignalSet) /\ onStream \in Seq(SignalSet)
      /\ Begins(onNats, snapOut) /\ Begins(onStream, onNats) /\ hasStream \in BOOLEAN
      /\ Len(onNats) = n - m /\ (hasStream => Len(onStream) = n - m)
  BY <1>1 DEF SinkInv
<1>3. /\ Tail(toSend) \in Seq(SignalSet) /\ Len(Tail(toSend)) = m - 1
      /\ \A i \in 1..(m - 1) : Tail(toSend)[i] = snapOut[n - (m - 1) + i]
      /\ Head(toSend) \in SignalSet /\ Head(toSend) = snapOut[n - m + 1]
      /\ m \in Nat /\ m >= 1 /\ n \in Nat /\ m <= n
  BY <1>1, NextSignal
<1>4. Len(onNats) + 1 <= Len(snapOut) /\ Head(toSend) = snapOut[Len(onNats) + 1] BY <1>2, <1>3
<1>5. /\ onNats' \in Seq(SignalSet) /\ Len(onNats') = n - m + 1
      /\ Begins(onNats', snapOut) /\ Begins(onStream, onNats')
  <2> DEFINE a == Append(onNats, Head(toSend))
  <2> HIDE DEF n, m
  <2>1. /\ a \in Seq(SignalSet) /\ Len(a) = Len(onNats) + 1 /\ Begins(a, snapOut)
        /\ \A r \in Seq(SignalSet) : Begins(r, onNats) => Begins(r, a)
    BY <1>2, <1>3, <1>4, AppendBegins, SMTT(30)
  <2> HIDE DEF a
  <2>2. onNats' = a BY <1>1 DEF a
  <2>3. Begins(onStream, a) BY <1>2, <2>1
  <2>4. Len(a) = n - m + 1 BY <1>2, <2>1
  <2> QED BY <2>1, <2>2, <2>3, <2>4
<1>6. CASE hasStream
  BY <1>1, <1>2, <1>3, <1>5, <1>6 DEF SinkInv
<1>7. CASE ~hasStream
  <2> HIDE DEF n, m
  <2>1. n - m + 1 = n - (m - 1) /\ m - 1 <= n BY <1>3
  <2>2. toSend' = Tail(toSend) /\ pubAt' = "nats" BY <1>1, <1>7
  <2>3. n = Len(snapOut') BY <1>1 DEF n
  <2>4. /\ Len(toSend') <= Len(snapOut')
        /\ \A i \in 1..Len(toSend') : toSend'[i] = snapOut'[Len(snapOut') - Len(toSend') + i]
        /\ Len(onNats') = Len(snapOut') - Len(toSend')
    <3>1. toSend' = Tail(toSend) /\ Len(toSend') = m - 1 BY <1>3, <2>2
    <3> QED BY <1>1, <1>3, <1>5, <2>1, <2>3, <3>1
  <2>5. Len(snapOut') - Len(toSend') \in Int BY <1>3, <2>2, <2>3
  <2> QED BY <1>1, <1>2, <1>3, <1>5, <1>7, <2>2, <2>4, <2>5 DEF SinkInv
<1> QED BY <1>2, <1>6, <1>7

\* The XADD: the signal NATS has already.
LEMMA PublishStreamKeeps == ASSUME SinkInv, PublishStream PROVE SinkInv'
<1> DEFINE n == Len(snapOut)
           m == Len(toSend)
<1>1. /\ toSend # <<>> /\ pubAt = "xadd" /\ onStream' = Append(onStream, Head(toSend))
      /\ toSend' = Tail(toSend) /\ pubAt' = "nats" /\ UNCHANGED <<snapOut, onNats, hasStream, prevDay>>
  BY DEF PublishStream
<1>2. /\ snapOut \in Seq(SignalSet) /\ toSend \in Seq(SignalSet) /\ onNats \in Seq(SignalSet) /\ onStream \in Seq(SignalSet)
      /\ Begins(onNats, snapOut) /\ Begins(onStream, onNats) /\ hasStream
      /\ Len(onNats) = n - m + 1 /\ Len(onStream) = n - m
  BY <1>1 DEF SinkInv
<1>3. /\ Tail(toSend) \in Seq(SignalSet) /\ Len(Tail(toSend)) = m - 1
      /\ \A i \in 1..(m - 1) : Tail(toSend)[i] = snapOut[n - (m - 1) + i]
      /\ Head(toSend) \in SignalSet /\ Head(toSend) = snapOut[n - m + 1]
      /\ m \in Nat /\ m >= 1 /\ n \in Nat /\ m <= n
  BY <1>1, NextSignal
<1> HIDE DEF n, m
<1>4. n - m + 1 \in 1..Len(onNats) /\ Len(onStream) + 1 = n - m + 1 BY <1>2, <1>3
<1>5. onNats[n - m + 1] = snapOut[n - m + 1] BY <1>2, <1>4 DEF Begins
<1>6. Len(onStream) + 1 <= Len(onNats) /\ Head(toSend) = onNats[Len(onStream) + 1]
  BY <1>2, <1>3, <1>4, <1>5
<1>7. onStream' \in Seq(SignalSet) /\ Len(onStream') = n - m + 1 /\ Begins(onStream', onNats)
  <2> DEFINE a == Append(onStream, Head(toSend))
  <2>1. a \in Seq(SignalSet) /\ Len(a) = Len(onStream) + 1 /\ Begins(a, onNats)
    BY <1>2, <1>3, <1>6, AppendBegins
  <2> HIDE DEF a
  <2>2. onStream' = a BY <1>1 DEF a
  <2> QED BY <1>4, <2>1, <2>2
<1>8. n - m + 1 = n - (m - 1) /\ m - 1 <= n BY <1>3
<1>9. n = Len(snapOut') BY <1>1 DEF n
<1>10. /\ Len(toSend') <= Len(snapOut')
       /\ \A i \in 1..Len(toSend') : toSend'[i] = snapOut'[Len(snapOut') - Len(toSend') + i]
       /\ Len(onNats') = Len(snapOut') - Len(toSend')
       /\ Len(onStream') = Len(snapOut') - Len(toSend')
  <2>1. Len(toSend') = m - 1 BY <1>1, <1>3
  <2> QED BY <1>1, <1>2, <1>3, <1>7, <1>8, <1>9, <2>1
<1>11. Len(snapOut') - Len(toSend') \in Int BY <1>1, <1>3, <1>9
<1>12. /\ snapOut' \in Seq(SignalSet) /\ toSend' \in Seq(SignalSet) /\ onNats' \in Seq(SignalSet) /\ onStream' \in Seq(SignalSet)
       /\ hasStream' \in BOOLEAN /\ Begins(onNats', snapOut') /\ Begins(onStream', onNats')
  BY <1>1, <1>2, <1>3, <1>7
<1>13. Len(onNats') = Len(snapOut') - Len(toSend') + (IF pubAt' = "xadd" THEN 1 ELSE 0)
  <2>1. (IF pubAt' = "xadd" THEN 1 ELSE 0) = 0 BY <1>1
  <2>2. \A d \in Int : d + 0 = d OBVIOUS
  <2> QED BY <1>10, <1>11, <2>1, <2>2
<1> QED BY <1>1, <1>10, <1>12, <1>13 DEF SinkInv

\* Every step keeps the invariant; a failure gives up the rest.
LEMMA SinkNext == ASSUME SinkInv, [SigNext]_sigVars PROVE SinkInv'
<1>1. ASSUME UNCHANGED <<snapOut, toSend, pubAt, onNats, onStream, hasStream>>,
             prevDay' \in [SigSymbols -> PrevDays \cup {NoPrev}]
      PROVE  SinkInv'
  BY <1>1 DEF SinkInv, Begins
<1>2. CASE PublishFails
  <2>1. toSend' = <<>> /\ pubAt' = "nats" /\ UNCHANGED <<snapOut, onNats, onStream, hasStream, prevDay>>
    BY <1>2 DEF PublishFails, AfterFailure, AbortRest
  <2> QED BY <2>1 DEF SinkInv, Begins
<1>3. CASE UNCHANGED sigVars BY <1>1, <1>3 DEF sigVars, SinkInv
<1>4. ASSUME \/ \E c \in SignalConfigs : UpdateConfig(c)
             \/ \E q \in {"start", "end"}, f \in WarFloors : WarPublish(q, f)
             \/ \E q \in {"start", "end"} : WarRecv(q) \/ WarSubscriptionLost(q)
      PROVE  SinkInv'
  <2>1. UNCHANGED <<snapOut, toSend, pubAt, onNats, onStream, hasStream, prevDay>>
    BY <1>4 DEF UpdateConfig, WarPublish, WarRecv, WarSubscriptionLost
  <2> QED BY <1>1, <2>1 DEF SinkInv
<1>5. ASSUME NEW y \in SigSymbols, NEW p \in PrevDays, UpsertPreviousDay(y, p) PROVE SinkInv'
  <2>1. /\ UNCHANGED <<snapOut, toSend, pubAt, onNats, onStream, hasStream>>
        /\ prevDay' = [prevDay EXCEPT ![y] = p]
    BY <1>5 DEF UpsertPreviousDay
  <2>2. prevDay' \in [SigSymbols -> PrevDays \cup {NoPrev}] BY <2>1 DEF SinkInv
  <2> QED BY <1>1, <2>1, <2>2
<1> QED BY <1>2, <1>3, <1>4, <1>5, SnapshotKeeps, PublishNatsKeeps, PublishStreamKeeps DEF SigNext

\* Whatever fails on either sink, NATS holds a prefix of the snapshot's signals
\* in registration order and the Redis stream a prefix of that (engine.rs
\* ingest_feature_snapshot and publish).
THEOREM SinksInOrder == SigSpec => []SinksHoldPrefixes
<1>1. SigInit => SinkInv BY SinkInit
<1>2. SinkInv /\ [SigNext]_sigVars => SinkInv' BY SinkNext
<1>3. SinkInv => SinksHoldPrefixes BY SinksArePrefixes
<1> QED BY <1>1, <1>2, <1>3, PTL DEF SigSpec
-----------------------------------------------------------------------------
(* The connection state the Upstox feed announces (bin/upstox_feed.rs). *)

\* A quotient without remainder.
LEMMA WholeQuotient == ASSUME NEW n \in Nat, NEW d \in Nat \ {0}, n % d = 0 PROVE n = d * (n \div d)
  OBVIOUS

\* An odd divisor of twice a number divides the number.
LEMMA OddDivisor ==
    ASSUME NEW a \in Nat, NEW d \in Nat \ {0}, (2 * a) % d = 0, d % 2 # 0
    PROVE  a % d = 0
<1> DEFINE m == (2 * a) \div d
           i == d \div 2
           j == m \div 2
<1>1. m \in Nat /\ 2 * a = d * m
  <2>1. 2 * a \in Nat /\ m \in Nat OBVIOUS
  <2> QED BY <2>1, WholeQuotient
<1>2. i \in Nat /\ d = 2 * i + 1 OBVIOUS
<1> HIDE DEF i
<1>3. j \in Nat /\ (m = 2 * j \/ m = 2 * j + 1) BY <1>1
<1> HIDE DEF j, m
<1>4. CASE m = 2 * j + 1
  <2>1. \A x, y \in Nat : (2 * x + 1) * (2 * y + 1) = 2 * (2 * (x * y) + x + y) + 1 OBVIOUS
  <2>2. 2 * a = 2 * (2 * (i * j) + i + j) + 1 BY <1>1, <1>2, <1>3, <1>4, <2>1
  <2>3. 2 * (i * j) + i + j \in Nat BY <1>2, <1>3
  <2>4. \A x, y \in Nat : 2 * x # 2 * y + 1 OBVIOUS
  <2> QED BY <2>2, <2>3, <2>4
<1>5. CASE m = 2 * j
  <2>1. \A x, y \in Nat : x * (2 * y) = 2 * (x * y) OBVIOUS
  <2>2. 2 * a = 2 * (d * j) /\ d * j \in Nat BY <1>1, <1>3, <1>5, <2>1
  <2>3. a = d * j BY <2>2
  <2>4. (d * j) % d = 0 BY <1>3
  <2> QED BY <2>3, <2>4
<1> QED BY <1>3, <1>4, <1>5

\* Twice a power of two is one.
LEMMA PowerDoubles == ASSUME NEW a \in Nat, PowerOfTwo(a) PROVE PowerOfTwo(2 * a)
<1>1. a > 0 /\ 2 * a > 0 BY DEF PowerOfTwo
<1> SUFFICES ASSUME NEW d \in 1..(2 * a), (2 * a) % d = 0 PROVE d = 1 \/ d % 2 = 0
  BY <1>1 DEF PowerOfTwo
<1>2. d \in Nat \ {0} OBVIOUS
<1> SUFFICES ASSUME d % 2 # 0 PROVE d = 1 OBVIOUS
<1>3. a % d = 0 BY <1>2, OddDivisor
<1>4. d <= a
  <2>1. d > a => a % d = a BY <1>2
  <2> QED BY <1>1, <1>2, <1>3, <2>1
<1> QED BY <1>2, <1>3, <1>4 DEF PowerOfTwo

\* The error count is zero until the probe has answered, and an announced one is
\* a number.
FeedInv ==
    /\ ltpErrors \in Nat
    /\ upProc = "start" => ltpErrors = 0
    /\ upStatus.status = "disconnected" => upStatus.attempt \in Nat
    /\ AnnouncedState

\* A count that has not doubled since a power of two and is none itself, is
\* still below the next one when it has grown by one.
LEMMA BelowNextPower ==
    ASSUME NEW a \in Nat, NEW e \in Nat, PowerOfTwo(a), a <= e, e < 2 * a,
           ~PowerOfTwo(e + 1)
    PROVE  e + 1 < 2 * a
<1>1. e + 1 # 2 * a BY PowerDoubles
<1> QED BY <1>1

\* A failed round of the price loop, whether or not its announcement is
\* published.
LEMMA PricesFailKeeps == ASSUME FeedInv, NEW d \in BOOLEAN, PricesFail(d) PROVE FeedInv'
<1> DEFINE n == OneMore(ltpErrors)
<1>1. /\ upProc = "run" /\ upProc' = "run" /\ ltpErrors' = n
      /\ upStatus' = IF PowerOfTwo(n) /\ d THEN DisconnectedMsg(n) ELSE upStatus
      /\ upMissed' = IF PowerOfTwo(n) THEN ~d ELSE upMissed
  BY DEF PricesFail, LtpFailure, AnnounceFailure, Announce
<1>2. ltpErrors \in Nat /\ n \in Nat /\ (n = ltpErrors \/ n = ltpErrors + 1)
  BY DEF FeedInv, OneMore
<1>3. AnnouncedState BY DEF FeedInv
<1> HIDE DEF n
<1>4. ~PowerOfTwo(0) BY DEF PowerOfTwo
<1>5. PowerOfTwo(1) BY DEF PowerOfTwo
<1>6. CASE PowerOfTwo(n) /\ ~d
  <2>1. upMissed' /\ upStatus' = upStatus BY <1>1, <1>6
  <2> QED BY <1>1, <1>2, <2>1 DEF FeedInv, AnnouncedState
<1>7. CASE PowerOfTwo(n) /\ d
  <2>1. upStatus' = DisconnectedMsg(n) BY <1>1, <1>7
  <2>2. n # 0 BY <1>4, <1>7
  <2>3. /\ upStatus'.status = "disconnected" /\ upStatus'.attempt = n
        /\ upStatus'.cockpit = IF n > DownAfter THEN "down" ELSE "degraded"
    BY <2>1 DEF DisconnectedMsg
  <2>4. n <= n /\ n < 2 * n BY <1>2, <2>2
  <2> QED BY <1>1, <1>2, <1>7, <2>2, <2>3, <2>4 DEF FeedInv, AnnouncedState
<1>8. CASE ~PowerOfTwo(n)
  <2>1. upStatus' = upStatus /\ upMissed' = upMissed BY <1>1, <1>8
  <2>2. CASE upMissed BY <1>1, <1>2, <2>1, <2>2 DEF FeedInv, AnnouncedState
  <2>3. CASE ~upMissed /\ ltpErrors = 0
    <3>1. n = 0 BY <1>2, <1>5, <1>8, <2>3
    <3> QED BY <1>1, <1>2, <1>3, <2>1, <2>3, <3>1 DEF FeedInv, AnnouncedState
  <2>4. CASE ~upMissed /\ ltpErrors # 0
    <3> DEFINE a == upStatus.attempt
    <3>1. /\ upStatus.status = "disconnected" /\ PowerOfTwo(a) /\ a <= ltpErrors
          /\ ltpErrors < 2 * a /\ (upStatus.cockpit = "down" <=> a > DownAfter)
      BY <1>1, <1>3, <2>4 DEF AnnouncedState
    <3>2. a \in Nat BY <3>1 DEF FeedInv
    <3> HIDE DEF a
    <3>3. a <= n /\ n < 2 * a /\ n # 0
      BY <1>2, <1>8, <2>4, <3>1, <3>2, BelowNextPower
    <3>4. upStatus'.attempt = a BY <2>1 DEF a
    <3> QED BY <1>1, <1>2, <2>1, <3>1, <3>3, <3>4 DEF FeedInv, AnnouncedState
  <2> QED BY <2>2, <2>3, <2>4
<1> QED BY <1>6, <1>7, <1>8

\* Every step keeps the announcement and the error count together.
LEMMA FeedNext == ASSUME FeedInv, [UpNext]_upVars PROVE FeedInv'
<1>1. ASSUME UNCHANGED <<upProc, ltpErrors, upStatus, upMissed>> PROVE FeedInv'
  BY <1>1 DEF FeedInv, AnnouncedState
<1>2. ASSUME NEW d \in BOOLEAN, NEW ok \in BOOLEAN, Probe(ok, d) PROVE FeedInv'
  BY <1>2 DEF Probe, Announce, FeedInv, AnnouncedState, ConnectedMsg, DisconnectedMsg
<1>3. ASSUME NEW d \in BOOLEAN, LoopExits(d) PROVE FeedInv'
  BY <1>3 DEF LoopExits, Announce, FeedInv, AnnouncedState, DisconnectedMsg
<1>4. ASSUME NEW d \in BOOLEAN, NEW got \in SUBSET Instruments, PollPrices(got, d) PROVE FeedInv'
  <2>1. /\ upProc = "run" /\ upProc' = "run" /\ ltpErrors' = 0
        /\ upStatus' = IF ltpErrors > 0 /\ d THEN ConnectedMsg ELSE upStatus
        /\ upMissed' = IF ltpErrors > 0 THEN ~d ELSE upMissed
    BY <1>4 DEF PollPrices, Announce
  <2>2. ltpErrors \in Nat /\ AnnouncedState BY DEF FeedInv
  <2>3. ltpErrors = 0 /\ ~upMissed => upStatus = ConnectedMsg BY <2>1, <2>2 DEF AnnouncedState
  <2>4. ~upMissed' => upStatus' = ConnectedMsg
    <3>1. CASE ltpErrors = 0 BY <2>1, <2>3, <3>1
    <3>2. CASE ltpErrors > 0 /\ d BY <2>1, <3>2
    <3>3. CASE ltpErrors > 0 /\ ~d BY <2>1, <3>3
    <3> QED BY <2>2, <3>1, <3>2, <3>3
  <2>5. upStatus' = upStatus \/ upStatus' = ConnectedMsg BY <2>1
  <2> QED BY <2>1, <2>4, <2>5 DEF FeedInv, AnnouncedState, ConnectedMsg
<1>5. ASSUME \/ ResolveFails \/ ChainFails \/ NextDay
             \/ \E got \in SUBSET Instruments : PollBooks(got)
             \/ \E listed \in SUBSET Expiries : ResolveExpiry(listed)
             \/ \E strikes \in SUBSET Strikes, spot \in Spots : ChainArrives(strikes, spot)
      PROVE  FeedInv'
  BY <1>1, <1>5 DEF ResolveFails, ChainFails, NextDay, PollBooks, ResolveExpiry, ChainArrives
<1>6. CASE UNCHANGED upVars BY <1>1, <1>6 DEF upVars
<1> QED BY <1>2, <1>3, <1>4, <1>5, <1>6, PricesFailKeeps DEF UpNext

\* Unless the last publish on md.connection.upstox failed, the subject tells
\* what the price loop is doing: a failing feed is announced as disconnected,
\* with the largest power of two its error count has reached, and one that
\* answers as connected, whichever earlier publishes were lost (run_ltp_loop).
THEOREM AnnouncementIsTrue == UpSpec => []AnnouncedState
<1>1. UpInit => FeedInv BY DEF UpInit, FeedInv, AnnouncedState, Silent
<1>2. FeedInv /\ [UpNext]_upVars => FeedInv' BY FeedNext
<1>3. FeedInv => AnnouncedState BY DEF FeedInv
<1> QED BY <1>1, <1>2, <1>3, PTL DEF UpSpec
-----------------------------------------------------------------------------
(* The recorder and the player of a session (hedge-replay). *)

RecordSet == [seq : Nat, ns : Nat, kind : Kinds, size : FrameSizes]
SegmentSet == [frames : Seq(RecordSet), torn : BOOLEAN]
RecorderSet == [up : BOOLEAN, next : Nat, pending : RecordSet \cup {NoRecord}]

\* The frames of the segments, as the equation their iteration solves.
FramesBy(d, f) ==
    f = [i \in 0 .. Len(d) |-> IF i = 0 THEN <<>> ELSE f[i - 1] \o d[i].frames]

\* Reading a directory appends the frames of one segment after the other.
LEMMA FramesSteps ==
    ASSUME NEW d \in Seq(SegmentSet)
    PROVE  \E f : /\ FramesOf(d) = f[Len(d)] /\ f[0] = <<>>
                  /\ \A i \in 0..Len(d) : f[i] \in Seq(RecordSet)
                  /\ \A i \in 1..Len(d) : f[i] = f[i - 1] \o d[i].frames
<1> DEFINE n == Len(d)
           V == Seq(RecordSet)
           op == [p \in (1..n) \X V |-> p[2] \o d[p[1]].frames]
           c == CHOOSE f : FramesBy(d, f)
<1>1. FramesOf(d) = c[n] BY DEF FramesOf, FramesBy
<1>2. n \in Nat OBVIOUS
<1>3. ASSUME NEW i \in 1..n PROVE d[i].frames \in V
  <2>1. d[i] \in SegmentSet OBVIOUS
  <2> QED BY <2>1 DEF SegmentSet
<1>4. ASSUME NEW v \in V, NEW i \in 1..n PROVE v \o d[i].frames \in V BY <1>3, ConcatProperties
<1>5. <<>> \in V OBVIOUS
<1> HIDE DEF n, V
<1>6. op \in [(1..n) \X V -> V] BY <1>4
<1>7. NumberSteps(n, V, <<>>, op)
  <2> HIDE DEF op
  <2> QED BY <1>2, <1>5, <1>6 DEF NumberSteps
<1>8. PICK f : NumberSolution(n, V, <<>>, op, f) BY <1>7, NumberRecursion
<1>9. FramesBy(d, f)
  <2>1. f \in [0..n -> V] /\ f[0] = <<>> BY <1>8 DEF NumberSolution
  <2>2. ASSUME NEW i \in 1..n PROVE f[i] = f[i - 1] \o d[i].frames
    <3>1. f[i] = op[<<i, f[i - 1]>>] BY <1>8 DEF NumberSolution
    <3>2. i - 1 \in 0..n BY <1>2
    <3>3. <<i, f[i - 1]>> \in (1..n) \X V BY <2>1, <3>2
    <3> QED BY <3>1, <3>3
  <2>3. \A i \in 0..n : i = 0 \/ i \in 1..n BY <1>2
  <2>4. f = [i \in 0..n |-> IF i = 0 THEN <<>> ELSE f[i - 1] \o d[i].frames] BY <2>1, <2>2, <2>3
  <2> QED BY <2>4 DEF FramesBy, n
<1>10. FramesBy(d, c) BY <1>9
<1> HIDE DEF c
<1>11. \A i \in 0..n : c[i] = IF i = 0 THEN <<>> ELSE c[i - 1] \o d[i].frames BY <1>10 DEF FramesBy, n
<1>12. c[0] = <<>> BY <1>2, <1>11
<1>13. \A i \in 1..n : i \in 0..n /\ i # 0 BY <1>2
<1>14. \A i \in 1..n : c[i] = c[i - 1] \o d[i].frames BY <1>11, <1>13
<1> DEFINE T == {i \in 0..n : c[i] \in V}
<1>15. 0 \in T BY <1>2, <1>5, <1>12
<1>16. ASSUME NEW i \in 0..n, i \in T, i < n PROVE i + 1 \in T
  <2>1. i + 1 \in 1..n /\ i + 1 \in 0..n /\ (i + 1) - 1 = i BY <1>2, <1>16
  <2>2. c[i + 1] = c[i] \o d[i + 1].frames BY <1>14, <2>1
  <2>3. c[i] \in V BY <1>16
  <2>4. c[i + 1] \in V BY <1>4, <2>1, <2>2, <2>3
  <2> QED BY <2>1, <2>4
<1>17. 0..n \subseteq T
  <2> HIDE DEF T
  <2> QED BY <1>2, <1>15, <1>16, NumberInduction
<1>18. \A i \in 0..n : c[i] \in V BY <1>17
<1> HIDE DEF T
<1> QED BY <1>1, <1>12, <1>14, <1>18 DEF n, V

\* So it gives a sequence of records.
LEMMA ReadsRecords == ASSUME NEW d \in Seq(SegmentSet) PROVE ReadAll(d) \in Seq(RecordSet)
<1>1. PICK f : FramesOf(d) = f[Len(d)] /\ \A i \in 0..Len(d) : f[i] \in Seq(RecordSet) BY FramesSteps
<1>2. Len(d) \in 0..Len(d) OBVIOUS
<1> QED BY <1>1, <1>2 DEF ReadAll

\* The recorder writes records into segments.
DiskTypes ==
    /\ segments \in Seq(SegmentSet) /\ buffer \in Seq(RecordSet) /\ quantum \in Nat
    /\ recorder \in RecorderSet

\* A paced stream has released the records that end at the cursor.
PlayerInv ==
    /\ player \in [open : BOOLEAN, records : Seq(RecordSet), cursor : Nat]
    /\ player.cursor <= Len(player.records)
    /\ pacing = [on |-> pacing.on, div |-> pacing.div, sleep |-> pacing.sleep, last |-> pacing.last]
    /\ released \in Seq(RecordSet)
    /\ pacing.on =>
          /\ Len(released) <= player.cursor
          /\ \A i \in 1..Len(released) :
                released[i] = player.records[player.cursor - Len(released) + i]

\* Replacing the last element of a sequence, if it has one, gives a sequence.
LEMMA LastReplaced ==
    ASSUME NEW S, NEW d \in Seq(S), NEW s, d # <<>> => s \in S
    PROVE  [d EXCEPT ![Len(d)] = s] \in Seq(S)
<1> DEFINE n == Len(d)
<1>1. n \in Nat /\ d \in [1..n -> S] /\ (d # <<>> => n \in 1..n) /\ (d = <<>> => n = 0)
  BY LenProperties
<1>2. CASE d # <<>> BY <1>1, <1>2, ExceptSeq
<1>3. CASE d = <<>>
  <2>1. n = 0 /\ 1..n = {} BY <1>1, <1>3
  <2>2. [d EXCEPT ![n] = s] \in [1..n -> S] BY <1>1, <2>1
  <2> HIDE DEF n
  <2>3. [d EXCEPT ![n] = s] \in Seq(S) BY <1>1, <2>2, SeqDef
  <2> QED BY <2>3 DEF n
<1> QED BY <1>2, <1>3

\* Directories that agree on all segments but the last have the same frames
\* before it.
LEMMA FramesShared ==
    ASSUME NEW d \in Seq(SegmentSet), NEW e \in Seq(SegmentSet), NEW m \in Nat,
           Len(e) = m + 1, Len(d) \in {m, m + 1}, \A i \in 1..m : d[i] = e[i]
    PROVE  \E p \in Seq(RecordSet) :
              /\ FramesOf(e) = p \o e[m + 1].frames
              /\ Len(d) = m => FramesOf(d) = p
              /\ Len(d) = m + 1 => FramesOf(d) = p \o d[m + 1].frames
<1>1. PICK f : /\ FramesOf(d) = f[Len(d)] /\ f[0] = <<>>
               /\ \A i \in 0..Len(d) : f[i] \in Seq(RecordSet)
               /\ \A i \in 1..Len(d) : f[i] = f[i - 1] \o d[i].frames
  BY FramesSteps
<1>2. PICK g : /\ FramesOf(e) = g[Len(e)] /\ g[0] = <<>>
               /\ \A i \in 0..Len(e) : g[i] \in Seq(RecordSet)
               /\ \A i \in 1..Len(e) : g[i] = g[i - 1] \o e[i].frames
  BY FramesSteps
<1> DEFINE T == {i \in 0..m : f[i] = g[i]}
<1>3. 0 \in T BY <1>1, <1>2
<1>4. ASSUME NEW i \in 0..m, i \in T, i < m PROVE i + 1 \in T
  <2>1. i + 1 \in 1..m /\ i + 1 \in 0..m /\ (i + 1) - 1 = i BY <1>4
  <2>2. i + 1 \in 1..Len(d) /\ i + 1 \in 1..Len(e) BY <2>1
  <2>3. f[i + 1] = f[i] \o d[i + 1].frames BY <1>1, <2>1, <2>2
  <2>4. g[i + 1] = g[i] \o e[i + 1].frames BY <1>2, <2>1, <2>2
  <2>5. f[i] = g[i] /\ d[i + 1] = e[i + 1] BY <1>4, <2>1
  <2> QED BY <2>1, <2>3, <2>4, <2>5
<1>5. 0..m \subseteq T
  <2> HIDE DEF T
  <2> QED BY <1>3, <1>4, NumberInduction
<1>6. f[m] = g[m] BY <1>5
<1>7. m \in 0..Len(d) /\ m + 1 \in 1..Len(e) /\ (m + 1) - 1 = m OBVIOUS
<1>8. f[m] \in Seq(RecordSet) BY <1>1, <1>7
<1>9. FramesOf(e) = f[m] \o e[m + 1].frames BY <1>2, <1>6, <1>7
<1>10. ASSUME Len(d) = m + 1 PROVE FramesOf(d) = f[m] \o d[m + 1].frames
  <2>1. m + 1 \in 1..Len(d) BY <1>10
  <2> QED BY <1>1, <1>7, <1>10, <2>1
<1> QED BY <1>1, <1>8, <1>9, <1>10

\* No segment, no frame.
LEMMA FramesNone == FramesOf(<<>>) = <<>>
<1>1. <<>> \in Seq(SegmentSet) /\ Len(<<>>) = 0 OBVIOUS
<1>2. PICK f : FramesOf(<<>>) = f[Len(<<>>)] /\ f[0] = <<>> BY <1>1, FramesSteps
<1> QED BY <1>1, <1>2

\* Creating a segment adds no frame.
LEMMA FramesCreate ==
    ASSUME NEW d \in Seq(SegmentSet), NEW s \in SegmentSet, s.frames = <<>>
    PROVE  FramesOf(Append(d, s)) = FramesOf(d)
<1> DEFINE e == Append(d, s)
           m == Len(d)
<1>1. /\ e \in Seq(SegmentSet) /\ Len(e) = m + 1 /\ m \in Nat /\ e[m + 1] = s
      /\ \A i \in 1..m : d[i] = e[i]
  BY AppendProperties
<1>2. Len(d) \in {m, m + 1} /\ Len(d) = m OBVIOUS
<1> HIDE DEF e, m
<1>3. PICK p \in Seq(RecordSet) : /\ FramesOf(e) = p \o e[m + 1].frames
                                  /\ Len(d) = m => FramesOf(d) = p
  BY <1>1, <1>2, FramesShared
<1>4. p \o <<>> = p BY ConcatEmptySeq
<1>5. FramesOf(e) = FramesOf(d) BY <1>1, <1>2, <1>3, <1>4
<1> QED BY <1>5 DEF e

\* Completing the last segment appends to the frames.
LEMMA FramesComplete ==
    ASSUME NEW d \in Seq(SegmentSet), d # <<>>, NEW x \in Seq(RecordSet),
           NEW s \in SegmentSet, s.frames = d[Len(d)].frames \o x
    PROVE  /\ FramesOf([d EXCEPT ![Len(d)] = s]) = FramesOf(d) \o x
           /\ [d EXCEPT ![Len(d)] = s] # <<>>
<1> DEFINE n == Len(d)
           m == n - 1
           e == [d EXCEPT ![n] = s]
<1>1. n \in Nat /\ n \in 1..n /\ m \in Nat /\ m + 1 = n BY EmptySeq
<1>2. e \in Seq(SegmentSet) BY LastReplaced
<1>3. Len(e) = n BY <1>1, ExceptSeq
<1>4. e[n] = s /\ \A i \in 1..n : i # n => d[i] = e[i]
  <2>1. DOMAIN d = 1..n BY LenProperties
  <2> HIDE DEF n
  <2> QED BY <1>1, <2>1
<1>5. e # <<>> BY <1>1, <1>2, <1>3
<1>6. d[n] \in SegmentSet BY <1>1
<1>7. d[n].frames \in Seq(RecordSet) BY <1>6 DEF SegmentSet
<1>8. Len(d) = n OBVIOUS
<1> HIDE DEF e, n
<1>9. \A i \in 1..m : d[i] = e[i]
  <2> TAKE i \in 1..m
  <2>1. i \in 1..n /\ i # n BY <1>1
  <2> QED BY <1>4, <2>1
<1> HIDE DEF m
<1>10. Len(d) \in {m, m + 1} /\ Len(e) = m + 1 BY <1>1, <1>3, <1>8
<1>11. PICK p \in Seq(RecordSet) : /\ FramesOf(e) = p \o e[m + 1].frames
                                   /\ Len(d) = m + 1 => FramesOf(d) = p \o d[m + 1].frames
  BY <1>1, <1>2, <1>9, <1>10, FramesShared, ZenonT(60)
<1>12. FramesOf(d) = p \o d[n].frames /\ FramesOf(e) = p \o s.frames BY <1>1, <1>4, <1>8, <1>11
<1>13. (p \o d[n].frames) \o x = p \o (d[n].frames \o x)
  <2> DEFINE q == d[n].frames
  <2>1. q \in Seq(RecordSet) BY <1>7
  <2> HIDE DEF q
  <2>2. (p \o q) \o x = p \o (q \o x) BY <2>1, ConcatAssociative
  <2> QED BY <2>2 DEF q
<1>14. s.frames = d[n].frames \o x BY DEF n
<1>15. FramesOf(e) = FramesOf(d) \o x BY <1>12, <1>13, <1>14
<1> QED BY <1>5, <1>15 DEF e, n

\* Flushing keeps the segments well formed.
LEMMA FlushedTyped ==
    ASSUME DiskTypes PROVE Flushed \in Seq(SegmentSet)
<1> DEFINE n == Len(segments)
           s == [frames |-> segments[n].frames \o buffer, torn |-> FALSE]
<1>1. segments \in Seq(SegmentSet) /\ buffer \in Seq(RecordSet) BY DEF DiskTypes
<1>2. ASSUME segments # <<>> PROVE s \in SegmentSet
  <2>1. segments[n] \in SegmentSet BY <1>1, <1>2
  <2> QED BY <1>1, <2>1 DEF SegmentSet
<1> HIDE DEF s
<1>3. [segments EXCEPT ![n] = s] \in Seq(SegmentSet) BY <1>1, <1>2, LastReplaced
<1> QED BY <1>1, <1>3 DEF Flushed, s

\* So does writing a frame, however much of the buffer spills.
LEMMA WriteTyped ==
    ASSUME NEW d \in Seq(SegmentSet), NEW b \in Seq(RecordSet), NEW f \in RecordSet,
           NEW spill \in {"keep", "prefix", "all"}
    PROVE  Write(d, b, f, spill).disk \in Seq(SegmentSet) /\ Write(d, b, f, spill).buffer \in Seq(RecordSet)
<1> DEFINE n == Len(d)
           p == [frames |-> d[n].frames \o b, torn |-> TRUE]
           a == [frames |-> Append(d[n].frames \o b, f), torn |-> FALSE]
<1>1. ASSUME d # <<>> PROVE p \in SegmentSet /\ a \in SegmentSet
  <2>1. d[n] \in SegmentSet BY <1>1
  <2> QED BY <2>1 DEF SegmentSet
<1>2. <<>> \in Seq(RecordSet) /\ <<f>> \in Seq(RecordSet) /\ Append(b, f) \in Seq(RecordSet) OBVIOUS
<1> HIDE DEF p, a
<1>3. [d EXCEPT ![n] = p] \in Seq(SegmentSet) /\ [d EXCEPT ![n] = a] \in Seq(SegmentSet)
  BY <1>1, LastReplaced
<1>4. CASE spill = "keep" BY <1>2, <1>4 DEF Write, WriteFramed
<1>5. CASE spill = "prefix" BY <1>2, <1>3, <1>5 DEF Write, WriteFramed, p
<1>6. CASE spill = "all" BY <1>2, <1>3, <1>6 DEF Write, WriteFramed, a
<1> QED BY <1>4, <1>5, <1>6

\* Every step of the recorder keeps its types; the player changes none of them.
LEMMA DiskNext == ASSUME DiskTypes, [RpNext]_rpVars PROVE DiskTypes'
<1>1. ASSUME UNCHANGED <<segments, buffer, quantum, recorder>> PROVE DiskTypes'
  BY <1>1 DEF DiskTypes
<1> DEFINE Empty == <<>> \in Seq(RecordSet) /\ <<>> \in Seq(SegmentSet)
<1>e. Empty OBVIOUS
<1>r. recorder \in RecorderSet BY DEF DiskTypes
<1>2. CASE NewRecorder \/ Regenerate
  <2>1. recorder' = [up |-> TRUE, next |-> 0, pending |-> NoRecord] BY <1>2 DEF NewRecorder, Regenerate
  <2>2. recorder' \in RecorderSet BY <2>1 DEF RecorderSet
  <2> QED BY <1>2, <1>e, <2>2 DEF NewRecorder, Regenerate, DiskTypes
<1>3. CASE Xadd \/ XaddFails
  <2>1. UNCHANGED <<segments, buffer, quantum>> BY <1>3 DEF Xadd, XaddFails
  <2>2. \/ recorder' = [recorder EXCEPT !.pending = NoRecord, !.next = @ + 1]
        \/ recorder' = [recorder EXCEPT !.pending = NoRecord]
    BY <1>3 DEF Xadd, XaddFails
  <2>3. ASSUME recorder' = [recorder EXCEPT !.pending = NoRecord, !.next = @ + 1]
        PROVE  recorder' \in RecorderSet
    <3>1. recorder.next + 1 \in Nat BY <1>r DEF RecorderSet
    <3>2. recorder' = [up |-> recorder.up, next |-> recorder.next + 1, pending |-> NoRecord]
      BY <1>r, <2>3 DEF RecorderSet
    <3> QED BY <1>r, <3>1, <3>2 DEF RecorderSet
  <2>4. ASSUME recorder' = [recorder EXCEPT !.pending = NoRecord] PROVE recorder' \in RecorderSet
    BY <1>r, <2>4 DEF RecorderSet
  <2> QED BY <2>1, <2>2, <2>3, <2>4 DEF DiskTypes
<1>4. CASE FlushRecorder
  BY <1>4, FlushedTyped DEF FlushRecorder, DiskTypes
<1>5. CASE DropRecorder
  <2>1. /\ segments' = Flushed /\ buffer' = <<>> /\ quantum' = quantum
        /\ recorder' = [recorder EXCEPT !.up = FALSE]
    BY <1>5 DEF DropRecorder
  <2>2. recorder' \in RecorderSet BY <1>r, <2>1 DEF RecorderSet
  <2> QED BY <1>e, <2>1, <2>2, FlushedTyped DEF DiskTypes
<1>6. CASE CrashRecorder
  <2>1. /\ UNCHANGED <<segments, quantum>> /\ buffer' = <<>>
        /\ recorder' = [recorder EXCEPT !.up = FALSE, !.pending = NoRecord]
    BY <1>6 DEF CrashRecorder
  <2>2. recorder' \in RecorderSet BY <1>r, <2>1 DEF RecorderSet
  <2> QED BY <1>e, <2>1, <2>2 DEF DiskTypes
<1>7. ASSUME NEW size \in FrameSizes, AppendFails(size) PROVE DiskTypes'
  BY <1>7, FlushedTyped DEF AppendFails, DiskTypes
<1>8. ASSUME NEW size \in FrameSizes, NEW kind \in Kinds, NEW gap \in Gaps,
             NEW spill \in {"keep", "prefix", "all"}, AppendRecord(kind, size, gap, spill)
      PROVE  DiskTypes'
  <2> DEFINE f == Frame(kind, size, gap)
             d == IF Opens(size) THEN Append(Flushed, [frames |-> <<>>, torn |-> FALSE]) ELSE segments
             b == IF Opens(size) THEN <<>> ELSE buffer
             w == Write(d, b, f, spill)
  <2>1. /\ segments' = w.disk /\ buffer' = w.buffer /\ quantum' = quantum + gap
        /\ recorder' = IF RedisAttached THEN [recorder EXCEPT !.pending = f]
                       ELSE [recorder EXCEPT !.next = @ + 1]
    BY <1>8 DEF AppendRecord
  <2>2. gap \in Nat BY ReplayAssumption
  <2>3. f \in RecordSet BY <2>2 DEF Frame, RecordSet, RecorderSet, DiskTypes
  <2>4. <<>> \in Seq(RecordSet) OBVIOUS
  <2>5. [frames |-> <<>>, torn |-> FALSE] \in SegmentSet BY <2>4 DEF SegmentSet
  <2>6. d \in Seq(SegmentSet) BY <2>5, FlushedTyped DEF DiskTypes
  <2>7. b \in Seq(RecordSet) BY <2>4 DEF DiskTypes
  <2> HIDE DEF f, d, b
  <2>8. w.disk \in Seq(SegmentSet) /\ w.buffer \in Seq(RecordSet) BY <2>3, <2>6, <2>7, WriteTyped
  <2> HIDE DEF w
  <2>9. recorder' \in RecorderSet BY <1>r, <2>1, <2>3 DEF RecorderSet
  <2>10. quantum' \in Nat BY <2>1, <2>2 DEF DiskTypes
  <2> QED BY <2>1, <2>8, <2>9, <2>10 DEF DiskTypes
<1>9. ASSUME UNCHANGED recVars PROVE DiskTypes' BY <1>1, <1>9 DEF recVars
<1>10. CASE \/ Open \/ ClosePlayer \/ Step \/ Release \/ Elapse \/ EndPlay \/ PlayOnce \/ DiffStreams
            \/ \E target \in 0 .. MaxAppends : Seek(target)
            \/ \E div \in Divisors : Play(div)
  BY <1>9, <1>10 DEF Open, ClosePlayer, Step, Release, ReleaseStep, Elapse, EndPlay, PlayOnce,
     DiffStreams, Seek, Play
<1>11. CASE UNCHANGED rpVars BY <1>9, <1>11 DEF rpVars
<1> QED BY <1>2, <1>3, <1>4, <1>5, <1>6, <1>7, <1>8, <1>10, <1>11 DEF RpNext

\* Appending to a concatenation appends to its second part.
LEMMA AppendLater ==
    ASSUME NEW a \in Seq(RecordSet), NEW b \in Seq(RecordSet), NEW f \in RecordSet
    PROVE  Append(a \o b, f) = a \o Append(b, f) /\ Append(a \o b, f) = (a \o b) \o <<f>>
<1>1. a \o b \in Seq(RecordSet) /\ <<f>> \in Seq(RecordSet) BY ConcatProperties
<1>2. Append(b, f) = b \o <<f>> BY AppendIsConcat
<1>3. Append(a \o b, f) = (a \o b) \o <<f>> BY <1>1, AppendIsConcat
<1>4. (a \o b) \o <<f>> = a \o (b \o <<f>>) BY <1>1, ConcatAssociative
<1> QED BY <1>2, <1>3, <1>4

\* A flush moves the buffer behind the frames on disk and loses nothing.
LEMMA FlushedFrames ==
    ASSUME DiskTypes, buffer # <<>> => segments # <<>>
    PROVE  /\ FramesOf(Flushed) = FramesOf(segments) \o buffer
           /\ segments # <<>> => Flushed # <<>>
<1>1. segments \in Seq(SegmentSet) /\ buffer \in Seq(RecordSet) BY DEF DiskTypes
<1>2. CASE buffer = <<>>
  <2>1. FramesOf(segments) \in Seq(RecordSet) BY <1>1, ReadsRecords DEF ReadAll
  <2>2. FramesOf(segments) \o <<>> = FramesOf(segments) BY <2>1, ConcatEmptySeq
  <2> QED BY <1>2, <2>2 DEF Flushed
<1>3. CASE buffer # <<>>
  <2> DEFINE n == Len(segments)
             s == [frames |-> segments[n].frames \o buffer, torn |-> FALSE]
  <2>1. segments # <<>> BY <1>3
  <2>2. segments[n] \in SegmentSet BY <1>1, <2>1
  <2>3. s \in SegmentSet /\ s.frames = segments[n].frames \o buffer BY <1>1, <2>2 DEF SegmentSet
  <2>4. Flushed = [segments EXCEPT ![n] = s] BY <1>3 DEF Flushed
  <2> HIDE DEF s
  <2>5. /\ FramesOf([segments EXCEPT ![n] = s]) = FramesOf(segments) \o buffer
        /\ [segments EXCEPT ![n] = s] # <<>>
    BY <1>1, <2>1, <2>3, FramesComplete
  <2> QED BY <2>4, <2>5
<1> QED BY <1>2, <1>3

\* Writing a frame puts it behind the frames on disk and in the buffer,
\* however much of the buffer spills, and takes nothing off the disk.
LEMMA WriteFrames ==
    ASSUME NEW d \in Seq(SegmentSet), d # <<>>, NEW b \in Seq(RecordSet), NEW f \in RecordSet,
           NEW spill \in {"keep", "prefix", "all"}
    PROVE  LET w == Write(d, b, f, spill)
           IN  /\ FramesOf(w.disk) \o w.buffer = Append(FramesOf(d) \o b, f)
               /\ w.disk # <<>> /\ Len(FramesOf(d)) <= Len(FramesOf(w.disk))
<1> DEFINE n == Len(d)
           p == [frames |-> d[n].frames \o b, torn |-> TRUE]
           a == [frames |-> Append(d[n].frames \o b, f), torn |-> FALSE]
           F == FramesOf(d)
           w == Write(d, b, f, spill)
<1>1. d[n] \in SegmentSet OBVIOUS
<1>2. d[n].frames \in Seq(RecordSet) BY <1>1 DEF SegmentSet
<1>3. p \in SegmentSet /\ p.frames = d[n].frames \o b BY <1>2 DEF SegmentSet
<1>4. a \in SegmentSet /\ a.frames = Append(d[n].frames \o b, f) BY <1>2 DEF SegmentSet
<1>5. F \in Seq(RecordSet) BY ReadsRecords DEF ReadAll
<1>6. <<f>> \in Seq(RecordSet) /\ Append(b, f) \in Seq(RecordSet) OBVIOUS
<1>7. a.frames = d[n].frames \o Append(b, f)
  <2> DEFINE q == d[n].frames
  <2>1. q \in Seq(RecordSet) BY <1>2
  <2> HIDE DEF q
  <2>2. Append(q \o b, f) = q \o Append(b, f) BY <2>1, AppendLater
  <2> QED BY <1>4, <2>2 DEF q
<1> HIDE DEF p, a, F
<1>8. Append(F \o b, f) = F \o Append(b, f) /\ Append(F \o b, f) = (F \o b) \o <<f>> BY <1>5, AppendLater
<1>9. CASE spill = "keep"
  <2>1. w.disk = d /\ w.buffer = Append(b, f) BY <1>9 DEF Write, WriteFramed
  <2> HIDE DEF w
  <2>2. Len(F) <= Len(F) BY <1>5
  <2>3. FramesOf(w.disk) = F BY <2>1 DEF F
  <2>4. /\ FramesOf(w.disk) \o w.buffer = Append(F \o b, f)
        /\ w.disk # <<>> /\ Len(F) <= Len(FramesOf(w.disk))
    BY <1>8, <2>1, <2>2, <2>3
  <2> QED BY <2>4 DEF F, w
<1>10. CASE spill = "prefix"
  <2>1. w.disk = [d EXCEPT ![n] = p] /\ w.buffer = <<f>> BY <1>10 DEF Write, WriteFramed, p
  <2> HIDE DEF w
  <2>2. FramesOf(w.disk) = F \o b /\ w.disk # <<>> BY <1>3, <2>1, FramesComplete DEF F
  <2>3. Len(F) <= Len(F \o b) BY <1>5
  <2>4. /\ FramesOf(w.disk) \o w.buffer = Append(F \o b, f)
        /\ w.disk # <<>> /\ Len(F) <= Len(FramesOf(w.disk))
    BY <1>8, <2>1, <2>2, <2>3
  <2> QED BY <2>4 DEF F, w
<1>11. CASE spill = "all"
  <2>1. w.disk = [d EXCEPT ![n] = a] /\ w.buffer = <<>> BY <1>11 DEF Write, WriteFramed, a
  <2> HIDE DEF w
  <2>2. FramesOf(w.disk) = F \o Append(b, f) /\ w.disk # <<>>
    <3> DEFINE x == Append(b, f)
    <3>1. x \in Seq(RecordSet) /\ a.frames = d[n].frames \o x /\ a \in SegmentSet BY <1>4, <1>6, <1>7
    <3> HIDE DEF x
    <3>2. FramesOf([d EXCEPT ![n] = a]) = FramesOf(d) \o x /\ [d EXCEPT ![n] = a] # <<>>
      BY <3>1, FramesComplete
    <3> QED BY <2>1, <3>2 DEF F, x
  <2>3. F \o Append(b, f) \in Seq(RecordSet) /\ Len(F) <= Len(F \o Append(b, f)) BY <1>5, <1>6
  <2>4. (F \o Append(b, f)) \o <<>> = F \o Append(b, f) BY <2>3, ConcatEmptySeq
  <2>5. /\ FramesOf(w.disk) \o w.buffer = Append(F \o b, f)
        /\ w.disk # <<>> /\ Len(F) <= Len(FramesOf(w.disk))
    BY <1>8, <2>1, <2>2, <2>3, <2>4
  <2> QED BY <2>5 DEF F, w
<1> QED BY <1>9, <1>10, <1>11

\* A paced stream releases the record at the cursor.
LEMMA ReleaseKeeps == ASSUME PlayerInv, Release PROVE PlayerInv'
<1> DEFINE q == player.records
           c == player.cursor
           k == Len(released)
           x == q[c + 1]
<1>1. /\ pacing.on /\ c < Len(q) /\ released' = Append(released, x)
      /\ pacing' = [pacing EXCEPT !.sleep = Delay(x), !.last = x.ns]
      /\ player' = [player EXCEPT !.cursor = @ + 1]
  <2>1. c \in Nat /\ Len(q) \in Nat BY DEF PlayerInv
  <2> QED BY <2>1 DEF Release, ReleaseStep, AtEnd
<1>2. /\ q \in Seq(RecordSet) /\ c \in Nat /\ c <= Len(q) /\ released \in Seq(RecordSet)
      /\ k \in Nat /\ k <= c /\ \A i \in 1..k : released[i] = q[c - k + i]
  BY <1>1 DEF PlayerInv
<1>3. /\ player' \in [open : BOOLEAN, records : Seq(RecordSet), cursor : Nat]
      /\ player'.records = q /\ player'.cursor = c + 1
  BY <1>1 DEF PlayerInv
<1>4. /\ pacing'.on
      /\ pacing' = [on |-> pacing'.on, div |-> pacing'.div, sleep |-> pacing'.sleep, last |-> pacing'.last]
  <2>1. pacing = [on |-> pacing.on, div |-> pacing.div, sleep |-> pacing.sleep, last |-> pacing.last]
    BY DEF PlayerInv
  <2>2. pacing' = [on |-> pacing.on, div |-> pacing.div, sleep |-> Delay(x), last |-> x.ns]
    BY <1>1, <2>1
  <2> QED BY <1>1, <2>2
<1>5. c + 1 \in 1..Len(q) BY <1>1, <1>2
<1>6. x \in RecordSet BY <1>2, <1>5
<1> HIDE DEF x
<1>7. /\ released' \in Seq(RecordSet) /\ Len(released') = k + 1 /\ released'[k + 1] = x
      /\ \A i \in 1..k : released'[i] = released[i]
  BY <1>1, <1>2, <1>6, AppendProperties
<1> HIDE DEF k, c, q
<1>8. ASSUME NEW i \in 1..(k + 1) PROVE released'[i] = q[(c + 1) - (k + 1) + i]
  <2>1. CASE i = k + 1
    <3>1. (c + 1) - (k + 1) + i = c + 1 BY <1>2, <2>1
    <3> QED BY <1>7, <2>1, <3>1 DEF x
  <2>2. CASE i # k + 1
    <3>1. i \in 1..k /\ (c + 1) - (k + 1) + i = c - k + i BY <1>2, <2>2
    <3> QED BY <1>2, <1>7, <3>1
  <2> QED BY <2>1, <2>2
<1>9. k + 1 <= c + 1 /\ c + 1 <= Len(q) BY <1>2, <1>5
<1> QED BY <1>3, <1>4, <1>7, <1>8, <1>9 DEF PlayerInv

\* Every step of the player keeps the window; the recorder does not touch it.
LEMMA PlayerNext ==
    ASSUME DiskTypes, PlayerInv, [RpNext]_rpVars PROVE PlayerInv'
<1>1. ASSUME UNCHANGED <<player, pacing, released>> PROVE PlayerInv' BY <1>1 DEF PlayerInv
<1>2. CASE Open
  <2>1. /\ player' = [open |-> TRUE, records |-> ReadAll(segments), cursor |-> 0]
        /\ released' = <<>> /\ pacing' = NoPacing
    BY <1>2 DEF Open
  <2>2. ReadAll(segments) \in Seq(RecordSet) BY ReadsRecords DEF DiskTypes
  <2>3. 0 <= Len(ReadAll(segments)) BY <2>2
  <2>4. <<>> \in Seq(RecordSet) OBVIOUS
  <2> QED BY <2>1, <2>2, <2>3, <2>4 DEF NoPacing, PlayerInv
<1>3. CASE ClosePlayer
  <2>1. <<>> \in Seq(RecordSet) OBVIOUS
  <2> QED BY <1>3, <2>1 DEF ClosePlayer, NoPlayer, NoPacing, PlayerInv
<1>4. CASE Step
  <2>1. /\ ~pacing.on /\ ~AtEnd /\ player' = [player EXCEPT !.cursor = @ + 1]
        /\ UNCHANGED <<pacing, released>>
    BY <1>4 DEF Step
  <2>2. player.cursor \in Nat /\ Len(player.records) \in Nat BY DEF PlayerInv
  <2>3. player.cursor + 1 <= Len(player.records) BY <2>1, <2>2 DEF AtEnd
  <2> QED BY <2>1, <2>2, <2>3 DEF PlayerInv
<1>5. ASSUME NEW target \in 0..MaxAppends, Seek(target) PROVE PlayerInv'
  <2>1. target \in Nat BY ReplayAssumption
  <2> QED BY <1>5, <2>1 DEF Seek, PlayerInv
<1>6. ASSUME NEW div \in Divisors, Play(div) PROVE PlayerInv'
  <2>1. /\ UNCHANGED player /\ released' = <<>>
        /\ pacing' = [on |-> TRUE, div |-> div, sleep |-> 0, last |-> -1]
    BY <1>6 DEF Play
  <2>2. <<>> \in Seq(RecordSet) OBVIOUS
  <2>3. player.cursor \in Nat BY DEF PlayerInv
  <2> QED BY <2>1, <2>2, <2>3 DEF PlayerInv
<1>7. CASE Elapse
  <2>1. pacing = [on |-> pacing.on, div |-> pacing.div, sleep |-> pacing.sleep, last |-> pacing.last]
    BY DEF PlayerInv
  <2>2. /\ UNCHANGED <<player, released>>
        /\ pacing' = [on |-> pacing.on, div |-> pacing.div, sleep |-> pacing.sleep - 1, last |-> pacing.last]
    BY <1>7, <2>1 DEF Elapse
  <2> QED BY <2>2 DEF PlayerInv
<1>8. CASE EndPlay BY <1>8 DEF EndPlay, NoPacing, PlayerInv
<1>9. CASE PlayOnce \/ DiffStreams BY <1>1, <1>9 DEF PlayOnce, DiffStreams
<1>10. ASSUME UNCHANGED plyVars PROVE PlayerInv' BY <1>1, <1>10 DEF plyVars
<1>11. CASE \/ NewRecorder \/ Regenerate \/ Xadd \/ XaddFails \/ FlushRecorder \/ DropRecorder
            \/ CrashRecorder
  BY <1>10, <1>11 DEF NewRecorder, Regenerate, Xadd, XaddFails, FlushRecorder, DropRecorder,
     CrashRecorder
<1>12. ASSUME NEW size \in FrameSizes, AppendFails(size) PROVE PlayerInv'
  BY <1>10, <1>12 DEF AppendFails
<1>13. ASSUME NEW size \in FrameSizes, NEW kind \in Kinds, NEW gap \in Gaps,
              NEW spill \in {"keep", "prefix", "all"}, AppendRecord(kind, size, gap, spill)
       PROVE  PlayerInv'
  BY <1>10, <1>13 DEF AppendRecord
<1>14. CASE UNCHANGED rpVars BY <1>10, <1>14 DEF rpVars
<1> QED
  BY <1>2, <1>3, <1>4, <1>5, <1>6, <1>7, <1>8, <1>9, <1>11, <1>12, <1>13, <1>14, ReleaseKeeps DEF RpNext

\* The released records are a window of the session that ends at the cursor.
LEMMA WindowPlayed == PlayerInv => NothingSkipped
<1> SUFFICES ASSUME PlayerInv, pacing.on
             PROVE  released = SubSeq(player.records, player.cursor - Len(released) + 1, player.cursor)
  BY DEF NothingSkipped
<1> DEFINE q == player.records
           n == Len(released)
           k == player.cursor - n
<1>1. /\ q \in Seq(RecordSet) /\ released \in Seq(RecordSet) /\ player.cursor \in Nat
      /\ n \in Nat /\ n <= player.cursor /\ player.cursor <= Len(q)
      /\ \A i \in 1..n : released[i] = q[k + i]
  BY DEF PlayerInv
<1>2. k \in Nat /\ k + n = player.cursor /\ k + n <= Len(q) BY <1>1
<1> HIDE DEF k
<1>3. released = SubSeq(q, k + 1, k + n) BY <1>1, <1>2, WindowIs
<1> QED BY <1>2, <1>3 DEF k

\* A paced replay leaves nothing out, wherever it was started from and however
\* it is interrupted by sleeps: it has released exactly the records between its
\* start and the cursor (poll_next of PacedReplay).
THEOREM ReplayIsComplete == RpSpec => []NothingSkipped
<1>1. RpInit => DiskTypes /\ PlayerInv
  <2>1. <<>> \in Seq(RecordSet) /\ <<>> \in Seq(SegmentSet) OBVIOUS
  <2> SUFFICES ASSUME RpInit PROVE DiskTypes /\ PlayerInv OBVIOUS
  <2>2. recorder \in RecorderSet BY DEF RpInit, RecorderSet
  <2>3. DiskTypes BY <2>1, <2>2 DEF RpInit, DiskTypes
  <2>4. PlayerInv BY <2>1 DEF RpInit, PlayerInv, NoPlayer, NoPacing
  <2> QED BY <2>3, <2>4
<1>2. DiskTypes /\ PlayerInv /\ [RpNext]_rpVars => (DiskTypes /\ PlayerInv)'
  BY DiskNext, PlayerNext
<1> QED BY <1>1, <1>2, WindowPlayed, PTL DEF RpSpec

\* What was recorded and not lost is on disk or in the buffer, in order, and
\* what a flush counted is on disk.  Only a recorder that is up buffers, and
\* only into a segment.
RecordedInv ==
    /\ writer \in [open : BOOLEAN, idx : Nat, bytes : Nat]
    /\ written = FramesOf(segments) \o buffer
    /\ synced \in Nat /\ synced <= Len(FramesOf(segments))
    /\ writer.open \/ buffer # <<>> => segments # <<>>
    /\ ~recorder.up => buffer = <<>>

\* A flush of the buffer into segments keeps the invariant.
LEMMA FlushKeepsRecorded ==
    ASSUME DiskTypes, RecordedInv, segments' = Flushed, buffer' = <<>>, synced' = Durable(Flushed),
           written' = written, writer' \in [open : BOOLEAN, idx : Nat, bytes : Nat],
           writer'.open => segments # <<>>
    PROVE  RecordedInv'
<1>1. FramesOf(Flushed) = written /\ (segments # <<>> => Flushed # <<>>)
  BY FlushedFrames DEF RecordedInv
<1>2. FramesOf(Flushed) \in Seq(RecordSet) BY FlushedTyped, ReadsRecords DEF ReadAll
<1>3. FramesOf(Flushed) \o <<>> = FramesOf(Flushed) BY <1>2, ConcatEmptySeq
<1>4. Durable(Flushed) \in Nat /\ Durable(Flushed) <= Len(FramesOf(Flushed)) BY <1>2 DEF Durable
<1> QED BY <1>1, <1>3, <1>4 DEF RecordedInv

\* So does the record of an event, with or without a new segment.
LEMMA AppendKeepsRecorded ==
    ASSUME DiskTypes, RecordedInv, NEW size \in FrameSizes, NEW kind \in Kinds, NEW gap \in Gaps,
           NEW spill \in {"keep", "prefix", "all"}, AppendRecord(kind, size, gap, spill)
    PROVE  RecordedInv'
<1> DEFINE f == Frame(kind, size, gap)
           new == [frames |-> <<>>, torn |-> FALSE]
           d == IF Opens(size) THEN Append(Flushed, new) ELSE segments
           b == IF Opens(size) THEN <<>> ELSE buffer
           w == Write(d, b, f, spill)
<1>1. /\ segments' = w.disk /\ buffer' = w.buffer /\ written' = Append(written, f)
      /\ writer' = IF Opens(size) THEN [open |-> TRUE, idx |-> NextIdx, bytes |-> size]
                   ELSE [writer EXCEPT !.bytes = @ + size]
      /\ synced' = IF Opens(size) THEN Durable(Flushed) ELSE synced
      /\ recorder' = IF RedisAttached THEN [recorder EXCEPT !.pending = f]
                     ELSE [recorder EXCEPT !.next = @ + 1]
      /\ recorder.up
  BY DEF AppendRecord
<1>2. segments \in Seq(SegmentSet) /\ buffer \in Seq(RecordSet) /\ Flushed \in Seq(SegmentSet)
  BY FlushedTyped DEF DiskTypes
<1>3. f \in RecordSet BY ReplayAssumption DEF Frame, RecordSet, RecorderSet, DiskTypes
<1>4. <<>> \in Seq(RecordSet) OBVIOUS
<1>5. new \in SegmentSet /\ new.frames = <<>> BY <1>4 DEF SegmentSet
<1>6. recorder'.up BY <1>1 DEF DiskTypes, RecorderSet
<1>7. writer' \in [open : BOOLEAN, idx : Nat, bytes : Nat]
  <2>1. size \in Nat BY ReplayAssumption
  <2>2. writer \in [open : BOOLEAN, idx : Nat, bytes : Nat] BY DEF RecordedInv
  <2>3. NextIdx \in Nat BY <2>2 DEF NextIdx
  <2> QED BY <1>1, <2>1, <2>2, <2>3
<1>8. FramesOf(Flushed) = written BY FlushedFrames DEF RecordedInv
<1>9. FramesOf(Flushed) \in Seq(RecordSet) BY <1>2, ReadsRecords DEF ReadAll
<1>10. /\ d \in Seq(SegmentSet) /\ d # <<>> /\ b \in Seq(RecordSet)
       /\ FramesOf(d) \o b = written /\ synced' \in Nat /\ synced' <= Len(FramesOf(d))
  <2>1. CASE Opens(size)
    <3> HIDE DEF new
    <3>1. d = Append(Flushed, new) /\ b = <<>> /\ synced' = Len(FramesOf(Flushed))
      BY <1>1, <2>1 DEF Durable
    <3>2. d \in Seq(SegmentSet) /\ d # <<>> BY <1>2, <1>5, <3>1, AppendProperties
    <3>3. FramesOf(d) = FramesOf(Flushed) BY <1>2, <1>5, <3>1, FramesCreate
    <3> HIDE DEF d, b
    <3>4. FramesOf(Flushed) \o <<>> = FramesOf(Flushed) BY <1>9, ConcatEmptySeq
    <3>5. Len(FramesOf(Flushed)) \in Nat BY <1>9
    <3>6. FramesOf(d) \o b = written BY <1>8, <3>1, <3>3, <3>4
    <3>7. synced' \in Nat /\ synced' <= Len(FramesOf(d)) BY <3>1, <3>3, <3>5
    <3> QED BY <1>4, <3>1, <3>2, <3>6, <3>7
  <2>2. CASE ~Opens(size)
    <3>1. d = segments /\ b = buffer /\ synced' = synced BY <1>1, <2>2
    <3>2. writer.open BY <2>2 DEF Opens
    <3> HIDE DEF d, b
    <3> QED BY <1>2, <3>1, <3>2 DEF RecordedInv
  <2> QED BY <2>1, <2>2
<1> HIDE DEF d, b, f
<1>11. /\ FramesOf(w.disk) \o w.buffer = Append(FramesOf(d) \o b, f)
       /\ w.disk # <<>> /\ Len(FramesOf(d)) <= Len(FramesOf(w.disk))
  BY <1>3, <1>10, WriteFrames
<1>12. w.disk \in Seq(SegmentSet) BY <1>3, <1>10, WriteTyped
<1> HIDE DEF w
<1>13. FramesOf(w.disk) \in Seq(RecordSet) /\ FramesOf(d) \in Seq(RecordSet)
  BY <1>10, <1>12, ReadsRecords DEF ReadAll
<1>14. Len(FramesOf(w.disk)) \in Nat /\ Len(FramesOf(d)) \in Nat BY <1>13
<1>15. synced' <= Len(FramesOf(w.disk)) BY <1>10, <1>11, <1>14
<1>16. written' = FramesOf(segments') \o buffer' BY <1>1, <1>10, <1>11
<1>17. segments' # <<>> BY <1>1, <1>11
<1>18. synced' <= Len(FramesOf(segments')) BY <1>1, <1>15
<1> QED BY <1>6, <1>7, <1>10, <1>16, <1>17, <1>18 DEF RecordedInv

\* A crash loses the buffer and nothing else.
LEMMA CrashKeepsRecorded ==
    ASSUME DiskTypes, RecordedInv, CrashRecorder PROVE RecordedInv'
<1> DEFINE F == FramesOf(segments)
<1>1. /\ written' = SubSeq(written, 1, Len(written) - Len(buffer))
      /\ buffer' = <<>> /\ writer' = Closed /\ UNCHANGED <<segments, synced>>
  BY DEF CrashRecorder
<1>2. F \in Seq(RecordSet) /\ buffer \in Seq(RecordSet)
  BY ReadsRecords DEF DiskTypes, ReadAll
<1>3. written = F \o buffer /\ synced \in Nat /\ synced <= Len(F) BY DEF RecordedInv
<1>4. F \o <<>> = F
  <2> HIDE DEF F
  <2> QED BY <1>2, ConcatEmptySeq
<1>5. SubSeq(F \o buffer, 1, Len(F \o buffer) - Len(buffer)) = F
  <2> HIDE DEF F
  <2>1. Len(F \o buffer) - Len(buffer) = Len(F) BY <1>2
  <2>2. SubSeq(F \o buffer, 1, Len(F)) = F
    <3>1. CASE Len(F) = 0
      <4>1. SubSeq(F \o buffer, 1, 0) = <<>> BY SubSeqEmpty
      <4>2. F = <<>> BY <1>2, <3>1, EmptySeq
      <4> QED BY <3>1, <4>1, <4>2
    <3>2. CASE Len(F) # 0
      <4>1. 1 \in 1..Len(F) /\ Len(F) \in 1..Len(F) BY <1>2, <3>2
      <4>2. SubSeq(F \o buffer, 1, Len(F)) = SubSeq(F, 1, Len(F)) BY <1>2, <4>1, SubSeqOfConcat1
      <4>3. SubSeq(F, 1, Len(F)) = F BY <1>2, SubSeqFull
      <4> QED BY <4>2, <4>3
    <3> QED BY <3>1, <3>2
  <2> QED BY <2>1, <2>2
<1>6. written' = F BY <1>1, <1>3, <1>5
<1>7. FramesOf(segments') = F BY <1>1
<1> HIDE DEF F
<1>8. written' = FramesOf(segments') \o buffer' BY <1>1, <1>4, <1>6, <1>7
<1> QED BY <1>1, <1>3, <1>7, <1>8 DEF RecordedInv, Closed

\* Every step of the recorder keeps the invariant; the player changes nothing of it.
LEMMA RecordedNext == ASSUME DiskTypes, RecordedInv, [RpNext]_rpVars PROVE RecordedInv'
<1>1. ASSUME UNCHANGED <<segments, buffer, writer, written, synced>>, recorder'.up = recorder.up
      PROVE  RecordedInv'
  BY <1>1 DEF RecordedInv
<1>w. writer \in [open : BOOLEAN, idx : Nat, bytes : Nat] /\ Closed \in [open : BOOLEAN, idx : Nat, bytes : Nat]
  BY DEF RecordedInv, Closed
<1>2. CASE NewRecorder
  <2>1. /\ ~recorder.up /\ recorder'.up /\ writer' = Closed /\ buffer' = <<>>
        /\ UNCHANGED <<segments, written, synced>>
    BY <1>2 DEF NewRecorder
  <2>2. buffer = <<>> BY <2>1 DEF RecordedInv
  <2>3. ~Closed.open BY DEF Closed
  <2> QED BY <1>w, <2>1, <2>2, <2>3 DEF RecordedInv
<1>3. CASE Regenerate
  <2>1. /\ recorder'.up /\ writer' = Closed /\ buffer' = <<>> /\ segments' = <<>>
        /\ written' = <<>> /\ synced' = 0
    BY <1>3 DEF Regenerate
  <2>2. FramesOf(segments') = <<>> BY <2>1, FramesNone
  <2>3. <<>> \o <<>> = <<>> /\ Len(<<>>) = 0 OBVIOUS
  <2>4. ~Closed.open BY DEF Closed
  <2> QED BY <1>w, <2>1, <2>2, <2>3, <2>4 DEF RecordedInv
<1>4. CASE Xadd \/ XaddFails
  <2>1. UNCHANGED <<segments, buffer, writer, written, synced>> BY <1>4 DEF Xadd, XaddFails
  <2>2. recorder'.up = recorder.up BY <1>4 DEF Xadd, XaddFails, DiskTypes, RecorderSet
  <2> QED BY <1>1, <2>1, <2>2
<1>5. CASE FlushRecorder
  BY <1>w, <1>5, FlushKeepsRecorded DEF FlushRecorder, RecordedInv
<1>6. CASE DropRecorder
  <2>1. /\ segments' = Flushed /\ buffer' = <<>> /\ synced' = Durable(Flushed) /\ writer' = Closed
        /\ written' = written
    BY <1>6 DEF DropRecorder
  <2>2. ~Closed.open BY DEF Closed
  <2> QED BY <1>w, <2>1, <2>2, FlushKeepsRecorded
<1>7. ASSUME NEW size \in FrameSizes, AppendFails(size) PROVE RecordedInv'
  <2>1. /\ segments' = Flushed /\ buffer' = <<>> /\ synced' = Durable(Flushed)
        /\ writer' = [open |-> FALSE, idx |-> NextIdx, bytes |-> 0] /\ written' = written
    BY <1>7 DEF AppendFails
  <2>2. NextIdx \in Nat BY <1>w DEF NextIdx
  <2>3. writer' \in [open : BOOLEAN, idx : Nat, bytes : Nat] /\ ~writer'.open BY <2>1, <2>2
  <2> QED BY <2>1, <2>3, FlushKeepsRecorded
<1>8. ASSUME UNCHANGED recVars PROVE RecordedInv' BY <1>1, <1>8 DEF recVars
<1>9. CASE \/ Open \/ ClosePlayer \/ Step \/ Release \/ Elapse \/ EndPlay \/ PlayOnce \/ DiffStreams
           \/ \E target \in 0 .. MaxAppends : Seek(target)
           \/ \E div \in Divisors : Play(div)
  BY <1>8, <1>9 DEF Open, ClosePlayer, Step, Release, ReleaseStep, Elapse, EndPlay, PlayOnce,
     DiffStreams, Seek, Play
<1>10. CASE UNCHANGED rpVars BY <1>8, <1>10 DEF rpVars
<1> QED BY <1>2, <1>3, <1>4, <1>5, <1>6, <1>7, <1>9, <1>10, AppendKeepsRecorded, CrashKeepsRecorded
        DEF RpNext

\* Only open fills the player, with what is on disk.
LEMMA OpenReads ==
    ASSUME PlayerInv, [RpNext]_rpVars, ~player.open, player'.open
    PROVE  player'.records = FramesOf(segments)
<1>1. ASSUME player'.open = player.open PROVE FALSE BY <1>1
<1>2. CASE Open BY <1>2 DEF Open, ReadAll
<1>3. ASSUME UNCHANGED player PROVE FALSE BY <1>1, <1>3
<1>4. ASSUME UNCHANGED plyVars PROVE FALSE BY <1>3, <1>4 DEF plyVars
<1>5. CASE ClosePlayer \/ Step \/ Release BY <1>5 DEF ClosePlayer, Step, Release, ReleaseStep, NoPlayer, PlayerInv
<1>6. ASSUME NEW target \in 0..MaxAppends, Seek(target) PROVE FALSE BY <1>6 DEF Seek
<1>7. CASE Elapse \/ EndPlay \/ PlayOnce \/ DiffStreams BY <1>3, <1>7 DEF Elapse, EndPlay, PlayOnce, DiffStreams
<1>8. ASSUME NEW div \in Divisors, Play(div) PROVE FALSE BY <1>8 DEF Play
<1>9. CASE \/ NewRecorder \/ Regenerate \/ Xadd \/ XaddFails \/ FlushRecorder \/ DropRecorder
           \/ CrashRecorder
  BY <1>4, <1>9 DEF NewRecorder, Regenerate, Xadd, XaddFails, FlushRecorder, DropRecorder,
     CrashRecorder
<1>10. ASSUME NEW size \in FrameSizes, AppendFails(size) PROVE FALSE BY <1>4, <1>10 DEF AppendFails
<1>11. ASSUME NEW size \in FrameSizes, NEW kind \in Kinds, NEW gap \in Gaps,
              NEW spill \in {"keep", "prefix", "all"}, AppendRecord(kind, size, gap, spill)
       PROVE  FALSE
  BY <1>4, <1>11 DEF AppendRecord
<1>12. CASE UNCHANGED rpVars BY <1>4, <1>12 DEF rpVars
<1> QED BY <1>2, <1>5, <1>6, <1>7, <1>8, <1>9, <1>10, <1>11, <1>12 DEF RpNext

\* What is on disk is a prefix of what was recorded and holds all that was flushed.
LEMMA DiskIsPrefix ==
    ASSUME DiskTypes, RecordedInv
    PROVE  IsPrefix(FramesOf(segments), written) /\ Len(FramesOf(segments)) >= synced
<1> DEFINE F == FramesOf(segments)
<1>1. F \in Seq(RecordSet) /\ buffer \in Seq(RecordSet)
  BY ReadsRecords DEF DiskTypes, ReadAll
<1>2. written = F \o buffer /\ synced \in Nat /\ synced <= Len(F) BY DEF RecordedInv
<1> HIDE DEF F
<1>3. Len(F) <= Len(F \o buffer) /\ Len(F) \in Nat BY <1>1
<1>4. SubSeq(F \o buffer, 1, Len(F)) = SubSeq(F, 1, Len(F))
  <2>1. CASE Len(F) = 0
    <3>1. SubSeq(F \o buffer, 1, 0) = <<>> /\ SubSeq(F, 1, 0) = <<>> BY SubSeqEmpty
    <3> QED BY <2>1, <3>1
  <2>2. CASE Len(F) # 0
    <3>1. 1 \in 1..Len(F) /\ Len(F) \in 1..Len(F) BY <1>1, <2>2
    <3> QED BY <1>1, <3>1, SubSeqOfConcat1
  <2> QED BY <2>1, <2>2
<1>5. IsPrefix(F, written) BY <1>2, <1>3, <1>4 DEF IsPrefix
<1>6. Len(F) >= synced BY <1>2, <1>3
<1> QED BY <1>5, <1>6 DEF F

RecordingInv == DiskTypes /\ PlayerInv /\ RecordedInv

\* A session starts with nothing recorded.
LEMMA RecordingInit == RpInit => RecordingInv
<1> SUFFICES ASSUME RpInit PROVE RecordingInv OBVIOUS
<1>1. <<>> \in Seq(RecordSet) /\ <<>> \in Seq(SegmentSet) OBVIOUS
<1>2. recorder \in RecorderSet BY DEF RpInit, RecorderSet
<1>3. DiskTypes BY <1>1, <1>2 DEF RpInit, DiskTypes
<1>4. PlayerInv BY <1>1 DEF RpInit, PlayerInv, NoPlayer, NoPacing
<1>5. segments = <<>> /\ buffer = <<>> /\ written = <<>> /\ synced = 0 /\ writer = Closed BY DEF RpInit
<1>6. FramesOf(segments) = <<>> BY <1>5, FramesNone
<1>7. <<>> \o <<>> = <<>> /\ Len(<<>>) = 0 OBVIOUS
<1>8. Closed \in [open : BOOLEAN, idx : Nat, bytes : Nat] /\ ~Closed.open BY DEF Closed
<1>9. RecordedInv BY <1>5, <1>6, <1>7, <1>8 DEF RecordedInv
<1> QED BY <1>3, <1>4, <1>9 DEF RecordingInv

\* Every step keeps the three parts.
LEMMA RecordingNext == RecordingInv /\ [RpNext]_rpVars => RecordingInv'
BY DiskNext, PlayerNext, RecordedNext DEF RecordingInv

\* What a player accepts is a prefix of what was recorded and not lost, across
\* rotations, spills of the BufWriter, crashes and the reuse of a sequence
\* number after a failed XADD, and holds every record that was flushed (append
\* of segments.rs, flush of recorder.rs, Player::open).
THEOREM PlaybackRecorded == RpSpec => PlaybackIsRecorded
<1> DEFINE Good == ~player.open /\ player'.open =>
                     IsPrefix(player'.records, written) /\ Len(player'.records) >= synced
<1>1. ASSUME RecordingInv, [RpNext]_rpVars PROVE [Good]_rpVars
  BY <1>1, OpenReads, DiskIsPrefix DEF RecordingInv
<1> QED BY <1>1, RecordingInit, RecordingNext, PTL DEF RpSpec, PlaybackIsRecorded
-----------------------------------------------------------------------------
(* The drawdown of a back-test (bin/backtest_harness.rs). *)

BtPosition == [open : BOOLEAN, side : {0, 1}, entry : Int, initial : Int, stop : Int, target : Int,
               even : BOOLEAN]
BtTrade == [buy : BOOLEAN, entry : Int, exit : Int, pnl : Int, net : Int]

\* The equation of the equity curve.
CurveOf(ts, e) == e = [i \in 0..Len(ts) |-> IF i = 0 THEN 0 ELSE e[i - 1] + ts[i].net]

\* The equity curve starts flat and moves by the net result of each trade.
LEMMA EquityCurve ==
    ASSUME NEW ts \in Seq(BtTrade)
    PROVE  /\ BtEquity(ts) \in [0..Len(ts) -> Int] /\ BtEquity(ts)[0] = 0
           /\ \A i \in 1..Len(ts) : BtEquity(ts)[i] = BtEquity(ts)[i - 1] + ts[i].net
<1> DEFINE n == Len(ts)
           op == [p \in (1..n) \X Int |-> p[2] + ts[p[1]].net]
           c == CHOOSE e : CurveOf(ts, e)
<1>1. BtEquity(ts) = c BY DEF BtEquity, CurveOf
<1>2. ASSUME NEW i \in 1..n PROVE ts[i].net \in Int
  <2>1. ts[i] \in BtTrade OBVIOUS
  <2> QED BY <2>1 DEF BtTrade
<1>3. op \in [(1..n) \X Int -> Int] BY <1>2
<1>4. n \in Nat OBVIOUS
<1>5. NumberSteps(n, Int, 0, op)
  <2> HIDE DEF n, op
  <2> QED BY <1>3, <1>4 DEF NumberSteps
<1>6. PICK f : NumberSolution(n, Int, 0, op, f) BY <1>5, NumberRecursion
<1>7. CurveOf(ts, f)
  <2>1. f \in [0..n -> Int] /\ f[0] = 0 BY <1>6 DEF NumberSolution
  <2>2. ASSUME NEW i \in 1..n PROVE f[i] = f[i - 1] + ts[i].net
    <3>1. f[i] = op[<<i, f[i - 1]>>] BY <1>6 DEF NumberSolution
    <3>2. i - 1 \in 0..n BY <1>4
    <3>3. <<i, f[i - 1]>> \in (1..n) \X Int BY <2>1, <3>2
    <3> QED BY <3>1, <3>3
  <2>3. \A i \in 0..n : i = 0 \/ i \in 1..n BY <1>4
  <2> HIDE DEF n
  <2>4. f = [i \in 0..n |-> IF i = 0 THEN 0 ELSE f[i - 1] + ts[i].net] BY <2>1, <2>2, <2>3
  <2> QED BY <2>4 DEF CurveOf, n
<1>8. CurveOf(ts, c) BY <1>7
<1> HIDE DEF c
<1>9. \A i \in 0..n : c[i] = IF i = 0 THEN 0 ELSE c[i - 1] + ts[i].net BY <1>8 DEF CurveOf
<1>10. c[0] = 0 BY <1>4, <1>9
<1>11. ASSUME NEW i \in 1..n PROVE c[i] = c[i - 1] + ts[i].net
  <2>1. i \in 0..n /\ i # 0 BY <1>4
  <2> QED BY <1>9, <2>1
<1> DEFINE T == {i \in 0..n : c[i] \in Int}
<1>12. 0 \in T BY <1>4, <1>10
<1>13. ASSUME NEW i \in 0..n, i \in T, i < n PROVE i + 1 \in T
  <2>1. i + 1 \in 1..n /\ i + 1 \in 0..n /\ (i + 1) - 1 = i BY <1>4, <1>13
  <2>2. c[i + 1] = c[i] + ts[i + 1].net BY <1>11, <2>1
  <2>3. c[i] \in Int /\ ts[i + 1].net \in Int BY <1>2, <1>13, <2>1
  <2>4. c[i + 1] \in Int BY <2>2, <2>3
  <2> QED BY <2>1, <2>4
<1>14. 0..n \subseteq T
  <2> HIDE DEF T, n
  <2> QED BY <1>4, <1>12, <1>13, NumberInduction
<1>15. c \in [0..n -> Int]
  <2>1. c = [i \in 0..n |-> c[i]] BY <1>8 DEF CurveOf
  <2>2. \A i \in 0..n : c[i] \in Int BY <1>14
  <2> HIDE DEF n, T
  <2> QED BY <2>1, <2>2
<1> QED BY <1>1, <1>10, <1>11, <1>15

\* A further trade extends the curve by one point.
LEMMA EquityExtends ==
    ASSUME NEW ts \in Seq(BtTrade), NEW t \in BtTrade
    PROVE  /\ \A i \in 0..Len(ts) : BtEquity(Append(ts, t))[i] = BtEquity(ts)[i]
           /\ BtEquity(Append(ts, t))[Len(ts) + 1] = BtEquity(ts)[Len(ts)] + t.net
<1> DEFINE us == Append(ts, t)
           n == Len(ts)
           e == BtEquity(ts)
           f == BtEquity(us)
<1>1. n \in Nat /\ us \in Seq(BtTrade) /\ Len(us) = n + 1 /\ us[n + 1] = t
      /\ \A i \in 1..n : us[i] = ts[i]
  BY AppendProperties
<1>2. e[0] = 0 /\ \A i \in 1..n : e[i] = e[i - 1] + ts[i].net BY EquityCurve
<1>3. f[0] = 0 /\ \A i \in 1..(n + 1) : f[i] = f[i - 1] + us[i].net
  <2>1. f[0] = 0 /\ \A i \in 1..Len(us) : f[i] = f[i - 1] + us[i].net BY <1>1, EquityCurve
  <2> QED BY <1>1, <2>1
<1> HIDE DEF us, n, e, f
<1> DEFINE T == {i \in 0..n : f[i] = e[i]}
<1>4. 0 \in T BY <1>1, <1>2, <1>3
<1>5. ASSUME NEW i \in 0..n, i \in T, i < n PROVE i + 1 \in T
  <2>1. i + 1 \in 1..n /\ i + 1 \in 1..(n + 1) /\ i + 1 \in 0..n /\ (i + 1) - 1 = i BY <1>1, <1>5
  <2>2. f[i + 1] = f[i] + us[i + 1].net BY <1>3, <2>1
  <2>3. e[i + 1] = e[i] + ts[i + 1].net BY <1>2, <2>1
  <2>4. f[i] = e[i] /\ us[i + 1] = ts[i + 1] BY <1>1, <1>5, <2>1
  <2> QED BY <2>1, <2>2, <2>3, <2>4
<1>6. 0..n \subseteq T
  <2> HIDE DEF T
  <2> QED BY <1>1, <1>4, <1>5, NumberInduction
<1>7. f[n] = e[n] BY <1>1, <1>6
<1>8. n + 1 \in 1..(n + 1) /\ (n + 1) - 1 = n BY <1>1
<1>9. f[n + 1] = f[n] + us[n + 1].net BY <1>3, <1>8
<1> QED BY <1>1, <1>6, <1>7, <1>9 DEF us, n, e, f

\* The running figures: the end of the curve and its highest point.
BtTypes ==
    /\ btPos \in [BtSymbols -> BtPosition] /\ btTrades \in Seq(BtTrade)
    /\ btRealized \in Int /\ btPeak \in Int /\ btMaxDd \in Int

CurveInv ==
    LET n == Len(btTrades)
        e == BtEquity(btTrades)
    IN  /\ btRealized = e[n]
        /\ \E i \in 0..n : btPeak = e[i]
        /\ \A i \in 0..n : e[i] <= btPeak

BacktestInv == BtTypes /\ CurveInv /\ DrawdownIsLargestFall

\* A harness that has closed nothing has not fallen.
LEMMA BacktestInit == ASSUME BtInit PROVE BacktestInv
<1>1. <<>> \in Seq(BtTrade) /\ Len(<<>>) = 0 OBVIOUS
<1>2. BtFlat \in BtPosition BY DEF BtFlat, BtPosition
<1>3. BtTypes BY <1>1, <1>2 DEF BtInit, BtTypes
<1>4. BtEquity(<<>>)[0] = 0 BY <1>1, EquityCurve
<1>5. btTrades = <<>> /\ btRealized = 0 /\ btPeak = 0 /\ btMaxDd = 0 BY DEF BtInit
<1>6. 0..0 = {0} OBVIOUS
<1>7. CurveInv BY <1>1, <1>4, <1>5, <1>6 DEF CurveInv
<1>8. DrawdownIsLargestFall BY <1>1, <1>4, <1>5, <1>6 DEF DrawdownIsLargestFall
<1> QED BY <1>3, <1>7, <1>8 DEF BacktestInv

\* Closing a trade moves the running figures with the curve: a new high is
\* the peak, and a new low is compared with the fall from the peak.
LEMMA CloseKeeps ==
    ASSUME BacktestInv, NEW t \in BtTrade, btTrades' = Append(btTrades, t),
           btRealized' = btRealized + t.net, UpdateDrawdown(btRealized + t.net)
    PROVE  /\ btRealized' \in Int /\ btPeak' \in Int /\ btMaxDd' \in Int
           /\ CurveInv' /\ DrawdownIsLargestFall'
<1> DEFINE n == Len(btTrades)
           e == BtEquity(btTrades)
           f == BtEquity(Append(btTrades, t))
           x == btRealized + t.net
<1>1. /\ btTrades \in Seq(BtTrade) /\ btRealized \in Int /\ btPeak \in Int /\ btMaxDd \in Int /\ n \in Nat
      /\ t.net \in Int /\ x \in Int
  BY DEF BacktestInv, BtTypes, BtTrade
<1>2. btTrades' \in Seq(BtTrade) /\ Len(btTrades') = n + 1 /\ BtEquity(btTrades') = f
  BY <1>1, AppendProperties
<1>3. /\ btRealized = e[n] /\ (\E i \in 0..n : btPeak = e[i]) /\ \A i \in 0..n : e[i] <= btPeak
      /\ \E i \in 0..n, j \in 0..n : i <= j /\ btMaxDd = e[i] - e[j]
      /\ \A i \in 0..n, j \in 0..n : i <= j => e[i] - e[j] <= btMaxDd
  BY DEF BacktestInv, CurveInv, DrawdownIsLargestFall
<1>4. (\A i \in 0..n : f[i] = e[i]) /\ f[n + 1] = e[n] + t.net BY <1>1, EquityExtends
<1>5. \A i \in 0..n : e[i] \in Int BY <1>1, EquityCurve
<1>6. /\ \A i \in 0..(n + 1) : i \in 0..n \/ i = n + 1
      /\ \A i \in 0..n : i \in 0..(n + 1) /\ i <= n + 1 /\ ~(n + 1 <= i)
      /\ n + 1 \in 0..(n + 1)
  BY <1>1
<1>7. f[n + 1] = x BY <1>3, <1>4
<1>8. IF x > btPeak THEN btPeak' = x /\ btMaxDd' = btMaxDd
      ELSE /\ btMaxDd' = IF btPeak - x > btMaxDd THEN btPeak - x ELSE btMaxDd
           /\ btPeak' = btPeak
  BY DEF UpdateDrawdown, Drawdown
<1>9. 0 <= btMaxDd
  <2>1. n \in 0..n /\ n <= n BY <1>1
  <2>2. e[n] - e[n] <= btMaxDd BY <1>3, <2>1
  <2> QED BY <1>1, <1>5, <2>1, <2>2
<1> HIDE DEF n, e, f, x
<1>10. btPeak' \in Int /\ btMaxDd' \in Int /\ btPeak <= btPeak' /\ x <= btPeak' /\ btMaxDd <= btMaxDd'
       /\ btPeak - x <= btMaxDd'
  BY <1>1, <1>8, <1>9
<1>11. (\E i \in 0..(n + 1) : btPeak' = f[i]) /\ \A i \in 0..(n + 1) : f[i] <= btPeak'
  <2>1. ASSUME NEW i \in 0..n PROVE f[i] <= btPeak'
    <3>1. f[i] = e[i] /\ e[i] \in Int /\ e[i] <= btPeak BY <1>3, <1>4, <1>5
    <3> QED BY <1>1, <1>10, <3>1
  <2>2. f[n + 1] <= btPeak' BY <1>7, <1>10
  <2>3. ASSUME btPeak' = x PROVE \E i \in 0..(n + 1) : btPeak' = f[i] BY <1>6, <1>7, <2>3
  <2>4. ASSUME btPeak' = btPeak PROVE \E i \in 0..(n + 1) : btPeak' = f[i] BY <1>3, <1>4, <1>6, <2>4
  <2> QED BY <1>6, <1>8, <2>1, <2>2, <2>3, <2>4
<1>12. ASSUME NEW i \in 0..(n + 1), NEW j \in 0..(n + 1), i <= j PROVE f[i] - f[j] <= btMaxDd'
  <2>1. CASE j \in 0..n
    <3>1. i \in 0..n BY <1>6, <1>12, <2>1
    <3>2. e[i] - e[j] <= btMaxDd /\ e[i] \in Int /\ e[j] \in Int BY <1>3, <1>5, <1>12, <2>1, <3>1
    <3>3. f[i] = e[i] /\ f[j] = e[j] BY <1>4, <2>1, <3>1
    <3> QED BY <1>1, <1>10, <3>2, <3>3
  <2>2. CASE j = n + 1 /\ i \in 0..n
    <3>1. f[i] = e[i] /\ e[i] \in Int /\ e[i] <= btPeak /\ f[j] = x BY <1>3, <1>4, <1>5, <1>7, <2>2
    <3> QED BY <1>1, <1>10, <3>1
  <2>3. CASE j = n + 1 /\ i = n + 1
    <3>1. f[i] = x /\ f[j] = x BY <1>7, <2>3
    <3> QED BY <1>1, <1>9, <1>10, <3>1
  <2> QED BY <1>6, <2>1, <2>2, <2>3
<1>13. \E i \in 0..(n + 1), j \in 0..(n + 1) : i <= j /\ btMaxDd' = f[i] - f[j]
  <2>1. CASE btMaxDd' = btMaxDd
    <3>1. PICK i \in 0..n, j \in 0..n : i <= j /\ btMaxDd = e[i] - e[j] BY <1>3
    <3>2. btMaxDd' = f[i] - f[j] /\ i \in 0..(n + 1) /\ j \in 0..(n + 1) BY <1>4, <1>6, <2>1, <3>1
    <3> QED BY <3>1, <3>2
  <2>2. CASE btMaxDd' = btPeak - x
    <3>1. PICK i \in 0..n : btPeak = e[i] BY <1>3
    <3>2. btMaxDd' = f[i] - f[n + 1] /\ i \in 0..(n + 1) /\ i <= n + 1 BY <1>4, <1>6, <1>7, <2>2, <3>1
    <3> QED BY <1>6, <3>2
  <2> QED BY <1>8, <2>1, <2>2
<1>14. btRealized' = f[n + 1] /\ btRealized' \in Int BY <1>1, <1>7 DEF x
<1>15. CurveInv' BY <1>2, <1>11, <1>14 DEF CurveInv
<1>16. DrawdownIsLargestFall' BY <1>2, <1>12, <1>13 DEF DrawdownIsLargestFall
<1> QED BY <1>10, <1>14, <1>15, <1>16

\* Managing a position leaves its entry and keeps it well formed.
LEMMA TrailedTyped ==
    ASSUME NEW p \in BtPosition, NEW ltp \in Int PROVE Trailed(p, ltp) \in BtPosition
<1> DEFINE risk == Spread(p)
           even == [p EXCEPT !.stop = p.entry, !.even = TRUE]
           half == p.entry + Multiplier(p) * ((risk + 1) \div 2)
           trail == ltp - Multiplier(p) * 2 * BtAtr
<1>1. /\ p.entry \in Int /\ p.initial \in Int /\ Multiplier(p) \in {-1, 1} /\ BtAtr \in Int
  BY BacktestAssumption DEF BtPosition, Multiplier
<1>2. risk \in Int BY <1>1 DEF Spread
<1>3. half \in Int
  <2> HIDE DEF risk
  <2>1. (risk + 1) \div 2 \in Int BY <1>2
  <2>2. \A z \in Int : 1 * z \in Int /\ (-1) * z \in Int OBVIOUS
  <2> QED BY <1>1, <2>1, <2>2
<1>4. trail \in Int BY <1>1
<1>5. \A q \in BtPosition, a \in Int : [q EXCEPT !.stop = a] \in BtPosition /\ q.stop \in Int
  BY DEF BtPosition
<1>6. \A a, b \in Int : Tighter(p, a, b) \in Int BY DEF Tighter
<1>7. even \in BtPosition BY <1>1 DEF BtPosition
<1> HIDE DEF risk, even, half, trail
<1>8. \A q \in BtPosition :
         /\ [q EXCEPT !.stop = Tighter(p, @, half)] \in BtPosition
         /\ [q EXCEPT !.stop = Tighter(p, @, trail)] \in BtPosition
  BY <1>3, <1>4, <1>5, <1>6
<1> QED BY <1>7, <1>8 DEF Trailed, even, half, trail, risk

\* So does entering one.
LEMMA EnteredTyped == ASSUME NEW ltp \in Int, NEW buy \in BOOLEAN PROVE Entered(ltp, buy) \in BtPosition
<1>1. (3 * BtAtr + 1) \div 2 \in Int /\ (9 * BtAtr + 1) \div 2 \in Int BY BacktestAssumption
<1>2. SideByte(buy) \in {0, 1} BY DEF SideByte
<1> QED BY <1>1, <1>2 DEF Entered, BtPosition

\* Every tick keeps the figures of the harness and its curve together.
LEMMA BacktestNext == ASSUME BacktestInv, [BtNext]_btVars PROVE BacktestInv'
<1>1. CASE UNCHANGED btVars
  BY <1>1 DEF btVars, BacktestInv, BtTypes, CurveInv, DrawdownIsLargestFall
<1>2. ASSUME NEW y \in BtSymbols, NEW ltp \in BtPrices, NEW day \in 0..MaxBtDay, NEW late \in BOOLEAN,
             NEW sig \in {"none", "buy", "sell"}, BtTick(y, ltp, day, late, sig)
      PROVE  BacktestInv'
  <2> DEFINE p == btPos[y]
             closes == p.open /\ Exits(p, ltp, late)
             pnl == (ltp - p.entry) * Multiplier(p) * BtQty
             net == pnl - BtCosts
             kept == IF closes THEN BtFlat ELSE IF p.open THEN Trailed(p, ltp) ELSE p
             t == [buy |-> p.side = SideByte(TRUE), entry |-> p.entry, exit |-> ltp, pnl |-> pnl, net |-> net]
  <2>1. /\ IF closes
           THEN /\ btRealized' = btRealized + net /\ UpdateDrawdown(btRealized + net)
                /\ btTrades' = Append(btTrades, t)
           ELSE UNCHANGED <<btRealized, btPeak, btMaxDd, btTrades>>
        /\ \/ btPos' = [btPos EXCEPT ![y] = Entered(ltp, sig = "buy")]
           \/ btPos' = [btPos EXCEPT ![y] = kept]
    BY <1>2 DEF BtTick
  <2>2. ltp \in Int /\ p \in BtPosition /\ btPos \in [BtSymbols -> BtPosition]
    BY BacktestAssumption DEF BacktestInv, BtTypes
  <2>3. BtFlat \in BtPosition BY DEF BtFlat, BtPosition
  <2>4. kept \in BtPosition BY <2>2, <2>3, TrailedTyped
  <2>5. Entered(ltp, sig = "buy") \in BtPosition BY <2>2, EnteredTyped
  <2>6. btPos' \in [BtSymbols -> BtPosition]
    <3> HIDE DEF kept
    <3> QED BY <2>1, <2>2, <2>4, <2>5
  <2>7. pnl \in Int /\ net \in Int
    <3>1. p.entry \in Int /\ Multiplier(p) \in Int BY <2>2 DEF BtPosition, Multiplier
    <3>2. \A a, b, c \in Int : (ltp - a) * b * c \in Int BY <2>2
    <3>3. pnl \in Int BY <3>1, <3>2, BacktestAssumption
    <3> QED BY <3>3, BacktestAssumption
  <2>8. t \in BtTrade
    <3> HIDE DEF pnl, net
    <3> QED BY <2>2, <2>7 DEF BtTrade, BtPosition
  <2>9. t.net = net OBVIOUS
  <2> HIDE DEF t, net, closes
  <2>10. CASE closes
    <3>1. btTrades' = Append(btTrades, t) /\ btRealized' = btRealized + t.net
          /\ UpdateDrawdown(btRealized + t.net)
      BY <2>1, <2>9, <2>10
    <3>2. /\ btRealized' \in Int /\ btPeak' \in Int /\ btMaxDd' \in Int
          /\ CurveInv' /\ DrawdownIsLargestFall'
      BY <2>8, <3>1, CloseKeeps
    <3>3. btTrades' \in Seq(BtTrade) BY <2>8, <3>1 DEF BacktestInv, BtTypes
    <3> QED BY <2>6, <3>2, <3>3 DEF BacktestInv, BtTypes
  <2>11. CASE ~closes
    <3>1. UNCHANGED <<btRealized, btPeak, btMaxDd, btTrades>> BY <2>1, <2>11
    <3> QED BY <2>6, <3>1 DEF BacktestInv, BtTypes, CurveInv, DrawdownIsLargestFall
  <2> QED BY <2>10, <2>11
<1> QED BY <1>1, <1>2 DEF BtNext

\* max_drawdown is the largest fall of the realised profit from an earlier level
\* to a later one, after any sequence of wins and losses (backtest_harness.rs,
\* the peak and drawdown update).
THEOREM DrawdownIsExact == BtSpec => []DrawdownIsLargestFall
<1>1. BtInit => BacktestInv BY BacktestInit
<1>2. BacktestInv /\ [BtNext]_btVars => BacktestInv' BY BacktestNext
<1>3. BacktestInv => DrawdownIsLargestFall BY DEF BacktestInv
<1> QED BY <1>1, <1>2, <1>3, PTL DEF BtSpec
-----------------------------------------------------------------------------
(* The trade counters of the Risk_Engine (hedge-risk frequency.rs). *)

\* Admissions are in the order of the clock; the rings hold the last of them.
CapsInv ==
    /\ wall \in Nat
    /\ admitted \in Seq(Nat) /\ minuteRing \in Seq(Nat) /\ hourRing \in Seq(Nat)
    /\ session \in Seq(Nat) /\ sessionRing \in Seq(Nat)
    /\ \A i \in 1..Len(admitted) :
          /\ admitted[i] <= wall
          /\ \A j \in 1..Len(admitted) : i <= j => admitted[i] <= admitted[j]
    /\ RingOf(minuteRing, admitted, MinuteSlots)
    /\ RingOf(hourRing, admitted, HourSlots)
    /\ RingOf(sessionRing, session, SessionSlots)

\* A new admission is the latest.
LEMMA RecordKeeps == ASSUME CapsInv, RecordTrade PROVE CapsInv'
<1> USE RestartAssumption
<1>1. /\ minuteRing' = PushRing(minuteRing, MinuteSlots, wall)
      /\ hourRing' = PushRing(hourRing, HourSlots, wall)
      /\ sessionRing' = PushRing(sessionRing, SessionSlots, wall)
      /\ admitted' = Append(admitted, wall) /\ session' = Append(session, wall) /\ wall' = wall
  BY DEF RecordTrade
<1>2. /\ minuteRing' \in Seq(Nat) /\ RingOf(minuteRing', admitted', MinuteSlots)
      /\ hourRing' \in Seq(Nat) /\ RingOf(hourRing', admitted', HourSlots)
  BY <1>1, RingPush DEF CapsInv, PushRing
<1>3. sessionRing' \in Seq(Nat) /\ RingOf(sessionRing', session', SessionSlots)
  BY <1>1, RingPush DEF CapsInv, PushRing
<1> DEFINE n == Len(admitted)
<1>4. /\ n \in Nat /\ Len(admitted') = n + 1 /\ admitted'[n + 1] = wall
      /\ \A i \in 1..n : admitted'[i] = admitted[i] /\ admitted[i] \in Nat
      /\ admitted' \in Seq(Nat) /\ session' \in Seq(Nat)
  BY <1>1 DEF CapsInv
<1>5. \A i \in 1..n : /\ admitted[i] <= wall
                      /\ \A j \in 1..n : i <= j => admitted[i] <= admitted[j]
  BY DEF CapsInv
<1>6. wall \in Nat BY DEF CapsInv
<1> HIDE DEF n
<1>7. ASSUME NEW i \in 1..(n + 1)
      PROVE  /\ admitted'[i] <= wall
             /\ \A j \in 1..(n + 1) : i <= j => admitted'[i] <= admitted'[j]
  <2>1. \A k \in 1..(n + 1) : k \in 1..n \/ k = n + 1 BY <1>4
  <2>2. CASE i \in 1..n BY <1>4, <1>5, <2>1, <2>2
  <2>3. CASE i = n + 1
    <3>1. \A j \in 1..(n + 1) : i <= j => j = n + 1 BY <1>4, <2>3
    <3> QED BY <1>4, <1>6, <2>3, <3>1
  <2> QED BY <2>1, <2>2, <2>3
<1> QED BY <1>1, <1>2, <1>3, <1>4, <1>6, <1>7 DEF CapsInv

\* Nothing else adds to the rings: a session reset and a restart empty rings and
\* histories together, and the clock only advances.
LEMMA CapsNext == ASSUME CapsInv, [RestartNext]_restartVars PROVE CapsInv'
<1> USE RestartAssumption
<1> DEFINE Rest == UNCHANGED <<minuteRing, hourRing, sessionRing, admitted, session>>
<1>1. CASE RecordTrade BY <1>1, RecordKeeps
<1>2. <<>> \in Seq(Nat) OBVIOUS
<1>3. \A n \in Nat : RingOf(<<>>, <<>>, n) BY DEF RingOf
<1>4. CASE ResetSession
  <2>1. /\ sessionRing' = <<>> /\ session' = <<>>
        /\ UNCHANGED <<wall, minuteRing, hourRing, admitted>>
    BY <1>4 DEF ResetSession
  <2> QED BY <1>2, <1>3, <2>1 DEF CapsInv
<1>5. CASE RestartRisk
  <2>1. /\ minuteRing' = <<>> /\ hourRing' = <<>> /\ sessionRing' = <<>>
        /\ admitted' = <<>> /\ session' = <<>> /\ wall' = wall
    BY <1>5 DEF RestartRisk
  <2> QED BY <1>2, <1>3, <2>1 DEF CapsInv
<1>6. CASE PassTime
  <2>1. wall' = wall + 1 /\ Rest BY <1>6 DEF PassTime, rings
  <2>2. wall' \in Nat /\ wall \in Nat BY <2>1 DEF CapsInv
  <2>3. ASSUME NEW i \in 1..Len(admitted) PROVE admitted[i] <= wall'
    <3>1. admitted[i] <= wall /\ admitted[i] \in Nat BY DEF CapsInv
    <3> QED BY <2>1, <2>2, <3>1
  <2> QED BY <2>1, <2>2, <2>3 DEF CapsInv
<1>7. ASSUME \/ \E s \in CoolSymbols, until \in 1..MaxWall : Engage(s, until)
             \/ Prune \/ LoseMoney \/ SaveCooldowns \/ SavePnl \/ UNCHANGED restartVars
      PROVE  CapsInv'
  <2>1. Rest /\ wall' = wall
    BY <1>7 DEF Engage, Prune, LoseMoney, SaveCooldowns, SavePnl, restartVars, rings
  <2> QED BY <2>1 DEF CapsInv
<1> QED BY <1>1, <1>4, <1>5, <1>6, <1>7 DEF RestartNext

\* The entries of a ring that are live count like the admissions of its window
\* as far as a limit within the ring can tell: a ring that has forgotten an
\* admission of the window is full of later ones.  A limit above the ring is
\* never reached.
LEMMA LiveIsRecent ==
    ASSUME CapsInv, NEW ring \in Seq(Nat), NEW slots \in Nat, RingOf(ring, admitted, slots),
           NEW window \in Nat, NEW limit \in Nat
    PROVE  /\ LiveCount(ring, wall, window) \in Nat
           /\ LiveCount(ring, wall, window) >= limit
                <=> limit <= slots /\ Cardinality(InLast(window)) >= limit
<1> DEFINE live == {k \in DOMAIN ring : wall - ring[k] <= window}
           n == Len(admitted)
           m == Len(ring)
           d == n - m
           InW == InLast(window)
<1>1. /\ n \in Nat /\ m \in Nat /\ DOMAIN ring = 1..m /\ DOMAIN admitted = 1..n
      /\ wall \in Nat /\ \A i \in 1..n : admitted[i] \in Nat
  BY DEF CapsInv
<1>2. m = (IF n > slots THEN slots ELSE n)
      /\ \A k \in 1..m : ring[k] = admitted[d + k]
  BY DEF RingOf
<1>3. \A i, j \in 1..n : i <= j => admitted[i] <= admitted[j] BY DEF CapsInv
<1>4. /\ live = {k \in 1..m : wall - admitted[d + k] <= window}
      /\ InW = {k \in 1..n : wall - admitted[k] <= window}
  <2>1. \A k \in 1..m : wall - ring[k] = wall - admitted[d + k] BY <1>2
  <2> HIDE DEF m, n, d
  <2> QED BY <1>1, <2>1 DEF InLast
<1>5. LiveCount(ring, wall, window) = Cardinality(live) BY DEF LiveCount, LiveCountStep
<1> HIDE DEF live, n, m, InW
<1>7. d \in Nat /\ (d > 0 => m = slots) /\ n = d + m BY <1>1, <1>2
<1> HIDE DEF d
<1>8. \A b \in Int : IsFiniteSet(1..b) BY FS_Interval
<1>9. IsFiniteSet(live) /\ IsFiniteSet(InW)
  <2>1. live \in SUBSET (1..m) /\ InW \in SUBSET (1..n) BY <1>4
  <2>2. IsFiniteSet(1..m) /\ IsFiniteSet(1..n) BY <1>1, <1>8
  <2> QED BY <2>1, <2>2, FS_Subset
<1>10. Cardinality(live) \in Nat /\ Cardinality(InW) \in Nat
  BY <1>9, FS_CardinalityType
<1> DEFINE f == [k \in live |-> d + k]
<1>11. /\ f \in Injection(live, InW)
       /\ \A y \in InW : y > d => \E k \in live : f[k] = y
  <2>1. \A k \in 1..m : d + k \in 1..n BY <1>1, <1>7
  <2>2. \A k \in live : d + k \in InW BY <1>4, <2>1
  <2>3. \A a, b \in live : f[a] = f[b] => a = b BY <1>4, <1>7
  <2>4. f \in Injection(live, InW) BY <2>2, <2>3 DEF Injection, IsInjective
  <2>5. ASSUME NEW y \in InW, y > d PROVE \E k \in live : f[k] = y
    <3>1. y \in 1..n /\ wall - admitted[y] <= window BY <1>4
    <3>2. y - d \in 1..m /\ d + (y - d) = y BY <1>1, <1>7, <2>5, <3>1
    <3>3. y - d \in live BY <1>4, <3>1, <3>2
    <3> QED BY <3>2, <3>3
  <2> QED BY <2>4, <2>5
<1>12. Cardinality(live) <= Cardinality(InW) BY <1>9, <1>11, FS_Injection
<1>13. ASSUME \A y \in InW : y > d
       PROVE  Cardinality(live) = Cardinality(InW)
  <2>1. f \in Surjection(live, InW) BY <1>11, <1>13 DEF Surjection, Injection
  <2> QED BY <1>9, <1>11, <2>1, FS_Injection
<1>14. Cardinality(1..m) = m
  <2>1. Cardinality(1..m) = IF 1 > m THEN 0 ELSE m - 1 + 1 BY <1>1, FS_Interval
  <2> QED BY <1>1, <2>1
<1>15. Cardinality(live) <= m /\ m <= slots
  <2>1. live \in SUBSET (1..m) /\ IsFiniteSet(1..m) BY <1>1, <1>4, <1>8
  <2>2. Cardinality(live) <= Cardinality(1..m) BY <2>1, FS_Subset
  <2>3. m <= slots BY <1>1, <1>2
  <2> QED BY <1>14, <2>2, <2>3
<1>16. ASSUME NEW z \in InW, ~(z > d)
       PROVE  Cardinality(live) = slots
  <2>1. z \in 1..n /\ z <= d /\ d > 0 /\ wall - admitted[z] <= window
    BY <1>1, <1>4, <1>7, <1>16
  <2>2. ASSUME NEW k \in 1..m PROVE k \in live
    <3>1. d + k \in 1..n /\ z <= d + k BY <1>1, <1>7, <2>1
    <3>2. admitted[z] <= admitted[d + k] BY <1>3, <2>1, <3>1
    <3>3. wall - admitted[d + k] <= window BY <1>1, <2>1, <3>1, <3>2
    <3> QED BY <1>4, <3>3
  <2>3. live = 1..m BY <1>4, <2>2
  <2>4. m = slots BY <1>7, <2>1
  <2> QED BY <1>14, <2>3, <2>4
<1>17. Cardinality(live) \in Nat /\ Cardinality(InW) \in Nat BY <1>10
<1> DEFINE a == Cardinality(live)
           b == Cardinality(InW)
<1>18. a \in Nat /\ b \in Nat /\ a <= b /\ a <= slots /\ (a = b \/ a = slots)
  BY <1>1, <1>12, <1>13, <1>15, <1>16, <1>17
<1> HIDE DEF a, b
<1>19. a >= limit <=> limit <= slots /\ b >= limit BY <1>18
<1> QED BY <1>5, <1>18, <1>19 DEF a, b, InW

\* The rings answer as the histories would.
LEMMA CapsCounted == ASSUME CapsInv PROVE CapsAreExact
<1> USE RestartAssumption
<1> DEFINE c == LiveCount(minuteRing, wall, MinuteLength)
           h == LiveCount(hourRing, wall, HourLength)
           r == Len(sessionRing)
           l == Len(session)
           minute == TradesPerMinute <= MinuteSlots /\ Cardinality(InLast(MinuteLength)) >= TradesPerMinute
           hour == TradesPerHour <= HourSlots /\ Cardinality(InLast(HourLength)) >= TradesPerHour
<1>1. c \in Nat /\ (c >= TradesPerMinute <=> minute) BY LiveIsRecent DEF CapsInv
<1>2. h \in Nat /\ (h >= TradesPerHour <=> hour) BY LiveIsRecent DEF CapsInv
<1>3. r \in Nat /\ l \in Nat BY DEF CapsInv
<1>4. r = IF l > SessionSlots THEN SessionSlots ELSE l BY DEF CapsInv, RingOf
<1>5. WouldBreach(wall) <=> (c + 1 > TradesPerMinute \/ h + 1 > TradesPerHour \/ r + 1 > TradesPerSession)
  BY DEF WouldBreach
<1>6. CapsAreExact <=> (WouldBreach(wall) <=>
          minute \/ hour \/ (TradesPerSession <= SessionSlots /\ l >= TradesPerSession))
  BY DEF CapsAreExact
<1> HIDE DEF c, h, r, l, minute, hour
<1>7. c + 1 > TradesPerMinute <=> c >= TradesPerMinute BY <1>1
<1>8. h + 1 > TradesPerHour <=> h >= TradesPerHour BY <1>2
<1>9. r + 1 > TradesPerSession <=> TradesPerSession <= SessionSlots /\ l >= TradesPerSession
  BY <1>3, <1>4
<1> QED BY <1>1, <1>2, <1>5, <1>6, <1>7, <1>8, <1>9

\* Whatever the configured limits, the rings refuse a trade exactly when the
\* full history of the minute, the hour or the session reaches a limit that fits
\* its ring: neither wrap-around nor a session reset or restart admits one too
\* many or refuses one too early, and a limit above its ring is none
\* (FrequencyCounters::would_breach and record).
THEOREM CapsStayExact == RestartSpec => []CapsAreExact
<1>1. RestartInit => CapsInv
  <2> SUFFICES ASSUME RestartInit PROVE CapsInv OBVIOUS
  <2>1. /\ wall = 0 /\ minuteRing = <<>> /\ hourRing = <<>> /\ sessionRing = <<>>
        /\ admitted = <<>> /\ session = <<>>
    BY DEF RestartInit
  <2>2. <<>> \in Seq(Nat) OBVIOUS
  <2>3. \A n \in Nat : RingOf(<<>>, <<>>, n) BY DEF RingOf
  <2> QED BY <2>1, <2>2, <2>3, RestartAssumption DEF CapsInv
<1>2. CapsInv /\ [RestartNext]_restartVars => CapsInv' BY CapsNext
<1>3. CapsInv => CapsAreExact BY CapsCounted
<1> QED BY <1>1, <1>2, <1>3, PTL DEF RestartSpec
-----------------------------------------------------------------------------
(* The matching of the simulated broker (hedge-broker-simulated). *)

\* The levels that come before p.
Ahead(side, p) == {q \in SimPrices : Better(side, q, p)}

\* One submission: level is the side of the book it finds, g sums it, fills is
\* what it takes.
Takes(level, g, side, qty, limit, fills) ==
    /\ level \in [SimPrices -> Nat] /\ side \in Sides /\ qty \in Nat
    /\ limit \in SimPrices \cup {0}
    /\ SumSolution(SimPrices, level, g)
    /\ fills \in [SimPrices -> Nat]
    /\ \A p \in SimPrices :
          LET left == qty - g[Ahead(side, p)]
          IN  fills[p] = IF ~Within(side, p, limit) \/ left <= 0 THEN 0
                         ELSE IF level[p] <= left THEN level[p] ELSE left

\* consume_asks and consume_bids take what Takes says.
LEMMA ConsumeTakes ==
    ASSUME NEW level \in [SimPrices -> Nat], NEW side \in Sides, NEW qty \in Nat,
           NEW limit \in SimPrices \cup {0}
    PROVE  \E g : Takes(level, g, side, qty, limit, Consume(level, side, qty, limit))
<1> USE SimAssumption
<1> DEFINE fills == Consume(level, side, qty, limit)
<1>1. level \in [SimPrices -> Int] OBVIOUS
<1>2. PICK g : SumSolution(SimPrices, level, g) BY <1>1, SumExists
<1>3. \A p \in SimPrices :
        SumFunctionOnSet(level, {q \in SimPrices : Better(side, q, p)}) = g[Ahead(side, p)]
  <2> SUFFICES ASSUME NEW p \in SimPrices
               PROVE  SumFunctionOnSet(level, {q \in SimPrices : Better(side, q, p)})
                        = g[Ahead(side, p)]
    OBVIOUS
  <2>1. Ahead(side, p) \in SUBSET SimPrices BY DEF Ahead
  <2>2. SumFunctionOnSet(level, Ahead(side, p)) = g[Ahead(side, p)]
    BY <1>2, <2>1, FoldIsSum
  <2> QED BY <2>2 DEF Ahead
<1>4. \A a, b \in Int : Min({a, b}) = IF a <= b THEN a ELSE b
  <2> SUFFICES ASSUME NEW a \in Int, NEW b \in Int PROVE Min({a, b}) = IF a <= b THEN a ELSE b
    OBVIOUS
  <2>1. \E x \in {a, b} : \A y \in {a, b} : x <= y OBVIOUS
  <2>2. Min({a, b}) \in {a, b} /\ \A y \in {a, b} : Min({a, b}) <= y BY <2>1 DEF Min
  <2> QED BY <2>2
<1>5. ASSUME NEW p \in SimPrices
      PROVE  LET left == qty - g[Ahead(side, p)]
             IN  /\ fills[p] = IF ~Within(side, p, limit) \/ left <= 0 THEN 0
                               ELSE IF level[p] <= left THEN level[p] ELSE left
                 /\ fills[p] \in Nat
  <2> DEFINE left == qty - g[Ahead(side, p)]
  <2>1. fills[p] = IF ~Within(side, p, limit) \/ left <= 0 THEN 0 ELSE Min({level[p], left})
    BY <1>3 DEF Consume, ConsumeStep
  <2>2. Ahead(side, p) \in SUBSET SimPrices BY DEF Ahead
  <2>3. left \in Int /\ level[p] \in Nat BY <1>2, <2>2 DEF SumSolution
  <2> HIDE DEF left
  <2>4. Min({level[p], left}) = IF level[p] <= left THEN level[p] ELSE left BY <1>4, <2>3
  <2>5. fills[p] \in Nat BY <2>1, <2>3, <2>4
  <2> QED BY <2>1, <2>4, <2>5 DEF left
<1>6. fills \in [SimPrices -> Nat]
  <2>1. fills = [p \in SimPrices |-> fills[p]] BY DEF Consume, ConsumeStep
  <2> HIDE DEF fills
  <2> QED BY <1>5, <2>1
<1> HIDE DEF fills
<1>7. Takes(level, g, side, qty, limit, fills) BY <1>2, <1>5, <1>6 DEF Takes
<1> QED BY <1>7 DEF fills

\* The order of the prices on one side.
LEMMA PriceOrder ==
    ASSUME NEW side \in Sides, NEW limit \in SimPrices \cup {0}
    PROVE  /\ \A p \in SimPrices : ~Better(side, p, p)
           /\ \A p, q \in SimPrices : p = q \/ Better(side, p, q) \/ Better(side, q, p)
           /\ \A p, q \in SimPrices : Better(side, p, q) => ~Better(side, q, p)
           /\ \A p, q, r \in SimPrices : Better(side, p, q) /\ Better(side, q, r) => Better(side, p, r)
           /\ \A p, q \in SimPrices :
                 Better(side, q, p) /\ Within(side, p, limit) => Within(side, q, limit)
<1>1. SimPrices \subseteq Nat /\ limit \in Nat BY SimAssumption
<1> QED BY <1>1 DEF Better, Within

\* A set of prices has a best and a worst one.
LEMMA PriceEnds ==
    ASSUME NEW side \in Sides, NEW t \in SUBSET SimPrices, t # {}
    PROVE  /\ \E p \in t : \A q \in t : q = p \/ Better(side, q, p)
           /\ \E p \in t : \A q \in t : q = p \/ Better(side, p, q)
<1>1. t \subseteq Nat /\ IsFiniteSet(t) BY SimAssumption, FS_Subset
<1>2. PICK h \in t : \A k \in t : k <= h
  <2>1. t \subseteq Int BY <1>1
  <2> QED BY <1>1, <2>1, GreatestInteger
<1>3. PICK l \in t : \A k \in t : l <= k BY <1>1, LeastNumber
<1>4. \A k \in t : k = h \/ k < h BY <1>1, <1>2
<1>5. \A k \in t : k = l \/ l < k BY <1>1, <1>3
<1>6. CASE side = "buy" BY <1>4, <1>5, <1>6 DEF Better
<1>7. CASE side = "sell"
  <2>1. \A p, q : Better(side, p, q) <=> p > q BY <1>7 DEF Better
  <2>2. \A k \in t : k = l \/ Better(side, k, l) BY <1>1, <1>5, <2>1
  <2>3. \A k \in t : k = h \/ Better(side, h, k) BY <1>1, <1>4, <2>1
  <2> QED BY <2>2, <2>3
<1> QED BY <1>6, <1>7 DEF Sides

\* What a level has still to give after all better ones.
LEMMA AheadGrows ==
    ASSUME NEW level, NEW g, NEW side, NEW qty, NEW limit, NEW fills,
           Takes(level, g, side, qty, limit, fills)
    PROVE  /\ \A p \in SimPrices : g[Ahead(side, p)] \in Nat
           /\ \A p, q \in SimPrices :
                 Better(side, q, p) => g[Ahead(side, q)] + level[q] <= g[Ahead(side, p)]
<1>0. /\ level \in [SimPrices -> Nat] /\ side \in Sides /\ SumSolution(SimPrices, level, g)
      /\ limit \in SimPrices \cup {0}
  BY DEF Takes
<1>1. \A p : Ahead(side, p) \in SUBSET SimPrices BY DEF Ahead
<1>2. ASSUME NEW p \in SimPrices PROVE g[Ahead(side, p)] \in Nat
  <2>1. g[{}] = 0 /\ g[Ahead(side, p)] \in Int BY <1>0, <1>1 DEF SumSolution
  <2>2. {} \in SUBSET SimPrices /\ {} \subseteq Ahead(side, p) OBVIOUS
  <2>3. g[{}] <= g[Ahead(side, p)] BY <1>0, <1>1, <2>2, SumGrows
  <2> QED BY <2>1, <2>3
<1>3. ASSUME NEW p \in SimPrices, NEW q \in SimPrices, Better(side, q, p)
      PROVE  g[Ahead(side, q)] + level[q] <= g[Ahead(side, p)]
  <2> DEFINE t == Ahead(side, q) \cup {q}
  <2>1. q \notin Ahead(side, q) /\ t \subseteq Ahead(side, p)
    BY <1>0, <1>3, PriceOrder DEF Ahead
  <2>2. t \in SUBSET SimPrices /\ t \ {q} = Ahead(side, q) /\ q \in t BY <1>1, <2>1
  <2> HIDE DEF t
  <2>3. g[t] = level[q] + g[t \ {q}] BY <1>0, <2>2, SumAnyOrder
  <2>4. g[t] <= g[Ahead(side, p)] BY <1>0, <1>1, <2>1, <2>2, SumGrows
  <2>6. g[t] = level[q] + g[Ahead(side, q)] BY <2>2, <2>3
  <2>7. g[Ahead(side, p)] \in Nat BY <1>2
  <2>5. level[q] \in Nat /\ g[Ahead(side, q)] \in Nat BY <1>0, <1>2
  <2> QED BY <2>4, <2>5, <2>6, <2>7
<1> QED BY <1>2, <1>3

\* A level is emptied when one after it is touched, and touched only within the
\* limit.
LEMMA BetterEmptied ==
    ASSUME NEW level, NEW g, NEW side, NEW qty, NEW limit, NEW fills,
           Takes(level, g, side, qty, limit, fills)
    PROVE  /\ \A p \in SimPrices : /\ fills[p] <= level[p]
                                   /\ fills[p] > 0 => Within(side, p, limit)
           /\ \A p, q \in SimPrices :
                 fills[p] > 0 /\ Better(side, q, p) => fills[q] = level[q]
<1>0. /\ level \in [SimPrices -> Nat] /\ side \in Sides /\ fills \in [SimPrices -> Nat]
      /\ limit \in SimPrices \cup {0} /\ qty \in Nat
  BY DEF Takes
<1>1. \A p \in SimPrices : g[Ahead(side, p)] \in Nat BY AheadGrows
<1>2. ASSUME NEW p \in SimPrices
      PROVE  /\ fills[p] <= level[p]
             /\ fills[p] > 0 => Within(side, p, limit) /\ g[Ahead(side, p)] < qty
             /\ Within(side, p, limit) /\ g[Ahead(side, p)] + level[p] <= qty => fills[p] = level[p]
  <2> DEFINE a == g[Ahead(side, p)]
             l == level[p]
             w == Within(side, p, limit)
  <2>1. fills[p] = IF ~w \/ qty - a <= 0 THEN 0 ELSE IF l <= qty - a THEN l ELSE qty - a
    BY DEF Takes
  <2>2. a \in Nat /\ l \in Nat /\ qty \in Nat BY <1>0, <1>1
  <2> HIDE DEF a, l, w
  <2>3. fills[p] <= l BY <2>1, <2>2
  <2>4. fills[p] > 0 => w /\ a < qty BY <2>1, <2>2
  <2>5. w /\ a + l <= qty => fills[p] = l
    <3>1. CASE qty - a <= 0 BY <2>1, <2>2, <3>1
    <3>2. CASE ~(qty - a <= 0) BY <2>1, <2>2, <3>2
    <3> QED BY <3>1, <3>2
  <2> QED BY <2>3, <2>4, <2>5 DEF a, l, w
<1>3. ASSUME NEW p \in SimPrices, NEW q \in SimPrices, fills[p] > 0, Better(side, q, p)
      PROVE  fills[q] = level[q]
  <2>1. Within(side, p, limit) /\ g[Ahead(side, p)] < qty BY <1>2, <1>3
  <2>2. Within(side, q, limit) BY <1>0, <1>3, <2>1, PriceOrder
  <2>3. g[Ahead(side, q)] + level[q] <= g[Ahead(side, p)] BY <1>3, AheadGrows
  <2>4. g[Ahead(side, q)] + level[q] <= qty
    <3>1. g[Ahead(side, q)] \in Nat /\ g[Ahead(side, p)] \in Nat /\ level[q] \in Nat BY <1>0, <1>1
    <3> QED BY <1>0, <2>1, <2>3, <3>1
  <2> QED BY <1>2, <2>2, <2>4
<1> QED BY <1>2, <1>3

\* An order takes no more than its quantity: the last level it touches gives what
\* those ahead of it have left.
LEMMA NeverTooMuch ==
    ASSUME NEW level, NEW g, NEW side, NEW qty, NEW limit, NEW fills, NEW h,
           Takes(level, g, side, qty, limit, fills), SumSolution(SimPrices, fills, h)
    PROVE  h[SimPrices] <= qty
<1> DEFINE at == {p \in SimPrices : fills[p] > 0}
<1>0. /\ level \in [SimPrices -> Nat] /\ side \in Sides /\ fills \in [SimPrices -> Nat]
      /\ limit \in SimPrices \cup {0} /\ qty \in Nat /\ SumSolution(SimPrices, level, g)
  BY DEF Takes
<1>1. \A p \in SimPrices : p \notin at => fills[p] = 0 BY <1>0
<1>2. \A t \in SUBSET SimPrices :
          at \subseteq t => h[SimPrices] = h[t]
  <2> SUFFICES ASSUME NEW t \in SUBSET SimPrices, at \subseteq t PROVE h[SimPrices] = h[t]
    OBVIOUS
  <2>1. SimPrices \in SUBSET SimPrices /\ t \subseteq SimPrices /\ \A x \in SimPrices \ t : fills[x] = 0
    BY <1>1
  <2> QED BY <2>1, SumZeroes
<1>3. CASE at = {}
  <2>1. h[{}] = 0 BY DEF SumSolution
  <2>2. h[SimPrices] = h[{}] BY <1>2, <1>3
  <2> QED BY <1>0, <2>1, <2>2
<1>4. CASE at # {}
  <2>1. PICK p \in at : \A q \in at : q = p \/ Better(side, q, p) BY <1>0, <1>4, PriceEnds
  <2> DEFINE u == Ahead(side, p)
             t == u \cup {p}
  <2>2. /\ u \in SUBSET SimPrices /\ t \in SUBSET SimPrices /\ p \in SimPrices /\ at \subseteq t
        /\ p \in t /\ t \ {p} = u
    <3>1. p \in SimPrices /\ ~Better(side, p, p) BY <1>0, PriceOrder
    <3> QED BY <2>1, <3>1 DEF Ahead
  <2> HIDE DEF u, t
  <2>3. h[SimPrices] = h[t] BY <1>2, <2>2
  <2>4. h[t] = fills[p] + h[t \ {p}] BY <2>2, SumAnyOrder
  <2>5. h[u] <= g[u]
    <3>1. \A x \in u : fills[x] <= level[x] BY <2>2, BetterEmptied
    <3> QED BY <1>0, <2>2, <3>1, SumBounded
  <2>6. fills[p] <= qty - g[u]
    <3>1. fills[p] > 0 OBVIOUS
    <3>2. LET left == qty - g[u]
          IN  fills[p] = IF ~Within(side, p, limit) \/ left <= 0 THEN 0
                         ELSE IF level[p] <= left THEN level[p] ELSE left
      BY <2>2 DEF Takes, u
    <3>3. level[p] \in Nat /\ g[u] \in Int BY <1>0, <2>2 DEF SumSolution
    <3> QED BY <1>0, <3>1, <3>2, <3>3
  <2>7. h[u] \in Int /\ g[u] \in Int /\ fills[p] \in Int /\ h[t] = fills[p] + h[u]
    BY <1>0, <2>2, <2>4 DEF SumSolution
  <2> QED BY <1>0, <2>3, <2>5, <2>6, <2>7
<1> QED BY <1>3, <1>4

\* An order that is short of its quantity has emptied every level within its limit:
\* otherwise the best level that could have completed it would have.
LEMMA NeverTooLittle ==
    ASSUME NEW level, NEW g, NEW side, NEW qty, NEW limit, NEW fills, NEW h,
           Takes(level, g, side, qty, limit, fills), SumSolution(SimPrices, fills, h),
           h[SimPrices] < qty
    PROVE  \A p \in SimPrices : Within(side, p, limit) => fills[p] = level[p]
<1> SUFFICES ASSUME NEW r \in SimPrices, Within(side, r, limit), fills[r] # level[r] PROVE FALSE
  OBVIOUS
<1>0. /\ level \in [SimPrices -> Nat] /\ side \in Sides /\ fills \in [SimPrices -> Nat]
      /\ limit \in SimPrices \cup {0} /\ qty \in Nat /\ SumSolution(SimPrices, level, g)
  BY DEF Takes
<1>1. \A p \in SimPrices : g[Ahead(side, p)] \in Nat /\ level[p] \in Nat BY <1>0, AheadGrows
<1> DEFINE W == {p \in SimPrices : Within(side, p, limit) /\ g[Ahead(side, p)] + level[p] >= qty}
<1>2. \A p \in SimPrices : Within(side, p, limit) /\ fills[p] # level[p] => p \in W
  <2> SUFFICES ASSUME NEW p \in SimPrices, Within(side, p, limit), fills[p] # level[p]
               PROVE  g[Ahead(side, p)] + level[p] >= qty
    OBVIOUS
  <2>1. LET left == qty - g[Ahead(side, p)]
        IN  fills[p] = IF left <= 0 THEN 0 ELSE IF level[p] <= left THEN level[p] ELSE left
    BY DEF Takes
  <2> QED BY <1>0, <1>1, <2>1
<1>3. W \in SUBSET SimPrices /\ W # {} BY <1>2
<1>4. PICK p \in W : \A q \in W : q = p \/ Better(side, p, q)
  <2> HIDE DEF W
  <2> QED BY <1>0, <1>3, PriceEnds
<1> DEFINE u == Ahead(side, p)
           t == u \cup {p}
<1>5. /\ p \in SimPrices /\ Within(side, p, limit) /\ g[u] + level[p] >= qty
      /\ u \in SUBSET SimPrices /\ t \in SUBSET SimPrices /\ p \in t
  BY <1>4 DEF Ahead
<1>6. \A q \in u : fills[q] = level[q]
  <2> SUFFICES ASSUME NEW q \in u, fills[q] # level[q] PROVE FALSE OBVIOUS
  <2>1. q \in SimPrices /\ Better(side, q, p) BY DEF Ahead
  <2>2. Within(side, q, limit) BY <1>0, <1>5, <2>1, PriceOrder
  <2>3. q \in W BY <1>2, <2>1, <2>2
  <2>4. ~Better(side, p, q) /\ q # p BY <1>0, <1>5, <2>1, PriceOrder
  <2> QED BY <1>4, <2>3, <2>4
<1>7. t \ {p} = u BY <1>0, <1>5, PriceOrder DEF Ahead
<1> HIDE DEF W, u, t
<1>8. h[u] = g[u]
  <2>1. \A q \in u : fills[q] <= level[q] /\ level[q] <= fills[q] BY <1>0, <1>5, <1>6
  <2>2. h[u] <= g[u] BY <1>0, <1>5, <2>1, SumBounded
  <2>3. g[u] <= h[u] BY <1>0, <1>5, <2>1, SumBounded
  <2>4. h[u] \in Int /\ g[u] \in Int BY <1>5, <1>0 DEF SumSolution
  <2> QED BY <2>2, <2>3, <2>4
<1>9. h[u] <= h[SimPrices] /\ h[t] <= h[SimPrices]
  <2>1. SimPrices \in SUBSET SimPrices /\ u \subseteq SimPrices /\ t \subseteq SimPrices BY <1>5
  <2> QED BY <1>0, <1>5, <2>1, SumGrows
<1>10. h[t] = fills[p] + h[u]
  <2>1. h[t] = fills[p] + h[t \ {p}] BY <1>5, SumAnyOrder
  <2> QED BY <1>7, <2>1
<1>11. fills[p] = IF level[p] <= qty - g[u] THEN level[p] ELSE qty - g[u]
  <2>1. LET left == qty - g[u]
        IN  fills[p] = IF left <= 0 THEN 0 ELSE IF level[p] <= left THEN level[p] ELSE left
    BY <1>5 DEF Takes, u
  <2>2. g[u] < qty /\ g[u] \in Int
    <3>1. h[SimPrices] \in Int /\ h[u] \in Int BY <1>5 DEF SumSolution
    <3> QED BY <1>0, <1>8, <1>9, <3>1
  <2> QED BY <1>0, <2>1, <2>2
<1>12. h[SimPrices] \in Int /\ h[u] \in Int /\ level[p] \in Nat BY <1>0, <1>5 DEF SumSolution
<1> QED BY <1>0, <1>5, <1>8, <1>9, <1>10, <1>11, <1>12

\* A quotient lies where the dividend does.
LEMMA QuotientBounds ==
    ASSUME NEW n \in Nat, NEW f \in Nat \ {0}, NEW lo \in Nat, NEW hi \in Nat,
           lo * f <= n, n <= hi * f
    PROVE  lo <= n \div f /\ n \div f <= hi
<1> DEFINE q == n \div f
<1>1. q \in Nat /\ q * f <= n /\ n < q * f + f
  <2>1. q \in Nat /\ n - f * q \in 0..(f - 1) OBVIOUS
  <2>2. f * q \in Nat /\ q * f = f * q BY <2>1
  <2> HIDE DEF q
  <2> QED BY <2>1, <2>2
<1> HIDE DEF q
<1>2. \A a, b \in Nat : a + 1 <= b => a * f + f <= b * f
  <2> SUFFICES ASSUME NEW a \in Nat, NEW b \in Nat, a + 1 <= b PROVE a * f + f <= b * f OBVIOUS
  <2>1. (b - (a + 1)) * f \in Nat
    <3>1. b - (a + 1) \in Nat OBVIOUS
    <3>2. \A c \in Nat : c * f \in Nat OBVIOUS
    <3> QED BY <3>1, <3>2
  <2>2. (b - (a + 1)) * f = b * f - (a * f + f) OBVIOUS
  <2>3. b * f \in Int /\ a * f \in Int OBVIOUS
  <2> QED BY <2>1, <2>2, <2>3
<1>3. q * f \in Nat /\ lo * f \in Nat /\ hi * f \in Nat BY <1>1
<1>4. lo <= q
  <2> SUFFICES ASSUME q + 1 <= lo PROVE FALSE BY <1>1
  <2>1. q * f + f <= lo * f BY <1>1, <1>2
  <2> QED BY <1>1, <1>3, <2>1
<1>5. q <= hi
  <2> SUFFICES ASSUME hi + 1 <= q PROVE FALSE BY <1>1
  <2>1. hi * f + f <= q * f BY <1>1, <1>2
  <2> QED BY <1>1, <1>3, <2>1
<1> QED BY <1>4, <1>5 DEF q

\* The average of what was taken lies between the prices it was taken at.
LEMMA AverageBetween ==
    ASSUME NEW fills \in [SimPrices -> Nat], NEW h, SumSolution(SimPrices, fills, h),
           NEW lo \in SimPrices, NEW hi \in SimPrices, h[SimPrices] > 0,
           \A p \in SimPrices : fills[p] > 0 => lo <= p /\ p <= hi
    PROVE  LET avg == Notional(fills) \div h[SimPrices] IN lo <= avg /\ avg <= hi
<1> USE SimAssumption
<1> DEFINE S == SimPrices
           e == [p \in S |-> p * fills[p]]
<1>1. \A p \in S : p \in Nat /\ fills[p] \in Nat /\ p * fills[p] \in Nat
  <2>1. \A a, b \in Nat : a * b \in Nat OBVIOUS
  <2> QED BY <2>1
<1>2. e \in [S -> Nat] /\ e \in [S -> Int] /\ DOMAIN e = S /\ \A p \in S : e[p] = p * fills[p]
  BY <1>1
<1> HIDE DEF e
<1>3. PICK k : SumSolution(S, e, k) BY <1>2, SumExists
<1>4. S \in SUBSET S /\ {} \in SUBSET S /\ {} \subseteq S OBVIOUS
<1>5. Notional(fills) = k[S]
  <2>1. SumFunctionOnSet(e, S) = k[S] BY <1>3, <1>4, FoldIsSum
  <2>2. Notional(fills) = SumFunctionOnSet(e, DOMAIN e) BY DEF Notional, SumFunction, e
  <2> QED BY <1>2, <2>1, <2>2
<1>6. k[S] \in Nat
  <2>1. k[{}] = 0 /\ k[S] \in Int BY <1>3 DEF SumSolution
  <2>2. k[{}] <= k[S] BY <1>2, <1>3, <1>4, SumGrows
  <2> QED BY <2>1, <2>2
<1>7. h[S] \in Nat \ {0} /\ lo \in Nat /\ hi \in Nat BY DEF SumSolution
<1>8. ASSUME NEW c \in Nat
      PROVE  /\ (\A p \in S : c * fills[p] <= p * fills[p]) => c * h[S] <= k[S]
             /\ (\A p \in S : p * fills[p] <= c * fills[p]) => k[S] <= c * h[S]
  <2>1. c \in Int OBVIOUS
  <2>2. /\ (\A p \in S : c * fills[p] <= e[p]) => c * h[S] <= k[S]
        /\ (\A p \in S : e[p] <= c * fills[p]) => k[S] <= c * h[S]
    BY <1>3, <2>1, ScaledBounds
  <2> QED BY <1>2, <2>2
<1>9. \A a, b, x \in Nat : (x > 0 => a <= b) => a * x <= b * x
  <2> SUFFICES ASSUME NEW a \in Nat, NEW b \in Nat, NEW x \in Nat, x > 0 => a <= b
               PROVE  a * x <= b * x
    OBVIOUS
  <2>1. CASE x = 0 BY <2>1
  <2>2. CASE x # 0
    <3>1. b - a \in Nat BY <2>2
    <3>2. \A y \in Nat : y * x \in Nat OBVIOUS
    <3>3. (b - a) * x \in Nat BY <3>1, <3>2
    <3>4. (b - a) * x = b * x - a * x /\ b * x \in Nat /\ a * x \in Nat OBVIOUS
    <3> QED BY <3>3, <3>4
  <2> QED BY <2>1, <2>2
<1>10. lo * h[S] <= k[S]
  <2>1. \A p \in S : lo * fills[p] <= p * fills[p] BY <1>1, <1>7, <1>9
  <2> QED BY <1>7, <1>8, <2>1
<1>11. k[S] <= hi * h[S]
  <2>1. \A p \in S : p * fills[p] <= hi * fills[p] BY <1>1, <1>7, <1>9
  <2> QED BY <1>7, <1>8, <2>1
<1>12. lo <= k[S] \div h[S] /\ k[S] \div h[S] <= hi BY <1>6, <1>7, <1>10, <1>11, QuotientBounds
<1> QED BY <1>5, <1>12

\* What Consume takes is well matched and leaves a book.
MatchedBy(level, sym, side, qty, limit) ==
    LET fills == Consume(level, side, qty, limit)
    IN  /\ WellMatched(Booked(sym, side, qty, limit, fills), level,
                       [p \in SimPrices |-> level[p] - fills[p]])
        /\ [p \in SimPrices |-> level[p] - fills[p]] \in [SimPrices -> Nat]

\* A submission is matched well against any book.
LEMMA SubmissionMatched ==
    ASSUME NEW level \in [SimPrices -> Nat], NEW sym, NEW side \in Sides, NEW qty \in Nat,
           NEW limit \in SimPrices \cup {0}
    PROVE  MatchedBy(level, sym, side, qty, limit)
<1> USE SimAssumption
<1> DEFINE fills == Consume(level, side, qty, limit)
           o == Booked(sym, side, qty, limit, fills)
           after == [p \in SimPrices |-> level[p] - fills[p]]
           at == {p \in SimPrices : fills[p] > 0}
<1>1. PICK g : Takes(level, g, side, qty, limit, fills) BY ConsumeTakes
<1> HIDE DEF fills
<1>2. fills \in [SimPrices -> Nat] BY <1>1 DEF Takes
<1>3. PICK h : SumSolution(SimPrices, fills, h)
  <2>1. fills \in [SimPrices -> Int] BY <1>2
  <2> QED BY <2>1, SumExists
<1>4. FilledQty(fills) = h[SimPrices]
  <2>1. SimPrices \in SUBSET SimPrices OBVIOUS
  <2>2. SumFunctionOnSet(fills, SimPrices) = h[SimPrices] BY <1>3, <2>1, FoldIsSum
  <2>3. DOMAIN fills = SimPrices BY <1>2
  <2> QED BY <2>2, <2>3 DEF FilledQty, SumFunction
<1>5. /\ o.side = side /\ o.limit = limit /\ o.qty = qty /\ o.fills = fills
      /\ o.filled = h[SimPrices]
      /\ o.avg = IF o.filled = 0 THEN 0 ELSE Notional(fills) \div h[SimPrices]
  BY <1>4 DEF Booked
<1>6. /\ \A p \in SimPrices : /\ fills[p] <= level[p]
                              /\ fills[p] > 0 => Within(side, p, limit)
      /\ \A p, q \in SimPrices : fills[p] > 0 /\ Better(side, q, p) => fills[q] = level[q]
  BY <1>1, BetterEmptied
<1>7. \A p \in SimPrices : /\ after[p] = level[p] - fills[p] /\ after[p] \in Nat
                           /\ after[p] + fills[p] = level[p] /\ after[p] >= 0
                           /\ fills[p] = level[p] => after[p] = 0
  BY <1>2, <1>6
<1>8. h[SimPrices] <= qty BY <1>1, <1>3, NeverTooMuch
<1>9. h[SimPrices] < qty => \A p \in SimPrices : Within(side, p, limit) => fills[p] = level[p]
  BY <1>1, <1>3, NeverTooLittle
<1>10. ASSUME at # {} PROVE Min(at) <= o.avg /\ o.avg <= Max(at)
  <2>0. at \in SUBSET SimPrices OBVIOUS
  <2>1. at \subseteq Nat /\ at \subseteq Int /\ IsFiniteSet(at)
    <3> HIDE DEF at
    <3>1. IsFiniteSet(at) BY <2>0, FS_Subset
    <3>2. at \subseteq Nat BY <2>0
    <3> QED BY <3>1, <3>2
  <2>2. \E x \in at : \A y \in at : x <= y BY <1>10, <2>1, LeastNumber
  <2>3. \E x \in at : \A y \in at : y <= x BY <1>10, <2>1, GreatestInteger
  <2>4. \E x \in at : \A y \in at : x >= y BY <2>1, <2>3
  <2>5. Min(at) \in at /\ \A y \in at : Min(at) <= y BY <2>2 DEF Min
  <2>6. Max(at) \in at /\ \A y \in at : y <= Max(at)
    <3>1. Max(at) \in at /\ \A y \in at : Max(at) >= y BY <2>4 DEF Max
    <3> QED BY <2>1, <3>1
  <2>7. h[SimPrices] > 0
    <3>1. PICK p \in at : TRUE BY <1>10
    <3>2. p \in SimPrices /\ fills[p] > 0 /\ fills[p] \in Nat BY <1>2
    <3>3. fills[p] <= h[SimPrices] BY <1>2, <1>3, <3>2, TermInSum
    <3>4. h[SimPrices] \in Int BY <1>3 DEF SumSolution
    <3> QED BY <3>2, <3>3, <3>4
  <2>8. \A p \in SimPrices : fills[p] > 0 => Min(at) <= p /\ p <= Max(at) BY <2>5, <2>6
  <2>9. Min(at) \in SimPrices /\ Max(at) \in SimPrices BY <2>5, <2>6
  <2> HIDE DEF at
  <2>10. LET avg == Notional(fills) \div h[SimPrices] IN Min(at) <= avg /\ avg <= Max(at)
    BY <1>2, <1>3, <2>7, <2>8, <2>9, AverageBetween
  <2>11. o.avg = Notional(fills) \div h[SimPrices] BY <1>5, <2>7
  <2> QED BY <2>10, <2>11
<1>11. after \in [SimPrices -> Nat] BY <1>7
<1> HIDE DEF o, after
<1>12. WellMatched(o, level, after)
  BY <1>5, <1>6, <1>7, <1>8, <1>9, <1>10 DEF WellMatched
<1> QED BY <1>11, <1>12 DEF MatchedBy, o, after, fills

\* The books: per listed symbol and side a quantity per price.
Levels == [SimPrices -> Nat]
BooksTyped ==
    /\ DOMAIN books \subseteq SimSymbols
    /\ books \in [DOMAIN books -> [Sides -> Levels]]

\* Only a submission adds an order, and books keep their shape.
LEMMA SimStep ==
    ASSUME BooksTyped, [SimNextStep]_simVars
    PROVE  BooksTyped' /\ NewOrdersMatched
<1> USE SimAssumption
<1>1. ASSUME NEW sym \in SimSymbols, NEW side \in Sides, NEW q \in SimQtys,
             NEW l \in SimPrices \cup {0}, SimSubmit(sym, side, q, l)
      PROVE  BooksTyped' /\ NewOrdersMatched
  <2> DEFINE level == books[sym][side]
             fills == Consume(level, side, q, l)
             o == Booked(sym, side, q, l, fills)
             after == [p \in SimPrices |-> level[p] - fills[p]]
             D == DOMAIN books
  <2>1. /\ sym \in D /\ books' = [books EXCEPT ![sym][side] = after]
        /\ simOrders' = With(simOrders, simNext + 1, o)
    BY <1>1 DEF SimSubmit
  <2>2. /\ level \in Levels /\ q \in Nat /\ D \subseteq SimSymbols
        /\ books \in [D -> [Sides -> Levels]]
    BY <2>1 DEF BooksTyped
  <2>3. WellMatched(o, level, after) /\ after \in Levels
    <3> HIDE DEF level
    <3>1. level \in [SimPrices -> Nat] BY <2>2 DEF Levels
    <3>3. MatchedBy(level, sym, side, q, l) BY <2>2, <3>1, SubmissionMatched
    <3>2. WellMatched(o, level, after) /\ after \in [SimPrices -> Nat] BY <3>3 DEF MatchedBy
    <3> QED BY <3>2 DEF Levels
  <2>4. o.sym = sym /\ o.side = side BY DEF Booked
  <2> HIDE DEF level, fills, o, after, D
  <2>5. books' \in [D -> [Sides -> Levels]] /\ books'[sym][side] = after BY <2>1, <2>2, <2>3
  <2>6. BooksTyped'
    <3>1. DOMAIN books' = D BY <2>5
    <3> QED BY <2>2, <2>5, <3>1 DEF BooksTyped
  <2>7. ASSUME NEW id \in DOMAIN simOrders' \ DOMAIN simOrders
        PROVE  WellMatched(simOrders'[id], books[simOrders'[id].sym][simOrders'[id].side],
                           books'[simOrders'[id].sym][simOrders'[id].side])
    <3>1. simOrders'[id] = o BY <2>1 DEF With
    <3> QED BY <2>3, <2>4, <2>5, <3>1 DEF level
  <2> QED BY <2>6, <2>7 DEF NewOrdersMatched
<1>2. ASSUME NEW sym \in SimSymbols, NEW side \in Sides, NEW p \in SimPrices, NEW q \in SimQtys,
             SetBook(sym, side, p, q)
      PROVE  BooksTyped' /\ NewOrdersMatched
  <2> DEFINE b == [NoBook EXCEPT ![side] = [r \in SimPrices |-> IF r <= p THEN q ELSE 0]]
             D == DOMAIN books
  <2>1. books' = With(books, sym, b) /\ simOrders' = simOrders BY <1>2 DEF SetBook
  <2>2. b \in [Sides -> Levels] BY DEF NoBook, Levels
  <2> HIDE DEF b
  <2>3. DOMAIN books' = D \cup {sym} /\ books' \in [D \cup {sym} -> [Sides -> Levels]]
    BY <2>1, <2>2 DEF With, BooksTyped
  <2>4. D \cup {sym} \subseteq SimSymbols BY DEF BooksTyped
  <2>5. BooksTyped' BY <2>3, <2>4 DEF BooksTyped
  <2> QED BY <2>1, <2>5 DEF NewOrdersMatched
<1>3. ASSUME books' = books, DOMAIN simOrders' = DOMAIN simOrders
      PROVE  BooksTyped' /\ NewOrdersMatched
  BY <1>3 DEF BooksTyped, NewOrdersMatched
<1>4. ASSUME \/ \E sym \in SimSymbols : SimReject(sym)
             \/ \E id \in 1..MaxSimOrders :
                   \/ \E op \in {"submit", "modify", "cancel"} : SimRefuse(op, id)
                   \/ SimStatus(id)
             \/ \E r \in {"ready", "config_error", "disconnected"} : ForceReady(r)
             \/ UNCHANGED simVars
      PROVE  books' = books /\ simOrders' = simOrders
  BY <1>4 DEF SimReject, SimRefuse, SimStatus, ForceReady, simVars
<1>5. ASSUME NEW id \in 1..MaxSimOrders,
             \/ SimCancel(id)
             \/ \E q \in SimQtys \cup {0}, l \in SimPrices \cup {0} : SimModify(id, q, l)
      PROVE  books' = books /\ DOMAIN simOrders' = DOMAIN simOrders
  BY <1>5 DEF SimCancel, SimModify
<1> QED BY <1>1, <1>2, <1>3, <1>4, <1>5 DEF SimNextStep

\* Every order the simulated broker accepts takes the best prices of its side
\* first, all it can within its limit and never more than it asked for, and its
\* average price lies between the prices it was filled at, for every book and
\* every number of levels (orderbook.rs consume_asks and consume_bids, lifecycle.rs apply_fills).
THEOREM BestPricesFirst == SimSpec => BestPriceFirst
<1>1. SimInit => BooksTyped
  <2> SUFFICES ASSUME SimInit PROVE BooksTyped OBVIOUS
  <2>1. books = <<>> BY DEF SimInit
  <2>2. DOMAIN books = {} /\ books = [x \in {} |-> 0] BY <2>1
  <2> QED BY <2>2 DEF BooksTyped
<1>2. BooksTyped /\ [SimNextStep]_simVars => BooksTyped' BY SimStep
<1>3. BooksTyped /\ [SimNextStep]_simVars => [NewOrdersMatched]_simVars BY SimStep
<1> QED BY <1>1, <1>2, <1>3, PTL DEF SimSpec, BestPriceFirst
-----------------------------------------------------------------------------
(* The window of aggressor volume of the order-flow engine (metrics.rs). *)

Bucket == [start : Int, buyer : Nat, seller : Nat]
Trade == [at : Nat, buyer : Nat, seller : Nat]

\* What a bucket and a trade count for one side when the window begins at c.
BucketWeight(vol, c) ==
    [b \in Bucket |-> IF b # NoBucket /\ b.start >= c THEN vol[b] ELSE 0]
TradeWeight(vol, c) ==
    [t \in Trade |-> IF BucketStart(t.at) >= c THEN vol[t] ELSE 0]

BuyerOf(S) == [r \in S |-> r.buyer]
SellerOf(S) == [r \in S |-> r.seller]

\* The buckets hold the volume of the trades from c on.
Held(vb, vt, cl, op, tr, c) ==
    SeqSum(cl, BucketWeight(vb, c)) + BucketWeight(vb, c)[op] = SeqSum(tr, TradeWeight(vt, c))

BothHeld(cl, op, tr, c) ==
    /\ Held(BuyerOf(Bucket), BuyerOf(Trade), cl, op, tr, c)
    /\ Held(SellerOf(Bucket), SellerOf(Trade), cl, op, tr, c)

\* The window can begin at c: no bucket that starts there or later was pushed out.
Reaches(cl, c) == Len(cl) = Buckets => c >= cl[1].start

WindowTypes ==
    /\ closed \in Seq(Bucket) /\ openBucket \in Bucket /\ traded \in Seq(Trade)
    /\ ofNow \in Nat /\ Len(closed) <= Buckets

\* Buckets follow each other at least a bucket apart.
Spaced(s) ==
    \A i, j \in 1..Len(s) : i < j => s[i].start + (j - i) * BucketNs <= s[j].start

\* Buckets are closed in the order of the clock, and the open one is not in the
\* future.
WindowOrder ==
    IF openBucket = NoBucket THEN closed = <<>>
    ELSE /\ Spaced(Append(closed, openBucket))
         /\ \E m \in Nat : openBucket.start = m * BucketNs /\ m * BucketNs <= ofNow

WindowInv ==
    /\ WindowTypes /\ WindowOrder
    /\ \A c \in Int : Reaches(closed, c) => BothHeld(closed, openBucket, traded, c)

\* The start of the bucket of the present moment.
LEMMA StartOfNow ==
    ASSUME NEW at \in Nat
    PROVE  /\ BucketStart(at) \in Nat /\ BucketStart(at) <= at
           /\ at \div BucketNs \in Nat /\ BucketStart(at) = (at \div BucketNs) * BucketNs
           /\ \A m \in Nat : m * BucketNs <= at /\ m * BucketNs # BucketStart(at)
                                => m * BucketNs + BucketNs <= BucketStart(at)
<1> USE OrderflowAssumption
<1> DEFINE B == BucketNs
           q == at \div B
<1>1. B \in Nat \ {0} OBVIOUS
<1>2. q \in Nat /\ at - B * q \in 0..(B - 1) BY <1>1
<1>3. BucketStart(at) = q * B BY DEF BucketStart
<1> HIDE DEF q, B
<1>4. q * B \in Nat /\ q * B <= at /\ at < q * B + B
  <2>1. B * q \in Nat /\ q * B = B * q BY <1>1, <1>2
  <2> QED BY <1>1, <1>2, <2>1
<1>5. \A a, b \in Nat : a + 1 <= b => a * B + B <= b * B
  <2> SUFFICES ASSUME NEW a \in Nat, NEW b \in Nat, a + 1 <= b PROVE a * B + B <= b * B OBVIOUS
  <2>1. b - (a + 1) \in Nat OBVIOUS
  <2>2. \A c \in Nat : c * B \in Nat BY <1>1
  <2>3. (b - (a + 1)) * B \in Nat BY <2>1, <2>2
  <2>4. (b - (a + 1)) * B = b * B - (a * B + B) BY <1>1
  <2>5. b * B \in Int /\ a * B \in Int BY <1>1
  <2> QED BY <1>1, <2>3, <2>4, <2>5
<1>6. ASSUME NEW m \in Nat, m * B <= at, m * B # q * B PROVE m * B + B <= q * B
  <2>1. m * B \in Nat BY <1>1
  <2>2. CASE m + 1 <= q BY <1>2, <1>5, <2>2
  <2>3. CASE q + 1 <= m
    <3>1. q * B + B <= m * B BY <1>2, <1>5, <2>3
    <3> QED BY <1>1, <1>4, <1>6, <2>1, <3>1
  <2>4. m = q \/ m + 1 <= q \/ q + 1 <= m BY <1>2
  <2> QED BY <1>6, <2>2, <2>3, <2>4
<1> QED BY <1>2, <1>3, <1>4, <1>6 DEF q, B

\* The weights are numbers.
LEMMA WeightsTyped ==
    ASSUME NEW vb \in [Bucket -> Nat], NEW vt \in [Trade -> Nat], NEW c \in Int
    PROVE  /\ BucketWeight(vb, c) \in [Bucket -> Int]
           /\ TradeWeight(vt, c) \in [Trade -> Int]
           /\ \A b \in Bucket : BucketWeight(vb, c)[b]
                  = IF b # NoBucket /\ b.start >= c THEN vb[b] ELSE 0
           /\ \A t \in Trade : TradeWeight(vt, c)[t]
                  = IF BucketStart(t.at) >= c THEN vt[t] ELSE 0
  BY DEF BucketWeight, TradeWeight

\* A trade t is recorded into a window that holds its volume from c on; op2 is the
\* bucket that is open then.
Records(vb, vt, cl, op, tr, c, t, op2) ==
    /\ vb \in [Bucket -> Nat] /\ vt \in [Trade -> Nat] /\ c \in Int
    /\ cl \in Seq(Bucket) /\ op \in Bucket /\ tr \in Seq(Trade) /\ t \in Trade /\ op2 \in Bucket
    /\ Held(vb, vt, cl, op, tr, c)
    /\ op2 # NoBucket /\ op2.start = BucketStart(t.at)

\* The window still holds its volume, whether the trade falls into the open bucket
\* or opens a new one, and whether or not closing the old one pushes out a bucket
\* that starts before c.
LEMMA RecordHolds ==
    ASSUME NEW vb, NEW vt, NEW cl, NEW op, NEW tr, NEW c, NEW t, NEW op2,
           Records(vb, vt, cl, op, tr, c, t, op2)
    PROVE  /\ op # NoBucket /\ op.start = op2.start /\ vb[op2] = vb[op] + vt[t]
                => Held(vb, vt, cl, op2, Append(tr, t), c)
           /\ op = NoBucket /\ vb[op2] = vt[t] => Held(vb, vt, cl, op2, Append(tr, t), c)
           /\ vb[op2] = vt[t] => Held(vb, vt, Append(cl, op), op2, Append(tr, t), c)
           /\ vb[op2] = vt[t] /\ cl # <<>> /\ cl[1].start < c
                => Held(vb, vt, Append(Tail(cl), op), op2, Append(tr, t), c)
<1> DEFINE w == BucketWeight(vb, c)
           z == TradeWeight(vt, c)
           A == SeqSum(cl, w)
           T == SeqSum(tr, z)
<1>0. /\ vb \in [Bucket -> Nat] /\ vt \in [Trade -> Nat] /\ c \in Int
      /\ cl \in Seq(Bucket) /\ op \in Bucket /\ tr \in Seq(Trade) /\ t \in Trade /\ op2 \in Bucket
      /\ op2 # NoBucket /\ op2.start = BucketStart(t.at)
  BY DEF Records
<1>1. A + w[op] = T BY DEF Records, Held
<1>2. /\ w \in [Bucket -> Int] /\ z \in [Trade -> Int]
      /\ \A b \in Bucket : w[b] = IF b # NoBucket /\ b.start >= c THEN vb[b] ELSE 0
      /\ \A u \in Trade : z[u] = IF BucketStart(u.at) >= c THEN vt[u] ELSE 0
  BY <1>0, WeightsTyped
<1>3. A \in Int /\ SeqSum(Append(cl, op), w) = A + w[op]
  <2>1. cl \in Seq(Bucket) /\ op \in Bucket BY <1>0
  <2>2. w \in [Bucket -> Int] BY <1>2
  <2> HIDE DEF w
  <2> QED BY <2>1, <2>2, SeqSumAppend, Zenon
<1>4. T \in Int /\ SeqSum(Append(tr, t), z) = T + z[t]
  <2>1. tr \in Seq(Trade) /\ t \in Trade BY <1>0
  <2>2. z \in [Trade -> Int] BY <1>2
  <2> HIDE DEF z
  <2> QED BY <2>1, <2>2, SeqSumAppend, Zenon
<1>5. \A s \in Seq(Bucket) : Held(vb, vt, s, op2, Append(tr, t), c)
                               <=> SeqSum(s, w) + w[op2] = T + z[t]
  BY <1>4 DEF Held
<1>6. /\ w[op] = (IF op # NoBucket /\ op.start >= c THEN vb[op] ELSE 0)
      /\ w[op2] = (IF op2.start >= c THEN vb[op2] ELSE 0)
      /\ z[t] = (IF op2.start >= c THEN vt[t] ELSE 0)
      /\ w[op] \in Int /\ vb[op] \in Nat /\ vb[op2] \in Nat /\ vt[t] \in Nat
      /\ op2.start \in Int
  BY <1>0, <1>2 DEF Bucket
<1> HIDE DEF w, z, A, T
<1>7. vb[op2] = vt[t] => w[op2] = z[t] BY <1>6
<1>8. ASSUME op # NoBucket, op.start = op2.start, vb[op2] = vb[op] + vt[t]
      PROVE  Held(vb, vt, cl, op2, Append(tr, t), c)
  <2>1. w[op2] = w[op] + z[t] BY <1>6, <1>8
  <2>2. A + w[op2] = T + z[t] /\ SeqSum(cl, w) = A BY <1>1, <1>3, <1>4, <1>6, <2>1 DEF A
  <2> QED BY <1>0, <1>5, <2>2
<1>9. ASSUME op = NoBucket, vb[op2] = vt[t] PROVE Held(vb, vt, cl, op2, Append(tr, t), c)
  <2>1. w[op] = 0 BY <1>6, <1>9
  <2>2. A + w[op2] = T + z[t] /\ SeqSum(cl, w) = A BY <1>1, <1>3, <1>7, <1>9, <2>1 DEF A
  <2> QED BY <1>0, <1>5, <2>2
<1>10. ASSUME vb[op2] = vt[t] PROVE Held(vb, vt, Append(cl, op), op2, Append(tr, t), c)
  <2>1. SeqSum(Append(cl, op), w) + w[op2] = T + z[t] BY <1>1, <1>3, <1>7, <1>10
  <2>2. Append(cl, op) \in Seq(Bucket) BY <1>0
  <2> QED BY <1>5, <2>1, <2>2
<1>11. ASSUME vb[op2] = vt[t], cl # <<>>, cl[1].start < c
       PROVE  Held(vb, vt, Append(Tail(cl), op), op2, Append(tr, t), c)
  <2>1. Tail(cl) \in Seq(Bucket) /\ cl[1] \in Bucket BY <1>0, <1>11
  <2>2. A = w[cl[1]] + SeqSum(Tail(cl), w) /\ SeqSum(Tail(cl), w) \in Int
    BY <1>0, <1>2, <1>11, SeqSumTail DEF A
  <2>3. w[cl[1]] = 0
    <3>1. cl[1].start \in Int BY <2>1 DEF Bucket
    <3>2. ~(cl[1].start >= c) BY <1>0, <1>11, <3>1
    <3> QED BY <1>2, <2>1, <3>2
  <2>4. SeqSum(Append(Tail(cl), op), w) = SeqSum(Tail(cl), w) + w[op]
    <3>1. w \in [Bucket -> Int] /\ op \in Bucket BY <1>0, <1>2
    <3> QED BY <2>1, <3>1, SeqSumAppend, Zenon
  <2>5. SeqSum(Append(Tail(cl), op), w) + w[op2] = T + z[t]
    BY <1>1, <1>3, <1>6, <1>7, <1>11, <2>2, <2>3, <2>4
  <2>6. Append(Tail(cl), op) \in Seq(Bucket) BY <1>0, <2>1
  <2> QED BY <1>5, <2>5, <2>6
<1> QED BY <1>8, <1>9, <1>10, <1>11

\* A bucket that begins later goes to the end; the first may go; the last may fill.
LEMMA SpacedSteps ==
    ASSUME NEW s \in Seq(Bucket), Spaced(s), s # <<>>, NEW x \in Bucket
    PROVE  /\ s[Len(s)].start + BucketNs <= x.start => Spaced(Append(s, x))
           /\ Spaced(Tail(s))
<1> USE OrderflowAssumption
<1> DEFINE n == Len(s)
           B == BucketNs
<1>1. n \in Nat \ {0} /\ B \in Nat /\ \A i \in 1..n : s[i].start \in Int
  <2>1. n \in Nat \ {0} /\ B \in Nat OBVIOUS
  <2>2. \A i \in 1..n : s[i] \in Bucket OBVIOUS
  <2>3. \A b \in Bucket : b.start \in Int BY DEF Bucket
  <2> QED BY <2>1, <2>2, <2>3
<1>2. \A i, j \in 1..n : i < j => s[i].start + (j - i) * B <= s[j].start BY DEF Spaced
<1>3. ASSUME s[n].start + B <= x.start PROVE Spaced(Append(s, x))
  <2> DEFINE a == Append(s, x)
  <2>1. Len(a) = n + 1 /\ a[n + 1] = x /\ (\A i \in 1..n : a[i] = s[i]) /\ x.start \in Int
    BY DEF Bucket
  <2> HIDE DEF a, n, B
  <2>2. ASSUME NEW i \in 1..(n + 1), NEW j \in 1..(n + 1), i < j
        PROVE  a[i].start + (j - i) * B <= a[j].start
    <3>1. i \in 1..n BY <1>1, <2>2
    <3>2. CASE j \in 1..n BY <1>2, <2>1, <2>2, <3>1, <3>2
    <3>3. CASE j = n + 1
      <4>1. (j - i) * B = (n - i) * B + B /\ (n - i) * B \in Int
        <5>1. n - i \in Int /\ j - i = (n - i) + 1 BY <1>1, <3>1, <3>3
        <5>2. \A k \in Int : (k + 1) * B = k * B + B /\ k * B \in Int BY <1>1
        <5> QED BY <5>1, <5>2
      <4>2. s[i].start + (n - i) * B <= s[n].start
        <5>1. CASE i = n
          <6>1. n - i = 0 /\ 0 * B = 0 BY <1>1, <5>1
          <6>2. (n - i) * B = 0 BY <6>1
          <6>3. s[i].start = s[n].start /\ s[n].start \in Int BY <1>1, <3>1, <5>1
          <6>4. \A p \in Int : p + 0 <= p OBVIOUS
          <6> QED BY <6>2, <6>3, <6>4
        <5>2. CASE i # n
          <6>1. i < n /\ n \in 1..n BY <1>1, <3>1, <5>2
          <6> QED BY <1>2, <3>1, <6>1
        <5> QED BY <5>1, <5>2
      <4>3. s[i].start \in Int /\ s[n].start \in Int BY <1>1, <3>1
      <4>4. a[i].start = s[i].start /\ a[j].start = x.start BY <2>1, <3>1, <3>3
      <4>5. s[n].start + B <= x.start /\ B \in Int /\ x.start \in Int BY <1>1, <1>3, <2>1 DEF n, B
      <4>6. \A p, q, r, u, v \in Int : p + u <= q /\ q + v <= r => p + (u + v) <= r OBVIOUS
      <4>7. s[i].start + ((n - i) * B + B) <= x.start BY <4>1, <4>2, <4>3, <4>5, <4>6
      <4> QED BY <4>1, <4>4, <4>7
    <3>4. j \in 1..n \/ j = n + 1 BY <1>1
    <3> QED BY <3>2, <3>3, <3>4
  <2>3. Spaced(a) BY <2>1, <2>2 DEF Spaced, B
  <2> QED BY <2>3 DEF a
<1>4. Spaced(Tail(s))
  <2> DEFINE a == Tail(s)
  <2>1. Len(a) = n - 1 /\ \A i \in 1..(n - 1) : a[i] = s[i + 1] OBVIOUS
  <2> HIDE DEF a, n, B
  <2>2. ASSUME NEW i \in 1..(n - 1), NEW j \in 1..(n - 1), i < j
        PROVE  a[i].start + (j - i) * B <= a[j].start
    <3>1. /\ i + 1 \in 1..n /\ j + 1 \in 1..n /\ i + 1 < j + 1 /\ (j + 1) - (i + 1) = j - i
      BY <1>1, <2>2
    <3>2. s[i + 1].start + ((j + 1) - (i + 1)) * B <= s[j + 1].start BY <1>2, <3>1
    <3> QED BY <2>1, <3>1, <3>2
  <2>3. Spaced(a) BY <2>1, <2>2 DEF Spaced, B
  <2> QED BY <2>3 DEF a
<1> QED BY <1>3, <1>4 DEF n, B

\* Filling the last bucket does not move it.
LEMMA SpacedLast ==
    ASSUME NEW s \in Seq(Bucket), NEW x \in Bucket, NEW y \in Bucket, Spaced(Append(s, x)),
           y.start = x.start
    PROVE  Spaced(Append(s, y))
<1> DEFINE n == Len(s)
           a == Append(s, x)
           b == Append(s, y)
<1>1. n \in Nat /\ Len(a) = n + 1 /\ Len(b) = n + 1 OBVIOUS
<1>2. \A i \in 1..n : a[i] = s[i] /\ b[i] = s[i] OBVIOUS
<1>3. a[n + 1] = x /\ b[n + 1] = y OBVIOUS
<1> HIDE DEF n, a, b
<1>4. \A i \in 1..(n + 1) : a[i].start = b[i].start
  <2>1. \A i \in 1..(n + 1) : i \in 1..n \/ i = n + 1 BY <1>1
  <2> QED BY <1>2, <1>3, <2>1
<1>5. Spaced(a) BY DEF a
<1>6. Spaced(b) BY <1>1, <1>4, <1>5 DEF Spaced
<1> QED BY <1>6 DEF b

\* The recording of a trade, for both sides at once.
RecordsBoth(cl, op, tr, c, t, op2) ==
    /\ cl \in Seq(Bucket) /\ op \in Bucket /\ tr \in Seq(Trade) /\ c \in Int
    /\ t \in Trade /\ op2 \in Bucket
    /\ BothHeld(cl, op, tr, c)
    /\ op2 # NoBucket /\ op2.start = BucketStart(t.at)

\* What RecordHolds says of a side holds of the two.
LEMMA RecordHoldsBoth ==
    ASSUME NEW cl, NEW op, NEW tr, NEW c, NEW t, NEW op2, RecordsBoth(cl, op, tr, c, t, op2)
    PROVE  /\ /\ op # NoBucket /\ op.start = op2.start
              /\ op2.buyer = op.buyer + t.buyer /\ op2.seller = op.seller + t.seller
              => BothHeld(cl, op2, Append(tr, t), c)
           /\ op2.buyer = t.buyer /\ op2.seller = t.seller =>
                /\ op = NoBucket => BothHeld(cl, op2, Append(tr, t), c)
                /\ BothHeld(Append(cl, op), op2, Append(tr, t), c)
                /\ cl # <<>> /\ cl[1].start < c
                     => BothHeld(Append(Tail(cl), op), op2, Append(tr, t), c)
<1> DEFINE bb == BuyerOf(Bucket)
           bt == BuyerOf(Trade)
           sb == SellerOf(Bucket)
           st == SellerOf(Trade)
<1>0. /\ op \in Bucket /\ op2 \in Bucket /\ t \in Trade BY DEF RecordsBoth
<1>1. /\ bb \in [Bucket -> Nat] /\ sb \in [Bucket -> Nat]
      /\ bt \in [Trade -> Nat] /\ st \in [Trade -> Nat]
  BY DEF BuyerOf, SellerOf, Bucket, Trade
<1>2. /\ bb[op] = op.buyer /\ bb[op2] = op2.buyer /\ bt[t] = t.buyer
      /\ sb[op] = op.seller /\ sb[op2] = op2.seller /\ st[t] = t.seller
  BY <1>0 DEF BuyerOf, SellerOf
<1>3. Records(bb, bt, cl, op, tr, c, t, op2) BY <1>1 DEF Records, RecordsBoth, BothHeld
<1>4. Records(sb, st, cl, op, tr, c, t, op2) BY <1>1 DEF Records, RecordsBoth, BothHeld
<1> DEFINE Same(vb, vt) == op # NoBucket /\ op.start = op2.start /\ vb[op2] = vb[op] + vt[t]
                             => Held(vb, vt, cl, op2, Append(tr, t), c)
           First(vb, vt) == op = NoBucket /\ vb[op2] = vt[t]
                             => Held(vb, vt, cl, op2, Append(tr, t), c)
           Next1(vb, vt) == vb[op2] = vt[t] => Held(vb, vt, Append(cl, op), op2, Append(tr, t), c)
           Full(vb, vt) == vb[op2] = vt[t] /\ cl # <<>> /\ cl[1].start < c
                             => Held(vb, vt, Append(Tail(cl), op), op2, Append(tr, t), c)
<1>5. \A vb, vt : Records(vb, vt, cl, op, tr, c, t, op2)
                    => Same(vb, vt) /\ First(vb, vt) /\ Next1(vb, vt) /\ Full(vb, vt)
  BY RecordHolds
<1>6. Same(bb, bt) /\ First(bb, bt) /\ Next1(bb, bt) /\ Full(bb, bt)
  <2> HIDE DEF Same, First, Next1, Full, bb, bt
  <2> QED BY <1>3, <1>5
<1>7. Same(sb, st) /\ First(sb, st) /\ Next1(sb, st) /\ Full(sb, st)
  <2> HIDE DEF Same, First, Next1, Full, sb, st
  <2> QED BY <1>4, <1>5
<1> QED
  <2>1. \A s : BothHeld(s, op2, Append(tr, t), c)
                 <=> Held(bb, bt, s, op2, Append(tr, t), c) /\ Held(sb, st, s, op2, Append(tr, t), c)
    BY DEF BothHeld
  <2> HIDE DEF bb, bt, sb, st
  <2> QED BY <1>2, <1>6, <1>7, <2>1

\* Recording a trade keeps the window: RollingDelta::record.
LEMMA RecordKeepsWindow ==
    ASSUME WindowInv, NEW buyer \in Nat, NEW seller \in Nat, DeltaRecord(buyer, seller),
           traded' = Append(traded, [at |-> ofNow, buyer |-> buyer, seller |-> seller]),
           ofNow' = ofNow
    PROVE  WindowInv'
<1> USE OrderflowAssumption
<1> DEFINE t == [at |-> ofNow, buyer |-> buyer, seller |-> seller]
           start == BucketStart(ofNow)
           op == openBucket
           op2 == openBucket'
           cl == closed
           a == Append(cl, op)
<1>0. /\ cl \in Seq(Bucket) /\ op \in Bucket /\ traded \in Seq(Trade) /\ ofNow \in Nat
      /\ Len(cl) \in Nat /\ Len(cl) <= Buckets
      /\ \A c \in Int : Reaches(cl, c) => BothHeld(cl, op, traded, c)
  BY DEF WindowInv, WindowTypes
<1>1. /\ start \in Nat /\ start <= ofNow /\ \E m \in Nat : start = m * BucketNs
      /\ \A m \in Nat : m * BucketNs <= ofNow /\ m * BucketNs # start => m * BucketNs + BucketNs <= start
  BY <1>0, StartOfNow
<1>2. t \in Trade /\ t.at = ofNow /\ t.buyer = buyer /\ t.seller = seller BY <1>0 DEF Trade
<1>3. NoBucket \in Bucket /\ NoBucket.start = -1 BY DEF NoBucket, Bucket
<1>4. op.start \in Int /\ op.buyer \in Nat /\ op.seller \in Nat BY <1>0 DEF Bucket
<1>5. op2 \in Bucket /\ op2.start = start /\ op2 # NoBucket
  <2>1. CASE op.start = start
    <3>1. op2 = [op EXCEPT !.buyer = @ + buyer, !.seller = @ + seller] BY <2>1 DEF DeltaRecord
    <3>2. op2 = [start |-> op.start, buyer |-> op.buyer + buyer, seller |-> op.seller + seller]
      BY <1>0, <3>1 DEF Bucket
    <3>3. op.buyer + buyer \in Nat /\ op.seller + seller \in Nat BY <1>4
    <3>4. op2 \in Bucket /\ op2.start = start BY <1>4, <2>1, <3>2, <3>3 DEF Bucket
    <3> QED BY <1>1, <1>3, <3>4
  <2>2. CASE op.start # start
    <3>1. op2 = [start |-> start, buyer |-> buyer, seller |-> seller] BY <2>2 DEF DeltaRecord
    <3>2. op2 \in Bucket /\ op2.start = start BY <1>1, <3>1 DEF Bucket
    <3> QED BY <1>1, <1>3, <3>2
  <2> QED BY <2>1, <2>2
<1>6. ASSUME NEW c \in Int, Reaches(cl, c) PROVE RecordsBoth(cl, op, traded, c, t, op2)
  BY <1>0, <1>2, <1>5, <1>6 DEF RecordsBoth
<1>7. SUFFICES ASSUME TRUE
               PROVE  /\ closed' \in Seq(Bucket) /\ Len(closed') <= Buckets
                      /\ Spaced(Append(closed', op2))
                      /\ \A c \in Int : Reaches(closed', c) => BothHeld(closed', op2, Append(traded, t), c)
  <2>1. traded' \in Seq(Trade) /\ ofNow' \in Nat /\ traded' = Append(traded, t) BY <1>0, <1>2
  <2>2. \E m \in Nat : op2.start = m * BucketNs /\ m * BucketNs <= ofNow' BY <1>1, <1>5
  <2>3. WindowTypes' BY <1>5, <1>7, <2>1 DEF WindowTypes
  <2>4. WindowOrder' BY <1>5, <1>7, <2>2 DEF WindowOrder
  <2> QED BY <1>7, <2>1, <2>3, <2>4 DEF WindowInv
<1>8. CASE op.start = start
  <2>1. /\ op2 = [op EXCEPT !.buyer = @ + buyer, !.seller = @ + seller] /\ closed' = cl
    BY <1>8 DEF DeltaRecord
  <2>2. op2.buyer = op.buyer + buyer /\ op2.seller = op.seller + seller
    BY <1>0, <2>1 DEF Bucket
  <2>3. op # NoBucket BY <1>1, <1>3, <1>8
  <2>4. Spaced(Append(cl, op2))
    <3>1. Spaced(Append(cl, op)) BY <2>3 DEF WindowInv, WindowOrder
    <3> QED BY <1>0, <1>5, <1>8, <3>1, SpacedLast
  <2>5. ASSUME NEW c \in Int, Reaches(cl, c) PROVE BothHeld(cl, op2, Append(traded, t), c)
    <3>1. RecordsBoth(cl, op, traded, c, t, op2) BY <1>6, <2>5
    <3> HIDE DEF t, op2, op, cl
    <3> QED BY <1>2, <1>5, <1>8, <2>2, <2>3, <3>1, RecordHoldsBoth
  <2> QED BY <1>0, <2>1, <2>4, <2>5
<1>9. ASSUME op.start # start
      PROVE  /\ op2.buyer = t.buyer /\ op2.seller = t.seller
             /\ closed' = IF op = NoBucket THEN cl ELSE Pushed(cl, op, Buckets)
  BY <1>9 DEF DeltaRecord, CloseBucket, ClosedBuckets
<1>10. CASE op.start # start /\ op = NoBucket
  <2>1. closed' = cl /\ op2.buyer = t.buyer /\ op2.seller = t.seller BY <1>9, <1>10
  <2>2. cl = <<>> BY <1>10 DEF WindowInv, WindowOrder
  <2>3. Len(Append(cl, op2)) = 1 BY <2>2
  <2>4. Spaced(Append(cl, op2)) BY <2>3 DEF Spaced
  <2>5. ASSUME NEW c \in Int, Reaches(cl, c) PROVE BothHeld(cl, op2, Append(traded, t), c)
    <3>1. RecordsBoth(cl, op, traded, c, t, op2) BY <1>6, <2>5
    <3> HIDE DEF t, op2, op, cl
    <3> QED BY <1>10, <2>1, <3>1, RecordHoldsBoth
  <2> QED BY <1>0, <2>1, <2>4, <2>5
<1>11. ASSUME op.start # start, op # NoBucket
       PROVE  /\ a \in Seq(Bucket) /\ a # <<>> /\ Len(a) = Len(cl) + 1 /\ a[Len(a)] = op /\ Spaced(a)
              /\ \A i \in 1..Len(cl) : a[i] = cl[i]
              /\ op.start + BucketNs <= op2.start
  <2>1. Spaced(a) /\ \E m \in Nat : op.start = m * BucketNs /\ m * BucketNs <= ofNow
    BY <1>11 DEF WindowInv, WindowOrder
  <2>2. op.start + BucketNs <= start BY <1>1, <1>11, <2>1
  <2>3. op.start + BucketNs <= op2.start BY <1>5, <2>2
  <2>4. /\ a \in Seq(Bucket) /\ Len(a) = Len(cl) + 1 /\ a[Len(cl) + 1] = op
        /\ \A i \in 1..Len(cl) : a[i] = cl[i]
    BY <1>0
  <2> HIDE DEF a, op, op2, cl
  <2>5. a # <<>> BY <1>0, <2>4
  <2> QED BY <2>1, <2>3, <2>4, <2>5
<1>12. CASE op.start # start /\ op # NoBucket /\ Len(cl) < Buckets
  <2>1. closed' = a /\ op2.buyer = t.buyer /\ op2.seller = t.seller BY <1>9, <1>12 DEF Pushed
  <2>2. /\ a \in Seq(Bucket) /\ a # <<>> /\ Len(a) = Len(cl) + 1 /\ a[Len(a)] = op /\ Spaced(a)
        /\ op.start + BucketNs <= op2.start
    BY <1>11, <1>12
  <2>3. Spaced(Append(a, op2))
    <3> HIDE DEF a, op2, op
    <3> QED BY <1>5, <2>2, SpacedSteps
  <2>4. ASSUME NEW c \in Int PROVE BothHeld(a, op2, Append(traded, t), c)
    <3>1. Reaches(cl, c) BY <1>0, <1>12 DEF Reaches
    <3>2. RecordsBoth(cl, op, traded, c, t, op2) BY <1>6, <3>1
    <3> HIDE DEF t, op2, op, cl
    <3> QED BY <2>1, <3>2, RecordHoldsBoth
  <2>5. Len(a) <= Buckets BY <1>0, <1>12, <2>2
  <2> HIDE DEF a, t, op2
  <2> QED BY <2>1, <2>2, <2>3, <2>4, <2>5
<1>13. CASE op.start # start /\ op # NoBucket /\ Len(cl) = Buckets
  <2> DEFINE b == Append(Tail(cl), op)
  <2>1. closed' = b /\ op2.buyer = t.buyer /\ op2.seller = t.seller BY <1>9, <1>13 DEF Pushed
  <2>2. /\ a \in Seq(Bucket) /\ a # <<>> /\ Len(a) = Len(cl) + 1 /\ a[Len(a)] = op /\ Spaced(a)
        /\ \A i \in 1..Len(cl) : a[i] = cl[i]
        /\ op.start + BucketNs <= op2.start
    BY <1>11, <1>13
  <2>3. cl # <<>> /\ Tail(cl) \in Seq(Bucket) /\ Len(Tail(cl)) = Len(cl) - 1 BY <1>0, <1>13
  <2>4. b \in Seq(Bucket) /\ Len(b) = Len(cl) /\ b # <<>> /\ b[Len(b)] = op
    <3>1. Len(cl) \in Nat /\ Len(cl) # 0 BY <1>0, <1>13
    <3>2. /\ b \in Seq(Bucket) /\ Len(b) = Len(Tail(cl)) + 1 /\ b[Len(Tail(cl)) + 1] = op
      <4> DEFINE u == Tail(cl)
      <4>1. u \in Seq(Bucket) /\ op \in Bucket BY <1>0, <2>3
      <4> HIDE DEF u, op
      <4>2. Append(u, op) \in Seq(Bucket) /\ Len(Append(u, op)) = Len(u) + 1 /\ Append(u, op)[Len(u) + 1] = op
        BY <4>1
      <4> QED BY <4>2 DEF u
    <3>3. Len(Tail(cl)) + 1 = Len(cl) BY <2>3, <3>1
    <3> HIDE DEF b, cl, op
    <3>4. b # <<>> BY <3>1, <3>2, <3>3
    <3> QED BY <3>2, <3>3, <3>4
  <2>5. b = Tail(a) BY <1>0, <2>3
  <2>6. Spaced(b)
    <3> HIDE DEF a, b, op2, op
    <3> QED BY <1>5, <2>2, <2>5, SpacedSteps
  <2>7. Spaced(Append(b, op2))
    <3> HIDE DEF b, op2, op
    <3> QED BY <1>5, <2>2, <2>4, <2>6, SpacedSteps
  <2>8. cl[1].start < b[1].start
    <3>1. b[1] = a[2] /\ a[1] = cl[1] /\ 1 \in 1..Len(a) /\ 2 \in 1..Len(a)
      BY <1>0, <1>13, <2>2, <2>5
    <3>2. a[1].start + (2 - 1) * BucketNs <= a[2].start BY <2>2, <3>1 DEF Spaced
    <3>3. a[1] \in Bucket /\ a[2] \in Bucket BY <2>2, <3>1
    <3>4. a[1].start \in Int /\ a[2].start \in Int BY <3>3 DEF Bucket
    <3>5. (2 - 1) * BucketNs = BucketNs OBVIOUS
    <3> HIDE DEF a, b
    <3>6. \A x, y, z \in Int : x + y <= z /\ y > 0 => x < z OBVIOUS
    <3>7. BucketNs \in Int /\ BucketNs > 0 OBVIOUS
    <3> QED BY <3>1, <3>2, <3>4, <3>5, <3>6, <3>7
  <2>9. ASSUME NEW c \in Int, Reaches(b, c) PROVE BothHeld(b, op2, Append(traded, t), c)
    <3>1. c >= b[1].start BY <1>13, <2>4, <2>9 DEF Reaches
    <3>2. cl[1].start \in Int /\ b[1].start \in Int
      <4>1. cl[1] \in Bucket /\ b[1] \in Bucket BY <1>0, <2>3, <2>4
      <4> QED BY <4>1 DEF Bucket
    <3>3. cl[1].start < c
      <4>1. \A x, y, z \in Int : x < y /\ z >= y => x < z OBVIOUS
      <4> HIDE DEF b, cl
      <4> QED BY <2>8, <3>1, <3>2, <4>1
    <3>4. Reaches(cl, c) BY <3>2, <3>3 DEF Reaches
    <3>5. RecordsBoth(cl, op, traded, c, t, op2) BY <1>6, <3>4
    <3> HIDE DEF t, op2, op, cl
    <3> QED BY <2>1, <2>3, <3>3, <3>5, RecordHoldsBoth
  <2> HIDE DEF b, t, op2
  <2> QED BY <1>13, <2>1, <2>4, <2>7, <2>9
<1> QED BY <1>0, <1>8, <1>10, <1>12, <1>13

\* The window starts empty, and every step keeps it.
LEMMA WindowFacts == (OfInit => WindowInv) /\ (WindowInv /\ [OfNext]_ofVars => WindowInv')
<1> USE OrderflowAssumption
<1>1. OfInit => WindowInv
  <2> SUFFICES ASSUME OfInit PROVE WindowInv OBVIOUS
  <2>1. closed = <<>> /\ traded = <<>> /\ openBucket = NoBucket /\ ofNow = 0 BY DEF OfInit
  <2>2. <<>> \in Seq(Bucket) /\ <<>> \in Seq(Trade) OBVIOUS
  <2>3. NoBucket \in Bucket BY DEF NoBucket, Bucket
  <2>4. WindowTypes BY <2>1, <2>2, <2>3 DEF WindowTypes
  <2>5. WindowOrder BY <2>1 DEF WindowOrder
  <2>6. ASSUME NEW c \in Int, NEW vb \in [Bucket -> Nat], NEW vt \in [Trade -> Nat]
        PROVE  Held(vb, vt, closed, openBucket, traded, c)
    <3>1. BucketWeight(vb, c) \in [Bucket -> Int] /\ TradeWeight(vt, c) \in [Trade -> Int] BY WeightsTyped
    <3>2. BucketWeight(vb, c)[NoBucket] = 0 BY <2>3, WeightsTyped
    <3>3. SeqSum(<<>>, BucketWeight(vb, c)) = 0 /\ SeqSum(<<>>, TradeWeight(vt, c)) = 0
      BY <3>1, SeqSumEmpty
    <3> QED BY <2>1, <3>2, <3>3 DEF Held
  <2>7. /\ BuyerOf(Bucket) \in [Bucket -> Nat] /\ SellerOf(Bucket) \in [Bucket -> Nat]
        /\ BuyerOf(Trade) \in [Trade -> Nat] /\ SellerOf(Trade) \in [Trade -> Nat]
    BY DEF BuyerOf, SellerOf, Bucket, Trade
  <2>8. \A c \in Int : BothHeld(closed, openBucket, traded, c) BY <2>6, <2>7 DEF BothHeld
  <2> QED BY <2>4, <2>5, <2>8 DEF WindowInv
<1>2. WindowInv /\ [OfNext]_ofVars => WindowInv'
  <2> SUFFICES ASSUME WindowInv, [OfNext]_ofVars PROVE WindowInv' OBVIOUS
  <2>1. ASSUME UNCHANGED <<closed, openBucket, traded>>, ofNow' \in Nat, ofNow <= ofNow'
        PROVE  WindowInv'
    <3>1. WindowTypes' BY <2>1 DEF WindowInv, WindowTypes
    <3>2. WindowOrder'
      <4>1. CASE openBucket = NoBucket BY <2>1, <4>1 DEF WindowInv, WindowOrder
      <4>2. CASE openBucket # NoBucket
        <5>1. PICK m \in Nat : openBucket.start = m * BucketNs /\ m * BucketNs <= ofNow
          BY <4>2 DEF WindowInv, WindowOrder
        <5>2. m * BucketNs \in Int /\ ofNow \in Int BY DEF WindowInv, WindowTypes
        <5>3. m * BucketNs <= ofNow' BY <2>1, <5>1, <5>2
        <5>4. Spaced(Append(closed, openBucket)) BY <4>2 DEF WindowInv, WindowOrder
        <5> QED BY <2>1, <4>2, <5>1, <5>3, <5>4 DEF WindowOrder
      <4> QED BY <4>1, <4>2
    <3> QED BY <2>1, <3>1, <3>2 DEF WindowInv
  <2>2. ofNow \in Nat BY DEF WindowInv, WindowTypes
  <2>3. ASSUME NEW u \in BookUpdates, NEW ts \in 1..MaxBooks, IngestBook(u, ts) PROVE WindowInv'
    BY <2>1, <2>2, <2>3 DEF IngestBook
  <2>4. ASSUME NEW px \in FlowPrices, NEW q \in FlowQtys, IngestTick(px, q) PROVE WindowInv'
    <3> DEFINE buyer == IF ofBook.ask # <<>> /\ px >= ofBook.ask[1].price THEN q ELSE 0
               seller == IF ofBook.bid # <<>> /\ px <= ofBook.bid[1].price THEN q ELSE 0
    <3>1. buyer \in Nat /\ seller \in Nat OBVIOUS
    <3>2. ofNow' = ofNow BY <2>4 DEF IngestTick
    <3>3. CASE buyer # 0 \/ seller # 0
      <4>1. /\ DeltaRecord(buyer, seller)
            /\ traded' = Append(traded, [at |-> ofNow, buyer |-> buyer, seller |-> seller])
        BY <2>4, <3>3 DEF IngestTick
      <4> HIDE DEF buyer, seller
      <4> QED BY <3>1, <3>2, <4>1, RecordKeepsWindow
    <3>4. CASE ~(buyer # 0 \/ seller # 0)
      <4>1. UNCHANGED <<closed, openBucket, traded>> BY <2>4, <3>4 DEF IngestTick
      <4> QED BY <2>1, <2>2, <3>2, <4>1
    <3> QED BY <3>3, <3>4
  <2>5. CASE ClockTick BY <2>1, <2>2, <2>5 DEF ClockTick
  <2>6. CASE UNCHANGED ofVars BY <2>1, <2>2, <2>6 DEF ofVars
  <2> QED BY <2>3, <2>4, <2>5, <2>6 DEF OfNext
<1> QED BY <1>1, <1>2

\* The closed buckets and the open one as one sequence.
LEMMA HeldInAll ==
    ASSUME NEW vb \in [Bucket -> Nat], NEW vt, NEW cl \in Seq(Bucket), NEW op \in Bucket,
           NEW tr, NEW c \in Int, Held(vb, vt, cl, op, tr, c)
    PROVE  SeqSum(Append(cl, op), BucketWeight(vb, c)) = SeqSum(tr, TradeWeight(vt, c))
<1> DEFINE w == BucketWeight(vb, c)
<1>1. w \in [Bucket -> Int] BY DEF BucketWeight
<1>2. SeqSum(Append(cl, op), w) = SeqSum(cl, w) + w[op]
  <2> HIDE DEF w
  <2> QED BY <1>1, SeqSumAppend, Zenon
<1> QED BY <1>2 DEF Held

\* The cutoff of a query lies within the reach of the buckets that are kept.
LEMMA WindowAnswers == WindowInv => VolumeNotForgotten
<1> USE OrderflowAssumption
<1> SUFFICES ASSUME WindowInv PROVE VolumeNotForgotten OBVIOUS
<1> DEFINE c == ofNow - FlowWindow
           a == Append(closed, openBucket)
<1>0. /\ closed \in Seq(Bucket) /\ openBucket \in Bucket /\ traded \in Seq(Trade)
      /\ ofNow \in Nat /\ Len(closed) \in Nat
  BY DEF WindowInv, WindowTypes
<1>1. FlowWindow = Buckets * BucketNs /\ FlowWindow \in Int /\ c \in Int BY <1>0 DEF FlowWindow
<1>2. Reaches(closed, c)
  <2> SUFFICES ASSUME Len(closed) = Buckets PROVE c >= closed[1].start BY DEF Reaches
  <2>1. openBucket # NoBucket
    <3>1. closed # <<>> BY <1>0
    <3> QED BY <3>1 DEF WindowInv, WindowOrder
  <2>2. Spaced(a) /\ openBucket.start <= ofNow BY <2>1 DEF WindowInv, WindowOrder
  <2>3. /\ Len(a) = Buckets + 1 /\ a[Buckets + 1] = openBucket /\ a[1] = closed[1]
        /\ 1 \in 1..Len(a) /\ Buckets + 1 \in 1..Len(a) /\ 1 < Buckets + 1
    BY <1>0
  <2>4. closed[1].start \in Int /\ openBucket.start \in Int
    <3>1. closed[1] \in Bucket BY <1>0
    <3> QED BY <1>0, <3>1 DEF Bucket
  <2> HIDE DEF a
  <2>5. a[1].start + ((Buckets + 1) - 1) * BucketNs <= a[Buckets + 1].start BY <2>2, <2>3 DEF Spaced
  <2>6. (Buckets + 1) - 1 = Buckets OBVIOUS
  <2>7. closed[1].start + FlowWindow <= openBucket.start BY <1>1, <2>3, <2>5, <2>6
  <2> QED BY <1>0, <1>1, <2>2, <2>4, <2>7
<1>3. BothHeld(closed, openBucket, traded, c) BY <1>1, <1>2 DEF WindowInv
<1>4. ASSUME NEW vb \in [Bucket -> Nat], NEW vt \in [Trade -> Nat],
             Held(vb, vt, closed, openBucket, traded, c)
      PROVE  SeqSum(a, BucketWeight(vb, c)) = SeqSum(traded, TradeWeight(vt, c))
  BY <1>0, <1>1, <1>4, HeldInAll
<1>5. /\ BuyerOf(Bucket) \in [Bucket -> Nat] /\ SellerOf(Bucket) \in [Bucket -> Nat]
      /\ BuyerOf(Trade) \in [Trade -> Nat] /\ SellerOf(Trade) \in [Trade -> Nat]
  BY DEF BuyerOf, SellerOf, Bucket, Trade
<1>6. \A i \in DOMAIN a : a[i] \in Bucket BY <1>0
<1>7. \A i \in DOMAIN traded : traded[i] \in Trade BY <1>0
<1>8. BuyerVolume = SeqSum(a, BucketWeight(BuyerOf(Bucket), c))
  BY <1>6 DEF BuyerVolume, Total, IsLive, SeqSum, BucketWeight, BuyerOf
<1>9. SellerVolume = SeqSum(a, BucketWeight(SellerOf(Bucket), c))
  BY <1>6 DEF SellerVolume, Total, IsLive, SeqSum, BucketWeight, SellerOf
<1>10. Total(traded, LAMBDA t : IF IsLive(BucketStart(t.at)) THEN t.buyer ELSE 0)
        = SeqSum(traded, TradeWeight(BuyerOf(Trade), c))
  BY <1>7 DEF Total, IsLive, SeqSum, TradeWeight, BuyerOf
<1>11. Total(traded, LAMBDA t : IF IsLive(BucketStart(t.at)) THEN t.seller ELSE 0)
        = SeqSum(traded, TradeWeight(SellerOf(Trade), c))
  BY <1>7 DEF Total, IsLive, SeqSum, TradeWeight, SellerOf
<1> HIDE DEF a, c
<1>12. /\ SeqSum(a, BucketWeight(BuyerOf(Bucket), c)) = SeqSum(traded, TradeWeight(BuyerOf(Trade), c))
       /\ SeqSum(a, BucketWeight(SellerOf(Bucket), c)) = SeqSum(traded, TradeWeight(SellerOf(Trade), c))
  BY <1>3, <1>4, <1>5 DEF BothHeld
<1> QED BY <1>8, <1>9, <1>10, <1>11, <1>12 DEF VolumeNotForgotten

\* The ring of closed buckets and the open one hold the volume of every trade whose
\* bucket starts within the window, for every bucket length and every size of the
\* ring: what record pushes out of a full ring starts before any later cutoff
\* (metrics.rs RollingDelta::record, buyer_volume, seller_volume).
THEOREM VolumeIsKept == OfSpec => []VolumeNotForgotten
<1>1. OfInit => WindowInv BY WindowFacts
<1>2. WindowInv /\ [OfNext]_ofVars => WindowInv' BY WindowFacts
<1>3. WindowInv => VolumeNotForgotten BY WindowAnswers
<1> QED BY <1>1, <1>2, <1>3, PTL DEF OfSpec
=============================================================================
