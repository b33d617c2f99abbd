----------------------------- MODULE FeedProofs -----------------------------
(***************************************************************************)
(* The supervisor, the market data it watches over and what is made of it: *)
(* features, the session controllers and the gateway of the cockpit, for   *)
(* every number of feeds, APIs, reports and restarts, of adapter tasks,    *)
(* symbols and messages, of window lengths, and of connections.            *)
(*                                                                         *)
(* Across crashes, every recovery action the other services have seen is   *)
(* in the state file, and a reconnect attempt number is never published    *)
(* twice for a feed.  In the symbol interner look-up, counter and          *)
(* insertion interleave freely, and yet a symbol has one id, which no      *)
(* other symbol has and which never changes.  The incremental indicators   *)
(* are those of the last ticks.  The edges a controller announces          *)
(* alternate.  The join buffer all connections share stays in step, shows  *)
(* no shadowed rank and hides no signal.                                   *)
(***************************************************************************)
EXTENDS Supervisor, MarketData, Features, Session, UiGateway, DataInduction, TLAPS

-----------------------------------------------------------------------------
(* The supervisor: what moves between its tasks. *)

\* The failures the detector sends.
Events ==
    [kind : {"ws_disconnected"}, of : Feeds]
    \cup [kind : {"redis_unavailable"}, of : {"none"}]
    \cup [kind : {"broker_error_rate_breach"}, of : AnyBroker]
    \cup [kind : {"external_api_latency_spike"}, of : Apis]
    \cup [kind : {"ollama_unresponsive"}, of : Models]

\* What the policy decides, as far as the state file tells it apart.
IsAction(a) ==
    \/ a.kind = "reconnect" /\ a.of \in Feeds /\ a.attempt \in Nat
    \/ a.kind = "failover" /\ a.to \in {Primary, Backup}
    \/ a.kind = "redis_reconnect"
    \/ a.kind = "mitigation" /\ a.of \in Apis /\ a.to = Mitigation(a.of)
    \/ a.kind = "fallback" /\ a.of \in Models /\ a.to \in Models

\* The values of SupervisorState.
SupState == [ws : [Feeds -> Nat], broker : AnyBroker \cup {"none"}, model : Models \cup {"none"},
             redis : BOOLEAN, mitigations : [Apis -> {"none", "throttle", "warn"}]]

\* A classifier answers with no failure or with one the policy knows.
LEMMA ClassifyTyped ==
    ASSUME NEW r \in Report, Classify(r) # NoFailure
    PROVE  Classify(r) \in Events
<1>1. CASE r.subject = "md.connection"
  <2>1. Classify(r) = ClassifyMdConnection(r) BY <1>1 DEF Classify
  <2>2. r.source \in Feeds BY <1>1 DEF Report
  <2> QED BY <2>1, <2>2 DEF ClassifyMdConnection, Failure, Events, NoFailure
<1>2. CASE r.subject = "cache.redis"
  <2>1. Classify(r) = ClassifyCacheRedis(r) BY <1>2 DEF Classify
  <2> QED BY <2>1 DEF ClassifyCacheRedis, Failure, Events, NoFailure
<1>3. CASE r.subject = "broker.metric"
  <2>1. Classify(r) = ClassifyBrokerMetric(r) BY <1>3 DEF Classify
  <2>2. r.broker \in AnyBroker BY <1>3 DEF Report
  <2> QED BY <2>1, <2>2 DEF ClassifyBrokerMetric, Failure, Events, NoFailure
<1>4. CASE r.subject = "obs.latency"
  <2>1. Classify(r) = ClassifyObsLatency(r) BY <1>4 DEF Classify
  <2>2. r.stage \in Apis BY <1>4 DEF Report
  <2> QED BY <2>1, <2>2 DEF ClassifyObsLatency, Failure, Events, NoFailure
<1>5. CASE r.subject = "obs.error"
  <2>1. Classify(r) = ClassifyObsError(r) BY <1>5 DEF Classify
  <2> QED BY <2>1 DEF ClassifyObsError, Failure, Events, NoFailure, Models
<1>6. CASE r.subject = "ai.ollama.degraded"
  <2>1. Classify(r) = ClassifyOllama(r) BY <1>6 DEF Classify
  <2>2. r.model \in Models BY <1>6 DEF Report
  <2> QED BY <2>1, <2>2 DEF ClassifyOllama, Failure, Events, NoFailure
<1>7. r.subject \in {"md.connection", "cache.redis", "broker.metric", "obs.latency",
                     "obs.error", "ai.ollama.degraded"}
  BY DEF Report
<1> QED BY <1>1, <1>2, <1>3, <1>4, <1>5, <1>6, <1>7

\* The policy has an action for every failure; a reconnect carries the number
\* of attempts counted so far and only a disconnected feed gets one.
LEMMA DecideTyped ==
    ASSUME NEW e \in Events, NEW n \in Nat
    PROVE  /\ IsAction(Decide(e, n))
           /\ Decide(e, n).kind = "reconnect" <=> e.kind = "ws_disconnected"
           /\ e.kind = "ws_disconnected" => /\ Decide(e, n).of = e.of
                                            /\ Decide(e, n).attempt = n
<1>1. CASE e.kind = "ws_disconnected"
  <2>1. Decide(e, n) = [Decision("reconnect", e.of, "none") EXCEPT !.attempt = n, !.delay = DelayFor(n)]
    BY <1>1 DEF Decide
  <2>2. e.of \in Feeds BY <1>1 DEF Events
  <2> QED BY <1>1, <2>1, <2>2 DEF Decision, IsAction
<1>2. CASE e.kind = "broker_error_rate_breach"
  <2>1. Decide(e, n) = Decision("failover", FailoverPair(e.of)[1], FailoverPair(e.of)[2])
    BY <1>2 DEF Decide
  <2>2. FailoverPair(e.of)[2] \in {Primary, Backup} BY DEF FailoverPair
  <2> QED BY <1>2, <2>1, <2>2 DEF Decision, IsAction
<1>3. CASE e.kind = "redis_unavailable"
  <2>1. Decide(e, n) = Decision("redis_reconnect", "none", "none") BY <1>3 DEF Decide
  <2> QED BY <1>3, <2>1 DEF Decision, IsAction
<1>4. CASE e.kind = "external_api_latency_spike"
  <2>1. Decide(e, n) = Decision("mitigation", e.of, Mitigation(e.of)) BY <1>4 DEF Decide
  <2>2. e.of \in Apis BY <1>4 DEF Events
  <2> QED BY <1>4, <2>1, <2>2 DEF Decision, IsAction
<1>5. CASE e.kind = "ollama_unresponsive"
  <2>1. Decide(e, n) = Decision("fallback", e.of, Fallback(e.of)) BY <1>5 DEF Decide
  <2>2. e.of \in Models BY <1>5 DEF Events
  <2>3. Fallback(e.of) \in Models BY <2>2 DEF Fallback, Models
  <2> QED BY <1>5, <2>1, <2>2, <2>3 DEF Decision, IsAction
<1> QED BY <1>1, <1>2, <1>3, <1>4, <1>5 DEF Events

-----------------------------------------------------------------------------
(* What recording an action does to SupervisorState. *)

\* Recording keeps the type, and counts an attempt of the action's feed only.
LEMMA RecordedTyped ==
    ASSUME NEW s \in SupState, NEW a, IsAction(a)
    PROVE  /\ Recorded(s, a) \in SupState
           /\ a.kind = "reconnect" => Recorded(s, a).ws = [s.ws EXCEPT ![a.of] = @ + 1]
           /\ a.kind # "reconnect" => Recorded(s, a).ws = s.ws
<1>1. CASE a.kind = "reconnect"
  <2>1. Recorded(s, a) = [s EXCEPT !.ws[a.of] = @ + 1] BY <1>1 DEF Recorded, RecordWsAttempt
  <2> QED BY <1>1, <2>1 DEF SupState, IsAction
<1>2. CASE a.kind = "failover"
  <2>1. Recorded(s, a) = [s EXCEPT !.broker = a.to] BY <1>2 DEF Recorded, RecordFailover
  <2> QED BY <1>2, <2>1 DEF SupState, IsAction, AnyBroker
<1>3. CASE a.kind = "redis_reconnect"
  <2>1. Recorded(s, a) = [s EXCEPT !.redis = TRUE] BY <1>3 DEF Recorded
  <2> QED BY <1>3, <2>1 DEF SupState
<1>4. CASE a.kind = "mitigation"
  <2>1. Recorded(s, a) = [s EXCEPT !.mitigations[a.of] = a.to] BY <1>4 DEF Recorded
  <2>2. a.to \in {"none", "throttle", "warn"} BY <1>4 DEF IsAction, Mitigation
  <2> QED BY <1>4, <2>1, <2>2 DEF SupState
<1>5. CASE a.kind = "fallback"
  <2>1. Recorded(s, a) = [s EXCEPT !.model = a.to] BY <1>5 DEF Recorded
  <2> QED BY <1>5, <2>1 DEF SupState, IsAction
<1> QED BY <1>1, <1>2, <1>3, <1>4, <1>5 DEF IsAction

\* What the state says of one action survives the recording of another: the
\* counters only grow, the table of mitigations is fixed, and a broker or a
\* model, once chosen, is only replaced by another.
LEMMA KnownKept ==
    ASSUME NEW s \in SupState, NEW a, IsAction(a), NEW o, IsAction(o), KnownTo(s, o)
    PROVE  KnownTo(Recorded(s, a), o)
<1>1. Recorded(s, a) \in SupState BY RecordedTyped
<1>2. CASE o.kind = "reconnect"
  <2>1. s.ws[o.of] > o.attempt /\ o.of \in Feeds /\ o.attempt \in Nat
    BY <1>2 DEF KnownTo, IsAction
  <2>2. s.ws \in [Feeds -> Nat] BY DEF SupState
  <2>3. a.kind = "reconnect" => a.of \in Feeds BY DEF IsAction
  <2>4. \/ Recorded(s, a).ws = s.ws
        \/ Recorded(s, a).ws = [s.ws EXCEPT ![a.of] = @ + 1] /\ a.of \in Feeds
    BY <2>3, RecordedTyped
  <2>5. Recorded(s, a).ws[o.of] > o.attempt BY <2>1, <2>2, <2>4
  <2> QED BY <1>2, <2>5 DEF KnownTo
<1>3. CASE o.kind = "failover"
  <2>1. Recorded(s, a).broker = IF a.kind = "failover" THEN a.to ELSE s.broker
    BY DEF Recorded, RecordWsAttempt, RecordFailover, IsAction, SupState
  <2> QED BY <1>3, <2>1 DEF KnownTo, IsAction
<1>4. CASE o.kind = "redis_reconnect"
  <2>1. Recorded(s, a).redis = IF a.kind = "redis_reconnect" THEN TRUE ELSE s.redis
    BY DEF Recorded, RecordWsAttempt, RecordFailover, IsAction, SupState
  <2> QED BY <1>4, <2>1 DEF KnownTo
<1>5. CASE o.kind = "mitigation"
  <2>1. Recorded(s, a).mitigations = IF a.kind = "mitigation"
                                     THEN [s.mitigations EXCEPT ![a.of] = a.to] ELSE s.mitigations
    BY DEF Recorded, RecordWsAttempt, RecordFailover, IsAction, SupState
  <2>2. s.mitigations[o.of] = o.to /\ o.of \in Apis /\ o.to = Mitigation(o.of)
    BY <1>5 DEF KnownTo, IsAction
  <2>3. a.kind = "mitigation" => a.of \in Apis /\ a.to = Mitigation(a.of) BY DEF IsAction
  <2>4. s.mitigations \in [Apis -> {"none", "throttle", "warn"}] BY DEF SupState
  <2>5. Recorded(s, a).mitigations[o.of] = o.to BY <2>1, <2>2, <2>3, <2>4
  <2> QED BY <1>5, <2>5 DEF KnownTo
<1>6. CASE o.kind = "fallback"
  <2>1. Recorded(s, a).model = IF a.kind = "fallback" THEN a.to ELSE s.model
    BY DEF Recorded, RecordWsAttempt, RecordFailover, IsAction, SupState
  <2>2. a.kind = "fallback" => a.to # "none" BY DEF IsAction, Models
  <2> QED BY <1>6, <2>1, <2>2 DEF KnownTo
<1> QED BY <1>2, <1>3, <1>4, <1>5, <1>6 DEF IsAction

\* An action is known to the state it was recorded in, provided its attempt
\* number is the count it was decided from.
LEMMA KnownRecorded ==
    ASSUME NEW s \in SupState, NEW a, IsAction(a),
           a.kind = "reconnect" => a.attempt = s.ws[a.of]
    PROVE  KnownTo(Recorded(s, a), a)
<1>1. CASE a.kind = "reconnect"
  <2>1. Recorded(s, a).ws = [s.ws EXCEPT ![a.of] = @ + 1] BY <1>1, RecordedTyped
  <2>2. s.ws \in [Feeds -> Nat] /\ a.of \in Feeds /\ a.attempt \in Nat
    BY <1>1 DEF SupState, IsAction
  <2>3. Recorded(s, a).ws[a.of] = a.attempt + 1 BY <1>1, <2>1, <2>2
  <2> QED BY <1>1, <2>2, <2>3 DEF KnownTo
<1>2. CASE a.kind # "reconnect"
  BY <1>2 DEF KnownTo, Recorded, RecordFailover, IsAction, SupState, Models
<1> QED BY <1>1, <1>2

-----------------------------------------------------------------------------
(* The inductive invariant. *)

\* The types of the channel, the echoes, the state in memory and on disk, and
\* of every action that is being handled or was published.
SupTypes ==
    /\ pc \in {"down", "idle", "decided", "saved"}
    /\ channel \in Seq(Events) /\ echoes \in Seq(Report)
    /\ attempts \in [Feeds -> Nat]
    /\ mem \in SupState
    /\ stateFile = <<>> \/ stateFile \in [{1} -> SupState]
    /\ pc \in {"decided", "saved"} => IsAction(job.action)
    /\ \A o \in actuated : IsAction(o.what)

\* While the loop runs, memory knows whatever was published, as the file does.
MemoryKnows == pc # "down" => \A o \in actuated : KnownTo(mem, o.what)

\* Between deciding and saving the policy's counters are those memory will
\* have, and a reconnect carries the count memory still has.
DecidedInv ==
    pc = "decided" =>
        /\ attempts = Recorded(mem, job.action).ws
        /\ job.action.kind = "reconnect" => job.action.attempt = mem.ws[job.action.of]

\* What is about to be published is in the file.
SavedInv == pc = "saved" => stateFile = <<mem>> /\ KnownTo(mem, job.action)

\* The reconnect about to be published has a number above all those published
\* for its feed since the last clean start (RecoveryPolicy::decide after
\* rehydrate_from_state).
AttemptIsNew ==
    pc = "saved" /\ job.action.kind = "reconnect" =>
        \A o \in actuated :
            o.what.kind = "reconnect" /\ o.what.of = job.action.of
                => o.what.attempt < job.action.attempt

DurableInv == SupTypes /\ PublishedIsDurable /\ MemoryKnows /\ DecidedInv /\ SavedInv /\ AttemptIsNew
\* The supervisor starts in a state of the invariant.
LEMMA DurableInit == SupInit => DurableInv
<1> SUFFICES ASSUME SupInit PROVE DurableInv OBVIOUS
<1>1. FreshState \in SupState BY DEF FreshState, SupState
<1>2. SupTypes BY <1>1 DEF SupInit, SupTypes
<1> QED
  BY <1>2 DEF SupInit, DurableInv, PublishedIsDurable, MemoryKnows, DecidedInv, SavedInv, AttemptIsNew

\* What a start loads is a state.
LEMMA LoadTyped ==
    ASSUME SupTypes
    PROVE  /\ LoadState \in SupState
           /\ stateFile # <<>> => LoadState = stateFile[1]
<1>1. FreshState \in SupState BY DEF FreshState, SupState
<1> QED BY <1>1 DEF SupTypes, LoadState

\* A restart: what was published is in the file, and memory is the file.
LEMMA RehydrateKeeps == DurableInv /\ Rehydrate => DurableInv'
<1> SUFFICES ASSUME DurableInv, Rehydrate PROVE DurableInv' OBVIOUS
<1> USE DEF DurableInv
<1>1. /\ mem' = LoadState /\ attempts' = LoadState.ws /\ pc' = "idle" /\ stateFile' = stateFile
      /\ actuated' = IF stateFile = <<>> THEN {} ELSE actuated
      /\ channel' = channel /\ echoes' = echoes
  BY DEF Rehydrate
<1>2. LoadState \in SupState /\ LoadState.ws \in [Feeds -> Nat] BY LoadTyped DEF SupState
<1>3. SupTypes' BY <1>1, <1>2 DEF SupTypes
<1>4. \A o \in actuated' : stateFile # <<>> /\ o \in actuated BY <1>1
<1>5. PublishedIsDurable' BY <1>1, <1>4 DEF PublishedIsDurable
<1>6. MemoryKnows' BY <1>1, <1>4, LoadTyped DEF MemoryKnows, PublishedIsDurable
<1> QED BY <1>1, <1>3, <1>5, <1>6 DEF DecidedInv, SavedInv, AttemptIsNew

\* A clean start forgets with the state what was published.
LEMMA StartCleanKeeps == DurableInv /\ StartClean => DurableInv'
<1> SUFFICES ASSUME DurableInv, StartClean PROVE DurableInv' OBVIOUS
<1> USE DEF DurableInv
<1>1. FreshState \in SupState /\ FreshState.ws = [f \in Feeds |-> 0] BY DEF FreshState, SupState
<1>2. /\ mem' = FreshState /\ attempts' = [f \in Feeds |-> 0] /\ pc' = "idle"
      /\ actuated' = {} /\ UNCHANGED <<channel, echoes, job, stateFile>>
  BY DEF StartClean
<1>3. SupTypes' BY <1>1, <1>2 DEF SupTypes
<1> QED BY <1>1, <1>2, <1>3 DEF PublishedIsDurable, MemoryKnows, DecidedInv, SavedInv, AttemptIsNew

\* The detector only touches the channel.
LEMMA DeliverKeeps ==
    ASSUME DurableInv, NEW r \in Report, Deliver(r), echoes' \in Seq(Report)
    PROVE  DurableInv'
<1> USE DEF DurableInv
<1>1. UNCHANGED <<pc, attempts, job, mem, stateFile, actuated>> BY DEF Deliver
<1>2. channel' \in Seq(Events)
  <2>1. CASE channel' = channel BY <2>1 DEF SupTypes
  <2>2. CASE Classify(r) # NoFailure /\ channel' = Append(channel, Classify(r))
    <3>1. Classify(r) \in Events BY <2>2, ClassifyTyped
    <3> QED BY <2>2, <3>1 DEF SupTypes
  <2> QED BY <2>1, <2>2 DEF Deliver
<1>3. SupTypes' BY <1>1, <1>2 DEF SupTypes
<1> QED BY <1>1, <1>3 DEF PublishedIsDurable, MemoryKnows, DecidedInv, SavedInv, AttemptIsNew

\* The policy decides: its counters run ahead of memory by the attempt that
\* the save will record.
LEMMA TakeEventKeeps == DurableInv /\ TakeEvent => DurableInv'
<1> SUFFICES ASSUME DurableInv, TakeEvent PROVE DurableInv' OBVIOUS
<1> USE DEF DurableInv
<1> DEFINE e == Head(channel)
           n == IF e.kind = "ws_disconnected" THEN attempts[e.of] ELSE 0
           a == Decide(e, n)
<1>1. /\ pc = "idle" /\ channel # <<>> /\ pc' = "decided" /\ channel' = Tail(channel)
      /\ job' = [event |-> e, action |-> a]
      /\ attempts' = IF e.kind = "ws_disconnected" THEN [attempts EXCEPT ![e.of] = n + 1] ELSE attempts
      /\ UNCHANGED <<echoes, mem, stateFile, actuated>>
  BY DEF TakeEvent
<1>2. e \in Events /\ Tail(channel) \in Seq(Events)
  BY <1>1 DEF SupTypes
<1>3. e.kind = "ws_disconnected" => e.of \in Feeds BY <1>2 DEF Events
<1>4. n \in Nat BY <1>3 DEF SupTypes
<1> HIDE DEF e, n
<1>5. /\ IsAction(a)
      /\ a.kind = "reconnect" <=> e.kind = "ws_disconnected"
      /\ e.kind = "ws_disconnected" => a.of = e.of /\ a.attempt = n
  BY <1>2, <1>4, DecideTyped
<1> HIDE DEF a
<1>6. job'.action = a BY <1>1
<1>7. attempts' \in [Feeds -> Nat] BY <1>1, <1>3, <1>4 DEF SupTypes
<1>8. SupTypes' BY <1>1, <1>2, <1>5, <1>6, <1>7 DEF SupTypes
<1>9. attempts = mem.ws BY <1>1 DEF PublishedIsDurable
<1>10. e.kind = "ws_disconnected" => n = attempts[e.of] BY DEF n
<1>11. mem \in SupState BY DEF SupTypes
<1>12. DecidedInv'
  <2>1. CASE e.kind = "ws_disconnected"
    <3>1. Recorded(mem, a).ws = [mem.ws EXCEPT ![a.of] = @ + 1] BY <2>1, <1>5, <1>11, RecordedTyped
    <3>2. attempts' = Recorded(mem, a).ws BY <2>1, <3>1, <1>1, <1>5, <1>9, <1>10
    <3>3. a.attempt = mem.ws[a.of] BY <2>1, <1>5, <1>9, <1>10
    <3> QED BY <3>2, <3>3, <1>1, <1>6 DEF DecidedInv
  <2>2. CASE e.kind # "ws_disconnected"
    <3>1. a.kind # "reconnect" BY <2>2, <1>5
    <3>2. Recorded(mem, a).ws = mem.ws BY <3>1, <1>5, <1>11, RecordedTyped
    <3> QED BY <2>2, <3>1, <3>2, <1>1, <1>6, <1>9 DEF DecidedInv
  <2> QED BY <2>1, <2>2
<1>13. PublishedIsDurable' BY <1>1 DEF PublishedIsDurable
<1>14. MemoryKnows' BY <1>1 DEF MemoryKnows
<1> QED BY <1>1, <1>8, <1>12, <1>13, <1>14 DEF SavedInv, AttemptIsNew

\* The save: memory and, if the write succeeds, the file take in the action.
LEMMA SaveKeeps == ASSUME DurableInv, NEW ok \in BOOLEAN, Save(ok) PROVE DurableInv'
<1> USE DEF DurableInv
<1> DEFINE a == job.action
           s == Recorded(mem, a)
<1>1. /\ pc = "decided" /\ mem' = s /\ stateFile' = IF ok THEN <<mem'>> ELSE stateFile
      /\ pc' = IF ok THEN "saved" ELSE "idle"
      /\ UNCHANGED <<channel, echoes, attempts, job, actuated>>
  BY DEF Save, SaveStep
<1>2. IsAction(a) /\ mem \in SupState BY <1>1 DEF SupTypes
<1>3. s \in SupState BY <1>2, RecordedTyped
<1>4. a.kind = "reconnect" => a.attempt = mem.ws[a.of] BY <1>1 DEF DecidedInv
<1>5. KnownTo(s, a) BY <1>2, <1>4, KnownRecorded
<1>6. \A o \in actuated : KnownTo(mem, o.what) /\ IsAction(o.what)
  BY <1>1 DEF MemoryKnows, SupTypes
<1>7. \A o \in actuated : KnownTo(s, o.what) BY <1>2, <1>6, KnownKept
<1>8. attempts = s.ws BY <1>1 DEF DecidedInv
<1> HIDE DEF s
<1>9. <<s>> \in [{1} -> SupState] /\ <<s>>[1] = s /\ <<s>> # <<>> BY <1>3
<1>10. SupTypes' BY <1>1, <1>3, <1>9 DEF SupTypes
<1>11. PublishedIsDurable'
  <2>1. attempts' = mem'.ws BY <1>1, <1>8
  <2>2. CASE ok
    <3>1. stateFile' = <<s>> BY <1>1, <2>2
    <3> QED BY <2>1, <3>1, <1>1, <1>7, <1>9 DEF PublishedIsDurable
  <2>3. CASE ~ok BY <2>1, <2>3, <1>1 DEF PublishedIsDurable
  <2> QED BY <2>2, <2>3
<1>12. MemoryKnows' BY <1>1, <1>7 DEF MemoryKnows
<1>13. SavedInv' BY <1>1, <1>5 DEF SavedInv
<1>14. AttemptIsNew'
  <2> SUFFICES ASSUME a.kind = "reconnect", NEW o \in actuated, o.what.kind = "reconnect",
                      o.what.of = a.of
               PROVE  o.what.attempt < a.attempt
    BY <1>1 DEF AttemptIsNew
  <2>1. KnownTo(mem, o.what) BY <1>6
  <2>2. mem.ws[o.what.of] > o.what.attempt BY <2>1 DEF KnownTo
  <2>3. a.attempt = mem.ws[o.what.of] BY <1>4
  <2>4. o.what.attempt \in Nat /\ a.attempt \in Nat BY <1>2, <1>6 DEF IsAction
  <2> QED BY <2>2, <2>3, <2>4
<1> QED BY <1>1, <1>10, <1>11, <1>12, <1>13, <1>14 DEF DecidedInv

\* The publication: what goes out is in the file, and its echo is a report.
LEMMA ActuateKeeps ==
    ASSUME DurableInv, NEW x \in BOOLEAN, NEW y \in BOOLEAN, Actuate(x, y)
    PROVE  DurableInv'
<1> USE DEF DurableInv
<1> DEFINE a == job.action
<1>1. /\ pc = "saved" /\ pc' = "idle"
      /\ echoes' = IF x /\ detecting THEN echoes \o Announcement(a) ELSE echoes
      /\ actuated' = IF y THEN actuated \cup {OpsAction(a)} ELSE actuated
      /\ UNCHANGED <<channel, attempts, job, mem, stateFile>>
  BY DEF Actuate
<1>2. IsAction(a) BY <1>1 DEF SupTypes
<1>3. Announcement(a) \in Seq(Report)
  <2>1. CASE a.kind = "redis_reconnect"
    <3>1. [subject |-> "cache.redis", state |-> "degraded"] \in Report BY DEF Report
    <3> QED BY <2>1, <3>1 DEF Announcement
  <2>2. CASE a.kind = "fallback"
    <3>1. a.of \in Models BY <1>2, <2>2 DEF IsAction
    <3>2. [subject |-> "ai.ollama.degraded", model |-> a.of] \in Report BY <3>1 DEF Report
    <3> QED BY <2>2, <3>2 DEF Announcement
  <2>3. CASE a.kind \notin {"redis_reconnect", "fallback"} BY <2>3 DEF Announcement
  <2> QED BY <2>1, <2>2, <2>3
<1>4. echoes' \in Seq(Report) BY <1>1, <1>3 DEF SupTypes
<1>5. OpsAction(a).what = a BY DEF OpsAction
<1>6. \A o \in actuated' : o \in actuated \/ o.what = a BY <1>1, <1>5
<1>7. SupTypes' BY <1>1, <1>2, <1>4, <1>6 DEF SupTypes
<1>8. stateFile = <<mem>> /\ KnownTo(mem, a) BY <1>1 DEF SavedInv
<1>9. \A o \in actuated' : KnownTo(mem, o.what) BY <1>1, <1>6, <1>8 DEF MemoryKnows
<1>10. attempts = mem.ws BY <1>1 DEF PublishedIsDurable
<1>11. PublishedIsDurable' BY <1>1, <1>8, <1>9, <1>10 DEF PublishedIsDurable
<1> QED BY <1>1, <1>7, <1>9, <1>11 DEF MemoryKnows, DecidedInv, SavedInv, AttemptIsNew

\* Closing, ending and dying lose the channel and the echoes, never the file.
LEMMA StopKeeps == DurableInv /\ (SubscriptionsClose \/ RunEnds \/ Crash) => DurableInv'
<1> SUFFICES ASSUME DurableInv, SubscriptionsClose \/ RunEnds \/ Crash PROVE DurableInv' OBVIOUS
<1> USE DEF DurableInv
<1>1. /\ pc' \in {pc, "down"} /\ channel' \in {channel, <<>>} /\ echoes' \in {echoes, <<>>}
      /\ UNCHANGED <<attempts, job, mem, stateFile, actuated>>
  BY DEF SubscriptionsClose, RunEnds, Crash
<1>2. channel' \in Seq(Events) /\ echoes' \in Seq(Report)
  <2>1. <<>> \in Seq(Events) /\ <<>> \in Seq(Report) OBVIOUS
  <2>2. channel \in Seq(Events) /\ echoes \in Seq(Report) BY DEF SupTypes
  <2> QED BY <2>1, <2>2, <1>1, Zenon
<1>3. SupTypes' BY <1>1, <1>2, Zenon DEF SupTypes
<1> QED BY <1>1, <1>3 DEF PublishedIsDurable, MemoryKnows, DecidedInv, SavedInv, AttemptIsNew

\* Every step keeps the invariant.
LEMMA DurableNext == DurableInv /\ [SupNext]_supVars => DurableInv'
<1> SUFFICES ASSUME DurableInv, [SupNext]_supVars PROVE DurableInv' OBVIOUS
<1>1. CASE DetectEcho
  <2>1. echoes \in Seq(Report) /\ echoes # <<>> BY <1>1 DEF DetectEcho, DurableInv, SupTypes
  <2>2. Head(echoes) \in Report /\ Tail(echoes) \in Seq(Report) BY <2>1
  <2> QED BY <1>1, <2>2, DeliverKeeps DEF DetectEcho
<1>2. ASSUME NEW r \in Report, Detect(r) PROVE DurableInv'
  <2>1. echoes' \in Seq(Report) BY <1>2 DEF Detect, DurableInv, SupTypes
  <2> QED BY <1>2, <2>1, DeliverKeeps DEF Detect
<1>3. CASE RunLoop BY <1>3, TakeEventKeeps, SaveKeeps, ActuateKeeps DEF RunLoop
<1>4. CASE UNCHANGED supVars
  BY <1>4 DEF supVars, DurableInv, SupTypes, PublishedIsDurable, MemoryKnows, DecidedInv, SavedInv,
              AttemptIsNew
<1> QED BY <1>1, <1>2, <1>3, <1>4, RehydrateKeeps, StartCleanKeeps, StopKeeps DEF SupNext

\* Persist before publish: whatever crashes, failed writes, failed publishes
\* and restarts do, the state file knows every ops action the other services
\* have seen, and outside a decision the policy's counters are those of the
\* state (handle_one, update_and_save, rehydrate_from_state).
THEOREM ActionsDurable == SupSpec => []PublishedIsDurable
<1>1. DurableInv => PublishedIsDurable BY DEF DurableInv
<1> QED BY <1>1, DurableInit, DurableNext, PTL DEF SupSpec

\* A reconnect is published under a number above every number published for
\* its feed since the last clean start, restarts included.
THEOREM AttemptsAreNew == SupSpec => []AttemptIsNew
<1>1. DurableInv => AttemptIsNew BY DEF DurableInv
<1> QED BY <1>1, DurableInit, DurableNext, PTL DEF SupSpec

-----------------------------------------------------------------------------
(* The symbol interner: the inductive invariant. *)

\* What a task keeps between two awaits, and a tick that was published.
Tasks == [pc : {"read", "insert", "publish", "dial"}, sym : MdSymbols \cup {"none"},
          px : Prices \cup {0}, id : Nat]
PublishedTicks == [source : Sources, id : Nat, sym : MdSymbols \cup {"none"}, px : Prices \cup {0}]

MdTypes ==
    /\ nextId \in Nat \ {0}
    /\ task \in [Sources -> Tasks]
    /\ mdTicks \in Seq(PublishedTicks)

\* A candidate on its way to the map was taken from the counter, is in no
\* entry of the map and is the candidate of no other task.
CandidatesApart ==
    \A s \in Sources : task[s].pc = "insert" =>
        /\ task[s].id \in 1..(nextId - 1)
        /\ \A x \in DOMAIN ids : ids[x] # task[s].id
        /\ \A t \in Sources : t # s /\ task[t].pc = "insert" => task[t].id # task[s].id

\* Whatever is published, or held for publishing, has its symbol in the map.
SymbolsKnown ==
    /\ \A i \in DOMAIN mdTicks : mdTicks[i].sym \in DOMAIN ids
    /\ \A s \in Sources : task[s].pc = "publish" => task[s].sym \in DOMAIN ids

InternInv == MdTypes /\ CandidatesApart /\ SymbolsKnown /\ OneIdPerSymbol

\* The map only grows: an id once given to a symbol is its id for good.
IdsArePermanent ==
    [][DOMAIN ids \subseteq DOMAIN ids' /\ \A x \in DOMAIN ids : ids'[x] = ids[x]]_mdVars

-----------------------------------------------------------------------------
(* The steps. *)

\* The adapters start with an empty map.
LEMMA InternInit == MdInit => InternInv
<1> SUFFICES ASSUME MdInit PROVE InternInv OBVIOUS
<1>1. Idle \in Tasks BY DEF Idle, Tasks
<1>2. MdTypes BY <1>1 DEF MdInit, MdTypes
<1> QED BY <1>2 DEF MdInit, InternInv, CandidatesApart, SymbolsKnown, OneIdPerSymbol, Idle

\* A read: a known symbol is published under its id, an unknown one takes the
\* counter's value, which is above everything in use.
LEMMA ReadTickKeeps ==
    ASSUME InternInv, NEW s \in Sources, NEW sym \in MdSymbols, NEW px \in Prices, ReadTick(s, sym, px)
    PROVE  InternInv'
<1> USE DEF InternInv
<1>1. UNCHANGED <<ids, mdTicks>> BY DEF ReadTick
<1>2. nextId \in Nat \ {0} /\ task \in [Sources -> Tasks] BY DEF MdTypes
<1>3. CASE sym \in DOMAIN ids
  <2> DEFINE new == [pc |-> "publish", sym |-> sym, px |-> px, id |-> ids[sym]]
  <2>1. task' = [task EXCEPT ![s] = new] /\ nextId' = nextId BY <1>3 DEF ReadTick
  <2>2. ids[sym] \in Nat BY <1>3 DEF OneIdPerSymbol
  <2>3. new \in Tasks BY <2>2 DEF Tasks
  <2>4. \A t \in Sources : task'[t] = IF t = s THEN new ELSE task[t] BY <2>1, <1>2
  <2>5. task' \in [Sources -> Tasks] BY <2>1, <2>3, <1>2
  <2>6. MdTypes' BY <2>1, <2>5, <1>1 DEF MdTypes
  <2>7. CandidatesApart' BY <2>1, <2>4, <1>1 DEF CandidatesApart
  <2>8. SymbolsKnown' BY <2>4, <1>1, <1>3 DEF SymbolsKnown
  <2>9. OneIdPerSymbol' BY <2>1, <2>4, <1>1 DEF OneIdPerSymbol
  <2> QED BY <2>6, <2>7, <2>8, <2>9
<1>4. CASE sym \notin DOMAIN ids
  <2> DEFINE new == [pc |-> "insert", sym |-> sym, px |-> px, id |-> nextId]
  <2>1. task' = [task EXCEPT ![s] = new] /\ nextId' = nextId + 1 BY <1>4 DEF ReadTick
  <2>2. new \in Tasks BY <1>2 DEF Tasks
  <2>3. \A t \in Sources : task'[t] = IF t = s THEN new ELSE task[t] BY <2>1, <1>2
  <2>4. task' \in [Sources -> Tasks] BY <2>1, <2>2, <1>2
  <2>5. MdTypes' BY <2>1, <2>4, <1>1, <1>2 DEF MdTypes
  <2>6. CandidatesApart' BY <2>1, <2>3, <1>1, <1>2 DEF CandidatesApart, OneIdPerSymbol
  <2>7. SymbolsKnown' BY <2>3, <1>1 DEF SymbolsKnown
  <2>8. OneIdPerSymbol' BY <2>1, <2>3, <1>1, <1>2 DEF OneIdPerSymbol
  <2> QED BY <2>5, <2>6, <2>7, <2>8
<1> QED BY <1>3, <1>4

\* The insertion: the id that is there wins, else the candidate becomes the id.
LEMMA InternInsertKeeps ==
    ASSUME InternInv, NEW s \in Sources, InternInsert(s)
    PROVE  /\ InternInv'
           /\ DOMAIN ids \subseteq DOMAIN ids' /\ \A x \in DOMAIN ids : ids'[x] = ids[x]
<1> USE DEF InternInv
<1> DEFINE sym == task[s].sym
           id == OrInsert(sym, task[s].id)
<1>1. /\ task[s].pc = "insert" /\ UNCHANGED <<nextId, mdTicks>>
      /\ ids' = [x \in DOMAIN ids \cup {sym} |-> IF x = sym THEN id ELSE ids[x]]
      /\ task' = [task EXCEPT ![s].pc = "publish", ![s].id = id]
  BY DEF InternInsert, InternedId
<1>2. nextId \in Nat \ {0} /\ task \in [Sources -> Tasks] BY DEF MdTypes
<1>3. /\ id \in 1..(nextId - 1)
      /\ sym \in DOMAIN ids => id = ids[sym]
      /\ sym \notin DOMAIN ids => id = task[s].id
  BY <1>1 DEF OrInsert, CandidatesApart, OneIdPerSymbol
<1> HIDE DEF id
<1>4. DOMAIN ids' = DOMAIN ids \cup {sym} /\ ids'[sym] = id /\ \A x \in DOMAIN ids : ids'[x] = ids[x]
  BY <1>1, <1>3
<1>5. task[s] \in Tasks /\ id \in Nat BY <1>2, <1>3
<1>6. /\ task' \in [Sources -> Tasks]
      /\ task'[s].pc = "publish" /\ task'[s].id = id /\ task'[s].sym = sym
      /\ \A t \in Sources : t # s => task'[t] = task[t]
  BY <1>1, <1>2, <1>5 DEF Tasks
<1>7. MdTypes' BY <1>1, <1>6 DEF MdTypes
<1>8. CandidatesApart'
  <2> SUFFICES ASSUME NEW t \in Sources, task'[t].pc = "insert"
               PROVE  /\ task'[t].id \in 1..(nextId' - 1)
                      /\ \A x \in DOMAIN ids' : ids'[x] # task'[t].id
                      /\ \A u \in Sources : u # t /\ task'[u].pc = "insert" => task'[u].id # task'[t].id
    BY DEF CandidatesApart
  <2>1. t # s /\ task'[t] = task[t] /\ task[t].pc = "insert" BY <1>6
  <2>2. /\ task[t].id \in 1..(nextId - 1)
        /\ \A x \in DOMAIN ids : ids[x] # task[t].id
        /\ task[s].id # task[t].id
        /\ \A u \in Sources : u # t /\ task[u].pc = "insert" => task[u].id # task[t].id
    BY <2>1, <1>1 DEF CandidatesApart
  <2>3. id # task[t].id BY <2>2, <1>3
  <2>4. \A x \in DOMAIN ids' : ids'[x] # task'[t].id BY <2>1, <2>2, <2>3, <1>4
  <2>5. \A u \in Sources : u # t /\ task'[u].pc = "insert" => task'[u].id # task'[t].id
    BY <2>1, <2>2, <1>6
  <2> QED BY <2>1, <2>2, <2>4, <2>5, <1>1
<1>9. SymbolsKnown' BY <1>1, <1>4, <1>6 DEF SymbolsKnown
<1>10. OneIdPerSymbol'
  <2>1. \A x, y \in DOMAIN ids' : ids'[x] = ids'[y] => x = y
    BY <1>1, <1>3, <1>4 DEF OneIdPerSymbol, CandidatesApart
  <2>2. \A x \in DOMAIN ids' : ids'[x] \in 1..(nextId' - 1) BY <1>1, <1>3, <1>4 DEF OneIdPerSymbol
  <2>3. \A i \in DOMAIN mdTicks' : mdTicks'[i].id = ids'[mdTicks'[i].sym]
    BY <1>1, <1>4 DEF OneIdPerSymbol, SymbolsKnown
  <2>4. \A t \in Sources : task'[t].pc = "publish" => task'[t].id = ids'[task'[t].sym]
    BY <1>4, <1>6 DEF OneIdPerSymbol, SymbolsKnown
  <2> QED BY <2>1, <2>2, <2>3, <2>4 DEF OneIdPerSymbol
<1> QED BY <1>4, <1>7, <1>8, <1>9, <1>10

\* A publication adds a tick that carries the id of its symbol.
LEMMA PublishTickKeeps ==
    ASSUME InternInv, NEW s \in Sources, NEW elapsed \in BOOLEAN, PublishTick(s, elapsed)
    PROVE  InternInv' /\ ids' = ids
<1> USE DEF InternInv
<1> DEFINE t == [source |-> s, id |-> task[s].id, sym |-> task[s].sym, px |-> task[s].px]
<1>1. /\ task[s].pc = "publish" /\ UNCHANGED <<ids, nextId>>
      /\ task' = [task EXCEPT ![s] = Idle] /\ mdTicks' = Append(mdTicks, t)
  BY DEF PublishTick, IngestTick, IngestStep
<1>2. task \in [Sources -> Tasks] /\ mdTicks \in Seq(PublishedTicks) BY DEF MdTypes
<1>3. t \in PublishedTicks BY <1>2 DEF Tasks, PublishedTicks
<1>4. t.sym \in DOMAIN ids /\ t.id = ids[t.sym] BY <1>1 DEF SymbolsKnown, OneIdPerSymbol
<1> HIDE DEF t
<1>5. Idle \in Tasks /\ Idle.pc = "read" BY DEF Idle, Tasks
<1>6. task' \in [Sources -> Tasks] /\ \A u \in Sources : task'[u] = IF u = s THEN Idle ELSE task[u]
  BY <1>1, <1>2, <1>5
<1>7. /\ mdTicks' \in Seq(PublishedTicks)
      /\ \A i \in DOMAIN mdTicks' : mdTicks'[i] = t \/ (i \in DOMAIN mdTicks /\ mdTicks'[i] = mdTicks[i])
  BY <1>1, <1>2, <1>3
<1>8. MdTypes' BY <1>1, <1>6, <1>7 DEF MdTypes
<1>9. CandidatesApart' BY <1>1, <1>5, <1>6 DEF CandidatesApart
<1>10. SymbolsKnown' BY <1>1, <1>4, <1>5, <1>6, <1>7 DEF SymbolsKnown
<1>11. OneIdPerSymbol' BY <1>1, <1>4, <1>5, <1>6, <1>7 DEF OneIdPerSymbol
<1> QED BY <1>1, <1>8, <1>9, <1>10, <1>11

\* A step that leaves map, counter and ticks alone and takes a task only to
\* reading or dialling keeps the invariant.
LEMMA OtherStepKeeps ==
    ASSUME InternInv, UNCHANGED <<ids, nextId, mdTicks>>, task' \in [Sources -> Tasks],
           \A t \in Sources : task'[t] = task[t] \/ task'[t].pc \in {"read", "dial"}
    PROVE  InternInv'
<1> USE DEF InternInv
<1>1. MdTypes' BY DEF MdTypes
<1>2. CandidatesApart' BY DEF CandidatesApart
<1>3. SymbolsKnown' BY DEF SymbolsKnown
<1>4. OneIdPerSymbol' BY DEF OneIdPerSymbol
<1> QED BY <1>1, <1>2, <1>3, <1>4

\* Every step keeps the invariant and every entry of the map.
LEMMA InternNext ==
    InternInv /\ [MdNext]_mdVars =>
        InternInv' /\ DOMAIN ids \subseteq DOMAIN ids' /\ \A x \in DOMAIN ids : ids'[x] = ids[x]
<1> SUFFICES ASSUME InternInv, [MdNext]_mdVars
             PROVE  InternInv' /\ DOMAIN ids \subseteq DOMAIN ids' /\ \A x \in DOMAIN ids : ids'[x] = ids[x]
  OBVIOUS
<1>1. task \in [Sources -> Tasks] /\ Idle \in Tasks /\ Idle.pc = "read"
  BY DEF InternInv, MdTypes, Idle, Tasks
<1>2. ASSUME NEW s \in Sources, NEW sym \in MdSymbols, NEW px \in Prices, ReadTick(s, sym, px)
      PROVE  InternInv' /\ ids' = ids
  BY <1>2, ReadTickKeeps DEF ReadTick
<1>3. ASSUME NEW s \in Sources, PublishFails(s) \/ DialFails(s) \/ DialOk(s) PROVE InternInv' /\ ids' = ids
  <2>1. task' = [task EXCEPT ![s] = Idle] /\ UNCHANGED <<ids, nextId, mdTicks>>
    BY <1>3 DEF PublishFails, DialFails, DialOk
  <2> QED BY <1>1, <2>1, OtherStepKeeps
<1>4. ASSUME NEW s \in Sources, DropConnection(s) PROVE InternInv' /\ ids' = ids
  <2>1. task' = [task EXCEPT ![s].pc = "dial"] /\ UNCHANGED <<ids, nextId, mdTicks>>
    BY <1>4 DEF DropConnection
  <2>2. /\ task' \in [Sources -> Tasks]
        /\ \A t \in Sources : task'[t] = task[t] \/ task'[t].pc \in {"read", "dial"}
    BY <1>1, <2>1 DEF Tasks
  <2> QED BY <2>1, <2>2, OtherStepKeeps
<1>5. ASSUME NEW r \in Receivers, ReceiveTick(r) \/ \E id \in 1..Cardinality(MdSymbols) : SubscribeTicks(r, id)
      PROVE  InternInv' /\ ids' = ids
  <2>1. UNCHANGED <<ids, nextId, task, mdTicks>> BY <1>5 DEF ReceiveTick, SubscribeTicks
  <2> QED BY <1>1, <2>1, OtherStepKeeps
<1>6. CASE UNCHANGED mdVars BY <1>1, <1>6, OtherStepKeeps DEF mdVars
<1> QED BY <1>2, <1>3, <1>4, <1>5, <1>6, InternInsertKeeps, PublishTickKeeps DEF MdNext

\* However the adapter tasks race in SymbolInterner::intern, no two symbols
\* share an id, none has the sentinel 0, and every tick published or held for
\* publishing carries the id of its symbol.
THEOREM IdsAreUnique == MdSpec => []OneIdPerSymbol
<1>1. InternInv => OneIdPerSymbol BY DEF InternInv
<1> QED BY <1>1, InternInit, InternNext, PTL DEF MdSpec

\* No step of any task changes or drops an id that was given (or_insert).
THEOREM IdsNeverChange == MdSpec => IdsArePermanent
<1>1. InternInv /\ [MdNext]_mdVars
        => [DOMAIN ids \subseteq DOMAIN ids' /\ \A x \in DOMAIN ids : ids'[x] = ids[x]]_mdVars
  BY InternNext
<1> QED BY <1>1, InternInit, InternNext, PTL DEF MdSpec, IdsArePermanent
-----------------------------------------------------------------------------
(* The feature engine's incremental state (hedge-features).                *)

\* A ring that holds the end of a history is its last n elements.
LEMMA RingIsLast ==
    ASSUME NEW V, NEW r \in Seq(V), NEW h \in Seq(V), NEW n \in Nat \ {0}, RingOf(r, h, n)
    PROVE  r = LastOf(h, n)
<1> DEFINE m == IF Len(h) > n THEN Len(h) - n + 1 ELSE 1
           q == SubSeq(h, m, Len(h))
<1>1. Len(r) = (IF Len(h) > n THEN n ELSE Len(h)) /\ Len(h) \in Nat BY DEF RingOf
<1>2. m \in 1..(Len(h) + 1) /\ Len(h) - m + 1 = Len(r) BY <1>1
<1>3. q \in Seq(V) /\ Len(q) = Len(r) /\ \A k \in 1..Len(r) : q[k] = h[m + k - 1]
  <2> HIDE DEF m
  <2> QED BY <1>2
<1>4. \A k \in 1..Len(r) : m + k - 1 = Len(h) - Len(r) + k
  <2>1. m \in Int /\ Len(r) \in Int /\ Len(h) \in Int BY <1>1, <1>2
  <2> HIDE DEF m
  <2> QED BY <1>2, <2>1
<1> HIDE DEF q, m
<1>5. \A k \in 1..Len(r) : r[k] = q[k] BY <1>3, <1>4 DEF RingOf
<1>6. r = q BY <1>3, <1>5
<1> QED BY <1>6 DEF q, m, LastOf

\* Pushing keeps a ring the end of its history.
LEMMA PushIsRing ==
    ASSUME NEW V, NEW r \in Seq(V), NEW h \in Seq(V), NEW n \in Nat \ {0}, RingOf(r, h, n),
           NEW x \in V
    PROVE  Push(r, x, n) \in Seq(V) /\ RingOf(Push(r, x, n), Append(h, x), n)
<1>1. Len(r) \in Nat /\ Len(r) <= n BY DEF RingOf
<1>2. Push(r, x, n) = IF Len(r) = n THEN Append(Tail(r), x) ELSE Append(r, x) BY <1>1 DEF Push
<1> QED BY <1>2, RingPush

\* A push keeps the elements' set and the bound.
LEMMA PushTyped ==
    ASSUME NEW V, NEW r \in Seq(V), NEW n \in Nat \ {0}, Len(r) <= n, NEW x \in V
    PROVE  Push(r, x, n) \in Seq(V) /\ Len(Push(r, x, n)) <= n
<1>1. CASE Len(r) < n BY <1>1 DEF Push
<1>2. CASE ~(Len(r) < n)
  <2>1. Len(r) = n /\ r # <<>> BY <1>2
  <2>2. Tail(r) \in Seq(V) /\ Len(Tail(r)) = n - 1 BY <2>1
  <2>3. Push(r, x, n) = Append(Tail(r), x) BY <1>2 DEF Push
  <2> QED BY <2>2, <2>3
<1> QED BY <1>1, <1>2

\* A tick as it is folded in, and a sample of the 30-second window.
LoggedTick == [ltp : Nat, qty : Nat, buy : Nat, sell : Nat, ts : Int]
Sample == [ts : Int, signed : Int]
SamplesOf(log) == [i \in 1..Len(log) |-> [ts |-> log[i].ts, signed |-> SignedAt(log, i)]]

\* Signed by the ticks, a volume is a number.
LEMMA SignedTyped ==
    ASSUME NEW log \in Seq(LoggedTick), NEW i \in 1..Len(log)
    PROVE  SignedAt(log, i) \in Int
<1>0. log[i] \in LoggedTick OBVIOUS
<1>1. log[i].qty \in Nat BY <1>0 DEF LoggedTick
<1> QED BY <1>1 DEF SignedAt

\* The series of a batch computation are sequences of numbers (of pairs, of samples).
LEMMA SeriesTyped ==
    ASSUME NEW log \in Seq(LoggedTick)
    PROVE  /\ PricesOf(log) \in Seq(Nat) /\ TurnoverOf(log) \in Seq(Int)
           /\ VolumeOf(log) \in Seq(Int) /\ RangesOf(log) \in Seq(Int)
           /\ ReturnsOf(log) \in Seq(Nat \X Nat) /\ SamplesOf(log) \in Seq(Sample)
<1> DEFINE n == Len(log)
<1>0. n \in Nat /\ \A i \in 1..n : log[i] \in LoggedTick OBVIOUS
<1>1. /\ n \in Nat
      /\ \A i \in 1..n : log[i].ltp \in Nat /\ log[i].qty \in Nat /\ log[i].ts \in Int
  BY <1>0 DEF LoggedTick
<1> HIDE DEF n
<1>2. PricesOf(log) \in Seq(Nat) /\ VolumeOf(log) \in Seq(Int)
  BY <1>1 DEF PricesOf, VolumeOf, n
<1>3. \A a, b \in Nat : a * b \in Int /\ AbsDiff(a, b) \in Int BY DEF AbsDiff
<1>4. TurnoverOf(log) \in Seq(Int)
  <2>1. \A i \in 1..n : log[i].ltp * log[i].qty \in Int BY <1>1, <1>3
  <2> QED BY <1>1, <2>1 DEF TurnoverOf, n
<1>5. RangesOf(log) \in Seq(Int)
  <2>1. ASSUME NEW i \in 1..n
        PROVE  (IF i = 1 THEN 0 ELSE AbsDiff(log[i].ltp, log[i - 1].ltp)) \in Int
    <3>1. CASE i = 1 BY <3>1
    <3>2. CASE i # 1
      <4>1. i - 1 \in 1..n BY <1>1, <3>2
      <4>2. log[i].ltp \in Nat /\ log[i - 1].ltp \in Nat BY <1>1, <4>1
      <4>3. AbsDiff(log[i].ltp, log[i - 1].ltp) \in Int BY <1>3, <4>2
      <4> QED BY <3>2, <4>3
    <3> QED BY <3>1, <3>2
  <2> QED BY <1>1, <2>1 DEF RangesOf, n
<1>6. ReturnsOf(log) \in Seq(Nat \X Nat)
  <2> DEFINE k == IF n = 0 THEN 0 ELSE n - 1
  <2>1. k \in Nat /\ 1..(n - 1) = 1..k BY <1>1
  <2>2. \A i \in 1..k : i \in 1..n /\ i + 1 \in 1..n BY <1>1
  <2> HIDE DEF k
  <2>3. \A i \in 1..k : <<log[i].ltp, log[i + 1].ltp>> \in Nat \X Nat BY <1>1, <2>2
  <2>4. [i \in 1..k |-> <<log[i].ltp, log[i + 1].ltp>>] \in Seq(Nat \X Nat) BY <2>1, <2>3
  <2> QED BY <2>1, <2>4 DEF ReturnsOf, n
<1>7. SamplesOf(log) \in Seq(Sample)
  <2>1. \A i \in 1..n : SignedAt(log, i) \in Int BY SignedTyped DEF n
  <2>2. \A i \in 1..n : [ts |-> log[i].ts, signed |-> SignedAt(log, i)] \in Sample
    BY <1>1, <2>1 DEF Sample
  <2> QED BY <1>1, <2>2 DEF SamplesOf, n
<1> QED BY <1>2, <1>4, <1>5, <1>6, <1>7

\* A sequence one longer that agrees with g is g with something appended.
LEMMA OneLonger ==
    ASSUME NEW V, NEW f \in Seq(V), NEW g \in Seq(V), NEW n \in Nat, Len(g) = n, Len(f) = n + 1,
           \A i \in 1..n : f[i] = g[i]
    PROVE  f = Append(g, f[n + 1])
<1> DEFINE a == Append(g, f[n + 1])
<1>1. f[n + 1] \in V OBVIOUS
<1>2. a \in Seq(V) /\ Len(a) = n + 1 /\ a[n + 1] = f[n + 1] /\ \A i \in 1..n : a[i] = g[i] BY <1>1
<1>3. \A i \in 1..(n + 1) : i \in 1..n \/ i = n + 1 OBVIOUS
<1> HIDE DEF a
<1>4. \A i \in 1..(n + 1) : a[i] = f[i] BY <1>2, <1>3
<1>5. a = f BY <1>2, <1>4
<1> QED BY <1>5 DEF a

\* What a tick adds to each series: its price, its turnover and volume, its distance
\* to the last price, the pair of the two, its signed volume.
LEMMA SeriesGrow ==
    ASSUME NEW log \in Seq(LoggedTick), NEW t \in LoggedTick
    PROVE  LET a == Append(log, t)
               n == Len(log)
           IN  /\ PricesOf(a) = Append(PricesOf(log), t.ltp)
               /\ TurnoverOf(a) = Append(TurnoverOf(log), t.ltp * t.qty)
               /\ VolumeOf(a) = Append(VolumeOf(log), t.qty)
               /\ RangesOf(a) = Append(RangesOf(log),
                                       IF n = 0 THEN 0 ELSE AbsDiff(t.ltp, log[n].ltp))
               /\ n = 0 => ReturnsOf(a) = ReturnsOf(log)
               /\ n > 0 => ReturnsOf(a) = Append(ReturnsOf(log), <<log[n].ltp, t.ltp>>)
               /\ SamplesOf(a) = Append(SamplesOf(log), [ts |-> t.ts, signed |-> SignedAt(a, n + 1)])
<1> DEFINE a == Append(log, t)
           n == Len(log)
<1>1. /\ a \in Seq(LoggedTick) /\ n \in Nat /\ Len(a) = n + 1 /\ a[n + 1] = t
      /\ (\A i \in 1..n : a[i] = log[i]) /\ Len(log) = n
  OBVIOUS
<1>2. /\ \A i \in 1..n : i \in 1..(n + 1) /\ (i # 1 => i - 1 \in 1..n)
      /\ n + 1 \in 1..(n + 1) /\ (n + 1) - 1 = n /\ (n # 0 => n \in 1..n) /\ (n + 1 = 1 <=> n = 0)
  BY <1>1
<1> HIDE DEF a, n
<1>3. /\ PricesOf(log) \in Seq(Nat) /\ TurnoverOf(log) \in Seq(Int)
      /\ VolumeOf(log) \in Seq(Int) /\ RangesOf(log) \in Seq(Int)
      /\ ReturnsOf(log) \in Seq(Nat \X Nat) /\ SamplesOf(log) \in Seq(Sample)
  BY SeriesTyped
<1>4. /\ PricesOf(a) \in Seq(Nat) /\ TurnoverOf(a) \in Seq(Int)
      /\ VolumeOf(a) \in Seq(Int) /\ RangesOf(a) \in Seq(Int)
      /\ ReturnsOf(a) \in Seq(Nat \X Nat) /\ SamplesOf(a) \in Seq(Sample)
  BY <1>1, SeriesTyped
<1>5. PricesOf(a) = Append(PricesOf(log), t.ltp)
  <2>1. Len(PricesOf(log)) = n /\ Len(PricesOf(a)) = n + 1 BY <1>1 DEF PricesOf
  <2>2. \A i \in 1..n : PricesOf(a)[i] = PricesOf(log)[i] BY <1>1, <1>2 DEF PricesOf
  <2>3. PricesOf(a)[n + 1] = t.ltp BY <1>1, <1>2 DEF PricesOf
  <2> QED BY <1>1, <1>3, <1>4, <2>1, <2>2, <2>3, OneLonger
<1>6. TurnoverOf(a) = Append(TurnoverOf(log), t.ltp * t.qty)
  <2>1. Len(TurnoverOf(log)) = n /\ Len(TurnoverOf(a)) = n + 1 BY <1>1 DEF TurnoverOf
  <2>2. \A i \in 1..n : TurnoverOf(a)[i] = TurnoverOf(log)[i] BY <1>1, <1>2 DEF TurnoverOf
  <2>3. TurnoverOf(a)[n + 1] = t.ltp * t.qty BY <1>1, <1>2 DEF TurnoverOf
  <2> QED BY <1>1, <1>3, <1>4, <2>1, <2>2, <2>3, OneLonger
<1>7. VolumeOf(a) = Append(VolumeOf(log), t.qty)
  <2>1. Len(VolumeOf(log)) = n /\ Len(VolumeOf(a)) = n + 1 BY <1>1 DEF VolumeOf
  <2>2. \A i \in 1..n : VolumeOf(a)[i] = VolumeOf(log)[i] BY <1>1, <1>2 DEF VolumeOf
  <2>3. VolumeOf(a)[n + 1] = t.qty BY <1>1, <1>2 DEF VolumeOf
  <2> QED BY <1>1, <1>3, <1>4, <2>1, <2>2, <2>3, OneLonger
<1>8. RangesOf(a) = Append(RangesOf(log), IF n = 0 THEN 0 ELSE AbsDiff(t.ltp, log[n].ltp))
  <2>1. Len(RangesOf(log)) = n /\ Len(RangesOf(a)) = n + 1 BY <1>1 DEF RangesOf
  <2>2. \A i \in 1..n : RangesOf(a)[i] = RangesOf(log)[i] BY <1>1, <1>2 DEF RangesOf
  <2>3. RangesOf(a)[n + 1] = IF n = 0 THEN 0 ELSE AbsDiff(t.ltp, log[n].ltp)
    BY <1>1, <1>2 DEF RangesOf
  <2> QED BY <1>1, <1>3, <1>4, <2>1, <2>2, <2>3, OneLonger, SMTT(60)
<1>9. ASSUME n = 0 PROVE ReturnsOf(a) = ReturnsOf(log)
  <2>1. 1..(Len(a) - 1) = {} /\ 1..(Len(log) - 1) = {} BY <1>1, <1>9
  <2> QED BY <2>1 DEF ReturnsOf
<1>10. ASSUME n > 0 PROVE ReturnsOf(a) = Append(ReturnsOf(log), <<log[n].ltp, t.ltp>>)
  <2> DEFINE k == n - 1
  <2>1. k \in Nat /\ n = k + 1 /\ Len(a) - 1 = k + 1 /\ Len(log) - 1 = k BY <1>1, <1>10
  <2>2. \A i \in 1..k : i \in 1..n /\ i + 1 \in 1..n /\ i \in 1..(k + 1) BY <2>1
  <2>3. k + 1 \in 1..(k + 1) /\ k + 1 \in 1..n BY <2>1
  <2> HIDE DEF k
  <2>4. Len(ReturnsOf(log)) = k /\ Len(ReturnsOf(a)) = k + 1 BY <2>1 DEF ReturnsOf
  <2>5. \A i \in 1..k : ReturnsOf(a)[i] = ReturnsOf(log)[i] BY <1>1, <2>1, <2>2 DEF ReturnsOf
  <2>6. ReturnsOf(a)[k + 1] = <<log[n].ltp, t.ltp>> BY <1>1, <2>1, <2>3 DEF ReturnsOf
  <2>7. ReturnsOf(a) = Append(ReturnsOf(log), ReturnsOf(a)[k + 1])
    BY <1>3, <1>4, <2>1, <2>4, <2>5, OneLonger
  <2> QED BY <2>6, <2>7
<1>11. SamplesOf(a) = Append(SamplesOf(log), [ts |-> t.ts, signed |-> SignedAt(a, n + 1)])
  <2>1. Len(SamplesOf(log)) = n /\ Len(SamplesOf(a)) = n + 1 BY <1>1 DEF SamplesOf
  <2>2. \A i \in 1..n : SignedAt(a, i) = SignedAt(log, i) BY <1>1, <1>2 DEF SignedAt
  <2>3. \A i \in 1..n : SamplesOf(a)[i] = SamplesOf(log)[i] BY <1>1, <1>2, <2>2 DEF SamplesOf
  <2>4. SamplesOf(a)[n + 1] = [ts |-> t.ts, signed |-> SignedAt(a, n + 1)]
    BY <1>1, <1>2 DEF SamplesOf
  <2>5. SamplesOf(a) = Append(SamplesOf(log), SamplesOf(a)[n + 1])
    BY <1>1, <1>3, <1>4, <2>1, <2>3, OneLonger
  <2> QED BY <2>4, <2>5
<1> QED BY <1>5, <1>6, <1>7, <1>8, <1>9, <1>10, <1>11 DEF a, n

\* The fields the batch values are read from.
FoldedFields == {"count", "last", "ts", "num", "den", "tr", "prevClose", "channel", "momentum",
                 "returns", "samples", "delta", "buy", "sell"}

\* Of these, r differs from s in the fields F at most.
Touches(r, s, F) ==
    FoldedFields \subseteq DOMAIN r /\ \A f \in FoldedFields \ F : r[f] = s[f]

\* RollingDeltaUpdate writes the signed sample and the sum of the recent ones.
LEMMA RollingDeltaTouches ==
    ASSUME NEW s, NEW t, FoldedFields \subseteq DOMAIN s
    PROVE  LET r == RollingDeltaUpdate(s, t)
               q == Push(s.samples, [ts |-> t.ts, signed |-> SignVolume(s, t)], DeltaCapacity)
           IN  /\ Touches(r, s, {"samples", "delta"})
               /\ r.samples = q /\ r.delta = SumSince(q, t.ts - DeltaWindow)
<1> DEFINE q == Push(s.samples, [ts |-> t.ts, signed |-> SignVolume(s, t)], DeltaCapacity)
           d == SumSince(q, t.ts - DeltaWindow)
           r == [s EXCEPT !.samples = q, !.delta = d]
<1>1. RollingDeltaUpdate(s, t) = r BY DEF RollingDeltaUpdate
<1> HIDE DEF q, d
<1>2. Touches(r, s, {"samples", "delta"}) /\ r.samples = q /\ r.delta = d
  BY DEF Touches, FoldedFields
<1> HIDE DEF r
<1> QED BY <1>1, <1>2 DEF q, d

\* LiquidityUpdate writes the sizes of the book.
LEMMA LiquidityTouches ==
    ASSUME NEW s, NEW t, FoldedFields \subseteq DOMAIN s
    PROVE  LET r == LiquidityUpdate(s, t)
           IN  Touches(r, s, {"buy", "sell"}) /\ r.buy = t.buy /\ r.sell = t.sell
<1> DEFINE i == ClampUnit((1000 * (t.buy - t.sell))
                            \div (IF t.buy + t.sell < 1 THEN 1 ELSE t.buy + t.sell))
           r == [s EXCEPT !.buy = t.buy, !.sell = t.sell, !.imbalance = i]
<1>1. LiquidityUpdate(s, t) = r BY DEF LiquidityUpdate
<1> HIDE DEF i
<1>2. Touches(r, s, {"buy", "sell"}) /\ r.buy = t.buy /\ r.sell = t.sell
  BY DEF Touches, FoldedFields
<1> QED BY <1>1, <1>2

\* VwapUpdate writes turnover and volume.
LEMMA VwapTouches ==
    ASSUME NEW s, NEW t, FoldedFields \subseteq DOMAIN s
    PROVE  LET r == VwapUpdate(s, t)
           IN  /\ Touches(r, s, {"num", "den"})
               /\ r.num = s.num + t.ltp * t.qty /\ r.den = s.den + t.qty
BY DEF VwapUpdate, Touches, FoldedFields

\* AtrUpdate writes the true range and the close.
LEMMA AtrTouches ==
    ASSUME NEW s, NEW t, FoldedFields \subseteq DOMAIN s
    PROVE  LET r == AtrUpdate(s, t)
           IN  /\ Touches(r, s, {"tr", "prevClose"}) /\ r.prevClose = t.ltp
               /\ r.tr = Push(s.tr, IF s.count = 0 THEN 0 ELSE AbsDiff(t.ltp, s.prevClose), AtrWindow)
BY DEF AtrUpdate, Touches, FoldedFields

\* VolatilityUpdate writes the pair of prices of a return.
LEMMA VolatilityTouches ==
    ASSUME NEW s, NEW t, FoldedFields \subseteq DOMAIN s
    PROVE  LET r == VolatilityUpdate(s, t)
           IN  /\ Touches(r, s, {"returns"})
               /\ r.returns = IF s.last > 0 /\ t.ltp > 0 THEN Push(s.returns, <<s.last, t.ltp>>, VolWindow)
                              ELSE s.returns
BY DEF VolatilityUpdate, Touches, FoldedFields

\* MomentumUpdate writes the price.
LEMMA MomentumTouches ==
    ASSUME NEW s, NEW t, FoldedFields \subseteq DOMAIN s
    PROVE  LET r == MomentumUpdate(s, t)
           IN  Touches(r, s, {"momentum"}) /\ r.momentum = Push(s.momentum, t.ltp, MomentumWindow)
BY DEF MomentumUpdate, Touches, FoldedFields

\* DonchianUpdate writes the price.
LEMMA DonchianTouches ==
    ASSUME NEW s, NEW t, FoldedFields \subseteq DOMAIN s
    PROVE  LET r == DonchianUpdate(s, t)
           IN  Touches(r, s, {"channel"}) /\ r.channel = Push(s.channel, t.ltp, DonchianWindow)
BY DEF DonchianUpdate, Touches, FoldedFields

\* The roll writes price, count and time.
LEMMA RollTouches ==
    ASSUME NEW s, NEW t, FoldedFields \subseteq DOMAIN s
    PROVE  LET r == Roll(s, t)
           IN  /\ Touches(r, s, {"count", "last", "ts"})
               /\ r.count = s.count + 1 /\ r.last = t.ltp /\ r.ts = t.ts
BY DEF Roll, Touches, FoldedFields

\* The other indicators write none of them.
LEMMA OthersTouch ==
    ASSUME NEW s, NEW t, FoldedFields \subseteq DOMAIN s
    PROVE  /\ Touches(EmaUpdate(s, t), s, {}) /\ Touches(CandleUpdate(s, t), s, {})
           /\ Touches(SweepUpdate(s, t), s, {}) /\ Touches(RsiUpdate(s, t), s, {})
           /\ Touches(AdxUpdate(s, t), s, {})
<1>1. Touches(EmaUpdate(s, t), s, {}) BY DEF EmaUpdate, Touches, FoldedFields
<1>2. Touches(CandleUpdate(s, t), s, {}) BY DEF CandleUpdate, Touches, FoldedFields
<1>3. Touches(SweepUpdate(s, t), s, {}) BY DEF SweepUpdate, Touches, FoldedFields
<1>4. Touches(RsiUpdate(s, t), s, {}) BY DEF RsiUpdate, Touches, FoldedFields
<1>5. Touches(AdxUpdate(s, t), s, {}) BY DEF AdxUpdate, Touches, FoldedFields
<1> QED BY <1>1, <1>2, <1>3, <1>4, <1>5

\* What one tick does to these fields: every indicator reads the state before the
\* tick, for the roll of price and count comes last.
LEMMA TickFolds ==
    ASSUME NEW s, NEW t, FoldedFields \subseteq DOMAIN s
    PROVE  LET r == FoldTick(s, t)
               q == Push(s.samples, [ts |-> t.ts, signed |-> SignVolume(s, t)], DeltaCapacity)
           IN  /\ FoldedFields \subseteq DOMAIN r
               /\ r.count = s.count + 1 /\ r.last = t.ltp /\ r.ts = t.ts /\ r.prevClose = t.ltp
               /\ r.buy = t.buy /\ r.sell = t.sell
               /\ r.num = s.num + t.ltp * t.qty /\ r.den = s.den + t.qty
               /\ r.tr = Push(s.tr, IF s.count = 0 THEN 0 ELSE AbsDiff(t.ltp, s.prevClose), AtrWindow)
               /\ r.channel = Push(s.channel, t.ltp, DonchianWindow)
               /\ r.momentum = Push(s.momentum, t.ltp, MomentumWindow)
               /\ r.returns = IF s.last > 0 /\ t.ltp > 0 THEN Push(s.returns, <<s.last, t.ltp>>, VolWindow)
                              ELSE s.returns
               /\ r.samples = q /\ r.delta = SumSince(q, t.ts - DeltaWindow)
<1> DEFINE q == Push(s.samples, [ts |-> t.ts, signed |-> SignVolume(s, t)], DeltaCapacity)
           r1 == RollingDeltaUpdate(s, t)
           r2 == LiquidityUpdate(r1, t)
           r3 == VwapUpdate(r2, t)
           r4 == AtrUpdate(r3, t)
           r5 == EmaUpdate(r4, t)
           r6 == VolatilityUpdate(r5, t)
           r7 == MomentumUpdate(r6, t)
           r8 == CandleUpdate(r7, t)
           r9 == SweepUpdate(r8, t)
           r10 == RsiUpdate(r9, t)
           r11 == DonchianUpdate(r10, t)
           r12 == AdxUpdate(r11, t)
           r13 == Roll(r12, t)
<1>0. FoldTick(s, t) = r13 BY DEF FoldTick, ProcessTick, Indicators
<1>1. /\ Touches(r1, s, {"samples", "delta"})
      /\ r1.samples = q /\ r1.delta = SumSince(q, t.ts - DeltaWindow)
  BY RollingDeltaTouches
<1> HIDE DEF q, r1
<1>2. Touches(r2, r1, {"buy", "sell"}) /\ r2.buy = t.buy /\ r2.sell = t.sell
  BY <1>1, LiquidityTouches DEF Touches
<1> HIDE DEF r2
<1>3. Touches(r3, r2, {"num", "den"}) /\ r3.num = r2.num + t.ltp * t.qty /\ r3.den = r2.den + t.qty
  BY <1>2, VwapTouches DEF Touches
<1> HIDE DEF r3
<1>4. /\ Touches(r4, r3, {"tr", "prevClose"}) /\ r4.prevClose = t.ltp
      /\ r4.tr = Push(r3.tr, IF r3.count = 0 THEN 0 ELSE AbsDiff(t.ltp, r3.prevClose), AtrWindow)
  BY <1>3, AtrTouches DEF Touches
<1> HIDE DEF r4
<1>5. Touches(r5, r4, {}) BY <1>4, OthersTouch DEF Touches
<1> HIDE DEF r5
<1>6. /\ Touches(r6, r5, {"returns"})
      /\ r6.returns = IF r5.last > 0 /\ t.ltp > 0 THEN Push(r5.returns, <<r5.last, t.ltp>>, VolWindow)
                      ELSE r5.returns
  BY <1>5, VolatilityTouches DEF Touches
<1> HIDE DEF r6
<1>7. Touches(r7, r6, {"momentum"}) /\ r7.momentum = Push(r6.momentum, t.ltp, MomentumWindow)
  BY <1>6, MomentumTouches DEF Touches
<1> HIDE DEF r7
<1>8. Touches(r8, r7, {}) BY <1>7, OthersTouch DEF Touches
<1> HIDE DEF r8
<1>9. Touches(r9, r8, {}) BY <1>8, OthersTouch DEF Touches
<1> HIDE DEF r9
<1>10. Touches(r10, r9, {}) BY <1>9, OthersTouch DEF Touches
<1> HIDE DEF r10
<1>11. Touches(r11, r10, {"channel"}) /\ r11.channel = Push(r10.channel, t.ltp, DonchianWindow)
  BY <1>10, DonchianTouches DEF Touches
<1> HIDE DEF r11
<1>12. Touches(r12, r11, {}) BY <1>11, OthersTouch DEF Touches
<1> HIDE DEF r12
<1>13. /\ Touches(r13, r12, {"count", "last", "ts"})
       /\ r13.count = r12.count + 1 /\ r13.last = t.ltp /\ r13.ts = t.ts
  BY <1>12, RollTouches DEF Touches
<1> HIDE DEF r13
<1> USE DEF Touches, FoldedFields
<1>14. FoldedFields \subseteq DOMAIN r13 BY <1>13
<1>15. r12.count = s.count /\ r3.count = s.count
  BY <1>1, <1>2, <1>3, <1>4, <1>5, <1>6, <1>7, <1>8, <1>9, <1>10, <1>11, <1>12
<1>16. r13.prevClose = t.ltp /\ r3.prevClose = s.prevClose
  BY <1>1, <1>2, <1>3, <1>4, <1>5, <1>6, <1>7, <1>8, <1>9, <1>10, <1>11, <1>12, <1>13
<1>17. r13.buy = t.buy /\ r13.sell = t.sell
  BY <1>2, <1>3, <1>4, <1>5, <1>6, <1>7, <1>8, <1>9, <1>10, <1>11, <1>12, <1>13
<1>18. r13.num = s.num + t.ltp * t.qty /\ r13.den = s.den + t.qty
  <2>1. r2.num = s.num /\ r2.den = s.den BY <1>1, <1>2
  <2>2. r13.num = r3.num /\ r13.den = r3.den
    BY <1>4, <1>5, <1>6, <1>7, <1>8, <1>9, <1>10, <1>11, <1>12, <1>13
  <2> QED BY <1>3, <2>1, <2>2
<1>19. r13.tr = r4.tr /\ r3.tr = s.tr
  <2>1. r3.tr = s.tr BY <1>1, <1>2, <1>3
  <2>2. r8.tr = r4.tr BY <1>5, <1>6, <1>7, <1>8
  <2>3. r13.tr = r8.tr BY <1>9, <1>10, <1>11, <1>12, <1>13
  <2> QED BY <2>1, <2>2, <2>3
<1>20. r13.channel = r11.channel /\ r10.channel = s.channel
  <2>1. r10.channel = s.channel BY <1>1, <1>2, <1>3, <1>4, <1>5, <1>6, <1>7, <1>8, <1>9, <1>10
  <2>2. r13.channel = r11.channel BY <1>12, <1>13
  <2> QED BY <2>1, <2>2
<1>21. r13.momentum = r7.momentum /\ r6.momentum = s.momentum
  <2>1. r6.momentum = s.momentum BY <1>1, <1>2, <1>3, <1>4, <1>5, <1>6
  <2>2. r13.momentum = r7.momentum BY <1>8, <1>9, <1>10, <1>11, <1>12, <1>13
  <2> QED BY <2>1, <2>2
<1>22. r13.returns = r6.returns /\ r5.returns = s.returns /\ r5.last = s.last
  BY <1>1, <1>2, <1>3, <1>4, <1>5, <1>7, <1>8, <1>9, <1>10, <1>11, <1>12, <1>13
<1>23. r13.samples = r1.samples /\ r13.delta = r1.delta
  BY <1>2, <1>3, <1>4, <1>5, <1>6, <1>7, <1>8, <1>9, <1>10, <1>11, <1>12, <1>13
<1>24. /\ r13.tr = Push(s.tr, IF s.count = 0 THEN 0 ELSE AbsDiff(t.ltp, s.prevClose), AtrWindow)
       /\ r13.channel = Push(s.channel, t.ltp, DonchianWindow)
       /\ r13.momentum = Push(s.momentum, t.ltp, MomentumWindow)
       /\ r13.returns = IF s.last > 0 /\ t.ltp > 0 THEN Push(s.returns, <<s.last, t.ltp>>, VolWindow)
                        ELSE s.returns
  BY <1>4, <1>6, <1>7, <1>11, <1>15, <1>16, <1>19, <1>20, <1>21, <1>22
<1>25. r13.samples = q /\ r13.delta = SumSince(q, t.ts - DeltaWindow) BY <1>1, <1>23
<1> QED BY <1>0, <1>13, <1>14, <1>15, <1>16, <1>17, <1>18, <1>24, <1>25 DEF q

\* The last tick of the log is the one the state remembers.
Latest(s, log) ==
    /\ s.count = Len(log) /\ s.ts \in Int
    /\ Len(log) = 0 => s.last = 0 /\ s.buy = 0 /\ s.sell = 0
    /\ Len(log) > 0 => LET t == log[Len(log)]
                       IN  /\ s.last = t.ltp /\ s.prevClose = t.ltp
                           /\ s.buy = t.buy /\ s.sell = t.sell

\* The accumulators hold the totals of the log.
Totals(s, log) ==
    s.num = SumFunction(TurnoverOf(log)) /\ s.den = SumFunction(VolumeOf(log))

\* The rings hold the ends of the series of the log.
Windows(s, log) ==
    /\ s.tr \in Seq(Int) /\ RingOf(s.tr, RangesOf(log), AtrWindow)
    /\ s.channel \in Seq(Nat) /\ RingOf(s.channel, PricesOf(log), DonchianWindow)
    /\ s.momentum \in Seq(Nat) /\ RingOf(s.momentum, PricesOf(log), MomentumWindow)
    /\ s.returns \in Seq(Priced \X Priced)
    /\ Len(s.returns) <= VolWindow
    /\ AllPriced(log) => RingOf(s.returns, ReturnsOf(log), VolWindow)
    /\ s.samples \in Seq(Sample) /\ RingOf(s.samples, SamplesOf(log), DeltaCapacity)

\* The state is the log, folded.
Folded(s, log) ==
    /\ log \in Seq(LoggedTick) /\ FoldedFields \subseteq DOMAIN s
    /\ Latest(s, log) /\ Totals(s, log) /\ Windows(s, log)

\* A tick is signed against the state as it is against the tick before it.
LEMMA SignedAlike ==
    ASSUME NEW s, NEW log \in Seq(LoggedTick), Latest(s, log), NEW t \in LoggedTick
    PROVE  SignVolume(s, t) = SignedAt(Append(log, t), Len(log) + 1)
<1> DEFINE a == Append(log, t)
           n == Len(log)
<1>1. n \in Nat /\ a[n + 1] = t /\ \A i \in 1..n : a[i] = log[i] OBVIOUS
<1>2. t.ltp \in Nat /\ t.qty \in Nat /\ t.buy \in Nat /\ t.sell \in Nat BY DEF LoggedTick
<1>3. CASE n = 0
  <2>1. n + 1 = 1 /\ a[1] = t BY <1>1, <1>3
  <2>2. s.last = 0 /\ s.buy = 0 /\ s.sell = 0 BY <1>3 DEF Latest
  <2> HIDE DEF a, n
  <2>3. SignVolume(s, t) = SignedAt(a, n + 1) BY <1>2, <2>1, <2>2 DEF SignVolume, SignedAt
  <2> QED BY <2>3 DEF a, n
<1>4. CASE n > 0
  <2>1. n \in 1..n /\ (n + 1) - 1 = n /\ n + 1 # 1 BY <1>1, <1>4
  <2> DEFINE l == log[n]
  <2>2. l \in LoggedTick /\ a[n] = l BY <1>1, <2>1
  <2>3. s.last = l.ltp /\ s.buy = l.buy /\ s.sell = l.sell BY <1>4 DEF Latest
  <2>4. l.ltp \in Nat /\ l.buy \in Nat /\ l.sell \in Nat BY <2>2 DEF LoggedTick
  <2> HIDE DEF l, a, n
  <2>5. SignVolume(s, t) = SignedAt(a, n + 1)
    BY <1>1, <1>2, <2>1, <2>2, <2>3, <2>4 DEF SignVolume, SignedAt
  <2> QED BY <2>5 DEF a, n
<1> QED BY <1>1, <1>3, <1>4

\* One more tick: what is folded stays the log, folded, and the cached delta is the
\* sum over the recent samples.
LEMMA FoldKeeps ==
    ASSUME NEW s, NEW log, Folded(s, log), NEW t \in LoggedTick
    PROVE  LET r == FoldTick(s, t)
           IN  Folded(r, Append(log, t)) /\ r.delta = SumSince(r.samples, t.ts - DeltaWindow)
<1> DEFINE r == FoldTick(s, t)
           a == Append(log, t)
           n == Len(log)
           x == SignedAt(a, n + 1)
<1>a. /\ AtrWindow \in Nat \ {0} /\ DonchianWindow \in Nat \ {0} /\ MomentumWindow \in Nat \ {0}
      /\ VolWindow \in Nat \ {0} /\ DeltaCapacity \in Nat \ {0}
  BY FeatureAssumption
<1>0. log \in Seq(LoggedTick) /\ FoldedFields \subseteq DOMAIN s BY DEF Folded
<1>1. Latest(s, log) /\ Totals(s, log) /\ Windows(s, log) BY DEF Folded
<1>2. a \in Seq(LoggedTick) /\ n \in Nat /\ Len(a) = n + 1 /\ a[n + 1] = t BY <1>0
<1>3. t.ltp \in Nat /\ t.qty \in Nat /\ t.ts \in Int /\ t.ltp * t.qty \in Int
  <2>1. t.ltp \in Nat /\ t.qty \in Nat /\ t.ts \in Int BY DEF LoggedTick
  <2>2. \A i, j \in Nat : i * j \in Int OBVIOUS
  <2> QED BY <2>1, <2>2
<1>4. SignVolume(s, t) = x BY <1>0, <1>1, SignedAlike
<1>5. x \in Int
  <2>1. n + 1 \in 1..Len(a) BY <1>2
  <2> HIDE DEF a, n
  <2> QED BY <1>2, <2>1, SignedTyped
<1> DEFINE e == [ts |-> t.ts, signed |-> x]
           q == Push(s.samples, e, DeltaCapacity)
           z == IF n = 0 THEN 0 ELSE AbsDiff(t.ltp, log[n].ltp)
<1>6. /\ FoldedFields \subseteq DOMAIN r
      /\ r.count = s.count + 1 /\ r.last = t.ltp /\ r.ts = t.ts /\ r.prevClose = t.ltp
      /\ r.buy = t.buy /\ r.sell = t.sell
      /\ r.num = s.num + t.ltp * t.qty /\ r.den = s.den + t.qty
      /\ r.tr = Push(s.tr, IF s.count = 0 THEN 0 ELSE AbsDiff(t.ltp, s.prevClose), AtrWindow)
      /\ r.channel = Push(s.channel, t.ltp, DonchianWindow)
      /\ r.momentum = Push(s.momentum, t.ltp, MomentumWindow)
      /\ r.returns = IF s.last > 0 /\ t.ltp > 0 THEN Push(s.returns, <<s.last, t.ltp>>, VolWindow)
                     ELSE s.returns
      /\ r.samples = q /\ r.delta = SumSince(q, t.ts - DeltaWindow)
  BY <1>0, <1>4, TickFolds
<1>7. /\ PricesOf(a) = Append(PricesOf(log), t.ltp)
      /\ TurnoverOf(a) = Append(TurnoverOf(log), t.ltp * t.qty)
      /\ VolumeOf(a) = Append(VolumeOf(log), t.qty)
      /\ RangesOf(a) = Append(RangesOf(log), z)
      /\ n = 0 => ReturnsOf(a) = ReturnsOf(log)
      /\ n > 0 => ReturnsOf(a) = Append(ReturnsOf(log), <<log[n].ltp, t.ltp>>)
      /\ SamplesOf(a) = Append(SamplesOf(log), e)
  BY <1>0, SeriesGrow
<1>8. /\ PricesOf(log) \in Seq(Nat) /\ TurnoverOf(log) \in Seq(Int)
      /\ VolumeOf(log) \in Seq(Int) /\ RangesOf(log) \in Seq(Int)
      /\ ReturnsOf(log) \in Seq(Nat \X Nat) /\ SamplesOf(log) \in Seq(Sample)
  BY <1>0, SeriesTyped
<1>9. /\ s.count = n
      /\ n = 0 => s.last = 0
      /\ n > 0 => s.last = log[n].ltp /\ s.prevClose = log[n].ltp
  BY <1>1 DEF Latest
<1>10. n > 0 => log[n].ltp \in Nat
  <2> SUFFICES ASSUME n > 0 PROVE log[n].ltp \in Nat OBVIOUS
  <2>1. log[n] \in LoggedTick BY <1>0, <1>2
  <2> QED BY <2>1 DEF LoggedTick
<1>11. e \in Sample BY <1>3, <1>5 DEF Sample
<1> HIDE DEF r, a, n, x, e, q
<1>12. z \in Int
  <2>1. \A i, j \in Nat : AbsDiff(i, j) \in Int BY DEF AbsDiff
  <2>2. CASE n = 0 BY <2>2
  <2>3. CASE n > 0
    <3>1. AbsDiff(t.ltp, log[n].ltp) \in Int BY <1>3, <1>10, <2>1, <2>3
    <3> QED BY <3>1
  <2> QED BY <1>2, <2>2, <2>3
<1>13. Push(s.tr, IF s.count = 0 THEN 0 ELSE AbsDiff(t.ltp, s.prevClose), AtrWindow)
          = Push(s.tr, z, AtrWindow)
  BY <1>2, <1>9
<1> HIDE DEF z
<1>14. Latest(r, a) BY <1>2, <1>3, <1>6, <1>9 DEF Latest
<1>15. Totals(r, a)
  <2>1. SumFunction(TurnoverOf(a)) = SumFunction(TurnoverOf(log)) + t.ltp * t.qty
    BY <1>3, <1>7, <1>8, SumAppend
  <2>2. SumFunction(VolumeOf(a)) = SumFunction(VolumeOf(log)) + t.qty
    <3>1. t.qty \in Int /\ VolumeOf(log) \in Seq(Int) BY <1>3, <1>8
    <3> QED BY <1>7, <3>1, SumAppend
  <2> QED BY <1>1, <1>6, <2>1, <2>2 DEF Totals
<1>16. r.tr \in Seq(Int) /\ RingOf(r.tr, RangesOf(a), AtrWindow)
  <2>1. s.tr \in Seq(Int) /\ RingOf(s.tr, RangesOf(log), AtrWindow) BY <1>1 DEF Windows
  <2>2. r.tr = Push(s.tr, z, AtrWindow) BY <1>6, <1>13
  <2>3. RangesOf(a) = Append(RangesOf(log), z) /\ RangesOf(log) \in Seq(Int) BY <1>7, <1>8
  <2> QED BY <1>a, <1>12, <2>1, <2>2, <2>3, PushIsRing
<1>17. r.channel \in Seq(Nat) /\ RingOf(r.channel, PricesOf(a), DonchianWindow)
  <2>1. s.channel \in Seq(Nat) /\ RingOf(s.channel, PricesOf(log), DonchianWindow)
    BY <1>1 DEF Windows
  <2>2. r.channel = Push(s.channel, t.ltp, DonchianWindow) /\ t.ltp \in Nat BY <1>3, <1>6
  <2>3. PricesOf(a) = Append(PricesOf(log), t.ltp) /\ PricesOf(log) \in Seq(Nat)
    BY <1>7, <1>8
  <2> QED BY <1>a, <2>1, <2>2, <2>3, PushIsRing
<1>18. r.momentum \in Seq(Nat) /\ RingOf(r.momentum, PricesOf(a), MomentumWindow)
  <2>1. s.momentum \in Seq(Nat) /\ RingOf(s.momentum, PricesOf(log), MomentumWindow)
    BY <1>1 DEF Windows
  <2>2. r.momentum = Push(s.momentum, t.ltp, MomentumWindow) /\ t.ltp \in Nat BY <1>3, <1>6
  <2>3. PricesOf(a) = Append(PricesOf(log), t.ltp) /\ PricesOf(log) \in Seq(Nat)
    BY <1>7, <1>8
  <2> QED BY <1>a, <2>1, <2>2, <2>3, PushIsRing
<1>19. /\ r.returns \in Seq(Priced \X Priced) /\ Len(r.returns) <= VolWindow
       /\ AllPriced(a) => RingOf(r.returns, ReturnsOf(a), VolWindow)
  <2> DEFINE P == Priced \X Priced
             V == Nat \X Nat
             p == <<s.last, t.ltp>>
  <2>1. /\ s.returns \in Seq(P) /\ Len(s.returns) <= VolWindow
        /\ AllPriced(log) => RingOf(s.returns, ReturnsOf(log), VolWindow)
    BY <1>1 DEF Windows
  <2>2. s.last \in Nat BY <1>2, <1>9, <1>10
  <2>3. AllPriced(a) => AllPriced(log) /\ t.ltp > 0 /\ (n > 0 => s.last > 0)
    BY <1>0, <1>2, <1>9 DEF AllPriced, a, n
  <2>4. CASE ~(s.last > 0 /\ t.ltp > 0)
    <3>1. r.returns = s.returns BY <1>6, <2>4
    <3>2. AllPriced(a) => ReturnsOf(a) = ReturnsOf(log) /\ AllPriced(log)
      BY <1>2, <1>7, <2>3, <2>4
    <3> QED BY <2>1, <3>1, <3>2
  <2>5. CASE s.last > 0 /\ t.ltp > 0
    <3>1. p \in P /\ p \in V BY <1>3, <2>2, <2>5 DEF Priced
    <3>2. \A w \in Seq(P) : w \in Seq(V) BY DEF Priced
    <3>3. s.returns \in Seq(V) /\ ReturnsOf(log) \in Seq(V) BY <1>8, <2>1, <3>2
    <3>4. n > 0 /\ p = <<log[n].ltp, t.ltp>> BY <1>2, <1>9, <2>5
    <3> HIDE DEF p, P, V
    <3>5. r.returns = Push(s.returns, p, VolWindow) BY <1>6, <2>5 DEF p
    <3>6. ReturnsOf(a) = Append(ReturnsOf(log), p) BY <1>7, <3>4
    <3>7. AllPriced(a) => RingOf(r.returns, ReturnsOf(a), VolWindow)
      BY <1>a, <2>1, <2>3, <3>1, <3>3, <3>5, <3>6, PushIsRing
    <3>8. Push(s.returns, p, VolWindow) \in Seq(P) /\ Len(Push(s.returns, p, VolWindow)) <= VolWindow
      BY <1>a, <2>1, <3>1, PushTyped
    <3> QED BY <3>5, <3>7, <3>8 DEF P
  <2> QED BY <2>4, <2>5
<1>20. r.samples \in Seq(Sample) /\ RingOf(r.samples, SamplesOf(a), DeltaCapacity)
  <2>1. s.samples \in Seq(Sample) /\ RingOf(s.samples, SamplesOf(log), DeltaCapacity)
    BY <1>1 DEF Windows
  <2>2. r.samples = Push(s.samples, e, DeltaCapacity) BY <1>6 DEF q
  <2>3. SamplesOf(a) = Append(SamplesOf(log), e) /\ SamplesOf(log) \in Seq(Sample) BY <1>7, <1>8
  <2> QED BY <1>a, <1>11, <2>1, <2>2, <2>3, PushIsRing
<1>21. Windows(r, a) BY <1>16, <1>17, <1>18, <1>19, <1>20 DEF Windows
<1>22. Folded(r, a) BY <1>2, <1>6, <1>14, <1>15, <1>21 DEF Folded
<1>23. r.delta = SumSince(r.samples, t.ts - DeltaWindow) BY <1>6
<1> QED BY <1>22, <1>23 DEF r, a

\* The values of a snapshot that a batch computation gives, computed from the log.
BatchValues(p, log) ==
    LET n    == Len(log)
        vol  == SumFunction(VolumeOf(log))
        tr   == LastOf(RangesOf(log), AtrWindow)
        live == {i \in 1..n : log[i].ts >= log[n].ts - DeltaWindow /\ i > n - DeltaCapacity}
        old  == Head(LastOf(PricesOf(log), MomentumWindow))
    IN  /\ p.vwap = IF vol = 0 THEN 0 ELSE SumFunction(TurnoverOf(log)) \div vol
        /\ p.atr = SumFunction(tr) \div Len(tr)
        /\ p.upper = Max(ToSet(LastOf(PricesOf(log), DonchianWindow)))
        /\ p.lower = Min(ToSet(LastOf(PricesOf(log), DonchianWindow)))
        /\ p.momentum = IF old = 0 THEN 0 ELSE (1000 * (log[n].ltp - old)) \div old
        /\ p.returns \in Seq(Priced \X Priced)
        /\ AllPriced(log) => p.returns = LastOf(ReturnsOf(log), VolWindow)
        /\ p.delta = SumFunction([i \in 1..n |-> IF i \in live THEN SignedAt(log, i) ELSE 0])

\* The samples of the ring that are recent enough are the live ticks of the log.
LEMMA DeltaIsLive ==
    ASSUME NEW s, NEW log, Folded(s, log), Len(log) > 0
    PROVE  LET n == Len(log)
               live == {i \in 1..n : log[i].ts >= log[n].ts - DeltaWindow /\ i > n - DeltaCapacity}
           IN  SumSince(s.samples, log[n].ts - DeltaWindow)
                 = SumFunction([i \in 1..n |-> IF i \in live THEN SignedAt(log, i) ELSE 0])
<1> DEFINE n == Len(log)
           c == log[n].ts - DeltaWindow
           live == {i \in 1..n : log[i].ts >= c /\ i > n - DeltaCapacity}
           v == [i \in 1..n |-> IF i \in live THEN SignedAt(log, i) ELSE 0]
           q == s.samples
           m == Len(q)
           w == [k \in DOMAIN q |-> IF q[k].ts >= c THEN q[k].signed ELSE 0]
<1>1. /\ log \in Seq(LoggedTick) /\ q \in Seq(Sample) /\ RingOf(q, SamplesOf(log), DeltaCapacity)
      /\ SamplesOf(log) \in Seq(Sample)
  BY SeriesTyped DEF Folded, Windows
<1>2. n \in Nat /\ m \in Nat /\ DOMAIN q = 1..m /\ Len(SamplesOf(log)) = n BY <1>1 DEF SamplesOf
<1>3. DeltaCapacity \in Nat BY FeatureAssumption
<1>4. /\ m = IF n > DeltaCapacity THEN DeltaCapacity ELSE n
      /\ \A k \in 1..m : q[k] = SamplesOf(log)[n - m + k]
  BY <1>1, <1>2 DEF RingOf
<1>5. \A i \in 1..n : SignedAt(log, i) \in Int BY <1>1, SignedTyped
<1>6. \A k \in 1..m : q[k].signed \in Int
  <2>1. \A k \in 1..m : q[k] \in Sample BY <1>1
  <2> QED BY <2>1 DEF Sample
<1>7. \A i \in 1..n : SamplesOf(log)[i].ts = log[i].ts /\ SamplesOf(log)[i].signed = SignedAt(log, i)
  BY DEF SamplesOf
<1> HIDE DEF n, m, c
<1>8. v \in [1..n -> Int]
  <2>1. \A i \in 1..n : (IF i \in live THEN SignedAt(log, i) ELSE 0) \in Int BY <1>5
  <2> QED BY <2>1
<1>9. w \in [1..m -> Int]
  <2>1. \A k \in 1..m : (IF q[k].ts >= c THEN q[k].signed ELSE 0) \in Int BY <1>6
  <2> QED BY <1>2, <2>1
<1>10. m <= n BY <1>2, <1>3, <1>4
<1>11. ASSUME NEW i \in 1..n, i <= n - m PROVE v[i] = 0
  <2>1. i <= n - DeltaCapacity BY <1>2, <1>3, <1>4, <1>11
  <2>2. ~(i > n - DeltaCapacity) BY <1>2, <1>3, <2>1
  <2> QED BY <2>2
<1>12. ASSUME NEW k \in 1..m PROVE w[k] = v[n - m + k]
  <2> DEFINE j == n - m + k
  <2>1. j \in 1..n /\ j > n - DeltaCapacity BY <1>2, <1>3, <1>4, <1>10
  <2>2. q[k] = SamplesOf(log)[j] BY <1>4
  <2> HIDE DEF j
  <2>3. q[k].ts = log[j].ts /\ q[k].signed = SignedAt(log, j) BY <1>7, <2>1, <2>2
  <2>4. j \in live <=> log[j].ts >= c BY <2>1
  <2>5. w[k] = IF q[k].ts >= c THEN q[k].signed ELSE 0 BY <1>2
  <2>6. v[j] = IF j \in live THEN SignedAt(log, j) ELSE 0 BY <2>1
  <2> HIDE DEF v, w, live
  <2>7. w[k] = v[j] BY <2>3, <2>4, <2>5, <2>6
  <2> QED BY <2>7 DEF j
<1> HIDE DEF v, w, live
<1>13. EndsIn(v, n, w, m) BY <1>2, <1>8, <1>9, <1>10, <1>11, <1>12 DEF EndsIn
<1>14. SumFunction(w) = SumFunction(v) BY <1>13, SumOfEnd
<1>15. SumSince(q, c) = SumFunction(w) BY DEF SumSince, w
<1> QED BY <1>14, <1>15 DEF v, live, c, n

\* The snapshot of a folded log has the values of the log.
LEMMA SnapshotIsBatch ==
    ASSUME NEW s, NEW log, Folded(s, log), Len(log) > 0,
           s.delta = SumSince(s.samples, log[Len(log)].ts - DeltaWindow)
    PROVE  BatchValues(Snapshot(s, log[Len(log)]), log)
<1> DEFINE n == Len(log)
           t == log[n]
           p == Snapshot(s, t)
           old == Head(s.momentum)
<1>a. /\ AtrWindow \in Nat \ {0} /\ DonchianWindow \in Nat \ {0} /\ MomentumWindow \in Nat \ {0}
      /\ VolWindow \in Nat \ {0}
  BY FeatureAssumption
<1>1. log \in Seq(LoggedTick) /\ Totals(s, log) /\ Windows(s, log) BY DEF Folded
<1>2. /\ PricesOf(log) \in Seq(Nat) /\ RangesOf(log) \in Seq(Int)
      /\ ReturnsOf(log) \in Seq(Nat \X Nat)
  BY <1>1, SeriesTyped
<1>3. /\ p.vwap = IF s.den = 0 THEN 0 ELSE s.num \div s.den
      /\ p.atr = SumFunction(s.tr) \div Len(s.tr)
      /\ p.upper = Max(ToSet(s.channel)) /\ p.lower = Min(ToSet(s.channel))
      /\ p.momentum = IF Len(s.momentum) < 2 \/ old = 0 THEN 0 ELSE (1000 * (t.ltp - old)) \div old
      /\ p.returns = s.returns /\ p.delta = s.delta
  BY DEF Snapshot
<1>4. s.tr = LastOf(RangesOf(log), AtrWindow)
  <2>1. s.tr \in Seq(Int) /\ RingOf(s.tr, RangesOf(log), AtrWindow) BY <1>1 DEF Windows
  <2> QED BY <1>a, <1>2, <2>1, RingIsLast
<1>5. s.channel = LastOf(PricesOf(log), DonchianWindow)
  <2>1. s.channel \in Seq(Nat) /\ RingOf(s.channel, PricesOf(log), DonchianWindow)
    BY <1>1 DEF Windows
  <2> QED BY <1>a, <1>2, <2>1, RingIsLast
<1>6. s.momentum = LastOf(PricesOf(log), MomentumWindow)
  <2>1. s.momentum \in Seq(Nat) /\ RingOf(s.momentum, PricesOf(log), MomentumWindow)
    BY <1>1 DEF Windows
  <2> QED BY <1>a, <1>2, <2>1, RingIsLast
<1>7. /\ s.returns \in Seq(Priced \X Priced)
      /\ AllPriced(log) => s.returns = LastOf(ReturnsOf(log), VolWindow)
  <2> DEFINE V == Nat \X Nat
  <2>1. /\ s.returns \in Seq(Priced \X Priced)
        /\ AllPriced(log) => RingOf(s.returns, ReturnsOf(log), VolWindow)
    BY <1>1 DEF Windows
  <2>2. ReturnsOf(log) \in Seq(V) BY <1>2
  <2>3. \A w \in Seq(Priced \X Priced) : w \in Seq(V) BY DEF Priced
  <2> HIDE DEF V
  <2> QED BY <1>a, <2>1, <2>2, <2>3, RingIsLast
<1>8. (IF Len(s.momentum) < 2 \/ old = 0 THEN 0 ELSE (1000 * (t.ltp - old)) \div old)
        = (IF old = 0 THEN 0 ELSE (1000 * (t.ltp - old)) \div old)
  <2>1. s.momentum \in Seq(Nat) /\ RingOf(s.momentum, PricesOf(log), MomentumWindow)
    BY <1>1 DEF Windows
  <2>2. n \in Nat /\ Len(PricesOf(log)) = n /\ PricesOf(log)[n] = t.ltp BY <1>1 DEF PricesOf
  <2>3. Len(s.momentum) \in Nat /\ Len(s.momentum) > 0 BY <1>a, <2>1, <2>2 DEF RingOf
  <2>a. \A l \in Nat : l > 0 /\ l < 2 => l = 1 OBVIOUS
  <2>b. SUFFICES ASSUME Len(s.momentum) < 2, old # 0 PROVE (1000 * (t.ltp - old)) \div old = 0
    OBVIOUS
  <2>4. Len(s.momentum) = 1 BY <2>a, <2>b, <2>3, Zenon
  <2>5. s.momentum[1] = PricesOf(log)[n - 1 + 1] BY <2>1, <2>2, <2>4 DEF RingOf
  <2>6. old = t.ltp /\ old \in Nat \ {0} BY <2>b, <2>1, <2>2, <2>4, <2>5
  <2> HIDE DEF old, t
  <2>7. 1000 * (t.ltp - old) = 0 BY <2>6
  <2>8. \A d \in Nat \ {0} : 0 \div d = 0 OBVIOUS
  <2>9. 0 \div old = 0 BY <2>6, <2>8, Zenon
  <2> QED BY <2>7, <2>9, ZenonT(60)
<1>9. s.delta = SumFunction([i \in 1..n |->
                    IF i \in {k \in 1..n : log[k].ts >= log[n].ts - DeltaWindow /\ k > n - DeltaCapacity}
                    THEN SignedAt(log, i) ELSE 0])
  BY DeltaIsLive
<1>10. s.num = SumFunction(TurnoverOf(log)) /\ s.den = SumFunction(VolumeOf(log))
  BY <1>1 DEF Totals
<1> HIDE DEF p, t
<1>11. p.momentum = IF old = 0 THEN 0 ELSE (1000 * (t.ltp - old)) \div old BY <1>3, <1>8
<1>12. BatchValues(p, log)
  <2> DEFINE vol == SumFunction(VolumeOf(log))
             tr == LastOf(RangesOf(log), AtrWindow)
             live == {i \in 1..n : log[i].ts >= log[n].ts - DeltaWindow /\ i > n - DeltaCapacity}
             last == Head(LastOf(PricesOf(log), MomentumWindow))
  <2>1. p.vwap = IF vol = 0 THEN 0 ELSE SumFunction(TurnoverOf(log)) \div vol BY <1>3, <1>10
  <2>2. p.atr = SumFunction(tr) \div Len(tr) BY <1>3, <1>4
  <2>3. /\ p.upper = Max(ToSet(LastOf(PricesOf(log), DonchianWindow)))
        /\ p.lower = Min(ToSet(LastOf(PricesOf(log), DonchianWindow)))
    BY <1>3, <1>5
  <2>4. p.momentum = IF last = 0 THEN 0 ELSE (1000 * (log[n].ltp - last)) \div last
    BY <1>6, <1>11 DEF t
  <2>5. /\ p.returns \in Seq(Priced \X Priced)
        /\ AllPriced(log) => p.returns = LastOf(ReturnsOf(log), VolWindow)
    BY <1>3, <1>7
  <2>6. p.delta = SumFunction([i \in 1..n |-> IF i \in live THEN SignedAt(log, i) ELSE 0])
    BY <1>3, <1>9
  <2> QED BY <2>1, <2>2, <2>3, <2>4, <2>5, <2>6 DEF BatchValues
<1> QED BY <1>12 DEF p, t

\* The inductive invariant: every symbol's state is its log, folded.
FeatInv ==
    /\ DOMAIN feat = FeatSymbols /\ DOMAIN snap = FeatSymbols /\ DOMAIN ticksIn = FeatSymbols
    /\ \A y \in FeatSymbols :
          /\ Folded(feat[y], ticksIn[y])
          /\ Len(ticksIn[y]) > 0 => BatchValues(snap[y], ticksIn[y])

\* A fresh state is the empty log, folded.
LEMMA FreshIsFolded == Folded(FeatureState, <<>>)
<1> DEFINE l == <<>>
<1>1. l \in Seq(LoggedTick) /\ Len(l) = 0 OBVIOUS
<1>2. FoldedFields \subseteq DOMAIN FeatureState BY DEF FoldedFields, FeatureState
<1>3. /\ FeatureState.count = 0 /\ FeatureState.ts = 0 /\ FeatureState.last = 0
      /\ FeatureState.buy = 0 /\ FeatureState.sell = 0
      /\ FeatureState.num = 0 /\ FeatureState.den = 0
  BY DEF FeatureState
<1>4. /\ FeatureState.tr = <<>> /\ FeatureState.channel = <<>> /\ FeatureState.momentum = <<>>
      /\ FeatureState.returns = <<>> /\ FeatureState.samples = <<>>
  BY DEF FeatureState
<1> HIDE DEF l
<1>5. 1..Len(l) = {} /\ 1..(Len(l) - 1) = {} BY <1>1
<1>6. /\ TurnoverOf(l) = <<>> /\ VolumeOf(l) = <<>> /\ RangesOf(l) = <<>> /\ PricesOf(l) = <<>>
      /\ ReturnsOf(l) = <<>> /\ SamplesOf(l) = <<>>
  BY <1>5 DEF TurnoverOf, VolumeOf, RangesOf, PricesOf, ReturnsOf, SamplesOf
<1>7. Latest(FeatureState, l) BY <1>1, <1>3 DEF Latest
<1>8. Totals(FeatureState, l) BY <1>3, <1>6, SumNothing DEF Totals
<1>9. Windows(FeatureState, l)
  <2>1. /\ <<>> \in Seq(Int) /\ <<>> \in Seq(Nat) /\ <<>> \in Seq(Priced \X Priced)
        /\ <<>> \in Seq(Sample)
    OBVIOUS
  <2>2. \A k \in Nat : RingOf(<<>>, <<>>, k) BY DEF RingOf
  <2>3. /\ AtrWindow \in Nat /\ DonchianWindow \in Nat /\ MomentumWindow \in Nat
        /\ VolWindow \in Nat /\ DeltaCapacity \in Nat
    BY FeatureAssumption
  <2> QED BY <1>4, <1>6, <2>1, <2>2, <2>3 DEF Windows
<1> QED BY <1>1, <1>2, <1>7, <1>8, <1>9 DEF Folded, l

\* It holds of the fresh engine.
LEMMA FeatInitInv == FeatInit => FeatInv
<1> SUFFICES ASSUME FeatInit PROVE FeatInv OBVIOUS
<1>1. \A y \in FeatSymbols : feat[y] = FeatureState /\ ticksIn[y] = <<>> BY DEF FeatInit
<1>2. DOMAIN feat = FeatSymbols /\ DOMAIN snap = FeatSymbols /\ DOMAIN ticksIn = FeatSymbols
  BY DEF FeatInit
<1>3. Len(<<>>) = 0 /\ ~(0 > 0) OBVIOUS
<1> QED BY <1>1, <1>2, <1>3, FreshIsFolded DEF FeatInv

\* A tick is appended to the log and folded into the state.
LEMMA IngestKeeps ==
    ASSUME FeatInv, NEW y \in FeatSymbols, NEW t \in FeatTicks, NEW gap \in TickGaps,
           IngestTickFeat(y, t, gap)
    PROVE  FeatInv'
<1> DEFINE at == [ltp |-> t.ltp, qty |-> t.qty, buy |-> t.buy, sell |-> t.sell,
                  ts |-> feat[y].ts + gap]
           s == FoldTick(feat[y], at)
           log == ticksIn[y]
           a == Append(log, at)
<1>1. /\ feat' = [feat EXCEPT ![y] = s]
      /\ snap' = [snap EXCEPT ![y] = Snapshot(s, at)]
      /\ ticksIn' = [ticksIn EXCEPT ![y] = a]
  BY DEF IngestTickFeat
<1>2. /\ DOMAIN feat = FeatSymbols /\ DOMAIN snap = FeatSymbols /\ DOMAIN ticksIn = FeatSymbols
      /\ Folded(feat[y], log)
  BY DEF FeatInv
<1>3. at \in LoggedTick
  <2>1. t.ltp \in Nat /\ t.qty \in Nat /\ t.buy \in Nat /\ t.sell \in Nat /\ gap \in Nat
    BY FeatureAssumption
  <2>2. feat[y].ts \in Int BY <1>2 DEF Folded, Latest
  <2>3. feat[y].ts + gap \in Int BY <2>1, <2>2
  <2> QED BY <2>1, <2>3 DEF LoggedTick
<1> HIDE DEF at, log
<1>4. Folded(s, a) /\ s.delta = SumSince(s.samples, at.ts - DeltaWindow) BY <1>2, <1>3, FoldKeeps
<1>5. log \in Seq(LoggedTick) BY <1>2 DEF Folded
<1>6. Len(a) > 0 /\ a[Len(a)] = at BY <1>3, <1>5
<1> HIDE DEF s, a
<1>7. BatchValues(Snapshot(s, at), a) BY <1>4, <1>6, SnapshotIsBatch
<1>8. feat'[y] = s /\ snap'[y] = Snapshot(s, at) /\ ticksIn'[y] = a BY <1>1, <1>2
<1>9. /\ DOMAIN feat' = FeatSymbols /\ DOMAIN snap' = FeatSymbols /\ DOMAIN ticksIn' = FeatSymbols
      /\ \A z \in FeatSymbols : z # y => feat'[z] = feat[z] /\ snap'[z] = snap[z] /\ ticksIn'[z] = ticksIn[z]
  BY <1>1, <1>2
<1>10. ASSUME NEW z \in FeatSymbols
       PROVE  /\ Folded(feat'[z], ticksIn'[z])
              /\ Len(ticksIn'[z]) > 0 => BatchValues(snap'[z], ticksIn'[z])
  <2>1. CASE z = y BY <1>4, <1>7, <1>8, <2>1
  <2>2. CASE z # y BY <1>9, <2>2 DEF FeatInv
  <2> QED BY <2>1, <2>2
<1> QED BY <1>9, <1>10 DEF FeatInv

\* Only ticks change what is folded: the pressure is no part of it, and a reset
\* empties state and log together.
LEMMA OtherFeatKeeps ==
    ASSUME FeatInv, NEW y \in FeatSymbols, (\E v \in Pressures : IngestPressure(y, v)) \/ ResetSymbol(y)
    PROVE  FeatInv'
<1>1. /\ DOMAIN feat = FeatSymbols /\ DOMAIN snap = FeatSymbols /\ DOMAIN ticksIn = FeatSymbols
      /\ \A z \in FeatSymbols : /\ Folded(feat[z], ticksIn[z])
                                /\ Len(ticksIn[z]) > 0 => BatchValues(snap[z], ticksIn[z])
  BY DEF FeatInv
<1>2. ASSUME NEW v \in Pressures, IngestPressure(y, v) PROVE FeatInv'
  <2> DEFINE s == feat[y]
             r == [s EXCEPT !.flow = ClampUnit(v)]
  <2>1. feat' = [feat EXCEPT ![y] = r] /\ snap' = snap /\ ticksIn' = ticksIn
    BY <1>2 DEF IngestPressure
  <2>2. Folded(s, ticksIn[y]) BY <1>1
  <2>3. FoldedFields \subseteq DOMAIN s BY <2>2 DEF Folded
  <2> HIDE DEF s
  <2>4. Touches(r, s, {}) BY <2>3 DEF Touches, FoldedFields
  <2> HIDE DEF r
  <2>5. /\ FoldedFields \subseteq DOMAIN r
        /\ r.count = s.count /\ r.last = s.last /\ r.ts = s.ts /\ r.num = s.num /\ r.den = s.den
        /\ r.tr = s.tr /\ r.prevClose = s.prevClose /\ r.channel = s.channel
        /\ r.momentum = s.momentum /\ r.returns = s.returns /\ r.samples = s.samples
        /\ r.buy = s.buy /\ r.sell = s.sell
    BY <2>4 DEF Touches, FoldedFields
  <2>6. Folded(r, ticksIn[y])
    <3>1. Latest(r, ticksIn[y]) BY <2>2, <2>5 DEF Folded, Latest
    <3>2. Totals(r, ticksIn[y]) BY <2>2, <2>5 DEF Folded, Totals
    <3>3. Windows(r, ticksIn[y]) BY <2>2, <2>5 DEF Folded, Windows
    <3> QED BY <2>2, <2>5, <3>1, <3>2, <3>3 DEF Folded
  <2>7. /\ DOMAIN feat' = FeatSymbols /\ feat'[y] = r
        /\ \A z \in FeatSymbols : z # y => feat'[z] = feat[z]
    BY <1>1, <2>1
  <2>8. \A z \in FeatSymbols : Folded(feat'[z], ticksIn[z]) BY <1>1, <2>6, <2>7
  <2> QED BY <1>1, <2>1, <2>7, <2>8 DEF FeatInv
<1>3. CASE ResetSymbol(y)
  <2>1. /\ feat' = [feat EXCEPT ![y] = FeatureState] /\ snap' = snap
        /\ ticksIn' = [ticksIn EXCEPT ![y] = <<>>]
    BY <1>3 DEF ResetSymbol
  <2>2. /\ DOMAIN feat' = FeatSymbols /\ DOMAIN ticksIn' = FeatSymbols
        /\ feat'[y] = FeatureState /\ ticksIn'[y] = <<>>
        /\ \A z \in FeatSymbols : z # y => feat'[z] = feat[z] /\ ticksIn'[z] = ticksIn[z]
    BY <1>1, <2>1
  <2>3. Len(<<>>) = 0 /\ ~(0 > 0) OBVIOUS
  <2>4. ASSUME NEW z \in FeatSymbols
        PROVE  /\ Folded(feat'[z], ticksIn'[z])
               /\ Len(ticksIn'[z]) > 0 => BatchValues(snap[z], ticksIn'[z])
    <3>1. CASE z = y BY <2>2, <2>3, <3>1, FreshIsFolded
    <3>2. CASE z # y BY <1>1, <2>2, <3>2
    <3> QED BY <3>1, <3>2
  <2> QED BY <1>1, <2>1, <2>2, <2>4 DEF FeatInv
<1> QED BY <1>2, <1>3

\* Every snapshot equals a batch computation over the ticks since the last reset,
\* for any ticks, any window lengths and any resets in between
\* (engine.rs process_tick_into_state and incremental/*.rs).
THEOREM SnapshotsAreBatch == FeatSpec => []IncrementalIsBatch
<1>1. FeatInit => FeatInv BY FeatInitInv
<1>2. FeatInv /\ [FeatNext]_featVars => FeatInv'
  <2> SUFFICES ASSUME FeatInv, [FeatNext]_featVars PROVE FeatInv' OBVIOUS
  <2>1. CASE UNCHANGED featVars BY <2>1 DEF FeatInv, featVars
  <2>2. CASE FeatNext
    <3>1. PICK y \in FeatSymbols :
              \/ \E t \in FeatTicks, gap \in TickGaps : IngestTickFeat(y, t, gap)
              \/ \E v \in Pressures : IngestPressure(y, v)
              \/ ResetSymbol(y)
      BY <2>2 DEF FeatNext
    <3> QED BY <3>1, IngestKeeps, OtherFeatKeeps
  <2> QED BY <2>1, <2>2
<1>3. FeatInv => IncrementalIsBatch BY DEF FeatInv, IncrementalIsBatch, BatchValues
<1> QED BY <1>1, <1>2, <1>3, PTL DEF FeatSpec

-----------------------------------------------------------------------------
(* The session controllers: what a turn announces is what the state lacks. *)

\* Each controller's state is the phase it announced last, and the event it is
\* about to publish is the other one.
SesInv ==
    /\ up \in BOOLEAN
    /\ active \in [Controllers -> BOOLEAN]
    /\ DOMAIN turn = Controllers /\ DOMAIN edge = Controllers
    /\ DOMAIN heard = Controllers /\ DOMAIN emitted = Controllers
    /\ \A c \in Controllers :
        /\ emitted[c].phase \in {"none", "start", "end"}
        /\ active[c] <=> emitted[c].phase = "start"
        /\ turn[c] = "emit" => edge[c].phase = IF active[c] THEN "end" ELSE "start"

\* A fresh process has announced nothing and is in no window.
LEMMA SesInitInv == SesInit => SesInv
  BY DEF SesInit, SesInv, NoEdge

\* reconcile_at picks the edge that leads out of the present state.
LEMMA ReconcileKeeps == ASSUME NEW c \in Controllers, SesInv, Reconcile(c) PROVE SesInv'
  <1>1. CASE active[c] = InWindow(c, clock)
    BY <1>1 DEF Reconcile, ReconcileCases, SesInv
  <1>2. CASE active[c] # InWindow(c, clock)
    <2> DEFINE e == Edge(IF active[c] THEN "end" ELSE "start", clock)
    <2>1. /\ turn' = [turn EXCEPT ![c] = "emit"] /\ edge' = [edge EXCEPT ![c] = e]
          /\ UNCHANGED <<up, active, heard, emitted>>
      BY <1>2 DEF Reconcile, ReconcileCases
    <2>2. e.phase = IF active[c] THEN "end" ELSE "start"
      BY DEF Edge
    <2> HIDE DEF e
    <2> QED  BY <2>1, <2>2 DEF SesInv
  <1> QED  BY <1>1, <1>2

\* The state change that follows a successful publish.
LEMMA EmitKeeps == ASSUME NEW c \in Controllers, SesInv, Emit(c) PROVE SesInv'
  BY DEF Emit, SesInv

\* The other steps of a turn, the clock and the ends of the process.
LEMMA OtherSesKeeps ==
    ASSUME SesInv,
           \/ \E c \in Controllers : Plan(c) \/ Wake(c) \/ EmitFails(c)
           \/ Exit \/ Restart \/ WallClock \/ UNCHANGED sesVars
    PROVE  SesInv'
  <1>1. ASSUME NEW c \in Controllers, Plan(c) \/ Wake(c)  PROVE SesInv'
    BY <1>1 DEF Plan, Wake, SesInv
  <1>2. ASSUME NEW c \in Controllers, EmitFails(c)  PROVE SesInv'
    BY <1>2 DEF EmitFails, SesInv
  <1>3. CASE Exit
    BY <1>3 DEF Exit, SesInv
  <1>4. CASE Restart
    BY <1>4 DEF Restart, SesInv, NoEdge
  <1>5. CASE WallClock
    BY <1>5 DEF WallClock, SesInv
  <1>6. CASE UNCHANGED sesVars
    BY <1>6 DEF sesVars, SesInv
  <1> QED  BY <1>1, <1>2, <1>3, <1>4, <1>5, <1>6

\* The event a step publishes is the opposite of the last one.
LEMMA EdgeIsOpposite ==
    ASSUME SesInv, [SesNext]_sesVars, NEW c \in Controllers,
           heard'[c] # heard[c] \/ emitted'[c] # emitted[c]
    PROVE  \/ ~up
           \/ emitted'[c].phase = "start" /\ emitted[c].phase \in {"none", "end"}
           \/ emitted'[c].phase = "end" /\ emitted[c].phase = "start"
  <1>1. \/ Restart
        \/ \E d \in Controllers : Emit(d)
        \/ UNCHANGED <<heard, emitted>>
    BY DEF SesNext, Turn, Reconcile, ReconcileCases, Plan, Wake, EmitFails, Exit, WallClock, sesVars
  <1>2. CASE Restart
    BY <1>2 DEF Restart
  <1>3. ASSUME NEW d \in Controllers, Emit(d)
        PROVE  \/ emitted'[c].phase = "start" /\ emitted[c].phase \in {"none", "end"}
               \/ emitted'[c].phase = "end" /\ emitted[c].phase = "start"
    <2>1. /\ turn[d] = "emit" /\ heard' = [heard EXCEPT ![d] = edge[d]]
          /\ emitted' = [emitted EXCEPT ![d] = edge[d]]
      BY <1>3 DEF Emit
    <2>2. c = d /\ emitted'[c] = edge[c]
      BY <2>1 DEF SesInv
    <2> QED  BY <2>1, <2>2 DEF SesInv
  <1> QED  BY <1>1, <1>2, <1>3

\* Within one process the events of a controller alternate and begin with a
\* start (Property 8 of controller.rs), whatever the clock does between the two
\* readings of a turn and whichever publish fails.
THEOREM AnnouncementsAlternate == SesSpec => EdgesAlternate
  <1>1. SesInit => SesInv
    BY SesInitInv
  <1>2. SesInv /\ [SesNext]_sesVars => SesInv'
    BY ReconcileKeeps, EmitKeeps, OtherSesKeeps DEF SesNext, Turn
  <1>3. SesInv /\ [SesNext]_sesVars =>
          [\A c \in Controllers : heard'[c] # heard[c] \/ emitted'[c] # emitted[c] =>
              \/ ~up
              \/ emitted'[c].phase = "start" /\ emitted[c].phase \in {"none", "end"}
              \/ emitted'[c].phase = "end" /\ emitted[c].phase = "start"]_sesVars
    BY EdgeIsOpposite
  <1> QED  BY <1>1, <1>2, <1>3, PTL DEF SesSpec, EdgesAlternate

-----------------------------------------------------------------------------
(* The join buffer of the gateway: a map and the order of its keys. *)

\* The sequence s holds every element of S, once.
Lists(s, S) ==
    /\ s \in Seq(S)
    /\ \A i, j \in 1..Len(s) : s[i] = s[j] => i = j
    /\ \A k \in S : \E i \in 1..Len(s) : s[i] = k

\* It is as long as the set is large.
LEMMA ListLength ==
    ASSUME NEW S, NEW s, Lists(s, S)
    PROVE  IsFiniteSet(S) /\ Len(s) = Cardinality(S)
  <1> DEFINE n == Len(s)
  <1>1. n \in Nat /\ s \in [1..n -> S]
    BY DEF Lists
  <1>2. IsFiniteSet(1..n) /\ Cardinality(1..n) = n
    <2>1. \A b \in Int : IsFiniteSet(1..b) /\ Cardinality(1..b) = IF 1 > b THEN 0 ELSE b - 1 + 1
      BY FS_Interval
    <2> HIDE DEF n
    <2> QED  BY <1>1, <2>1
  <1>3. s \in Bijection(1..n, S)
    BY <1>1 DEF Bijection, Injection, Surjection, IsInjective, Lists
  <1> HIDE DEF n
  <1>4. ExistsBijection(1..n, S)
    BY <1>3 DEF ExistsBijection
  <1>5. IsFiniteSet(S) /\ Cardinality(S) = Cardinality(1..n)
    BY <1>2, <1>4, FS_Bijection
  <1> QED  BY <1>2, <1>5 DEF n

\* The empty order lists the empty set.
LEMMA ListEmpty == Lists(<<>>, {})
  BY DEF Lists

\* A new key goes to the end.
LEMMA ListAppend ==
    ASSUME NEW S, NEW s, Lists(s, S), NEW k, k \notin S
    PROVE  Lists(Append(s, k), S \cup {k})
  <1> DEFINE a == Append(s, k)
             n == Len(s)
  <1>0. s \in Seq(S \cup {k}) /\ n \in Nat
    BY DEF Lists
  <1>1. a \in Seq(S \cup {k}) /\ Len(a) = n + 1 /\ a[n + 1] = k /\ \A i \in 1..n : a[i] = s[i]
    BY <1>0
  <1>2. \A i \in 1..n : s[i] \in S
    BY DEF Lists
  <1>3. \A i \in 1..(n + 1) : i \in 1..n \/ i = n + 1
    BY <1>0
  <1>4. \A i, j \in 1..n : s[i] = s[j] => i = j
    BY DEF Lists
  <1>5. \A x \in S : \E i \in 1..n : s[i] = x
    BY DEF Lists
  <1>6. n + 1 \in 1..(n + 1) /\ 1..n \subseteq 1..(n + 1)
    BY <1>0
  <1> HIDE DEF a, n
  <1>7. \A i, j \in 1..(n + 1) : a[i] = a[j] => i = j
    BY <1>1, <1>2, <1>3, <1>4
  <1>8. \A x \in S \cup {k} : \E i \in 1..(n + 1) : a[i] = x
    BY <1>1, <1>5, <1>6
  <1>9. Lists(a, S \cup {k})
    BY <1>1, <1>7, <1>8 DEF Lists
  <1> QED  BY <1>9 DEF a

\* The equation of Retain.
Kept(keys, gone, f) ==
    f = [i \in 0..Len(keys) |->
            IF i = 0 THEN <<>>
            ELSE IF keys[i] \in gone THEN f[i - 1] ELSE Append(f[i - 1], keys[i])]

\* order_remove goes through the keys from the oldest to the newest.
LEMMA RetainSteps ==
    ASSUME NEW S, NEW keys \in Seq(S), NEW gone
    PROVE  \E f : /\ Retain(keys, gone) = f[Len(keys)] /\ f[0] = <<>>
                  /\ \A i \in 1..Len(keys) :
                        f[i] = IF keys[i] \in gone THEN f[i - 1] ELSE Append(f[i - 1], keys[i])
  <1> DEFINE n == Len(keys)
             op == [p \in (1..n) \X Seq(S) |->
                      IF keys[p[1]] \in gone THEN p[2] ELSE Append(p[2], keys[p[1]])]
             c == CHOOSE f : Kept(keys, gone, f)
  <1>1. Retain(keys, gone) = c[n]
    BY DEF Retain, Kept
  <1>2. n \in Nat /\ \A i \in 1..n : keys[i] \in S
    OBVIOUS
  <1>3. op \in [(1..n) \X Seq(S) -> Seq(S)]
    <2> DEFINE V == Seq(S)
    <2>1. ASSUME NEW i \in 1..n, NEW v \in V  PROVE Append(v, keys[i]) \in V
      BY <1>2
    <2> HIDE DEF V, n
    <2>2. op = [p \in (1..n) \X V |->
                      IF keys[p[1]] \in gone THEN p[2] ELSE Append(p[2], keys[p[1]])]
      BY DEF V
    <2>3. op \in [(1..n) \X V -> V]
      BY <2>1, <2>2
    <2> QED  BY <2>3 DEF V
  <1>4. NumberSteps(n, Seq(S), <<>>, op)
    <2>1. <<>> \in Seq(S)
      OBVIOUS
    <2> HIDE DEF n, op
    <2> QED  BY <1>2, <1>3, <2>1 DEF NumberSteps
  <1>5. PICK f : NumberSolution(n, Seq(S), <<>>, op, f)
    BY <1>4, NumberRecursion
  <1>6. Kept(keys, gone, f)
    <2>1. f \in [0..n -> Seq(S)] /\ f[0] = <<>>
      BY <1>5 DEF NumberSolution
    <2>2. ASSUME NEW i \in 1..n
          PROVE  f[i] = IF keys[i] \in gone THEN f[i - 1] ELSE Append(f[i - 1], keys[i])
      <3>1. f[i] = op[<<i, f[i - 1]>>]
        BY <1>5 DEF NumberSolution
      <3>2. i - 1 \in 0..n
        BY <1>2
      <3> DEFINE V == Seq(S)
      <3>3. f[i - 1] \in V
        BY <2>1, <3>2
      <3> HIDE DEF V, n
      <3>4. <<i, f[i - 1]>> \in (1..n) \X V
        BY <3>3
      <3>5. op = [p \in (1..n) \X V |->
                      IF keys[p[1]] \in gone THEN p[2] ELSE Append(p[2], keys[p[1]])]
        BY DEF V
      <3> HIDE DEF op
      <3> QED  BY <3>1, <3>4, <3>5
    <2>3. \A i \in 0..n : i = 0 \/ i \in 1..n
      BY <1>2
    <2> HIDE DEF n
    <2>4. f = [i \in 0..n |->
                 IF i = 0 THEN <<>>
                 ELSE IF keys[i] \in gone THEN f[i - 1] ELSE Append(f[i - 1], keys[i])]
      BY <2>1, <2>2, <2>3
    <2> QED  BY <2>4 DEF Kept, n
  <1>7. Kept(keys, gone, c)
    BY <1>6
  <1> HIDE DEF c
  <1>8. \A i \in 0..n : c[i] = IF i = 0 THEN <<>>
                               ELSE IF keys[i] \in gone THEN c[i - 1] ELSE Append(c[i - 1], keys[i])
    BY <1>7 DEF Kept
  <1>9. c[0] = <<>>
    BY <1>2, <1>8
  <1>10. \A i \in 1..n : i \in 0..n /\ i # 0
    BY <1>2
  <1> HIDE DEF n
  <1>11. \A i \in 1..n : c[i] = IF keys[i] \in gone THEN c[i - 1] ELSE Append(c[i - 1], keys[i])
    BY <1>8, <1>10
  <1> QED  BY <1>1, <1>9, <1>11 DEF n

\* What is left lists what is left of the set.
LEMMA ListRetain ==
    ASSUME NEW S, NEW keys, Lists(keys, S), NEW gone
    PROVE  Lists(Retain(keys, gone), S \ gone)
  <1> DEFINE n == Len(keys)
             Seen(i) == {k \in S : k \notin gone /\ \E j \in 1..i : keys[j] = k}
  <1>1. keys \in Seq(S) /\ n \in Nat /\ \A i \in 1..n : keys[i] \in S
    BY DEF Lists
  <1>2. \A i, j \in 1..n : keys[i] = keys[j] => i = j
    BY DEF Lists
  <1>3. \A k \in S : \E i \in 1..n : keys[i] = k
    BY DEF Lists
  <1>4. PICK f : /\ Retain(keys, gone) = f[n] /\ f[0] = <<>>
                 /\ \A i \in 1..n :
                        f[i] = IF keys[i] \in gone THEN f[i - 1] ELSE Append(f[i - 1], keys[i])
    BY <1>1, RetainSteps
  <1> HIDE DEF n
  <1> DEFINE T == {i \in 0..n : Lists(f[i], Seen(i))}
  <1>5. 0 \in T
    <2>1. Seen(0) = {} /\ 0 \in 0..n
      BY <1>1
    <2> QED  BY <1>4, <2>1, ListEmpty
  <1>6. ASSUME NEW i \in 0..n, i \in T, i < n  PROVE i + 1 \in T
    <2> DEFINE x == keys[i + 1]
    <2>1. i + 1 \in 1..n /\ i + 1 \in 0..n /\ (i + 1) - 1 = i
      BY <1>1, <1>6
    <2>2. Lists(f[i], Seen(i))
      BY <1>6
    <2>3. f[i + 1] = IF x \in gone THEN f[i] ELSE Append(f[i], x)
      BY <1>4, <2>1
    <2>4. \A j \in 1..(i + 1) : j \in 1..i \/ j = i + 1
      OBVIOUS
    <2>5. 1..i \subseteq 1..(i + 1) /\ i + 1 \in 1..(i + 1)
      OBVIOUS
    <2>6. x \in S /\ \A j \in 1..i : keys[j] # x
      <3>1. \A j \in 1..i : j \in 1..n /\ j # i + 1
        BY <1>1, <2>1
      <3> QED  BY <1>1, <1>2, <2>1, <3>1
    <2>7. CASE x \in gone
      <3>1. Seen(i + 1) = Seen(i)
        BY <2>4, <2>5, <2>7
      <3> QED  BY <2>1, <2>2, <2>3, <2>7, <3>1
    <2>8. CASE x \notin gone
      <3>1. Seen(i + 1) = Seen(i) \cup {x}
        BY <2>4, <2>5, <2>6, <2>8
      <3>2. x \notin Seen(i)
        BY <2>6
      <3> HIDE DEF Seen, x
      <3>3. Lists(Append(f[i], x), Seen(i) \cup {x})
        BY <2>2, <3>2, ListAppend
      <3> QED  BY <2>1, <2>3, <2>8, <3>1, <3>3
    <2> QED  BY <2>7, <2>8
  <1>7. 0..n \subseteq T
    <2> HIDE DEF T
    <2> QED  BY <1>1, <1>5, <1>6, NumberInduction
  <1>8. Seen(n) = S \ gone
    BY <1>3
  <1>9. n \in 0..n
    BY <1>1
  <1>10. Lists(f[n], Seen(n))
    BY <1>7, <1>9
  <1> QED  BY <1>4, <1>8, <1>10

\* The messages of the bus.
GwMessages == UNION {Message(n) : n \in Nat \ {0}}

\* A message has a number; a signal carries it as its correlation id or has
\* lost it, and a rank names a correlation id and its component.
LEMMA MessageFields ==
    ASSUME NEW msg \in GwMessages
    PROVE  /\ msg.id \in Nat \ {0}
           /\ msg.subject = "sig.emitted" => msg.cid \in {msg.id, NoCid}
           /\ msg.subject = "ai.rank" => msg.cid # NoCid /\ msg.source \in Rankers
  <1>1. PICK n \in Nat \ {0} : msg \in Message(n)
    BY DEF GwMessages
  <1>2. CASE msg \in [id : {n}, subject : Subjects \ {"sig.emitted", "ai.rank", "md.breadth.volatility"},
                      topic : Topics]
    BY <1>2
  <1>3. CASE msg \in [id : {n}, subject : Subjects \cap {"sig.emitted"}, cid : {n, NoCid}]
    BY <1>3
  <1>4. CASE msg \in [id : {n}, subject : Subjects \cap {"ai.rank"}, cid : 1 .. MaxMessages,
                      source : Rankers]
    BY <1>4, GatewayAssumption DEF NoCid, GatewayAssumption
  <1>5. CASE msg \in [id : {n}, subject : Subjects \cap {"md.breadth.volatility"}, high : BOOLEAN]
    BY <1>5
  <1> QED  BY <1>1, <1>2, <1>3, <1>4, <1>5 DEF Message

\* A pending join of key k: no rank of a shadowed component, no rank at all
\* without a correlation id, and the signal that k names.
PendingJoin == [signal : Nat, ranks : SUBSET Rankers, shadowed : SUBSET Rankers, age : Nat]
JoinOf(k, j) ==
    /\ j \in PendingJoin /\ j.ranks \cap Shadowed = {}
    /\ k = NoCid => j.ranks = {}
    /\ k # NoCid /\ j.signal # 0 => j.signal = k

\* The order lists the keys of the map, and each entry is a join of its key.
BufOK(b) ==
    /\ Lists(b.order, DOMAIN b.map)
    /\ \A k \in DOMAIN b.map : JoinOf(k, b.map[k])

\* Taking keys out, of both halves.
LEMMA WithoutOK ==
    ASSUME NEW b, BufOK(b), NEW gone
    PROVE  /\ BufOK(Without(b, gone))
           /\ DOMAIN Without(b, gone).map = DOMAIN b.map \ gone
           /\ \A k \in DOMAIN b.map \ gone : Without(b, gone).map[k] = b.map[k]
  <1> DEFINE w == Without(b, gone)
             S == DOMAIN b.map \ gone
  <1>1. w.map = [k \in S |-> b.map[k]] /\ w.order = Retain(b.order, gone)
    BY DEF Without, Restrict
  <1> HIDE DEF w
  <1>2. DOMAIN w.map = S /\ \A k \in S : w.map[k] = b.map[k]
    BY <1>1
  <1>3. Lists(w.order, S)
    BY <1>1, ListRetain DEF BufOK
  <1>4. BufOK(w)
    BY <1>2, <1>3 DEF BufOK
  <1> QED  BY <1>2, <1>4 DEF w

\* Inserting or replacing the join of k.
LEMMA PutOK ==
    ASSUME NEW b, BufOK(b), NEW k, NEW j, JoinOf(k, j)
    PROVE  /\ BufOK(Put(b, k, j))
           /\ DOMAIN Put(b, k, j).map = DOMAIN b.map \cup {k}
           /\ Put(b, k, j).map[k] = j
           /\ \A x \in DOMAIN b.map : x # k => Put(b, k, j).map[x] = b.map[x]
  <1> DEFINE p == Put(b, k, j)
             S == DOMAIN b.map \cup {k}
  <1>1. /\ p.map = [x \in S |-> IF x = k THEN j ELSE b.map[x]]
        /\ p.order = IF k \in DOMAIN b.map THEN b.order ELSE Append(b.order, k)
    BY DEF Put
  <1> HIDE DEF p
  <1>2. DOMAIN p.map = S /\ p.map[k] = j /\ \A x \in DOMAIN b.map : x # k => p.map[x] = b.map[x]
    BY <1>1
  <1>3. Lists(p.order, S)
    <2>1. CASE k \in DOMAIN b.map
      <3>1. S = DOMAIN b.map
        BY <2>1
      <3> QED  BY <1>1, <2>1, <3>1 DEF BufOK
    <2>2. CASE k \notin DOMAIN b.map
      BY <1>1, <2>2, ListAppend DEF BufOK
    <2> QED  BY <2>1, <2>2
  <1>4. \A x \in S : JoinOf(x, p.map[x])
    BY <1>2 DEF BufOK
  <1>5. BufOK(p)
    BY <1>2, <1>3, <1>4 DEF BufOK
  <1> QED  BY <1>2, <1>5 DEF p

\* enforce_capacity, when there is one entry too many at most.
LEMMA EvictOK ==
    ASSUME NEW b, BufOK(b), Cardinality(DOMAIN b.map) <= JoinCapacity + 1
    PROVE  LET e == EnforceCapacity(b)
           IN  /\ BufOK(e) /\ Cardinality(DOMAIN e.map) <= JoinCapacity
               /\ \/ e = b
                  \/ /\ Cardinality(DOMAIN b.map) = JoinCapacity + 1
                     /\ DOMAIN e.map = DOMAIN b.map \ {b.order[1]}
                     /\ \A k \in DOMAIN e.map : e.map[k] = b.map[k]
  <1> DEFINE D == DOMAIN b.map
             w == Without(b, {Head(b.order)})
  <1>1. IsFiniteSet(D) /\ Cardinality(D) = Len(b.order) /\ b.order \in Seq(D)
    BY ListLength DEF BufOK, Lists
  <1>2. Cardinality(D) \in Nat /\ JoinCapacity \in Nat \ {0}
    BY <1>1, FS_CardinalityType, GatewayAssumption DEF GatewayAssumption
  <1>3. CASE Cardinality(D) > JoinCapacity
    <2>1. EnforceCapacity(b) = w
      BY <1>3 DEF EnforceCapacity, EvictOldest
    <2>2. Cardinality(D) = JoinCapacity + 1
      BY <1>2, <1>3
    <2>3. Head(b.order) = b.order[1] /\ b.order[1] \in D
      BY <1>1, <1>2, <2>2
    <2>4. BufOK(w) /\ DOMAIN w.map = D \ {Head(b.order)} /\ \A k \in D \ {Head(b.order)} : w.map[k] = b.map[k]
      BY WithoutOK
    <2> HIDE DEF w, D
    <2>5. Cardinality(D \ {b.order[1]}) = Cardinality(D) - 1
      BY <1>1, <2>3, FS_RemoveElement
    <2>6. Cardinality(DOMAIN w.map) <= JoinCapacity
      BY <1>2, <2>2, <2>3, <2>4, <2>5
    <2> QED  BY <2>1, <2>2, <2>3, <2>4, <2>6 DEF D
  <1>4. CASE ~(Cardinality(D) > JoinCapacity)
    <2>1. EnforceCapacity(b) = b
      BY <1>4 DEF EnforceCapacity, EvictOldest
    <2>2. Cardinality(D) <= JoinCapacity
      BY <1>2, <1>4
    <2> QED  BY <2>1, <2>2
  <1> QED  BY <1>3, <1>4

\* A new entry is a join of its key.
LEMMA FreshOK == ASSUME NEW k PROVE JoinOf(k, FreshJoin) /\ FreshJoin.signal = 0
  BY DEF JoinOf, FreshJoin, PendingJoin, NoCid

\* feed_signal and feed_rank add their half to the entry of the message's key.
LEMMA AddOK ==
    ASSUME NEW msg \in GwMessages, msg.subject \in {"sig.emitted", "ai.rank"},
           NEW j, JoinOf(msg.cid, j)
    PROVE  /\ JoinOf(msg.cid, AddToJoin(j, msg))
           /\ j.signal # 0 /\ msg.cid # NoCid => AddToJoin(j, msg).signal = j.signal
  <1>1. j \in PendingJoin
    BY DEF JoinOf
  <1>2. /\ msg.id \in Nat \ {0}
        /\ msg.subject = "sig.emitted" => msg.cid \in {msg.id, NoCid}
        /\ msg.subject = "ai.rank" => msg.cid # NoCid /\ msg.source \in Rankers
    BY MessageFields
  <1>3. CASE msg.subject = "sig.emitted"
    <2>1. AddToJoin(j, msg) = [j EXCEPT !.signal = msg.id]
      BY <1>3 DEF AddToJoin, AddHalf
    <2>2. [j EXCEPT !.signal = msg.id] \in PendingJoin
      BY <1>1, <1>2 DEF PendingJoin
    <2>3. /\ [j EXCEPT !.signal = msg.id].ranks = j.ranks
          /\ [j EXCEPT !.signal = msg.id].signal = msg.id
      BY <1>1 DEF PendingJoin
    <2> QED  BY <1>2, <1>3, <2>1, <2>2, <2>3 DEF JoinOf
  <1>4. CASE msg.subject = "ai.rank" /\ msg.source \in Shadowed
    <2> DEFINE a == [j EXCEPT !.shadowed = @ \cup {msg.source}]
    <2>1. AddToJoin(j, msg) = a
      BY <1>4 DEF AddToJoin, AddHalf
    <2>2. a \in PendingJoin /\ a.ranks = j.ranks /\ a.signal = j.signal
      BY <1>1, <1>2, <1>4 DEF PendingJoin
    <2> HIDE DEF a
    <2> QED  BY <2>1, <2>2 DEF JoinOf
  <1>5. CASE msg.subject = "ai.rank" /\ msg.source \notin Shadowed
    <2> DEFINE a == [j EXCEPT !.ranks = @ \cup {msg.source}]
    <2>1. AddToJoin(j, msg) = a
      BY <1>5 DEF AddToJoin, AddHalf
    <2>2. a \in PendingJoin /\ a.ranks = j.ranks \cup {msg.source} /\ a.signal = j.signal
      BY <1>1, <1>2, <1>5 DEF PendingJoin
    <2> HIDE DEF a
    <2> QED  BY <1>2, <1>5, <2>1, <2>2 DEF JoinOf
  <1> QED  BY <1>3, <1>4, <1>5

\* What /signals shows: a signal with ranks of components that are not shadowed.
Payloads == [signal : Nat, ranks : SUBSET (Rankers \ Shadowed)]

\* Every join yields such a payload.
LEMMA MergeOK ==
    ASSUME NEW k, NEW j, JoinOf(k, j)
    PROVE  MergePayload(j) \in Payloads /\ MergePayload(j).signal = j.signal
  BY DEF MergePayload, Payloads, JoinOf, PendingJoin

\* prune_expired keeps every signal.
LEMMA PruneOK ==
    ASSUME NEW b, BufOK(b)
    PROVE  LET p == PruneExpired(b)
           IN  /\ BufOK(p) /\ DOMAIN p.map \subseteq DOMAIN b.map
               /\ \A k \in DOMAIN p.map : p.map[k] = b.map[k]
               /\ \A k \in DOMAIN b.map : b.map[k].signal # 0 => k \in DOMAIN p.map
  <1> DEFINE gone == {k \in DOMAIN b.map : Stale(b.map[k])}
             w == Without(b, gone)
  <1>1. PruneExpired(b) = w
    BY DEF PruneExpired
  <1>2. BufOK(w) /\ DOMAIN w.map = DOMAIN b.map \ gone
        /\ \A k \in DOMAIN b.map \ gone : w.map[k] = b.map[k]
    BY WithoutOK
  <1>3. \A k \in DOMAIN b.map : b.map[k].signal # 0 => k \notin gone
    BY DEF Stale, Hopeless
  <1> HIDE DEF w, gone
  <1> QED  BY <1>1, <1>2, <1>3

\* A signal of the buffer b that a call leaves waiting in the buffer r, shows
\* as p, or gives up for a new key in a full buffer or the next one without key.
StillSeen(b, r, p, k) ==
    \/ k \in DOMAIN r.map /\ r.map[k].signal = b.map[k].signal
    \/ \E q \in Payloads : p = <<q>> /\ q.signal = b.map[k].signal
    \/ Cardinality(DOMAIN b.map) = JoinCapacity /\ DOMAIN r.map \ DOMAIN b.map # {}
    \/ k = NoCid /\ k \in DOMAIN r.map

\* A call of feed_signal or feed_rank keeps the buffer in step and within its
\* capacity, shows a payload or nothing, and hides no signal.
LEMMA FeedOK ==
    ASSUME NEW msg \in GwMessages, msg.subject \in {"sig.emitted", "ai.rank"},
           BufOK([map |-> joins, order |-> order]), Cardinality(DOMAIN joins) <= JoinCapacity
    PROVE  /\ BufOK(Feed(msg).buf) /\ Cardinality(DOMAIN Feed(msg).buf.map) <= JoinCapacity
           /\ Feed(msg).shown = <<>> \/ \E p \in Payloads : Feed(msg).shown = <<p>>
           /\ \A k \in DOMAIN joins : joins[k].signal # 0 =>
                 StillSeen([map |-> joins, order |-> order], Feed(msg).buf, Feed(msg).shown, k)
  <1> DEFINE b0 == [map |-> joins, order |-> order]
             b == PruneExpired(b0)
             cid == msg.cid
             e == Entry(b, cid)
             j == AddToJoin(e, msg)
             fed == Put(b, cid, j)
             w == Without(fed, {cid})
  <1>1. /\ Feed(msg).buf = EnforceCapacity(IF Joined(j) THEN w ELSE fed)
        /\ Feed(msg).shown = IF Joined(j) THEN <<MergePayload(j)>> ELSE <<>>
    BY DEF Feed
  <1>2. BufOK(b0) /\ b0.map = joins
    OBVIOUS
  <1> HIDE DEF b0
  <1>3. /\ BufOK(b) /\ DOMAIN b.map \subseteq DOMAIN joins
        /\ \A k \in DOMAIN b.map : b.map[k] = joins[k]
        /\ \A k \in DOMAIN joins : joins[k].signal # 0 => k \in DOMAIN b.map
    BY <1>2, PruneOK
  <1> HIDE DEF b
  <1>4. JoinOf(cid, e) /\ (cid \in DOMAIN b.map => e = joins[cid])
    BY <1>3, FreshOK DEF Entry, BufOK
  <1> HIDE DEF e
  <1>5. JoinOf(cid, j) /\ (e.signal # 0 /\ cid # NoCid => j.signal = e.signal)
    BY <1>4, AddOK
  <1> HIDE DEF j, cid
  <1>6. /\ BufOK(fed) /\ DOMAIN fed.map = DOMAIN b.map \cup {cid} /\ fed.map[cid] = j
        /\ \A x \in DOMAIN b.map : x # cid => fed.map[x] = b.map[x]
    BY <1>3, <1>5, PutOK
  <1>7. fed.order = IF cid \in DOMAIN b.map THEN b.order ELSE Append(b.order, cid)
    BY DEF Put
  <1> HIDE DEF fed
  <1>8. IsFiniteSet(DOMAIN joins) /\ IsFiniteSet(DOMAIN b.map) /\ Len(b.order) = Cardinality(DOMAIN b.map)
    BY <1>2, <1>3, ListLength DEF BufOK
  <1>9. /\ Cardinality(DOMAIN joins) \in Nat /\ Cardinality(DOMAIN b.map) \in Nat
        /\ JoinCapacity \in Nat \ {0}
    BY <1>8, FS_CardinalityType, GatewayAssumption DEF GatewayAssumption
  <1>10. /\ Cardinality(DOMAIN b.map) <= Cardinality(DOMAIN joins)
         /\ Cardinality(DOMAIN b.map) = Cardinality(DOMAIN joins) => DOMAIN b.map = DOMAIN joins
    BY <1>3, <1>8, FS_Subset
  <1>11. Cardinality(DOMAIN fed.map) =
            IF cid \in DOMAIN b.map THEN Cardinality(DOMAIN b.map) ELSE Cardinality(DOMAIN b.map) + 1
    BY <1>6, <1>8, FS_AddElement
  <1>12. CASE Joined(j)
    <2>1. /\ BufOK(w) /\ DOMAIN w.map = DOMAIN fed.map \ {cid}
          /\ \A k \in DOMAIN fed.map \ {cid} : w.map[k] = fed.map[k]
      BY <1>6, WithoutOK
    <2> HIDE DEF w
    <2>2. DOMAIN w.map \subseteq DOMAIN b.map
      BY <1>6, <2>1
    <2>3. Cardinality(DOMAIN w.map) \in Nat /\ Cardinality(DOMAIN w.map) <= Cardinality(DOMAIN b.map)
      BY <1>8, <2>2, FS_Subset, FS_CardinalityType
    <2>4. /\ Cardinality(DOMAIN w.map) <= JoinCapacity /\ Cardinality(DOMAIN w.map) <= JoinCapacity + 1
          /\ Cardinality(DOMAIN w.map) # JoinCapacity + 1
      BY <1>9, <1>10, <2>3
    <2>5. EnforceCapacity(w) = w
      BY <2>1, <2>4, EvictOK
    <2>6. Feed(msg).buf = w /\ Feed(msg).shown = <<MergePayload(j)>>
      BY <1>1, <1>12, <2>5
    <2>7. MergePayload(j) \in Payloads /\ MergePayload(j).signal = j.signal
      BY <1>5, MergeOK
    <2>8. cid # NoCid
      BY <1>5, <1>12 DEF Joined, JoinOf
    <2>9. ASSUME NEW k \in DOMAIN joins, joins[k].signal # 0
          PROVE  \/ k \in DOMAIN w.map /\ w.map[k].signal = joins[k].signal
                 \/ MergePayload(j).signal = joins[k].signal
      <3>1. k \in DOMAIN b.map
        BY <1>3, <2>9
      <3>2. CASE k = cid
        BY <1>4, <1>5, <2>7, <2>8, <2>9, <3>1, <3>2
      <3>3. CASE k # cid
        BY <1>3, <1>6, <2>1, <3>1, <3>3
      <3> QED  BY <3>2, <3>3
    <2>10. \A k \in DOMAIN joins : joins[k].signal # 0 => StillSeen(b0, w, <<MergePayload(j)>>, k)
      BY <1>2, <2>7, <2>9 DEF StillSeen
    <2> QED  BY <2>1, <2>4, <2>6, <2>7, <2>10 DEF b0
  <1>13. CASE ~Joined(j)
    <2> DEFINE r == EnforceCapacity(fed)
    <2>1. Feed(msg).buf = r /\ Feed(msg).shown = <<>>
      BY <1>1, <1>13
    <2>2. Cardinality(DOMAIN fed.map) <= JoinCapacity + 1
      BY <1>9, <1>10, <1>11
    <2>3. /\ BufOK(r) /\ Cardinality(DOMAIN r.map) <= JoinCapacity
          /\ \/ r = fed
             \/ /\ Cardinality(DOMAIN fed.map) = JoinCapacity + 1
                /\ DOMAIN r.map = DOMAIN fed.map \ {fed.order[1]}
                /\ \A k \in DOMAIN r.map : r.map[k] = fed.map[k]
      BY <1>6, <2>2, EvictOK
    <2> HIDE DEF r
    <2>4. ASSUME NEW k \in DOMAIN joins, joins[k].signal # 0, r = fed
          PROVE  \/ k \in DOMAIN r.map /\ r.map[k].signal = joins[k].signal
                 \/ k = NoCid /\ k \in DOMAIN r.map
      <3>1. k \in DOMAIN b.map
        BY <1>3, <2>4
      <3>2. CASE k = cid
        BY <1>4, <1>5, <1>6, <2>4, <3>1, <3>2
      <3>3. CASE k # cid
        BY <1>3, <1>6, <2>4, <3>1, <3>3
      <3> QED  BY <3>2, <3>3
    <2>5. ASSUME r # fed
          PROVE  Cardinality(DOMAIN joins) = JoinCapacity /\ DOMAIN r.map \ DOMAIN joins # {}
      <3>1. Cardinality(DOMAIN fed.map) = JoinCapacity + 1 /\ DOMAIN r.map = DOMAIN fed.map \ {fed.order[1]}
        BY <2>3, <2>5
      <3>2. cid \notin DOMAIN b.map /\ Cardinality(DOMAIN b.map) = JoinCapacity
        BY <1>9, <1>10, <1>11, <3>1
      <3>3. Cardinality(DOMAIN joins) = JoinCapacity
        BY <1>9, <1>10, <3>2
      <3>4. cid \notin DOMAIN joins
        BY <1>10, <3>2, <3>3
      <3>5. b.order \in Seq(DOMAIN b.map)
        BY <1>3 DEF BufOK, Lists
      <3>6. Len(b.order) = JoinCapacity /\ fed.order = Append(b.order, cid)
        BY <1>7, <1>8, <3>2
      <3>7. 1 \in 1..Len(b.order)
        BY <1>9, <3>6
      <3>8. Append(b.order, cid)[1] = b.order[1] /\ b.order[1] \in DOMAIN b.map
        BY <3>5, <3>7
      <3>9. cid \in DOMAIN r.map
        BY <1>6, <3>1, <3>2, <3>6, <3>8
      <3> QED  BY <3>3, <3>4, <3>9
    <2>6. \A k \in DOMAIN joins : joins[k].signal # 0 => StillSeen(b0, r, <<>>, k)
      BY <1>2, <2>4, <2>5 DEF StillSeen
    <2> QED  BY <2>1, <2>3, <2>6 DEF b0
  <1> QED  BY <1>12, <1>13

\* The elements of a finite set in some order.
LEMMA SetListed == ASSUME NEW S, IsFiniteSet(S) PROVE Lists(SetToSeq(S), S)
  <1> DEFINE n == Cardinality(S)
             s == SetToSeq(S)
  <1>1. n \in Nat /\ ExistsBijection(1..n, S)
    BY FS_CardinalityType
  <1>2. PICK f \in Bijection(1..n, S) : TRUE
    BY <1>1 DEF ExistsBijection
  <1>3. f \in [1..n -> S] /\ IsInjective(f)
    BY <1>2 DEF Bijection, Injection
  <1>4. s \in [1..n -> S] /\ IsInjective(s)
    BY <1>3 DEF SetToSeq
  <1> HIDE DEF s, n
  <1>5. s \in Injection(1..n, S)
    BY <1>4 DEF Injection
  <1>6. Cardinality(1..n) = n
    <2>1. \A b \in Int : Cardinality(1..b) = IF 1 > b THEN 0 ELSE b - 1 + 1
      BY FS_Interval
    <2> QED  BY <1>1, <2>1
  <1>7. s \in Surjection(1..n, S)
    BY <1>5, <1>6, FS_Injection DEF n
  <1>8. s \in Seq(S) /\ Len(s) = n
    BY <1>1, <1>4
  <1>9. \A k \in S : \E i \in 1..n : s[i] = k
    BY <1>7 DEF Surjection
  <1>10. \A i, j \in 1..n : s[i] = s[j] => i = j
    BY <1>4 DEF IsInjective
  <1> QED  BY <1>8, <1>9, <1>10 DEF Lists, s

\* The image of a finite set.
LEMMA ImageFinite == ASSUME NEW S, IsFiniteSet(S), NEW f PROVE IsFiniteSet({f[x] : x \in S})
  <1> DEFINE T == {f[x] : x \in S}
             g == [x \in S |-> f[x]]
  <1>1. g \in Surjection(S, T)
    BY DEF Surjection
  <1> HIDE DEF g, T
  <1>2. IsFiniteSet(T)
    BY <1>1, FS_Surjection
  <1> QED  BY <1>2 DEF T

\* The gateway has finitely many channels.
LEMMA ChannelsFinite == IsFiniteSet(Channels)
  <1> DEFINE t == <<"market", "orderflow", "signals", "risk", "exec", "news", "psych", "alerts",
                    "replay", "latency", "control">>
  <1>1. IsFiniteSet(1..11)
    <2> DEFINE n == 11
    <2>1. n \in Int
      OBVIOUS
    <2> HIDE DEF n
    <2>2. IsFiniteSet(1..n)
      BY <2>1, FS_Interval
    <2> QED  BY <2>2 DEF n
  <1>2. Channels = {t[x] : x \in 1..11}
    <2>1. ASSUME NEW x \in 1..11  PROVE t[x] \in Channels
      BY DEF Channels
    <2>2. ASSUME NEW ch \in Channels  PROVE \E x \in 1..11 : t[x] = ch
      <3>1. /\ t[1] = "market" /\ t[2] = "orderflow" /\ t[3] = "signals" /\ t[4] = "risk"
            /\ t[5] = "exec" /\ t[6] = "news" /\ t[7] = "psych" /\ t[8] = "alerts"
            /\ t[9] = "replay" /\ t[10] = "latency" /\ t[11] = "control"
        OBVIOUS
      <3>2. \A x \in {1, 2, 3, 4, 5, 6, 7, 8, 9, 10, 11} : x \in 1..11
        OBVIOUS
      <3> HIDE DEF t
      <3> QED  BY <3>1, <3>2 DEF Channels
    <2> HIDE DEF t
    <2> QED  BY <2>1, <2>2
  <1> HIDE DEF t
  <1> QED  BY <1>1, <1>2, ImageFinite

\* What a client is sent by the routing of bus messages.
Frames == [to : Conns, channel : {"signals"}, payload : Payloads]
          \cup [to : Conns, channel : Channels \ {"signals"}, payload : Nat]

\* Payloads put on the signals channel are frames of it, in the same places.
LEMMA OnSignals ==
    ASSUME NEW c \in Conns, NEW ps \in Seq(Payloads)
    PROVE  /\ OnChannel(c, "signals", ps) \in Seq(Frames)
           /\ DOMAIN OnChannel(c, "signals", ps) = 1..Len(ps)
           /\ \A i \in 1..Len(ps) :
                OnChannel(c, "signals", ps)[i] = [to |-> c, channel |-> "signals", payload |-> ps[i]]
  <1> DEFINE n == Len(ps)
             q == OnChannel(c, "signals", ps)
  <1>1. n \in Nat /\ DOMAIN ps = 1..n /\ \A i \in 1..n : ps[i] \in Payloads
    OBVIOUS
  <1>2. q = [i \in 1..n |-> [to |-> c, channel |-> "signals", payload |-> ps[i]]]
    BY <1>1 DEF OnChannel
  <1>3. \A i \in 1..n : [to |-> c, channel |-> "signals", payload |-> ps[i]] \in Frames
    BY <1>1 DEF Frames
  <1> HIDE DEF q, n, Frames
  <1>4. q \in [1..n -> Frames]
    BY <1>2, <1>3
  <1>5. q \in Seq(Frames)
    BY <1>1, <1>4
  <1> QED  BY <1>2, <1>5 DEF q, n

\* No frame of the signals channel carries a rank of a shadowed component.
LEMMA FramesShown ==
    ASSUME NEW s \in Seq(Frames), NEW i \in DOMAIN s, s[i].channel = "signals"
    PROVE  s[i].payload.ranks \cap Shadowed = {}
  <1>1. s[i] \in Frames
    OBVIOUS
  <1>2. s[i] \in [to : Conns, channel : {"signals"}, payload : Payloads]
    BY <1>1 DEF Frames
  <1>3. s[i].payload \in Payloads
    BY <1>2
  <1>4. s[i].payload.ranks \in SUBSET (Rankers \ Shadowed)
    BY <1>3 DEF Payloads
  <1> QED  BY <1>4

\* The routing of a message to the other channels.
LEMMA RoutedFrames ==
    ASSUME NEW c \in Conns, NEW n \in Nat, NEW routed \in SUBSET (Channels \ {"signals"})
    PROVE  SetToSeq({[to |-> c, channel |-> ch, payload |-> n] : ch \in routed}) \in Seq(Frames)
  <1> DEFINE f == [ch \in routed |-> [to |-> c, channel |-> ch, payload |-> n]]
             R == {[to |-> c, channel |-> ch, payload |-> n] : ch \in routed}
  <1>1. R = {f[ch] : ch \in routed}
    OBVIOUS
  <1>2. IsFiniteSet(routed)
    BY ChannelsFinite, FS_Subset
  <1>3. R \subseteq Frames
    BY DEF Frames
  <1> HIDE DEF f, R
  <1>4. IsFiniteSet(R)
    BY <1>1, <1>2, ImageFinite
  <1>5. SetToSeq(R) \in Seq(R)
    BY <1>4, SetListed DEF Lists
  <1> HIDE DEF Frames
  <1>6. SetToSeq(R) \in Seq(Frames)
    BY <1>3, <1>5
  <1> QED  BY <1>6 DEF R

\* The buffer is in step and within its capacity, and what the last step sent
\* shows no rank of a shadowed component.
GwInv ==
    /\ count \in Nat /\ inbox \in [Conns -> Seq(GwMessages)]
    /\ BufOK([map |-> joins, order |-> order])
    /\ Cardinality(DOMAIN joins) <= JoinCapacity
    /\ ShadowedNeverShown

\* What becomes of a buffered signal in a step.
SeenAfter(k) ==
    \/ k \in DOMAIN joins' /\ joins'[k].signal = joins[k].signal
    \/ ShownToSubscriber(joins[k].signal)
    \/ Cardinality(DOMAIN joins) = JoinCapacity /\ DOMAIN joins' \ DOMAIN joins # {}
    \/ k = NoCid /\ k \in DOMAIN joins'

\* The gateway starts with an empty buffer.
LEMMA GwInitInv == GwInit => GwInv
  <1> SUFFICES ASSUME GwInit  PROVE GwInv
    OBVIOUS
  <1>1. joins = <<>> /\ order = <<>> /\ sent = <<>> /\ count = 0 /\ inbox = [c \in Conns |-> <<>>]
    BY DEF GwInit
  <1>2. DOMAIN joins = {}
    BY <1>1
  <1>3. BufOK([map |-> joins, order |-> order])
    BY <1>1, <1>2, ListEmpty DEF BufOK
  <1>4. Cardinality(DOMAIN joins) <= JoinCapacity
    BY <1>2, FS_EmptySet, GatewayAssumption DEF GatewayAssumption
  <1>5. inbox \in [Conns -> Seq(GwMessages)] /\ count \in Nat
    BY <1>1
  <1>6. ShadowedNeverShown
    BY <1>1 DEF ShadowedNeverShown
  <1> QED  BY <1>3, <1>4, <1>5, <1>6 DEF GwInv

\* The signals subjects.
LEMMA SignalSubjects == NatsPatterns.signals = {"sig.emitted", "ai.rank"}
  BY DEF NatsPatterns

\* A message taken from the broadcast, and what its connection shows of it.
LEMMA RecvKeeps ==
    ASSUME GwInv, NEW c \in Conns, Recv(c)
    PROVE  GwInv' /\ \A k \in DOMAIN joins : joins[k].signal # 0 => SeenAfter(k)
  <1> DEFINE msg == Head(inbox[c])
             signals == msg.subject \in NatsPatterns.signals /\ IsSubscribed(c, "signals")
             routed == {ch \in ClassifySubject(msg.subject) \ {"signals"} : Accepts(c, ch, msg)}
             shown == IF signals THEN Feed(msg).shown ELSE <<>>
             front == OnChannel(c, "signals", shown)
             rest == SetToSeq({[to |-> c, channel |-> ch, payload |-> msg.id] : ch \in routed})
  <1>1. /\ inbox[c] # <<>> /\ inbox' = [inbox EXCEPT ![c] = Tail(@)]
        /\ joins' = IF signals THEN Feed(msg).buf.map ELSE joins
        /\ order' = IF signals THEN Feed(msg).buf.order ELSE order
        /\ sent' = front \o rest
        /\ count' = count
    BY DEF Recv, RecvStep
  <1>2. inbox[c] \in Seq(GwMessages)
    BY DEF GwInv
  <1> DEFINE Q == Seq(GwMessages)
  <1>3. msg \in GwMessages /\ Tail(inbox[c]) \in Q
    BY <1>1, <1>2
  <1>4. inbox' \in [Conns -> Q]
    <2> HIDE DEF Q, msg, signals, front, rest
    <2>1. inbox \in [Conns -> Q]
      BY DEF GwInv, Q
    <2> QED  BY <1>1, <1>3, <2>1
  <1>5. msg.id \in Nat
    BY <1>3, MessageFields
  <1>6. routed \in SUBSET (Channels \ {"signals"})
    BY DEF ClassifySubject
  <1> HIDE DEF msg, routed
  <1>7. rest \in Seq(Frames)
    BY <1>5, <1>6, RoutedFrames
  <1> HIDE DEF rest
  <1>8. signals => msg.subject \in {"sig.emitted", "ai.rank"}
    BY SignalSubjects
  <1>9. signals => /\ BufOK(Feed(msg).buf) /\ Cardinality(DOMAIN Feed(msg).buf.map) <= JoinCapacity
                   /\ Feed(msg).shown = <<>> \/ \E p \in Payloads : Feed(msg).shown = <<p>>
                   /\ \A k \in DOMAIN joins : joins[k].signal # 0 =>
                         StillSeen([map |-> joins, order |-> order], Feed(msg).buf, Feed(msg).shown, k)
    BY <1>3, <1>8, FeedOK DEF GwInv
  <1> HIDE DEF signals
  <1>10. shown = <<>> \/ \E p \in Payloads : shown = <<p>>
    BY <1>9
  <1> HIDE DEF shown
  <1>11. shown \in Seq(Payloads)
    <2>1. \A p \in Payloads : <<p>> \in Seq(Payloads)
      <3> HIDE DEF Payloads
      <3> QED  OBVIOUS
    <2>2. <<>> \in Seq(Payloads)
      OBVIOUS
    <2> QED  BY <1>10, <2>1, <2>2, Zenon
  <1>12. /\ front \in Seq(Frames) /\ DOMAIN front = 1..Len(shown)
         /\ \A i \in 1..Len(shown) : front[i] = [to |-> c, channel |-> "signals", payload |-> shown[i]]
    BY <1>11, OnSignals
  <1> HIDE DEF front
  <1>13. /\ front \o rest \in Seq(Frames)
         /\ \A i \in DOMAIN front : i \in DOMAIN (front \o rest) /\ (front \o rest)[i] = front[i]
    <2> HIDE DEF Frames
    <2> QED  BY <1>7, <1>12
  <1>14. ShadowedNeverShown'
    BY <1>1, <1>13, FramesShown DEF ShadowedNeverShown
  <1>15. BufOK([map |-> joins', order |-> order']) /\ Cardinality(DOMAIN joins') <= JoinCapacity
    <2>1. CASE signals
      BY <1>1, <1>9, <2>1 DEF BufOK
    <2>2. CASE ~signals
      BY <1>1, <2>2 DEF GwInv
    <2> QED  BY <2>1, <2>2
  <1>16. GwInv'
    BY <1>1, <1>4, <1>14, <1>15 DEF GwInv
  <1>17. ASSUME NEW k \in DOMAIN joins, joins[k].signal # 0  PROVE SeenAfter(k)
    <2>1. CASE ~signals
      BY <1>1, <2>1 DEF SeenAfter
    <2>2. CASE signals
      <3>1. StillSeen([map |-> joins, order |-> order], Feed(msg).buf, shown, k)
        BY <1>9, <1>17, <2>2 DEF shown
      <3>2. joins' = Feed(msg).buf.map
        BY <1>1, <2>2
      <3>3. ASSUME NEW q \in Payloads, shown = <<q>>, q.signal = joins[k].signal
            PROVE  ShownToSubscriber(joins[k].signal)
        <4>1. Len(shown) = 1 /\ shown[1] = q
          BY <3>3
        <4>2. 1 \in 1..Len(shown)
          BY <4>1
        <4>3. 1 \in DOMAIN sent' /\ sent'[1] = [to |-> c, channel |-> "signals", payload |-> q]
          BY <1>1, <1>12, <1>13, <4>1, <4>2
        <4>4. IsSubscribed(c, "signals")
          BY <2>2 DEF signals
        <4> QED  BY <3>3, <4>3, <4>4 DEF ShownToSubscriber
      <3> QED  BY <3>1, <3>2, <3>3 DEF StillSeen, SeenAfter
    <2> QED  BY <2>1, <2>2
  <1> QED  BY <1>16, <1>17

\* drain_signal_flushes shows the signals that it takes out.
LEMMA FlushKeeps ==
    ASSUME GwInv, NEW c \in Conns, Flush(c)
    PROVE  GwInv' /\ \A k \in DOMAIN joins : joins[k].signal # 0 => SeenAfter(k)
  <1> DEFINE b == [map |-> joins, order |-> order]
             due == IF IsSubscribed(c, "signals") THEN FlushDue ELSE {}
             w == Without(b, due)
             full == {x \in due : joins[x].signal # 0}
             P == {MergePayload(joins[k]) : k \in full}
             shown == SetToSeq(P)
  <1>1. /\ joins' = w.map /\ order' = w.order /\ sent' = OnChannel(c, "signals", shown)
        /\ UNCHANGED <<inbox, count>>
    BY DEF Flush
  <1>2. due \subseteq DOMAIN joins
    BY DEF FlushDue, Due
  <1>3. BufOK(b) /\ b.map = joins /\ b.order = order
    BY DEF GwInv
  <1> HIDE DEF b
  <1>4. /\ BufOK(w) /\ DOMAIN w.map = DOMAIN joins \ due
        /\ \A k \in DOMAIN joins \ due : w.map[k] = joins[k]
    BY <1>3, WithoutOK
  <1> HIDE DEF w, due
  <1>5. IsFiniteSet(DOMAIN joins)
    BY <1>3, ListLength DEF BufOK
  <1>6. IsFiniteSet(full) /\ full \subseteq DOMAIN joins
    BY <1>2, <1>5, FS_Subset
  <1>7. \A k \in full : MergePayload(joins[k]) \in Payloads /\ MergePayload(joins[k]).signal = joins[k].signal
    BY <1>2, <1>3, MergeOK DEF BufOK
  <1>8. IsFiniteSet(P)
    <2> DEFINE f == [k \in full |-> MergePayload(joins[k])]
    <2>1. P = {f[k] : k \in full}
      OBVIOUS
    <2> HIDE DEF f, full
    <2> QED  BY <1>6, <2>1, ImageFinite
  <1>9. P \subseteq Payloads
    BY <1>7
  <1> HIDE DEF P
  <1>10. Lists(shown, P)
    BY <1>8, SetListed
  <1> HIDE DEF shown
  <1>11. shown \in Seq(Payloads) /\ \A x \in P : \E i \in 1..Len(shown) : shown[i] = x
    BY <1>9, <1>10 DEF Lists
  <1>12. /\ sent' \in Seq(Frames) /\ DOMAIN sent' = 1..Len(shown)
         /\ \A i \in 1..Len(shown) : sent'[i] = [to |-> c, channel |-> "signals", payload |-> shown[i]]
    BY <1>1, <1>11, OnSignals
  <1>13. ShadowedNeverShown'
    BY <1>12, FramesShown DEF ShadowedNeverShown
  <1>14. BufOK([map |-> joins', order |-> order'])
    BY <1>1, <1>4 DEF BufOK
  <1>15. Cardinality(DOMAIN joins') <= JoinCapacity
    <2>1. DOMAIN joins' \subseteq DOMAIN joins
      BY <1>1, <1>4
    <2>2. Cardinality(DOMAIN joins') <= Cardinality(DOMAIN joins)
      BY <1>5, <2>1, FS_Subset
    <2>3. Cardinality(DOMAIN joins') \in Nat /\ Cardinality(DOMAIN joins) \in Nat /\ JoinCapacity \in Nat
      BY <1>5, <2>1, FS_Subset, FS_CardinalityType, GatewayAssumption DEF GatewayAssumption
    <2> QED  BY <2>2, <2>3 DEF GwInv
  <1>16. GwInv'
    BY <1>1, <1>13, <1>14, <1>15 DEF GwInv
  <1>17. ASSUME NEW k \in DOMAIN joins, joins[k].signal # 0  PROVE SeenAfter(k)
    <2>1. CASE k \notin due
      BY <1>1, <1>4, <2>1 DEF SeenAfter
    <2>2. CASE k \in due
      <3>1. k \in full /\ MergePayload(joins[k]) \in P
        BY <1>17, <2>2 DEF P
      <3>2. PICK i \in 1..Len(shown) : shown[i] = MergePayload(joins[k])
        BY <1>11, <3>1
      <3>3. i \in DOMAIN sent' /\ sent'[i] = [to |-> c, channel |-> "signals", payload |-> MergePayload(joins[k])]
        BY <1>12, <3>2
      <3>4. IsSubscribed(c, "signals")
        BY <2>2 DEF due
      <3>5. sent'[i].payload.signal = joins[k].signal
        BY <1>7, <3>1, <3>3
      <3> QED  BY <3>3, <3>4, <3>5 DEF SeenAfter, ShownToSubscriber
    <2> QED  BY <2>1, <2>2
  <1> QED  BY <1>16, <1>17

\* A step that leaves the buffer alone and shows nothing on the signals channel.
LEMMA QuietKeeps ==
    ASSUME GwInv, UNCHANGED <<joins, order>>, count' \in Nat,
           inbox' \in [Conns -> Seq(GwMessages)],
           \A i \in DOMAIN sent' : sent'[i].channel # "signals"
    PROVE  GwInv' /\ \A k \in DOMAIN joins : joins[k].signal # 0 => SeenAfter(k)
  <1>1. ShadowedNeverShown'
    BY DEF ShadowedNeverShown
  <1>2. BufOK([map |-> joins', order |-> order']) /\ Cardinality(DOMAIN joins') <= JoinCapacity
    BY DEF GwInv
  <1>3. GwInv'
    BY <1>1, <1>2 DEF GwInv
  <1>4. \A k \in DOMAIN joins : SeenAfter(k)
    BY DEF SeenAfter
  <1> QED  BY <1>3, <1>4

\* Intents and the list of alerts are on other channels.
LEMMA OtherFrames ==
    /\ \A i \in DOMAIN Published : Published[i].channel # "signals"
    /\ \A c, x : \A i \in DOMAIN <<[to |-> c, channel |-> "alerts", payload |-> x]>> :
          <<[to |-> c, channel |-> "alerts", payload |-> x]>>[i].channel # "signals"
    /\ \A i \in DOMAIN <<>> : <<>>[i].channel # "signals"
  <1>1. \A i \in DOMAIN Published : Published[i].channel # "signals"
    BY DEF Published
  <1>2. ASSUME NEW c, NEW x
        PROVE  \A i \in DOMAIN <<[to |-> c, channel |-> "alerts", payload |-> x]>> :
                  <<[to |-> c, channel |-> "alerts", payload |-> x]>>[i].channel # "signals"
    OBVIOUS
  <1> QED  BY <1>1, <1>2

\* An Append to a full or to a not yet full receiver.
LEMMA BroadcastKeeps ==
    ASSUME GwInv, NEW msg \in Message(count + 1), Broadcast(msg)
    PROVE  GwInv' /\ \A k \in DOMAIN joins : joins[k].signal # 0 => SeenAfter(k)
  <1> DEFINE Q == Seq(GwMessages)
  <1>1. /\ count' = count + 1 /\ sent' = <<>> /\ UNCHANGED <<joins, order>>
        /\ \/ inbox' = inbox
           \/ inbox' = [c \in Conns |->
                        CASE c \notin open -> inbox[c]
                          [] c \in open /\ Len(inbox[c]) < BroadcastDepth -> Append(inbox[c], msg)
                          [] OTHER -> Append(Tail(inbox[c]), msg)]
    BY DEF Broadcast
  <1>2. count \in Nat /\ inbox \in [Conns -> Q]
    BY DEF GwInv
  <1>3. count + 1 \in Nat \ {0}
    BY <1>2
  <1>4. msg \in GwMessages
    BY <1>3 DEF GwMessages
  <1>5. ASSUME NEW c \in Conns
        PROVE  (CASE c \notin open -> inbox[c]
                  [] c \in open /\ Len(inbox[c]) < BroadcastDepth -> Append(inbox[c], msg)
                  [] OTHER -> Append(Tail(inbox[c]), msg)) \in Q
    <2>1. inbox[c] \in Seq(GwMessages) /\ Len(inbox[c]) \in Nat
      BY <1>2
    <2>2. Append(inbox[c], msg) \in Q
      BY <1>4, <2>1
    <2>3. CASE Len(inbox[c]) < BroadcastDepth
      <3> HIDE DEF Q
      <3> QED  BY <1>2, <2>2, <2>3
    <2>4. CASE ~(Len(inbox[c]) < BroadcastDepth)
      <3>1. Len(inbox[c]) > 0
        BY <2>1, <2>4, GatewayAssumption DEF GatewayAssumption
      <3>2. inbox[c] # <<>>
        BY <3>1
      <3>3. Append(Tail(inbox[c]), msg) \in Q
        BY <1>4, <2>1, <3>2
      <3> HIDE DEF Q
      <3> QED  BY <1>2, <2>4, <3>3
    <2> QED  BY <2>3, <2>4
  <1> HIDE DEF Q
  <1>6. inbox' \in [Conns -> Q]
    BY <1>1, <1>2, <1>5
  <1>7. count' \in Nat /\ \A i \in DOMAIN sent' : sent'[i].channel # "signals"
    BY <1>1, <1>2, OtherFrames
  <1> QED  BY <1>1, <1>6, <1>7, QuietKeeps DEF Q

\* Connections come and go, clients ask, receivers lag and alerts are listed.
LEMMA ConnectionKeeps ==
    ASSUME GwInv, NEW c \in Conns,
           \/ Accept(c) \/ Close(c) \/ RecvLagged(c) \/ ListAlerts(c)
           \/ \E ch \in Wanted : Unsubscribe(c, ch) \/ \E ts \in SUBSET Topics : Subscribe(c, ch, ts)
           \/ \E valid, published \in BOOLEAN : Intent(c, valid, published)
    PROVE  GwInv' /\ \A k \in DOMAIN joins : joins[k].signal # 0 => SeenAfter(k)
  <1> DEFINE Q == Seq(GwMessages)
  <1>1. UNCHANGED <<joins, order, count>>
    BY DEF Accept, Close, RecvLagged, ListAlerts, Unsubscribe, Subscribe, Intent
  <1>2. count' \in Nat
    BY <1>1 DEF GwInv
  <1>3. inbox' \in [Conns -> Q]
    <2>1. inbox \in [Conns -> Q] /\ <<>> \in Q
      BY DEF GwInv
    <2> HIDE DEF Q
    <2>2. inbox' = inbox \/ inbox' = [inbox EXCEPT ![c] = <<>>]
      BY DEF Accept, Close, RecvLagged, ListAlerts, Unsubscribe, Subscribe, Intent
    <2> QED  BY <2>1, <2>2
  <1>4. \/ sent' = <<>> \/ sent' = Published
        \/ \E x : sent' = <<[to |-> c, channel |-> "alerts", payload |-> x]>>
    BY DEF Accept, Close, RecvLagged, ListAlerts, Unsubscribe, Subscribe, Intent
  <1>5. \A i \in DOMAIN sent' : sent'[i].channel # "signals"
    BY <1>4, OtherFrames
  <1> QED  BY <1>1, <1>2, <1>3, <1>5, QuietKeeps

\* Time passes for the entries of the buffer.
LEMMA AgeKeeps ==
    ASSUME GwInv, Age
    PROVE  GwInv' /\ \A k \in DOMAIN joins : joins[k].signal # 0 => SeenAfter(k)
  <1>1. /\ joins' = [k \in DOMAIN joins |->
                       IF Expired(joins[k]) THEN joins[k] ELSE [joins[k] EXCEPT !.age = @ + 1]]
        /\ sent' = <<>> /\ UNCHANGED <<order, inbox, count>>
    BY DEF Age
  <1>2. ASSUME NEW k \in DOMAIN joins  PROVE JoinOf(k, joins'[k]) /\ joins'[k].signal = joins[k].signal
    <2>1. JoinOf(k, joins[k])
      BY DEF GwInv, BufOK
    <2>2. CASE Expired(joins[k])
      BY <1>1, <2>1, <2>2
    <2>3. CASE ~Expired(joins[k])
      <3> DEFINE a == [joins[k] EXCEPT !.age = @ + 1]
      <3>1. joins'[k] = a
        BY <1>1, <2>3
      <3>2. joins[k] \in PendingJoin
        BY <2>1 DEF JoinOf
      <3>3. a \in PendingJoin /\ a.ranks = joins[k].ranks /\ a.signal = joins[k].signal
        BY <3>2 DEF PendingJoin
      <3> HIDE DEF a
      <3> QED  BY <2>1, <3>1, <3>3 DEF JoinOf
    <2> QED  BY <2>2, <2>3
  <1>3. DOMAIN joins' = DOMAIN joins
    BY <1>1
  <1>4. BufOK([map |-> joins', order |-> order'])
    BY <1>1, <1>2, <1>3 DEF GwInv, BufOK
  <1>5. ShadowedNeverShown'
    BY <1>1, OtherFrames DEF ShadowedNeverShown
  <1>6. GwInv'
    BY <1>1, <1>3, <1>4, <1>5 DEF GwInv
  <1>7. \A k \in DOMAIN joins : SeenAfter(k)
    BY <1>2, <1>3 DEF SeenAfter
  <1> QED  BY <1>6, <1>7

\* Every step keeps the invariant and loses sight of no signal.
LEMMA GwStep ==
    ASSUME GwInv, [GwNext]_gwVars
    PROVE  GwInv' /\ \A k \in DOMAIN joins : joins[k].signal # 0 => SeenAfter(k)
  <1>1. CASE UNCHANGED gwVars
    <2>1. UNCHANGED <<joins, order, inbox, count, sent>>
      BY <1>1 DEF gwVars
    <2>2. ShadowedNeverShown'
      BY <2>1 DEF GwInv, ShadowedNeverShown
    <2>3. BufOK([map |-> joins', order |-> order']) /\ Cardinality(DOMAIN joins') <= JoinCapacity
      BY <2>1 DEF GwInv
    <2>4. GwInv'
      BY <2>1, <2>2, <2>3 DEF GwInv
    <2> QED  BY <2>1, <2>4 DEF SeenAfter
  <1>2. CASE GwNext
    BY <1>2, RecvKeeps, FlushKeeps, BroadcastKeeps, ConnectionKeeps, AgeKeeps DEF GwNext
  <1> QED  BY <1>1, <1>2

\* The map of the join buffer and its eviction order stay in step and within
\* the capacity, whichever connections feed, flush and evict it.
THEOREM BufferStaysInStep == GwSpec => []JoinBufferInStep
  <1>1. GwInv /\ [GwNext]_gwVars => GwInv'
    BY GwStep
  <1>2. GwInv => JoinBufferInStep
    <2> SUFFICES ASSUME GwInv  PROVE JoinBufferInStep
      OBVIOUS
    <2>1. Lists(order, DOMAIN joins)
      BY DEF GwInv, BufOK
    <2>2. Len(order) = Cardinality(DOMAIN joins) /\ DOMAIN order = 1..Len(order)
      BY <2>1, ListLength DEF Lists
    <2>3. {order[i] : i \in DOMAIN order} = DOMAIN joins
      <3>1. \A i \in 1..Len(order) : order[i] \in DOMAIN joins
        BY <2>1 DEF Lists
      <3>2. \A k \in DOMAIN joins : \E i \in 1..Len(order) : order[i] = k
        BY <2>1 DEF Lists
      <3> QED  BY <2>2, <3>1, <3>2
    <2> QED  BY <2>2, <2>3 DEF GwInv, JoinBufferInStep
  <1> QED  BY <1>1, <1>2, GwInitInv, PTL DEF GwSpec

\* No rank of a shadowed component reaches a client (R23.2), however feeds,
\* joins and flushes of the connections interleave.
THEOREM ShadowedStayHidden == GwSpec => []ShadowedNeverShown
  <1>1. GwInv /\ [GwNext]_gwVars => GwInv'
    BY GwStep
  <1>2. GwInv => ShadowedNeverShown
    BY DEF GwInv
  <1> QED  BY <1>1, <1>2, GwInitInv, PTL DEF GwSpec

\* A buffered signal leaves the shared buffer of signals_join.rs only by being
\* shown to a subscriber of /signals, for a new key in a full buffer, or, without
\* a correlation id, for the next signal without one.
THEOREM NoSignalIsHidden == GwSpec => SignalsNotHidden
  <1>1. GwInv /\ [GwNext]_gwVars => GwInv'
    BY GwStep
  <1>2. GwInv /\ [GwNext]_gwVars =>
          [\A k \in DOMAIN joins : joins[k].signal # 0 =>
              \/ k \in DOMAIN joins' /\ joins'[k].signal = joins[k].signal
              \/ ShownToSubscriber(joins[k].signal)
              \/ Cardinality(DOMAIN joins) = JoinCapacity /\ DOMAIN joins' \ DOMAIN joins # {}
              \/ k = NoCid /\ k \in DOMAIN joins']_gwVars
    BY GwStep DEF SeenAfter
  <1> QED  BY <1>1, <1>2, GwInitInv, PTL DEF GwSpec, SignalsNotHidden
=============================================================================
